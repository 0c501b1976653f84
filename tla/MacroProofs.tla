---------------------------- MODULE MacroProofs ----------------------------
(***************************************************************************)
(* The macro's scheduler for any number of lanes, any crosstalk span and   *)
(* any sequence of service rates.                                          *)
(***************************************************************************)
EXTENDS Macro, TLAPS

\* Where the block has got to decides which transmit buffers are fresh and
\* which victims have been summed.
TransmitOrder ==
    /\ phase = "tx" => \A i \in Lanes : i < at => sent[i] = ms
    /\ phase \notin {"idle", "tx"} => \A i \in Lanes : sent[i] = ms
    /\ phase = "xtalk" => \A v \in Lanes : v < at => heard[v] \subseteq {ms}

MInv == MacroTypeOK /\ OneLane /\ Balanced /\ TransmitOrder /\ FreshAggressors

\* The factor lies between 1 and the number of lanes.
LEMMA ScaleRange ==
  ASSUME NEW s \in 1..N
  PROVE  Scale(s) \in 1..N
<1>1. N \in Nat \ {0}
  BY MacroAssumption
<1>2. s \in Nat \ {0} /\ s <= N /\ N + s - 1 \in Nat
  BY <1>1
<1>3. (N + s - 1) \div s >= 1
  BY <1>1, <1>2
<1>4. (N + s - 1) \div s <= N
  <2> DEFINE q == (N + s - 1) \div s
  <2>1. q \in Nat /\ s * q <= N + s - 1
    BY <1>2
  <2>2. N <= s * N
    BY <1>1, <1>2
  <2>3. ASSUME q >= N + 1 PROVE FALSE
    <3>1. s * q >= s * (N + 1)
      BY <1>1, <1>2, <2>1, <2>3
    <3>2. s * (N + 1) = s * N + s
      BY <1>1, <1>2
    <3> HIDE DEF q
    <3>3. QED
      BY <1>1, <1>2, <2>1, <2>2, <3>1, <3>2
  <2>4. QED
    BY <1>1, <2>1, <2>3
<1>5. QED
  BY <1>1, <1>2, <1>3, <1>4 DEF Scale

\* The number of lanes and the lane next in turn.
LEMMA LaneFacts ==
  /\ N \in Nat \ {0} /\ 0 \in Lanes /\ N - 1 \in Lanes
  /\ Clamp(N) \in 1..N
  /\ \A i \in Lanes : NextLane(i) \in Lanes
  BY MacroAssumption DEF Lanes, Clamp, NextLane

\* Before the first block.
LEMMA MacroInitInv == MacroInit => MInv
<1> SUFFICES ASSUME MacroInit PROVE MInv
  OBVIOUS
<1>1. MacroTypeOK
  <2>1. service \in 1..N /\ scale \in 1..N
    BY LaneFacts, ScaleRange DEF MacroInit
  <2>2. sel \in [Cores -> Lanes]
    BY LaneFacts DEF MacroInit, Cores
  <2>3. QED
    BY <2>1, <2>2, LaneFacts DEF MacroInit, MacroTypeOK, Phases, Gears
<1>2. Balanced
  BY LaneFacts DEF MacroInit, Balanced, Lanes
<1>3. OneLane /\ TransmitOrder /\ FreshAggressors
  BY DEF MacroInit, OneLane, TransmitOrder, FreshAggressors
<1>4. QED
  BY <1>1, <1>2, <1>3 DEF MInv

\* Changing the service rate between blocks.
LEMMA SetServiceKeeps ==
  ASSUME MInv, NEW s \in 0..(N + 1), SetService(s)
  PROVE  MInv'
<1>1. Clamp(s) \in 1..N
  BY LaneFacts DEF Clamp
<1>2. MacroTypeOK'
  BY <1>1, ScaleRange DEF MInv, MacroTypeOK, SetService, lanestate, signals
<1>3. QED
  BY <1>2 DEF MInv, SetService, OneLane, Balanced, TransmitOrder, FreshAggressors,
     lanestate, signals

\* A block begins with no buffer fresh.
LEMMA BeginKeeps == MInv /\ Begin => MInv'
<1> SUFFICES ASSUME MInv, Begin PROVE MInv'
  OBVIOUS
<1>1. MacroTypeOK'
  BY LaneFacts DEF MInv, MacroTypeOK, Begin, Phases, lanestate, signals
<1>2. QED
  BY <1>1 DEF MInv, Begin, OneLane, Balanced, TransmitOrder, FreshAggressors,
     Lanes, lanestate, signals

\* Lane `at` transmits; after the last one every buffer is fresh.
LEMMA TransmitKeeps == MInv /\ Transmit => MInv'
<1> SUFFICES ASSUME MInv, Transmit PROVE MInv'
  OBVIOUS
<1>1. at \in Lanes /\ ms \in Nat /\ sent \in [Lanes -> Int]
  BY DEF MInv, MacroTypeOK
<1>2. \/ at = N - 1 /\ phase' = "xtalk" /\ at' = 0
      \/ at # N - 1 /\ phase' = "tx" /\ at' = at + 1
  BY DEF Transmit, AfterTx, Goto
<1>3. MacroTypeOK'
  <2>1. sel' \in [Cores -> Lanes]
    BY <1>1 DEF MInv, MacroTypeOK, Transmit, Window
  <2>2. sent' \in [Lanes -> Int]
    BY <1>1 DEF Transmit
  <2>3. at' \in Lanes /\ phase' \in Phases
    BY <1>1, <1>2, MacroAssumption DEF Lanes, Phases
  <2>4. QED
    BY <2>1, <2>2, <2>3 DEF MInv, MacroTypeOK, Transmit, lanestate
<1>4. \A i \in Lanes : i <= at => sent'[i] = ms
  BY <1>1 DEF MInv, TransmitOrder, Transmit, Lanes
<1>5. TransmitOrder'
  <2>1. ms' = ms
    BY DEF Transmit
  <2>2. QED
    BY <1>1, <1>2, <1>4, <2>1, MacroAssumption DEF TransmitOrder, Lanes
<1>6. OneLane' /\ Balanced' /\ FreshAggressors'
  BY <1>2 DEF MInv, Transmit, OneLane, Balanced, FreshAggressors
<1>7. QED
  BY <1>3, <1>5, <1>6 DEF MInv

\* Victim `at` is summed from fresh buffers only.
LEMMA CrosstalkKeeps == MInv /\ Crosstalk => MInv'
<1> SUFFICES ASSUME MInv, Crosstalk PROVE MInv'
  OBVIOUS
<1>1. /\ at \in Lanes /\ ms \in Nat
      /\ heard \in [Lanes -> SUBSET Int]
      /\ \A i \in Lanes : sent[i] = ms
  BY DEF MInv, MacroTypeOK, TransmitOrder, Crosstalk
<1>2. \/ at = N - 1 /\ phase' = "rx" /\ at' = 0
      \/ at # N - 1 /\ phase' = "xtalk" /\ at' = at + 1
  BY DEF Crosstalk, AfterXtalk, Goto
<1>3. {sent[a] : a \in Aggressors(at)} \subseteq {ms}
  BY <1>1 DEF Aggressors
<1>4. \A v \in Lanes : v <= at => heard'[v] \subseteq {ms}
  BY <1>1, <1>3 DEF MInv, TransmitOrder, Crosstalk, Lanes
<1>5. MacroTypeOK'
  <2>1. heard' \in [Lanes -> SUBSET Int]
    BY <1>1, <1>3 DEF Crosstalk
  <2>2. at' \in Lanes /\ phase' \in Phases
    BY <1>1, <1>2, LaneFacts, SMTT(60) DEF Lanes, Phases
  <2>3. QED
    BY <2>1, <2>2 DEF MInv, MacroTypeOK, Crosstalk, lanestate
<1>6. TransmitOrder' /\ FreshAggressors'
  <2>1. ms' = ms /\ sent' = sent
    BY DEF Crosstalk
  <2>2. QED
    BY <1>1, <1>2, <1>4, <2>1, MacroAssumption DEF TransmitOrder, FreshAggressors, Lanes
<1>7. OneLane' /\ Balanced'
  BY <1>2 DEF MInv, Crosstalk, OneLane, Balanced, lanestate
<1>8. QED
  BY <1>5, <1>6, <1>7 DEF MInv

\* Reception moves the window and the index.
LEMMA ReceiveKeeps == MInv /\ Receive => MInv'
<1> SUFFICES ASSUME MInv, Receive PROVE MInv'
  OBVIOUS
<1>1. at \in Lanes
  BY DEF MInv, MacroTypeOK
<1>2. \/ at = N - 1 /\ phase' = "select" /\ at' = 0
      \/ at # N - 1 /\ phase' = "rx" /\ at' = at + 1
  BY DEF Receive, AfterRx, Goto
<1>3. MacroTypeOK'
  <2>1. sel' \in [Cores -> Lanes]
    BY <1>1 DEF MInv, MacroTypeOK, Receive, Window
  <2>2. at' \in Lanes /\ phase' \in Phases
    BY <1>1, <1>2, LaneFacts DEF Lanes, Phases
  <2>3. QED
    BY <2>1, <2>2 DEF MInv, MacroTypeOK, Receive, lanestate, signals
<1>4. QED
  BY <1>2, <1>3 DEF MInv, Receive, OneLane, Balanced, TransmitOrder, FreshAggressors,
     signals

\* Selecting a lane moves every context and the cached gear with it.
LEMMA SelectKeeps == MInv /\ Select => MInv'
<1> SUFFICES ASSUME MInv, Select PROVE MInv'
  OBVIOUS
<1>1. sel' \in [Cores -> Lanes] /\ mu' \in Gears
  BY DEF MInv, MacroTypeOK, Select, SelectLane
<1>2. MacroTypeOK'
  BY <1>1 DEF MInv, MacroTypeOK, Select, Phases, signals
<1>3. OneLane'
  BY DEF Select, SelectLane, OneLane
<1>4. QED
  BY <1>2, <1>3 DEF MInv, Select, Balanced, TransmitOrder, FreshAggressors, signals

\* A tick services the lane in turn and moves the turn on.
LEMMA TickKeeps ==
  ASSUME MInv, NEW g \in Gears, NEW cached \in Gears, TickLane(g, cached)
  PROVE  MInv'
<1>1. at \in Lanes /\ rr \in Lanes /\ service \in 1..N /\ services \in [Lanes -> Nat]
  BY DEF MInv, MacroTypeOK
<1>2. \/ phase' = "select" /\ at' = at + 1 /\ at + 1 < service
      \/ phase' = "end" /\ at' = 0
  BY DEF TickLane, AfterTick, Goto
<1>3. MacroTypeOK'
  <2>1. at' \in Lanes /\ phase' \in Phases
    BY <1>1, <1>2, MacroAssumption DEF Lanes, Phases
  <2>2. services' \in [Lanes -> Nat] /\ rr' \in Lanes
    BY <1>1, LaneFacts DEF TickLane
  <2>3. gear' \in [Lanes -> Gears] /\ mu' \in Gears
    BY DEF MInv, MacroTypeOK, TickLane
  <2>4. waited' \in [Lanes -> Nat]
    BY DEF MInv, MacroTypeOK, TickLane
  <2>5. QED
    BY <2>1, <2>2, <2>3, <2>4 DEF MInv, MacroTypeOK, TickLane, signals
<1>4. Balanced'
  <2>1. \A i \in Lanes : services[i] = services[N - 1] + (IF i < rr THEN 1 ELSE 0)
    BY DEF MInv, Balanced
  <2>2. services' = [services EXCEPT ![rr] = @ + 1]
        /\ rr' = IF rr + 1 = N THEN 0 ELSE rr + 1
    BY DEF TickLane, NextLane
  <2>3. CASE rr + 1 = N
    BY <1>1, <2>1, <2>2, <2>3, MacroAssumption DEF Balanced, Lanes
  <2>4. CASE rr + 1 # N
    BY <1>1, <2>1, <2>2, <2>4, MacroAssumption DEF Balanced, Lanes
  <2>5. QED
    BY <2>3, <2>4
<1>5. OneLane' /\ TransmitOrder' /\ FreshAggressors'
  BY <1>2 DEF MInv, TickLane, OneLane, TransmitOrder, FreshAggressors, signals
<1>6. QED
  BY <1>3, <1>4, <1>5 DEF MInv

\* The block is over; nothing heard in it is asked for again.
LEMMA EndKeeps == MInv /\ End => MInv'
<1> SUFFICES ASSUME MInv, End PROVE MInv'
  OBVIOUS
<1>1. MacroTypeOK'
  BY LaneFacts DEF MInv, MacroTypeOK, End, Phases, lanestate, signals
<1>2. QED
  BY <1>1 DEF MInv, End, OneLane, Balanced, TransmitOrder, FreshAggressors

\* Every step keeps the invariant.
THEOREM MacroNextKeeps == MInv /\ [MacroNext]_mvars => MInv'
<1> SUFFICES ASSUME MInv, [MacroNext]_mvars PROVE MInv'
  OBVIOUS
<1>1. CASE \E s \in 0..(N + 1) : SetService(s)
  BY <1>1, SetServiceKeeps
<1>2. CASE Begin \/ Transmit \/ Crosstalk \/ Receive \/ Select \/ End
  BY <1>2, BeginKeeps, TransmitKeeps, CrosstalkKeeps, ReceiveKeeps, SelectKeeps, EndKeeps
<1>3. CASE Tick
  <2>1. gear[sel["hal"]] \in Gears /\ mu \in Gears /\ {"acq", "track", "off"} \subseteq Gears
    BY DEF MInv, MacroTypeOK, Cores, Gears
  <2>2. QED
    BY <1>3, <2>1, TickKeeps DEF Tick
<1>4. CASE UNCHANGED mvars
  BY <1>4 DEF MInv, MacroTypeOK, OneLane, Balanced, TransmitOrder, FreshAggressors,
     mvars, lanestate, signals
<1>5. QED
  BY <1>1, <1>2, <1>3, <1>4 DEF MacroNext

\* The invariant holds throughout every run.
THEOREM MacroInvariance == MacroSpec => []MInv
  BY MacroInitInv, MacroNextKeeps, PTL DEF MacroSpec

\* A tick never runs with the window on one lane and a loop, or the cached
\* gear, on another.
THEOREM WindowsMoveTogether == MacroSpec => []OneLane
<1>1. MInv => OneLane
  BY DEF MInv
<1>2. QED
  BY <1>1, MacroInvariance, PTL

\* No lane is ever serviced twice more than another, for any number of lanes
\* and whatever service rates are set.
THEOREM RoundRobinFair == MacroSpec => []Balanced
<1>1. MInv => Balanced
  BY DEF MInv
<1>2. QED
  BY <1>1, MacroInvariance, PTL

\* Crosstalk is always this block's.
THEOREM CrosstalkIsCurrent == MacroSpec => []FreshAggressors
<1>1. MInv => FreshAggressors
  BY DEF MInv
<1>2. QED
  BY <1>1, MacroInvariance, PTL
(* The wait for a tick.                                                    *)

\* Services before lane i's turn, and those this block has done.
Ahead(i) == IF i >= rr THEN i - rr ELSE i - rr + N
DoneNow  == IF phase \in {"select", "tick"} THEN at ELSE IF phase = "end" THEN service ELSE 0

\* Each block a lane has waited through spent `service` of the at most N - 1
\* services that can come between two of its own.
Waiting(i) == waited[i] > 0 => service * (waited[i] - 1) + Ahead(i) + DoneNow <= N - 1
WaitInv ==
    /\ scale = Scale(service)
    /\ phase \in {"select", "tick"} => at < service
    /\ \A i \in Lanes : Waiting(i)

\* A lane whose wait is accounted for has not waited longer than the factor.
LEMMA AccountedWait ==
  ASSUME NEW s \in 1..N, NEW w \in Nat, w > 0 => s * (w - 1) <= N - 1
  PROVE  w <= Scale(s)
<1>1. N \in Nat /\ s \in Nat /\ s > 0
  BY LaneFacts
<1>2. \A x, q \in Nat : s * q <= x => q <= x \div s
  BY <1>1
<1>3. CASE w > 0
  <2>1. s * w = s * (w - 1) + s
    BY <1>1
  <2>2. s * w <= N + s - 1 /\ N + s - 1 \in Nat
    <3> DEFINE y == s * (w - 1)
    <3>1. y \in Int /\ y <= N - 1 /\ s * w = y + s
      BY <1>1, <1>3, <2>1
    <3> HIDE DEF y
    <3>2. QED
      BY <1>1, <3>1
  <2>3. QED
    BY <1>2, <2>2 DEF Scale
<1>4. CASE w = 0
  BY <1>1, <1>2, <1>4, ScaleRange
<1>5. QED
  BY <1>3, <1>4

\* A tick brings every other lane's turn nearer by the one service it spends.
LEMMA TickWaits ==
  ASSUME MInv, WaitInv, NEW g \in Gears, NEW cached \in Gears, TickLane(g, cached)
  PROVE  WaitInv'
<1>1. /\ at \in Lanes /\ rr \in Lanes /\ service \in 1..N /\ waited \in [Lanes -> Nat]
      /\ N \in Nat /\ N > 0 /\ phase = "tick" /\ at < service
  BY LaneFacts DEF MInv, MacroTypeOK, TickLane, WaitInv
<1>2. /\ service' = service /\ scale' = scale /\ rr' = NextLane(rr)
      /\ waited' = [waited EXCEPT ![rr] = 0]
  BY DEF TickLane
<1>3. \/ phase' = "select" /\ at' = at + 1 /\ at + 1 < service
      \/ phase' = "end" /\ ~(at + 1 < service)
  BY DEF TickLane, AfterTick, Goto
<1>4. DoneNow = at /\ DoneNow' = at + 1
  BY <1>1, <1>2, <1>3 DEF DoneNow, Lanes
<1>5. \A i \in Lanes : i # rr => Ahead(i)' = Ahead(i) - 1 /\ Ahead(i) \in Int
  BY <1>1, <1>2 DEF Ahead, NextLane, Lanes
<1>6. ASSUME NEW i \in Lanes PROVE Waiting(i)'
  <2>1. CASE i = rr
    BY <1>1, <1>2, <2>1 DEF Waiting
  <2>2. CASE i # rr
    <3> DEFINE y == service * (waited[i] - 1)
    <3>1. waited'[i] = waited[i] /\ waited[i] \in Nat
      BY <1>1, <1>2, <2>2
    <3>2. y \in Int
      BY <1>1, <3>1
    <3>3. waited[i] > 0 => y + Ahead(i) + at <= N - 1
      BY <1>4 DEF WaitInv, Waiting
    <3> HIDE DEF y
    <3>4. at \in Int
      BY <1>1 DEF Lanes
    <3>5. waited[i] > 0 => y + (Ahead(i) - 1) + (at + 1) <= N - 1
      BY <1>5, <2>2, <3>2, <3>3, <3>4
    <3>6. QED
      BY <1>2, <1>4, <1>5, <2>2, <3>1, <3>5 DEF Waiting, y
  <2>3. QED
    BY <2>1, <2>2
<1>7. QED
  BY <1>2, <1>3, <1>6 DEF WaitInv

\* A block's end adds one to every wait, and accounts for its services.
LEMMA EndWaits ==
  ASSUME MInv, WaitInv, End
  PROVE  WaitInv'
<1>1. /\ rr \in Lanes /\ service \in 1..N /\ waited \in [Lanes -> Nat]
      /\ N \in Nat /\ N > 0 /\ service \in Nat
  BY LaneFacts DEF MInv, MacroTypeOK
<1>2. /\ service' = service /\ scale' = scale /\ rr' = rr /\ phase = "end" /\ phase' = "idle"
      /\ waited' = [i \in Lanes |-> waited[i] + 1]
  BY DEF End
<1>3. DoneNow = service /\ DoneNow' = 0
  BY <1>2 DEF DoneNow
<1>4. ASSUME NEW i \in Lanes PROVE Waiting(i)'
  <2>1. waited'[i] = waited[i] + 1 /\ waited[i] \in Nat /\ waited[i] + 1 - 1 = waited[i]
    BY <1>1, <1>2
  <2>2. Ahead(i)' = Ahead(i) /\ Ahead(i) \in 0..(N - 1)
    BY <1>1, <1>2 DEF Ahead, Lanes
  <2>3. service * waited[i] + Ahead(i) + 0 <= N - 1
    <3>1. CASE waited[i] = 0
      BY <1>1, <2>2, <3>1
    <3>2. CASE waited[i] > 0
      <4> DEFINE y == service * (waited[i] - 1)
      <4>1. y \in Int /\ service * waited[i] = y + service
        BY <1>1, <2>1
      <4>2. y + Ahead(i) + service <= N - 1
        BY <1>3, <3>2 DEF WaitInv, Waiting
      <4> HIDE DEF y
      <4>3. QED
        BY <1>1, <2>2, <4>1, <4>2
    <3>3. QED
      BY <2>1, <3>1, <3>2
  <2>4. QED
    BY <1>2, <1>3, <2>1, <2>2, <2>3 DEF Waiting
<1>5. QED
  BY <1>2, <1>4 DEF WaitInv

\* The steps that service no lane leave every wait as it is.
LEMMA OtherWaits ==
  ASSUME MInv, WaitInv, Begin \/ Transmit \/ Crosstalk \/ Receive \/ Select \/ UNCHANGED mvars
  PROVE  WaitInv'
<1>1. /\ service' = service /\ scale' = scale /\ rr' = rr /\ waited' = waited
  BY DEF Begin, Transmit, Crosstalk, Receive, Select, mvars
<1>2. service \in 1..N /\ at \in Lanes
  BY DEF MInv, MacroTypeOK
<1>3. DoneNow' = DoneNow /\ (phase' \in {"select", "tick"} => at' < service)
  <2>1. CASE Begin
    BY <2>1 DEF Begin, DoneNow
  <2>2. CASE Transmit
    BY <2>2 DEF Transmit, AfterTx, Goto, DoneNow
  <2>3. CASE Crosstalk
    BY <2>3 DEF Crosstalk, AfterXtalk, Goto, DoneNow
  <2>4. CASE Receive
    BY <1>2, <2>4 DEF Receive, AfterRx, Goto, DoneNow
  <2>5. CASE Select
    BY <2>5 DEF Select, DoneNow, WaitInv
  <2>6. CASE UNCHANGED mvars
    BY <2>6 DEF mvars, DoneNow, WaitInv
  <2>7. QED
    BY <2>1, <2>2, <2>3, <2>4, <2>5, <2>6
<1>4. \A i \in Lanes : Waiting(i)'
  BY <1>1, <1>3 DEF WaitInv, Waiting, Ahead
<1>5. QED
  BY <1>1, <1>3, <1>4 DEF WaitInv

\* Waits are accounted for throughout.
LEMMA WaitInvariance == MacroSpec => [](MInv /\ WaitInv)
<1>1. MacroInit => WaitInv
  <2> SUFFICES ASSUME MacroInit PROVE WaitInv
    OBVIOUS
  <2>1. \A i \in Lanes : ~(waited[i] > 0)
    BY DEF MacroInit
  <2>2. QED
    BY <2>1 DEF MacroInit, WaitInv, Waiting
<1>2. MInv /\ WaitInv /\ [MacroNext]_mvars => WaitInv'
  <2> SUFFICES ASSUME MInv, WaitInv, [MacroNext]_mvars PROVE WaitInv'
    OBVIOUS
  <2>1. ASSUME NEW s \in 0..(N + 1), SetService(s) PROVE WaitInv'
    <3>1. \A i \in Lanes : ~(waited'[i] > 0)
      BY <2>1 DEF SetService
    <3>2. QED
      BY <2>1, <3>1 DEF SetService, WaitInv, Waiting
  <2>2. CASE Begin \/ Transmit \/ Crosstalk \/ Receive \/ Select \/ UNCHANGED mvars
    BY <2>2, OtherWaits
  <2>3. CASE Tick
    <3>1. gear[sel["hal"]] \in Gears /\ mu \in Gears /\ {"acq", "track", "off"} \subseteq Gears
      BY DEF MInv, MacroTypeOK, Cores, Gears
    <3>2. QED
      BY <2>3, <3>1, TickWaits DEF Tick
  <2>4. CASE End
    BY <2>4, EndWaits
  <2>5. QED
    BY <2>1, <2>2, <2>3, <2>4 DEF MacroNext
<1>3. QED
  BY <1>1, <1>2, MacroInvariance, PTL DEF MacroSpec

\* No lane waits more blocks for its tick than the factor its timeouts are
\* stretched by, for any number of lanes and any service rate
\* (hw_macro_set_service).
THEOREM WaitsWithinScale == MacroSpec => []WaitWithinScale
<1>1. MInv /\ WaitInv => WaitWithinScale
  <2> SUFFICES ASSUME MInv, WaitInv, NEW i \in Lanes PROVE waited[i] <= scale
    BY DEF WaitWithinScale
  <2>1. /\ rr \in Lanes /\ at \in Lanes /\ service \in 1..N /\ waited[i] \in Nat
        /\ N \in Nat /\ N > 0 /\ service \in Nat
    BY LaneFacts DEF MInv, MacroTypeOK
  <2>2. Ahead(i) \in Nat /\ DoneNow \in Nat
    BY <2>1 DEF Ahead, DoneNow, Lanes
  <2>3. waited[i] > 0 => service * (waited[i] - 1) <= N - 1
    <3> DEFINE y == service * (waited[i] - 1)
    <3>1. y \in Int
      BY <2>1
    <3>2. waited[i] > 0 => y + Ahead(i) + DoneNow <= N - 1
      BY DEF WaitInv, Waiting
    <3> HIDE DEF y
    <3>3. waited[i] > 0 => y <= N - 1
      BY <2>1, <2>2, <3>1, <3>2
    <3>4. QED
      BY <3>3 DEF y
  <2>4. waited[i] <= Scale(service)
    BY <2>1, <2>3, AccountedWait
  <2>5. QED
    BY <2>4 DEF WaitInv
<1>2. QED
  BY <1>1, WaitInvariance, PTL

\* The scheduler's state stays of its type (hw_macro_block).
THEOREM MacroStaysTyped == MacroSpec => []MacroTypeOK
<1>1. MInv => MacroTypeOK
  BY DEF MInv
<1>2. QED
  BY <1>1, MacroInvariance, PTL
=============================================================================
