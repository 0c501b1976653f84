----------------------------- MODULE LaneProofs -----------------------------
(***************************************************************************)
(* The lane: its hardware is one of those Bringup allows for, so all that  *)
(* BringupProofs shows holds of it; and with the supervisor's clock it     *)
(* keeps its deadlines, judges on evidence and loses lock with hysteresis, *)
(* for every table of timeouts, service rate and width of the counter.     *)
(*                                                                         *)
(* The invariants tie the firmware's wrapped arithmetic to the true time   *)
(* in a state (OnTime), its counters to what EQ_VERIFY has really read     *)
(* (OnEvidence) and its unlock count to the true run of ticks (OnRun).     *)
(***************************************************************************)
EXTENDS Lane, BringupProofs, Induction

Timed == States \ {"RESET", "UP", "FAULT"}
-----------------------------------------------------------------------------
\* A tick with good measurements only is a tick.
LEMMA CalmTick == Tick({TRUE}, {TRUE}) => FwTick
  BY DEF Tick, FwTick

\* The lane's hardware drives its registers within HwBlock.
LEMMA BlockIsHw == Block => HwBlock
<1> SUFFICES ASSUME Block PROVE HwBlock
  OBVIOUS
<1>1. symCnt' \in SymCounts /\ errCnt' \in ErrCounts
  BY LaneAssumption DEF Block, Errors
<1>2. \E live \in SUBSET StatusBits : status' = live \cup (status \cap {"LOS"})
  <2> DEFINE live == (IF pll'.locked THEN {"PLL"} ELSE {})
                     \cup (IF signal THEN {"SIGDET"} ELSE {"LOS"})
                     \cup (IF cdrCount' = LockDwell THEN {"CDR"} ELSE {})
  <2>1. live \in SUBSET StatusBits
    BY DEF StatusBits
  <2>2. status' = live \cup (status \cap {"LOS"})
    BY DEF Block
  <2>3. QED
    BY <2>1, <2>2
<1>3. QED
  BY <1>1, <1>2 DEF Block, HwBlock

\* A step of the lane, calm or not, is a step of the bring-up or a stutter.
LEMMA LaneStep == [LaneNext \/ FallCalm]_lvars => [Next]_vars
<1>1. Service => FwTick
  BY CalmTick DEF Service
<1>2. QED
  BY <1>1, BlockIsHw DEF LaneNext, Glitch, FallCalm, Next, lvars

\* The lane implements the bring-up firmware under its most general hardware.
THEOREM LaneImplements == LaneSpec => Spec
<1>1. LaneInit => Init
  BY DEF LaneInit
<1>2. [LaneNext]_lvars => [Next]_vars
  BY LaneStep
<1>3. QED
  BY <1>1, <1>2, PTL DEF LaneSpec, Spec

\* What the bring-up keeps under any hardware it keeps under this one.
THEOREM LaneKeeps == LaneSpec => [](LoopsMatchState /\ AttemptStartsClean)
  BY LaneImplements, FreezeAndHold, CleanAttempts, PTL

\* ... LinkService's promise included.
THEOREM LanePromise == LaneSpec => KeepsPromise
  BY LaneImplements, PromiseKept, PTL
-----------------------------------------------------------------------------
(* What a tick does to the clock and to the counters.                      *)

\* What a tick does to the state and its deadline.
TickTimes ==
    /\ ms' = ms
    /\ state' # state \/ LosFaults => entered' = ms
    /\ state' = state /\ ~LosFaults => entered' = entered
    /\ LosFaults => state' = "FAULT" /\ backoff' = backoff
    /\ state = "RESET" => state' = "PLL_LOCK"
    /\ state \in Timed /\ state' = state /\ ~LosFaults => ~Expired
    /\ state \in Timed \cup {"UP"} => state' # "RESET"
    /\ (/\ state' = "FAULT" /\ state \in Timed /\ ~LosFaults
        /\ ~(state = "EQ_VERIFY" /\ trainSyms' >= JudgeSyms)) => Expired
    /\ state # "FAULT" => backoff' = backoff
    /\ state = "FAULT" /\ ~LosFaults =>
         \/ state' = "FAULT" /\ backoff' = backoff
            /\ ~DeadlinePassed(entered, ms, backoff)
         \/ state' = "RESET" /\ backoff' = NextBackoff(backoff)
            /\ DeadlinePassed(entered, ms, backoff)

\* A tick follows its table of timeouts.
LEMMA TickTiming ==
  ASSUME FwTick, state \in States
  PROVE  TickTimes
<1> USE DEF TickTimes, Timed, States, InState, Enter, search
<1>1. CASE LosFault
  BY <1>1 DEF LosFault, LosFaults
<1>2. CASE Reset
  BY <1>2 DEF Reset
<1>3. CASE PllLock
  BY <1>3 DEF PllLock, StayOrTimeOut, TimeOut, Stay, link
<1>4. CASE WaitSignal
  BY <1>4 DEF WaitSignal, StayOrTimeOut, TimeOut, Stay, link
<1>5. ASSUME NEW inBand \in BOOLEAN, NEW vga \in VgaCodes, Agc(inBand, vga)
      PROVE  TickTimes
  BY <1>5 DEF Agc, AgcDone, StayOrTimeOut, TimeOut, Stay, link
<1>6. ASSUME NEW quiet \in BOOLEAN, CdrLock(quiet)
      PROVE  TickTimes
  BY <1>6 DEF CdrLock, StayOrTimeOut, TimeOut, Stay, link
<1>7. ASSUME NEW quiet \in BOOLEAN, EqTrain(quiet)
      PROVE  TickTimes
  BY <1>7 DEF EqTrain, StayOrTimeOut, TimeOut, Stay, link
<1>8. ASSUME NEW quiet \in BOOLEAN, NEW inBand \in BOOLEAN, EqVerify(quiet, inBand)
      PROVE  TickTimes
  BY <1>8 DEF EqVerify, StayOrTimeOut, TimeOut, Stay, link
<1>9. ASSUME NEW quiet \in BOOLEAN, NEW inBand \in BOOLEAN, Track(quiet, inBand)
      PROVE  TickTimes
  BY <1>9 DEF Track, StayOrTimeOut, TimeOut, Stay, link
<1>10. ASSUME NEW quiet \in BOOLEAN, NEW inBand \in BOOLEAN, Up(quiet, inBand)
       PROVE  TickTimes
  BY <1>10 DEF Up, UpSupervise, Stay, link
<1>11. CASE Fault
  BY <1>11 DEF Fault, Stay, link
<1>12. QED
  <2> HIDE DEF TickTimes
  <2>1. QED
    BY <1>1, <1>2, <1>3, <1>4, <1>5, <1>6, <1>7, <1>8, <1>9, <1>10, <1>11
       DEF FwTick, Tick
-----------------------------------------------------------------------------
(* Deadlines.                                                              *)

\* The values the backoff takes.
Backoffs == {b \in 2..BackoffCap : \E k \in Nat : b = 2^k}

\* The backoff never passes its cap.
LEMMA BackoffRange ==
  Backoffs \subseteq 2..BackoffCap /\ 2 \in Backoffs
  /\ \A b \in Backoffs : NextBackoff(b) \in Backoffs
<1>1. /\ Backoffs \in SUBSET (2..BackoffCap) /\ 2 \in Backoffs
      /\ \A b \in Backoffs : b < BackoffCap => 2 * b \in Backoffs
  <2>1. PICK K \in Nat : BackoffCap = 2^K
    <3>1. 1..BackoffCap \subseteq Nat
      BY ClockAssumption
    <3>2. QED
      BY <3>1, DoublingAssumption, Zenon
  <2>2. 2 \in Backoffs
    <3>1. 2 \in 2..BackoffCap
      BY ClockAssumption
    <3>2. QED
      BY <3>1, PowerOfTwo, Zenon DEF Backoffs
  <2>3. ASSUME NEW b \in Backoffs, b < BackoffCap
        PROVE  2 * b \in Backoffs
    <3>1. PICK k \in Nat : b = 2^k
      BY DEF Backoffs
    <3>2. b \in 2..BackoffCap /\ BackoffCap \in Nat
      BY ClockAssumption DEF Backoffs
    <3>3. k < K
      <4>1. CASE k = K
        <5>1. b = BackoffCap
          BY <2>1, <3>1, <4>1, Zenon
        <5>2. QED
          BY <2>3, <3>2, <5>1
      <4>2. CASE K < k
        <5>1. BackoffCap < b
          BY <2>1, <3>1, <4>2, PowerGrows, Zenon
        <5>2. QED
          BY <2>3, <3>2, <5>1
      <4>3. QED
        BY <4>1, <4>2
    <3>4. 2 * b <= BackoffCap
      BY <2>1, <3>1, <3>3, PowerGrows, Zenon
    <3>5. 2 * b = 2^(k + 1) /\ k + 1 \in Nat
      <4>1. k + 1 \in Nat
        OBVIOUS
      <4>2. 2^(k + 1) = 2 * 2^k
        BY PowerOfTwo, Zenon
      <4>3. QED
        BY <3>1, <4>1, <4>2, Zenon
    <3>6. 2 * b \in 2..BackoffCap
      BY <3>2, <3>4
    <3>7. QED
      BY <3>5, <3>6, Zenon DEF Backoffs
  <2>4. QED
    BY <2>2, <2>3 DEF Backoffs
<1>2. ASSUME NEW b \in Backoffs
      PROVE  NextBackoff(b) \in Backoffs
  <2>1. b \in Nat /\ b <= BackoffCap /\ BackoffCap \in Nat
    BY <1>1, ClockAssumption
  <2>2. CASE b < BackoffCap
    <3>1. 2 * b = b * 2
      BY <2>1
    <3>2. QED
      BY <1>1, <2>1, <2>2, <3>1 DEF NextBackoff
  <2>3. CASE b = BackoffCap
    BY <2>1, <2>3 DEF NextBackoff
  <2>4. QED
    BY <2>1, <2>2, <2>3
<1>3. QED
  BY <1>1, <1>2

\* The supervisor's clock and the histories stay in their ranges.
ClockTyped ==
    /\ since \in 0..TmoScale /\ age \in 0..TickMod
    /\ backoff \in Backoffs

\* The wrapped difference of the firmware's two stamps is the true time in
\* the state, as long as that fits the counter.
OnTime ==
    (state # "RESET" /\ age < TickMod) => WrapSub(ms, entered) = age

\* Time in a state runs past its budget only since the last service.
InBudget ==
    /\ state \in Timed => age < Budget(state) + since
    /\ state = "RESET" => age <= since
    /\ state = "FAULT" => age < backoff + since

TimeInv == ClockTyped /\ OnTime /\ InBudget

\* A millisecond later, the difference is one more.
LEMMA WrapStep ==
  ASSUME NEW a \in 0..(TickMod - 1), NEW b \in 0..(TickMod - 1),
         WrapSub(a, b) + 1 < TickMod
  PROVE  WrapSub(WrapAdd(a, 1), b) = WrapSub(a, b) + 1
  BY ClockAssumption DEF WrapSub, WrapAdd

\* What is below a budget stays below it when time is granted.
LEMMA BelowPlus ==
  ASSUME NEW x \in Nat, NEW y \in Nat, NEW z \in Nat, x < y
  PROVE  x < y + z
  OBVIOUS

\* The constants the deadlines are made of.
LEMMA Budgets ==
  /\ TickMod \in Nat \ {0} /\ TmoScale \in Nat \ {0} /\ BackoffCap \in Nat
  /\ BackoffCap >= 2 /\ BackoffCap + TmoScale <= TickMod
  /\ \A s \in States : Budget(s) \in Nat /\ Budget(s) + TmoScale <= TickMod
  /\ \A s \in Timed : Budget(s) > 0
<1>1. /\ TickMod \in Nat \ {0} /\ TmoScale \in Nat \ {0} /\ BackoffCap \in Nat
      /\ BackoffCap >= 2 /\ BackoffCap + TmoScale <= TickMod
  BY ClockAssumption, LaneAssumption
<1>2. ASSUME NEW s \in States
      PROVE  Budget(s) \in Nat /\ Budget(s) + TmoScale <= TickMod
  <2>1. Timeout[s] \in Nat
    BY ClockAssumption
  <2>2. Timeout[s] * TmoScale \in Nat
    BY <1>1, <2>1
  <2>3. QED
    BY <2>2, LaneAssumption DEF Budget, Tmo
<1>3. ASSUME NEW s \in Timed
      PROVE  Budget(s) > 0
  <2>1. Timeout[s] \in Nat /\ Timeout[s] > 0
    BY ClockAssumption, LaneAssumption DEF Timed
  <2>2. QED
    BY <1>1, <2>1 DEF Budget
<1>4. QED
  BY <1>1, <1>2, <1>3

\* A block makes every state one millisecond older.
LEMMA BlockOnTime ==
  ASSUME IInv, TimeInv, Block
  PROVE  TimeInv'
<1>1. /\ state \in States /\ entered \in 0..(TickMod - 1) /\ ms \in 0..(TickMod - 1)
  BY DEF IInv, TypeOK, LinkTypeOK
<1>2. /\ since < TmoScale /\ since' = since + 1 /\ ms' = WrapAdd(ms, 1)
      /\ age' = Min2(age + 1, TickMod)
      /\ state' = state /\ entered' = entered /\ backoff' = backoff
  BY DEF Block, AgeCap, link, search
<1>3. since \in 0..TmoScale /\ age \in 0..TickMod /\ backoff \in 2..BackoffCap
      /\ backoff \in Backoffs
  BY BackoffRange DEF TimeInv, ClockTyped
<1>4. since' \in 0..TmoScale /\ age' \in 0..TickMod /\ age' <= age + 1
  BY <1>2, <1>3, Budgets DEF Min2
<1>5. OnTime'
  <2> SUFFICES ASSUME state # "RESET", age' < TickMod
               PROVE  WrapSub(WrapAdd(ms, 1), entered) = age'
    BY <1>2 DEF OnTime
  <2>1. age < TickMod /\ age' = age + 1
    BY <1>2, <1>3, Budgets DEF Min2
  <2>2. WrapSub(ms, entered) = age
    BY <2>1 DEF TimeInv, OnTime
  <2>3. QED
    BY <1>1, <2>1, <2>2, WrapStep
<1>6. InBudget'
  <2>1. state \in Timed => age' < Budget(state) + since'
    BY <1>1, <1>2, <1>3, <1>4, Budgets DEF TimeInv, InBudget
  <2>2. state = "RESET" => age' <= since'
    BY <1>2, <1>3, <1>4, Budgets DEF TimeInv, InBudget
  <2>3. state = "FAULT" => age' < backoff + since'
    BY <1>2, <1>3, <1>4, Budgets DEF TimeInv, InBudget
  <2>4. QED
    BY <1>2, <2>1, <2>2, <2>3 DEF InBudget, Budget
<1>7. QED
  BY <1>2, <1>3, <1>4, <1>5, <1>6 DEF TimeInv, ClockTyped

\* A budget that has not passed on the firmware's clock has not passed.
LEMMA NotExpired ==
  ASSUME IInv, TimeInv, state \in Timed
  PROVE  Expired <=> age >= Budget(state)
<1>1. state \in States /\ state # "RESET"
  BY DEF Timed
<1>2. Budget(state) \in Nat /\ Budget(state) > 0 /\ Budget(state) + TmoScale <= TickMod
  BY <1>1, Budgets
<1>3. age < TickMod /\ age \in Nat
  <2>1. since \in 0..TmoScale /\ age \in 0..TickMod /\ age < Budget(state) + since
    BY DEF TimeInv, ClockTyped, InBudget
  <2>2. QED
    BY <1>2, <2>1, Budgets
<1>4. WrapSub(ms, entered) = age
  BY <1>1, <1>3 DEF TimeInv, OnTime
<1>5. QED
  BY <1>2, <1>3, <1>4 DEF Expired, DeadlinePassed, Tmo, Budget

\* ... and the same of the backoff.
LEMMA BackoffOver ==
  ASSUME IInv, TimeInv, state = "FAULT"
  PROVE  DeadlinePassed(entered, ms, backoff) <=> age >= backoff
<1>1. since \in 0..TmoScale /\ age \in 0..TickMod /\ backoff \in 2..BackoffCap
      /\ age < backoff + since
  BY BackoffRange DEF TimeInv, ClockTyped, InBudget
<1>2. age < TickMod
  BY <1>1, Budgets
<1>3. QED
  BY <1>1, <1>2 DEF TimeInv, OnTime, DeadlinePassed

\* A service leaves no state past its budget.
LEMMA ServiceOnTime ==
  ASSUME IInv, TimeInv, Service
  PROVE  TimeInv'
<1>1. /\ state \in States /\ entered \in 0..(TickMod - 1) /\ ms \in 0..(TickMod - 1)
  BY DEF IInv, TypeOK, LinkTypeOK
<1>2. TickTimes
  BY <1>1, CalmTick, TickTiming DEF Service
<1>3. /\ since' = 0
      /\ age' = IF state' # state \/ LosFaults THEN 0 ELSE age
  BY DEF Service
<1>4. since \in 0..TmoScale /\ age \in 0..TickMod /\ backoff \in Backoffs
  BY DEF TimeInv, ClockTyped
<1>5. backoff' \in Backoffs
  BY <1>2, <1>4, BackoffRange DEF TickTimes, Timed
<1>6. TmoScale \in Nat \ {0} /\ TickMod \in Nat \ {0} /\ backoff' \in Nat /\ backoff' > 0
  BY <1>5, Budgets, BackoffRange
<1>7. ClockTyped'
  BY <1>3, <1>4, <1>5, <1>6 DEF ClockTyped
<1>8. CASE state' # state \/ LosFaults
  <2>1. age' = 0 /\ entered' = ms /\ ms' = ms
    BY <1>2, <1>3, <1>8 DEF TickTimes
  <2>2. OnTime'
    BY <1>1, <2>1 DEF OnTime, WrapSub
  <2>3. state' \in Timed => Budget(state') \in Nat /\ Budget(state') > 0
    BY Budgets DEF Timed
  <2>4. InBudget'
    <3>1. state' \in Timed => age' < Budget(state') + since'
      BY <1>3, <2>1, <2>3
    <3>2. age' = 0 /\ since' \in Nat /\ backoff' \in Nat \ {0}
      BY <1>3, <1>6, <2>1
    <3>3. state' = "RESET" => age' <= since'
      BY <3>2
    <3>4. state' = "FAULT" => age' < backoff' + since'
      <4>1. age' \in Nat /\ age' < backoff'
        BY <3>2
      <4>2. QED
        BY <3>2, <4>1, BelowPlus
    <3>5. QED
      BY <3>1, <3>3, <3>4 DEF InBudget, Budget
  <2>5. QED
    BY <1>7, <2>2, <2>4 DEF TimeInv
<1>9. CASE state' = state /\ ~LosFaults
  <2>1. age' = age /\ entered' = entered /\ ms' = ms /\ state # "RESET"
    BY <1>2, <1>3, <1>9 DEF TickTimes
  <2>2. OnTime'
    BY <1>9, <2>1 DEF TimeInv, OnTime
  <2>3. state \in Timed => age < Budget(state)
    <3>1. state \in Timed => ~Expired
      BY <1>2, <1>9 DEF TickTimes
    <3>2. state \in Timed => Budget(state) \in Nat
      BY Budgets DEF Timed
    <3>3. QED
      BY <1>4, <3>1, <3>2, NotExpired
  <2>4. state = "FAULT" => age < backoff /\ backoff' = backoff
    <3>1. state = "FAULT" => ~DeadlinePassed(entered, ms, backoff) /\ backoff' = backoff
      BY <1>2, <1>9 DEF TickTimes
    <3>2. QED
      BY <1>4, <3>1, BackoffOver, BackoffRange
  <2>5. state \in Timed => Budget(state) \in Nat
    BY Budgets DEF Timed
  <2>6. InBudget'
    <3>1. state' \in Timed => age' < Budget(state') + since'
      BY <1>3, <1>4, <1>9, <2>1, <2>3, <2>5
    <3>2. age' = age /\ age \in Nat /\ since' \in Nat /\ backoff' \in Nat /\ state' # "RESET"
      BY <1>3, <1>4, <1>6, <1>9, <2>1
    <3>3. state' = "FAULT" => age < backoff'
      BY <1>9, <2>4
    <3>4. state' = "FAULT" => age' < backoff' + since'
      BY <3>2, <3>3, BelowPlus
    <3>5. QED
      BY <3>1, <3>2, <3>4 DEF InBudget, Budget
  <2>7. QED
    BY <1>7, <2>2, <2>6 DEF TimeInv
<1>10. QED
  BY <1>8, <1>9

\* The lane starts in RESET, which its first service leaves.
LEMMA InitOnTime == LaneInit => TimeInv
  BY Budgets, BackoffRange
     DEF LaneInit, Init, TimeInv, ClockTyped, OnTime, InBudget, Timed

\* Every step keeps the deadlines.
LEMMA StepOnTime == IInv /\ TimeInv /\ [LaneNext]_lvars => TimeInv'
<1> SUFFICES ASSUME IInv, TimeInv, [LaneNext]_lvars PROVE TimeInv'
  OBVIOUS
<1>1. CASE Block
  BY <1>1, BlockOnTime
<1>2. CASE Service
  BY <1>2, ServiceOnTime
<1>3. CASE Glitch \/ UNCHANGED lvars
  BY <1>3 DEF Glitch, lvars, vars, link, search, hist,
     TimeInv, ClockTyped, OnTime, InBudget, Expired, Budget
<1>4. QED
  BY <1>1, <1>2, <1>3 DEF LaneNext

\* The bring-up's invariant and the deadlines hold throughout.
LEMMA TimeInvariance == LaneSpec => [](IInv /\ TimeInv)
<1>1. LaneInit => TimeInv
  BY InitOnTime
<1>2. IInv /\ TimeInv /\ [LaneNext]_lvars => TimeInv'
  BY StepOnTime
<1>3. LaneSpec => []IInv
  BY LaneImplements, Invariance, PTL
<1>4. QED
  BY <1>1, <1>2, <1>3, PTL DEF LaneSpec

\* "EVERY state has a timeout": no state but UP outlives its budget by more
\* than the gap between two services, at any service rate and across any wrap.
THEOREM DeadlinesKept == LaneSpec => []DwellBounded
<1>1. IInv /\ TimeInv => DwellBounded
  <2> SUFFICES ASSUME IInv, TimeInv PROVE DwellBounded
    OBVIOUS
  <2>1. since \in 0..TmoScale /\ age \in Nat /\ TmoScale \in Nat
    BY Budgets DEF TimeInv, ClockTyped
  <2>2. ASSUME NEW s \in States \ {"RESET", "UP", "FAULT"}, state = s
        PROVE  age < Budget(s) + TmoScale
    BY <2>1, <2>2, Budgets DEF TimeInv, InBudget, Timed
  <2>3. (state = "RESET" => age <= TmoScale)
    BY <2>1 DEF TimeInv, InBudget
  <2>4. (state = "FAULT" => age < backoff + TmoScale)
    BY <2>1, BackoffRange DEF TimeInv, InBudget, ClockTyped
  <2>5. QED
    BY <2>2, <2>3, <2>4 DEF DwellBounded
<1>2. QED
  BY <1>1, TimeInvariance, PTL

\* No state is given up before its budget and no retry comes before the backoff.
THEOREM BudgetsHonoured == LaneSpec => NeverEarly
<1> DEFINE Punctual ==
      /\ (state' = "FAULT" /\ state \notin {"FAULT", "UP"} /\ ~LosFaults
            /\ ~(state = "EQ_VERIFY" /\ trainSyms' >= JudgeSyms))
           => age >= Budget(state)
      /\ (state = "FAULT" /\ state' = "RESET") => age >= backoff
<1>1. IInv /\ TimeInv /\ [LaneNext]_lvars => [Punctual]_lvars
  <2> SUFFICES ASSUME IInv, TimeInv, LaneNext PROVE Punctual
    OBVIOUS
  <2>1. CASE Service
    <3>1. state \in States /\ TickTimes
      BY <2>1, CalmTick, TickTiming DEF Service, IInv, TypeOK, LinkTypeOK
    <3>2. state = "RESET" => state' # "FAULT"
      BY <3>1 DEF TickTimes
    <3>3. state \in Timed => (Expired <=> age >= Budget(state))
      BY NotExpired
    <3>4. state = "FAULT" => (DeadlinePassed(entered, ms, backoff) <=> age >= backoff)
      BY BackoffOver
    <3>5. QED
      BY <3>1, <3>2, <3>3, <3>4 DEF TickTimes, Timed
  <2>2. CASE Block \/ Glitch
    BY <2>2 DEF Block, Glitch, vars, link
  <2>3. QED
    BY <2>1, <2>2 DEF LaneNext
<1>2. QED
  BY <1>1, TimeInvariance, PTL DEF LaneSpec, NeverEarly
-----------------------------------------------------------------------------
(* Evidence and hysteresis.                                                *)

\* What a tick does to the judgement's counters and to the unlock count.
TickCounts ==
    /\ LosFaults => state' = "FAULT"
    /\ state' = "EQ_VERIFY" => state \in {"EQ_TRAIN", "EQ_VERIFY"}
    /\ state' = "TRACK" => state \in {"EQ_VERIFY", "TRACK"}
    /\ state' = "UP" => state \in {"TRACK", "UP"}
    /\ state = "EQ_TRAIN" /\ state' = "EQ_VERIFY" => trainErrs' = 0 /\ trainSyms' = 0
    /\ state = "EQ_VERIFY" /\ ~LosFaults =>
         trainErrs' = trainErrs + errCnt /\ trainSyms' = trainSyms + symCnt
    /\ state \in {"TRACK", "UP"} => trainErrs' = trainErrs /\ trainSyms' = trainSyms
    /\ state = "UP" /\ state' = "UP" =>
         IF "CDR" \in status THEN unlock' = 0
         ELSE unlock' = Min2(unlock + 1, LossTicks) /\ ~LostLong(unlock')

\* A tick counts only in EQ_VERIFY and clears the count on the way there.
LEMMA TickCounting ==
  ASSUME FwTick
  PROVE  TickCounts
<1> USE DEF TickCounts, InState, Enter, train
<1>1. CASE LosFault
  BY <1>1 DEF LosFault, LosFaults
<1>2. CASE Reset
  BY <1>2 DEF Reset
<1>3. CASE PllLock
  BY <1>3 DEF PllLock, StayOrTimeOut, TimeOut, Stay, link
<1>4. CASE WaitSignal
  BY <1>4 DEF WaitSignal, StayOrTimeOut, TimeOut, Stay, link
<1>5. ASSUME NEW inBand \in BOOLEAN, NEW vga \in VgaCodes, Agc(inBand, vga)
      PROVE  TickCounts
  BY <1>5 DEF Agc, AgcDone, StayOrTimeOut, TimeOut, Stay, link
<1>6. ASSUME NEW quiet \in BOOLEAN, CdrLock(quiet)
      PROVE  TickCounts
  BY <1>6 DEF CdrLock, StayOrTimeOut, TimeOut, Stay, link
<1>7. ASSUME NEW quiet \in BOOLEAN, EqTrain(quiet)
      PROVE  TickCounts
  BY <1>7 DEF EqTrain, StartCount, StayOrTimeOut, TimeOut, Stay, link
<1>8. ASSUME NEW quiet \in BOOLEAN, NEW inBand \in BOOLEAN, EqVerify(quiet, inBand)
      PROVE  TickCounts
  BY <1>8 DEF EqVerify, StayOrTimeOut, TimeOut, Stay, link
<1>9. ASSUME NEW quiet \in BOOLEAN, NEW inBand \in BOOLEAN, Track(quiet, inBand)
      PROVE  TickCounts
  BY <1>9 DEF Track, StayOrTimeOut, TimeOut, Stay, link
<1>10. ASSUME NEW quiet \in BOOLEAN, NEW inBand \in BOOLEAN, Up(quiet, inBand)
       PROVE  TickCounts
  BY <1>10 DEF Up, UpSupervise, Stay, link
<1>11. CASE Fault
  BY <1>11 DEF Fault, Stay, link
<1>12. QED
  <2> HIDE DEF TickCounts
  <2>1. QED
    BY <1>1, <1>2, <1>3, <1>4, <1>5, <1>6, <1>7, <1>8, <1>9, <1>10, <1>11
       DEF FwTick, Tick

Judging == {"EQ_VERIFY", "TRACK", "UP"}

\* A tick reads what a block of this state left; the judgement's counters are
\* what this visit to EQ_VERIFY has read, all of it received in VERIFY mode.
OnEvidence ==
    /\ since > 0 => mode = ModeOf(state)
    /\ state \in Judging =>
         /\ evidence.syms = trainSyms /\ evidence.errs = trainErrs
         /\ evidence.modes \subseteq {"VERIFY"}
    /\ state \in {"TRACK", "UP"} => evidence.modes = {"VERIFY"}

\* The unlock count is at least the run of unlocked ticks it stands for.
OnRun ==
    /\ unlockRun \in Nat
    /\ state = "UP" => unlockRun <= unlock /\ unlockRun < LossTicks

\* The evidence as a service leaves it.
LEMMA EvidenceNext ==
  ASSUME Service
  PROVE  /\ state = "EQ_VERIFY" /\ ~LosFaults => evidence' = Witnessed
         /\ state # "EQ_VERIFY" /\ state' = "EQ_VERIFY" /\ ~LosFaults => evidence' = NoEvidence
         /\ state \in {"TRACK", "UP"} /\ state' \in {"TRACK", "UP"} => evidence' = evidence
  BY DEF Service

\* A service keeps the counters and the evidence for them the same.
LEMMA ServiceOnEvidence ==
  ASSUME OnEvidence, Service
  PROVE  OnEvidence'
<1>1. TickCounts
  BY CalmTick, TickCounting DEF Service
<1>2. since' = 0 /\ since > 0
  BY DEF Service
<1>3. ASSUME state' = "EQ_VERIFY"
      PROVE  /\ evidence'.syms = trainSyms' /\ evidence'.errs = trainErrs'
             /\ evidence'.modes \subseteq {"VERIFY"}
  <2>1. ~LosFaults
    BY <1>1, <1>3 DEF TickCounts
  <2>2. CASE state = "EQ_VERIFY"
    <3>1. evidence' = Witnessed /\ mode = "VERIFY"
      BY <1>2, <2>1, <2>2, EvidenceNext DEF OnEvidence, ModeOf
    <3>2. QED
      BY <1>1, <2>1, <2>2, <3>1 DEF TickCounts, Witnessed, OnEvidence, Judging
  <2>3. CASE state = "EQ_TRAIN"
    BY <1>1, <1>3, <2>1, <2>3, EvidenceNext DEF TickCounts, NoEvidence
  <2>4. QED
    BY <1>1, <1>3, <2>2, <2>3 DEF TickCounts
<1>4. ASSUME state' \in {"TRACK", "UP"}
      PROVE  /\ evidence'.syms = trainSyms' /\ evidence'.errs = trainErrs'
             /\ evidence'.modes = {"VERIFY"}
  <2>1. ~LosFaults
    BY <1>1, <1>4 DEF TickCounts
  <2>2. CASE state = "EQ_VERIFY"
    <3>1. evidence' = Witnessed /\ mode = "VERIFY"
      BY <1>2, <2>1, <2>2, EvidenceNext DEF OnEvidence, ModeOf
    <3>2. QED
      BY <1>1, <2>1, <2>2, <3>1 DEF TickCounts, Witnessed, OnEvidence, Judging
  <2>3. CASE state \in {"TRACK", "UP"}
    BY <1>1, <1>4, <2>3, EvidenceNext DEF TickCounts, OnEvidence, Judging
  <2>4. QED
    BY <1>1, <1>4, <2>2, <2>3 DEF TickCounts
<1>5. QED
  BY <1>2, <1>3, <1>4 DEF OnEvidence, Judging

\* A service keeps the count of unlocked ticks and their run together.
LEMMA ServiceOnRun ==
  ASSUME IInv, OnRun, Service
  PROVE  OnRun'
<1>1. TickCounts
  BY CalmTick, TickCounting DEF Service
<1>2. LossTicks \in Nat \ {0} /\ unlock \in 0..LossTicks /\ unlockRun \in Nat
  BY CountAssumption DEF OnRun, IInv, TypeOK, CountTypeOK
<1>3. unlockRun' = IF state = "UP" /\ "CDR" \notin status
                   THEN Min2(unlockRun + 1, LossTicks) ELSE 0
  BY DEF Service
<1>4. CASE state = "UP"
  <2>1. unlockRun <= unlock /\ unlockRun < LossTicks
    BY <1>4 DEF OnRun
  <2>2. CASE "CDR" \in status
    BY <1>1, <1>2, <1>3, <1>4, <2>2 DEF OnRun, TickCounts
  <2>3. CASE "CDR" \notin status
    BY <1>1, <1>2, <1>3, <1>4, <2>1, <2>3 DEF OnRun, TickCounts, Min2, LostLong
  <2>4. QED
    BY <2>2, <2>3
<1>5. CASE state # "UP"
  <2>1. unlockRun' = 0
    BY <1>3, <1>5
  <2>2. unlock' \in Nat
    BY CalmTick, NextKeeps DEF Service, Next, IInv, TypeOK, CountTypeOK
  <2>3. unlockRun' <= unlock' /\ unlockRun' < LossTicks
    BY <1>2, <2>1, <2>2
  <2>4. QED
    BY <2>1, <2>3 DEF OnRun
<1>6. QED
  BY <1>4, <1>5

\* Both hold throughout.
LEMMA CountInvariance == LaneSpec => [](IInv /\ OnEvidence /\ OnRun)
<1>1. LaneInit => OnEvidence /\ OnRun
  BY DEF LaneInit, Init, OnEvidence, OnRun, Judging
<1>2. IInv /\ OnEvidence /\ OnRun /\ [LaneNext]_lvars => OnEvidence' /\ OnRun'
  <2> SUFFICES ASSUME IInv, OnEvidence, OnRun, [LaneNext]_lvars
               PROVE  OnEvidence' /\ OnRun'
    OBVIOUS
  <2>1. CASE Service
    BY <2>1, ServiceOnEvidence, ServiceOnRun
  <2>2. CASE Block
    <3>1. /\ state' = state /\ mode' = ModeOf(state) /\ evidence' = evidence
          /\ trainSyms' = trainSyms /\ trainErrs' = trainErrs
          /\ unlock' = unlock /\ unlockRun' = unlockRun
      BY <2>2 DEF Block, link, train
    <3>2. QED
      BY <3>1 DEF OnEvidence, OnRun, ModeOf, Judging
  <2>3. CASE Glitch \/ UNCHANGED lvars
    BY <2>3 DEF Glitch, lvars, vars, link, train, hist, hw, OnEvidence, OnRun, ModeOf, Judging
  <2>4. QED
    BY <2>1, <2>2, <2>3 DEF LaneNext
<1>3. LaneSpec => []IInv
  BY LaneImplements, Invariance, PTL
<1>4. QED
  BY <1>1, <1>2, <1>3, PTL DEF LaneSpec

\* Traffic is admitted on symbols really received in VERIFY mode since the
\* gear change, for every judging window and error ceiling.
THEOREM EvidenceAdmits == LaneSpec => []AdmittedOnEvidence
<1>1. IInv /\ OnEvidence => AdmittedOnEvidence
  BY DEF IInv, VerdictStands, OnEvidence, AdmittedOnEvidence, Judging
<1>2. QED
  BY <1>1, CountInvariance, PTL

\* A link with LossTicks unlocked ticks in a row behind it is down.
THEOREM SustainedLossEnds == LaneSpec => []SustainedLossFaults
<1>1. OnRun => SustainedLossFaults
  BY DEF OnRun, SustainedLossFaults
<1>2. QED
  BY <1>1, CountInvariance, PTL
-----------------------------------------------------------------------------
(* The types of the lane's own state.                                      *)

\* The hardware's registers, what the world has done to them and what has
\* been read of them.
HwTyped ==
    /\ pll \in [enabled : BOOLEAN, locked : BOOLEAN, elapsed : 0..SettleBlocks,
                fail : BOOLEAN]
    /\ cdrCount \in 0..LockDwell /\ mode \in Modes
    /\ signal \in BOOLEAN /\ calm \in BOOLEAN /\ glitches \in 0..MaxGlitch
    /\ unlockRun \in 0..LossTicks
    /\ evidence \in [syms : Nat, errs : Nat, modes : SUBSET Modes]

\* The PLL's settling time counts up to SettleBlocks and no further.
LEMMA PllTyped ==
  ASSUME NEW p \in [enabled : BOOLEAN, locked : BOOLEAN, elapsed : 0..SettleBlocks,
                    fail : BOOLEAN]
  PROVE  /\ PllStep(p) \in [enabled : BOOLEAN, locked : BOOLEAN,
                            elapsed : 0..SettleBlocks, fail : BOOLEAN]
         /\ \A f \in BOOLEAN :
               ForceFail(p, f) \in [enabled : BOOLEAN, locked : BOOLEAN,
                                    elapsed : 0..SettleBlocks, fail : BOOLEAN]
<1> DEFINE Plls == [enabled : BOOLEAN, locked : BOOLEAN, elapsed : 0..SettleBlocks,
                    fail : BOOLEAN]
<1>1. SettleBlocks \in Nat
  BY LaneAssumption
<1>2. ASSUME NEW q \in Plls
      PROVE  /\ PllOff(q) \in Plls
             /\ \A b \in BOOLEAN : [q EXCEPT !.enabled = b] \in Plls
             /\ \A b \in BOOLEAN : [q EXCEPT !.fail = b] \in Plls
             /\ [q EXCEPT !.locked = TRUE] \in Plls
             /\ q.elapsed < SettleBlocks => [q EXCEPT !.elapsed = @ + 1] \in Plls
  <2>1. 0 \in 0..SettleBlocks
    BY <1>1
  <2>2. [q EXCEPT !.locked = FALSE, !.elapsed = 0] \in Plls
    BY <2>1
  <2>3. /\ \A b \in BOOLEAN : [q EXCEPT !.enabled = b] \in Plls
        /\ \A b \in BOOLEAN : [q EXCEPT !.fail = b] \in Plls
        /\ [q EXCEPT !.locked = TRUE] \in Plls
    OBVIOUS
  <2>4. q.elapsed < SettleBlocks => q.elapsed + 1 \in 0..SettleBlocks
    BY <1>1
  <2>5. q.elapsed + 1 \in 0..SettleBlocks => [q EXCEPT !.elapsed = @ + 1] \in Plls
    OBVIOUS
  <2>6. QED
    BY <2>2, <2>3, <2>4, <2>5 DEF PllOff
<1>3. PllStep(p) \in Plls
  <2> DEFINE q == IF p.enabled THEN p ELSE [PllOff(p) EXCEPT !.enabled = TRUE]
  <2>1. q \in Plls
    BY <1>2
  <2>2. [PllOff(p) EXCEPT !.enabled = FALSE] \in Plls
    BY <1>2
  <2>3. (IF q.fail THEN q
         ELSE IF q.elapsed < SettleBlocks THEN [q EXCEPT !.elapsed = @ + 1]
         ELSE [q EXCEPT !.locked = TRUE]) \in Plls
    <3> HIDE DEF q
    <3> QED
      BY <2>1, <1>2
  <2>4. QED
    BY <2>2, <2>3 DEF PllStep
<1>4. \A f \in BOOLEAN : ForceFail(p, f) \in Plls
  BY <1>2 DEF ForceFail, PllOff
<1>5. QED
  BY <1>3, <1>4

\* A block moves the CDR's lock count within its range.
LEMMA CdrCountTyped ==
  ASSUME cdrCount \in 0..LockDwell
  PROVE  CdrCounts \subseteq 0..LockDwell
<1>1. LockDwell \in Nat /\ cdrCount \in Nat /\ cdrCount <= LockDwell
  BY LaneAssumption
<1>2. \A d \in {1, 2} : Min2(cdrCount + d, LockDwell) \in 0..LockDwell
  BY <1>1 DEF Min2
<1>3. QED
  BY <1>2 DEF CdrCounts

\* A service adds what the firmware read to what EQ_VERIFY has seen.
LEMMA ServiceTyped ==
  ASSUME IInv, HwTyped, Service
  PROVE  HwTyped'
<1>1. /\ pll' = pll /\ cdrCount' = cdrCount /\ mode' = mode
      /\ signal' = signal /\ calm' = calm /\ glitches' = glitches
  BY DEF Service, hw, world
<1>2. unlockRun' \in 0..LossTicks
  <2>1. LossTicks \in Nat /\ unlockRun \in Nat
    BY CountAssumption DEF HwTyped
  <2>2. Min2(unlockRun + 1, LossTicks) \in 0..LossTicks
    BY <2>1 DEF Min2
  <2>3. unlockRun' \in {Min2(unlockRun + 1, LossTicks), 0}
    BY DEF Service
  <2>4. QED
    BY <2>1, <2>2, <2>3
<1>3. evidence' \in [syms : Nat, errs : Nat, modes : SUBSET Modes]
  <2>1. symCnt \in Nat /\ errCnt \in Nat
    BY DEF IInv, TypeOK, RegTypeOK
  <2>2. evidence \in [syms : Nat, errs : Nat, modes : SUBSET Modes] /\ mode \in Modes
    BY DEF HwTyped
  <2>3. Witnessed \in [syms : Nat, errs : Nat, modes : SUBSET Modes]
    BY <2>1, <2>2 DEF Witnessed
  <2>4. NoEvidence \in [syms : Nat, errs : Nat, modes : SUBSET Modes]
    BY DEF NoEvidence
  <2>5. evidence' \in {evidence, Witnessed, NoEvidence}
    BY DEF Service
  <2>6. QED
    BY <2>2, <2>3, <2>4, <2>5
<1>4. QED
  BY <1>1, <1>2, <1>3 DEF HwTyped

\* Every register, every fault of the world and every witness stays in its
\* range, for every settling time, lock dwell and number of glitches.
THEOREM LaneStaysTyped == LaneSpec => []LaneTypeOK
<1>1. LaneInit => HwTyped
  <2>1. SettleBlocks \in Nat /\ LockDwell \in Nat /\ MaxGlitch \in Nat /\ LossTicks \in Nat
    BY LaneAssumption, CountAssumption
  <2>2. LaneInit => /\ cdrCount \in 0..LockDwell /\ glitches \in 0..MaxGlitch
                    /\ unlockRun \in 0..LossTicks
    BY <2>1 DEF LaneInit
  <2>7. LaneInit => mode \in Modes /\ signal \in BOOLEAN /\ calm \in BOOLEAN
    BY Zenon DEF LaneInit, Modes
  <2>3. 0 \in 0..SettleBlocks
    BY <2>1
  <2>4. LaneInit => pll \in [enabled : BOOLEAN, locked : BOOLEAN,
                             elapsed : 0..SettleBlocks, fail : BOOLEAN]
    BY <2>3 DEF LaneInit
  <2>5. LaneInit => evidence \in [syms : Nat, errs : Nat, modes : SUBSET Modes]
    BY DEF LaneInit, NoEvidence
  <2>6. QED
    BY <2>2, <2>4, <2>5, <2>7 DEF HwTyped
<1>2. IInv /\ HwTyped /\ [LaneNext]_lvars => HwTyped'
  <2> SUFFICES ASSUME IInv, HwTyped, [LaneNext]_lvars
               PROVE  HwTyped'
    OBVIOUS
  <2>1. CASE Block
    <3>1. pll' = PllStep(pll) /\ cdrCount' \in CdrCounts /\ mode' = ModeOf(state)
      BY <2>1 DEF Block
    <3>2. /\ signal' = signal /\ calm' = calm /\ glitches' = glitches
          /\ unlockRun' = unlockRun /\ evidence' = evidence
      BY <2>1 DEF Block, world
    <3>3. ModeOf(state) \in Modes
      BY DEF ModeOf, Modes
    <3>4. QED
      BY <3>1, <3>2, <3>3, PllTyped, CdrCountTyped DEF HwTyped
  <2>2. CASE Service
    BY <2>2, ServiceTyped
  <2>3. CASE Glitch
    <3>1. glitches < MaxGlitch /\ glitches' = glitches + 1
      BY <2>3 DEF Glitch
    <3>2. glitches' \in 0..MaxGlitch
      BY <3>1, LaneAssumption DEF HwTyped
    <3>3. signal' \in BOOLEAN
      BY <2>3 DEF Glitch, HwTyped
    <3>4. pll' \in [enabled : BOOLEAN, locked : BOOLEAN, elapsed : 0..SettleBlocks,
                    fail : BOOLEAN]
      BY <2>3, PllTyped DEF Glitch, HwTyped
    <3>5. /\ cdrCount' = cdrCount /\ mode' = mode /\ calm' = calm
          /\ unlockRun' = unlockRun /\ evidence' = evidence
      BY <2>3 DEF Glitch, hist
    <3>6. QED
      BY <3>2, <3>3, <3>4, <3>5 DEF HwTyped
  <2>4. CASE UNCHANGED lvars
    BY <2>4 DEF lvars, hw, world, hist, HwTyped
  <2>5. QED
    BY <2>1, <2>2, <2>3, <2>4 DEF LaneNext
<1>3. IInv /\ TimeInv /\ HwTyped => LaneTypeOK
  BY DEF IInv, TimeInv, ClockTyped, HwTyped, LaneTypeOK, AgeCap
<1>4. QED
  BY <1>1, <1>2, <1>3, TimeInvariance, PTL DEF LaneSpec
-----------------------------------------------------------------------------
(* The backoff.                                                            *)

\* A retry is counted when the backoff is doubled, and only then.
LEMMA BackoffCounts ==
  ASSUME [Next]_vars
  PROVE  \/ backoff' = backoff /\ retries' = retries
         \/ backoff' = NextBackoff(backoff) /\ retries' = Min2(retries + 1, RetryCap)
<1>1. CASE FwTick
  BY <1>1 DEF FwTick, Tick, LosFault, Reset, PllLock, WaitSignal, Agc, AgcDone,
     CdrLock, EqTrain, EqVerify, Track, Up, Fault, search
<1>2. CASE HwBlock \/ UNCHANGED vars
  BY <1>2 DEF HwBlock, vars, search
<1>3. QED
  BY <1>1, <1>2 DEF Next

\* Doubling keeps the law: 2^(k+1) short of the cap becomes 2^(k+2), which is
\* short of it or is the cap, for the cap is a power of two.
LEMMA DoublingKeeps ==
  ASSUME NEW r \in 0..RetryCap, r + 1 < RetryCap,
         NEW b \in Backoffs, b = Min2(2 ^ (r + 1), BackoffCap)
  PROVE  NextBackoff(b) = Min2(2 ^ (r + 2), BackoffCap)
<1>1. r \in Nat /\ RetryCap \in Nat /\ BackoffCap \in Nat /\ r + 1 \in 1..RetryCap
  BY CountAssumption, ClockAssumption
<1>2. 2^(r + 1) \in Nat /\ 2^((r + 1) + 1) = 2 * 2^(r + 1)
  BY <1>1, PowerOfTwo
<1>3. (r + 1) + 1 = r + 2
  BY <1>1
<1>4. PICK p \in Nat : p = 2^(r + 1)
  BY <1>2
<1>5. 2^(r + 2) = 2 * p
  <2>1. 2^((r + 1) + 1) = 2^(r + 2)
    BY <1>3, Zenon
  <2>2. 2^(r + 2) = 2 * 2^(r + 1) /\ 2 * 2^(r + 1) = 2 * p
    BY <1>2, <1>4, <2>1, Zenon
  <2>3. QED
    BY <2>2, Zenon
<1>6. b = Min2(p, BackoffCap)
  BY <1>4
<1>7. NextBackoff(b) <= BackoffCap
  <2>1. NextBackoff(b) \in 2..BackoffCap
    BY BackoffRange
  <2>2. QED
    BY <1>1, <2>1
<1>8. NextBackoff(b) = Min2(2 * p, BackoffCap)
  BY <1>1, <1>6, <1>7 DEF NextBackoff, Min2
<1>9. QED
  BY <1>5, <1>8, Zenon

\* "Failure BACKS OFF exponentially": the k-th retry waits 2^k ms and none
\* waits longer than the cap, for every cap that is a power of two.
THEOREM BackoffKept == LaneSpec => []BackoffLaw
<1>1. LaneInit => BackoffLaw
  <2>1. BackoffCap \in Nat /\ 2 <= BackoffCap /\ 2^(0 + 1) = 2
    BY ClockAssumption, PowerOfTwo
  <2>2. QED
    BY <2>1 DEF LaneInit, Init, BackoffLaw, Min2
<1>2. IInv /\ TimeInv /\ BackoffLaw /\ [LaneNext]_lvars => BackoffLaw'
  <2> SUFFICES ASSUME IInv, TimeInv, BackoffLaw, [LaneNext]_lvars
               PROVE  BackoffLaw'
    OBVIOUS
  <2>1. retries \in 0..RetryCap /\ RetryCap \in Nat /\ backoff \in Backoffs
    BY CountAssumption DEF IInv, TypeOK, SearchTypeOK, TimeInv, ClockTyped
  <2>2. CASE backoff' = backoff /\ retries' = retries
    BY <2>2 DEF BackoffLaw
  <2>3. CASE backoff' = NextBackoff(backoff) /\ retries' = Min2(retries + 1, RetryCap)
    <3>1. backoff' <= BackoffCap
      <4>1. NextBackoff(backoff) \in 2..BackoffCap
        BY <2>1, BackoffRange
      <4>2. QED
        BY <2>3, <4>1, ClockAssumption
    <3>2. ASSUME retries' < RetryCap
          PROVE  backoff' = Min2(2 ^ (retries' + 1), BackoffCap)
      <4>1. retries + 1 < RetryCap /\ retries' = retries + 1 /\ retries < RetryCap
        BY <2>1, <2>3, <3>2 DEF Min2
      <4>2. backoff = Min2(2 ^ (retries + 1), BackoffCap)
        BY <4>1 DEF BackoffLaw
      <4>3. NextBackoff(backoff) = Min2(2 ^ (retries + 2), BackoffCap)
        BY <2>1, <4>1, <4>2, DoublingKeeps
      <4>4. retries' + 1 = retries + 2
        BY <2>1, <4>1
      <4>5. QED
        BY <2>3, <4>3, <4>4
    <3>3. QED
      BY <3>1, <3>2 DEF BackoffLaw
  <2>4. QED
    BY <2>2, <2>3, LaneStep, BackoffCounts
<1>3. QED
  BY <1>1, <1>2, TimeInvariance, PTL DEF LaneSpec
=============================================================================
