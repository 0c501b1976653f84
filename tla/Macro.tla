------------------------------- MODULE Macro -------------------------------
(***************************************************************************)
(* The macro: N lanes, one register file, one control processor            *)
(* (hw_macro_block, hw_macro_set_service, macro_common of hw_macro.c,      *)
(* fw_select_lane, and the selected-lane state of hal.c, fw_adapt.c,       *)
(* fw_agc.c and fw_telem.c).                                               *)
(*                                                                         *)
(* A block transmits on every lane, then sums the crosstalk, then receives *)
(* on every lane, then services `service` lanes round robin. What a lane's *)
(* tick does is Bringup's; here it may change the lane's gear, the one     *)
(* piece of per-lane state the firmware also caches outside the lane.      *)
(***************************************************************************)
EXTENDS Integers

CONSTANTS
    N,        \* n_lanes
    Span,     \* NEIGHBOUR_SPAN
    MaxMs     \* bound of the model: blocks run

ASSUME MacroAssumption ==
    /\ N \in Nat \ {0}
    /\ Span \in Nat \ {0}
    /\ MaxMs \in Nat

Lanes == 0..(N - 1)
Gears == {"off", "acq", "track"}
Cores == {"hal", "adapt", "agc", "telem"}   \* who holds a selected lane

VARIABLES
    phase, at,      \* where in hw_macro_block: the loop and its index
    ms, rr, services, service,
    scale,          \* g_tmo_scale
    sel,            \* selected lane: g_lane of hal.c, g_ln of the loops
    gear,           \* ADAPT_MU of each lane's aperture
    mu,             \* g_mu_exp, the adaptation loop's cached copy
    sent,           \* the block in each lane's transmit buffer, -1 for none
    heard,          \* the blocks each victim's crosstalk was summed from
    waited          \* history: blocks since a lane was serviced

lanestate == <<gear, mu>>
signals   == <<sent, heard>>
mvars == <<phase, at, ms, rr, services, service, scale, sel, lanestate,
           signals, waited>>
-----------------------------------------------------------------------------
\* Rounded down, the budget of a lane that is served less often is too short.
ScaleFloor(s) == N \div s

Scale(s) == (N + s - 1) \div s

\* More lanes a block than there are.
ClampZeroOnly(s) == IF s = 0 THEN N ELSE s

\* Out of range means every lane every block.
Clamp(s) == IF s = 0 \/ s > N THEN N ELSE s

SetService(s) ==
    /\ phase = "idle"
    /\ service' = Clamp(s)
    /\ scale' = Scale(Clamp(s))
    /\ waited' = [i \in Lanes |-> 0]
    /\ UNCHANGED <<phase, at, ms, rr, services, sel, lanestate, signals>>

\* A lane at a time: the victims after it hear the block before.
AfterTxLaneAtATime(i) == <<"xtalk", i>>

AfterTx(i) == IF i = N - 1 THEN <<"xtalk", 0>> ELSE <<"tx", i + 1>>
AfterXtalk(v) == IF v = N - 1 THEN <<"rx", 0>> ELSE <<"xtalk", v + 1>>
AfterRx(i) == IF i = N - 1 THEN <<"select", 0>> ELSE <<"rx", i + 1>>
AfterTick(k) == IF k + 1 < service THEN <<"select", k + 1>> ELSE <<"end", 0>>

Goto(p) == phase' = p[1] /\ at' = p[2]

Window(i) == [sel EXCEPT !["hal"] = i]     \* hal_select_lane

Begin ==
    /\ phase = "idle" /\ ms < MaxMs
    /\ phase' = "tx" /\ at' = 0
    /\ UNCHANGED <<ms, rr, services, service, scale, sel, lanestate, signals, waited>>

Transmit ==
    /\ phase = "tx"
    /\ sel' = Window(at)
    /\ sent' = [sent EXCEPT ![at] = ms]
    /\ Goto(AfterTx(at))
    /\ UNCHANGED <<ms, rr, services, service, scale, lanestate, heard, waited>>

Aggressors(v) == {a \in Lanes : a # v /\ a - v \in -Span..Span}

Crosstalk ==
    /\ phase = "xtalk"
    /\ heard' = [heard EXCEPT ![at] = {sent[a] : a \in Aggressors(at)}]
    /\ Goto(AfterXtalk(at))
    /\ UNCHANGED <<ms, rr, services, service, scale, sel, lanestate, sent, waited>>

Receive ==
    /\ phase = "rx"
    /\ sel' = Window(at)
    /\ Goto(AfterRx(at))
    /\ UNCHANGED <<ms, rr, services, service, scale, lanestate, signals, waited>>

\* fw_select_lane without the adaptation loop's re-read of its gear.
SelectStaleGear(i) == sel' = [c \in Cores |-> i] /\ UNCHANGED mu

\* fw_select_lane: the register window and every loop's context move together,
\* and the adaptation loop re-reads the gear of the lane it moves to.
SelectLane(i) == sel' = [c \in Cores |-> i] /\ mu' = gear[i]

Select ==
    /\ phase = "select"
    /\ SelectLane(rr)
    /\ phase' = "tick"
    /\ UNCHANGED <<at, ms, rr, services, service, scale, gear, signals, waited>>

NextLaneSkipsLast(i) == IF i + 1 >= N - 1 THEN 0 ELSE i + 1

NextLane(i) == IF i + 1 = N THEN 0 ELSE i + 1

\* fw_tick of the selected lane. A tick keeps the gear, writes a new one to the
\* register and the cache (fw_adapt_set_gear), or freezes the lane with a plain
\* write of ADAPT_CTRL that leaves the cache alone.
TickLane(g, cached) ==
    /\ phase = "tick"
    /\ gear' = [gear EXCEPT ![sel["hal"]] = g]
    /\ mu' = cached
    /\ services' = [services EXCEPT ![rr] = @ + 1]
    /\ waited' = [waited EXCEPT ![rr] = 0]
    /\ rr' = NextLane(rr)
    /\ Goto(AfterTick(at))
    /\ UNCHANGED <<ms, service, scale, sel, signals>>

Tick ==
    \/ TickLane(gear[sel["hal"]], mu)
    \/ \E g \in {"acq", "track"} : TickLane(g, g)
    \/ TickLane("off", mu)

End ==
    /\ phase = "end"
    /\ ms' = ms + 1
    /\ waited' = [i \in Lanes |-> waited[i] + 1]
    /\ phase' = "idle" /\ at' = 0
    /\ UNCHANGED <<rr, services, service, scale, sel, lanestate, signals>>

\* macro_common: reset register file, every lane serviced every block, each
\* lane's firmware initialised through its own window, then lane 0 selected
\* for the platform.
MacroInit ==
    /\ phase = "idle" /\ at = 0 /\ ms = 0 /\ rr = 0
    /\ services = [i \in Lanes |-> 0]
    /\ service = N /\ scale = Scale(N)
    /\ sel = [[c \in Cores |-> N - 1] EXCEPT !["hal"] = 0]
    /\ gear = [i \in Lanes |-> "off"] /\ mu = "off"
    /\ sent = [i \in Lanes |-> -1]
    /\ heard = [i \in Lanes |-> {}]
    /\ waited = [i \in Lanes |-> 0]

MacroNext ==
    \/ \E s \in 0..(N + 1) : SetService(s)
    \/ Begin \/ Transmit \/ Crosstalk \/ Receive \/ Select \/ Tick \/ End

MacroSpec == MacroInit /\ [][MacroNext]_mvars
-----------------------------------------------------------------------------
Phases == {"idle", "tx", "xtalk", "rx", "select", "tick", "end"}

MacroTypeOK ==
    /\ phase \in Phases /\ at \in Lanes
    /\ ms \in Nat /\ rr \in Lanes
    /\ services \in [Lanes -> Nat]
    /\ service \in 1..N /\ scale \in 1..N
    /\ sel \in [Cores -> Lanes]
    /\ gear \in [Lanes -> Gears] /\ mu \in Gears
    /\ sent \in [Lanes -> Int] /\ heard \in [Lanes -> SUBSET Int]
    /\ waited \in [Lanes -> Nat]

\* "Window and per-lane contexts move together" (hw_macro.c:244): when a tick
\* runs, the register window, every loop and the cached gear are the lane's.
\* The selections are set together just before; what can go wrong is the gear,
\* one cache for all lanes, which a freeze leaves behind its register.
OneLane ==
    phase = "tick" => /\ \A c \in Cores : sel[c] = rr
                      /\ mu = gear[rr]

\* Round robin: the lanes before the pointer have been serviced once more
\* than the others, so no lane is ever two services ahead of another.
Balanced ==
    \A i \in Lanes :
        services[i] = services[N - 1] + (IF i < rr THEN 1 ELSE 0)

\* The factor every timeout is stretched by is an honest one: from any change
\* of the service rate on, no lane waits more blocks than that for its tick.
WaitWithinScale ==
    \A i \in Lanes : waited[i] <= scale

\* A victim is hit by the block its neighbours transmit now, never by the one
\* they sent last time (hw_macro.c:193).
FreshAggressors ==
    phase \in {"rx", "select", "tick", "end"} =>
        \A v \in Lanes : heard[v] \subseteq {ms}
=============================================================================
