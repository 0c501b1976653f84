------------------------------ MODULE MacroBus ------------------------------
(***************************************************************************)
(* The telemetry of a macro as hw_macro_block schedules it: the bus moves  *)
(* once per block, then the supervisor ticks the lanes round robin.        *)
(* Telemetry lets lanes tick in any order; here the order is the code's,   *)
(* so that who finds the FIFO full is decided, not chosen.                 *)
(***************************************************************************)
EXTENDS Telemetry

CONSTANTS
    NLanes,      \* n_lanes; the lanes are 0..(NLanes - 1)
    Service      \* lanes ticked per block, 1..NLanes, every one by default

VARIABLES
    rr,          \* hw_macro_t.rr
    ticks        \* ticks this block has still to run

busVars == <<tvars, rr, ticks>>

\* A tick in LS_UP calls fw_telem_step, which sends a frame or defers.
TelemStep(l) ==
    \/ Step(l)
    \/ link[l] = "up" /\ stat[l] < Need /\ UNCHANGED tvars

\* A tick in another state moves towards LS_UP, or waits.
ElsewhereStep(l) == link[l] # "up" /\ (Reset(l) \/ ComeUp(l) \/ UNCHANGED tvars)

\* hw_macro_block up to the supervisor ...
BlockBegins ==
    /\ ticks = 0 /\ ticks' = Service
    /\ BusTick
    /\ UNCHANGED rr

\* ... and one turn of the supervisor's loop; a tick that finds the signal lost
\* or the state's time up falls to LS_FAULT and does nothing else.
Tick ==
    /\ ticks > 0 /\ ticks' = ticks - 1
    /\ rr' = (rr + 1) % NLanes
    /\ TelemStep(rr) \/ ElsewhereStep(rr) \/ GoDown(rr)

\* The end of a tick in LS_UP that lost its clock, or the CDR for too long.
LoseLink ==
    /\ ticks < Service
    /\ LET l == (rr + NLanes - 1) % NLanes IN link[l] = "up" /\ GoDown(l)
    /\ UNCHANGED <<rr, ticks>>

MacroBusInit == TelemetryInit /\ rr = 0 /\ ticks = 0
MacroBusNext == BlockBegins \/ Tick \/ LoseLink

\* The program calls hw_macro_block for as long as it runs.
MacroBusSpec ==
    MacroBusInit /\ [][MacroBusNext]_busVars /\ WF_busVars(BlockBegins \/ Tick)
-----------------------------------------------------------------------------
\* "It ROUND-ROBINS so a long eye transfer cannot starve status. Losing the
\* link and not being able to say so is the worst failure mode here."
\* (fw_telem.c:24): a lane that stays up sends STATUS again and again.
StatusNotStarved ==
    \A l \in Lanes :
        <>[](link[l] = "up") =>
            []<><<Step(l) /\ ctx[Context(l)].phase = 0>>_busVars
=============================================================================
