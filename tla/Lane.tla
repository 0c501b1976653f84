-------------------------------- MODULE Lane --------------------------------
(***************************************************************************)
(* One lane of the macro: the bring-up firmware of Bringup composed with   *)
(* the hardware it drives -- the reference PLL (pll.c), the receiver's     *)
(* status and error counters and the CDR lock detector (hw_lane.c, cdr.c)  *)
(* -- and with the service the supervisor gives it (hw_macro.c): a block   *)
(* every millisecond, a firmware tick after some of them, never more than  *)
(* TmoScale blocks apart.                                                  *)
(*                                                                         *)
(* The world around it drops and restores the signal and breaks and mends  *)
(* the PLL, MaxGlitch times in all, and may fall calm: from then on the    *)
(* signal is there and every measurement is good.                          *)
(***************************************************************************)
EXTENDS Bringup

CONSTANTS
    SettleBlocks,   \* pll_t.settle_blocks
    LockDwell,      \* LOCK_DWELL in units of 4000 symbols, 2 in the code
    BlockSyms,      \* symbols the equaliser processes in a block
    MaxGlitch       \* bound of the model: changes of the world

ASSUME LaneAssumption ==
    /\ SettleBlocks \in Nat
    /\ LockDwell \in Nat \ {0}
    /\ BlockSyms \in SymCounts
    /\ 0 \in ErrCounts
    /\ MaxGlitch \in Nat
    /\ \A s \in States : Tmo(s) + TmoScale <= TickMod
    /\ BackoffCap + TmoScale <= TickMod
    /\ \A s \in States \ {"RESET", "UP", "FAULT"} : Timeout[s] > 0
\* Doubling meets the cap and does not pass it: 512 is a power of two.
ASSUME DoublingAssumption == \E k \in 1..BackoffCap : BackoffCap = 2^k

VARIABLES
    pll,            \* pll_t: enabled, locked, elapsed, fail
    cdrCount,       \* cdr_t.lock_count, in the same units
    signal,         \* signal_present
    mode,           \* hw_mode_t the last block ran in
    since,          \* blocks since the last firmware tick
    glitches, calm,
    age,            \* history: true ms since enter() last ran, up to AgeCap
    unlockRun,      \* history: consecutive UP ticks with the CDR unlocked
    evidence        \* history: what EQ_VERIFY has read since it was entered

hw    == <<pll, cdrCount, mode>>
world == <<signal, glitches, calm>>
hist  == <<age, unlockRun, evidence>>
lvars == <<vars, hw, world, since, hist>>

Modes  == {"TRAIN", "VERIFY", "DATA"}
AgeCap == TickMod
-----------------------------------------------------------------------------
(* The PLL: pll_step and pll_force_fail.                                   *)

PllOff(p)  == [p EXCEPT !.locked = FALSE, !.elapsed = 0]
PllStep(p) ==
    IF ~pllEn THEN [PllOff(p) EXCEPT !.enabled = FALSE]
    ELSE LET q == IF p.enabled THEN p ELSE [PllOff(p) EXCEPT !.enabled = TRUE]
         IN  IF q.fail THEN q
             ELSE IF q.elapsed < SettleBlocks
                  THEN [q EXCEPT !.elapsed = @ + 1]
                  ELSE [q EXCEPT !.locked = TRUE]
ForceFail(p, f) == IF f THEN [PllOff(p) EXCEPT !.fail = TRUE]
                        ELSE [p EXCEPT !.fail = FALSE]

\* The mode the supervisor runs the receiver in (hw_macro_block).
ModeOf(s) == CASE s \in {"EQ_TRAIN", "CDR_LOCK"} -> "TRAIN"
               [] s = "EQ_VERIFY"                -> "VERIFY"
               [] OTHER                          -> "DATA"

\* cdr_update runs only while the CDR is enabled, else its count and its lock
\* indication stay as they are. A block is just longer than a LOCK_DWELL unit,
\* so it moves the count past two of them at most, good blocks past one or two.
CdrCounts ==
    IF "CDR" \notin loops THEN {cdrCount}
    ELSE IF calm THEN {Min2(cdrCount + d, LockDwell) : d \in {1, 2}}
    ELSE {c \in 0..LockDwell : c - cdrCount \in -2..2}

Errors == IF ModeOf(state) = "DATA" \/ calm THEN {0} ELSE ErrCounts

\* One block: hw_lane_begin, hw_lane_tx, hw_lane_rx of this lane.
Block ==
    /\ since < TmoScale /\ since' = since + 1
    /\ ms' = WrapAdd(ms, 1)
    /\ pll' = PllStep(pll)
    /\ cdrCount' \in CdrCounts
    /\ mode' = ModeOf(state)
    /\ symCnt' = BlockSyms
    /\ errCnt' \in Errors
    /\ status' = (status \cap {"LOS"})
                 \cup (IF pll'.locked THEN {"PLL"} ELSE {})
                 \cup (IF signal THEN {"SIGDET"} ELSE {"LOS"})
                 \cup (IF cdrCount' = LockDwell THEN {"CDR"} ELSE {})
    /\ age' = Min2(age + 1, AgeCap)
    /\ UNCHANGED <<link, search, train, unlock, agcSettled, tapSettled, ctrl,
                   world, unlockRun, evidence>>

NoEvidence == [syms |-> 0, errs |-> 0, modes |-> {}]
Witnessed  == [syms  |-> evidence.syms + symCnt,
               errs  |-> evidence.errs + errCnt,
               modes |-> evidence.modes \cup {mode}]

\* The supervisor services this lane.
Service ==
    /\ since > 0 /\ since' = 0
    /\ IF calm THEN Tick({TRUE}, {TRUE}) ELSE FwTick
    /\ age' = IF state' # state \/ LosFaults THEN 0 ELSE age
    /\ unlockRun' = IF state = "UP" /\ "CDR" \notin status
                    THEN Min2(unlockRun + 1, LossTicks) ELSE 0
    /\ evidence' = IF LosFaults THEN evidence
                   ELSE IF state = "EQ_VERIFY" THEN Witnessed
                   ELSE IF state' \in {"RESET", "EQ_VERIFY"} THEN NoEvidence
                   ELSE evidence
    /\ UNCHANGED <<hw, world>>

Glitch ==
    /\ ~calm /\ glitches < MaxGlitch /\ glitches' = glitches + 1
    /\ \/ signal' = ~signal /\ UNCHANGED pll
       \/ \E f \in BOOLEAN : pll' = ForceFail(pll, f) /\ UNCHANGED signal
    /\ UNCHANGED <<vars, cdrCount, mode, since, calm, hist>>

\* The world mends what it broke and stays quiet.
FallCalm ==
    /\ ~calm /\ calm' = TRUE
    /\ signal' = TRUE /\ pll' = ForceFail(pll, FALSE)
    /\ UNCHANGED <<vars, cdrCount, mode, since, glitches, hist>>

LaneInit ==
    /\ Init
    /\ pll = [enabled |-> FALSE, locked |-> FALSE, elapsed |-> 0, fail |-> FALSE]
    /\ cdrCount = 0 /\ mode = "DATA" /\ signal \in BOOLEAN
    /\ since = 0 /\ glitches = 0 /\ calm = FALSE
    /\ age = 0 /\ unlockRun = 0 /\ evidence = NoEvidence

LaneNext == Block \/ Service \/ Glitch
LaneSpec == LaneInit /\ [][LaneNext]_lvars

\* The main loop never stops calling hw_macro_block, and the round robin
\* reaches every lane (Macro): both halves of the lane keep running.
LaneFair == /\ LaneInit /\ [][LaneNext \/ FallCalm]_lvars
            /\ WF_lvars(Block) /\ WF_lvars(Service)
-----------------------------------------------------------------------------
LaneTypeOK ==
    /\ TypeOK
    /\ pll \in [enabled : BOOLEAN, locked : BOOLEAN, elapsed : 0..SettleBlocks,
                fail : BOOLEAN]
    /\ cdrCount \in 0..LockDwell /\ mode \in Modes
    /\ signal \in BOOLEAN /\ calm \in BOOLEAN /\ glitches \in 0..MaxGlitch
    /\ since \in 0..TmoScale
    /\ age \in 0..AgeCap /\ unlockRun \in 0..LossTicks
    /\ evidence \in [syms : Nat, errs : Nat, modes : SUBSET Modes]

Budget(s) == Timeout[s] * TmoScale

\* "Every state has a timeout" (fw_bringup.c:7), kept across the wrap of the
\* counter and at any service rate: no state but UP outlives its budget by
\* more than the gap between two services.
DwellBounded ==
    /\ \A s \in States \ {"RESET", "UP", "FAULT"} :
          state = s => age < Budget(s) + TmoScale
    /\ state = "RESET" => age <= TmoScale
    /\ state = "FAULT" => age < backoff + TmoScale

\* ... and none is cut short: a failure that is not a loss of signal, a bad
\* judgement or an UP link going down comes no earlier than the budget, and
\* no retry earlier than the backoff.
NeverEarly ==
    [][/\ (state' = "FAULT" /\ state \notin {"FAULT", "UP"} /\ ~LosFaults
             /\ ~(state = "EQ_VERIFY" /\ trainSyms' >= JudgeSyms))
          => age >= Budget(state)
       /\ (state = "FAULT" /\ state' = "RESET") => age >= backoff]_lvars

\* A link is admitted to TRACK and UP on what this attempt measured: enough
\* symbols, few enough errors, all of them read since EQ_VERIFY was entered
\* and all received in VERIFY mode -- none trained on, none from before the
\* gear change, none left over from an attempt that failed.
AdmittedOnEvidence ==
    state \in {"TRACK", "UP"} =>
        /\ evidence.syms >= JudgeSyms
        /\ Clean(evidence.errs, evidence.syms)
        /\ evidence.modes = {"VERIFY"}

\* Hysteresis (fw_bringup.c:506): a sustained loss of CDR lock does bring the
\* link down.
SustainedLossFaults == state = "UP" => unlockRun < LossTicks

\* Once the world is calm the link comes up and stays up.
Recovers == <>calm => <>[](state = "UP")

\* The loop gives up and tries again: while it is not UP it never rests in
\* one state for ever, except in FAULT while the signal keeps being lost.
KeepsTrying ==
    []<>(state = "RESET") \/ []<>(state = "UP") \/ []<>("LOS" \in status)
-----------------------------------------------------------------------------
(* What the documentation says and the code does not do.                   *)

\* "Loss-of-lock now needs 25 consecutive ticks" (README.md:581): an UP link
\* with a signal and a clock goes down only after LossTicks unlocked ticks of
\* this visit to UP.
HysteresisPerVisit ==
    [][(state = "UP" /\ state' = "FAULT" /\ ~LosFaults /\ "PLL" \in status)
          => unlockRun' >= LossTicks]_lvars

\* "Everything downstream must treat loss of PLL lock as fatal and restart"
\* (pll.c:32): past PLL_LOCK, a tick that sees no PLL goes nowhere but FAULT.
ClockLossRestarts ==
    [][(state \notin {"RESET", "PLL_LOCK", "FAULT"} /\ "PLL" \notin status
          /\ state' # state) => state' = "FAULT"]_lvars

\* "Failure BACKS OFF exponentially and retries" (fw_bringup.c:13): a lane in
\* FAULT starts over in the end.
FaultRetries == state = "FAULT" ~> state = "RESET"
=============================================================================
