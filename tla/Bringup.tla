------------------------------ MODULE Bringup ------------------------------
(***************************************************************************)
(* One lane's link bring-up firmware: fw_init, fw_tick, enter and          *)
(* fw_set_front_end of fw_bringup.c, with the convergence counters of      *)
(* fw_agc.c and fw_adapt.c that gate it and the registers of hal.h it      *)
(* reads and writes.                                                       *)
(*                                                                         *)
(* The hardware is here in its most general form (HwBlock): between two    *)
(* ticks it may leave any value in a register it drives. Lane narrows it   *)
(* to the real one. What is shown here holds whatever the hardware does.   *)
(*                                                                         *)
(* Each state of the switch in fw_tick is one action. The measurements a   *)
(* tick takes (was the amplitude in its deadband, did the applied taps     *)
(* stay still) are inputs of the action.                                   *)
(***************************************************************************)
EXTENDS FrontEnd, FiniteSets

CONSTANTS
    TickMod,       \* the millisecond counter wraps here (2^32 in the code)
    Timeout,       \* STATE_TIMEOUT_MS: state -> ms, 0 for none
    TmoScale,      \* g_tmo_scale, set by hw_macro_set_service
    EqMinTrain,    \* EQ_MIN_TRAIN_MS
    BackoffCap,    \* 512 in the code
    LossTicks,     \* LOSS_OF_LOCK_TICKS
    JudgeSyms,     \* EQ_JUDGE_SYMS
    MaxBerE5,      \* EQ_MAX_TRAIN_BER_E5
    AgcSettle,     \* AGC_SETTLE_BLOCKS
    ConvBlocks,    \* CONV_BLOCKS
    RetryCap,      \* bound of the model: retries counts no further than this
    VgaCodes,      \* the VGA codes the AGC may have converged to
    SymCounts,     \* what a block may leave in SYM_CNT
    ErrCounts      \* what a block may leave in ERR_CNT

ASSUME ClockAssumption ==
    /\ TickMod \in Nat \ {0}
    /\ Timeout \in [States -> 0..(TickMod - 1)]
    /\ TmoScale \in Nat \ {0}
    /\ \A s \in States : Timeout[s] * TmoScale < TickMod
    /\ EqMinTrain \in 0..(TickMod - 1)
    /\ BackoffCap \in 2..(TickMod - 1)
ASSUME CountAssumption ==
    /\ LossTicks \in Nat \ {0}
    /\ JudgeSyms \in Nat \ {0}
    /\ MaxBerE5 \in Nat
    /\ AgcSettle \in Nat \ {0}
    /\ ConvBlocks \in Nat \ {0}
    /\ RetryCap \in Nat \ {0}
    /\ VgaCodes \subseteq 0..VgaMax
    /\ SymCounts \subseteq Nat
    /\ ErrCounts \subseteq Nat

VARIABLES
    state, entered, retries, backoff, unlock, failFrom, nudge,
    trainErrs, trainSyms,    \* fw_link_t
    agcSettled, tapSettled,  \* agc_ctx_t.settled, adapt_ctx_t.settled
    ms,                      \* the time the next tick is given
    status, symCnt, errCnt,  \* STATUS, SYM_CNT, ERR_CNT
    pllEn, loops, gear, fe   \* PLL_CTRL, ADAPT_CTRL, AFE_CTLE and CDR_CTRL

link  == <<state, entered, failFrom>>
search == <<retries, backoff, nudge>>
train == <<trainErrs, trainSyms>>
ctrl  == <<pllEn, loops, gear, fe>>
vars  == <<link, search, train, unlock, agcSettled, tapSettled, ms,
           status, symCnt, errCnt, ctrl>>

StatusBits == {"LOS", "PLL", "SIGDET", "CDR"}
Loops      == {"AGC", "CDR", "FFE", "DFE"}
Gears      == {"off", "acq", "track"}   \* ADAPT_MU: 0, EQ_GEAR_ACQ, _TRACK
-----------------------------------------------------------------------------
(* Time: uint32_t arithmetic of fw_deadline_passed.                        *)

WrapAdd(a, d) == IF a + d < TickMod THEN a + d ELSE a + d - TickMod
WrapSub(a, b) == IF a >= b THEN a - b ELSE a - b + TickMod

\* The obvious form that fails at the wrap.
DeadlineByCompare(start, now, tmo) == now >= start + tmo

DeadlinePassed(start, now, tmo) == WrapSub(now, start) >= tmo

\* One entry missing from the table.
TmoMissing(s) == IF s = "PLL_LOCK" THEN 0 ELSE Timeout[s] * TmoScale

Tmo(s) == Timeout[s] * TmoScale
Expired == Tmo(state) # 0 /\ DeadlinePassed(entered, ms, Tmo(state))
-----------------------------------------------------------------------------
(* The loops' convergence counters, as the tick's loop calls move them.    *)

Min2(a, b) == IF a < b THEN a ELSE b

\* fw_agc_step: an empty window proves nothing; out of band starts over.
AgcNext(inBand) ==
    IF symCnt = 0 THEN agcSettled
    ELSE IF inBand THEN Min2(agcSettled + 1, AgcSettle) ELSE 0

AgcStep(inBand) == agcSettled' = AgcNext(inBand) /\ symCnt' = 0

\* fw_adapt_step: quiet = applied taps moved at most CONV_TAP_DELTA, no rail.
TapNext(quiet)   == IF quiet THEN Min2(tapSettled + 1, ConvBlocks) ELSE 0
AdaptStep(quiet) == tapSettled' = TapNext(quiet)

AgcConverged(n) == n >= AgcSettle
TapConverged(n) == n >= ConvBlocks
-----------------------------------------------------------------------------
(* enter(), and what every tick does before the switch.                    *)

\* The deadline of the new state counts from the entry of the old one.
EnterStale(s) ==
    /\ state' = s
    /\ entered' = entered
    /\ failFrom' = IF s = "FAULT" THEN state ELSE failFrom

Enter(s) ==
    /\ state' = s
    /\ entered' = ms
    /\ failFrom' = IF s = "FAULT" THEN state ELSE failFrom

Stay == UNCHANGED link
TimeOut == Expired /\ Enter("FAULT")
StayOrTimeOut == TimeOut \/ (~Expired /\ Stay)

\* W1C acknowledge of LOS; the handlers test the value read before it.
AckLos == status' = status \ {"LOS"}
\* LOS outside the two states that wait for a signal ends the tick in FAULT.
LosFaults == "LOS" \in status /\ state \notin {"WAIT_SIGNAL", "RESET"}

LosFault ==
    /\ LosFaults
    /\ AckLos
    /\ Enter("FAULT")
    /\ UNCHANGED <<search, train, unlock, agcSettled, tapSettled, ms,
                   symCnt, errCnt, ctrl>>

InState(s) == state = s /\ ~LosFaults /\ AckLos /\ UNCHANGED ms
-----------------------------------------------------------------------------
(* The switch of fw_tick, one action per state.                            *)

\* A freeze that clears the enables and forgets the gear beside them.
FreezeEnables == loops' = {} /\ UNCHANGED gear

\* REG_ADAPT_CTRL := 0
FreezeAll == loops' = {} /\ gear' = "off"

\* fw_adapt_reset without fw_agc_reset.
ResetTapsOnly == UNCHANGED agcSettled /\ tapSettled' = 0

ResetLoops == agcSettled' = 0 /\ tapSettled' = 0

\* Reset: freeze every loop, probe point, clear the loops, start the PLL.
\* The two CTRL writes are left out, for nothing reads that register, and so
\* is the AGC's target ladder, which only moves the code it converges to.
\* fw_telem_reset is module Telemetry's.
Reset ==
    /\ InState("RESET")
    /\ FreezeAll
    /\ fe' = ProbePoint
    /\ ResetLoops
    /\ pllEn' = TRUE
    /\ Enter("PLL_LOCK")
    /\ UNCHANGED <<search, train, unlock, symCnt, errCnt>>

PllLock ==
    /\ InState("PLL_LOCK")
    /\ IF "PLL" \in status THEN Enter("WAIT_SIGNAL") ELSE StayOrTimeOut
    /\ UNCHANGED <<search, train, unlock, agcSettled, tapSettled,
                   symCnt, errCnt, ctrl>>

WaitSignal ==
    /\ InState("WAIT_SIGNAL")
    /\ IF "SIGDET" \in status
       THEN loops' = loops \cup {"AGC"} /\ Enter("AGC")
       ELSE UNCHANGED loops /\ StayOrTimeOut
    /\ UNCHANGED <<search, train, unlock, agcSettled, tapSettled,
                   symCnt, errCnt, pllEn, gear, fe>>

\* The AGC's answer picks the operating point, steered by the last failure;
\* then the CDR and the equaliser are enabled together.
AgcDone(vga) ==
    /\ nudge' = NextNudge(retries, failFrom, nudge)
    /\ fe' = ChosenPoint(vga, nudge')
    /\ gear' = "acq"
    /\ loops' = loops \cup {"CDR", "FFE", "DFE"}
    /\ Enter("CDR_LOCK")

Agc(inBand, vga) ==
    /\ InState("AGC")
    /\ AgcStep(inBand)
    /\ IF AgcConverged(AgcNext(inBand))
       THEN AgcDone(vga)
       ELSE StayOrTimeOut /\ UNCHANGED <<nudge, fe, gear, loops>>
    /\ UNCHANGED <<retries, backoff, train, unlock, tapSettled, errCnt, pllEn>>

\* The symbols of an earlier attempt are carried into the count.
StartErrorsOnly == trainErrs' = 0 /\ UNCHANGED trainSyms /\ errCnt' = 0

\* Errors of the state before are not carried into a count.
StartCount == trainErrs' = 0 /\ trainSyms' = 0 /\ errCnt' = 0

CdrLock(quiet) ==
    /\ InState("CDR_LOCK")
    /\ AdaptStep(quiet)
    /\ IF "CDR" \in status
       THEN StartCount /\ Enter("EQ_TRAIN")
       ELSE StayOrTimeOut /\ UNCHANGED <<train, errCnt>>
    /\ UNCHANGED <<search, unlock, agcSettled, symCnt, ctrl>>

EqTrain(quiet) ==
    /\ InState("EQ_TRAIN")
    /\ AdaptStep(quiet)
    /\ IF /\ TapConverged(TapNext(quiet))
          /\ DeadlinePassed(entered, ms, EqMinTrain)
       THEN gear' = "track" /\ StartCount /\ Enter("EQ_VERIFY")
       ELSE StayOrTimeOut /\ UNCHANGED <<train, errCnt, gear>>
    /\ UNCHANGED <<search, unlock, agcSettled, symCnt, pllEn, loops, fe>>

\* A ceiling in units of 1e-4.
AcceptableTenfold(errs, syms) == errs * 10000 <= syms * 2 * MaxBerE5

\* BITS_PER_SYMBOL = 2; MaxBerE5 is in units of 1e-5.
Acceptable(errs, syms) == errs * 100000 <= syms * 2 * MaxBerE5

\* The counters are read before fw_agc_step drains SYM_CNT.
EqVerify(quiet, inBand) ==
    /\ InState("EQ_VERIFY")
    /\ AdaptStep(quiet)
    /\ trainErrs' = trainErrs + errCnt /\ errCnt' = 0
    /\ trainSyms' = trainSyms + symCnt
    /\ AgcStep(inBand)
    /\ IF trainSyms' >= JudgeSyms
       THEN IF Acceptable(trainErrs', trainSyms')
            THEN Enter("TRACK") ELSE Enter("FAULT")
       ELSE StayOrTimeOut
    /\ UNCHANGED <<search, unlock, ctrl>>

Track(quiet, inBand) ==
    /\ InState("TRACK")
    /\ AgcStep(inBand)
    /\ AdaptStep(quiet)
    /\ IF TapConverged(TapNext(quiet)) /\ AgcConverged(AgcNext(inBand))
       THEN Enter("UP") ELSE StayOrTimeOut
    /\ UNCHANGED <<search, train, unlock, errCnt, ctrl>>

LostLongOffByOne(n) == n > LossTicks

LostLong(n) == n >= LossTicks

\* CDR unlock is counted; a lost PLL is a fault at once. The count is only
\* compared with LossTicks, so the model counts no further.
UpSupervise ==
    IF "PLL" \notin status THEN Enter("FAULT") /\ UNCHANGED unlock
    ELSE IF "CDR" \notin status
         THEN /\ unlock' = Min2(unlock + 1, LossTicks)
              /\ IF LostLong(unlock') THEN Enter("FAULT") ELSE Stay
         ELSE unlock' = 0 /\ Stay

\* The telemetry step of this state is module Telemetry's.
Up(quiet, inBand) ==
    /\ InState("UP")
    /\ errCnt' = 0
    /\ AgcStep(inBand)
    /\ AdaptStep(quiet)
    /\ UpSupervise
    /\ UNCHANGED <<search, train, ctrl>>

NextBackoffOffByOne(b) == IF b <= BackoffCap THEN b * 2 ELSE BackoffCap

NextBackoff(b) == IF b < BackoffCap THEN b * 2 ELSE BackoffCap

Fault ==
    /\ InState("FAULT")
    /\ FreezeAll
    /\ IF DeadlinePassed(entered, ms, backoff)
       THEN /\ backoff' = NextBackoff(backoff)
            /\ retries' = Min2(retries + 1, RetryCap)
            /\ Enter("RESET")
       ELSE Stay /\ UNCHANGED <<backoff, retries>>
    /\ UNCHANGED <<nudge, train, unlock, agcSettled, tapSettled,
                   symCnt, errCnt, pllEn, fe>>

\* Tick(B, Q): a tick whose amplitude and tap measurements come from B and Q.
Tick(B, Q) ==
    \/ LosFault
    \/ Reset
    \/ PllLock
    \/ WaitSignal
    \/ \E inBand \in B, vga \in VgaCodes : Agc(inBand, vga)
    \/ \E quiet \in Q : CdrLock(quiet)
    \/ \E quiet \in Q : EqTrain(quiet)
    \/ \E quiet \in Q, inBand \in B : EqVerify(quiet, inBand)
    \/ \E quiet \in Q, inBand \in B : Track(quiet, inBand)
    \/ \E quiet \in Q, inBand \in B : Up(quiet, inBand)
    \/ Fault

FwTick == Tick(BOOLEAN, BOOLEAN)
-----------------------------------------------------------------------------
(* Any hardware: a block takes a millisecond, sets any status bits (LOS is *)
(* sticky until acknowledged) and fills the accumulators.                  *)

HwBlock ==
    /\ ms' = WrapAdd(ms, 1)
    /\ \E live \in SUBSET StatusBits :
          status' = live \cup (status \cap {"LOS"})
    /\ symCnt' \in SymCounts
    /\ errCnt' \in ErrCounts
    /\ UNCHANGED <<link, search, train, unlock, agcSettled, tapSettled, ctrl>>

\* fw_init after hal_reset_all.
Init ==
    /\ state = "RESET" /\ entered = 0 /\ failFrom = "RESET"
    /\ retries = 0 /\ backoff = 2 /\ nudge = 0
    /\ unlock = 0 /\ trainErrs = 0 /\ trainSyms = 0
    /\ agcSettled = 0 /\ tapSettled = 0
    /\ ms = TickMod - 1          \* the first block makes it 0
    /\ status = {} /\ symCnt = 0 /\ errCnt = 0
    /\ pllEn = FALSE /\ loops = {} /\ gear = "off"
    /\ fe = [ctle |-> 0, h1 |-> 0]

Next == FwTick \/ HwBlock
Spec == Init /\ [][Next]_vars
-----------------------------------------------------------------------------
(* What the firmware guarantees under any hardware.                        *)

LinkTypeOK ==
    /\ state \in States /\ failFrom \in States
    /\ entered \in 0..(TickMod - 1) /\ ms \in 0..(TickMod - 1)
SearchTypeOK ==
    /\ retries \in 0..RetryCap /\ backoff \in Nat
    /\ nudge \in -NudgeMax..NudgeMax
CountTypeOK ==
    /\ unlock \in 0..LossTicks
    /\ trainErrs \in Nat /\ trainSyms \in Nat
    /\ agcSettled \in 0..AgcSettle /\ tapSettled \in 0..ConvBlocks
RegTypeOK ==
    /\ status \subseteq StatusBits /\ symCnt \in Nat /\ errCnt \in Nat
    /\ pllEn \in BOOLEAN /\ loops \subseteq Loops /\ gear \in Gears
    /\ fe \in [ctle : 0..CtleMax, h1 : 0..H1Max]

\* Every register and counter holds a value its type allows; in particular
\* the search correction stays in its int8_t and the codes in their fields.
TypeOK == LinkTypeOK /\ SearchTypeOK /\ CountTypeOK /\ RegTypeOK

\* "Loops that are not being trained are DISABLED" (fw_bringup.c:20): before
\* the AGC's turn no loop is enabled, during it only the AGC, afterwards all
\* four, coarse gear until the taps settle and fine gear from then on.
LoopsMatchState ==
    /\ state \in {"RESET", "PLL_LOCK", "WAIT_SIGNAL"} => loops = {} /\ gear = "off"
    /\ state = "AGC" => loops = {"AGC"} /\ gear = "off"
    /\ state \in {"CDR_LOCK", "EQ_TRAIN"} => loops = Loops /\ gear = "acq"
    /\ state \in {"EQ_VERIFY", "TRACK", "UP"} => loops = Loops /\ gear = "track"

\* An error rate of at most MaxBerE5 in 100000 bits, two bits to a symbol.
Clean(errs, syms) == errs * 100000 <= 2 * syms * MaxBerE5

\* A link that carries traffic was measured: the judgement that let it into
\* TRACK still stands in the counters while it tracks and while it is UP.
VerdictStands ==
    state \in {"TRACK", "UP"} =>
        trainSyms >= JudgeSyms /\ Clean(trainErrs, trainSyms)

\* The AGC measures every attempt at the same probe point (fw_bringup.c:286),
\* whatever the attempt before chose, and no attempt starts with convergence
\* the attempt before earned.
AttemptStartsClean ==
    /\ state \in {"PLL_LOCK", "WAIT_SIGNAL", "AGC"} => fe = ProbePoint /\ tapSettled = 0
    /\ state \in {"PLL_LOCK", "WAIT_SIGNAL"} => agcSettled = 0
    /\ state \notin {"RESET", "FAULT"} => pllEn

\* Exponential backoff (fw_bringup.c:13): the k-th retry waits 2^k ms and none
\* waits longer than the cap, whatever path the attempts before it died on.
BackoffLaw ==
    /\ backoff <= BackoffCap
    /\ retries < RetryCap => backoff = Min2(2 ^ (retries + 1), BackoffCap)
-----------------------------------------------------------------------------
(* LinkService's view of the bring-up.                                     *)

Phase == CASE state \in {"RESET", "FAULT"} -> "down"
           [] state = "TRACK" -> "accepted"
           [] state = "UP"    -> "up"
           [] OTHER           -> "acquire"
Verdict == trainSyms >= JudgeSyms /\ Clean(trainErrs, trainSyms)

LinkPromise == INSTANCE LinkService WITH
    AllLoops <- Loops, phase <- Phase, running <- loops, judged <- Verdict

\* The bring-up keeps the promise of LinkService, whatever the hardware does.
KeepsPromise == LinkPromise!SSpec
=============================================================================
