--------------------------- MODULE BringupProofs ---------------------------
(***************************************************************************)
(* What the bring-up firmware guarantees whatever the hardware does, for   *)
(* every table of timeouts, service rate, backoff cap and counter width.   *)
(*                                                                         *)
(* The inductive invariant is TypeOK with the three properties: which      *)
(* loops run (LoopsMatchState) says what an action that only adds loops    *)
(* ends with, AttemptStartsClean and VerdictStands carry themselves.       *)
(*                                                                         *)
(* Before it, what fw_set_front_end can write; after it, that the bring-up *)
(* implements LinkService: the initial state is mapped to the initial      *)
(* state and every step, taken from a state of the invariant, to a step of *)
(* the service or a stutter.                                               *)
(***************************************************************************)
EXTENDS Bringup, TLAPS
-----------------------------------------------------------------------------
(* The operating point.                                                    *)

\* C's division of integers by a positive constant yields an integer.
LEMMA CDivInt ==
  ASSUME NEW a \in Int, NEW b \in Nat, b > 0
  PROVE  CDiv(a, b) \in Int
  BY DEF CDiv

\* The search correction stays in its range (and so in its int8_t field)
\* whichever state the attempt before died in.
THEOREM NudgeBounded ==
  ASSUME NEW r \in Nat, NEW f \in States, NEW n \in -NudgeMax..NudgeMax
  PROVE  NextNudge(r, f, n) \in -NudgeMax..NudgeMax
<1>1. Steered(f, n) \in Int
  BY NudgeAssumption DEF Steered
<1>2. QED
  BY <1>1, NudgeAssumption DEF NextNudge, SatTo

\* Both codes derived from a saturated loss estimate fit their fields.
LEMMA CodesOfLoss ==
  ASSUME NEW il \in 2..34
  PROVE  /\ CtleCode(il) \in 0..CtleMax
         /\ H1Code(il) \in 1..H1Max
<1>1. il * 100 \in Int /\ il * 125 \in Int
  OBVIOUS
<1>2. CDiv(il * 100, 160) \in Int /\ CDiv(il * 125, 100) \in Int
  BY <1>1, CDivInt
<1>3. QED
  BY <1>2 DEF CtleCode, CtleMax, H1Code, H1Max, SatTo

\* The operating point fw_set_front_end writes fits the register fields, and
\* the h1 target is never zero, for every VGA code and correction.
THEOREM PointInRange ==
  ASSUME NEW vga \in 0..VgaMax, NEW n \in -NudgeMax..NudgeMax
  PROVE  ChosenPoint(vga, n) \in OperatingPoints
<1>1. LossEstimate(vga, n) \in 2..34
  <2>1. /\ (vga - 22) * 70 \in Int
        /\ n \in Int
    BY NudgeAssumption DEF VgaMax
  <2>2. CDiv((vga - 22) * 70, 100) \in Int
    BY <2>1, CDivInt
  <2>3. QED
    BY <2>1, <2>2 DEF LossEstimate, SatTo
<1>2. QED
  BY <1>1, CodesOfLoss DEF ChosenPoint, OperatingPoints
-----------------------------------------------------------------------------
(* The invariant.                                                          *)

IInv == TypeOK /\ LoopsMatchState /\ VerdictStands /\ AttemptStartsClean

\* The AGC's and the equaliser's convergence counters stay in their ranges.
LEMMA SettledBounds ==
  ASSUME CountTypeOK
  PROVE  /\ \A b \in BOOLEAN : AgcNext(b) \in 0..AgcSettle
         /\ \A q \in BOOLEAN : TapNext(q) \in 0..ConvBlocks
<1>1. AgcSettle \in Nat \ {0} /\ ConvBlocks \in Nat \ {0}
  BY CountAssumption
<1>2. QED
  BY <1>1 DEF CountTypeOK, AgcNext, TapNext, Min2

\* enter() keeps the link's fields in their types.
LEMMA EnterTyped ==
  ASSUME LinkTypeOK, NEW s \in States, Enter(s)
  PROVE  state' = s /\ entered' \in 0..(TickMod - 1) /\ failFrom' \in States
  BY DEF LinkTypeOK, Enter

\* A tick that stays or times out keeps the link's fields in their types.
LEMMA StayTyped ==
  ASSUME LinkTypeOK, StayOrTimeOut
  PROVE  /\ state' \in {state, "FAULT"}
         /\ entered' \in 0..(TickMod - 1)
         /\ failFrom' \in States
  BY DEF LinkTypeOK, StayOrTimeOut, TimeOut, Stay, link, Enter

\* The firmware's comparison in bits is the error rate the property means.
LEMMA AcceptedIsClean ==
  ASSUME NEW errs \in Nat, NEW syms \in Nat, Acceptable(errs, syms)
  PROVE  Clean(errs, syms)
<1>1. MaxBerE5 \in Nat
  BY CountAssumption
<1>2. syms * 2 * MaxBerE5 = 2 * syms * MaxBerE5
  BY <1>1
<1>3. QED
  BY <1>2 DEF Acceptable, Clean

\* Each kind of state starts in its type.
LEMMA InitTyped == Init => TypeOK
<1> SUFFICES ASSUME Init PROVE TypeOK
  OBVIOUS
<1>1. TickMod \in Nat \ {0}
  BY ClockAssumption
<1>2. /\ LossTicks \in Nat \ {0} /\ AgcSettle \in Nat \ {0}
      /\ ConvBlocks \in Nat \ {0} /\ RetryCap \in Nat \ {0}
  BY CountAssumption
<1>3. LinkTypeOK
  BY <1>1 DEF Init, LinkTypeOK, States
<1>4. SearchTypeOK
  BY <1>2, NudgeAssumption DEF Init, SearchTypeOK
<1>5. CountTypeOK
  BY <1>2 DEF Init, CountTypeOK
<1>6. RegTypeOK
  <2>1. fe \in [ctle : 0..CtleMax, h1 : 0..H1Max]
    BY DEF Init, CtleMax, H1Max
  <2>2. /\ status \subseteq StatusBits /\ loops \subseteq Loops
        /\ pllEn \in BOOLEAN /\ gear \in Gears
    BY DEF Init, Gears
  <2>3. symCnt \in Nat /\ errCnt \in Nat
    BY DEF Init
  <2>4. QED
    BY <2>1, <2>2, <2>3 DEF RegTypeOK
<1>7. QED
  BY <1>3, <1>4, <1>5, <1>6 DEF TypeOK

\* The invariant holds when fw_init returns.
LEMMA InitIInv == Init => IInv
  BY InitTyped DEF IInv, Init, LoopsMatchState, VerdictStands, AttemptStartsClean
-----------------------------------------------------------------------------
\* A loss of signal only moves the state to FAULT.
LEMMA LosFaultKeeps ==
  ASSUME IInv, LosFault
  PROVE  IInv'
<1>1. LinkTypeOK'
  BY EnterTyped DEF IInv, TypeOK, LinkTypeOK, States, LosFault
<1>2. SearchTypeOK'
  BY DEF IInv, TypeOK, SearchTypeOK, LosFault, search
<1>3. CountTypeOK'
  BY DEF IInv, TypeOK, CountTypeOK, LosFault, train
<1>4. RegTypeOK'
  BY DEF IInv, TypeOK, RegTypeOK, Loops, Gears, LosFault, AckLos, ctrl
<1>5. LoopsMatchState'
  BY DEF IInv, LoopsMatchState, LosFault, ctrl, Enter, Loops
<1>6. VerdictStands'
  BY DEF IInv, VerdictStands, LosFault, train, Enter
<1>7. AttemptStartsClean'
  BY DEF IInv, AttemptStartsClean, LosFault, ctrl, Enter
<1>8. QED
  BY <1>1, <1>2, <1>3, <1>4, <1>5, <1>6, <1>7 DEF IInv, TypeOK

\* RESET freezes the loops and clears what the attempt before left.
LEMMA ResetKeeps ==
  ASSUME IInv, Reset
  PROVE  IInv'
<1>1. LinkTypeOK'
  BY EnterTyped DEF IInv, TypeOK, LinkTypeOK, States, Reset, InState
<1>2. SearchTypeOK'
  BY DEF IInv, TypeOK, SearchTypeOK, Reset, search
<1>3. CountTypeOK'
  <2>1. AgcSettle \in Nat /\ ConvBlocks \in Nat
    BY CountAssumption
  <2>2. QED
    BY <2>1 DEF IInv, TypeOK, CountTypeOK, Reset, train, ResetLoops
<1>4. RegTypeOK'
  <2>1. fe' \in [ctle : 0..CtleMax, h1 : 0..H1Max]
    BY DEF Reset, ProbePoint, CtleMax, H1Max
  <2>2. QED
    BY <2>1 DEF IInv, TypeOK, RegTypeOK, Gears, Reset, InState, AckLos, FreezeAll
<1>5. LoopsMatchState'
  BY DEF IInv, LoopsMatchState, Reset, InState, Enter, FreezeAll, Loops
<1>6. VerdictStands'
  BY DEF IInv, VerdictStands, Reset, InState, train, Enter
<1>7. AttemptStartsClean'
  BY DEF IInv, AttemptStartsClean, Reset, InState, Enter, ResetLoops
<1>8. QED
  BY <1>1, <1>2, <1>3, <1>4, <1>5, <1>6, <1>7 DEF IInv, TypeOK

\* PLL_LOCK moves nothing but the state.
LEMMA PllLockKeeps ==
  ASSUME IInv, PllLock
  PROVE  IInv'
<1>1. LinkTypeOK'
  BY EnterTyped, StayTyped DEF IInv, TypeOK, LinkTypeOK, States, PllLock, InState
<1>2. SearchTypeOK'
  BY DEF IInv, TypeOK, SearchTypeOK, PllLock, search
<1>3. CountTypeOK'
  BY DEF IInv, TypeOK, CountTypeOK, PllLock, train
<1>4. RegTypeOK'
  BY DEF IInv, TypeOK, RegTypeOK, Loops, Gears, PllLock, InState, AckLos, ctrl
<1>5. LoopsMatchState'
  BY DEF IInv, LoopsMatchState, PllLock, InState, ctrl,
     Enter, Stay, link, StayOrTimeOut, TimeOut, Loops
<1>6. VerdictStands'
  BY DEF IInv, VerdictStands, PllLock, InState, train,
     Enter, Stay, link, StayOrTimeOut, TimeOut
<1>7. AttemptStartsClean'
  BY DEF IInv, AttemptStartsClean, PllLock, InState,
     ctrl, Enter, Stay, link, StayOrTimeOut, TimeOut
<1>8. QED
  BY <1>1, <1>2, <1>3, <1>4, <1>5, <1>6, <1>7 DEF IInv, TypeOK

\* WAIT_SIGNAL adds the AGC and nothing else.
LEMMA WaitSignalKeeps ==
  ASSUME IInv, WaitSignal
  PROVE  IInv'
<1>1. LinkTypeOK'
  BY EnterTyped, StayTyped DEF IInv, TypeOK, LinkTypeOK, States, WaitSignal, InState
<1>2. SearchTypeOK'
  BY DEF IInv, TypeOK, SearchTypeOK, WaitSignal, search
<1>3. CountTypeOK'
  BY DEF IInv, TypeOK, CountTypeOK, WaitSignal, train
<1>4. RegTypeOK'
  BY DEF IInv, TypeOK, RegTypeOK, Loops, Gears, WaitSignal, InState, AckLos
<1>5. LoopsMatchState'
  BY DEF IInv, LoopsMatchState, WaitSignal, InState,
     Enter, Stay, link, StayOrTimeOut, TimeOut, Loops
<1>6. VerdictStands'
  BY DEF IInv, VerdictStands, WaitSignal, InState, train,
     Enter, Stay, link, StayOrTimeOut, TimeOut
<1>7. AttemptStartsClean'
  BY DEF IInv, AttemptStartsClean, WaitSignal, InState,
     Enter, Stay, link, StayOrTimeOut, TimeOut
<1>8. QED
  BY <1>1, <1>2, <1>3, <1>4, <1>5, <1>6, <1>7 DEF IInv, TypeOK

\* The AGC's tick chooses an operating point in range and enables the rest.
LEMMA AgcKeeps ==
  ASSUME IInv, NEW inBand \in BOOLEAN, NEW vga \in VgaCodes, Agc(inBand, vga)
  PROVE  IInv'
<1>1. LinkTypeOK'
  BY EnterTyped, StayTyped DEF IInv, TypeOK, LinkTypeOK, States, Agc, InState, AgcDone
<1>2. SearchTypeOK'
  <2>1. retries \in Nat /\ failFrom \in States /\ nudge \in -NudgeMax..NudgeMax
    BY CountAssumption DEF IInv, TypeOK, LinkTypeOK, SearchTypeOK
  <2>2. nudge' \in -NudgeMax..NudgeMax
    BY <2>1, NudgeBounded DEF Agc, AgcDone
  <2>3. QED
    BY <2>2 DEF IInv, TypeOK, SearchTypeOK, Agc
<1>3. CountTypeOK'
  BY SettledBounds DEF IInv, TypeOK, CountTypeOK, Agc, train, AgcStep
<1>4. RegTypeOK'
  <2>1. nudge' \in -NudgeMax..NudgeMax /\ vga \in 0..VgaMax
    BY <1>2, CountAssumption DEF SearchTypeOK
  <2>2. ChosenPoint(vga, nudge') \in [ctle : 0..CtleMax, h1 : 0..H1Max]
    BY <2>1, PointInRange DEF OperatingPoints, CtleMax, H1Max
  <2>3. fe' \in [ctle : 0..CtleMax, h1 : 0..H1Max]
    BY <2>2 DEF IInv, TypeOK, RegTypeOK, Agc, AgcDone
  <2>4. gear' \in Gears /\ loops' \subseteq Loops
    BY DEF IInv, TypeOK, RegTypeOK, Agc, AgcDone, Gears, Loops
  <2>5. QED
    BY <2>3, <2>4 DEF IInv, TypeOK, RegTypeOK, Agc, InState, AckLos, AgcStep
<1>5. LoopsMatchState'
  BY DEF IInv, LoopsMatchState, Agc, InState, Enter,
     Stay, link, StayOrTimeOut, TimeOut, AgcDone, Loops
<1>6. VerdictStands'
  BY DEF IInv, VerdictStands, Agc, InState, train, Enter,
     Stay, link, StayOrTimeOut, TimeOut, AgcDone
<1>7. AttemptStartsClean'
  BY DEF IInv, AttemptStartsClean, Agc, InState, Enter,
     Stay, link, StayOrTimeOut, TimeOut, AgcDone, AgcStep
<1>8. QED
  BY <1>1, <1>2, <1>3, <1>4, <1>5, <1>6, <1>7 DEF IInv, TypeOK

\* CDR_LOCK starts the count and leaves the loops as they are.
LEMMA CdrLockKeeps ==
  ASSUME IInv, NEW quiet \in BOOLEAN, CdrLock(quiet)
  PROVE  IInv'
<1>1. LinkTypeOK'
  BY EnterTyped, StayTyped DEF IInv, TypeOK, LinkTypeOK, States, CdrLock, InState
<1>2. SearchTypeOK'
  BY DEF IInv, TypeOK, SearchTypeOK, CdrLock, search
<1>3. CountTypeOK'
  BY SettledBounds DEF IInv, TypeOK, CountTypeOK, CdrLock, train, AdaptStep, StartCount
<1>4. RegTypeOK'
  BY DEF IInv, TypeOK, RegTypeOK, Loops, Gears, CdrLock,
     InState, AckLos, ctrl, StartCount
<1>5. LoopsMatchState'
  BY DEF IInv, LoopsMatchState, CdrLock, InState, ctrl,
     Enter, Stay, link, StayOrTimeOut, TimeOut, Loops
<1>6. VerdictStands'
  BY DEF IInv, VerdictStands, CdrLock, InState, train,
     Enter, Stay, link, StayOrTimeOut, TimeOut, StartCount
<1>7. AttemptStartsClean'
  BY DEF IInv, AttemptStartsClean, CdrLock, InState,
     ctrl, Enter, Stay, link, StayOrTimeOut, TimeOut, AdaptStep
<1>8. QED
  BY <1>1, <1>2, <1>3, <1>4, <1>5, <1>6, <1>7 DEF IInv, TypeOK

\* EQ_TRAIN changes gear exactly when it enters EQ_VERIFY.
LEMMA EqTrainKeeps ==
  ASSUME IInv, NEW quiet \in BOOLEAN, EqTrain(quiet)
  PROVE  IInv'
<1>1. LinkTypeOK'
  BY EnterTyped, StayTyped DEF IInv, TypeOK, LinkTypeOK, States, EqTrain, InState
<1>2. SearchTypeOK'
  BY DEF IInv, TypeOK, SearchTypeOK, EqTrain, search
<1>3. CountTypeOK'
  BY SettledBounds DEF IInv, TypeOK, CountTypeOK, EqTrain, train, AdaptStep, StartCount
<1>4. RegTypeOK'
  BY DEF IInv, TypeOK, RegTypeOK, Loops, Gears, EqTrain, InState, AckLos, StartCount
<1>5. LoopsMatchState'
  BY DEF IInv, LoopsMatchState, EqTrain, InState, Enter,
     Stay, link, StayOrTimeOut, TimeOut, Loops
<1>6. VerdictStands'
  BY DEF IInv, VerdictStands, EqTrain, InState, train,
     Enter, Stay, link, StayOrTimeOut, TimeOut, StartCount
<1>7. AttemptStartsClean'
  BY DEF IInv, AttemptStartsClean, EqTrain, InState,
     Enter, Stay, link, StayOrTimeOut, TimeOut, AdaptStep
<1>8. QED
  BY <1>1, <1>2, <1>3, <1>4, <1>5, <1>6, <1>7 DEF IInv, TypeOK

\* EQ_VERIFY enters TRACK only on a verdict that its counters hold.
LEMMA EqVerifyKeeps ==
  ASSUME IInv, NEW quiet \in BOOLEAN, NEW inBand \in BOOLEAN, EqVerify(quiet, inBand)
  PROVE  IInv'
<1>1. LinkTypeOK'
  BY EnterTyped, StayTyped DEF IInv, TypeOK, LinkTypeOK, States, EqVerify, InState
<1>2. SearchTypeOK'
  BY DEF IInv, TypeOK, SearchTypeOK, EqVerify, search
<1>3. CountTypeOK'
  <2>1. trainErrs' \in Nat /\ trainSyms' \in Nat
    BY DEF IInv, TypeOK, CountTypeOK, RegTypeOK, EqVerify
  <2>2. QED
    BY <2>1, SettledBounds
       DEF IInv, TypeOK, CountTypeOK, EqVerify, AgcStep, AdaptStep
<1>4. RegTypeOK'
  BY DEF IInv, TypeOK, RegTypeOK, Loops, Gears, EqVerify, InState, AckLos, ctrl, AgcStep
<1>5. LoopsMatchState'
  BY DEF IInv, LoopsMatchState, EqVerify, InState, ctrl,
     Enter, Stay, link, StayOrTimeOut, TimeOut, Loops
<1>6. VerdictStands'
  <2>1. CASE state' = "TRACK"
    <3>1. trainSyms' >= JudgeSyms /\ Acceptable(trainErrs', trainSyms')
      BY <2>1 DEF EqVerify, InState, Enter, Stay, link, StayOrTimeOut, TimeOut
    <3>2. trainErrs' \in Nat /\ trainSyms' \in Nat
      BY <1>3 DEF CountTypeOK
    <3>3. Clean(trainErrs', trainSyms')
      BY <3>1, <3>2, AcceptedIsClean
    <3>4. QED
      BY <3>1, <3>3 DEF VerdictStands
  <2>2. CASE state' # "TRACK"
    <3>1. state' \in {"EQ_VERIFY", "FAULT"}
      BY <2>2 DEF EqVerify, InState, Enter, Stay, link, StayOrTimeOut, TimeOut
    <3>2. QED
      BY <3>1 DEF VerdictStands
  <2>3. QED
    BY <2>1, <2>2
<1>7. AttemptStartsClean'
  BY DEF IInv, AttemptStartsClean, EqVerify, InState,
     ctrl, Enter, Stay, link, StayOrTimeOut, TimeOut, AgcStep,
     AdaptStep
<1>8. QED
  BY <1>1, <1>2, <1>3, <1>4, <1>5, <1>6, <1>7 DEF IInv, TypeOK

\* TRACK leaves loops and counters as the judgement left them.
LEMMA TrackKeeps ==
  ASSUME IInv, NEW quiet \in BOOLEAN, NEW inBand \in BOOLEAN, Track(quiet, inBand)
  PROVE  IInv'
<1>1. LinkTypeOK'
  BY EnterTyped, StayTyped DEF IInv, TypeOK, LinkTypeOK, States, Track, InState
<1>2. SearchTypeOK'
  BY DEF IInv, TypeOK, SearchTypeOK, Track, search
<1>3. CountTypeOK'
  BY SettledBounds DEF IInv, TypeOK, CountTypeOK, Track, train, AgcStep, AdaptStep
<1>4. RegTypeOK'
  BY DEF IInv, TypeOK, RegTypeOK, Loops, Gears, Track, InState, AckLos, ctrl, AgcStep
<1>5. LoopsMatchState'
  BY DEF IInv, LoopsMatchState, Track, InState, ctrl,
     Enter, Stay, link, StayOrTimeOut, TimeOut, Loops
<1>6. VerdictStands'
  BY DEF IInv, VerdictStands, Track, InState, train,
     Enter, Stay, link, StayOrTimeOut, TimeOut
<1>7. AttemptStartsClean'
  BY DEF IInv, AttemptStartsClean, Track, InState, ctrl,
     Enter, Stay, link, StayOrTimeOut, TimeOut, AgcStep,
     AdaptStep
<1>8. QED
  BY <1>1, <1>2, <1>3, <1>4, <1>5, <1>6, <1>7 DEF IInv, TypeOK

\* An UP tick leaves loops and counters alone, whatever it decides.
LEMMA UpKeeps ==
  ASSUME IInv, NEW quiet \in BOOLEAN, NEW inBand \in BOOLEAN, Up(quiet, inBand)
  PROVE  IInv'
<1>1. LinkTypeOK'
  BY EnterTyped DEF IInv, TypeOK, LinkTypeOK, States,
     Up, InState, UpSupervise, Stay, link
<1>2. SearchTypeOK'
  BY DEF IInv, TypeOK, SearchTypeOK, Up, search
<1>3. CountTypeOK'
  <2>1. LossTicks \in Nat \ {0}
    BY CountAssumption
  <2>2. unlock' \in 0..LossTicks
    BY <2>1 DEF IInv, TypeOK, CountTypeOK, Up, UpSupervise, Min2
  <2>3. QED
    BY <2>2, SettledBounds
       DEF IInv, TypeOK, CountTypeOK, Up, train, AgcStep, AdaptStep
<1>4. RegTypeOK'
  BY DEF IInv, TypeOK, RegTypeOK, Loops, Gears, Up, InState, AckLos, ctrl, AgcStep
<1>5. LoopsMatchState'
  BY DEF IInv, LoopsMatchState, Up, InState, ctrl, Enter, Stay, link, UpSupervise, Loops
<1>6. VerdictStands'
  BY DEF IInv, VerdictStands, Up, InState, train, Enter, Stay, link, UpSupervise
<1>7. AttemptStartsClean'
  BY DEF IInv, AttemptStartsClean, Up, InState, ctrl,
     Enter, Stay, link, UpSupervise, AgcStep, AdaptStep
<1>8. QED
  BY <1>1, <1>2, <1>3, <1>4, <1>5, <1>6, <1>7 DEF IInv, TypeOK

\* FAULT freezes the loops before it may start an attempt.
LEMMA FaultKeeps ==
  ASSUME IInv, Fault
  PROVE  IInv'
<1>1. LinkTypeOK'
  BY EnterTyped DEF IInv, TypeOK, LinkTypeOK, States, Fault, InState, Stay, link
<1>2. SearchTypeOK'
  <2>1. BackoffCap \in Nat /\ RetryCap \in Nat
    BY ClockAssumption, CountAssumption
  <2>2. backoff' \in Nat
    BY <2>1 DEF IInv, TypeOK, SearchTypeOK, Fault, NextBackoff
  <2>3. retries' \in 0..RetryCap
    BY <2>1 DEF IInv, TypeOK, SearchTypeOK, Fault, Min2
  <2>4. QED
    BY <2>2, <2>3 DEF IInv, TypeOK, SearchTypeOK, Fault
<1>3. CountTypeOK'
  BY DEF IInv, TypeOK, CountTypeOK, Fault, train
<1>4. RegTypeOK'
  BY DEF IInv, TypeOK, RegTypeOK, Loops, Gears, Fault, InState, AckLos, FreezeAll
<1>5. LoopsMatchState'
  BY DEF IInv, LoopsMatchState, Fault, InState, Enter, Stay, link, FreezeAll, Loops
<1>6. VerdictStands'
  BY DEF IInv, VerdictStands, Fault, InState, train, Enter, Stay, link
<1>7. AttemptStartsClean'
  BY DEF IInv, AttemptStartsClean, Fault, InState, Enter, Stay, link
<1>8. QED
  BY <1>1, <1>2, <1>3, <1>4, <1>5, <1>6, <1>7 DEF IInv, TypeOK

\* A block of any hardware leaves the firmware's own state alone.
LEMMA HwBlockKeeps ==
  ASSUME IInv, HwBlock
  PROVE  IInv'
<1>1. LinkTypeOK'
  <2>1. ms' \in 0..(TickMod - 1)
    BY ClockAssumption DEF IInv, TypeOK, LinkTypeOK, HwBlock, WrapAdd
  <2>2. QED
    BY <2>1 DEF IInv, TypeOK, LinkTypeOK, HwBlock, link
<1>2. SearchTypeOK' /\ CountTypeOK'
  BY DEF IInv, TypeOK, SearchTypeOK, CountTypeOK, HwBlock, search, train
<1>3. RegTypeOK'
  BY CountAssumption DEF IInv, TypeOK, RegTypeOK, HwBlock, ctrl
<1>4. LoopsMatchState' /\ VerdictStands' /\ AttemptStartsClean'
  BY DEF IInv, LoopsMatchState, VerdictStands, AttemptStartsClean,
     HwBlock, link, train, ctrl
<1>5. QED
  BY <1>1, <1>2, <1>3, <1>4 DEF IInv, TypeOK

\* Every step of the firmware and of any hardware keeps the invariant.
THEOREM NextKeeps == IInv /\ [Next]_vars => IInv'
<1> SUFFICES ASSUME IInv, [Next]_vars PROVE IInv'
  OBVIOUS
<1>1. CASE FwTick
  BY <1>1, LosFaultKeeps, ResetKeeps, PllLockKeeps, WaitSignalKeeps, AgcKeeps,
     CdrLockKeeps, EqTrainKeeps, EqVerifyKeeps, TrackKeeps, UpKeeps, FaultKeeps
     DEF FwTick, Tick
<1>2. CASE HwBlock
  BY <1>2, HwBlockKeeps
<1>3. CASE UNCHANGED vars
  BY <1>3 DEF IInv, TypeOK, LinkTypeOK, SearchTypeOK, CountTypeOK, RegTypeOK,
     LoopsMatchState, VerdictStands, AttemptStartsClean,
     vars, link, search, train, ctrl
<1>4. QED
  BY <1>1, <1>2, <1>3 DEF Next

\* The invariant holds throughout every run.
THEOREM Invariance == Spec => []IInv
  BY InitIInv, NextKeeps, PTL DEF Spec

\* Type correctness: every field and register value fits where it is kept.
THEOREM TypeCorrect == Spec => []TypeOK
<1>1. IInv => TypeOK
  BY DEF IInv
<1>2. QED
  BY <1>1, Invariance, PTL

\* Freeze-and-hold: the enabled loops are those of the bring-up state.
THEOREM FreezeAndHold == Spec => []LoopsMatchState
<1>1. IInv => LoopsMatchState
  BY DEF IInv
<1>2. QED
  BY <1>1, Invariance, PTL

\* Only a link whose measured error rate passed tracks or carries traffic.
THEOREM NoUnmeasuredLink == Spec => []VerdictStands
<1>1. IInv => VerdictStands
  BY DEF IInv
<1>2. QED
  BY <1>1, Invariance, PTL

\* Every attempt measures the channel from the same point, from scratch.
THEOREM CleanAttempts == Spec => []AttemptStartsClean
<1>1. IInv => AttemptStartsClean
  BY DEF IInv
<1>2. QED
  BY <1>1, Invariance, PTL
-----------------------------------------------------------------------------
(* The refinement of LinkService.                                          *)

\* Powered down, with nothing running and nothing judged.
LEMMA InitPromise == Init => LinkPromise!SInit
  BY CountAssumption DEF Init, LinkPromise!SInit, Phase, Verdict

\* The verdict is a truth value.
LEMMA VerdictBoolean == Verdict \in BOOLEAN /\ Verdict' \in BOOLEAN
  BY Zenon DEF Verdict

\* Every step of the firmware is a step of the service or leaves it alone.
LEMMA FwPromise ==
  ASSUME IInv, FwTick
  PROVE  LinkPromise!SNext \/ UNCHANGED <<Phase, loops, Verdict>>
<1> USE VerdictBoolean
    DEF LinkPromise!SNext, LinkPromise!Freeze, LinkPromise!StartAttempt,
        LinkPromise!Acquire, LinkPromise!Accept, LinkPromise!ComeUp, LinkPromise!Lose
<1>1. CASE LosFault
  BY <1>1 DEF LosFault, LosFaults, Enter, ctrl, Phase, Verdict, train, IInv, TypeOK, LinkTypeOK, States
<1>2. CASE Reset
  BY <1>2 DEF Reset, InState, Enter, FreezeAll, Phase, Verdict, train
<1>3. CASE PllLock
  BY <1>3 DEF PllLock, InState, Enter, StayOrTimeOut, TimeOut, Stay, link,
     ctrl, train, Phase, Verdict
<1>4. CASE WaitSignal
  BY <1>4 DEF WaitSignal, InState, Enter, StayOrTimeOut, TimeOut, Stay, link,
     train, Phase, Verdict, IInv, TypeOK, RegTypeOK, Loops
<1>5. ASSUME NEW inBand \in BOOLEAN, NEW vga \in VgaCodes, Agc(inBand, vga)
      PROVE  LinkPromise!SNext \/ UNCHANGED <<Phase, loops, Verdict>>
  BY <1>5 DEF Agc, AgcDone, InState, Enter, StayOrTimeOut, TimeOut, Stay, link,
     train, Phase, Verdict, IInv, TypeOK, RegTypeOK, Loops
<1>6. ASSUME NEW quiet \in BOOLEAN, CdrLock(quiet)
      PROVE  LinkPromise!SNext \/ UNCHANGED <<Phase, loops, Verdict>>
  BY <1>6 DEF CdrLock, InState, Enter, StayOrTimeOut, TimeOut, Stay, link,
     ctrl, Phase, IInv, TypeOK, RegTypeOK
<1>7. ASSUME NEW quiet \in BOOLEAN, EqTrain(quiet)
      PROVE  LinkPromise!SNext \/ UNCHANGED <<Phase, loops, Verdict>>
  BY <1>7 DEF EqTrain, InState, Enter, StayOrTimeOut, TimeOut, Stay, link,
     Phase, IInv, TypeOK, RegTypeOK
<1>8. ASSUME NEW quiet \in BOOLEAN, NEW inBand \in BOOLEAN, EqVerify(quiet, inBand)
      PROVE  LinkPromise!SNext \/ UNCHANGED <<Phase, loops, Verdict>>
  <2>1. loops = Loops /\ loops' = loops /\ Phase = "acquire"
    BY <1>8 DEF IInv, LoopsMatchState, EqVerify, InState, ctrl, Phase
  <2>2. CASE state' = "TRACK"
    <3>1. Verdict'
      BY <1>8, <2>2 DEF EqVerify, InState, Enter, StayOrTimeOut, TimeOut, Stay, link,
         Acceptable, Clean, Verdict
    <3>2. QED
      BY <2>1, <2>2, <3>1 DEF Phase
  <2>3. CASE state' = "FAULT"
    BY <2>1, <2>3 DEF Phase
  <2>4. CASE state' = "EQ_VERIFY"
    BY <2>1, <2>4 DEF Phase, IInv, TypeOK, RegTypeOK
  <2>5. QED
    BY <1>8, <2>2, <2>3, <2>4 DEF EqVerify, InState, Enter, StayOrTimeOut, TimeOut,
       Stay, link
<1>9. ASSUME NEW quiet \in BOOLEAN, NEW inBand \in BOOLEAN, Track(quiet, inBand)
      PROVE  LinkPromise!SNext \/ UNCHANGED <<Phase, loops, Verdict>>
  BY <1>9 DEF Track, InState, Enter, StayOrTimeOut, TimeOut, Stay, link,
     ctrl, train, Phase, Verdict, IInv, VerdictStands
<1>10. ASSUME NEW quiet \in BOOLEAN, NEW inBand \in BOOLEAN, Up(quiet, inBand)
       PROVE  LinkPromise!SNext \/ UNCHANGED <<Phase, loops, Verdict>>
  BY <1>10 DEF Up, UpSupervise, InState, Enter, Stay, link, ctrl, train, Phase, Verdict
<1>11. CASE Fault
  BY <1>11 DEF Fault, InState, Enter, Stay, link, FreezeAll, train, Phase, Verdict
<1>12. QED
  <2> HIDE DEF LinkPromise!SNext
  <2>1. QED
    BY <1>1, <1>2, <1>3, <1>4, <1>5, <1>6, <1>7, <1>8, <1>9, <1>10, <1>11
       DEF FwTick, Tick

\* The whole step: a block of hardware does not show in the service.
THEOREM StepPromise ==
  IInv /\ [Next]_vars => [LinkPromise!SNext]_<<Phase, loops, Verdict>>
<1> SUFFICES ASSUME IInv, [Next]_vars
             PROVE  LinkPromise!SNext \/ UNCHANGED <<Phase, loops, Verdict>>
  OBVIOUS
<1>1. CASE FwTick
  BY <1>1, FwPromise
<1>2. CASE HwBlock
  BY <1>2 DEF HwBlock, link, train, ctrl, Phase, Verdict
<1>3. CASE UNCHANGED vars
  BY <1>3 DEF vars, link, train, ctrl, Phase, Verdict
<1>4. QED
  BY <1>1, <1>2, <1>3 DEF Next

\* The bring-up keeps LinkService's promise for every hardware, every table of
\* timeouts and every service rate.
THEOREM PromiseKept == Spec => KeepsPromise
  BY InitPromise, Invariance, StepPromise, PTL
     DEF Spec, KeepsPromise, LinkPromise!SSpec, LinkPromise!svars
=============================================================================
