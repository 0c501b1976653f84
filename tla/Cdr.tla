-------------------------------- MODULE Cdr --------------------------------
(***************************************************************************)
(* Timing recovery, symbol by symbol (cdr.c, and the per-symbol loop of    *)
(* hw_lane_rx): a phase register inside one unit interval, a clamped       *)
(* integrator, a reference that drifts whether or not the loop is on, and  *)
(* the lock detector's counter.                                            *)
(*                                                                         *)
(* Phases are whole fractions of an interval.  The detector's error is an  *)
(* input, and so is whether the two slow averages (of the error and of the *)
(* slew) are within their limits: those are filters of noise.              *)
(***************************************************************************)
EXTENDS Integers

CONSTANTS
    Ui,             \* OSR: steps of phase in a unit interval
    IntegMax,       \* CDR_INTEG_MAX
    Gain,           \* kp, in steps of phase per unit of error
    Drifts,         \* reference mismatch per symbol: ppm_offset
    NoWrap,         \* NO_WRAP_SYMBOLS
    Dwell           \* LOCK_DWELL

ASSUME CdrAssumption ==
    /\ {Ui, IntegMax, Gain, NoWrap, Dwell} \subseteq Nat \ {0}
    /\ 0 \in Drifts /\ \A d \in Drifts : d \in (-Ui)..Ui

VARIABLES
    phase, integ, sinceWrap, lockCount, locked,     \* cdr_t
    cdrOn,          \* ADAPT_CDR_EN, which firmware sets and clears
    drift           \* hw_lane_t.ppm_offset

detector == <<integ, sinceWrap, lockCount, locked>>
cdrVars == <<phase, detector, cdrOn, drift>>

Errors == {-1, 0, 1}
Within(v, lo, hi) == IF v > hi THEN hi ELSE IF v < lo THEN lo ELSE v
\* The while loops of the wrap.
Wrapped(p) == p % Ui
OffEnd(p) == p < 0 \/ p >= Ui

\* hw_lane_rx's own wrap, after the drift.
Drifted(p) == Wrapped(p)

\* The counter, up to the dwell while all is quiet and down to 0 otherwise.
CountedPast(count, good) == IF good THEN IF count <= Dwell THEN count + 1 ELSE count
                            ELSE IF count > 0 THEN count - 1 ELSE 0
Counted(count, good) == IF good THEN IF count < Dwell THEN count + 1 ELSE count
                        ELSE IF count > 0 THEN count - 1 ELSE 0

\* Anything but on the anti-windup rail (0.95 of it, in the code).
OffRail(i) == i > -IntegMax /\ i < IntegMax
-----------------------------------------------------------------------------
\* A symbol with the loop on: cdr_update, then the drift.
UpdateSymbol(e, calm) ==
    LET i    == Within(integ + e, -IntegMax, IntegMax)
        p    == phase + Gain * e + i
        held == IF OffEnd(p) THEN 0
                ELSE IF sinceWrap <= NoWrap THEN sinceWrap + 1 ELSE sinceWrap
        good == calm /\ held > NoWrap /\ OffRail(i)
    IN  /\ cdrOn
        /\ integ' = i /\ sinceWrap' = held
        /\ phase' = Drifted(Wrapped(p) + drift)
        /\ lockCount' = Counted(lockCount, good)
        /\ locked' = (lockCount' >= Dwell)
        /\ UNCHANGED <<cdrOn, drift>>

\* A symbol with the loop off: the drift alone.
CoastSymbol ==
    /\ ~cdrOn /\ drift # 0
    /\ phase' = Drifted(phase + drift)
    /\ UNCHANGED <<detector, cdrOn, drift>>

\* Between blocks: firmware turns the loop on and off.
Switch == cdrOn' = ~cdrOn /\ UNCHANGED <<phase, detector, drift>>

\* hw_lane_init: cdr_init, and the lane's own mismatch.
PowerUp(d) == drift = 0 /\ drift' = d
              /\ UNCHANGED <<phase, detector, cdrOn>>

CdrInit ==
    /\ phase = Ui \div 2 /\ integ = 0 /\ sinceWrap = 0
    /\ lockCount = 0 /\ locked = FALSE /\ cdrOn = FALSE /\ drift = 0
CdrNext ==
    \/ \E e \in Errors, calm \in BOOLEAN : UpdateSymbol(e, calm)
    \/ CoastSymbol \/ Switch
    \/ \E d \in Drifts \ {0} : PowerUp(d)
CdrSpec == CdrInit /\ [][CdrNext]_cdrVars
-----------------------------------------------------------------------------
CdrTypeOK ==
    /\ phase \in 0..(Ui - 1) /\ integ \in (-IntegMax)..IntegMax /\ sinceWrap \in 0..(NoWrap + 1)
    /\ lockCount \in Nat /\ locked \in BOOLEAN
    /\ cdrOn \in BOOLEAN /\ drift \in Drifts

\* "A lock detector that lies is worse than none" (cdr.c:211): while it says
\* locked, cdr_update has not rolled the phase over for the dwell it asks for
\* and the loop is not on its rail, also long after the counter filled: one bad
\* symbol takes the lock back, because the counter stops where the lock begins.
\* Only cdr_update's own wraps count, in the code as here: a roll-over in
\* hw_lane_rx, by the lane's drift alone (hw_lane.c:446), does not touch
\* since_wrap, and a loop it turns may still say locked.
LockMeansHeld == locked => sinceWrap > NoWrap /\ OffRail(integ)
=============================================================================
