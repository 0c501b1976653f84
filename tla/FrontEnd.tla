------------------------------ MODULE FrontEnd ------------------------------
(***************************************************************************)
(* The operating-point calculation of fw_set_front_end: VGA code -> loss   *)
(* estimate -> CTLE code and h1 target, with the search correction         *)
(* ("nudge") that each retry steers by the state the last attempt died in. *)
(* Pure operators over integers; Bringup uses them in its AGC handler.     *)
(***************************************************************************)
EXTENDS Integers

CONSTANT NudgeMax  \* the correction's bound in dB, 14 in the code
ASSUME NudgeAssumption == NudgeMax \in Nat

VgaMax   == 63        \* VGA_GAIN_CODES - 1
CtleMax  == 15        \* CTLE_PEAK_CODES - 1
H1Max    == 63        \* CDR_H1_MASK

\* The state field of fw_link_t (link_state_t).
States == {"RESET", "PLL_LOCK", "WAIT_SIGNAL", "AGC", "CDR_LOCK",
           "EQ_TRAIN", "EQ_VERIFY", "TRACK", "UP", "FAULT"}

SatTo(v, lo, hi) == IF v > hi THEN hi ELSE IF v < lo THEN lo ELSE v

\* C division rounds toward zero; TLA+'s \div rounds toward minus infinity.
CDiv(a, b) == IF a >= 0 THEN a \div b ELSE -((-a) \div b)

\* The switch on fail_from, before saturation.
Steered(failFrom, nudge) ==
    CASE failFrom \in {"CDR_LOCK", "AGC"}    -> nudge + 3
      [] failFrom \in {"EQ_VERIFY", "TRACK"} -> nudge - 3
      [] OTHER -> IF nudge > 0 THEN -(nudge + 2) ELSE -(nudge - 2)

\* Without the saturation, the correction walks out of its int8_t field.
NextNudgeUnsaturated(retries, failFrom, nudge) ==
    IF retries > 0 THEN Steered(failFrom, nudge) ELSE nudge

NextNudge(retries, failFrom, nudge) ==
    IF retries > 0 THEN SatTo(Steered(failFrom, nudge), -NudgeMax, NudgeMax)
                   ELSE nudge

LossEstimate(vga, nudge) ==
    SatTo(CDiv((vga - 22) * 70, 100) + 8 + nudge, 2, 34)

CtleCode(il) == SatTo(CDiv(il * 100, 160), 0, CtleMax)
H1Code(il)   == SatTo(CDiv(il * 125, 100), 1, H1Max)

\* LS_RESET's fixed probe point, and the point chosen from the AGC's answer.
ProbePoint == [ctle |-> 8, h1 |-> 13]
ChosenPoint(vga, nudge) ==
    [ctle |-> CtleCode(LossEstimate(vga, nudge)),
     h1   |-> H1Code(LossEstimate(vga, nudge))]

OperatingPoints == [ctle : 0..CtleMax, h1 : 1..H1Max]
=============================================================================
