-------------------------------- MODULE Agc --------------------------------
(***************************************************************************)
(* The gain loop of one lane (fw_agc.c): fw_agc_set_target and             *)
(* fw_agc_reset when an attempt begins, fw_agc_step once per block, the    *)
(* VGA trading headroom with the TIA at either end.  All of the code's own *)
(* constants are kept.  The front end it controls is afe.c: the amplitude  *)
(* of a block is the level at the receiver times the gains of the codes.   *)
(***************************************************************************)
EXTENDS Integers, Sequences

CONSTANTS
    Levels,         \* levels at the receiver, in 1/4096 of full scale
    Attempts,       \* attempt numbers an attempt may begin with
    AgcBudget,      \* blocks of LS_AGC before it times out: 120
    VgaGain, TiaGain    \* the DACs' curves: gain of a code, in thousandths

VgaCodes == 64
TiaCodes == 16

ASSUME AgcAssumption ==
    /\ Levels \subseteq Nat \ {0} /\ Attempts \subseteq Nat
    /\ AgcBudget \in Nat \ {0}
    /\ VgaGain \in [0..(VgaCodes - 1) -> Nat] /\ TiaGain \in [0..(TiaCodes - 1) -> Nat]

VARIABLES
    agc,            \* agc_ctx_t
    vga, tia,       \* the codes in REG_AFE_VGA and REG_AFE_TIA
    afe,            \* afe_t.mode and the level its input has
    agcBlocks       \* history: blocks since the attempt began

agcVars == <<agc, vga, tia, afe, agcBlocks>>

Deadband == 260
SettleN  == 3
MaxStep  == 4
Target0  == 2731
Ladder   == <<2731, 3100, 2400, 3400, 2100>>

Clamp(v, lo, hi) == IF v > hi THEN hi ELSE IF v < lo THEN lo ELSE v
\* C's division of integers, which truncates towards zero.
Quot(a, b) == IF a >= 0 THEN a \div b ELSE -((-a) \div b)

\* amp / n: only an optical lane has its signal pass the TIA (afe_step).
Mean == (((afe.level * VgaGain[vga]) \div 1000) *
         (IF afe.mode = "optical" THEN TiaGain[tia] ELSE 1000)) \div 1000

\* mean_filt: primed, not ramped from zero; then a quarter of the way.
Filtered(filt, mean) == IF filt = 0 THEN mean ELSE filt + ((mean - filt) \div 4)

\* Proportional, slew-limited, never zero outside the deadband.
StepRounded0(err) == Clamp(Quot(err, 2 * Deadband), -MaxStep, MaxStep)
Step(err) ==
    LET s == Clamp(Quot(err, 2 * Deadband), -MaxStep, MaxStep)
    IN  IF s # 0 THEN s ELSE IF err > 0 THEN 1 ELSE -1

\* The codes after the VGA is asked for v: past an end it borrows a code of
\* TIA gain and re-centres, or stays at the end when there is none to borrow.
Untraded(v) == <<tia, v>>
TradedByField(v) ==
    IF v \in 0..(VgaCodes - 1) THEN <<tia, v>>
    ELSE <<(tia + (IF v < 0 THEN -1 ELSE 1)) % TiaCodes, VgaCodes \div 2>>
Traded(v) ==
    IF v \in 0..(VgaCodes - 1) THEN <<tia, v>>
    ELSE IF v >= VgaCodes
    THEN IF tia < TiaCodes - 1 THEN <<tia + 1, VgaCodes \div 2>> ELSE <<tia, VgaCodes - 1>>
    ELSE IF tia > 0 THEN <<tia - 1, VgaCodes \div 2>> ELSE <<tia, 0>>
-----------------------------------------------------------------------------
\* LS_RESET: fw_agc_set_target, then fw_agc_reset.
AgcBegin(attempt, level, mode) ==
    LET bias == (attempt % 6) * 2
    IN  /\ agc' = [target |-> Ladder[(attempt % 5) + 1], bias |-> bias,
                   settled |-> 0, filt |-> 0]
        /\ vga' = Clamp(VgaCodes \div 2 + bias, 0, VgaCodes - 1)
        /\ tia' = 8
        /\ afe' = [level |-> level, mode |-> mode]
        /\ agcBlocks' = 0

\* fw_agc_step when the block had symbols; without any it returns at once.
AgcBlock ==
    LET filt == Filtered(agc.filt, Mean)
        err  == agc.target - filt
        inBand == err > -Deadband /\ err < Deadband
    IN  /\ agcBlocks < AgcBudget /\ agcBlocks' = agcBlocks + 1
        /\ \/ /\ inBand
              /\ agc' = [agc EXCEPT !.filt = filt,
                              !.settled = IF @ < SettleN THEN @ + 1 ELSE @]
              /\ UNCHANGED <<vga, tia>>
           \/ /\ ~inBand
              /\ agc' = [agc EXCEPT !.filt = filt, !.settled = 0]
              /\ LET to == Traded(vga + Step(err)) IN tia' = to[1] /\ vga' = to[2]
        /\ UNCHANGED afe

AgcInit ==
    /\ agc = [target |-> 0, bias |-> 0, settled |-> 0, filt |-> 0]
    /\ vga = 32 /\ tia = 8 /\ afe = [level |-> 1, mode |-> "electrical"]
    /\ agcBlocks = 0
AgcNext == \/ \E a \in Attempts, l \in Levels, m \in {"electrical", "optical"} :
                  /\ agcBlocks \in {0, AgcBudget} /\ AgcBegin(a, l, m)
           \/ agc.target # 0 /\ AgcBlock
AgcSpec == AgcInit /\ [][AgcNext]_agcVars
-----------------------------------------------------------------------------
AgcTypeOK ==
    /\ vga \in 0..(VgaCodes - 1) /\ tia \in 0..(TiaCodes - 1)
    /\ agc.settled \in 0..SettleN /\ agcBlocks \in 0..AgcBudget

\* Neither end left to give: both codes at their highest, or at their lowest.
AtCorner == <<tia, vga>> \in {<<0, 0>>, <<TiaCodes - 1, VgaCodes - 1>>}

\* Within the blocks LS_AGC gives the loop it has settled, or no code is left
\* that would bring the signal closer.  On an electrical lane, whose signal
\* does not pass the TIA the loop borrows from, this is claimed of the levels
\* the VGA alone brings into the band with one full step to spare: closer to
\* its end the filter's lag overshoots it, and the loop re-centres the VGA for
\* a borrowed code that changes nothing, up to seven times.
VgaReaches == \E c \in 0..(VgaCodes - 1 - MaxStep) :
                  LET err == agc.target - (afe.level * VgaGain[c]) \div 1000
                  IN  err > -Deadband /\ err < Deadband
AgcSettles ==
    agcBlocks = AgcBudget /\ (afe.mode = "electrical" => VgaReaches) =>
        agc.settled = SettleN \/ AtCorner

\* A block out of band always moves the pair (TIA, VGA) the way the error
\* points, the TIA counting first, until no code is left: a step past an end of
\* the VGA never comes out as less gain to borrow from (fw_agc.c:147).
Lower(p, q) == p[1] < q[1] \/ (p[1] = q[1] /\ p[2] < q[2])
GainFollowsError ==
    [][agcBlocks' > agcBlocks =>
        LET was == <<tia, vga>>
            is  == <<tia', vga'>>
            err == agc'.target - agc'.filt
        IN  /\ agc'.settled > 0 => is = was
            /\ agc'.settled = 0 /\ err > 0 => Lower(was, is) \/ (is = was /\ AtCorner)
            /\ agc'.settled = 0 /\ err <= 0 => Lower(is, was) \/ (is = was /\ AtCorner)]_agcVars
=============================================================================
