------------------------------- MODULE Adapt -------------------------------
(***************************************************************************)
(* The tap adaptation of a macro's lanes (fw_adapt.c): wide accumulators,  *)
(* narrow tap registers, a gear that lives in each lane's ADAPT_CTRL and   *)
(* is cached for the lane being serviced, and the test of convergence.     *)
(*                                                                         *)
(* A lane has one FFE tap that is the cursor, one that adapts, and one DFE *)
(* tap.  The widths of accumulator and register are constants of the       *)
(* model; the order of the calls is fw_bringup.c's.                        *)
(***************************************************************************)
EXTENDS Integers, FiniteSets

CONSTANTS
    AdaptLanes, FirstLane,
    Grads,          \* Grads[l]: what a gradient accumulator of lane l may read
    AccMax,         \* INT32_MAX
    ApplyShift,     \* TAP_APPLY_SHIFT
    ApplyMax,       \* TAP_APPLY_MAX
    TrackLeak,      \* the leak of the tracking gear, 14
    QuietBlocks     \* CONV_BLOCKS

ASSUME AdaptAssumption ==
    /\ FirstLane \in AdaptLanes /\ \A l \in AdaptLanes : Grads[l] \subseteq Int
    /\ {AccMax, ApplyShift, ApplyMax, TrackLeak, QuietBlocks} \subseteq Nat \ {0}
    /\ 2^ApplyShift <= AccMax

VARIABLES
    ctx,            \* g_ctx: acc of every tap, settled, prev_tap
    tapReg,         \* REG_FFE_TAP, REG_DFE_TAP, per lane
    ctrl,           \* ADAPT_CTRL per lane: mu and leak, and the enabled loops
    cached,         \* g_mu_exp, g_leak_shift
    ln              \* g_ln, which is also the lane the window is on

adaptVars == <<ctx, tapReg, ctrl, cached, ln>>

Ffe  == {"cursor", "ffe"}
Dfe  == {"dfe"}
Taps == Ffe \cup Dfe
MuBias    == 8
GearAcq   == [mu |-> 10, leak |-> 0]
GearTrack == [mu |-> 8, leak |-> TrackLeak]
GearNone  == [mu |-> 0, leak |-> 0]
QuietDelta == Cardinality(Taps) \div 2
Spike == 2^ApplyShift

Sat(v, lo, hi) == IF v > hi THEN hi ELSE IF v < lo THEN lo ELSE v
\* a >> n of a two's complement a.
Shr(a, n) == a \div 2^n
Scaled(g, mu) == IF mu >= MuBias THEN g * 2^(mu - MuBias) ELSE Shr(g, MuBias - mu)
WrapAdd32(a, b) == ((a + b + AccMax + 1) % (2 * (AccMax + 1))) - AccMax - 1
SatAdd32(a, b) == Sat(a + b, -AccMax - 1, AccMax)
Leaked(acc, leak) == IF leak = 0 THEN acc ELSE acc - Shr(acc, leak)
Wanted(acc) == Shr(acc, ApplyShift)
Published(acc) == Sat(Wanted(acc), -ApplyMax - 1, ApplyMax)
Gear(c) == [mu |-> c.mu, leak |-> c.leak]
Abs(v) == IF v < 0 THEN -v ELSE v
-----------------------------------------------------------------------------
\* fw_select_lane: the window, then the loops; the gear is read again.
GearOf(l) == Gear(ctrl[l])
SelectAdaptLane(l) ==
    /\ ln' = l /\ cached' = GearOf(l)
    /\ UNCHANGED <<ctx, tapReg, ctrl>>

\* LS_RESET: every loop frozen, then fw_adapt_reset.
SpikeAcc == [t \in Taps |-> IF t = "cursor" THEN Spike ELSE 0]
AdaptReset ==
    /\ ctrl' = [ctrl EXCEPT ![ln] = [mu |-> 0, leak |-> 0, en |-> {}]]
    /\ ctx' = [ctx EXCEPT ![ln] = [acc |-> SpikeAcc, settled |-> 0,
                                   prev |-> [t \in Taps |-> 0]]]
    /\ tapReg' = [tapReg EXCEPT ![ln] = [t \in Taps |-> Published(SpikeAcc[t])]]
    /\ UNCHANGED <<cached, ln>>

\* LS_AGC is done: fw_adapt_set_gear, then the loops are enabled.
Acquire ==
    /\ ctrl[ln].en = {} /\ cached' = GearAcq
    /\ ctrl' = [ctrl EXCEPT ![ln] = [mu |-> GearAcq.mu, leak |-> GearAcq.leak,
                                     en |-> {"ffe", "dfe"}]]
    /\ UNCHANGED <<ctx, tapReg, ln>>

\* LS_EQ_TRAIN accepts convergence and shifts down.
Track ==
    /\ Gear(ctrl[ln]) = GearAcq /\ ctx[ln].settled >= QuietBlocks
    /\ cached' = GearTrack
    /\ ctrl' = [ctrl EXCEPT ![ln].mu = GearTrack.mu, ![ln].leak = GearTrack.leak]
    /\ UNCHANGED <<ctx, tapReg, ln>>

\* LS_FAULT writes 0 past the cache.
Freeze ==
    /\ ctrl' = [ctrl EXCEPT ![ln] = [mu |-> 0, leak |-> 0, en |-> {}]]
    /\ UNCHANGED <<ctx, tapReg, cached, ln>>

\* What a block's gradient g adds to tap t: the cursor is pinned, and the DFE
\* subtracts.
Pushed(t, g) == CASE t = "cursor" -> 0
                []   t = "ffe"    -> Scaled(g, cached.mu)
                []   t = "dfe"    -> -Scaled(g, cached.mu)
Enabled(t) == IF t \in Ffe THEN "ffe" \in ctrl[ln].en ELSE "dfe" \in ctrl[ln].en

NewAcc(t, g) ==
    LET acc == ctx[ln].acc[t]
    IN  IF Enabled(t) /\ t # "cursor"
        THEN Leaked(SatAdd32(acc, Pushed(t, g)), cached.leak) ELSE acc

\* A limiter holds the tap still: not convergence.
NeverRailed(acc) == FALSE
Railed(acc) == \E t \in Taps : Wanted(acc[t]) \notin (-ApplyMax - 1)..ApplyMax

\* fw_adapt_step on the gradients the block left.
AdaptStep(g) ==
    LET acc   == [t \in Taps |-> NewAcc(t, g[t])]
        reg   == [t \in Taps |-> IF Enabled(t) THEN Published(acc[t])
                                               ELSE tapReg[ln][t]]
        By(t) == Abs(reg[t] - ctx[ln].prev[t])
        moved == By("cursor") + By("ffe") + By("dfe")
        quiet == moved <= QuietDelta /\ ~Railed(acc)
    IN  /\ tapReg' = [tapReg EXCEPT ![ln] = reg]
        /\ ctx' = [ctx EXCEPT ![ln] =
                   [acc |-> acc, prev |-> reg,
                    settled |-> IF ~quiet THEN 0
                                ELSE IF @.settled < QuietBlocks THEN @.settled + 1
                                ELSE @.settled]]
        /\ UNCHANGED <<ctrl, cached, ln>>

\* Lane l's block: the supervisor selects it, and its state steps the loop.
Gradients == {g \in [Taps -> Grads[ln]] : g["cursor"] = 0}
AdaptBlock == ctrl[ln].en # {} /\ \E g \in Gradients : AdaptStep(g)

AdaptInit ==
    /\ ctx = [l \in AdaptLanes |-> [acc |-> [t \in Taps |-> 0], settled |-> 0,
                                    prev |-> [t \in Taps |-> 0]]]
    /\ tapReg = [l \in AdaptLanes |-> [t \in Taps |-> 0]]
    /\ ctrl = [l \in AdaptLanes |-> [mu |-> 0, leak |-> 0, en |-> {}]]
    /\ cached = GearNone /\ ln = FirstLane

\* The reset comes before the first Acquire: the cursor's spike is set.
AdaptNext ==
    \/ \E l \in AdaptLanes : l # ln /\ SelectAdaptLane(l)
    \/ AdaptReset \/ Freeze \/ Track \/ AdaptBlock
    \/ ctx[ln].acc["cursor"] # 0 /\ Acquire
AdaptSpec == AdaptInit /\ [][AdaptNext]_adaptVars
-----------------------------------------------------------------------------
AdaptTypeOK ==
    \A l \in AdaptLanes :
        /\ \A t \in Taps : ctx[l].acc[t] \in (-AccMax - 1)..AccMax
        /\ \A t \in Taps : {tapReg[l][t], ctx[l].prev[t]} \subseteq (-ApplyMax - 1)..ApplyMax
        /\ ctx[l].settled \in 0..QuietBlocks
        /\ Gear(ctrl[l]) \in {GearNone, GearAcq, GearTrack} /\ cached.mu \in 0..15

\* A loop that counts quiet blocks is one the hardware obeys: every tap
\* register holds what the accumulator asks for.  "The LMS is still asking,
\* every block, for a filter the register cannot express" is no convergence
\* (fw_adapt.c:285).
SettledExpressible ==
    \A l \in AdaptLanes : ctx[l].settled > 0 =>
        \A t \in Taps : tapReg[l][t] = Wanted(ctx[l].acc[t])

\* A block turns a tap round only by pushing it there: neither the saturation
\* at the accumulator's end nor the leak does, and the DFE is pushed against
\* its gradient.  "A full-scale sign inversion inside the loop [...] is
\* divergence, not a glitch" (fixed.h:59).
TurnedOnlyByGradient ==
    [][\A t \in Taps :
        LET was == ctx[ln].acc[t]
            is  == ctx'[ln].acc[t]
            Pushes(g) == IF t = "dfe" THEN -g[t] ELSE g[t]
            By(g)     == ctrl[ln].en # {} /\ AdaptStep(g)
        IN  /\ was >= 0 /\ is < 0 => \A g \in Gradients : By(g) => Pushes(g) < 0
            /\ was <= 0 /\ is > 0 => \A g \in Gradients : By(g) => Pushes(g) > 0]_adaptVars
=============================================================================
