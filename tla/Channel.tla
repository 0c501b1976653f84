------------------------------ MODULE Channel ------------------------------
(***************************************************************************)
(* The channel's convolution (channel.c, the crosstalk calls of            *)
(* hw_lane.c): overlap-add over blocks of OlaB samples, with a tail that   *)
(* is the channel's memory from one call to the next, for the lane's own   *)
(* path and for the coupling from its neighbours.                          *)
(*                                                                         *)
(* Samples are integers, so that sums are exact.  A pair of transforms     *)
(* with a product between them is the circular convolution it computes.    *)
(***************************************************************************)
EXTENDS Integers, Sequences

CONSTANTS
    OlaB,           \* OLA_B
    H, Hx,          \* impulse responses: the lane's own, the coupling
    Inputs          \* blocks a caller may pass: sequences of samples

ASSUME ChannelAssumption ==
    /\ OlaB \in Nat \ {0}
    /\ H \in Seq(Int) /\ Len(H) \in 1..OlaB /\ Hx \in Seq(Int) /\ Len(Hx) \in 1..OlaB
    /\ Inputs \subseteq Seq(Int) /\ <<>> \notin Inputs

VARIABLES
    tailH, tailHx,  \* ola_tail_h, ola_tail_hx
    rxBuf,          \* the caller's output, and what it is so far
    pastH, pastHx,  \* history: the last OlaB samples that went in before the call
    pushedH, pushedHx   \* history: and those of the call
chVars == <<tailH, tailHx, rxBuf, pastH, pastHx, pushedH, pushedHx>>

OlaN == 2 * OlaB
Points == 0..(OlaN - 1)
Silent == [i \in Points |-> 0]
At(s, i) == IF i \in 1..Len(s) THEN s[i] ELSE 0

\* The sum of the taps of h, each times what it falls on.
Weighted(h, on) ==
    LET sum[k \in 0..Len(h)] == IF k = 0 THEN 0 ELSE sum[k - 1] + h[k] * on[k]
    IN  sum[Len(h)]

\* What the two transforms and the product between them compute.
Circular(h, xs) ==
    [i \in Points |->
        Weighted(h, [k \in 1..Len(h) |-> At(xs, ((i - k + 1) % OlaN) + 1)])]

\* The shift after a block: by what was emitted.
ShiftedByBlock(t, len) == [i \in Points |-> IF i + OlaB < OlaN THEN t[i + OlaB] ELSE 0]
Shifted(t, len) == [i \in Points |-> IF i + len < OlaN THEN t[i + len] ELSE 0]

\* One block: its product onto the tail, the first of it emitted, the rest kept.
Pass(h, was, x) ==
    LET c   == Circular(h, x)
        sum == [i \in Points |-> was.tail[i] + c[i]]
    IN  [y    |-> was.y \o [i \in 1..Len(x) |-> sum[i - 1]],
         tail |-> Shifted(sum, Len(x))]

\* ola_convolve: what it emits, and the tail it leaves.
Convolve(h, tail, xs) ==
    LET Blocks  == (Len(xs) + OlaB - 1) \div OlaB
        Upto(b) == IF b * OlaB < Len(xs) THEN b * OlaB ELSE Len(xs)
        run[b \in 0..Blocks] ==
            IF b = 0 THEN [y |-> <<>>, tail |-> tail]
            ELSE Pass(h, run[b - 1], SubSeq(xs, (b - 1) * OlaB + 1, Upto(b)))
    IN  run[Blocks]

\* channel_apply_direct: the definition, from a channel at rest.
Direct(h, xs) ==
    <<>> \o [i \in 1..Len(xs) |->
        Weighted(h, [k \in 1..Len(h) |-> At(xs, i - k + 1)])]

Plus(u, v) == <<>> \o [i \in 1..Len(u) |-> u[i] + v[i]]

\* hw_lane_xtalk_begin and _add for two neighbours, then _apply: their sum
\* goes through the coupling once ...
SeparatePasses(a, b) ==
    LET one == Convolve(Hx, tailHx, a)
        two == Convolve(Hx, one.tail, b)
    IN  [y |-> Plus(one.y, two.y), tail |-> two.tail]
\* ... not each by itself through the one memory there is.
Coupled(a, b) == Convolve(Hx, tailHx, Plus(a, b))

LastOf(s) == SubSeq(s, Len(s) - OlaB + 1, Len(s))
-----------------------------------------------------------------------------
\* channel_apply. Whoever reads the output has read it by the next call.
Apply(xs) ==
    LET c == Convolve(H, tailH, xs)
    IN  /\ rxBuf' = [of |-> "own", y |-> c.y] /\ tailH' = c.tail
        /\ pastH' = LastOf(pastH \o pushedH) /\ pushedH' = xs
        /\ UNCHANGED <<tailHx, pastHx, pushedHx>>

\* hw_lane_xtalk_apply adds what the neighbours send in the same block.
ApplyXtalk(a, b) ==
    LET c == Coupled(a, b)
    IN  /\ rxBuf.of = "own" /\ Len(a) = Len(rxBuf.y) /\ Len(b) = Len(a)
        /\ rxBuf' = [of |-> "both", y |-> Plus(rxBuf.y, c.y)] /\ tailHx' = c.tail
        /\ pastHx' = LastOf(pastHx \o pushedHx) /\ pushedHx' = Plus(a, b)
        /\ UNCHANGED <<tailH, pastH, pushedH>>

\* channel_pulse_response takes the direct form, to start from rest and to
\* leave nothing behind.
PulseResponse(xs) ==
    /\ rxBuf' = [of |-> "pulse", y |-> Direct(H, xs)]
    /\ UNCHANGED <<tailH, tailHx, pastH, pastHx, pushedH, pushedHx>>

\* channel_build and the first ola_prepare: at rest.
ChannelInit ==
    /\ tailH = Silent /\ tailHx = Silent /\ rxBuf = [of |-> "none", y |-> <<>>]
    /\ pastH = <<>> \o [i \in 1..OlaB |-> 0] /\ pastHx = pastH
    /\ pushedH = <<>> /\ pushedHx = <<>>
ChannelNext ==
    \/ \E xs \in Inputs : Apply(xs) \/ PulseResponse(xs)
    \/ \E a, b \in Inputs : ApplyXtalk(a, b)
ChannelSpec == ChannelInit /\ [][ChannelNext]_chVars
-----------------------------------------------------------------------------
ChannelTypeOK ==
    /\ tailH \in [Points -> Int] /\ tailHx \in [Points -> Int]
    /\ rxBuf.of \in {"none", "own", "both", "pulse"}
    /\ Len(pastH) = OlaB /\ Len(pastHx) = OlaB

\* The convolution of everything that has gone in, at the call's samples.
Heard(h, past, xs) ==
    LET all == Direct(h, past \o xs) IN SubSeq(all, OlaB + 1, Len(all))

\* "The tail it already carries between sub-blocks IS the channel state"
\* (channel.c:486): however the waveform is cut into calls, and whatever else
\* the channel was used for in between, what comes out is the convolution of
\* all that went in; and what couples in is that of the neighbours' sum.
OutputIsConvolution ==
    /\ rxBuf.of = "own" => rxBuf.y = Heard(H, pastH, pushedH)
    /\ rxBuf.of = "both" =>
         rxBuf.y = Plus(Heard(H, pastH, pushedH), Heard(Hx, pastHx, pushedHx))
=============================================================================
