-------------------------------- MODULE Pcs --------------------------------
(***************************************************************************)
(* The coding sublayer's receiver (pcs.c): find how far the decisions lag  *)
(* the reference, run on to a codeword boundary, then score every decision *)
(* against the reference and decode codeword by codeword.                  *)
(*                                                                         *)
(* Both ends draw the payload from generators with the same seed, so a     *)
(* payload symbol is its number since pcs_tx_init.  A decision carries the *)
(* name of the transmitted symbol it is about, and whether it is right; it *)
(* matches a reference symbol when it is right and that is its name.  What *)
(* the decoder does is module Fec's contract.                              *)
(***************************************************************************)
EXTENDS Integers, Sequences, FiniteSets

CONSTANTS
    AlignSyms, AlignMax,    \* PCS_ALIGN_SYMS, PCS_ALIGN_MAX
    CwGf, MsgGf,            \* RS_N, RS_K
    PerGf                   \* RS_PAM4_PER_GF

ASSUME PcsAssumption ==
    /\ {AlignSyms, AlignMax, CwGf, MsgGf, PerGf} \subseteq Nat \ {0}
    /\ MsgGf < CwGf
    /\ AlignSyms >= 2   \* one wrong decision does not mislead the aligner

CwSyms   == CwGf * PerGf        \* RS_PAM4_PER_CW
CwParity == CwGf - MsgGf
GfPos    == 0..(CwGf - 1)

Payload(k) == <<"payload", k>>
Matches(dec, k) == dec.right /\ dec.of = Payload(k)

\* pcs_rx_init.  The counters are kept as: was anything counted.  Beside the
\* fields of pcs_rx_t: hits, the symbols of the codeword with a wrong decision;
\* weakNow and overBudget, history: those flagged in it, and whether any
\* codeword was past the code's reach.
RxInit ==
    [state |-> "aligning", buf |-> <<>>, off |-> 0, skip |-> 0, idx |-> 0,
     ref |-> 0, erased |-> {}, nFlagged |-> 0, hits |-> {},
     uncorrectable |-> FALSE, postErrors |-> FALSE, weakNow |-> {}, overBudget |-> FALSE]

\* pcs_rx_align: the offset with the fewest errors, the first of equals.
ErrorsAt(buf, s) == Cardinality({i \in 1..AlignSyms : ~Matches(buf[i + s], i - 1)})
BestOffset(buf) ==
    CHOOSE s \in 0..AlignMax :
        \A t \in 0..AlignMax :
            \/ ErrorsAt(buf, s) < ErrorsAt(buf, t)
            \/ ErrorsAt(buf, s) = ErrorsAt(buf, t) /\ s <= t
\* The decisions until the next codeword of the reference begins.
ToBoundary(base) == (CwSyms - (base % CwSyms)) % CwSyms
Align(r) ==
    LET off  == BestOffset(r.buf)
        base == Len(r.buf) - off
        skip == ToBoundary(base)
    IN  [r EXCEPT !.off = off, !.ref = base + skip, !.skip = skip,
                  !.idx = 0, !.erased = {}, !.nFlagged = 0,
                  !.state = IF skip > 0 THEN "skipping" ELSE "running"]

\* What the decoder can be relied on for, given the flags it is passed.
DecoderCost(hits, erased) ==
    LET F == IF Cardinality(erased) > CwParity THEN {} ELSE erased
    IN  2 * Cardinality(hits \ F) + Cardinality(F)
MessageHit(hits) == hits \cap 0..(MsgGf - 1) # {}

\* A codeword done: the next starts with no flag.
KeptFlags(r) == r.erased
ClearedFlags(r) == {}
FinishCodeword(r) ==
    LET erased == IF r.nFlagged > 0 THEN r.erased ELSE {}
        next   == [r EXCEPT !.idx = 0, !.nFlagged = 0,
                            !.erased = ClearedFlags(r), !.hits = {}, !.weakNow = {},
                            !.overBudget = @ \/ DecoderCost(r.hits, r.weakNow) > CwParity]
    IN  IF DecoderCost(r.hits, erased) <= CwParity THEN {next}
        ELSE \* gives up and leaves the word, or lands on another codeword
             {[next EXCEPT !.uncorrectable = TRUE,
                           !.postErrors = @ \/ MessageHit(r.hits)],
              [next EXCEPT !.postErrors = TRUE]}

\* A scored decision: compare, pack, flag, and decode at the last.
Score(r, dec, weak) ==
    LET g   == r.idx \div PerGf
        hit == ~Matches(dec, r.ref)
        now == [r EXCEPT !.ref = @ + 1, !.idx = @ + 1,
                         !.hits     = IF hit THEN @ \cup {g} ELSE @,
                         !.nFlagged = IF weak /\ g \notin r.erased THEN @ + 1 ELSE @,
                         !.erased   = IF weak THEN @ \cup {g} ELSE @,
                         !.weakNow  = IF weak THEN @ \cup {g} ELSE @]
    IN  IF now.idx >= CwSyms THEN FinishCodeword(now) ELSE {now}

\* pcs_rx_push, the results it may have.
Push(r, dec, weak) ==
    CASE r.state = "aligning" ->
            LET b == [r EXCEPT !.buf = Append(@, dec)]
            IN  {IF Len(b.buf) >= AlignSyms + AlignMax THEN Align(b) ELSE b}
    []   r.state = "skipping" ->
            {[r EXCEPT !.skip = @ - 1,
                       !.state = IF r.skip = 1 THEN "running" ELSE @]}
    []   r.state = "running" -> Score(r, dec, weak)
=============================================================================
