-------------------------------- MODULE Fec --------------------------------
(***************************************************************************)
(* The Reed-Solomon code of the receiver (fec.c): the field, the encoder,  *)
(* and the errors-and-erasures decoder, on a smaller field and a shorter   *)
(* code of the same construction (narrow sense, shortened).                *)
(*                                                                         *)
(* A polynomial is the sequence of its coefficients, that of x^0 first; a  *)
(* word is the sequence of its symbols, that of x^(RsN - 1) first.  Field  *)
(* elements are numbers, as in the code.                                   *)
(***************************************************************************)
EXTENDS Integers, Sequences, FiniteSets

CONSTANTS
    GfSize, GfPoly,     \* GF_SIZE, GF_POLY: 1024 and 0x409
    RsN, RsK,           \* RS_N, RS_K: 544 and 514
    Messages,           \* messages sent: sequences of RsK symbols
    ErrVals,            \* what the line may add to a symbol
    MaxErrs,            \* bound of the model: symbols hit at once
    FlagSets            \* the sets of symbols the receiver may flag

ASSUME FecAssumption ==
    /\ {GfSize, GfPoly, RsN, RsK, MaxErrs} \subseteq Nat
    /\ RsK < RsN /\ RsN < GfSize
    /\ Messages \subseteq [1..RsK -> 0..(GfSize - 1)]
    /\ ErrVals \subseteq 1..(GfSize - 1) /\ FlagSets \subseteq SUBSET (1..RsN)

VARIABLES
    line,           \* "idle", "sent", "received" or "decoded"
    sent,           \* the codeword fec_encode made
    word,           \* the decoder's buffer
    flags,          \* erased
    got             \* what the call returned, and the word it was given

fecVars == <<line, sent, word, flags, got>>

GfN    == GfSize - 1
Parity == RsN - RsK
Pos    == 1..RsN
Symbol == 0..GfN

\* The ^ of C, bit by bit.
Xor[a, b \in 0..(2 * GfSize - 1)] ==
    IF a + b = 0 THEN 0 ELSE 2 * Xor[a \div 2, b \div 2] + ((a + b) % 2)
GfAdd == [a \in Symbol |-> [b \in Symbol |-> Xor[a, b]]]

\* gf_exp and gf_log (fec_init).
GfExp[i \in 0..(2 * GfN - 1)] ==
    IF i = 0 THEN 1
    ELSE LET x == 2 * GfExp[i - 1] IN IF x >= GfSize THEN Xor[x, GfPoly] ELSE x
GfLog == [a \in Symbol \ {0} |-> CHOOSE i \in 0..(GfN - 1) : GfExp[i] = a]
GfMul == [a \in Symbol |-> [b \in Symbol |->
            IF a = 0 \/ b = 0 THEN 0 ELSE GfExp[GfLog[a] + GfLog[b]]]]
GfDiv(a, b) == IF a = 0 THEN 0 ELSE GfExp[GfLog[a] + GfN - GfLog[b]]
PowAlpha(e) == GfExp[e % GfN]

\* GfPoly is primitive: the powers of alpha are all there is but 0, and with
\* them the tables are those of a field.
ASSUME FieldAssumption ==
    /\ GfExp[0] = 1
    /\ \A i \in 0..(GfN - 1) :
         /\ GfExp[i] \in Symbol \ {0} /\ GfLog[GfExp[i]] = i /\ GfExp[GfN + i] = GfExp[i]
    /\ \A a \in Symbol \ {0} : GfLog[a] \in 0..(GfN - 1) /\ GfExp[GfLog[a]] = a
    /\ \A a, b \in Symbol : GfAdd[a][b] \in Symbol /\ GfAdd[a][b] = GfAdd[b][a]
    /\ \A a \in Symbol : GfAdd[a][0] = a /\ GfAdd[a][a] = 0
    /\ \A a, b, c \in Symbol :
         /\ GfAdd[GfAdd[a][b]][c] = GfAdd[a][GfAdd[b][c]]
         /\ GfMul[a][GfAdd[b][c]] = GfAdd[GfMul[a][b]][GfMul[a][c]]

\* c[0] + ... + c[n] in the field.
Sum(n, c) ==
    LET s[k \in 0..n] == IF k = 0 THEN c[0] ELSE GfAdd[s[k - 1]][c[k]] IN s[n]
Poly(n, c) == <<>> \o [i \in 1..n |-> c[i - 1]]
Coeff(p, k) == IF k < Len(p) THEN p[k + 1] ELSE 0
\* The first n coefficients of p times q; a word, and a polynomial, at x.
Times(p, q, n) ==
    Poly(n, [i \in 0..(n - 1) |->
                Sum(i, [k \in 0..i |-> GfMul[Coeff(p, k)][Coeff(q, i - k)]])])
Horner(w, x) ==
    LET h[k \in 0..Len(w)] ==
            IF k = 0 THEN 0 ELSE GfAdd[GfMul[h[k - 1]][x]][w[k]]
    IN  h[Len(w)]
Eval(p, x) == Horner([i \in 1..Len(p) |-> p[Len(p) + 1 - i]], x)

\* g(x), the product of x - alpha^i for i from 1 to Parity.
Generator ==
    LET g[i \in 0..Parity] ==
            IF i = 0 THEN <<1>> ELSE Times(g[i - 1], <<PowAlpha(i), 1>>, i + 1)
    IN  g[Parity]

\* fec_encode: the message, then the remainder of the division by g.
Encode(msg) ==
    LET r[i \in 0..RsK] ==
            IF i = 0 THEN [k \in 1..Parity |-> 0]
            ELSE LET was == r[i - 1]
                     fb  == GfAdd[msg[i]][was[Parity]]
                 IN  Poly(Parity, [k \in 0..(Parity - 1) |->
                        GfAdd[IF k = 0 THEN 0 ELSE was[k]][GfMul[fb][Generator[k + 1]]]])
    IN  msg \o [k \in 1..Parity |-> r[RsK][Parity + 1 - k]]

\* S_1 .. S_Parity: the word at alpha^1, alpha^2, ...
Syndromes(w) == Poly(Parity, [i \in 0..(Parity - 1) |-> Horner(w, PowAlpha(i + 1))])
AllZero(S) == \A i \in 1..Parity : S[i] = 0
IsCodeword(w) == LET S == Syndromes(w) IN AllZero(S)

\* More flags than parity symbols: decode hard (fec.c:170).
Usable(F) == IF Cardinality(F) > Parity THEN {} ELSE F

\* X of the symbol at j, and 1/X.
Locator(j) == PowAlpha(RsN - j)
InvLocator(j) == PowAlpha(GfN - ((RsN - j) % GfN))

\* Gamma(x), the product of 1 - X x over the flagged symbols.
Gamma(F) ==
    LET g[j \in 0..RsN] ==
            IF j = 0 THEN <<1>>
            ELSE LET was == g[j - 1]
                 IN  IF j \in F THEN Times(was, <<1, Locator(j)>>, Len(was) + 1) ELSE was
    IN  g[RsN]

\* it, the iteration counted from the first syndrome no erasure took.
RawIndex(n, ne) == n
Iteration(n, ne) == n - ne

\* One iteration of Berlekamp-Massey: the discrepancy of the syndrome at n, and
\* what it makes of the locator lam, its length L and the last locator replaced.
Mended(lam, coef, B, m) ==
    Poly(Parity + 1, [k \in 0..Parity |->
        GfAdd[Coeff(lam, k)][IF k < m THEN 0 ELSE GfMul[coef][Coeff(B, k - m)]]])
Discrepancy(T, s, n) ==
    Sum(s.L, [i \in 0..s.L |-> GfMul[Coeff(s.lam, i)][T[n - i + 1]]])
Revised(s, n, ne, d) ==
    IF d = 0 THEN [s EXCEPT !.m = @ + 1]
    ELSE LET lam == Mended(s.lam, GfDiv(d, s.b), s.B, s.m)
         IN  IF 2 * s.L <= Iteration(n, ne)
             THEN [lam |-> lam, B |-> s.lam, L |-> Iteration(n, ne) + 1 - s.L, b |-> d, m |-> 1]
             ELSE [s EXCEPT !.lam = lam, !.m = @ + 1]

\* Berlekamp-Massey over the modified syndromes T from index ne on.
Massey(T, ne) ==
    LET run[it \in 0..(Parity - ne)] ==
            IF it = 0 THEN [lam |-> <<1>>, B |-> <<1>>, L |-> 0, b |-> 1, m |-> 1]
            ELSE LET s == run[it - 1]
                     n == ne + it - 1
                 IN  Revised(s, n, ne, Discrepancy(T, s, n))
    IN  run[Parity - ne]

\* The errata locator's roots among the positions of the shortened code.
Chien(psi) == {j \in Pos : Eval(psi, InvLocator(j)) = 0}

\* Psi', in characteristic two.
Derivative(psi) ==
    Poly(Len(psi) - 1,
         [k \in 0..(Len(psi) - 2) |-> IF k % 2 = 0 THEN psi[k + 2] ELSE 0])

Failed(w) == [ret |-> -1, word |-> w, used |-> 0]

\* What the caller's buffer holds when the decoder gives up: it has not been
\* touched yet, or what the correction overwrote is put back.
KeptOnFailure(w, fixed) == fixed
OnFailure(w, fixed) == w
\* 2 errors + erasures within the parity, and no root off the code.
Unlimited(L, ne) == TRUE
WithinBudget(L, ne) == 2 * L + ne <= Parity

\* Psi(x), Gamma's roots and those of the error locator.
Errata(gam, bm) ==
    Times(gam, SubSeq(bm.lam \o [i \in 1..Parity |-> 0], 1, bm.L + 1), Len(gam) + bm.L)

\* Forney: the word with what Omega and Psi' say added at the roots.
Corrected(w, omega, dpsi, roots) ==
    <<>> \o [j \in Pos |->
        IF j \notin roots \/ Eval(dpsi, InvLocator(j)) = 0 THEN w[j]
        ELSE GfAdd[w[j]][GfDiv(Eval(omega, InvLocator(j)), Eval(dpsi, InvLocator(j)))]]

\* The root count must match, no root may be a double one, and the word must
\* have become a codeword.
Outcome(w, fixed, psi, roots, ne) ==
    IF \/ Cardinality(roots) # Len(psi) - 1
       \/ \E j \in roots : Eval(Derivative(psi), InvLocator(j)) = 0
       \/ ~IsCodeword(fixed)
    THEN Failed(OnFailure(w, fixed))
    ELSE [ret  |-> Cardinality({j \in roots : fixed[j] # w[j]}),
          word |-> fixed, used |-> ne]
Correct(w, S, psi, roots, ne) ==
    Outcome(w, Corrected(w, Times(S, psi, Parity), Derivative(psi), roots), psi, roots, ne)

Locate(w, S, gam, bm, ne) ==
    IF ~WithinBudget(bm.L, ne) \/ ne + bm.L > Parity THEN Failed(w)
    ELSE LET psi == Errata(gam, bm) IN Correct(w, S, psi, Chien(psi), ne)
Search(w, S, gam, ne) == Locate(w, S, gam, Massey(Times(S, gam, Parity), ne), ne)

\* fec_decode_erasures.
DecodedWith(w, S, F) ==
    IF AllZero(S) THEN [ret |-> 0, word |-> w, used |-> 0]
    ELSE Search(w, S, Gamma(F), Cardinality(F))
Decoded(w, flagged) == DecodedWith(w, Syndromes(w), Usable(flagged))
-----------------------------------------------------------------------------
Send(msg) ==
    /\ line \in {"idle", "decoded"} /\ line' = "sent"
    /\ sent' = Encode(msg) /\ word' = sent'
    /\ flags' = {} /\ got' = Failed(<<>>)

\* The line hits the symbols of S, and the receiver flags those of F.
Receive(S, F) ==
    /\ line = "sent" /\ line' = "received"
    /\ \E e \in [S -> ErrVals] :
         word' = <<>> \o [j \in Pos |-> IF j \in S THEN GfAdd[word[j]][e[j]] ELSE word[j]]
    /\ flags' = F /\ UNCHANGED <<sent, got>>

Decode ==
    /\ line = "received" /\ line' = "decoded"
    /\ LET d == Decoded(word, flags)
       IN  word' = d.word /\ got' = [d EXCEPT !.word = word]
    /\ UNCHANGED <<sent, flags>>

FecInit == line = "idle" /\ sent = <<>> /\ word = <<>> /\ flags = {} /\ got = Failed(<<>>)
FecNext ==
    \/ \E msg \in Messages : Send(msg)
    \/ \E S \in SUBSET Pos, F \in FlagSets : Cardinality(S) <= MaxErrs /\ Receive(S, F)
    \/ Decode
FecSpec == FecInit /\ [][FecNext]_fecVars
-----------------------------------------------------------------------------
FecTypeOK ==
    /\ line \in {"idle", "sent", "received", "decoded"}
    /\ flags \subseteq Pos /\ \A w \in {sent, word} : w = <<>> \/ w \in [Pos -> Symbol]
    /\ got.ret \in -1..RsN /\ got.used \in 0..Parity

Differ(v, w) == {j \in Pos : v[j] # w[j]}
Cost(hits, F) == 2 * Cardinality(hits \ F) + Cardinality(F)

\* Whatever the line did within the budget is undone: an error costs two
\* parity symbols, a flagged symbol one, rightly flagged or not; flags past
\* the parity cost nothing and buy nothing.
CorrectsWithinBudget ==
    line = "decoded" =>
        (Cost(Differ(sent, got.word), Usable(flags)) <= Parity => word = sent /\ got.ret >= 0)

Codewords == {Encode(msg) : msg \in [1..RsK -> Symbol]}

\* A decoder that gives up leaves the word as it came, with no half of a
\* correction in it (fec.c:366), and it gives up only on a word that no
\* codeword is within reach of, whatever was sent.
GivesUpOnlyOutOfReach ==
    line = "decoded" /\ got.ret < 0 =>
        /\ word = got.word
        /\ \A c \in Codewords : Cost(Differ(c, word), Usable(flags)) > Parity

\* A decoder that succeeds has landed on a codeword, within the code's reach
\* of what it was given, and says how many symbols it changed: erasures that
\* were not wrong are not corrections.
SuccessIsHonest ==
    line = "decoded" /\ got.ret >= 0 =>
        LET changed == Differ(word, got.word)
        IN  /\ IsCodeword(word) /\ got.ret = Cardinality(changed)
            /\ changed # {} => Cost(changed, Usable(flags)) <= Parity
=============================================================================
