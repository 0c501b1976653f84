----------------------------- MODULE FecProofs -----------------------------
(***************************************************************************)
(* The Reed-Solomon code, for any field and any shortened code over it:    *)
(* that the encoder makes the codewords, that the decoder brings back the  *)
(* codeword of every word within the budget of one, and that, when it says *)
(* it has corrected a word, it has (FecInv).                               *)
(*                                                                         *)
(* From the laws of the field: a product of polynomials is worth, at a     *)
(* point, the product of what they are worth there (EvalTimes).  So the    *)
(* generator has the roots the syndromes look at, and dividing by it       *)
(* leaves what makes the syndromes vanish; and the errata locator has the  *)
(* roots of Gamma, so that each usable flag is among the symbols changed   *)
(* or left, and the budget of the parity symbols bounds the others.        *)
(*                                                                         *)
(* That it finds the errors rests on two counts: a polynomial of degree n  *)
(* has at most n roots (RootCount), and Parity power sums of a word of at  *)
(* most Parity symbols are not all 0 (PowersIndependent).  The syndromes   *)
(* past the erasures are power sums of the errors alone (ModifiedIs);      *)
(* Berlekamp-Massey keeps a locator that sees nothing in those it has read *)
(* (Searching), which by the second count ends as that of all the errors   *)
(* (FindsAll); by the first, Chien's search finds them and no others; and  *)
(* what Forney adds there is what the line did (ForneyGives).              *)
(***************************************************************************)
EXTENDS Fec, Induction, SequenceTheorems

(* The field.                                                              *)

\* The constants.
LEMMA CodeFacts ==
  /\ GfSize \in Nat /\ RsN \in Nat /\ RsK \in Nat /\ Parity \in Nat /\ Parity > 0
  /\ RsN = RsK + Parity /\ RsN <= GfN /\ GfN \in Nat /\ GfN > 0
  /\ Symbol = 0..GfN /\ 0 \in Symbol /\ 1 \in Symbol
  /\ Pos = 1..RsN
<1>1. GfSize \in Nat /\ RsN \in Nat /\ RsK \in Nat /\ RsK < RsN /\ RsN < GfSize
  BY FecAssumption
<1>2. Parity = RsN - RsK /\ GfN = GfSize - 1
  BY DEF Parity, GfN
<1>3. QED
  BY <1>1, <1>2 DEF Symbol, Pos

\* The tables turn a product into a sum of logarithms.
LEMMA LogOfExp ==
  /\ \A a \in Symbol \ {0} : GfLog[a] \in 0..(GfN - 1) /\ GfExp[GfLog[a]] = a
  /\ \A s \in 0..(2 * GfN - 1) :
       /\ GfExp[s] \in Symbol \ {0}
       /\ GfLog[GfExp[s]] = IF s < GfN THEN s ELSE s - GfN
  /\ \A s \in GfN..(2 * GfN - 1) : GfExp[s] = GfExp[s - GfN]
<1>1. \A i \in 0..(GfN - 1) :
         GfExp[i] \in Symbol \ {0} /\ GfLog[GfExp[i]] = i /\ GfExp[GfN + i] = GfExp[i]
  BY FieldAssumption
<1>2. GfN \in Nat /\ GfN > 0
  BY CodeFacts
<1>3. ASSUME NEW s \in GfN..(2 * GfN - 1)
      PROVE  s - GfN \in 0..(GfN - 1) /\ GfExp[s] = GfExp[s - GfN]
  <2>1. s - GfN \in 0..(GfN - 1) /\ GfN + (s - GfN) = s
    BY <1>2
  <2>2. GfExp[GfN + (s - GfN)] = GfExp[s - GfN]
    BY <1>1, <2>1
  <2>3. QED
    BY <2>1, <2>2
<1>4. ASSUME NEW s \in 0..(2 * GfN - 1)
      PROVE  /\ GfExp[s] \in Symbol \ {0}
             /\ GfLog[GfExp[s]] = IF s < GfN THEN s ELSE s - GfN
  <2>1. CASE s < GfN
    <3>1. s \in 0..(GfN - 1)
      BY <1>2, <2>1
    <3>2. QED
      BY <1>1, <2>1, <3>1
  <2>2. CASE ~(s < GfN)
    <3>1. s \in GfN..(2 * GfN - 1)
      BY <1>2, <2>2
    <3>2. s - GfN \in 0..(GfN - 1) /\ GfExp[s] = GfExp[s - GfN]
      BY <1>3, <3>1
    <3>3. QED
      BY <1>1, <2>2, <3>2
  <2>3. QED
    BY <2>1, <2>2
<1>5. \A a \in Symbol \ {0} : GfLog[a] \in 0..(GfN - 1) /\ GfExp[GfLog[a]] = a
  BY FieldAssumption
<1>6. QED
  BY <1>3, <1>4, <1>5

\* A product, and a quotient by what is not 0.
LEMMA MulIs ==
  /\ \A a, b \in Symbol : GfMul[a][b] = IF a = 0 \/ b = 0 THEN 0 ELSE GfExp[GfLog[a] + GfLog[b]]
  /\ \A a, b \in Symbol \ {0} : GfLog[a] + GfLog[b] \in 0..(2 * GfN - 1)
  /\ \A a, b \in Symbol : GfMul[a][b] \in Symbol
  /\ \A a \in Symbol, b \in Symbol \ {0} : GfDiv(a, b) \in Symbol
<1>1. \A a, b \in Symbol : GfMul[a][b] = IF a = 0 \/ b = 0 THEN 0 ELSE GfExp[GfLog[a] + GfLog[b]]
  BY DEF GfMul
<1>2. GfN \in Nat /\ GfN > 0 /\ 0 \in Symbol
  BY CodeFacts
<1>3. ASSUME NEW a \in Symbol \ {0}, NEW b \in Symbol \ {0}
      PROVE  /\ GfLog[a] + GfLog[b] \in 0..(2 * GfN - 1)
             /\ GfLog[a] + GfN - GfLog[b] \in 0..(2 * GfN - 1)
  <2>1. GfLog[a] \in 0..(GfN - 1) /\ GfLog[b] \in 0..(GfN - 1)
    BY LogOfExp
  <2>2. QED
    BY <1>2, <2>1
<1>4. \A a, b \in Symbol : GfMul[a][b] \in Symbol
  <2> SUFFICES ASSUME NEW a \in Symbol, NEW b \in Symbol PROVE GfMul[a][b] \in Symbol
    OBVIOUS
  <2>1. CASE a = 0 \/ b = 0
    BY <1>1, <1>2, <2>1
  <2>2. CASE ~(a = 0 \/ b = 0)
    <3>1. GfLog[a] + GfLog[b] \in 0..(2 * GfN - 1)
      BY <1>3, <2>2
    <3>2. GfExp[GfLog[a] + GfLog[b]] \in Symbol
      BY <3>1, LogOfExp
    <3>3. QED
      BY <1>1, <2>2, <3>2
  <2>3. QED
    BY <2>1, <2>2
<1>5. ASSUME NEW a \in Symbol, NEW b \in Symbol \ {0} PROVE GfDiv(a, b) \in Symbol
  <2>1. CASE a = 0
    BY <1>2, <2>1 DEF GfDiv
  <2>2. CASE a # 0
    <3>1. GfLog[a] + GfN - GfLog[b] \in 0..(2 * GfN - 1)
      BY <1>3, <2>2
    <3>2. GfExp[GfLog[a] + GfN - GfLog[b]] \in Symbol
      BY <3>1, LogOfExp
    <3>3. QED
      BY <2>2, <3>2 DEF GfDiv
  <2>3. QED
    BY <2>1, <2>2
<1>6. QED
  BY <1>1, <1>3, <1>4, <1>5

\* Multiplication commutes and associates, 1 and 0 are what they should be.
LEMMA MulLaws ==
  /\ \A a, b \in Symbol : GfMul[a][b] = GfMul[b][a]
  /\ \A a \in Symbol : GfMul[a][0] = 0 /\ GfMul[0][a] = 0 /\ GfMul[1][a] = a
  /\ \A a, b, c \in Symbol : GfMul[GfMul[a][b]][c] = GfMul[a][GfMul[b][c]]
<1>1. GfN \in Nat /\ GfN > 0 /\ 0 \in Symbol /\ 1 \in Symbol
  BY CodeFacts
<1>2. \A a, b \in Symbol : GfMul[a][b] = GfMul[b][a]
  <2> SUFFICES ASSUME NEW a \in Symbol, NEW b \in Symbol PROVE GfMul[a][b] = GfMul[b][a]
    OBVIOUS
  <2>1. CASE a = 0 \/ b = 0
    BY <2>1, MulIs
  <2>2. CASE ~(a = 0 \/ b = 0)
    <3>1. GfLog[a] \in 0..(GfN - 1) /\ GfLog[b] \in 0..(GfN - 1)
      BY <2>2, LogOfExp
    <3>2. GfLog[a] + GfLog[b] = GfLog[b] + GfLog[a]
      BY <1>1, <3>1
    <3>3. GfMul[a][b] = GfExp[GfLog[a] + GfLog[b]] /\ GfMul[b][a] = GfExp[GfLog[b] + GfLog[a]]
      BY <2>2, MulIs
    <3>4. QED
      BY <3>2, <3>3
  <2>3. QED
    BY <2>1, <2>2
<1>3. \A a \in Symbol : GfMul[a][0] = 0 /\ GfMul[0][a] = 0
  BY <1>1, MulIs
<1>4. ASSUME NEW a \in Symbol PROVE GfMul[1][a] = a
  <2>1. CASE a = 0
    BY <1>1, <1>3, <2>1
  <2>2. CASE a # 0
    <3>1. GfLog[a] \in 0..(GfN - 1) /\ GfExp[GfLog[a]] = a
      BY <2>2, LogOfExp
    <3>2. GfLog[1] = 0
      <4>1. GfExp[0] = 1 /\ 0 \in 0..(2 * GfN - 1) /\ 0 < GfN
        BY <1>1, FieldAssumption
      <4>2. GfLog[GfExp[0]] = 0
        BY <4>1, LogOfExp
      <4>3. QED
        BY <4>1, <4>2
    <3>3. GfLog[1] + GfLog[a] = GfLog[a]
      BY <1>1, <3>1, <3>2
    <3>4. GfMul[1][a] = GfExp[GfLog[1] + GfLog[a]]
      BY <1>1, <2>2, MulIs
    <3>5. QED
      BY <3>1, <3>3, <3>4
  <2>3. QED
    BY <2>1, <2>2
<1>5. ASSUME NEW a \in Symbol, NEW b \in Symbol, NEW c \in Symbol
      PROVE  GfMul[GfMul[a][b]][c] = GfMul[a][GfMul[b][c]]
  <2>1. CASE a = 0 \/ b = 0 \/ c = 0
    <3>1. GfMul[a][b] \in Symbol /\ GfMul[b][c] \in Symbol
      BY MulIs
    <3>2. CASE a = 0
      <4>1. GfMul[a][b] = 0 /\ GfMul[0][c] = 0 /\ GfMul[a][GfMul[b][c]] = 0
        BY <1>3, <3>1, <3>2
      <4>2. QED
        BY <4>1
    <3>3. CASE b = 0
      <4>1. GfMul[a][b] = 0 /\ GfMul[0][c] = 0 /\ GfMul[b][c] = 0 /\ GfMul[a][0] = 0
        BY <1>3, <3>3
      <4>2. QED
        BY <4>1
    <3>4. CASE c = 0
      <4>1. GfMul[GfMul[a][b]][c] = 0 /\ GfMul[b][c] = 0 /\ GfMul[a][0] = 0
        BY <1>3, <3>1, <3>4
      <4>2. QED
        BY <4>1
    <3>5. QED
      BY <2>1, <3>2, <3>3, <3>4
  <2>2. CASE ~(a = 0 \/ b = 0 \/ c = 0)
    <3> DEFINE x == GfLog[a]
               y == GfLog[b]
               z == GfLog[c]
               xy == IF x + y < GfN THEN x + y ELSE x + y - GfN
               yz == IF y + z < GfN THEN y + z ELSE y + z - GfN
    <3>1. x \in 0..(GfN - 1) /\ y \in 0..(GfN - 1) /\ z \in 0..(GfN - 1)
      BY <2>2, LogOfExp
    <3>2. /\ GfMul[a][b] = GfExp[x + y] /\ x + y \in 0..(2 * GfN - 1)
          /\ GfMul[b][c] = GfExp[y + z] /\ y + z \in 0..(2 * GfN - 1)
      BY <2>2, MulIs
    <3>3. /\ GfMul[a][b] \in Symbol \ {0} /\ GfLog[GfMul[a][b]] = xy
          /\ GfMul[b][c] \in Symbol \ {0} /\ GfLog[GfMul[b][c]] = yz
      <4> HIDE DEF x, y, z
      <4>1. PICK s \in 0..(2 * GfN - 1), t \in 0..(2 * GfN - 1) : s = x + y /\ t = y + z
        BY <3>2
      <4>2. /\ GfExp[s] \in Symbol \ {0} /\ GfLog[GfExp[s]] = IF s < GfN THEN s ELSE s - GfN
            /\ GfExp[t] \in Symbol \ {0} /\ GfLog[GfExp[t]] = IF t < GfN THEN t ELSE t - GfN
        BY LogOfExp
      <4>3. xy = (IF s < GfN THEN s ELSE s - GfN) /\ yz = (IF t < GfN THEN t ELSE t - GfN)
        BY <1>1, <3>1, <4>1
      <4>4. GfMul[a][b] = GfExp[s] /\ GfMul[b][c] = GfExp[t]
        BY <3>2, <4>1
      <4> HIDE DEF xy, yz
      <4>5. QED
        BY <4>2, <4>3, <4>4
    <3>4. /\ GfMul[GfMul[a][b]][c] = GfExp[xy + z]
          /\ GfMul[a][GfMul[b][c]] = GfExp[x + yz]
      BY <2>2, <3>3, MulIs
    <3> HIDE DEF x, y, z
    <3>5. /\ xy + z \in 0..(2 * GfN - 1) /\ x + yz \in 0..(2 * GfN - 1)
          /\ \/ xy + z = x + yz
             \/ xy + z = x + yz + GfN
             \/ xy + z + GfN = x + yz
      BY <1>1, <3>1
    <3> HIDE DEF xy, yz
    <3>6. \A s, t \in 0..(2 * GfN - 1) : s = t + GfN => GfExp[s] = GfExp[t]
      <4> SUFFICES ASSUME NEW s \in 0..(2 * GfN - 1), NEW t \in 0..(2 * GfN - 1), s = t + GfN
                   PROVE  GfExp[s] = GfExp[t]
        OBVIOUS
      <4>1. s \in GfN..(2 * GfN - 1) /\ s - GfN = t
        BY <1>1
      <4>2. QED
        BY <4>1, LogOfExp
    <3>7. GfExp[xy + z] = GfExp[x + yz]
      <4>1. PICK s \in 0..(2 * GfN - 1), t \in 0..(2 * GfN - 1) : s = xy + z /\ t = x + yz
        BY <3>5
      <4>2. s = t \/ s = t + GfN \/ t = s + GfN
        BY <3>5, <4>1, <1>1
      <4>3. GfExp[s] = GfExp[t]
        BY <3>6, <4>2
      <4>4. QED
        BY <4>1, <4>3
    <3>8. QED
      BY <3>4, <3>7
  <2>3. QED
    BY <2>1, <2>2
<1>6. QED
  BY <1>2, <1>3, <1>4, <1>5

\* So does addition, and the two distribute.
LEMMA AddLaws ==
  /\ \A a, b \in Symbol : GfAdd[a][b] \in Symbol /\ GfAdd[a][b] = GfAdd[b][a]
  /\ \A a \in Symbol : GfAdd[a][0] = a /\ GfAdd[0][a] = a /\ GfAdd[a][a] = 0
  /\ \A a, b, c \in Symbol : GfAdd[GfAdd[a][b]][c] = GfAdd[a][GfAdd[b][c]]
  /\ \A a, b, c \in Symbol : GfMul[a][GfAdd[b][c]] = GfAdd[GfMul[a][b]][GfMul[a][c]]
  /\ \A a, b, c \in Symbol : GfMul[GfAdd[b][c]][a] = GfAdd[GfMul[b][a]][GfMul[c][a]]
<1>1. \A a, b \in Symbol : GfAdd[a][b] \in Symbol /\ GfAdd[a][b] = GfAdd[b][a]
  BY FieldAssumption
<1>2. \A a \in Symbol : GfAdd[a][0] = a /\ GfAdd[0][a] = a /\ GfAdd[a][a] = 0
  <2>1. \A a \in Symbol : GfAdd[a][0] = a /\ GfAdd[a][a] = 0
    BY FieldAssumption
  <2>2. 0 \in Symbol
    BY CodeFacts
  <2>3. QED
    BY <1>1, <2>1, <2>2
<1>3. \A a, b, c \in Symbol : GfAdd[GfAdd[a][b]][c] = GfAdd[a][GfAdd[b][c]]
  BY FieldAssumption
<1>4. \A a, b, c \in Symbol : GfMul[a][GfAdd[b][c]] = GfAdd[GfMul[a][b]][GfMul[a][c]]
  BY FieldAssumption
<1>5. ASSUME NEW a \in Symbol, NEW b \in Symbol, NEW c \in Symbol
      PROVE  GfMul[GfAdd[b][c]][a] = GfAdd[GfMul[b][a]][GfMul[c][a]]
  <2>1. GfAdd[b][c] \in Symbol
    BY <1>1
  <2>2. GfMul[GfAdd[b][c]][a] = GfMul[a][GfAdd[b][c]]
    BY <2>1, MulLaws
  <2>3. GfMul[a][b] = GfMul[b][a] /\ GfMul[a][c] = GfMul[c][a]
    BY MulLaws
  <2>4. QED
    BY <1>4, <2>2, <2>3
<1>6. QED
  BY <1>1, <1>2, <1>3, <1>4, <1>5

\* The laws one by one.
LEMMA AddGroups == \A a, b, c \in Symbol : GfAdd[GfAdd[a][b]][c] = GfAdd[a][GfAdd[b][c]]
  BY AddLaws

LEMMA MulGroups == \A a, b, c \in Symbol : GfMul[GfMul[a][b]][c] = GfMul[a][GfMul[b][c]]
  BY MulLaws

LEMMA MulTurns == \A a, b \in Symbol : GfMul[a][b] = GfMul[b][a]
  BY MulLaws

LEMMA MulSpreads ==
  \A a, b, c \in Symbol : GfMul[a][GfAdd[b][c]] = GfAdd[GfMul[a][b]][GfMul[a][c]]
  BY AddLaws

LEMMA SumSpreads ==
  \A a, b, c \in Symbol : GfMul[GfAdd[b][c]][a] = GfAdd[GfMul[b][a]][GfMul[c][a]]
  BY AddLaws

\* Two sums of two, regrouped.
LEMMA AddSwaps ==
  ASSUME NEW a \in Symbol, NEW b \in Symbol, NEW c \in Symbol, NEW d \in Symbol
  PROVE  GfAdd[GfAdd[a][b]][GfAdd[c][d]] = GfAdd[GfAdd[a][c]][GfAdd[b][d]]
<1>1. /\ GfAdd[a][b] \in Symbol /\ GfAdd[c][d] \in Symbol /\ GfAdd[b][d] \in Symbol
      /\ GfAdd[a][c] \in Symbol /\ GfAdd[b][c] \in Symbol
  BY AddLaws
<1>2. GfAdd[GfAdd[a][b]][GfAdd[c][d]] = GfAdd[GfAdd[GfAdd[a][b]][c]][d]
  <2>1. \A u \in Symbol : GfAdd[GfAdd[u][c]][d] = GfAdd[u][GfAdd[c][d]]
    BY AddLaws
  <2>2. QED
    BY <1>1, <2>1
<1>3. GfAdd[GfAdd[a][b]][c] = GfAdd[GfAdd[a][c]][b]
  <2>1. GfAdd[GfAdd[a][b]][c] = GfAdd[a][GfAdd[b][c]]
    BY AddLaws
  <2>2. GfAdd[b][c] = GfAdd[c][b]
    BY AddLaws
  <2>3. GfAdd[GfAdd[a][c]][b] = GfAdd[a][GfAdd[c][b]]
    BY AddLaws
  <2>4. QED
    BY <2>1, <2>2, <2>3
<1>4. GfAdd[GfAdd[GfAdd[a][c]][b]][d] = GfAdd[GfAdd[a][c]][GfAdd[b][d]]
  <2>1. \A u \in Symbol : GfAdd[GfAdd[u][b]][d] = GfAdd[u][GfAdd[b][d]]
    BY AddLaws
  <2>2. QED
    BY <1>1, <2>1
<1>5. QED
  BY <1>2, <1>3, <1>4
-----------------------------------------------------------------------------
(* Sums and polynomials.                                                   *)

\* A field sum's partial sums.
Partial(s, n, c) ==
    /\ s \in [0..n -> Symbol] /\ s[0] = c[0]
    /\ \A k \in 1..n : s[k] = GfAdd[s[k - 1]][c[k]]

LEMMA SumRuns ==
  ASSUME NEW n \in Nat, NEW c \in [0..n -> Symbol]
  PROVE  \E s : Partial(s, n, c) /\ Sum(n, c) = s[n]
<1> DEFINE next    == [x \in Symbol \X (1..n) |-> GfAdd[x[1]][c[x[2]]]]
           Fits(g) == g = [k \in 0..n |-> IF k = 0 THEN c[0] ELSE GfAdd[g[k - 1]][c[k]]]
<1>1. next \in [Symbol \X (1..n) -> Symbol]
  <2>1. ASSUME NEW x \in Symbol \X (1..n) PROVE GfAdd[x[1]][c[x[2]]] \in Symbol
    <3>1. x[1] \in Symbol /\ c[x[2]] \in Symbol
      OBVIOUS
    <3>2. QED
      BY <3>1, AddLaws
  <2>2. QED
    BY <2>1
<1>2. PICK f : Runs(f, Symbol, n, c[0], next)
  <2>1. c[0] \in Symbol
    OBVIOUS
  <2> HIDE DEF next
  <2>2. QED
    BY <1>1, <2>1, Recursion
<1>3. f \in [0..n -> Symbol] /\ f[0] = c[0] /\ \A k \in 1..n : f[k] = next[<<f[k - 1], k>>]
  BY <1>2 DEF Runs
<1>4. ASSUME NEW k \in 1..n PROVE f[k] = GfAdd[f[k - 1]][c[k]]
  <2>1. <<f[k - 1], k>> \in Symbol \X (1..n)
    BY <1>3
  <2>2. QED
    BY <1>3, <2>1
<1> HIDE DEF next
<1>5. Partial(f, n, c)
  BY <1>3, <1>4 DEF Partial
<1>6. Fits(f)
  <2>1. ASSUME NEW k \in 0..n
        PROVE  f[k] = IF k = 0 THEN c[0] ELSE GfAdd[f[k - 1]][c[k]]
    <3>1. k = 0 \/ (k \in 1..n /\ k # 0)
      OBVIOUS
    <3>2. QED
      BY <1>3, <1>4, <3>1
  <2>2. QED
    BY <1>3, <2>1
<1>7. ASSUME NEW g, Fits(g) PROVE g = f
  <2>1. /\ g = [k \in 0..n |-> g[k]]
        /\ \A k \in 0..n : g[k] = IF k = 0 THEN c[0] ELSE GfAdd[g[k - 1]][c[k]]
    BY <1>7, Zenon
  <2>2. 0 \in 0..n /\ \A k \in 1..n : k \in 0..n /\ k # 0
    OBVIOUS
  <2>3. g[0] = f[0] /\ \A k \in 1..n : g[k - 1] = f[k - 1] => g[k] = f[k]
    <3>1. g[0] = f[0]
      BY <1>3, <2>1, <2>2
    <3>2. ASSUME NEW k \in 1..n, g[k - 1] = f[k - 1]
          PROVE  g[k] = f[k]
      <4>1. g[k] = GfAdd[g[k - 1]][c[k]]
        BY <2>1, <2>2
      <4>2. f[k] = GfAdd[f[k - 1]][c[k]]
        BY <1>4
      <4>3. QED
        BY <3>2, <4>1, <4>2
    <3>3. QED
      BY <3>1, <3>2
  <2>4. RunTo(f, n) /\ RunTo(g, n) /\ StepsAlike(f, g, n)
    BY <1>3, <2>1, <2>3 DEF RunTo, StepsAlike
  <2>5. QED
    BY <2>4, RunsAgree, Zenon
<1>8. Sum(n, c) = (CHOOSE g : Fits(g))[n]
  BY DEF Sum
<1>9. (CHOOSE g : Fits(g)) = f
  <2> HIDE DEF Fits
  <2>1. QED
    BY <1>6, <1>7
<1>10. QED
  BY <1>5, <1>8, <1>9

\* A sum, its first term, and the rest.
LEMMA SumSplits ==
  ASSUME NEW n \in Nat, NEW c \in [0..(n + 1) -> Symbol], NEW d \in [0..n -> Symbol],
         \A k \in 0..n : d[k] = c[k + 1]
  PROVE  Sum(n + 1, c) = GfAdd[c[0]][Sum(n, d)] /\ Sum(n, d) \in Symbol
<1>1. PICK s : Partial(s, n + 1, c) /\ Sum(n + 1, c) = s[n + 1]
  BY SumRuns
<1>2. PICK t : Partial(t, n, d) /\ Sum(n, d) = t[n]
  BY SumRuns
<1> DEFINE S == {k \in 0..n : s[k + 1] = GfAdd[c[0]][t[k]]}
<1>3. 0 \in S
  <2>1. 1 \in 1..(n + 1) /\ 1 - 1 = 0 /\ 0 \in 0..n /\ 0 + 1 = 1
    OBVIOUS
  <2>2. s[1] = GfAdd[s[0]][c[1]] /\ s[0] = c[0] /\ t[0] = d[0] /\ d[0] = c[1]
    BY <1>1, <1>2, <2>1 DEF Partial
  <2>3. QED
    BY <2>1, <2>2
<1>4. ASSUME NEW k \in 0..(n - 1), k \in S
      PROVE  k + 1 \in S
  <2>1. /\ k + 1 \in 1..n /\ (k + 1) - 1 = k /\ (k + 1) + 1 \in 1..(n + 1)
        /\ ((k + 1) + 1) - 1 = k + 1 /\ k + 1 \in 0..n /\ k \in 0..n /\ 0 \in 0..(n + 1)
    OBVIOUS
  <2>2. /\ s[(k + 1) + 1] = GfAdd[s[k + 1]][c[(k + 1) + 1]]
        /\ t[k + 1] = GfAdd[t[k]][d[k + 1]] /\ d[k + 1] = c[(k + 1) + 1]
    BY <1>1, <1>2, <2>1 DEF Partial
  <2>3. s[k + 1] = GfAdd[c[0]][t[k]]
    BY <1>4
  <2>4. c[0] \in Symbol /\ t[k] \in Symbol /\ d[k + 1] \in Symbol
    BY <1>2, <2>1 DEF Partial
  <2>5. GfAdd[GfAdd[c[0]][t[k]]][d[k + 1]] = GfAdd[c[0]][GfAdd[t[k]][d[k + 1]]]
    <3>1. \A u, v, w \in Symbol : GfAdd[GfAdd[u][v]][w] = GfAdd[u][GfAdd[v][w]]
      BY AddLaws
    <3>2. QED
      BY <2>4, <3>1
  <2>6. QED
    BY <2>1, <2>2, <2>3, <2>5
<1>5. n \in S
  <2>1. \A k \in 0..n : k \in S
    <3> HIDE DEF S
    <3>1. QED
      BY <1>3, <1>4, Climb
  <2>2. QED
    BY <2>1
<1>6. t[n] \in Symbol
  BY <1>2 DEF Partial
<1>7. QED
  BY <1>1, <1>2, <1>5, <1>6

LEMMA SumTyped ==
  ASSUME NEW n \in Nat, NEW c \in [0..n -> Symbol]
  PROVE  Sum(n, c) \in Symbol
<1>1. PICK s : Partial(s, n, c) /\ Sum(n, c) = s[n]
  BY SumRuns
<1>2. QED
  BY <1>1 DEF Partial

LEMMA SumNothing ==
  ASSUME NEW n \in Nat, NEW c \in [0..n -> Symbol], \A k \in 0..n : c[k] = 0
  PROVE  Sum(n, c) = 0
<1>1. PICK s : Partial(s, n, c) /\ Sum(n, c) = s[n]
  BY SumRuns
<1> DEFINE S == {k \in 0..n : s[k] = 0}
<1>2. 0 \in S
  BY <1>1 DEF Partial
<1>3. ASSUME NEW k \in 0..(n - 1), k \in S
      PROVE  k + 1 \in S
  <2>1. k + 1 \in 1..n /\ (k + 1) - 1 = k /\ k + 1 \in 0..n
    OBVIOUS
  <2>2. s[k + 1] = GfAdd[s[k]][c[k + 1]] /\ s[k] = 0 /\ c[k + 1] = 0
    BY <1>1, <1>3, <2>1 DEF Partial
  <2>3. GfAdd[0][0] = 0
    BY CodeFacts, AddLaws
  <2>4. QED
    BY <2>1, <2>2, <2>3
<1>4. n \in S
  <2>1. \A k \in 0..n : k \in S
    <3> HIDE DEF S
    <3>1. QED
      BY <1>2, <1>3, Climb
  <2>2. QED
    BY <2>1
<1>5. QED
  BY <1>1, <1>4

\* The coefficients of a polynomial, and where they end.
Coeffs      == [Nat -> Symbol]
Up(p)       == [k \in Nat |-> Coeff(p, k)]
EndsAt(c, n)  == \A k \in Nat : k >= n => c[k] = 0

LEMMA UpIs ==
  ASSUME NEW p \in Seq(Symbol)
  PROVE  Up(p) \in Coeffs /\ EndsAt(Up(p), Len(p)) /\ \A k \in Nat : Up(p)[k] = Coeff(p, k)
<1>1. Len(p) \in Nat /\ \A i \in 1..Len(p) : p[i] \in Symbol
  BY LenProperties, ElementOfSeq
<1>2. ASSUME NEW k \in Nat PROVE Coeff(p, k) \in Symbol /\ (k >= Len(p) => Coeff(p, k) = 0)
  <2>1. CASE k < Len(p)
    <3>1. k + 1 \in 1..Len(p) /\ ~(k >= Len(p))
      BY <1>1, <2>1
    <3>2. QED
      BY <1>1, <2>1, <3>1 DEF Coeff
  <2>2. CASE ~(k < Len(p))
    BY <2>2, CodeFacts DEF Coeff
  <2>3. QED
    BY <2>1, <2>2
<1>3. QED
  BY <1>2 DEF Up, Coeffs, EndsAt

LEMMA SymbolsAre ==
  ASSUME NEW n \in Nat, NEW f \in [1..n -> Symbol]
  PROVE  f \in Seq(Symbol) /\ Len(f) = n
OBVIOUS

LEMMA PolyIs ==
  ASSUME NEW n \in Nat, NEW c \in [0..(n - 1) -> Symbol]
  PROVE  /\ Poly(n, c) \in Seq(Symbol) /\ Len(Poly(n, c)) = n
         /\ \A i \in 1..n : Poly(n, c)[i] = c[i - 1]
         /\ \A k \in Nat : Coeff(Poly(n, c), k) = IF k < n THEN c[k] ELSE 0
<1> DEFINE f == [i \in 1..n |-> c[i - 1]]
<1>1. \A i \in 1..n : i - 1 \in 0..(n - 1)
  OBVIOUS
<1>2. f \in [1..n -> Symbol] /\ \A i \in 1..n : f[i] = c[i - 1]
  BY <1>1
<1> HIDE DEF f
<1>3. f \in Seq(Symbol) /\ Len(f) = n
  BY <1>2, SymbolsAre
<1>4. Poly(n, c) = f
  <2>1. <<>> \o f = f
    BY <1>3, ConcatEmptySeq
  <2>2. QED
    BY <2>1 DEF Poly, f
<1>5. \A k \in Nat : Coeff(f, k) = IF k < n THEN c[k] ELSE 0
  <2> SUFFICES ASSUME NEW k \in Nat PROVE Coeff(f, k) = IF k < n THEN c[k] ELSE 0
    OBVIOUS
  <2>1. CASE k < n
    <3>1. k + 1 \in 1..n /\ (k + 1) - 1 = k
      BY <2>1
    <3>2. f[k + 1] = c[k]
      BY <1>2, <3>1
    <3>3. QED
      BY <1>3, <2>1, <3>2 DEF Coeff
  <2>2. CASE ~(k < n)
    BY <1>3, <2>2 DEF Coeff
  <2>3. QED
    BY <2>1, <2>2
<1>6. QED
  BY <1>2, <1>3, <1>4, <1>5
-----------------------------------------------------------------------------
(* A polynomial at a point.                                                *)

\* Horner's partial results.
Evals(h, w, x) ==
    /\ h \in [0..Len(w) -> Symbol] /\ h[0] = 0
    /\ \A k \in 1..Len(w) : h[k] = GfAdd[GfMul[h[k - 1]][x]][w[k]]

LEMMA HornerRuns ==
  ASSUME NEW w \in Seq(Symbol), NEW x \in Symbol
  PROVE  \E h : Evals(h, w, x) /\ Horner(w, x) = h[Len(w)]
<1> DEFINE L       == Len(w)
           next    == [y \in Symbol \X (1..L) |-> GfAdd[GfMul[y[1]][x]][w[y[2]]]]
           Fits(g) == g = [k \in 0..L |-> IF k = 0 THEN 0 ELSE GfAdd[GfMul[g[k - 1]][x]][w[k]]]
<1>1. L \in Nat /\ \A k \in 1..L : w[k] \in Symbol
  BY LenProperties, ElementOfSeq
<1>2. next \in [Symbol \X (1..L) -> Symbol]
  <2>1. ASSUME NEW y \in Symbol \X (1..L) PROVE GfAdd[GfMul[y[1]][x]][w[y[2]]] \in Symbol
    <3>1. y[1] \in Symbol /\ w[y[2]] \in Symbol
      BY <1>1
    <3>2. GfMul[y[1]][x] \in Symbol
      BY <3>1, MulIs
    <3>3. QED
      BY <3>1, <3>2, AddLaws
  <2>2. QED
    BY <2>1
<1>3. PICK f : Runs(f, Symbol, L, 0, next)
  <2>1. 0 \in Symbol
    BY CodeFacts
  <2> HIDE DEF next, L
  <2>2. QED
    BY <1>1, <1>2, <2>1, Recursion
<1>4. f \in [0..L -> Symbol] /\ f[0] = 0 /\ \A k \in 1..L : f[k] = next[<<f[k - 1], k>>]
  BY <1>3 DEF Runs
<1>5. ASSUME NEW k \in 1..L PROVE f[k] = GfAdd[GfMul[f[k - 1]][x]][w[k]]
  <2>1. <<f[k - 1], k>> \in Symbol \X (1..L)
    BY <1>1, <1>4
  <2>2. QED
    BY <1>4, <2>1
<1> HIDE DEF next
<1>6. Evals(f, w, x)
  BY <1>4, <1>5 DEF Evals
<1>7. Fits(f)
  <2>1. ASSUME NEW k \in 0..L
        PROVE  f[k] = IF k = 0 THEN 0 ELSE GfAdd[GfMul[f[k - 1]][x]][w[k]]
    <3>1. k = 0 \/ (k \in 1..L /\ k # 0)
      BY <1>1
    <3>2. QED
      BY <1>4, <1>5, <3>1
  <2>2. QED
    BY <1>4, <2>1
<1>8. ASSUME NEW g, Fits(g) PROVE g = f
  <2>1. /\ g = [k \in 0..L |-> g[k]]
        /\ \A k \in 0..L : g[k] = IF k = 0 THEN 0 ELSE GfAdd[GfMul[g[k - 1]][x]][w[k]]
    BY <1>8, Zenon
  <2>2. 0 \in 0..L /\ \A k \in 1..L : k \in 0..L /\ k # 0
    BY <1>1
  <2>3. g[0] = f[0] /\ \A k \in 1..L : g[k - 1] = f[k - 1] => g[k] = f[k]
    <3>1. g[0] = f[0]
      BY <1>4, <2>1, <2>2
    <3>2. ASSUME NEW k \in 1..L, g[k - 1] = f[k - 1]
          PROVE  g[k] = f[k]
      <4>1. g[k] = GfAdd[GfMul[g[k - 1]][x]][w[k]]
        BY <2>1, <2>2
      <4>2. f[k] = GfAdd[GfMul[f[k - 1]][x]][w[k]]
        BY <1>5
      <4>3. QED
        BY <3>2, <4>1, <4>2
    <3>3. QED
      BY <3>1, <3>2
  <2>4. RunTo(f, L) /\ RunTo(g, L) /\ StepsAlike(f, g, L)
    BY <1>4, <2>1, <2>3 DEF RunTo, StepsAlike
  <2>5. QED
    BY <1>1, <2>4, RunsAgree, Zenon
<1>9. Horner(w, x) = (CHOOSE g : Fits(g))[L]
  BY DEF Horner
<1>10. (CHOOSE g : Fits(g)) = f
  <2> HIDE DEF Fits
  <2>1. QED
    BY <1>7, <1>8
<1>11. QED
  BY <1>6, <1>9, <1>10

\* The first n coefficients of c at x.
Val(c, n, x) == Horner([i \in 1..n |-> c[n - i]], x)
Vals(h, c, n, x) ==
    /\ h \in [0..n -> Symbol] /\ h[0] = 0
    /\ \A k \in 1..n : h[k] = GfAdd[GfMul[h[k - 1]][x]][c[n - k]]

LEMMA ValRuns ==
  ASSUME NEW c \in Coeffs, NEW n \in Nat, NEW x \in Symbol
  PROVE  \E h : Vals(h, c, n, x) /\ Val(c, n, x) = h[n]
<1> DEFINE w == [i \in 1..n |-> c[n - i]]
<1>1. \A i \in 1..n : n - i \in Nat
  OBVIOUS
<1>2. w \in [1..n -> Symbol] /\ \A i \in 1..n : w[i] = c[n - i]
  BY <1>1 DEF Coeffs
<1>3. Val(c, n, x) = Horner(w, x)
  BY DEF Val
<1> HIDE DEF w
<1>4. w \in Seq(Symbol) /\ Len(w) = n
  BY <1>2, SymbolsAre
<1>5. PICK h : Evals(h, w, x) /\ Horner(w, x) = h[Len(w)]
  BY <1>4, HornerRuns
<1>6. Vals(h, c, n, x)
  BY <1>2, <1>4, <1>5 DEF Evals, Vals
<1>7. QED
  BY <1>3, <1>4, <1>5, <1>6

LEMMA ValTyped ==
  ASSUME NEW c \in Coeffs, NEW n \in Nat, NEW x \in Symbol
  PROVE  Val(c, n, x) \in Symbol
<1>1. PICK h : Vals(h, c, n, x) /\ Val(c, n, x) = h[n]
  BY ValRuns
<1>2. QED
  BY <1>1 DEF Vals

LEMMA ValStart ==
  ASSUME NEW c \in Coeffs, NEW x \in Symbol
  PROVE  Val(c, 0, x) = 0
<1>1. PICK h : Vals(h, c, 0, x) /\ Val(c, 0, x) = h[0]
  BY ValRuns
<1>2. QED
  BY <1>1 DEF Vals

\* Only the coefficients counted matter.
LEMMA ValSame ==
  ASSUME NEW c, NEW d, NEW n \in Nat, NEW x, \A k \in 0..(n - 1) : c[k] = d[k]
  PROVE  Val(c, n, x) = Val(d, n, x)
<1>1. \A i \in 1..n : n - i \in 0..(n - 1)
  OBVIOUS
<1>2. [i \in 1..n |-> c[n - i]] = [i \in 1..n |-> d[n - i]]
  BY <1>1
<1>3. QED
  BY <1>2, Zenon DEF Val

\* The lowest coefficient, and the others times x.
Down(c) == [k \in Nat |-> c[k + 1]]

LEMMA DownIs ==
  ASSUME NEW c \in Coeffs
  PROVE  Down(c) \in Coeffs /\ \A k \in Nat : Down(c)[k] = c[k + 1]
<1>1. \A k \in Nat : k + 1 \in Nat
  OBVIOUS
<1>2. QED
  BY <1>1 DEF Down, Coeffs

LEMMA ValNext ==
  ASSUME NEW c \in Coeffs, NEW n \in Nat, NEW x \in Symbol
  PROVE  Val(c, n + 1, x) = GfAdd[GfMul[Val(Down(c), n, x)][x]][c[0]]
<1>1. Down(c) \in Coeffs /\ \A k \in Nat : Down(c)[k] = c[k + 1]
  BY DownIs
<1>2. PICK h : Vals(h, c, n + 1, x) /\ Val(c, n + 1, x) = h[n + 1]
  BY ValRuns
<1>3. PICK g : Vals(g, Down(c), n, x) /\ Val(Down(c), n, x) = g[n]
  BY <1>1, ValRuns
<1> DEFINE S == {k \in 0..n : h[k] = g[k]}
<1>4. 0 \in S
  BY <1>2, <1>3 DEF Vals
<1>5. ASSUME NEW k \in 0..(n - 1), k \in S
      PROVE  k + 1 \in S
  <2>1. /\ k + 1 \in 1..n /\ k + 1 \in 1..(n + 1) /\ (k + 1) - 1 = k /\ k + 1 \in 0..n
        /\ n - (k + 1) \in Nat /\ (n + 1) - (k + 1) = (n - (k + 1)) + 1
    OBVIOUS
  <2>2. c[(n + 1) - (k + 1)] = Down(c)[n - (k + 1)]
    BY <1>1, <2>1
  <2>3. /\ h[k + 1] = GfAdd[GfMul[h[k]][x]][c[(n + 1) - (k + 1)]]
        /\ g[k + 1] = GfAdd[GfMul[g[k]][x]][Down(c)[n - (k + 1)]]
    BY <1>2, <1>3, <2>1 DEF Vals
  <2>4. h[k] = g[k]
    BY <1>5
  <2>5. QED
    BY <2>1, <2>2, <2>3, <2>4
<1>6. h[n] = g[n]
  <2>1. \A k \in 0..n : k \in S
    <3> HIDE DEF S
    <3>1. QED
      BY <1>4, <1>5, Climb
  <2>2. QED
    BY <2>1
<1>7. h[n + 1] = GfAdd[GfMul[h[n]][x]][c[0]]
  <2>1. n + 1 \in 1..(n + 1) /\ (n + 1) - 1 = n /\ (n + 1) - (n + 1) = 0
    OBVIOUS
  <2>2. h[n + 1] = GfAdd[GfMul[h[(n + 1) - 1]][x]][c[(n + 1) - (n + 1)]]
    BY <1>2, <2>1 DEF Vals
  <2>3. QED
    BY <2>1, <2>2
<1>8. QED
  BY <1>2, <1>3, <1>6, <1>7

\* A multiple of one polynomial and another one, added.
LEMMA ValLinear ==
  ASSUME NEW c \in Coeffs, NEW d \in Coeffs, NEW e \in Coeffs, NEW s \in Symbol,
         \A k \in Nat : e[k] = GfAdd[GfMul[s][c[k]]][d[k]],
         NEW n \in Nat, NEW x \in Symbol
  PROVE  Val(e, n, x) = GfAdd[GfMul[s][Val(c, n, x)]][Val(d, n, x)]
<1>1. PICK f : Vals(f, c, n, x) /\ Val(c, n, x) = f[n]
  BY ValRuns
<1>2. PICK g : Vals(g, d, n, x) /\ Val(d, n, x) = g[n]
  BY ValRuns
<1>3. PICK h : Vals(h, e, n, x) /\ Val(e, n, x) = h[n]
  BY ValRuns
<1> DEFINE S == {k \in 0..n : h[k] = GfAdd[GfMul[s][f[k]]][g[k]]}
<1>4. 0 \in S
  <2>1. f[0] = 0 /\ g[0] = 0 /\ h[0] = 0
    BY <1>1, <1>2, <1>3 DEF Vals
  <2>2. GfMul[s][0] = 0 /\ GfAdd[0][0] = 0
    BY MulLaws, AddLaws, CodeFacts
  <2>3. QED
    BY <2>1, <2>2
<1>5. ASSUME NEW k \in 0..(n - 1), k \in S
      PROVE  k + 1 \in S
  <2>1. k + 1 \in 1..n /\ (k + 1) - 1 = k /\ k + 1 \in 0..n /\ k \in 0..n /\ n - (k + 1) \in Nat
    OBVIOUS
  <2> DEFINE u  == f[k]
             v  == g[k]
             cc == c[n - (k + 1)]
             dd == d[n - (k + 1)]
             su == GfMul[s][u]
             sc == GfMul[s][cc]
  <2>2. u \in Symbol /\ v \in Symbol /\ cc \in Symbol /\ dd \in Symbol
    BY <1>1, <1>2, <2>1 DEF Vals, Coeffs
  <2>3. /\ f[k + 1] = GfAdd[GfMul[u][x]][cc] /\ g[k + 1] = GfAdd[GfMul[v][x]][dd]
        /\ h[k + 1] = GfAdd[GfMul[h[k]][x]][e[n - (k + 1)]]
    BY <1>1, <1>2, <1>3, <2>1 DEF Vals
  <2>4. h[k] = GfAdd[su][v] /\ e[n - (k + 1)] = GfAdd[sc][dd]
    BY <1>5, <2>1
  <2> HIDE DEF u, v, cc, dd
  <2>5. su \in Symbol /\ sc \in Symbol /\ GfMul[u][x] \in Symbol /\ GfMul[v][x] \in Symbol
        /\ GfMul[su][x] \in Symbol
    BY <2>2, MulIs
  <2>6. GfMul[GfAdd[su][v]][x] = GfAdd[GfMul[su][x]][GfMul[v][x]]
    <3> HIDE DEF su, sc
    <3>1. QED
      BY <2>2, <2>5, AddLaws
  <2>7. GfMul[su][x] = GfMul[s][GfMul[u][x]]
    BY <2>2, MulLaws
  <2>8. GfMul[s][GfAdd[GfMul[u][x]][cc]] = GfAdd[GfMul[s][GfMul[u][x]]][sc]
    <3>1. \A p \in Symbol : GfMul[s][GfAdd[p][cc]] = GfAdd[GfMul[s][p]][GfMul[s][cc]]
      BY <2>2, AddLaws
    <3>2. QED
      BY <2>5, <3>1
  <2>9. GfAdd[GfAdd[GfMul[su][x]][GfMul[v][x]]][GfAdd[sc][dd]]
        = GfAdd[GfAdd[GfMul[su][x]][sc]][GfAdd[GfMul[v][x]][dd]]
    <3> HIDE DEF su, sc
    <3>1. \A p, q, r, t \in Symbol :
             GfAdd[GfAdd[p][q]][GfAdd[r][t]] = GfAdd[GfAdd[p][r]][GfAdd[q][t]]
      BY AddSwaps
    <3>2. PICK p \in Symbol, q \in Symbol, r \in Symbol, t \in Symbol :
             p = GfMul[su][x] /\ q = GfMul[v][x] /\ r = sc /\ t = dd
      BY <2>2, <2>5
    <3>3. GfAdd[GfAdd[p][q]][GfAdd[r][t]] = GfAdd[GfAdd[p][r]][GfAdd[q][t]]
      BY <3>1
    <3>4. QED
      BY <3>2, <3>3
  <2>10. h[k + 1] = GfAdd[GfMul[s][f[k + 1]]][g[k + 1]]
    <3> HIDE DEF su, sc
    <3>1. QED
      BY <2>3, <2>4, <2>6, <2>7, <2>8, <2>9
  <2>11. QED
    BY <2>1, <2>10
<1>6. n \in S
  <2>1. \A k \in 0..n : k \in S
    <3> HIDE DEF S
    <3>1. QED
      BY <1>4, <1>5, Climb
  <2>2. QED
    BY <2>1
<1>7. QED
  BY <1>1, <1>2, <1>3, <1>6

\* Zeros above the last coefficient change nothing.
LEMMA ValPad ==
  ASSUME NEW q \in Nat, NEW x \in Symbol
  PROVE  \A c \in Coeffs : EndsAt(c, q) =>
            \A n \in Nat : n >= q => Val(c, n, x) = Val(c, q, x)
<1> DEFINE P(k) == \A c \in Coeffs : EndsAt(c, k) =>
                     \A n \in Nat : n >= k => Val(c, n, x) = Val(c, k, x)
           S    == {k \in 0..q : P(k)}
<1>1. 0 \in S
  <2> SUFFICES ASSUME NEW c \in Coeffs, EndsAt(c, 0), NEW n \in Nat
               PROVE  Val(c, n, x) = Val(c, 0, x)
    BY DEF S, P
  <2>1. PICK h : Vals(h, c, n, x) /\ Val(c, n, x) = h[n]
    BY ValRuns
  <2> DEFINE Z == {k \in 0..n : h[k] = 0}
  <2>2. 0 \in Z
    BY <2>1 DEF Vals
  <2>3. ASSUME NEW k \in 0..(n - 1), k \in Z PROVE k + 1 \in Z
    <3>1. k + 1 \in 1..n /\ (k + 1) - 1 = k /\ k + 1 \in 0..n /\ n - (k + 1) \in Nat /\ n - (k + 1) >= 0
      OBVIOUS
    <3>2. h[k + 1] = GfAdd[GfMul[h[k]][x]][c[n - (k + 1)]] /\ h[k] = 0 /\ c[n - (k + 1)] = 0
      BY <2>1, <2>3, <3>1 DEF Vals, EndsAt
    <3>3. GfMul[0][x] = 0 /\ GfAdd[0][0] = 0
      BY CodeFacts, MulLaws, AddLaws
    <3>4. QED
      BY <3>1, <3>2, <3>3
  <2>4. \A k \in 0..n : k \in Z
    <3> HIDE DEF Z
    <3>1. QED
      BY <2>2, <2>3, Climb
  <2>5. QED
    BY <2>1, <2>4, ValStart
<1>2. ASSUME NEW k \in 0..(q - 1), k \in S
      PROVE  k + 1 \in S
  <2> SUFFICES ASSUME NEW c \in Coeffs, EndsAt(c, k + 1), NEW n \in Nat, n >= k + 1
               PROVE  Val(c, n, x) = Val(c, k + 1, x)
    BY DEF S, P
  <2>1. PICK m \in Nat : n = m + 1 /\ m >= k
    <3>1. n - 1 \in Nat /\ n = (n - 1) + 1 /\ n - 1 >= k
      OBVIOUS
    <3>2. QED
      BY <3>1
  <2>2. Down(c) \in Coeffs /\ EndsAt(Down(c), k)
    <3>1. Down(c) \in Coeffs /\ \A j \in Nat : Down(c)[j] = c[j + 1]
      BY DownIs
    <3>2. \A j \in Nat : j >= k => j + 1 \in Nat /\ j + 1 >= k + 1
      OBVIOUS
    <3>3. QED
      BY <3>1, <3>2 DEF EndsAt
  <2>3. Val(Down(c), m, x) = Val(Down(c), k, x)
    BY <1>2, <2>1, <2>2 DEF S, P
  <2>4. k \in Nat
    OBVIOUS
  <2>5. Val(c, m + 1, x) = GfAdd[GfMul[Val(Down(c), m, x)][x]][c[0]]
    BY ValNext
  <2>6. Val(c, k + 1, x) = GfAdd[GfMul[Val(Down(c), k, x)][x]][c[0]]
    BY <2>4, ValNext
  <2>7. QED
    BY <2>1, <2>3, <2>5, <2>6
<1>3. q \in S
  <2>1. \A k \in 0..q : k \in S
    <3> HIDE DEF S
    <3>1. QED
      BY <1>1, <1>2, Climb
  <2>2. QED
    BY <2>1
<1>4. QED
  BY <1>3 DEF S, P
-----------------------------------------------------------------------------
(* A product of polynomials, at a point, is the product of their values.   *)

Terms(c, d, i) == [k \in 0..i |-> GfMul[c[k]][d[i - k]]]
Conv(c, d)     == [i \in Nat |-> Sum(i, Terms(c, d, i))]

LEMMA TermsTyped ==
  ASSUME NEW c \in Coeffs, NEW d \in Coeffs, NEW i \in Nat
  PROVE  /\ Terms(c, d, i) \in [0..i -> Symbol]
         /\ \A k \in 0..i : Terms(c, d, i)[k] = GfMul[c[k]][d[i - k]]
<1>1. ASSUME NEW k \in 0..i PROVE GfMul[c[k]][d[i - k]] \in Symbol
  <2>1. k \in Nat /\ i - k \in Nat
    OBVIOUS
  <2>2. c[k] \in Symbol /\ d[i - k] \in Symbol
    BY <2>1 DEF Coeffs
  <2>3. QED
    BY <2>2, MulIs
<1>2. QED
  BY <1>1 DEF Terms

LEMMA ConvTyped ==
  ASSUME NEW c \in Coeffs, NEW d \in Coeffs
  PROVE  Conv(c, d) \in Coeffs /\ \A i \in Nat : Conv(c, d)[i] = Sum(i, Terms(c, d, i))
<1>1. ASSUME NEW i \in Nat PROVE Sum(i, Terms(c, d, i)) \in Symbol
  <2>1. Terms(c, d, i) \in [0..i -> Symbol]
    BY TermsTyped
  <2>2. QED
    BY <2>1, SumTyped
<1>2. QED
  BY <1>1 DEF Conv, Coeffs

\* The product, its lowest coefficient aside.
LEMMA ConvDown ==
  ASSUME NEW c \in Coeffs, NEW d \in Coeffs
  PROVE  /\ Conv(c, d)[0] = GfMul[c[0]][d[0]]
         /\ \A k \in Nat : Down(Conv(c, d))[k]
                           = GfAdd[GfMul[c[0]][Down(d)[k]]][Conv(Down(c), d)[k]]
<1>1. /\ Conv(c, d) \in Coeffs /\ \A i \in Nat : Conv(c, d)[i] = Sum(i, Terms(c, d, i))
      /\ Down(c) \in Coeffs /\ \A k \in Nat : Down(c)[k] = c[k + 1]
      /\ Down(d) \in Coeffs /\ \A k \in Nat : Down(d)[k] = d[k + 1]
  BY ConvTyped, DownIs
<1>2. /\ \A i \in Nat : Conv(Down(c), d)[i] = Sum(i, Terms(Down(c), d, i))
      /\ \A k \in Nat : Down(Conv(c, d))[k] = Conv(c, d)[k + 1]
  BY <1>1, ConvTyped, DownIs
<1>3. Conv(c, d)[0] = GfMul[c[0]][d[0]]
  <2> DEFINE t == Terms(c, d, 0)
  <2>1. t \in [0..0 -> Symbol] /\ t[0] = GfMul[c[0]][d[0]]
    <3>1. PICK z \in Nat : z = 0
      OBVIOUS
    <3>2. /\ Terms(c, d, z) \in [0..z -> Symbol]
          /\ \A k \in 0..z : Terms(c, d, z)[k] = GfMul[c[k]][d[z - k]]
      BY TermsTyped
    <3>3. z \in 0..z /\ z - z = z
      BY <3>1
    <3>4. Terms(c, d, z)[z] = GfMul[c[z]][d[z]]
      BY <3>2, <3>3
    <3>5. QED
      BY <3>1, <3>2, <3>4
  <2> HIDE DEF t
  <2>2. PICK s : Partial(s, 0, t) /\ Sum(0, t) = s[0]
    BY <2>1, SumRuns
  <2>3. Sum(0, t) = t[0]
    BY <2>2 DEF Partial
  <2>4. QED
    BY <1>1, <2>1, <2>3 DEF t
<1>4. ASSUME NEW i \in Nat
      PROVE  Down(Conv(c, d))[i] = GfAdd[GfMul[c[0]][Down(d)[i]]][Conv(Down(c), d)[i]]
  <2> DEFINE t == Terms(c, d, i + 1)
             u == Terms(Down(c), d, i)
  <2>1. t \in [0..(i + 1) -> Symbol] /\ \A k \in 0..(i + 1) : t[k] = GfMul[c[k]][d[(i + 1) - k]]
    BY TermsTyped
  <2>2. u \in [0..i -> Symbol] /\ \A k \in 0..i : u[k] = GfMul[Down(c)[k]][d[i - k]]
    BY <1>1, TermsTyped
  <2> HIDE DEF t, u
  <2>3. ASSUME NEW k \in 0..i PROVE u[k] = t[k + 1]
    <3>1. k \in Nat /\ k + 1 \in 0..(i + 1) /\ (i + 1) - (k + 1) = i - k
      OBVIOUS
    <3>2. Down(c)[k] = c[k + 1]
      BY <1>1, <3>1
    <3>3. t[k + 1] = GfMul[c[k + 1]][d[(i + 1) - (k + 1)]]
      BY <2>1, <3>1
    <3>4. QED
      BY <2>2, <3>1, <3>2, <3>3
  <2>4. Sum(i + 1, t) = GfAdd[t[0]][Sum(i, u)]
    BY <2>1, <2>2, <2>3, SumSplits
  <2>5. t[0] = GfMul[c[0]][Down(d)[i]]
    <3>1. 0 \in 0..(i + 1) /\ (i + 1) - 0 = i + 1
      OBVIOUS
    <3>2. t[0] = GfMul[c[0]][d[(i + 1) - 0]]
      BY <2>1, <3>1
    <3>3. QED
      BY <1>1, <3>1, <3>2
  <2>6. Down(Conv(c, d))[i] = Sum(i + 1, t) /\ Conv(Down(c), d)[i] = Sum(i, u)
    <3>1. i + 1 \in Nat
      OBVIOUS
    <3>2. QED
      BY <1>1, <1>2, <3>1 DEF t, u
  <2>7. QED
    BY <2>4, <2>5, <2>6
<1>5. QED
  BY <1>3, <1>4

\* One step of both sides: w is u and v one coefficient on.
OneOn(w, u, v, x) == w = GfAdd[GfMul[u][x]][v]
Multiplied(a, b, u, v, w, x) ==
    GfAdd[GfMul[GfAdd[GfMul[a][u]][GfMul[b][w]]][x]][GfMul[a][v]]
    = GfMul[GfAdd[GfMul[b][x]][a]][w]

LEMMA StepOfProduct ==
  ASSUME NEW a \in Symbol, NEW b \in Symbol, NEW u \in Symbol, NEW v \in Symbol, NEW x \in Symbol,
         NEW w \in Symbol, OneOn(w, u, v, x)
  PROVE  Multiplied(a, b, u, v, w, x)
<1>1. PICK p \in Symbol, q \in Symbol, r \in Symbol, t \in Symbol, y \in Symbol, z \in Symbol :
         /\ p = GfMul[a][u] /\ q = GfMul[b][w] /\ r = GfMul[a][v] /\ t = GfMul[u][x]
         /\ y = GfMul[p][x] /\ z = GfMul[q][x]
  BY MulIs
<1>2. GfMul[GfAdd[p][q]][x] = GfAdd[y][z]
  <2>1. GfMul[GfAdd[p][q]][x] = GfAdd[GfMul[p][x]][GfMul[q][x]]
    BY SumSpreads
  <2>2. QED
    BY <1>1, <2>1
<1>3. y = GfMul[a][t]
  BY <1>1, MulGroups
<1>4. PICK e \in Symbol : e = GfMul[b][x]
  BY MulIs
<1>5. z = GfMul[e][w]
  <2>1. z = GfMul[b][GfMul[w][x]]
    BY <1>1, MulGroups
  <2>2. GfMul[w][x] = GfMul[x][w]
    BY MulTurns
  <2>3. GfMul[e][w] = GfMul[b][GfMul[x][w]]
    BY <1>4, MulGroups
  <2>4. QED
    BY <2>1, <2>2, <2>3
<1>6. GfMul[a][GfAdd[t][v]] = GfAdd[y][r]
  <2>1. GfMul[a][GfAdd[t][v]] = GfAdd[GfMul[a][t]][GfMul[a][v]]
    BY MulSpreads
  <2>2. QED
    BY <1>1, <1>3, <2>1
<1>7. GfMul[GfAdd[e][a]][w] = GfAdd[z][GfMul[a][w]]
  <2>1. GfMul[GfAdd[e][a]][w] = GfAdd[GfMul[e][w]][GfMul[a][w]]
    BY SumSpreads
  <2>2. QED
    BY <1>5, <2>1
<1>8. GfAdd[GfAdd[y][z]][r] = GfAdd[z][GfAdd[y][r]]
  <2>1. GfAdd[y][z] = GfAdd[z][y] /\ GfAdd[GfAdd[z][y]][r] = GfAdd[z][GfAdd[y][r]]
    BY AddLaws
  <2>2. QED
    BY <2>1
<1>9. w = GfAdd[t][v]
  BY <1>1 DEF OneOn
<1>10. QED
  BY <1>1, <1>2, <1>4, <1>6, <1>7, <1>8, <1>9 DEF Multiplied

LEMMA ConvVal ==
  ASSUME NEW d \in Coeffs, NEW q \in Nat, q > 0, EndsAt(d, q), NEW x \in Symbol, NEW m \in Nat
  PROVE  \A c \in Coeffs : EndsAt(c, m) =>
            \A n \in Nat : n + 1 >= m + q =>
               Val(Conv(c, d), n, x) = GfMul[Val(c, m, x)][Val(d, q, x)]
<1> DEFINE P(k) == \A c \in Coeffs : EndsAt(c, k) =>
                     \A n \in Nat : n + 1 >= k + q =>
                        Val(Conv(c, d), n, x) = GfMul[Val(c, k, x)][Val(d, q, x)]
           S    == {k \in 0..m : P(k)}
<1>1. 0 \in S
  <2> SUFFICES ASSUME NEW c \in Coeffs, EndsAt(c, 0), NEW n \in Nat
               PROVE  Val(Conv(c, d), n, x) = GfMul[Val(c, 0, x)][Val(d, q, x)]
    BY DEF S, P
  <2>1. Conv(c, d) \in Coeffs /\ \A i \in Nat : Conv(c, d)[i] = Sum(i, Terms(c, d, i))
    BY ConvTyped
  <2>2. ASSUME NEW i \in Nat PROVE Conv(c, d)[i] = 0
    <3>1. Terms(c, d, i) \in [0..i -> Symbol] /\ \A k \in 0..i : Terms(c, d, i)[k] = GfMul[c[k]][d[i - k]]
      BY TermsTyped
    <3>2. ASSUME NEW k \in 0..i PROVE Terms(c, d, i)[k] = 0
      <4>1. c[k] = 0 /\ i - k \in Nat
        BY DEF EndsAt
      <4>2. d[i - k] \in Symbol
        BY <4>1 DEF Coeffs
      <4>3. GfMul[0][d[i - k]] = 0
        BY <4>2, MulLaws
      <4>4. QED
        BY <3>1, <4>1, <4>3
    <3>3. Sum(i, Terms(c, d, i)) = 0
      BY <3>1, <3>2, SumNothing
    <3>4. QED
      BY <2>1, <3>3
  <2>3. EndsAt(Conv(c, d), 0)
    BY <2>2 DEF EndsAt
  <2>4. Val(Conv(c, d), n, x) = Val(Conv(c, d), 0, x)
    <3>1. 0 \in Nat /\ n >= 0
      OBVIOUS
    <3>2. QED
      BY <2>1, <2>3, <3>1, ValPad
  <2>5. Val(Conv(c, d), 0, x) = 0 /\ Val(c, 0, x) = 0
    BY <2>1, ValStart
  <2>6. GfMul[0][Val(d, q, x)] = 0
    <3>1. Val(d, q, x) \in Symbol
      BY ValTyped
    <3>2. QED
      BY <3>1, MulLaws
  <2>7. QED
    BY <2>4, <2>5, <2>6
<1>2. ASSUME NEW k \in 0..(m - 1), k \in S
      PROVE  k + 1 \in S
  <2> SUFFICES ASSUME NEW c \in Coeffs, EndsAt(c, k + 1), NEW n \in Nat, n + 1 >= (k + 1) + q
               PROVE  Val(Conv(c, d), n, x) = GfMul[Val(c, k + 1, x)][Val(d, q, x)]
    BY DEF S, P
  <2>1. PICK l \in Nat : n = l + 1 /\ l + 1 >= k + q /\ l + 1 >= q
    <3>1. n - 1 \in Nat /\ n = (n - 1) + 1 /\ (n - 1) + 1 >= k + q /\ (n - 1) + 1 >= q
      OBVIOUS
    <3>2. QED
      BY <3>1
  <2>2. Down(c) \in Coeffs /\ EndsAt(Down(c), k) /\ Down(d) \in Coeffs
    <3>1. Down(c) \in Coeffs /\ \A j \in Nat : Down(c)[j] = c[j + 1]
      BY DownIs
    <3>2. \A j \in Nat : j >= k => j + 1 \in Nat /\ j + 1 >= k + 1
      OBVIOUS
    <3>3. QED
      BY <3>1, <3>2, DownIs DEF EndsAt
  <2> DEFINE cd == Conv(c, d)
             ld == Conv(Down(c), d)
  <2>3. cd \in Coeffs /\ ld \in Coeffs /\ Down(cd) \in Coeffs /\ c[0] \in Symbol /\ d[0] \in Symbol
    BY <2>2, ConvTyped, DownIs DEF Coeffs
  <2>4. /\ cd[0] = GfMul[c[0]][d[0]]
        /\ \A j \in Nat : Down(cd)[j] = GfAdd[GfMul[c[0]][Down(d)[j]]][ld[j]]
    BY ConvDown
  <2> HIDE DEF cd, ld
  <2>5. Val(Down(cd), l, x) = GfAdd[GfMul[c[0]][Val(Down(d), l, x)]][Val(ld, l, x)]
    <3>1. PICK s \in Symbol : s = c[0]
      BY <2>3
    <3>2. \A j \in Nat : Down(cd)[j] = GfAdd[GfMul[s][Down(d)[j]]][ld[j]]
      BY <2>4, <3>1
    <3>3. PICK e \in Coeffs, g \in Coeffs, f \in Coeffs : e = Down(cd) /\ g = Down(d) /\ f = ld
      BY <2>2, <2>3
    <3>4. \A j \in Nat : e[j] = GfAdd[GfMul[s][g[j]]][f[j]]
      BY <3>2, <3>3
    <3>5. Val(e, l, x) = GfAdd[GfMul[s][Val(g, l, x)]][Val(f, l, x)]
      BY <3>4, ValLinear, SMTT(60)
    <3>6. QED
      BY <3>1, <3>3, <3>5
  <2>6. Val(ld, l, x) = GfMul[Val(Down(c), k, x)][Val(d, q, x)]
    BY <1>2, <2>1, <2>2 DEF S, P, ld
  <2>7. Val(cd, l + 1, x) = GfAdd[GfMul[Val(Down(cd), l, x)][x]][cd[0]]
    BY <2>3, ValNext
  <2>8. Val(d, q, x) = GfAdd[GfMul[Val(Down(d), l, x)][x]][d[0]]
    <3>1. l + 1 \in Nat /\ l + 1 >= q
      BY <2>1
    <3>2. Val(d, l + 1, x) = Val(d, q, x)
      BY <3>1, ValPad
    <3>3. Val(d, l + 1, x) = GfAdd[GfMul[Val(Down(d), l, x)][x]][d[0]]
      BY ValNext
    <3>4. QED
      BY <3>2, <3>3
  <2>9. k \in Nat /\ Val(c, k + 1, x) = GfAdd[GfMul[Val(Down(c), k, x)][x]][c[0]]
    <3>1. k \in Nat
      OBVIOUS
    <3>2. QED
      BY <3>1, ValNext
  <2>10. PICK a \in Symbol, b \in Symbol, u \in Symbol, v \in Symbol, w \in Symbol :
            /\ a = c[0] /\ b = Val(Down(c), k, x) /\ u = Val(Down(d), l, x) /\ v = d[0]
            /\ w = Val(d, q, x)
    BY <2>2, <2>3, <2>9, ValTyped
  <2>11. OneOn(w, u, v, x)
    BY <2>8, <2>10 DEF OneOn
  <2>12. GfAdd[GfMul[GfAdd[GfMul[a][u]][GfMul[b][w]]][x]][GfMul[a][v]]
         = GfMul[GfAdd[GfMul[b][x]][a]][w]
    <3>1. Multiplied(a, b, u, v, w, x)
      BY <2>11, StepOfProduct
    <3>2. QED
      BY <3>1 DEF Multiplied
  <2>13. Val(cd, n, x) = GfAdd[GfMul[GfAdd[GfMul[a][u]][GfMul[b][w]]][x]][GfMul[a][v]]
    BY <2>1, <2>4, <2>5, <2>6, <2>7, <2>10
  <2>14. GfMul[Val(c, k + 1, x)][Val(d, q, x)] = GfMul[GfAdd[GfMul[b][x]][a]][w]
    BY <2>9, <2>10
  <2>15. QED
    BY <2>12, <2>13, <2>14 DEF cd
<1>3. m \in S
  <2>1. \A k \in 0..m : k \in S
    <3> HIDE DEF S
    <3>1. QED
      BY <1>1, <1>2, Climb
  <2>2. QED
    BY <2>1
<1>4. QED
  BY <1>3 DEF S, P

\* The model's evaluation is that of the coefficients.
LEMMA EvalIs ==
  ASSUME NEW p \in Seq(Symbol), NEW x \in Symbol
  PROVE  Eval(p, x) = Val(Up(p), Len(p), x) /\ Eval(p, x) \in Symbol
<1>1. Len(p) \in Nat /\ Up(p) \in Coeffs /\ \A k \in Nat : Up(p)[k] = Coeff(p, k)
  BY LenProperties, UpIs
<1>2. ASSUME NEW i \in 1..Len(p) PROVE p[Len(p) + 1 - i] = Up(p)[Len(p) - i]
  <2>1. Len(p) - i \in Nat /\ Len(p) - i < Len(p) /\ (Len(p) - i) + 1 = Len(p) + 1 - i
    BY <1>1
  <2>2. Coeff(p, Len(p) - i) = p[(Len(p) - i) + 1]
    BY <2>1 DEF Coeff
  <2>3. QED
    BY <1>1, <2>1, <2>2
<1>3. [i \in 1..Len(p) |-> p[Len(p) + 1 - i]] = [i \in 1..Len(p) |-> Up(p)[Len(p) - i]]
  BY <1>2
<1>4. Eval(p, x) = Val(Up(p), Len(p), x)
  BY <1>3, Zenon DEF Eval, Val
<1>5. QED
  BY <1>1, <1>4, ValTyped

\* What Times computes, and what it is worth at a point.
LEMMA TimesIs ==
  ASSUME NEW p \in Seq(Symbol), NEW q \in Seq(Symbol), NEW n \in Nat
  PROVE  /\ Times(p, q, n) \in Seq(Symbol) /\ Len(Times(p, q, n)) = n
         /\ \A k \in 0..(n - 1) : Up(Times(p, q, n))[k] = Conv(Up(p), Up(q))[k]
<1> DEFINE f == [i \in 0..(n - 1) |->
                   Sum(i, [k \in 0..i |-> GfMul[Coeff(p, k)][Coeff(q, i - k)]])]
<1>1. /\ Up(p) \in Coeffs /\ \A k \in Nat : Up(p)[k] = Coeff(p, k)
      /\ Up(q) \in Coeffs /\ \A k \in Nat : Up(q)[k] = Coeff(q, k)
  BY UpIs
<1>2. /\ Conv(Up(p), Up(q)) \in Coeffs
      /\ \A i \in Nat : Conv(Up(p), Up(q))[i] = Sum(i, Terms(Up(p), Up(q), i))
  BY <1>1, ConvTyped
<1>3. ASSUME NEW i \in 0..(n - 1)
      PROVE  f[i] = Conv(Up(p), Up(q))[i] /\ f[i] \in Symbol
  <2>1. i \in Nat /\ \A k \in 0..i : k \in Nat /\ i - k \in Nat
    OBVIOUS
  <2>2. Terms(Up(p), Up(q), i) = [k \in 0..i |-> GfMul[Coeff(p, k)][Coeff(q, i - k)]]
    <3>1. \A k \in 0..i : Up(p)[k] = Coeff(p, k) /\ Up(q)[i - k] = Coeff(q, i - k)
      BY <1>1, <2>1
    <3>2. QED
      BY <3>1 DEF Terms
  <2>3. f[i] = Sum(i, Terms(Up(p), Up(q), i))
    BY <2>2, Zenon
  <2>4. QED
    BY <1>2, <2>1, <2>3 DEF Coeffs
<1>4. f \in [0..(n - 1) -> Symbol]
  BY <1>3
<1>5. Times(p, q, n) = Poly(n, f)
  BY DEF Times
<1> HIDE DEF f
<1>6. /\ Poly(n, f) \in Seq(Symbol) /\ Len(Poly(n, f)) = n
      /\ \A k \in Nat : Coeff(Poly(n, f), k) = IF k < n THEN f[k] ELSE 0
  BY <1>4, PolyIs
<1>7. ASSUME NEW k \in 0..(n - 1) PROVE Up(Times(p, q, n))[k] = Conv(Up(p), Up(q))[k]
  <2>1. k \in Nat /\ k < n
    OBVIOUS
  <2>2. Up(Times(p, q, n))[k] = Coeff(Times(p, q, n), k)
    BY <1>5, <1>6, <2>1, UpIs
  <2>3. QED
    BY <1>3, <1>5, <1>6, <2>1, <2>2
<1>8. QED
  BY <1>5, <1>6, <1>7

LEMMA TimesStart ==
  ASSUME NEW p \in Seq(Symbol), NEW q \in Seq(Symbol), NEW n \in Nat, n > 0
  PROVE  Up(Times(p, q, n))[0] = GfMul[Up(p)[0]][Up(q)[0]]
<1>1. 0 \in 0..(n - 1)
  OBVIOUS
<1>2. Up(Times(p, q, n))[0] = Conv(Up(p), Up(q))[0]
  BY <1>1, TimesIs
<1>3. Conv(Up(p), Up(q))[0] = GfMul[Up(p)[0]][Up(q)[0]]
  BY UpIs, ConvDown
<1>4. QED
  BY <1>2, <1>3

LEMMA EvalTimes ==
  ASSUME NEW p \in Seq(Symbol), NEW q \in Seq(Symbol), Len(q) > 0, NEW n \in Nat,
         n + 1 = Len(p) + Len(q), NEW x \in Symbol
  PROVE  Eval(Times(p, q, n), x) = GfMul[Eval(p, x)][Eval(q, x)]
<1>1. /\ Times(p, q, n) \in Seq(Symbol) /\ Len(Times(p, q, n)) = n
      /\ \A k \in 0..(n - 1) : Up(Times(p, q, n))[k] = Conv(Up(p), Up(q))[k]
  BY TimesIs
<1>2. Eval(Times(p, q, n), x) = Val(Up(Times(p, q, n)), n, x)
  BY <1>1, EvalIs
<1>3. Val(Up(Times(p, q, n)), n, x) = Val(Conv(Up(p), Up(q)), n, x)
  BY <1>1, ValSame
<1>4. /\ Up(p) \in Coeffs /\ EndsAt(Up(p), Len(p)) /\ Up(q) \in Coeffs /\ EndsAt(Up(q), Len(q))
      /\ Len(p) \in Nat /\ Len(q) \in Nat /\ n + 1 >= Len(p) + Len(q)
  BY UpIs, LenProperties
<1>5. Val(Conv(Up(p), Up(q)), n, x) = GfMul[Val(Up(p), Len(p), x)][Val(Up(q), Len(q), x)]
  BY <1>4, ConvVal
<1>6. QED
  BY <1>2, <1>3, <1>5, EvalIs
-----------------------------------------------------------------------------
(* Locators, and the erasures' polynomial.                                 *)

LEMMA PowIs ==
  /\ \A e \in Nat : PowAlpha(e) \in Symbol \ {0}
  /\ \A e \in 0..(GfN - 1) : PowAlpha(e) = GfExp[e]
  /\ PowAlpha(GfN) = 1
<1>1. GfN \in Nat /\ GfN > 0
  BY CodeFacts
<1>2. ASSUME NEW e \in Nat PROVE PowAlpha(e) \in Symbol \ {0}
  <2>1. PICK k \in 0..(GfN - 1) : k = e % GfN
    BY <1>1, DivMod
  <2>2. k \in 0..(2 * GfN - 1)
    BY <1>1
  <2>3. GfExp[k] \in Symbol \ {0}
    BY <2>2, LogOfExp
  <2>4. QED
    BY <2>1, <2>3 DEF PowAlpha
<1>3. ASSUME NEW e \in 0..(GfN - 1) PROVE PowAlpha(e) = GfExp[e]
  <2>1. e % GfN = e
    BY <1>1, ModWithin
  <2>2. QED
    BY <2>1 DEF PowAlpha
<1>4. PowAlpha(GfN) = 1
  <2>1. GfN % GfN = 0
    <3>1. (GfN * 1 + 0) % GfN = 0
      BY <1>1, ModIs
    <3>2. GfN * 1 + 0 = GfN
      BY <1>1
    <3>3. QED
      BY <3>1, <3>2
  <2>2. GfExp[0] = 1
    BY FieldAssumption
  <2>3. QED
    BY <2>1, <2>2 DEF PowAlpha
<1>5. QED
  BY <1>2, <1>3, <1>4

\* X and 1/X are what they are called.
LEMMA LocatorIs ==
  ASSUME NEW j \in Pos
  PROVE  /\ Locator(j) \in Symbol /\ InvLocator(j) \in Symbol
         /\ GfMul[Locator(j)][InvLocator(j)] = 1
<1>1. /\ GfN \in Nat /\ GfN > 0 /\ RsN \in Nat /\ RsN <= GfN /\ Pos = 1..RsN /\ 1 \in Symbol
      /\ GfExp[0] = 1
  BY CodeFacts, FieldAssumption
<1>2. PICK e \in 0..(GfN - 1) : e = RsN - j
  BY <1>1
<1>3. e % GfN = e /\ e \in Nat
  BY <1>1, ModWithin
<1>4. PICK f \in 1..GfN : f = GfN - e /\ f \in Nat /\ e + f = GfN
  BY <1>1
<1>5. Locator(j) = GfExp[e] /\ Locator(j) \in Symbol \ {0}
  <2>1. Locator(j) = PowAlpha(e)
    BY <1>2 DEF Locator
  <2>2. QED
    BY <1>3, <2>1, PowIs
<1>6. InvLocator(j) = PowAlpha(f) /\ InvLocator(j) \in Symbol \ {0}
  <2>1. InvLocator(j) = PowAlpha(GfN - (e % GfN))
    BY <1>2 DEF InvLocator
  <2>2. InvLocator(j) = PowAlpha(f)
    BY <1>3, <1>4, <2>1
  <2>3. QED
    BY <1>4, <2>2, PowIs
<1>7. CASE e = 0
  <2>1. f = GfN
    BY <1>1, <1>4, <1>7
  <2>2. Locator(j) = 1 /\ InvLocator(j) = 1
    BY <1>1, <1>5, <1>6, <1>7, <2>1, PowIs
  <2>3. GfMul[1][1] = 1
    BY <1>1, MulLaws
  <2>4. QED
    BY <1>1, <2>2, <2>3
<1>8. CASE e # 0
  <2>1. f \in 0..(GfN - 1) /\ f \in 0..(2 * GfN - 1) /\ e \in 0..(2 * GfN - 1)
        /\ f < GfN /\ e < GfN /\ GfN \in 0..(2 * GfN - 1) /\ GfN \in GfN..(2 * GfN - 1)
        /\ GfN - GfN = 0
    BY <1>1, <1>4, <1>8
  <2>2. InvLocator(j) = GfExp[f]
    BY <1>6, <2>1, PowIs
  <2>3. GfLog[GfExp[e]] = e /\ GfLog[GfExp[f]] = f
    BY <2>1, LogOfExp
  <2>4. GfExp[GfN] = 1
    <3>1. GfExp[GfN] = GfExp[GfN - GfN]
      BY <2>1, LogOfExp
    <3>2. QED
      BY <1>1, <2>1, <3>1
  <2>5. GfMul[Locator(j)][InvLocator(j)] = GfExp[GfLog[Locator(j)] + GfLog[InvLocator(j)]]
    BY <1>5, <1>6, MulIs
  <2>6. GfLog[Locator(j)] = e /\ GfLog[InvLocator(j)] = f
    BY <1>5, <2>2, <2>3
  <2>7. QED
    BY <1>4, <1>5, <1>6, <2>4, <2>5, <2>6
<1>9. QED
  BY <1>7, <1>8

LEMMA PairIs ==
  ASSUME NEW X \in Symbol
  PROVE  /\ <<1, X>> \in Seq(Symbol) /\ Len(<<1, X>>) = 2
         /\ Up(<<1, X>>)[0] = 1 /\ Up(<<1, X>>)[1] = X
<1>1. 1 \in Symbol
  BY CodeFacts
<1>2. <<1, X>> \in Seq(Symbol) /\ Len(<<1, X>>) = 2 /\ <<1, X>>[0 + 1] = 1 /\ <<1, X>>[1 + 1] = X
  BY <1>1
<1>3. Coeff(<<1, X>>, 0) = 1 /\ Coeff(<<1, X>>, 1) = X
  BY <1>2 DEF Coeff
<1>4. QED
  BY <1>2, <1>3, UpIs

\* 1 - X x has the root 1/X.
LEMMA PairRoot ==
  ASSUME NEW X \in Symbol, NEW x \in Symbol, GfMul[X][x] = 1
  PROVE  Eval(<<1, X>>, x) = 0
<1> DEFINE p == <<1, X>>
<1>1. p \in Seq(Symbol) /\ Len(p) = 2 /\ Up(p)[0] = 1 /\ Up(p)[1] = X
  BY PairIs
<1> HIDE DEF p
<1>2. Eval(p, x) = Val(Up(p), 2, x) /\ Up(p) \in Coeffs
  BY <1>1, EvalIs, UpIs
<1> DEFINE c == Up(p)
           d == Down(c)
<1>3. /\ c \in Coeffs /\ c[0] = 1 /\ c[1] = X /\ d \in Coeffs /\ d[0] = c[1]
      /\ Down(d) \in Coeffs
  <2>1. \A k \in Nat : d[k] = c[k + 1]
    BY <1>2, DownIs
  <2>2. d[0] = c[1]
    BY <2>1
  <2>3. QED
    BY <1>1, <1>2, <2>2, DownIs
<1> HIDE DEF c, d
<1>4. Val(c, 2, x) = GfAdd[GfMul[Val(Down(c), 1, x)][x]][c[0]]
  <2>1. PICK n \in Nat : n = 1 /\ n + 1 = 2
    OBVIOUS
  <2>2. Val(c, n + 1, x) = GfAdd[GfMul[Val(Down(c), n, x)][x]][c[0]]
    BY <1>3, ValNext
  <2>3. QED
    BY <2>1, <2>2
<1>5. Val(d, 1, x) = GfAdd[GfMul[Val(Down(d), 0, x)][x]][d[0]]
  <2>1. PICK n \in Nat : n = 0 /\ n + 1 = 1
    OBVIOUS
  <2>2. Val(d, n + 1, x) = GfAdd[GfMul[Val(Down(d), n, x)][x]][d[0]]
    BY <1>3, ValNext
  <2>3. QED
    BY <2>1, <2>2
<1>6. Val(Down(d), 0, x) = 0 /\ GfMul[0][x] = 0 /\ GfAdd[0][X] = X
  BY <1>3, ValStart, MulLaws, AddLaws
<1>7. Val(d, 1, x) = X
  BY <1>3, <1>5, <1>6
<1>8. GfAdd[1][1] = 0
  BY CodeFacts, AddLaws
<1>9. Val(c, 2, x) = 0
  BY <1>3, <1>4, <1>7, <1>8 DEF d
<1>10. QED
  BY <1>2, <1>9 DEF c, p

LEMMA OneIs ==
  /\ <<1>> \in Seq(Symbol) /\ Len(<<1>>) = 1 /\ Up(<<1>>)[0] = 1 /\ EndsAt(Up(<<1>>), 1)
<1>1. <<1>> \in Seq(Symbol) /\ Len(<<1>>) = 1
  BY CodeFacts
<1>2. Coeff(<<1>>, 0) = 1
  BY <1>1 DEF Coeff
<1>3. QED
  BY <1>1, <1>2, UpIs

\* Gamma's recursion: a factor for each flagged symbol.
Grown(p, j, F) == IF j \in F THEN Times(p, <<1, Locator(j)>>, Len(p) + 1) ELSE p
GrownTo(p, j, F) ==
    /\ p \in Seq(Symbol) /\ Len(p) = Cardinality(F \cap (1..j)) + 1 /\ Up(p)[0] = 1
    /\ \A i \in F \cap (1..j) : Eval(p, InvLocator(i)) = 0

LEMMA GrownTyped ==
  ASSUME NEW F \in SUBSET Pos, NEW j \in Pos, NEW p \in Seq(Symbol)
  PROVE  Grown(p, j, F) \in Seq(Symbol)
<1>1. CASE j \in F
  <2>1. PICK X \in Symbol, n \in Nat : X = Locator(j) /\ n = Len(p) + 1
    <3>1. Len(p) \in Nat /\ Locator(j) \in Symbol
      BY LocatorIs, LenProperties
    <3>2. QED
      BY <3>1
  <2>2. Times(p, <<1, X>>, n) \in Seq(Symbol)
    <3>1. <<1, X>> \in Seq(Symbol)
      BY PairIs
    <3>2. QED
      BY <3>1, TimesIs
  <2>3. QED
    BY <1>1, <2>1, <2>2 DEF Grown
<1>2. CASE j \notin F
  BY <1>2 DEF Grown
<1>3. QED
  BY <1>1, <1>2

LEMMA GrownStep ==
  ASSUME NEW F \in SUBSET Pos, NEW j \in Pos, NEW p, GrownTo(p, j - 1, F)
  PROVE  GrownTo(Grown(p, j, F), j, F)
<1>1. /\ p \in Seq(Symbol) /\ Len(p) = Cardinality(F \cap (1..(j - 1))) + 1 /\ Up(p)[0] = 1
      /\ \A i \in F \cap (1..(j - 1)) : Eval(p, InvLocator(i)) = 0
  BY DEF GrownTo
<1>2. RsN \in Nat /\ Pos = 1..RsN /\ j \in Nat
  BY CodeFacts
<1>3. CASE j \in F
  <2> DEFINE q == <<1, Locator(j)>>
             t == Times(p, q, Len(p) + 1)
  <2>1. /\ q \in Seq(Symbol) /\ Len(q) = 2 /\ Len(p) \in Nat /\ Up(q)[0] = 1
        /\ Locator(j) \in Symbol /\ InvLocator(j) \in Symbol
    BY <1>1, LocatorIs, PairIs, LenProperties
  <2>2. Eval(q, InvLocator(j)) = 0
    BY <2>1, LocatorIs, PairRoot
  <2> HIDE DEF q
  <2>3. t \in Seq(Symbol) /\ Len(t) = Len(p) + 1
    <3>1. PICK n \in Nat : n = Len(p) + 1
      BY <2>1
    <3>2. Times(p, q, n) \in Seq(Symbol) /\ Len(Times(p, q, n)) = n
      BY <1>1, <2>1, TimesIs
    <3>3. QED
      BY <3>1, <3>2
  <2>4. ASSUME NEW x \in Symbol PROVE Eval(t, x) = GfMul[Eval(p, x)][Eval(q, x)]
    <3>1. PICK n \in Nat : n = Len(p) + 1 /\ n + 1 = Len(p) + Len(q)
      BY <2>1
    <3>2. Len(q) > 0
      BY <2>1
    <3>3. Eval(Times(p, q, n), x) = GfMul[Eval(p, x)][Eval(q, x)]
      BY <1>1, <2>1, <3>1, <3>2, EvalTimes
    <3>4. QED
      BY <3>1, <3>3
  <2>5. ASSUME NEW i \in F \cap (1..j) PROVE Eval(t, InvLocator(i)) = 0
    <3>1. i \in Pos /\ (i = j \/ i \in F \cap (1..(j - 1)))
      BY <1>2
    <3>2. PICK x \in Symbol : x = InvLocator(i)
      BY <3>1, LocatorIs
    <3>3. PICK y \in Symbol, z \in Symbol : y = Eval(p, x) /\ z = Eval(q, x)
      BY <1>1, <2>1, EvalIs
    <3>4. Eval(t, x) = GfMul[y][z]
      BY <2>4, <3>3
    <3>5. y = 0 \/ z = 0
      BY <1>1, <2>2, <3>1, <3>2, <3>3
    <3>6. GfMul[y][0] = 0 /\ GfMul[0][z] = 0
      BY MulLaws
    <3>7. QED
      BY <3>2, <3>4, <3>5, <3>6
  <2>6. Cardinality(F \cap (1..j)) = Cardinality(F \cap (1..(j - 1))) + 1
    <3>1. IsFiniteSet(F \cap (1..(j - 1)))
      <4>1. IsFiniteSet(1..(j - 1))
        <5>1. 1 \in Int /\ j - 1 \in Int
          BY <1>2
        <5>2. QED
          BY <5>1, FS_Interval
      <4>2. QED
        BY <4>1, FS_Subset
    <3>2. F \cap (1..j) = (F \cap (1..(j - 1))) \cup {j} /\ j \notin F \cap (1..(j - 1))
      BY <1>2, <1>3
    <3>3. QED
      BY <3>1, <3>2, FS_AddElement
  <2>7. Grown(p, j, F) = t
    BY <1>3 DEF Grown, q
  <2> HIDE DEF t
  <2>8. Len(t) = Cardinality(F \cap (1..j)) + 1
    BY <1>1, <2>3, <2>6
  <2>9. Up(t)[0] = 1
    <3>1. PICK n \in Nat : n = Len(p) + 1 /\ n > 0
      BY <2>1
    <3>2. Up(Times(p, q, n))[0] = GfMul[1][1]
      BY <1>1, <2>1, <3>1, TimesStart
    <3>3. GfMul[1][1] = 1
      BY MulLaws, CodeFacts
    <3>4. QED
      BY <3>1, <3>2, <3>3 DEF t
  <2>10. QED
    BY <2>3, <2>5, <2>7, <2>8, <2>9 DEF GrownTo
<1>4. CASE j \notin F
  <2>1. F \cap (1..j) = F \cap (1..(j - 1))
    BY <1>2, <1>4
  <2>2. Grown(p, j, F) = p
    BY <1>4 DEF Grown
  <2>3. QED
    BY <1>1, <2>1, <2>2 DEF GrownTo
<1>5. QED
  BY <1>3, <1>4

\* Gamma has a root at each flagged symbol, and no factor besides.
LEMMA GammaIs ==
  ASSUME NEW F \in SUBSET Pos
  PROVE  /\ Gamma(F) \in Seq(Symbol) /\ Len(Gamma(F)) = Cardinality(F) + 1 /\ Up(Gamma(F))[0] = 1
         /\ \A j \in F : Eval(Gamma(F), InvLocator(j)) = 0
<1> DEFINE S       == Seq(Symbol)
           next    == [x \in S \X (1..RsN) |-> Grown(x[1], x[2], F)]
           Fits(g) == g = [j \in 0..RsN |-> IF j = 0 THEN <<1>>
                             ELSE IF j \in F
                                  THEN Times(g[j - 1], <<1, Locator(j)>>, Len(g[j - 1]) + 1)
                                  ELSE g[j - 1]]
<1>1. RsN \in Nat /\ Pos = 1..RsN /\ 1 \in Symbol
  BY CodeFacts
<1>2. next \in [S \X (1..RsN) -> S]
  <2>1. ASSUME NEW x \in S \X (1..RsN) PROVE Grown(x[1], x[2], F) \in S
    <3>1. x[1] \in S /\ x[2] \in Pos
      BY <1>1
    <3>2. QED
      BY <3>1, GrownTyped
  <2>2. QED
    BY <2>1
<1>3. PICK f : Runs(f, S, RsN, <<1>>, next)
  <2>1. <<1>> \in S
    BY <1>1
  <2> HIDE DEF next, S
  <2>2. QED
    BY <1>1, <1>2, <2>1, Recursion
<1>4. f \in [0..RsN -> S] /\ f[0] = <<1>> /\ \A k \in 1..RsN : f[k] = next[<<f[k - 1], k>>]
  BY <1>3 DEF Runs
<1>5. ASSUME NEW k \in 1..RsN PROVE f[k] = Grown(f[k - 1], k, F)
  <2>1. <<f[k - 1], k>> \in S \X (1..RsN)
    BY <1>1, <1>4
  <2>2. QED
    BY <1>4, <2>1
<1> HIDE DEF next, S
<1>6. Fits(f)
  <2>1. ASSUME NEW k \in 0..RsN
        PROVE  f[k] = IF k = 0 THEN <<1>>
                      ELSE IF k \in F
                           THEN Times(f[k - 1], <<1, Locator(k)>>, Len(f[k - 1]) + 1)
                           ELSE f[k - 1]
    <3>1. k = 0 \/ (k \in 1..RsN /\ k # 0)
      BY <1>1
    <3>2. QED
      BY <1>4, <1>5, <3>1 DEF Grown
  <2>2. f = [k \in 0..RsN |-> f[k]]
    BY <1>4
  <2>3. QED
    BY <2>1, <2>2
<1>7. ASSUME NEW g, Fits(g) PROVE g = f
  <2>1. /\ g = [k \in 0..RsN |-> g[k]]
        /\ \A k \in 0..RsN : g[k] = IF k = 0 THEN <<1>>
                      ELSE IF k \in F
                           THEN Times(g[k - 1], <<1, Locator(k)>>, Len(g[k - 1]) + 1)
                           ELSE g[k - 1]
    BY <1>7, Zenon
  <2>2. 0 \in 0..RsN /\ \A k \in 1..RsN : k \in 0..RsN /\ k # 0
    BY <1>1
  <2>3. ASSUME NEW k \in 1..RsN, g[k - 1] = f[k - 1] PROVE g[k] = f[k]
    <3>1. g[k] = Grown(g[k - 1], k, F)
      BY <2>1, <2>2, Zenon DEF Grown
    <3>2. QED
      BY <1>5, <2>3, <3>1
  <2>4. g[0] = f[0]
    BY <1>4, <2>1, <2>2, Zenon
  <2>5. RunTo(f, RsN) /\ RunTo(g, RsN) /\ StepsAlike(f, g, RsN)
    BY <1>4, <2>1, <2>3, <2>4 DEF RunTo, StepsAlike
  <2>6. QED
    BY <1>1, <2>5, RunsAgree, Zenon
<1>8. Gamma(F) = (CHOOSE g : Fits(g))[RsN]
  BY DEF Gamma
<1>9. (CHOOSE g : Fits(g)) = f
  <2> HIDE DEF Fits
  <2>1. QED
    BY <1>6, <1>7
<1>10. Gamma(F) = f[RsN]
  BY <1>8, <1>9
<1> HIDE DEF Fits
<1> DEFINE Z == {j \in 0..RsN : GrownTo(f[j], j, F)}
<1>11. 0 \in Z
  <2>1. F \cap (1..0) = {}
    OBVIOUS
  <2>2. Cardinality(F \cap (1..0)) = 0
    BY <2>1, FS_EmptySet
  <2>3. <<1>> \in Seq(Symbol) /\ Len(<<1>>) = 1 /\ Up(<<1>>)[0] = 1
    BY OneIs
  <2>4. GrownTo(f[0], 0, F)
    BY <1>4, <2>1, <2>2, <2>3 DEF GrownTo
  <2>5. QED
    BY <1>1, <2>4
<1>12. ASSUME NEW j \in 0..(RsN - 1), j \in Z PROVE j + 1 \in Z
  <2>1. PICK k \in 1..RsN : k = j + 1 /\ k - 1 = j
    BY <1>1
  <2>2. GrownTo(f[k - 1], k - 1, F)
    BY <1>12, <2>1
  <2>3. GrownTo(Grown(f[k - 1], k, F), k, F)
    BY <1>1, <2>2, GrownStep
  <2>4. QED
    BY <1>1, <1>5, <2>1, <2>3
<1>13. GrownTo(f[RsN], RsN, F)
  <2>1. \A j \in 0..RsN : j \in Z
    <3> HIDE DEF Z
    <3>1. QED
      BY <1>1, <1>11, <1>12, Climb
  <2>2. QED
    BY <1>1, <2>1
<1>14. F \cap (1..RsN) = F
  BY <1>1
<1>15. QED
  BY <1>10, <1>13, <1>14 DEF GrownTo
-----------------------------------------------------------------------------
(* The decoder.                                                            *)

LEMMA CoeffTyped ==
  ASSUME NEW p \in Seq(Symbol), NEW k \in Nat
  PROVE  Coeff(p, k) \in Symbol
<1>1. Up(p) \in Coeffs /\ Up(p)[k] = Coeff(p, k)
  BY UpIs
<1>2. QED
  BY <1>1 DEF Coeffs

LEMMA HornerTyped ==
  ASSUME NEW w \in Seq(Symbol), NEW x \in Symbol
  PROVE  Horner(w, x) \in Symbol
<1>1. PICK h : Evals(h, w, x) /\ Horner(w, x) = h[Len(w)]
  BY HornerRuns
<1>2. Len(w) \in Nat
  BY LenProperties
<1>3. QED
  BY <1>1, <1>2 DEF Evals

LEMMA SyndromesTyped ==
  ASSUME NEW w \in Seq(Symbol)
  PROVE  Syndromes(w) \in Seq(Symbol) /\ Len(Syndromes(w)) = Parity
<1> DEFINE c == [i \in 0..(Parity - 1) |-> Horner(w, PowAlpha(i + 1))]
<1>1. c \in [0..(Parity - 1) -> Symbol]
  <2>1. ASSUME NEW i \in 0..(Parity - 1) PROVE Horner(w, PowAlpha(i + 1)) \in Symbol
    <3>1. PICK e \in Nat : e = i + 1
      BY CodeFacts
    <3>2. PowAlpha(e) \in Symbol
      BY PowIs
    <3>3. Horner(w, PowAlpha(e)) \in Symbol
      BY <3>2, HornerTyped
    <3>4. QED
      BY <3>1, <3>3
  <2>2. QED
    BY <2>1
<1>2. Syndromes(w) = Poly(Parity, c)
  BY DEF Syndromes
<1> HIDE DEF c
<1>3. QED
  BY <1>1, <1>2, CodeFacts, PolyIs

LEMMA MendedTyped ==
  ASSUME NEW lam \in Seq(Symbol), NEW B \in Seq(Symbol), NEW coef \in Symbol, NEW m \in Nat
  PROVE  Mended(lam, coef, B, m) \in Seq(Symbol) /\ Len(Mended(lam, coef, B, m)) = Parity + 1
<1> DEFINE c == [k \in 0..Parity |->
                   GfAdd[Coeff(lam, k)][IF k < m THEN 0 ELSE GfMul[coef][Coeff(B, k - m)]]]
<1>1. PICK n \in Nat : n = Parity + 1 /\ n - 1 = Parity
  BY CodeFacts
<1>2. ASSUME NEW k \in 0..Parity PROVE c[k] \in Symbol
  <2>1. k \in Nat /\ 0 \in Symbol
    BY CodeFacts
  <2>2. Coeff(lam, k) \in Symbol
    BY <2>1, CoeffTyped
  <2>3. (IF k < m THEN 0 ELSE GfMul[coef][Coeff(B, k - m)]) \in Symbol
    <3>1. CASE k < m
      BY <2>1, <3>1
    <3>2. CASE ~(k < m)
      <4>1. k - m \in Nat
        BY <2>1, <3>2
      <4>2. Coeff(B, k - m) \in Symbol
        BY <4>1, CoeffTyped
      <4>3. GfMul[coef][Coeff(B, k - m)] \in Symbol
        BY <4>2, MulIs
      <4>4. QED
        BY <3>2, <4>3
    <3>3. QED
      BY <3>1, <3>2
  <2>4. QED
    BY <2>2, <2>3, AddLaws
<1>3. c \in [0..(n - 1) -> Symbol]
  BY <1>1, <1>2
<1>4. Mended(lam, coef, B, m) = Poly(n, c)
  BY <1>1 DEF Mended
<1> HIDE DEF c
<1>5. Poly(n, c) \in Seq(Symbol) /\ Len(Poly(n, c)) = n
  BY <1>3, PolyIs
<1>6. QED
  BY <1>1, <1>4, <1>5

\* What Berlekamp-Massey keeps from one iteration to the next.
Polys   == {p \in Seq(Symbol) : Len(p) > 0}
MStates == [lam : Polys, B : Polys, L : Nat, b : Symbol \ {0}, m : Nat]
MStart  == [lam |-> <<1>>, B |-> <<1>>, L |-> 0, b |-> 1, m |-> 1]

LEMMA StartTyped == MStart \in MStates
<1>1. <<1>> \in Seq(Symbol) /\ Len(<<1>>) = 1 /\ 1 \in Symbol \ {0}
  BY CodeFacts
<1>2. <<1>> \in Polys
  BY <1>1 DEF Polys
<1>3. QED
  BY <1>1, <1>2 DEF MStart, MStates

LEMMA DiscrepancyTyped ==
  ASSUME NEW T \in Seq(Symbol), Len(T) = Parity, NEW s \in MStates, NEW n \in 0..(Parity - 1),
         s.L <= n
  PROVE  Discrepancy(T, s, n) \in Symbol
<1> DEFINE c == [i \in 0..s.L |-> GfMul[Coeff(s.lam, i)][T[n - i + 1]]]
<1>1. s.L \in Nat /\ s.lam \in Seq(Symbol) /\ Parity \in Nat
  BY CodeFacts DEF MStates, Polys
<1>2. ASSUME NEW i \in 0..s.L PROVE c[i] \in Symbol
  <2>1. i \in Nat /\ n - i + 1 \in 1..Len(T)
    BY <1>1
  <2>2. Coeff(s.lam, i) \in Symbol
    BY <1>1, <2>1, CoeffTyped
  <2>3. T[n - i + 1] \in Symbol
    BY <2>1, ElementOfSeq
  <2>4. QED
    BY <2>2, <2>3, MulIs
<1>3. c \in [0..s.L -> Symbol]
  BY <1>2
<1>4. Discrepancy(T, s, n) = Sum(s.L, c)
  BY DEF Discrepancy
<1> HIDE DEF c
<1>5. QED
  BY <1>1, <1>3, <1>4, SumTyped

LEMMA RevisedTyped ==
  ASSUME NEW ne \in 0..Parity, NEW it \in Nat, NEW s \in MStates, s.L <= it, NEW d \in Symbol
  PROVE  Revised(s, ne + it, ne, d) \in MStates /\ Revised(s, ne + it, ne, d).L <= it + 1
<1> DEFINE n == ne + it
           lam == Mended(s.lam, GfDiv(d, s.b), s.B, s.m)
<1>1. /\ s.lam \in Polys /\ s.B \in Polys /\ s.L \in Nat /\ s.b \in Symbol \ {0} /\ s.m \in Nat
      /\ s = [lam |-> s.lam, B |-> s.B, L |-> s.L, b |-> s.b, m |-> s.m]
  BY DEF MStates
<1>2. Iteration(n, ne) = it
  BY CodeFacts DEF Iteration
<1>3. CASE d = 0
  <2>1. Revised(s, n, ne, d) = [lam |-> s.lam, B |-> s.B, L |-> s.L, b |-> s.b, m |-> s.m + 1]
    BY <1>1, <1>3 DEF Revised
  <2>2. s.m + 1 \in Nat /\ s.L <= it + 1
    BY <1>1
  <2>3. QED
    BY <1>1, <2>1, <2>2 DEF MStates
<1>4. CASE d # 0
  <2>1. lam \in Polys
    <3>1. GfDiv(d, s.b) \in Symbol /\ s.lam \in Seq(Symbol) /\ s.B \in Seq(Symbol)
      BY <1>1, MulIs DEF Polys
    <3>2. PICK coef \in Symbol, p \in Seq(Symbol), q \in Seq(Symbol), m \in Nat :
             coef = GfDiv(d, s.b) /\ p = s.lam /\ q = s.B /\ m = s.m
      BY <1>1, <3>1
    <3>3. Mended(p, coef, q, m) \in Seq(Symbol) /\ Len(Mended(p, coef, q, m)) = Parity + 1
      BY MendedTyped
    <3>4. Parity + 1 > 0
      BY CodeFacts
    <3>5. Mended(p, coef, q, m) \in Polys
      BY <3>3, <3>4 DEF Polys
    <3>6. QED
      BY <3>2, <3>5
  <2> HIDE DEF lam
  <2>2. CASE 2 * s.L <= it
    <3>1. Revised(s, n, ne, d) = [lam |-> lam, B |-> s.lam, L |-> it + 1 - s.L, b |-> d, m |-> 1]
      BY <1>2, <1>4, <2>2 DEF Revised, lam
    <3>2. it + 1 - s.L \in Nat /\ it + 1 - s.L <= it + 1 /\ d \in Symbol \ {0}
      BY <1>1, <1>4, <2>2
    <3>3. QED
      BY <1>1, <2>1, <3>1, <3>2 DEF MStates
  <2>3. CASE ~(2 * s.L <= it)
    <3>1. Revised(s, n, ne, d) = [s EXCEPT !.lam = lam, !.m = @ + 1]
      BY <1>2, <1>4, <2>3 DEF Revised, lam
    <3>2. Revised(s, n, ne, d) = [lam |-> lam, B |-> s.B, L |-> s.L, b |-> s.b, m |-> s.m + 1]
      BY <1>1, <3>1
    <3>3. s.m + 1 \in Nat /\ s.L <= it + 1
      BY <1>1
    <3>4. QED
      BY <1>1, <2>1, <3>2, <3>3 DEF MStates
  <2>4. QED
    BY <2>2, <2>3
<1>5. QED
  BY <1>3, <1>4

\* Each iteration's syndromes are there, and the state it leaves is a state.
Iterated(s, T, ne, it) == Revised(s, ne + it - 1, ne, Discrepancy(T, s, ne + it - 1))

LEMMA IteratedTyped ==
  ASSUME NEW T \in Seq(Symbol), Len(T) = Parity, NEW ne \in 0..Parity,
         NEW it \in 1..(Parity - ne), NEW s \in MStates, s.L <= it - 1
  PROVE  Iterated(s, T, ne, it) \in MStates /\ Iterated(s, T, ne, it).L <= it
<1>1. Parity \in Nat
  BY CodeFacts
<1>2. PICK i \in Nat, n \in 0..(Parity - 1) : /\ i = it - 1 /\ n = ne + i /\ n = ne + it - 1
                                             /\ i + 1 = it /\ i <= n
  <2>1. it - 1 \in Nat /\ ne + (it - 1) \in 0..(Parity - 1) /\ it - 1 <= ne + (it - 1)
        /\ ne + (it - 1) = ne + it - 1 /\ (it - 1) + 1 = it
    BY <1>1
  <2>2. QED
    BY <2>1
<1>3. s.L \in Nat
  BY DEF MStates
<1>4. s.L <= i /\ s.L <= n
  BY <1>2, <1>3
<1>5. PICK d \in Symbol : d = Discrepancy(T, s, n)
  BY <1>4, DiscrepancyTyped
<1>6. Revised(s, ne + i, ne, d) \in MStates /\ Revised(s, ne + i, ne, d).L <= i + 1
  BY <1>4, RevisedTyped
<1>7. Iterated(s, T, ne, it) = Revised(s, ne + i, ne, d)
  BY <1>2, <1>5 DEF Iterated
<1>8. QED
  BY <1>2, <1>6, <1>7

\* The states of the whole of it, one for each iteration.
MasseyRun(f, T, ne) ==
    /\ f \in [0..(Parity - ne) -> MStates] /\ f[0] = MStart
    /\ \A k \in 1..(Parity - ne) : f[k] = Iterated(f[k - 1], T, ne, k)
    /\ \A k \in 0..(Parity - ne) : f[k].L <= k

LEMMA MasseyRuns ==
  ASSUME NEW T \in Seq(Symbol), Len(T) = Parity, NEW ne \in 0..Parity
  PROVE  \E f : MasseyRun(f, T, ne) /\ Massey(T, ne) = f[Parity - ne]
<1> DEFINE N       == Parity - ne
           next    == [x \in MStates \X (1..N) |->
                         IF x[1].L <= x[2] - 1 THEN Iterated(x[1], T, ne, x[2]) ELSE x[1]]
           Fits(g) == g = [it \in 0..N |-> IF it = 0 THEN MStart
                             ELSE Revised(g[it - 1], ne + it - 1, ne,
                                          Discrepancy(T, g[it - 1], ne + it - 1))]
<1>1. N \in Nat
  BY CodeFacts
<1>2. next \in [MStates \X (1..N) -> MStates]
  <2>1. ASSUME NEW x \in MStates \X (1..N)
        PROVE  (IF x[1].L <= x[2] - 1 THEN Iterated(x[1], T, ne, x[2]) ELSE x[1]) \in MStates
    <3>1. PICK s \in MStates, it \in 1..(Parity - ne) : s = x[1] /\ it = x[2]
      OBVIOUS
    <3>2. CASE s.L <= it - 1
      <4>1. Iterated(s, T, ne, it) \in MStates
        BY <3>2, IteratedTyped
      <4>2. QED
        BY <3>1, <3>2, <4>1
    <3>3. CASE ~(s.L <= it - 1)
      BY <3>1, <3>3
    <3>4. QED
      BY <3>2, <3>3
  <2>2. QED
    BY <2>1
<1>3. PICK f : Runs(f, MStates, N, MStart, next)
  <2> HIDE DEF next
  <2>1. QED
    BY <1>1, <1>2, StartTyped, Recursion
<1>4. f \in [0..N -> MStates] /\ f[0] = MStart /\ \A k \in 1..N : f[k] = next[<<f[k - 1], k>>]
  BY <1>3 DEF Runs
<1>5. ASSUME NEW k \in 1..N
      PROVE  f[k] = IF f[k - 1].L <= k - 1 THEN Iterated(f[k - 1], T, ne, k) ELSE f[k - 1]
  <2>1. <<f[k - 1], k>> \in MStates \X (1..N)
    BY <1>1, <1>4
  <2>2. QED
    BY <1>4, <2>1
<1> HIDE DEF next
<1> DEFINE Z == {k \in 0..N : f[k].L <= k}
<1>6. \A k \in 0..N : k \in Z
  <2>1. 0 \in Z
    BY <1>1, <1>4 DEF MStart
  <2>2. ASSUME NEW k \in 0..(N - 1), k \in Z PROVE k + 1 \in Z
    <3>1. PICK j \in 1..N : j = k + 1 /\ j - 1 = k
      BY <1>1
    <3>2. f[j - 1] \in MStates /\ f[j - 1].L <= j - 1 /\ j \in 1..(Parity - ne)
      BY <1>1, <1>4, <2>2, <3>1
    <3>3. PICK s \in MStates : s = f[j - 1]
      BY <3>2
    <3>4. Iterated(s, T, ne, j).L <= j
      BY <3>2, <3>3, IteratedTyped
    <3>5. f[j].L <= j
      BY <1>5, <3>2, <3>3, <3>4
    <3>6. QED
      BY <3>1, <3>5
  <2> HIDE DEF Z
  <2>3. QED
    BY <1>1, <2>1, <2>2, Climb
<1>7. ASSUME NEW k \in 1..N PROVE f[k] = Iterated(f[k - 1], T, ne, k)
  <2>1. k - 1 \in 0..N
    BY <1>1
  <2>2. f[k - 1].L <= k - 1
    BY <1>6, <2>1
  <2>3. QED
    BY <1>5, <2>2
<1>6a. \A k \in 0..N : f[k].L <= k
  BY <1>6
<1> HIDE DEF Z
<1>8. Fits(f)
  <2>1. ASSUME NEW k \in 0..N
        PROVE  f[k] = IF k = 0 THEN MStart
                      ELSE Revised(f[k - 1], ne + k - 1, ne, Discrepancy(T, f[k - 1], ne + k - 1))
    <3>1. k = 0 \/ (k \in 1..N /\ k # 0)
      BY <1>1
    <3>2. QED
      BY <1>4, <1>7, <3>1 DEF Iterated
  <2>2. f = [k \in 0..N |-> f[k]]
    BY <1>4
  <2>3. QED
    BY <2>1, <2>2
<1>9. ASSUME NEW g, Fits(g) PROVE g = f
  <2>1. /\ g = [k \in 0..N |-> g[k]]
        /\ \A k \in 0..N : g[k] = IF k = 0 THEN MStart
              ELSE Revised(g[k - 1], ne + k - 1, ne, Discrepancy(T, g[k - 1], ne + k - 1))
    BY <1>9, Zenon
  <2>2. 0 \in 0..N /\ \A k \in 1..N : k \in 0..N /\ k # 0
    BY <1>1
  <2>3. ASSUME NEW k \in 1..N, g[k - 1] = f[k - 1] PROVE g[k] = f[k]
    <3>1. g[k] = Iterated(g[k - 1], T, ne, k)
      BY <2>1, <2>2, Zenon DEF Iterated
    <3>2. QED
      BY <1>7, <2>3, <3>1
  <2>4. g[0] = f[0]
    BY <1>4, <2>1, <2>2, Zenon
  <2>5. RunTo(f, N) /\ RunTo(g, N) /\ StepsAlike(f, g, N)
    BY <1>4, <2>1, <2>3, <2>4 DEF RunTo, StepsAlike
  <2> HIDE DEF N
  <2>6. QED
    BY <1>1, <2>5, RunsAgree, Zenon
<1>10. Massey(T, ne) = (CHOOSE g : Fits(g))[N]
  BY DEF Massey, MStart
<1>11. (CHOOSE g : Fits(g)) = f
  <2> HIDE DEF Fits
  <2>1. QED
    BY <1>8, <1>9
<1> HIDE DEF Fits
<1>12. Massey(T, ne) = f[N]
  BY <1>10, <1>11, Zenon
<1>13. MasseyRun(f, T, ne)
  BY <1>4, <1>6a, <1>7 DEF MasseyRun
<1>14. QED
  BY <1>12, <1>13

LEMMA MasseyIs ==
  ASSUME NEW T \in Seq(Symbol), Len(T) = Parity, NEW ne \in 0..Parity
  PROVE  Massey(T, ne) \in MStates
<1>1. PICK f : MasseyRun(f, T, ne) /\ Massey(T, ne) = f[Parity - ne]
  BY MasseyRuns
<1>2. Parity - ne \in 0..(Parity - ne)
  BY CodeFacts
<1>3. QED
  BY <1>1, <1>2 DEF MasseyRun

\* Words of the code.
RsWords == [Pos -> Symbol]

LEMMA WordIs ==
  ASSUME NEW w \in RsWords
  PROVE  w \in Seq(Symbol) /\ Len(w) = RsN /\ <<>> \o w = w
<1>1. w \in [1..RsN -> Symbol] /\ RsN \in Nat
  BY CodeFacts DEF RsWords
<1>2. w \in Seq(Symbol) /\ Len(w) = RsN
  BY <1>1, SymbolsAre
<1>3. QED
  BY <1>2, ConcatEmptySeq

\* The error locator as far as its length.
Trimmed(bm) == SubSeq(bm.lam \o [i \in 1..Parity |-> 0], 1, bm.L + 1)

LEMMA TrimmedIs ==
  ASSUME NEW bm \in MStates, bm.L <= Parity
  PROVE  /\ Trimmed(bm) \in Seq(Symbol) /\ Len(Trimmed(bm)) = bm.L + 1
         /\ \A k \in 0..bm.L : Up(Trimmed(bm))[k] = Up(bm.lam)[k]
<1> DEFINE zeros == [i \in 1..Parity |-> 0]
<1>1. bm.lam \in Seq(Symbol) /\ Len(bm.lam) > 0 /\ bm.L \in Nat /\ Parity \in Nat
  BY CodeFacts DEF MStates, Polys
<1>2. zeros \in Seq(Symbol) /\ Len(zeros) = Parity /\ \A i \in 1..Parity : zeros[i] = 0
  <2>1. zeros \in [1..Parity -> Symbol] /\ \A i \in 1..Parity : zeros[i] = 0
    BY CodeFacts
  <2> HIDE DEF zeros
  <2>2. QED
    BY <1>1, <2>1, SymbolsAre
<1>3. Trimmed(bm) = SubSeq(bm.lam \o zeros, 1, bm.L + 1)
  BY DEF Trimmed
<1> HIDE DEF zeros
<1>4. PICK n \in Nat : n = Len(bm.lam) /\ n > 0 /\ bm.L + 1 <= n + Parity
  BY <1>1, LenProperties
<1>5. PICK z \in Seq(Symbol) :
         /\ z = bm.lam \o zeros /\ Len(z) = n + Parity
         /\ \A i \in 1..(n + Parity) : z[i] = IF i <= n THEN bm.lam[i] ELSE zeros[i - n]
  <2>1. PICK p \in Seq(Symbol), q \in Seq(Symbol), l \in Nat :
           p = bm.lam /\ q = zeros /\ Len(p) = n /\ Len(q) = l /\ l = Parity
    BY <1>1, <1>2, <1>4
  <2>2. /\ p \o q \in Seq(Symbol) /\ Len(p \o q) = Len(p) + Len(q)
        /\ \A i \in 1..(Len(p) + Len(q)) :
             (p \o q)[i] = IF i <= Len(p) THEN p[i] ELSE q[i - Len(p)]
    BY ConcatProperties
  <2>3. PICK r \in Seq(Symbol) : r = p \o q
    BY <2>2
  <2>4. r = bm.lam \o zeros
    BY <2>1, <2>3
  <2>5. Len(r) = n + Parity
    BY <2>1, <2>2, <2>3
  <2>6. \A i \in 1..(n + Parity) : r[i] = IF i <= n THEN p[i] ELSE q[i - n]
    BY <2>1, <2>2, <2>3
  <2>7. \A i \in 1..(n + Parity) : r[i] = IF i <= n THEN bm.lam[i] ELSE zeros[i - n]
    BY <2>1, <2>6
  <2>8. QED
    BY <2>4, <2>5, <2>7
<1>6. PICK k \in Nat : k = bm.L + 1 /\ 1 <= k
  BY <1>1
<1>7. \A i \in 1..k : z[i] \in Symbol
  <2>1. \A i \in 1..k : i \in 1..Len(z)
    BY <1>1, <1>4, <1>5, <1>6
  <2>2. QED
    BY <2>1, ElementOfSeq
<1>8. /\ SubSeq(z, 1, k) \in Seq(Symbol) /\ Len(SubSeq(z, 1, k)) = k
      /\ \A i \in 1..k : SubSeq(z, 1, k)[i] = z[i]
  <2>1. /\ SubSeq(z, 1, k) \in Seq(Symbol)
        /\ Len(SubSeq(z, 1, k)) = IF 1 <= k THEN k - 1 + 1 ELSE 0
        /\ \A i \in 1..(k - 1 + 1) : SubSeq(z, 1, k)[i] = z[1 + i - 1]
    BY <1>7, SubSeqProperties
  <2>2. k - 1 + 1 = k /\ \A i \in 1..k : 1 + i - 1 = i
    OBVIOUS
  <2>3. QED
    BY <1>6, <2>1, <2>2
<1>9. PICK t \in Seq(Symbol) : t = Trimmed(bm) /\ Len(t) = k /\ \A i \in 1..k : t[i] = z[i]
  BY <1>3, <1>5, <1>6, <1>8
<1>10. ASSUME NEW i \in 0..bm.L PROVE Up(t)[i] = Up(bm.lam)[i]
  <2>1. i \in Nat /\ i < k /\ i + 1 \in 1..k /\ i + 1 \in 1..(n + Parity)
    BY <1>1, <1>4, <1>6, SMTT(60)
  <2>2. Up(t)[i] = z[i + 1]
    <3>1. Up(t)[i] = Coeff(t, i)
      BY <2>1, UpIs
    <3>2. QED
      BY <1>9, <2>1, <3>1 DEF Coeff
  <2>3. Up(bm.lam)[i] = Coeff(bm.lam, i)
    BY <1>1, <2>1, UpIs
  <2>4. CASE i < n
    <3>1. i + 1 <= n
      BY <2>1, <2>4
    <3>2. z[i + 1] = bm.lam[i + 1]
      BY <1>5, <2>1, <3>1
    <3>3. QED
      BY <1>4, <2>2, <2>3, <2>4, <3>2 DEF Coeff
  <2>5. CASE ~(i < n)
    <3>1. ~(i + 1 <= n) /\ (i + 1) - n \in 1..Parity
      BY <1>1, <2>1, <2>5
    <3>2. z[i + 1] = 0
      BY <1>2, <1>5, <2>1, <3>1
    <3>3. QED
      BY <1>4, <2>2, <2>3, <2>5, <3>2 DEF Coeff
  <2>6. QED
    BY <2>4, <2>5
<1>11. QED
  BY <1>6, <1>9, <1>10

\* Psi: worth what Gamma and the error locator are worth together, and as long
\* as it should be.
LEMMA ErrataIs ==
  ASSUME NEW gam \in Seq(Symbol), NEW bm \in MStates, bm.L <= Parity
  PROVE  /\ Errata(gam, bm) \in Seq(Symbol) /\ Len(Errata(gam, bm)) = Len(gam) + bm.L
         /\ Errata(gam, bm) = Times(gam, Trimmed(bm), Len(gam) + bm.L)
         /\ \A x \in Symbol :
              Eval(Errata(gam, bm), x) = GfMul[Eval(gam, x)][Eval(Trimmed(bm), x)]
         /\ \A x \in Symbol : Eval(gam, x) = 0 => Eval(Errata(gam, bm), x) = 0
<1>1. bm.L \in Nat /\ Len(gam) \in Nat
  BY LenProperties DEF MStates
<1>2. PICK lam \in Seq(Symbol) : lam = Trimmed(bm) /\ Len(lam) = bm.L + 1
  BY TrimmedIs
<1>3. PICK n \in Nat : n = Len(gam) + bm.L /\ n + 1 = Len(gam) + Len(lam)
  <2>1. PICK a \in Nat, b \in Nat : a = Len(gam) /\ b = bm.L
    BY <1>1
  <2>2. Len(lam) = b + 1
    BY <1>2, <2>1
  <2>3. a + b \in Nat /\ (a + b) + 1 = a + (b + 1)
    OBVIOUS
  <2>4. QED
    BY <2>1, <2>2, <2>3
<1>4. Errata(gam, bm) = Times(gam, lam, n)
  BY <1>2, <1>3 DEF Errata, Trimmed
<1>5. Len(lam) > 0
  BY <1>1, <1>2
<1>6. Times(gam, lam, n) \in Seq(Symbol) /\ Len(Times(gam, lam, n)) = n
  BY TimesIs
<1>7. \A x \in Symbol : Eval(Times(gam, lam, n), x) = GfMul[Eval(gam, x)][Eval(lam, x)]
  BY <1>3, <1>5, EvalTimes
<1>8. ASSUME NEW x \in Symbol, Eval(gam, x) = 0 PROVE Eval(Times(gam, lam, n), x) = 0
  <2>1. Eval(Times(gam, lam, n), x) = GfMul[Eval(gam, x)][Eval(lam, x)]
    BY <1>7
  <2>2. PICK y \in Symbol : y = Eval(lam, x)
    BY EvalIs
  <2>3. GfMul[0][y] = 0
    BY MulLaws
  <2>4. QED
    BY <1>8, <2>1, <2>2, <2>3
<1>9. QED
  BY <1>2, <1>3, <1>4, <1>6, <1>7, <1>8

LEMMA DerivativeTyped ==
  ASSUME NEW psi \in Seq(Symbol), Len(psi) > 0
  PROVE  Derivative(psi) \in Seq(Symbol)
<1> DEFINE c == [k \in 0..(Len(psi) - 2) |-> IF k % 2 = 0 THEN psi[k + 2] ELSE 0]
<1>1. PICK n \in Nat : n = Len(psi) - 1 /\ n - 1 = Len(psi) - 2
  BY LenProperties
<1>2. ASSUME NEW k \in 0..(Len(psi) - 2) PROVE c[k] \in Symbol
  <2>1. k + 2 \in 1..Len(psi)
    BY LenProperties
  <2>2. psi[k + 2] \in Symbol
    BY <2>1, ElementOfSeq
  <2>3. 0 \in Symbol
    BY CodeFacts
  <2>4. QED
    BY <2>2, <2>3
<1>3. c \in [0..(n - 1) -> Symbol]
  BY <1>1, <1>2
<1>4. Derivative(psi) = Poly(n, c)
  BY <1>1 DEF Derivative
<1> HIDE DEF c
<1>5. QED
  BY <1>3, <1>4, PolyIs

\* Forney changes the roots and nothing else.
LEMMA CorrectedIs ==
  ASSUME NEW w \in RsWords, NEW omega \in Seq(Symbol), NEW dpsi \in Seq(Symbol),
         NEW roots \in SUBSET Pos
  PROVE  /\ Corrected(w, omega, dpsi, roots) \in RsWords
         /\ \A j \in Pos \ roots : Corrected(w, omega, dpsi, roots)[j] = w[j]
<1> DEFINE f == [j \in Pos |->
                   IF j \notin roots \/ Eval(dpsi, InvLocator(j)) = 0 THEN w[j]
                   ELSE GfAdd[w[j]][GfDiv(Eval(omega, InvLocator(j)),
                                          Eval(dpsi, InvLocator(j)))]]
<1>1. ASSUME NEW j \in Pos PROVE f[j] \in Symbol
  <2>1. w[j] \in Symbol
    BY DEF RsWords
  <2>2. CASE j \notin roots \/ Eval(dpsi, InvLocator(j)) = 0
    BY <2>1, <2>2
  <2>3. CASE ~(j \notin roots \/ Eval(dpsi, InvLocator(j)) = 0)
    <3>1. PICK x \in Symbol : x = InvLocator(j)
      BY LocatorIs
    <3>2. PICK y \in Symbol, z \in Symbol : y = Eval(omega, x) /\ z = Eval(dpsi, x)
      BY EvalIs
    <3>3. z \in Symbol \ {0}
      BY <2>3, <3>1, <3>2
    <3>4. PICK q \in Symbol : q = GfDiv(y, z)
      BY <3>3, MulIs
    <3>5. GfAdd[w[j]][q] \in Symbol
      BY <2>1, AddLaws
    <3>6. f[j] = GfAdd[w[j]][q]
      BY <2>3, <3>1, <3>2, <3>4
    <3>7. QED
      BY <3>5, <3>6
  <2>4. QED
    BY <2>2, <2>3
<1>2. f \in RsWords /\ \A j \in Pos \ roots : f[j] = w[j]
  BY <1>1 DEF RsWords
<1>3. Corrected(w, omega, dpsi, roots) = <<>> \o f
  BY DEF Corrected
<1> HIDE DEF f
<1>4. QED
  BY <1>2, <1>3, WordIs

\* What the decoder may say of a word w with the flags F.
Results == [ret : -1..RsN, word : RsWords, used : 0..Parity]
Honest(d, w, F) ==
    /\ d \in Results /\ (d.ret < 0 => d.word = w)
    /\ d.ret >= 0 =>
         /\ IsCodeword(d.word) /\ d.ret = Cardinality(Differ(d.word, w))
         /\ Differ(d.word, w) # {} => Cost(Differ(d.word, w), F) <= Parity

LEMMA FailedHonest ==
  ASSUME NEW w \in RsWords, NEW F
  PROVE  Honest(Failed(w), w, F)
<1> DEFINE d == Failed(w)
<1>1. -1 \in -1..RsN /\ 0 \in 0..Parity /\ ~(-1 >= 0)
  BY CodeFacts
<1>2. d \in Results /\ d.ret = -1 /\ d.word = w
  BY <1>1 DEF Failed, Results
<1> HIDE DEF d
<1>3. Honest(d, w, F)
  BY <1>1, <1>2 DEF Honest
<1>4. QED
  BY <1>3 DEF d

\* Gamma's roots among the roots found, what is left of them is what the code
\* can spend two symbols on each.
LEMMA CostWithin ==
  ASSUME NEW roots \in SUBSET Pos, NEW F \in SUBSET roots, NEW L \in Nat,
         Cardinality(roots) = Cardinality(F) + L, 2 * L + Cardinality(F) <= Parity,
         NEW changed \in SUBSET roots
  PROVE  /\ Cost(changed, F) <= Parity
         /\ Cardinality(changed) \in 0..RsN
<1>1. IsFiniteSet(Pos) /\ Cardinality(Pos) = RsN /\ RsN \in Nat /\ Parity \in Nat
  <2>1. RsN \in Nat /\ Parity \in Nat /\ Pos = 1..RsN
    BY CodeFacts
  <2>2. IsFiniteSet(1..RsN) /\ Cardinality(1..RsN) = IF 1 > RsN THEN 0 ELSE RsN - 1 + 1
    BY <2>1, FS_Interval
  <2>3. QED
    BY <2>1, <2>2
<1>2. IsFiniteSet(roots)
  BY <1>1, FS_Subset
<1>3. IsFiniteSet(F) /\ Cardinality(F) \in Nat
  BY <1>2, FS_Subset, FS_CardinalityType
<1>4. IsFiniteSet(roots \ F) /\ Cardinality(roots \ F) = L
  <2>1. roots \cap F = F
    OBVIOUS
  <2>2. /\ IsFiniteSet(roots \ F)
        /\ Cardinality(roots \ F) = Cardinality(roots) - Cardinality(roots \cap F)
    BY <1>2, FS_Difference
  <2>3. Cardinality(roots \ F) = (Cardinality(F) + L) - Cardinality(F)
    BY <2>1, <2>2
  <2>4. QED
    BY <1>3, <2>2, <2>3
<1>5. /\ Cardinality(changed \ F) \in Nat /\ Cardinality(changed \ F) <= L
  <2>1. changed \ F \in SUBSET (roots \ F)
    OBVIOUS
  <2>2. IsFiniteSet(changed \ F) /\ Cardinality(changed \ F) <= Cardinality(roots \ F)
    BY <1>4, <2>1, FS_Subset
  <2>3. QED
    BY <1>4, <2>2, FS_CardinalityType
<1>6. Cardinality(changed) \in 0..RsN
  <2>1. changed \in SUBSET Pos
    OBVIOUS
  <2>2. IsFiniteSet(changed) /\ Cardinality(changed) <= RsN
    BY <1>1, <2>1, FS_Subset
  <2>3. Cardinality(changed) \in Nat
    BY <2>2, FS_CardinalityType
  <2>4. QED
    BY <1>1, <2>2, <2>3
<1>7. QED
  BY <1>1, <1>3, <1>5, <1>6 DEF Cost

LEMMA OutcomeHonest ==
  ASSUME NEW w \in RsWords, NEW fixed \in RsWords, NEW roots \in SUBSET Pos, NEW F \in SUBSET roots,
         \A j \in Pos \ roots : fixed[j] = w[j],
         NEW psi, NEW L \in Nat, Len(psi) = (Cardinality(F) + 1) + L,
         2 * L + Cardinality(F) <= Parity
  PROVE  Honest(Outcome(w, fixed, psi, roots, Cardinality(F)), w, F)
<1> DEFINE ne == Cardinality(F)
           d  == Outcome(w, fixed, psi, roots, ne)
           changed == {j \in roots : fixed[j] # w[j]}
<1>1. CASE \/ Cardinality(roots) # Len(psi) - 1
           \/ \E j \in roots : Eval(Derivative(psi), InvLocator(j)) = 0
           \/ ~IsCodeword(fixed)
  <2>1. d = Failed(w)
    BY <1>1, Zenon DEF Outcome, OnFailure
  <2>2. QED
    BY <2>1, FailedHonest
<1>2. CASE ~(\/ Cardinality(roots) # Len(psi) - 1
             \/ \E j \in roots : Eval(Derivative(psi), InvLocator(j)) = 0
             \/ ~IsCodeword(fixed))
  <2>1. d = [ret |-> Cardinality(changed), word |-> fixed, used |-> ne]
    BY <1>2, Zenon DEF Outcome
  <2>2. Cardinality(roots) = Len(psi) - 1 /\ IsCodeword(fixed)
    BY <1>2
  <2>3. Differ(fixed, w) = changed
    BY DEF Differ
  <2>4. ne \in Nat
    <3>1. IsFiniteSet(Pos)
      BY CodeFacts, FS_Interval
    <3>2. IsFiniteSet(F)
      BY <3>1, FS_Subset
    <3>3. QED
      BY <3>2, FS_CardinalityType
  <2>5. Cardinality(roots) = Cardinality(F) + L
    BY <2>2, <2>4
  <2>6. Cost(changed, F) <= Parity /\ Cardinality(changed) \in 0..RsN
    <3>1. changed \in SUBSET roots
      OBVIOUS
    <3> HIDE DEF changed
    <3>2. QED
      BY <2>5, <3>1, CostWithin
  <2>7. ne \in 0..Parity /\ Parity \in Nat
    BY <2>4, CodeFacts
  <2> HIDE DEF changed, ne, d
  <2>8. d \in Results /\ d.word = fixed /\ d.ret = Cardinality(changed) /\ ~(d.ret < 0)
    <3>1. Cardinality(changed) \in -1..RsN /\ ~(Cardinality(changed) < 0)
      BY <2>6
    <3>2. QED
      BY <2>1, <2>7, <3>1 DEF Results
  <2>9. Honest(d, w, F)
    BY <2>2, <2>3, <2>6, <2>8 DEF Honest
  <2>10. QED
    BY <2>9 DEF d, ne
<1>3. QED
  BY <1>1, <1>2

LEMMA LocateHonest ==
  ASSUME NEW w \in RsWords, NEW S \in Seq(Symbol), NEW F \in SUBSET Pos, NEW bm \in MStates
  PROVE  Honest(Locate(w, S, Gamma(F), bm, Cardinality(F)), w, F)
<1> DEFINE ne == Cardinality(F)
           gam == Gamma(F)
<1>1. ne \in Nat
  <2>1. IsFiniteSet(Pos)
    BY CodeFacts, FS_Interval
  <2>2. IsFiniteSet(F)
    BY <2>1, FS_Subset
  <2>3. QED
    BY <2>2, FS_CardinalityType
<1>2. gam \in Seq(Symbol) /\ Len(gam) = ne + 1 /\ \A j \in F : Eval(gam, InvLocator(j)) = 0
  BY GammaIs
<1>3. bm.L \in Nat /\ Parity \in Nat
  BY CodeFacts DEF MStates
<1> HIDE DEF gam, ne
<1>4. CASE ~WithinBudget(bm.L, ne) \/ ne + bm.L > Parity
  <2>1. Locate(w, S, gam, bm, ne) = Failed(w)
    BY <1>4 DEF Locate
  <2>2. QED
    BY <2>1, FailedHonest DEF gam, ne
<1>5. CASE ~(~WithinBudget(bm.L, ne) \/ ne + bm.L > Parity)
  <2> DEFINE psi   == Errata(gam, bm)
             roots == Chien(psi)
             omega == Times(S, psi, Parity)
             dpsi  == Derivative(psi)
             fixed == Corrected(w, omega, dpsi, roots)
  <2>1. 2 * bm.L + ne <= Parity /\ bm.L <= Parity
    BY <1>1, <1>3, <1>5 DEF WithinBudget
  <2>2. /\ psi \in Seq(Symbol) /\ Len(psi) = Len(gam) + bm.L
        /\ \A x \in Symbol : Eval(gam, x) = 0 => Eval(psi, x) = 0
    BY <1>2, <2>1, ErrataIs
  <2> HIDE DEF psi
  <2>3. Len(psi) = (ne + 1) + bm.L /\ Len(psi) > 0
    BY <1>1, <1>2, <1>3, <2>2
  <2>4. omega \in Seq(Symbol) /\ dpsi \in Seq(Symbol)
    BY <1>3, <2>2, <2>3, TimesIs, DerivativeTyped
  <2>5. roots \in SUBSET Pos /\ F \in SUBSET roots
    <3>1. ASSUME NEW j \in F PROVE j \in roots
      <4>1. InvLocator(j) \in Symbol /\ Eval(gam, InvLocator(j)) = 0
        BY <1>2, LocatorIs
      <4>2. Eval(psi, InvLocator(j)) = 0
        BY <2>2, <4>1
      <4>3. QED
        BY <4>2 DEF Chien
    <3>2. QED
      BY <3>1 DEF Chien
  <2> HIDE DEF omega, dpsi, roots
  <2>6. fixed \in RsWords /\ \A j \in Pos \ roots : fixed[j] = w[j]
    BY <2>4, <2>5, CorrectedIs
  <2>7. Locate(w, S, gam, bm, ne) = Outcome(w, fixed, psi, roots, ne)
    BY <1>5, Zenon DEF Locate, Correct, omega, dpsi, roots, psi
  <2> HIDE DEF fixed
  <2>8. PICK L \in Nat : L = bm.L
    BY <1>3
  <2>9. Honest(Outcome(w, fixed, psi, roots, Cardinality(F)), w, F)
    <3>1. Len(psi) = (Cardinality(F) + 1) + L /\ 2 * L + Cardinality(F) <= Parity
      BY <2>1, <2>3, <2>8 DEF ne
    <3>2. QED
      BY <2>5, <2>6, <3>1, OutcomeHonest
  <2>10. QED
    BY <2>7, <2>9 DEF ne, gam
<1>6. QED
  BY <1>4, <1>5

\* The whole call.
LEMMA DecodedHonest ==
  ASSUME NEW w \in RsWords, NEW flagged \in SUBSET Pos
  PROVE  Honest(Decoded(w, flagged), w, Usable(flagged))
<1> DEFINE F == Usable(flagged)
           S == Syndromes(w)
<1>1. w \in Seq(Symbol)
  BY WordIs
<1>2. S \in Seq(Symbol) /\ Len(S) = Parity /\ Parity \in Nat
  BY <1>1, SyndromesTyped, CodeFacts
<1>3. F \in SUBSET Pos /\ Cardinality(F) \in 0..Parity
  <2>1. IsFiniteSet(Pos)
    BY CodeFacts, FS_Interval
  <2>2. Cardinality(flagged) \in Nat
    BY <2>1, FS_Subset, FS_CardinalityType
  <2>3. CASE Cardinality(flagged) > Parity
    BY <1>2, <2>3, FS_EmptySet DEF Usable
  <2>4. CASE ~(Cardinality(flagged) > Parity)
    BY <1>2, <2>2, <2>4 DEF Usable
  <2>5. QED
    BY <2>3, <2>4
<1>4. Decoded(w, flagged) = DecodedWith(w, S, F)
  BY DEF Decoded
<1>5. CASE AllZero(S)
  <2>1. DecodedWith(w, S, F) = [ret |-> 0, word |-> w, used |-> 0]
    BY <1>5, Zenon DEF DecodedWith
  <2>2. IsCodeword(w)
    BY <1>5, Zenon DEF IsCodeword
  <2>3. Differ(w, w) = {} /\ Cardinality({}) = 0
    BY FS_EmptySet DEF Differ
  <2>4. 0 \in -1..RsN /\ 0 \in 0..Parity
    BY CodeFacts
  <2> HIDE DEF F, S
  <2> DEFINE d == DecodedWith(w, S, F)
  <2>5. Honest(d, w, F)
    <3>1. d \in Results /\ d.word = w /\ d.ret = 0 /\ ~(d.ret < 0)
      BY <2>1, <2>4 DEF Results
    <3> HIDE DEF d
    <3>2. QED
      BY <2>2, <2>3, <3>1 DEF Honest
  <2>6. QED
    BY <1>4, <2>5 DEF F
<1>6. CASE ~AllZero(S)
  <2> HIDE DEF S, F
  <2> DEFINE gam == Gamma(F)
             T   == Times(S, gam, Parity)
  <2>1. DecodedWith(w, S, F) = Locate(w, S, gam, Massey(T, Cardinality(F)), Cardinality(F))
    BY <1>6, Zenon DEF DecodedWith, Search
  <2>2. gam \in Seq(Symbol)
    BY <1>3, GammaIs
  <2> HIDE DEF gam
  <2>3. T \in Seq(Symbol) /\ Len(T) = Parity
    BY <1>2, <2>2, TimesIs
  <2> HIDE DEF T
  <2>4. PICK bm \in MStates : bm = Massey(T, Cardinality(F))
    BY <1>3, <2>3, MasseyIs
  <2>5. Honest(Locate(w, S, gam, bm, Cardinality(F)), w, F)
    BY <1>2, <1>3, LocateHonest DEF gam
  <2>6. QED
    BY <1>4, <2>1, <2>4, <2>5 DEF F
<1>7. QED
  BY <1>5, <1>6
-----------------------------------------------------------------------------
(* The encoder.                                                            *)

\* x - X.
LEMMA FactorIs ==
  ASSUME NEW X \in Symbol
  PROVE  /\ <<X, 1>> \in Seq(Symbol) /\ Len(<<X, 1>>) = 2
         /\ Up(<<X, 1>>)[0] = X /\ Up(<<X, 1>>)[1] = 1
<1>1. 1 \in Symbol
  BY CodeFacts
<1>2. <<X, 1>> \in Seq(Symbol) /\ Len(<<X, 1>>) = 2 /\ <<X, 1>>[0 + 1] = X /\ <<X, 1>>[1 + 1] = 1
  BY <1>1
<1>3. Coeff(<<X, 1>>, 0) = X /\ Coeff(<<X, 1>>, 1) = 1
  BY <1>2 DEF Coeff
<1>4. QED
  BY <1>2, <1>3, UpIs

LEMMA FactorRoot ==
  ASSUME NEW X \in Symbol
  PROVE  Eval(<<X, 1>>, X) = 0
<1> DEFINE p == <<X, 1>>
<1>1. p \in Seq(Symbol) /\ Len(p) = 2 /\ Up(p)[0] = X /\ Up(p)[1] = 1
  BY FactorIs
<1> HIDE DEF p
<1>2. Eval(p, X) = Val(Up(p), 2, X) /\ Up(p) \in Coeffs
  BY <1>1, EvalIs, UpIs
<1> DEFINE c == Up(p)
           d == Down(c)
<1>3. /\ c \in Coeffs /\ c[0] = X /\ c[1] = 1 /\ d \in Coeffs /\ d[0] = c[1]
      /\ Down(d) \in Coeffs
  <2>1. \A k \in Nat : d[k] = c[k + 1]
    BY <1>2, DownIs
  <2>2. d[0] = c[1]
    BY <2>1
  <2>3. QED
    BY <1>1, <1>2, <2>2, DownIs
<1> HIDE DEF c, d
<1>4. Val(c, 2, X) = GfAdd[GfMul[Val(d, 1, X)][X]][c[0]]
  <2>1. PICK n \in Nat : n = 1 /\ n + 1 = 2
    OBVIOUS
  <2>2. Val(c, n + 1, X) = GfAdd[GfMul[Val(Down(c), n, X)][X]][c[0]]
    BY <1>3, ValNext
  <2>3. QED
    BY <2>1, <2>2 DEF d
<1>5. Val(d, 1, X) = GfAdd[GfMul[Val(Down(d), 0, X)][X]][d[0]]
  <2>1. PICK n \in Nat : n = 0 /\ n + 1 = 1
    OBVIOUS
  <2>2. Val(d, n + 1, X) = GfAdd[GfMul[Val(Down(d), n, X)][X]][d[0]]
    BY <1>3, ValNext
  <2>3. QED
    BY <2>1, <2>2
<1>6. /\ Val(Down(d), 0, X) = 0 /\ GfMul[0][X] = 0 /\ GfAdd[0][1] = 1 /\ GfMul[1][X] = X
      /\ GfAdd[X][X] = 0
  BY <1>3, CodeFacts, ValStart, MulLaws, AddLaws
<1>7. Val(d, 1, X) = 1
  BY <1>3, <1>5, <1>6
<1>8. Val(c, 2, X) = 0
  BY <1>3, <1>4, <1>6, <1>7
<1>9. QED
  BY <1>2, <1>8 DEF c, p

\* The top coefficient of a product by a monic factor.
LEMMA ConvTop ==
  ASSUME NEW d \in Coeffs, EndsAt(d, 2), d[1] = 1, NEW m \in Nat
  PROVE  \A c \in Coeffs : EndsAt(c, m + 1) => Conv(c, d)[m + 1] = c[m]
<1> DEFINE P(k) == \A c \in Coeffs : EndsAt(c, k + 1) => Conv(c, d)[k + 1] = c[k]
           S    == {k \in 0..m : P(k)}
<1>1. Down(d) \in Coeffs /\ \A k \in Nat : Down(d)[k] = d[k + 1]
  BY DownIs
<1>2. 0 \in S
  <2> SUFFICES ASSUME NEW c \in Coeffs, EndsAt(c, 0 + 1) PROVE Conv(c, d)[0 + 1] = c[0]
    BY DEF S, P
  <2>1. /\ Down(c) \in Coeffs /\ \A k \in Nat : Down(c)[k] = c[k + 1]
        /\ Conv(c, d) \in Coeffs /\ \A k \in Nat : Down(Conv(c, d))[k] = Conv(c, d)[k + 1]
    BY DownIs, ConvTyped
  <2>2. Down(Conv(c, d))[0] = GfAdd[GfMul[c[0]][Down(d)[0]]][Conv(Down(c), d)[0]]
    BY ConvDown
  <2>3. Conv(Down(c), d)[0] = GfMul[Down(c)[0]][d[0]]
    BY <2>1, ConvDown
  <2>4. Down(c)[0] = 0 /\ Down(d)[0] = 1 /\ Conv(c, d)[1] = Down(Conv(c, d))[0]
    <3>1. 0 \in Nat /\ 0 + 1 = 1 /\ 1 \in Nat /\ 1 >= 0 + 1
      OBVIOUS
    <3>2. c[1] = 0
      BY <3>1 DEF EndsAt
    <3>3. QED
      BY <1>1, <2>1, <3>1, <3>2
  <2>5. /\ c[0] \in Symbol /\ d[0] \in Symbol
    BY DEF Coeffs
  <2>6. GfMul[0][d[0]] = 0 /\ GfMul[c[0]][1] = c[0] /\ GfAdd[c[0]][0] = c[0]
    <3>1. GfMul[c[0]][1] = GfMul[1][c[0]]
      BY <2>5, CodeFacts, MulTurns
    <3>2. QED
      BY <2>5, <3>1, MulLaws, AddLaws
  <2>7. QED
    BY <2>2, <2>3, <2>4, <2>6
<1>3. ASSUME NEW k \in 0..(m - 1), k \in S PROVE k + 1 \in S
  <2> SUFFICES ASSUME NEW c \in Coeffs, EndsAt(c, (k + 1) + 1)
               PROVE  Conv(c, d)[(k + 1) + 1] = c[k + 1]
    BY DEF S, P
  <2>1. /\ Down(c) \in Coeffs /\ \A j \in Nat : Down(c)[j] = c[j + 1]
        /\ Conv(c, d) \in Coeffs /\ \A j \in Nat : Down(Conv(c, d))[j] = Conv(c, d)[j + 1]
    BY DownIs, ConvTyped
  <2>2. k \in Nat /\ k + 1 \in Nat /\ (k + 1) + 1 >= 2 /\ (k + 1) + 1 \in Nat
    OBVIOUS
  <2>3. Down(Conv(c, d))[k + 1] = GfAdd[GfMul[c[0]][Down(d)[k + 1]]][Conv(Down(c), d)[k + 1]]
    BY <2>2, ConvDown
  <2>4. Down(d)[k + 1] = 0
    <3>1. d[(k + 1) + 1] = 0
      BY <2>2 DEF EndsAt
    <3>2. QED
      BY <1>1, <2>2, <3>1
  <2>5. Conv(Down(c), d)[k + 1] = Down(c)[k]
    <3>1. \A j \in Nat : j >= k + 1 => j + 1 \in Nat /\ j + 1 >= (k + 1) + 1
      BY <2>2
    <3>2. EndsAt(Down(c), k + 1)
      BY <2>1, <3>1 DEF EndsAt
    <3>3. QED
      BY <1>3, <2>1, <3>2 DEF S, P
  <2>6. c[0] \in Symbol /\ Down(c)[k] \in Symbol
    BY <2>1, <2>2 DEF Coeffs
  <2>7. GfMul[c[0]][0] = 0 /\ GfAdd[0][Down(c)[k]] = Down(c)[k]
    BY <2>6, MulLaws, AddLaws
  <2>8. QED
    BY <2>1, <2>2, <2>3, <2>4, <2>5, <2>7
<1>4. m \in S
  <2>1. \A k \in 0..m : k \in S
    <3> HIDE DEF S
    <3>1. QED
      BY <1>2, <1>3, Climb
  <2>2. QED
    BY <2>1
<1>5. QED
  BY <1>4 DEF S, P

\* g(x) after i factors.
Factored(p, i) ==
    /\ p \in Seq(Symbol) /\ Len(p) = i + 1 /\ Up(p)[i] = 1
    /\ \A k \in 1..i : Eval(p, PowAlpha(k)) = 0
Factor(p, i) == Times(p, <<PowAlpha(i), 1>>, i + 1)

LEMMA FactorTyped ==
  ASSUME NEW i \in Nat, NEW p \in Seq(Symbol)
  PROVE  Factor(p, i) \in Seq(Symbol)
<1>1. PICK X \in Symbol, n \in Nat : X = PowAlpha(i) /\ n = i + 1
  BY PowIs
<1>2. Times(p, <<X, 1>>, n) \in Seq(Symbol)
  <2>1. <<X, 1>> \in Seq(Symbol)
    BY FactorIs
  <2>2. QED
    BY <2>1, TimesIs
<1>3. QED
  BY <1>1, <1>2 DEF Factor

LEMMA FactorStep ==
  ASSUME NEW i \in Nat, i > 0, NEW p, Factored(p, i - 1)
  PROVE  Factored(Factor(p, i), i)
<1>1. /\ p \in Seq(Symbol) /\ Len(p) = i /\ Up(p)[i - 1] = 1
      /\ \A k \in 1..(i - 1) : Eval(p, PowAlpha(k)) = 0
  BY DEF Factored
<1>2. PICK X \in Symbol, n \in Nat : X = PowAlpha(i) /\ n = i + 1
  BY PowIs
<1> DEFINE q == <<X, 1>>
<1>3. /\ q \in Seq(Symbol) /\ Len(q) = 2 /\ Up(q)[1] = 1 /\ Eval(q, X) = 0
  BY FactorIs, FactorRoot
<1> HIDE DEF q
<1> DEFINE t == Times(p, q, n)
<1>4. /\ t \in Seq(Symbol) /\ Len(t) = n
      /\ \A k \in 0..(n - 1) : Up(t)[k] = Conv(Up(p), Up(q))[k]
  BY <1>1, <1>3, TimesIs
<1>5. Up(t)[i] = 1
  <2>1. PICK m \in Nat : i = m + 1 /\ m = i - 1
    <3>1. i - 1 \in Nat /\ i = (i - 1) + 1
      OBVIOUS
    <3>2. QED
      BY <3>1
  <2>2. /\ Up(p) \in Coeffs /\ EndsAt(Up(p), m + 1) /\ Up(q) \in Coeffs /\ EndsAt(Up(q), 2)
    BY <1>1, <1>3, <2>1, UpIs
  <2>3. Conv(Up(p), Up(q))[m + 1] = Up(p)[m]
    BY <1>3, <2>2, ConvTop
  <2>4. i \in 0..(n - 1)
    BY <1>2
  <2>5. QED
    BY <1>1, <1>4, <2>1, <2>3, <2>4
<1>6. ASSUME NEW k \in 1..i PROVE Eval(t, PowAlpha(k)) = 0
  <2>1. PICK x \in Symbol : x = PowAlpha(k)
    BY PowIs
  <2>2. Eval(t, x) = GfMul[Eval(p, x)][Eval(q, x)]
    <3>1. n + 1 = Len(p) + Len(q) /\ Len(q) > 0
      BY <1>1, <1>2, <1>3
    <3>2. QED
      BY <1>1, <1>3, <3>1, EvalTimes
  <2>3. PICK y \in Symbol, z \in Symbol : y = Eval(p, x) /\ z = Eval(q, x)
    BY <1>1, <1>3, EvalIs
  <2>4. y = 0 \/ z = 0
    <3>1. k = i \/ k \in 1..(i - 1)
      OBVIOUS
    <3>2. QED
      BY <1>1, <1>2, <1>3, <2>1, <2>3, <3>1
  <2>5. GfMul[y][0] = 0 /\ GfMul[0][z] = 0
    BY MulLaws
  <2>6. QED
    BY <2>1, <2>2, <2>3, <2>4, <2>5
<1>7. Factor(p, i) = t
  BY <1>2 DEF Factor, q
<1> HIDE DEF t
<1>8. QED
  BY <1>2, <1>4, <1>5, <1>6, <1>7 DEF Factored

\* The generator: monic, of the parity's degree, with the roots the syndromes
\* look at.
LEMMA GeneratorIs == Factored(Generator, Parity)
<1> DEFINE S       == Seq(Symbol)
           N       == Parity
           next    == [x \in S \X (1..N) |-> Factor(x[1], x[2])]
           Fits(g) == g = [i \in 0..N |-> IF i = 0 THEN <<1>>
                             ELSE Times(g[i - 1], <<PowAlpha(i), 1>>, i + 1)]
<1>1. N \in Nat /\ 1 \in Symbol
  BY CodeFacts
<1>2. next \in [S \X (1..N) -> S]
  <2>1. ASSUME NEW x \in S \X (1..N) PROVE Factor(x[1], x[2]) \in S
    <3>1. x[1] \in S /\ x[2] \in Nat
      BY <1>1
    <3>2. QED
      BY <3>1, FactorTyped
  <2>2. QED
    BY <2>1
<1>3. PICK f : Runs(f, S, N, <<1>>, next)
  <2>1. <<1>> \in S
    BY <1>1
  <2> HIDE DEF next, S
  <2>2. QED
    BY <1>1, <1>2, <2>1, Recursion
<1>4. f \in [0..N -> S] /\ f[0] = <<1>> /\ \A k \in 1..N : f[k] = next[<<f[k - 1], k>>]
  BY <1>3 DEF Runs
<1>5. ASSUME NEW k \in 1..N PROVE f[k] = Factor(f[k - 1], k)
  <2>1. <<f[k - 1], k>> \in S \X (1..N)
    BY <1>1, <1>4
  <2>2. QED
    BY <1>4, <2>1
<1> HIDE DEF next, S
<1>6. Fits(f)
  <2>1. ASSUME NEW k \in 0..N
        PROVE  f[k] = IF k = 0 THEN <<1>> ELSE Times(f[k - 1], <<PowAlpha(k), 1>>, k + 1)
    <3>1. k = 0 \/ (k \in 1..N /\ k # 0)
      BY <1>1
    <3>2. QED
      BY <1>4, <1>5, <3>1 DEF Factor
  <2>2. f = [k \in 0..N |-> f[k]]
    BY <1>4
  <2>3. QED
    BY <2>1, <2>2
<1>7. ASSUME NEW g, Fits(g) PROVE g = f
  <2>1. /\ g = [k \in 0..N |-> g[k]]
        /\ \A k \in 0..N : g[k] = IF k = 0 THEN <<1>>
                                  ELSE Times(g[k - 1], <<PowAlpha(k), 1>>, k + 1)
    BY <1>7, Zenon
  <2>2. 0 \in 0..N /\ \A k \in 1..N : k \in 0..N /\ k # 0
    BY <1>1
  <2>3. ASSUME NEW k \in 1..N, g[k - 1] = f[k - 1] PROVE g[k] = f[k]
    <3>1. g[k] = Factor(g[k - 1], k)
      BY <2>1, <2>2, Zenon DEF Factor
    <3>2. QED
      BY <1>5, <2>3, <3>1
  <2>4. g[0] = f[0]
    BY <1>4, <2>1, <2>2, Zenon
  <2>5. RunTo(f, N) /\ RunTo(g, N) /\ StepsAlike(f, g, N)
    BY <1>4, <2>1, <2>3, <2>4 DEF RunTo, StepsAlike
  <2>6. QED
    BY <1>1, <2>5, RunsAgree, Zenon
<1>8. Generator = (CHOOSE g : Fits(g))[N]
  BY DEF Generator
<1>9. (CHOOSE g : Fits(g)) = f
  <2> HIDE DEF Fits
  <2>1. QED
    BY <1>6, <1>7
<1> HIDE DEF Fits
<1>10. Generator = f[N]
  BY <1>8, <1>9
<1> DEFINE Z == {j \in 0..N : Factored(f[j], j)}
<1>11. 0 \in Z
  <2>1. <<1>> \in Seq(Symbol) /\ Len(<<1>>) = 1 /\ <<1>>[0 + 1] = 1 /\ 0 \in Nat
    BY <1>1
  <2>2. Up(<<1>>)[0] = 1
    <3>1. Coeff(<<1>>, 0) = 1
      BY <2>1 DEF Coeff
    <3>2. QED
      BY <2>1, <3>1, UpIs
  <2>3. Factored(f[0], 0)
    BY <1>4, <2>1, <2>2 DEF Factored
  <2>4. QED
    BY <1>1, <2>3
<1>12. ASSUME NEW j \in 0..(N - 1), j \in Z PROVE j + 1 \in Z
  <2>1. PICK k \in 1..N : k = j + 1 /\ k - 1 = j /\ k \in Nat /\ k > 0
    BY <1>1
  <2>2. Factored(f[k - 1], k - 1)
    BY <1>12, <2>1
  <2>3. Factored(Factor(f[k - 1], k), k)
    BY <2>1, <2>2, FactorStep
  <2>4. QED
    BY <1>1, <1>5, <2>1, <2>3
<1>13. Factored(f[N], N)
  <2>1. \A j \in 0..N : j \in Z
    <3> HIDE DEF Z, N
    <3>1. QED
      BY <1>1, <1>11, <1>12, Climb
  <2>2. QED
    BY <1>1, <2>1
<1>14. QED
  BY <1>10, <1>13
\* What is left of the division so far.
Rests == {r \in Seq(Symbol) : Len(r) = Parity}
Divided(r, a) ==
    Poly(Parity, [k \in 0..(Parity - 1) |->
        GfAdd[IF k = 0 THEN 0 ELSE r[k]][GfMul[GfAdd[a][r[Parity]]][Generator[k + 1]]]])
Raised(c) == [k \in Nat |-> IF k = 0 THEN 0 ELSE c[k - 1]]
Mixed(s, c, d) == [k \in Nat |-> GfAdd[GfMul[s][c[k]]][d[k]]]

LEMMA RaisedIs ==
  ASSUME NEW c \in Coeffs
  PROVE  Raised(c) \in Coeffs /\ Down(Raised(c)) = c /\ Raised(c)[0] = 0
         /\ \A k \in Nat : Raised(c)[k + 1] = c[k]
<1>1. ASSUME NEW k \in Nat PROVE (IF k = 0 THEN 0 ELSE c[k - 1]) \in Symbol
  <2>1. k = 0 \/ (k # 0 /\ k - 1 \in Nat)
    OBVIOUS
  <2>2. 0 \in Symbol
    BY CodeFacts
  <2>3. QED
    BY <2>1, <2>2 DEF Coeffs
<1>2. Raised(c) \in Coeffs /\ Raised(c)[0] = 0
  BY <1>1 DEF Raised, Coeffs
<1>3. ASSUME NEW k \in Nat PROVE Raised(c)[k + 1] = c[k]
  <2>1. k + 1 \in Nat /\ k + 1 # 0 /\ (k + 1) - 1 = k
    OBVIOUS
  <2>2. QED
    BY <2>1 DEF Raised
<1>4. Down(Raised(c)) = c
  <2>1. Down(Raised(c)) \in Coeffs /\ \A k \in Nat : Down(Raised(c))[k] = Raised(c)[k + 1]
    BY <1>2, DownIs
  <2>2. \A k \in Nat : Down(Raised(c))[k] = c[k]
    BY <1>3, <2>1
  <2>3. QED
    BY <2>1, <2>2 DEF Coeffs
<1>5. QED
  BY <1>2, <1>3, <1>4

LEMMA MixedIs ==
  ASSUME NEW s \in Symbol, NEW c \in Coeffs, NEW d \in Coeffs
  PROVE  /\ Mixed(s, c, d) \in Coeffs
         /\ \A k \in Nat : Mixed(s, c, d)[k] = GfAdd[GfMul[s][c[k]]][d[k]]
         /\ \A n \in Nat, x \in Symbol :
              Val(Mixed(s, c, d), n, x) = GfAdd[GfMul[s][Val(c, n, x)]][Val(d, n, x)]
<1>1. ASSUME NEW k \in Nat PROVE GfAdd[GfMul[s][c[k]]][d[k]] \in Symbol
  <2>1. c[k] \in Symbol /\ d[k] \in Symbol
    BY DEF Coeffs
  <2>2. GfMul[s][c[k]] \in Symbol
    BY <2>1, MulIs
  <2>3. QED
    BY <2>1, <2>2, AddLaws
<1>2. /\ Mixed(s, c, d) \in Coeffs
      /\ \A k \in Nat : Mixed(s, c, d)[k] = GfAdd[GfMul[s][c[k]]][d[k]]
  BY <1>1 DEF Mixed, Coeffs
<1>3. ASSUME NEW n \in Nat, NEW x \in Symbol
      PROVE  Val(Mixed(s, c, d), n, x) = GfAdd[GfMul[s][Val(c, n, x)]][Val(d, n, x)]
  <2>1. PICK e \in Coeffs : e = Mixed(s, c, d)
    BY <1>2
  <2>2. \A k \in Nat : e[k] = GfAdd[GfMul[s][c[k]]][d[k]]
    BY <1>2, <2>1
  <2>3. Val(e, n, x) = GfAdd[GfMul[s][Val(c, n, x)]][Val(d, n, x)]
    BY <2>2, ValLinear
  <2>4. QED
    BY <2>1, <2>3
<1>4. QED
  BY <1>2, <1>3

\* The generator's coefficients: its top one is 1, and its value at a root.
LEMMA DivisorIs ==
  /\ Up(Generator) \in Coeffs /\ EndsAt(Up(Generator), Parity + 1) /\ Up(Generator)[Parity] = 1
  /\ \A k \in 0..Parity : Up(Generator)[k] = Generator[k + 1]
  /\ \A x \in Symbol : Eval(Generator, x) = Val(Up(Generator), Parity + 1, x)
<1>1. Generator \in Seq(Symbol) /\ Len(Generator) = Parity + 1 /\ Up(Generator)[Parity] = 1
  BY GeneratorIs DEF Factored
<1>2. /\ Up(Generator) \in Coeffs /\ EndsAt(Up(Generator), Parity + 1)
      /\ \A k \in Nat : Up(Generator)[k] = Coeff(Generator, k)
  BY <1>1, UpIs
<1>3. ASSUME NEW k \in 0..Parity PROVE Up(Generator)[k] = Generator[k + 1]
  <2>1. k \in Nat /\ k < Parity + 1
    BY CodeFacts
  <2>2. Coeff(Generator, k) = Generator[k + 1]
    BY <1>1, <2>1 DEF Coeff
  <2>3. QED
    BY <1>2, <2>1, <2>2
<1>4. \A x \in Symbol : Eval(Generator, x) = Val(Up(Generator), Parity + 1, x)
  BY <1>1, EvalIs
<1>5. QED
  BY <1>1, <1>2, <1>3, <1>4

LEMMA RestIs ==
  ASSUME NEW r \in Rests
  PROVE  /\ r \in Seq(Symbol) /\ Up(r) \in Coeffs /\ EndsAt(Up(r), Parity)
         /\ \A k \in 1..Parity : r[k] \in Symbol /\ Up(r)[k - 1] = r[k]
<1>1. r \in Seq(Symbol) /\ Len(r) = Parity
  BY DEF Rests
<1>2. Up(r) \in Coeffs /\ EndsAt(Up(r), Parity) /\ \A k \in Nat : Up(r)[k] = Coeff(r, k)
  BY <1>1, UpIs
<1>3. ASSUME NEW k \in 1..Parity PROVE r[k] \in Symbol /\ Up(r)[k - 1] = r[k]
  <2>1. k - 1 \in Nat /\ k - 1 < Parity /\ (k - 1) + 1 = k
    BY CodeFacts
  <2>2. Coeff(r, k - 1) = r[k]
    BY <1>1, <2>1 DEF Coeff
  <2>3. r[k] \in Symbol
    BY <1>1, ElementOfSeq
  <2>4. QED
    BY <1>2, <2>1, <2>2, <2>3
<1>4. QED
  BY <1>1, <1>2, <1>3

\* The feedback adds the same multiple of the generator either way.
LEMMA FeedBack ==
  ASSUME NEW a \in Symbol, NEW b \in Symbol, NEW g \in Symbol, NEW y \in Symbol
  PROVE  GfAdd[y][GfMul[GfAdd[a][b]][g]] = GfAdd[GfMul[a][g]][GfAdd[GfMul[b][g]][y]]
<1>1. GfMul[GfAdd[a][b]][g] = GfAdd[GfMul[a][g]][GfMul[b][g]]
  BY SumSpreads
<1>2. PICK u \in Symbol, v \in Symbol : u = GfMul[a][g] /\ v = GfMul[b][g]
  BY MulIs
<1>3. GfAdd[y][GfAdd[u][v]] = GfAdd[u][GfAdd[v][y]]
  <2>1. PICK s \in Symbol : s = GfAdd[u][v]
    BY AddLaws
  <2>2. GfAdd[y][s] = GfAdd[s][y]
    BY AddLaws
  <2>3. GfAdd[GfAdd[u][v]][y] = GfAdd[u][GfAdd[v][y]]
    BY AddGroups
  <2>4. QED
    BY <2>1, <2>2, <2>3
<1>4. QED
  BY <1>1, <1>2, <1>3

\* A step of the division: the coefficients it leaves.
LEMMA DividedIs ==
  ASSUME NEW r \in Rests, NEW a \in Symbol
  PROVE  /\ Divided(r, a) \in Rests
         /\ \A k \in 0..(Parity - 1) : Up(Divided(r, a))[k]
              = Mixed(a, Up(Generator), Mixed(r[Parity], Up(Generator), Raised(Up(r))))[k]
<1> DEFINE P  == Parity
           b  == r[P]
           G  == Up(Generator)
           XR == Raised(Up(r))
           E  == Mixed(b, G, XR)
           D  == Mixed(a, G, E)
           c  == [k \in 0..(P - 1) |->
                    GfAdd[IF k = 0 THEN 0 ELSE r[k]][GfMul[GfAdd[a][b]][Generator[k + 1]]]]
<1>1. P \in Nat /\ P > 0 /\ P \in 1..P
  BY CodeFacts
<1>2. /\ r \in Seq(Symbol) /\ Up(r) \in Coeffs
      /\ \A k \in 1..P : r[k] \in Symbol /\ Up(r)[k - 1] = r[k]
  BY RestIs
<1>3. b \in Symbol /\ G \in Coeffs /\ XR \in Coeffs /\ XR[0] = 0 /\ \A k \in Nat : XR[k + 1] = Up(r)[k]
  BY <1>1, <1>2, DivisorIs, RaisedIs
<1>4. \A k \in 0..P : G[k] = Generator[k + 1]
  BY DivisorIs
<1> HIDE DEF G, XR, b
<1>5. E \in Coeffs /\ \A k \in Nat : E[k] = GfAdd[GfMul[b][G[k]]][XR[k]]
  BY <1>3, MixedIs
<1> HIDE DEF E
<1>6. D \in Coeffs /\ \A k \in Nat : D[k] = GfAdd[GfMul[a][G[k]]][E[k]]
  BY <1>3, <1>5, MixedIs
<1> HIDE DEF D
<1>7. ASSUME NEW k \in 0..(P - 1) PROVE c[k] = D[k] /\ c[k] \in Symbol
  <2>1. k \in Nat /\ k \in 0..P
    BY <1>1
  <2>2. (IF k = 0 THEN 0 ELSE r[k]) = XR[k]
    <3>1. CASE k = 0
      BY <1>3, <3>1
    <3>2. CASE k # 0
      <4>1. PICK j \in Nat : k = j + 1 /\ j = k - 1
        <5>1. k - 1 \in Nat /\ k = (k - 1) + 1
          BY <2>1, <3>2
        <5>2. QED
          BY <5>1
      <4>2. k \in 1..P
        BY <1>1, <3>2
      <4>3. XR[j + 1] = Up(r)[j] /\ Up(r)[k - 1] = r[k]
        BY <1>2, <1>3, <4>2
      <4>4. QED
        BY <3>2, <4>1, <4>3
    <3>3. QED
      BY <3>1, <3>2
  <2>3. PICK y \in Symbol, g \in Symbol : y = XR[k] /\ g = G[k]
    BY <1>3, <2>1 DEF Coeffs
  <2>4. GfAdd[y][GfMul[GfAdd[a][b]][g]] = GfAdd[GfMul[a][g]][GfAdd[GfMul[b][g]][y]]
    BY <1>3, FeedBack
  <2>5. c[k] = GfAdd[y][GfMul[GfAdd[a][b]][g]]
    BY <1>4, <2>1, <2>2, <2>3
  <2>6. D[k] = GfAdd[GfMul[a][g]][GfAdd[GfMul[b][g]][y]]
    BY <1>5, <1>6, <2>1, <2>3
  <2>7. D[k] \in Symbol
    BY <1>6, <2>1 DEF Coeffs
  <2>8. QED
    BY <2>4, <2>5, <2>6, <2>7
<1>8. c \in [0..(P - 1) -> Symbol] /\ \A k \in 0..(P - 1) : c[k] = D[k]
  BY <1>7
<1>9. Divided(r, a) = Poly(P, c)
  BY DEF Divided, b
<1> HIDE DEF c
<1>10. /\ Poly(P, c) \in Seq(Symbol) /\ Len(Poly(P, c)) = P
       /\ \A k \in Nat : Coeff(Poly(P, c), k) = IF k < P THEN c[k] ELSE 0
  BY <1>1, <1>8, PolyIs
<1>11. ASSUME NEW k \in 0..(P - 1) PROVE Up(Divided(r, a))[k] = D[k]
  <2>1. k \in Nat /\ k < P
    BY <1>1
  <2>2. Up(Poly(P, c))[k] = Coeff(Poly(P, c), k)
    BY <1>10, <2>1, UpIs
  <2>3. QED
    BY <1>8, <1>9, <1>10, <2>1, <2>2
<1>12. Divided(r, a) \in Rests
  BY <1>9, <1>10 DEF Rests
<1>13. QED
  BY <1>11, <1>12 DEF D, E, XR, G, b

\* Its value at a root of the generator.
LEMMA DividedVal ==
  ASSUME NEW r \in Rests, NEW a \in Symbol, NEW X \in Symbol, Eval(Generator, X) = 0
  PROVE  Val(Up(Divided(r, a)), Parity, X)
         = GfAdd[GfMul[a][Val(Up(Generator), Parity, X)]][GfMul[Val(Up(r), Parity, X)][X]]
<1> DEFINE P  == Parity
           b  == r[P]
           G  == Up(Generator)
           XR == Raised(Up(r))
           E  == Mixed(b, G, XR)
           D  == Mixed(a, G, E)
<1>1. P \in Nat /\ P > 0 /\ P \in 1..P /\ P + 1 \in Nat
  BY CodeFacts
<1>2. /\ r \in Seq(Symbol) /\ Up(r) \in Coeffs /\ EndsAt(Up(r), P)
      /\ r[P] \in Symbol /\ Up(r)[P - 1] = r[P]
  BY <1>1, RestIs
<1>3. /\ XR \in Coeffs /\ XR[0] = 0 /\ \A k \in Nat : XR[k + 1] = Up(r)[k]
      /\ Down(XR) = Up(r)
  BY <1>2, RaisedIs
<1>4. G \in Coeffs /\ EndsAt(G, P + 1) /\ G[P] = 1 /\ Val(G, P + 1, X) = 0
  BY DivisorIs
<1>5. b \in Symbol /\ b = Up(r)[P - 1]
  BY <1>2
<1>6. Val(Up(Divided(r, a)), P, X) = Val(D, P, X)
  <2>1. \A k \in 0..(P - 1) : Up(Divided(r, a))[k] = D[k]
    BY DividedIs
  <2> HIDE DEF D
  <2>2. QED
    BY <1>1, <2>1, ValSame
<1> HIDE DEF G, XR, b
<1>7. /\ E \in Coeffs /\ \A k \in Nat : E[k] = GfAdd[GfMul[b][G[k]]][XR[k]]
      /\ \A n \in Nat, x \in Symbol : Val(E, n, x) = GfAdd[GfMul[b][Val(G, n, x)]][Val(XR, n, x)]
  BY <1>3, <1>4, <1>5, MixedIs
<1> HIDE DEF E
<1>8. Val(D, P, X) = GfAdd[GfMul[a][Val(G, P, X)]][Val(E, P, X)]
  BY <1>1, <1>4, <1>7, MixedIs
<1> HIDE DEF D
<1>9. EndsAt(E, P)
  <2> SUFFICES ASSUME NEW k \in Nat, k >= P PROVE E[k] = 0
    BY DEF EndsAt
  <2>1. PICK j \in Nat : k = j + 1 /\ j = k - 1
    <3>1. k - 1 \in Nat /\ k = (k - 1) + 1
      BY <1>1
    <3>2. QED
      BY <3>1
  <2>2. XR[k] = Up(r)[j]
    BY <1>3, <2>1
  <2>3. CASE k = P
    <3>1. XR[k] = b /\ G[k] = 1
      BY <1>4, <1>5, <2>1, <2>2, <2>3
    <3>2. GfMul[b][1] = GfMul[1][b] /\ GfMul[1][b] = b /\ GfAdd[b][b] = 0
      BY <1>5, CodeFacts, MulTurns, MulLaws, AddLaws
    <3>3. QED
      BY <1>7, <3>1, <3>2
  <2>4. CASE k # P
    <3>1. j >= P /\ k >= P + 1
      BY <1>1, <2>1, <2>4
    <3>2. XR[k] = 0 /\ G[k] = 0
      BY <1>2, <1>4, <2>2, <3>1 DEF EndsAt
    <3>3. GfMul[b][0] = 0 /\ GfAdd[0][0] = 0
      BY <1>5, CodeFacts, MulLaws, AddLaws
    <3>4. QED
      BY <1>7, <3>2, <3>3
  <2>5. QED
    BY <2>3, <2>4
<1>10. Val(E, P, X) = Val(E, P + 1, X)
  <2>1. P + 1 >= P
    BY <1>1
  <2>2. QED
    BY <1>1, <1>7, <1>9, <2>1, ValPad
<1>11. Val(XR, P + 1, X) = GfMul[Val(Up(r), P, X)][X]
  <2>1. Val(XR, P + 1, X) = GfAdd[GfMul[Val(Down(XR), P, X)][X]][XR[0]]
    BY <1>1, <1>3, ValNext
  <2>2. PICK y \in Symbol : y = GfMul[Val(Up(r), P, X)][X]
    <3>1. Val(Up(r), P, X) \in Symbol
      BY <1>1, <1>2, ValTyped
    <3>2. QED
      BY <3>1, MulIs
  <2>3. GfAdd[y][0] = y
    BY AddLaws
  <2>4. QED
    BY <1>3, <2>1, <2>2, <2>3
<1>12. Val(E, P + 1, X) = Val(XR, P + 1, X)
  <2>1. Val(E, P + 1, X) = GfAdd[GfMul[b][Val(G, P + 1, X)]][Val(XR, P + 1, X)]
    BY <1>1, <1>7
  <2>2. PICK y \in Symbol : y = Val(XR, P + 1, X)
    BY <1>1, <1>3, ValTyped
  <2>3. GfMul[b][0] = 0 /\ GfAdd[0][y] = y
    BY <1>5, MulLaws, AddLaws
  <2>4. QED
    BY <1>4, <2>1, <2>2, <2>3
<1>13. QED
  BY <1>6, <1>8, <1>10, <1>11, <1>12 DEF G
\* The division's run.
Reversed(r) == [k \in 1..Parity |-> r[Parity + 1 - k]]
Division(f, msg) ==
    /\ f \in [0..RsK -> Rests] /\ f[0] = [k \in 1..Parity |-> 0]
    /\ \A i \in 1..RsK : f[i] = Divided(f[i - 1], msg[i])

LEMMA EncodeRuns ==
  ASSUME NEW msg \in [1..RsK -> Symbol]
  PROVE  \E f : Division(f, msg) /\ Encode(msg) = msg \o Reversed(f[RsK])
<1> DEFINE S       == Rests
           N       == RsK
           none    == [k \in 1..Parity |-> 0]
           next    == [x \in S \X (1..N) |-> Divided(x[1], msg[x[2]])]
           Fits(g) == g = [i \in 0..N |-> IF i = 0 THEN none
                             ELSE Poly(Parity, [k \in 0..(Parity - 1) |->
                                    GfAdd[IF k = 0 THEN 0 ELSE g[i - 1][k]]
                                         [GfMul[GfAdd[msg[i]][g[i - 1][Parity]]]
                                               [Generator[k + 1]]]])]
<1>1. N \in Nat /\ Parity \in Nat
  BY CodeFacts
<1>2. next \in [S \X (1..N) -> S]
  <2>1. ASSUME NEW x \in S \X (1..N) PROVE Divided(x[1], msg[x[2]]) \in S
    <3>1. x[1] \in Rests /\ msg[x[2]] \in Symbol
      OBVIOUS
    <3>2. QED
      BY <3>1, DividedIs
  <2>2. QED
    BY <2>1
<1>3. none \in S
  <2>1. none \in [1..Parity -> Symbol]
    BY CodeFacts
  <2> HIDE DEF none
  <2>2. QED
    BY <1>1, <2>1, SymbolsAre DEF Rests
<1> HIDE DEF none
<1>4. PICK f : Runs(f, S, N, none, next)
  <2> HIDE DEF next, S
  <2>2. QED
    BY <1>1, <1>2, <1>3, Recursion
<1>5. f \in [0..N -> S] /\ f[0] = none /\ \A k \in 1..N : f[k] = next[<<f[k - 1], k>>]
  BY <1>4 DEF Runs
<1>6. ASSUME NEW k \in 1..N PROVE f[k] = Divided(f[k - 1], msg[k])
  <2>1. <<f[k - 1], k>> \in S \X (1..N)
    BY <1>1, <1>5
  <2>2. QED
    BY <1>5, <2>1
<1> HIDE DEF next
<1>7. Fits(f)
  <2>1. ASSUME NEW k \in 0..N
        PROVE  f[k] = IF k = 0 THEN none
                      ELSE Poly(Parity, [j \in 0..(Parity - 1) |->
                             GfAdd[IF j = 0 THEN 0 ELSE f[k - 1][j]]
                                  [GfMul[GfAdd[msg[k]][f[k - 1][Parity]]][Generator[j + 1]]]])
    <3>1. k = 0 \/ (k \in 1..N /\ k # 0)
      BY <1>1
    <3>2. CASE k = 0
      BY <1>5, <3>2
    <3>3. CASE k \in 1..N /\ k # 0
      <4>1. f[k] = Divided(f[k - 1], msg[k])
        BY <1>6, <3>3
      <4>2. QED
        BY <3>3, <4>1, Zenon DEF Divided
    <3>4. QED
      BY <3>1, <3>2, <3>3
  <2>2. f = [k \in 0..N |-> f[k]]
    BY <1>5
  <2>3. QED
    BY <2>1, <2>2, Zenon
<1>8. ASSUME NEW g, Fits(g) PROVE g = f
  <2>1. /\ g = [k \in 0..N |-> g[k]]
        /\ \A k \in 0..N : g[k] = IF k = 0 THEN none
                      ELSE Poly(Parity, [j \in 0..(Parity - 1) |->
                             GfAdd[IF j = 0 THEN 0 ELSE g[k - 1][j]]
                                  [GfMul[GfAdd[msg[k]][g[k - 1][Parity]]][Generator[j + 1]]]])
    BY <1>8, Zenon
  <2>2. 0 \in 0..N /\ \A k \in 1..N : k \in 0..N /\ k # 0
    BY <1>1
  <2>3. ASSUME NEW k \in 1..N, g[k - 1] = f[k - 1] PROVE g[k] = f[k]
    <3>1. g[k] = Divided(g[k - 1], msg[k])
      BY <2>1, <2>2, Zenon DEF Divided
    <3>2. QED
      BY <1>6, <2>3, <3>1
  <2>4. g[0] = f[0]
    BY <1>5, <2>1, <2>2, Zenon
  <2>5. RunTo(f, N) /\ RunTo(g, N) /\ StepsAlike(f, g, N)
    BY <1>5, <2>1, <2>3, <2>4 DEF RunTo, StepsAlike
  <2>6. QED
    BY <1>1, <2>5, RunsAgree, Zenon
<1>9. Encode(msg) = msg \o Reversed((CHOOSE g : Fits(g))[N])
  BY DEF Encode, Reversed, none
<1>10. (CHOOSE g : Fits(g)) = f
  <2> HIDE DEF Fits
  <2>1. QED
    BY <1>7, <1>8
<1> HIDE DEF Fits
<1>11. Division(f, msg)
  BY <1>5, <1>6 DEF Division, none
<1>12. QED
  BY <1>9, <1>10, <1>11

LEMMA MessageIs ==
  ASSUME NEW msg \in [1..RsK -> Symbol]
  PROVE  msg \in Seq(Symbol) /\ Len(msg) = RsK
BY CodeFacts, SymbolsAre

LEMMA SentIs ==
  ASSUME NEW msg \in [1..RsK -> Symbol], NEW r \in Rests
  PROVE  /\ msg \o Reversed(r) \in RsWords
         /\ \A i \in 1..RsK : (msg \o Reversed(r))[i] = msg[i]
         /\ \A j \in 1..Parity : (msg \o Reversed(r))[RsK + j] = r[Parity + 1 - j]
<1>1. RsK \in Nat /\ Parity \in Nat /\ RsN = RsK + Parity
  BY CodeFacts
<1>2. msg \in Seq(Symbol) /\ Len(msg) = RsK
  BY MessageIs
<1> DEFINE v == Reversed(r)
<1>3. /\ v \in Seq(Symbol) /\ Len(v) = Parity
      /\ \A j \in 1..Parity : v[j] = r[Parity + 1 - j]
  <2>1. ASSUME NEW j \in 1..Parity PROVE r[Parity + 1 - j] \in Symbol
    <3>1. Parity + 1 - j \in 1..Parity
      BY <1>1
    <3>2. QED
      BY <3>1, RestIs
  <2>2. v \in [1..Parity -> Symbol] /\ \A j \in 1..Parity : v[j] = r[Parity + 1 - j]
    BY <2>1 DEF Reversed
  <2> HIDE DEF v
  <2>3. QED
    BY <1>1, <2>2, SymbolsAre
<1> HIDE DEF v
<1>4. /\ msg \o v \in Seq(Symbol) /\ Len(msg \o v) = RsK + Parity
      /\ \A i \in 1..(RsK + Parity) : (msg \o v)[i] = IF i <= RsK THEN msg[i] ELSE v[i - RsK]
  BY <1>2, <1>3, ConcatProperties
<1>5. msg \o v \in RsWords
  <2>1. PICK z \in Seq(Symbol) : z = msg \o v /\ Len(z) = RsN
    BY <1>1, <1>4
  <2>2. z \in [1..RsN -> Symbol]
    BY <2>1, LenProperties, ElementOfSeq
  <2>3. QED
    BY <2>1, <2>2, CodeFacts DEF RsWords
<1>6. \A i \in 1..RsK : (msg \o v)[i] = msg[i]
  BY <1>1, <1>4
<1>7. ASSUME NEW j \in 1..Parity PROVE (msg \o v)[RsK + j] = r[Parity + 1 - j]
  <2>1. RsK + j \in 1..(RsK + Parity) /\ ~(RsK + j <= RsK) /\ (RsK + j) - RsK = j
    BY <1>1
  <2>2. (msg \o v)[RsK + j] = v[j]
    BY <1>4, <2>1
  <2>3. QED
    BY <1>3, <2>2
<1>8. QED
  BY <1>5, <1>6, <1>7 DEF v

\* At a root of the generator, x^Parity is the value of its lower part, and
\* the remainder is what the message times that is.
LEMMA RemainderVal ==
  ASSUME NEW msg \in [1..RsK -> Symbol], NEW f, Division(f, msg),
         NEW X \in Symbol, Eval(Generator, X) = 0
  PROVE  Val(Up(f[RsK]), Parity, X) = GfMul[Horner(msg, X)][Val(Up(Generator), Parity, X)]
<1> DEFINE W == Val(Up(Generator), Parity, X)
<1>1. RsK \in Nat /\ Parity \in Nat /\ W \in Symbol
  BY CodeFacts, DivisorIs, ValTyped
<1> HIDE DEF W
<1>2. msg \in Seq(Symbol) /\ Len(msg) = RsK
  BY MessageIs
<1>3. PICK h : Evals(h, msg, X) /\ Horner(msg, X) = h[RsK]
  BY <1>2, HornerRuns
<1>4. /\ h \in [0..RsK -> Symbol] /\ h[0] = 0
      /\ \A k \in 1..RsK : h[k] = GfAdd[GfMul[h[k - 1]][X]][msg[k]]
  BY <1>2, <1>3 DEF Evals
<1>5. /\ f \in [0..RsK -> Rests] /\ f[0] = [k \in 1..Parity |-> 0]
      /\ \A i \in 1..RsK : f[i] = Divided(f[i - 1], msg[i])
  BY DEF Division
<1> DEFINE Z == {i \in 0..RsK : Val(Up(f[i]), Parity, X) = GfMul[h[i]][W]}
<1>6. 0 \in Z
  <2>1. f[0] \in Rests
    BY <1>1, <1>5, SMTT(60)
  <2>2. /\ Up(f[0]) \in Coeffs /\ EndsAt(Up(f[0]), Parity)
        /\ \A k \in 1..Parity : Up(f[0])[k - 1] = f[0][k]
    BY <2>1, RestIs
  <2>3. ASSUME NEW k \in Nat PROVE Up(f[0])[k] = 0
    <3>1. CASE k >= Parity
      BY <2>2, <3>1 DEF EndsAt
    <3>2. CASE ~(k >= Parity)
      <4>1. k + 1 \in 1..Parity /\ (k + 1) - 1 = k
        BY <1>1, <3>2
      <4>2. Up(f[0])[(k + 1) - 1] = f[0][k + 1] /\ f[0][k + 1] = 0
        BY <1>5, <2>2, <4>1
      <4>3. QED
        BY <4>1, <4>2
    <3>3. QED
      BY <3>1, <3>2
  <2>4. PICK c \in Coeffs : c = Up(f[0]) /\ EndsAt(c, 0)
    BY <2>2, <2>3 DEF EndsAt
  <2>5. Val(c, Parity, X) = Val(c, 0, X)
    <3>1. 0 \in Nat /\ Parity >= 0
      BY <1>1
    <3>2. QED
      BY <1>1, <2>4, <3>1, ValPad
  <2>6. Val(c, 0, X) = 0
    BY ValStart
  <2>7. GfMul[0][W] = 0
    BY <1>1, MulLaws
  <2>8. QED
    BY <1>1, <1>4, <2>4, <2>5, <2>6, <2>7
<1>7. ASSUME NEW j \in 0..(RsK - 1), j \in Z PROVE j + 1 \in Z
  <2>1. PICK k \in 1..RsK : k = j + 1 /\ k - 1 = j
    BY <1>1
  <2>2. PICK a \in Symbol, r \in Rests, y \in Symbol : a = msg[k] /\ r = f[j] /\ y = h[j]
    BY <1>1, <1>4, <1>5
  <2>3. Val(Up(r), Parity, X) = GfMul[y][W]
    BY <1>7, <2>2
  <2>4. f[k] = Divided(r, a) /\ h[k] = GfAdd[GfMul[y][X]][a]
    BY <1>4, <1>5, <2>1, <2>2
  <2>5. Val(Up(f[k]), Parity, X) = GfAdd[GfMul[a][W]][GfMul[GfMul[y][W]][X]]
    BY <2>3, <2>4, DividedVal DEF W
  <2>6. GfMul[GfMul[y][W]][X] = GfMul[GfMul[y][X]][W]
    <3>1. GfMul[GfMul[y][W]][X] = GfMul[y][GfMul[W][X]]
      BY <1>1, MulGroups
    <3>2. GfMul[W][X] = GfMul[X][W]
      BY <1>1, MulTurns
    <3>3. GfMul[GfMul[y][X]][W] = GfMul[y][GfMul[X][W]]
      BY <1>1, MulGroups
    <3>4. QED
      BY <3>1, <3>2, <3>3
  <2>7. GfAdd[GfMul[a][W]][GfMul[GfMul[y][X]][W]] = GfMul[GfAdd[GfMul[y][X]][a]][W]
    <3>1. PICK t \in Symbol : t = GfMul[y][X]
      BY MulIs
    <3>2. PICK u \in Symbol, v \in Symbol : u = GfMul[a][W] /\ v = GfMul[t][W]
      BY <1>1, MulIs
    <3>3. GfMul[GfAdd[t][a]][W] = GfAdd[GfMul[t][W]][GfMul[a][W]]
      BY <1>1, SumSpreads
    <3>4. GfAdd[u][v] = GfAdd[v][u]
      BY AddLaws
    <3>5. QED
      BY <3>1, <3>2, <3>3, <3>4
  <2>8. Val(Up(f[k]), Parity, X) = GfMul[h[k]][W]
    BY <2>4, <2>5, <2>6, <2>7
  <2>9. QED
    BY <1>1, <2>1, <2>8
<1>8. Val(Up(f[RsK]), Parity, X) = GfMul[h[RsK]][W]
  <2>1. \A i \in 0..RsK : i \in Z
    <3> HIDE DEF Z
    <3>1. QED
      BY <1>1, <1>6, <1>7, Climb
  <2>2. RsK \in 0..RsK
    BY <1>1
  <2>3. QED
    BY <2>1, <2>2
<1>9. QED
  BY <1>3, <1>8 DEF W

\* The message's value, carried through the parity symbols.
LEMMA SentVal ==
  ASSUME NEW msg \in [1..RsK -> Symbol], NEW r \in Rests, NEW X \in Symbol,
         NEW E \in Coeffs, \A k \in 0..(Parity - 1) : E[k] = Up(r)[k],
         E[Parity] = Horner(msg, X)
  PROVE  Horner(msg \o Reversed(r), X) = Val(E, Parity + 1, X)
<1> DEFINE w == msg \o Reversed(r)
<1>1. RsK \in Nat /\ Parity \in Nat /\ RsN = RsK + Parity /\ Parity + 1 \in Nat
  BY CodeFacts
<1>2. msg \in Seq(Symbol) /\ Len(msg) = RsK
  BY MessageIs
<1>3. /\ w \in RsWords /\ \A i \in 1..RsK : w[i] = msg[i]
      /\ \A j \in 1..Parity : w[RsK + j] = r[Parity + 1 - j]
  BY SentIs
<1> HIDE DEF w
<1>4. w \in Seq(Symbol) /\ Len(w) = RsN
  BY <1>3, WordIs
<1>5. PICK g : Evals(g, msg, X) /\ Horner(msg, X) = g[RsK]
  BY <1>2, HornerRuns
<1>6. PICK h : Evals(h, w, X) /\ Horner(w, X) = h[RsN]
  BY <1>4, HornerRuns
<1>7. PICK e : Vals(e, E, Parity + 1, X) /\ Val(E, Parity + 1, X) = e[Parity + 1]
  BY <1>1, ValRuns
<1>8. /\ g \in [0..RsK -> Symbol] /\ g[0] = 0
      /\ \A k \in 1..RsK : g[k] = GfAdd[GfMul[g[k - 1]][X]][msg[k]]
      /\ h \in [0..RsN -> Symbol] /\ h[0] = 0
      /\ \A k \in 1..RsN : h[k] = GfAdd[GfMul[h[k - 1]][X]][w[k]]
  BY <1>2, <1>4, <1>5, <1>6 DEF Evals
<1>9. /\ e \in [0..(Parity + 1) -> Symbol] /\ e[0] = 0
      /\ \A k \in 1..(Parity + 1) : e[k] = GfAdd[GfMul[e[k - 1]][X]][E[(Parity + 1) - k]]
  BY <1>7 DEF Vals
<1> DEFINE S == {k \in 0..RsK : h[k] = g[k]}
           Z == {j \in 0..Parity : h[RsK + j] = e[j + 1]}
<1>10. h[RsK] = g[RsK]
  <2>1. 0 \in S
    BY <1>1, <1>8
  <2>2. ASSUME NEW k \in 0..(RsK - 1), k \in S PROVE k + 1 \in S
    <3>1. PICK i \in 1..RsK : i = k + 1 /\ i - 1 = k /\ i \in 1..RsN
      BY <1>1
    <3>2. g[i] = GfAdd[GfMul[g[k]][X]][msg[i]] /\ h[i] = GfAdd[GfMul[h[k]][X]][w[i]]
      BY <1>8, <3>1
    <3>3. w[i] = msg[i] /\ h[k] = g[k]
      BY <1>3, <2>2
    <3>4. QED
      BY <1>1, <3>1, <3>2, <3>3
  <2>3. \A k \in 0..RsK : k \in S
    <3> HIDE DEF S
    <3>1. QED
      BY <1>1, <2>1, <2>2, Climb
  <2>4. RsK \in 0..RsK
    BY <1>1
  <2>5. QED
    BY <2>3, <2>4
<1>11. 0 \in Z
  <2>1. /\ 1 \in 1..(Parity + 1) /\ 1 - 1 = 0 /\ (Parity + 1) - 1 = Parity /\ 0 + 1 = 1
        /\ RsK + 0 = RsK /\ 0 \in 0..Parity
    BY <1>1
  <2>2. e[1] = GfAdd[GfMul[0][X]][E[Parity]]
    BY <1>9, <2>1
  <2>3. PICK y \in Symbol : y = E[Parity]
    BY <1>1 DEF Coeffs
  <2>4. GfMul[0][X] = 0 /\ GfAdd[0][y] = y
    BY MulLaws, AddLaws
  <2>5. QED
    BY <1>5, <1>10, <2>1, <2>2, <2>3, <2>4
<1>12. ASSUME NEW j \in 0..(Parity - 1), j \in Z PROVE j + 1 \in Z
  <2>1. PICK i \in 1..Parity : i = j + 1 /\ i - 1 = j
    BY <1>1
  <2>2. /\ RsK + i \in 1..RsN /\ (RsK + i) - 1 = RsK + j
        /\ i + 1 \in 1..(Parity + 1) /\ (i + 1) - 1 = j + 1
        /\ (Parity + 1) - (i + 1) = Parity - i /\ Parity - i \in 0..(Parity - 1)
        /\ Parity + 1 - i \in 1..Parity /\ (Parity + 1 - i) - 1 = Parity - i
    BY <1>1, <2>1
  <2>3. h[RsK + i] = GfAdd[GfMul[h[RsK + j]][X]][w[RsK + i]]
    BY <1>8, <2>2
  <2>4. e[i + 1] = GfAdd[GfMul[e[j + 1]][X]][E[Parity - i]]
    BY <1>9, <2>2
  <2>5. w[RsK + i] = r[Parity + 1 - i] /\ E[Parity - i] = Up(r)[Parity - i]
    BY <1>3, <2>2
  <2>6. Up(r)[(Parity + 1 - i) - 1] = r[Parity + 1 - i]
    BY <2>2, RestIs
  <2>7. h[RsK + j] = e[j + 1]
    BY <1>12
  <2>8. h[RsK + i] = e[i + 1]
    BY <2>2, <2>3, <2>4, <2>5, <2>6, <2>7
  <2>9. QED
    BY <1>1, <2>1, <2>8
<1>13. h[RsK + Parity] = e[Parity + 1]
  <2>1. \A j \in 0..Parity : j \in Z
    <3> HIDE DEF Z
    <3>1. QED
      BY <1>1, <1>11, <1>12, Climb
  <2>2. Parity \in 0..Parity
    BY <1>1
  <2>3. QED
    BY <2>1, <2>2
<1>14. QED
  BY <1>1, <1>6, <1>7, <1>13 DEF w

\* What is sent is 0 at each root of the generator.
LEMMA SentRoot ==
  ASSUME NEW msg \in [1..RsK -> Symbol], NEW r \in Rests, NEW X \in Symbol,
         Eval(Generator, X) = 0,
         Val(Up(r), Parity, X) = GfMul[Horner(msg, X)][Val(Up(Generator), Parity, X)]
  PROVE  Horner(msg \o Reversed(r), X) = 0
<1> DEFINE P == Parity
           G == Up(Generator)
           R == Up(r)
           H == Horner(msg, X)
           E == [k \in Nat |-> IF k = P THEN H ELSE R[k]]
           F == Mixed(H, G, E)
<1>1. P \in Nat /\ P + 1 \in Nat /\ P + 1 >= P
  BY CodeFacts
<1>2. H \in Symbol
  BY MessageIs, HornerTyped
<1>3. R \in Coeffs /\ EndsAt(R, P)
  BY RestIs
<1>4. G \in Coeffs /\ EndsAt(G, P + 1) /\ G[P] = 1 /\ Val(G, P + 1, X) = 0
  BY DivisorIs
<1>5. Val(R, P, X) = GfMul[H][Val(G, P, X)]
  OBVIOUS
<1> HIDE DEF G, R, H
<1>6. /\ E \in Coeffs /\ E[P] = H /\ \A k \in Nat : k # P => E[k] = R[k]
  BY <1>1, <1>2, <1>3 DEF Coeffs
<1> HIDE DEF E
<1>7. Horner(msg \o Reversed(r), X) = Val(E, P + 1, X)
  <2>1. \A k \in 0..(P - 1) : E[k] = R[k]
    BY <1>1, <1>6
  <2>2. QED
    BY <1>6, <2>1, SentVal DEF H, R
<1>8. /\ F \in Coeffs /\ \A k \in Nat : F[k] = GfAdd[GfMul[H][G[k]]][E[k]]
      /\ \A n \in Nat, x \in Symbol : Val(F, n, x) = GfAdd[GfMul[H][Val(G, n, x)]][Val(E, n, x)]
  BY <1>2, <1>4, <1>6, MixedIs
<1> HIDE DEF F
<1>9. EndsAt(F, P)
  <2> SUFFICES ASSUME NEW k \in Nat, k >= P PROVE F[k] = 0
    BY DEF EndsAt
  <2>1. CASE k = P
    <3>1. GfMul[H][1] = GfMul[1][H] /\ GfMul[1][H] = H /\ GfAdd[H][H] = 0
      BY <1>2, CodeFacts, MulTurns, MulLaws, AddLaws
    <3>2. QED
      BY <1>4, <1>6, <1>8, <2>1, <3>1
  <2>2. CASE k # P
    <3>1. k >= P + 1
      BY <1>1, <2>2
    <3>2. G[k] = 0 /\ E[k] = 0
      BY <1>3, <1>4, <1>6, <2>2, <3>1 DEF EndsAt
    <3>3. GfMul[H][0] = 0 /\ GfAdd[0][0] = 0
      BY <1>2, CodeFacts, MulLaws, AddLaws
    <3>4. QED
      BY <1>8, <3>2, <3>3
  <2>3. QED
    BY <2>1, <2>2
<1>10. Val(F, P + 1, X) = Val(F, P, X)
  BY <1>1, <1>8, <1>9, ValPad
<1>11. Val(F, P + 1, X) = Val(E, P + 1, X)
  <2>1. Val(F, P + 1, X) = GfAdd[GfMul[H][0]][Val(E, P + 1, X)]
    BY <1>1, <1>4, <1>8
  <2>2. PICK y \in Symbol : y = Val(E, P + 1, X)
    BY <1>1, <1>6, ValTyped
  <2>3. GfMul[H][0] = 0 /\ GfAdd[0][y] = y
    BY <1>2, MulLaws, AddLaws
  <2>4. QED
    BY <2>1, <2>2, <2>3
<1>12. Val(F, P, X) = 0
  <2>1. Val(F, P, X) = GfAdd[GfMul[H][Val(G, P, X)]][Val(E, P, X)]
    BY <1>1, <1>8
  <2>2. Val(E, P, X) = Val(R, P, X)
    <3>1. \A k \in 0..(P - 1) : E[k] = R[k]
      BY <1>1, <1>6
    <3>2. QED
      BY <1>1, <3>1, ValSame
  <2>3. PICK y \in Symbol : y = Val(R, P, X)
    BY <1>1, <1>3, ValTyped
  <2>4. GfAdd[y][y] = 0
    BY AddLaws
  <2>5. QED
    BY <1>5, <2>1, <2>2, <2>3, <2>4
<1>13. QED
  BY <1>7, <1>10, <1>11, <1>12

\* What fec_encode makes of a message is a codeword: the syndromes of what it
\* sends are all 0.
THEOREM EncodeMakesCodewords ==
  \A msg \in [1..RsK -> Symbol] : Encode(msg) \in RsWords /\ IsCodeword(Encode(msg))
<1> SUFFICES ASSUME NEW msg \in [1..RsK -> Symbol]
             PROVE  Encode(msg) \in RsWords /\ IsCodeword(Encode(msg))
  OBVIOUS
<1>1. PICK f : Division(f, msg) /\ Encode(msg) = msg \o Reversed(f[RsK])
  BY EncodeRuns
<1>2. PICK r \in Rests : r = f[RsK]
  <2>1. RsK \in 0..RsK
    BY CodeFacts
  <2>2. QED
    BY <1>1, <2>1 DEF Division
<1> DEFINE w == msg \o Reversed(r)
           c == [i \in 0..(Parity - 1) |-> Horner(w, PowAlpha(i + 1))]
<1>3. w \in RsWords /\ Encode(msg) = w
  BY <1>1, <1>2, SentIs
<1>4. ASSUME NEW i \in 0..(Parity - 1) PROVE c[i] = 0
  <2>1. i + 1 \in 1..Parity /\ i + 1 \in Nat
    BY CodeFacts
  <2>2. PICK X \in Symbol : X = PowAlpha(i + 1)
    BY <2>1, PowIs
  <2>3. Eval(Generator, X) = 0
    BY <2>1, <2>2, GeneratorIs DEF Factored
  <2>4. Val(Up(r), Parity, X) = GfMul[Horner(msg, X)][Val(Up(Generator), Parity, X)]
    BY <1>1, <1>2, <2>3, RemainderVal
  <2>5. Horner(w, X) = 0
    BY <2>3, <2>4, SentRoot
  <2>6. QED
    BY <2>2, <2>5
<1>5. c \in [0..(Parity - 1) -> Symbol]
  BY <1>4, CodeFacts
<1>6. Syndromes(w) = Poly(Parity, c)
  BY DEF Syndromes
<1> HIDE DEF w, c
<1>7. \A i \in 1..Parity : Poly(Parity, c)[i] = c[i - 1]
  BY <1>5, CodeFacts, PolyIs
<1>8. ASSUME NEW i \in 1..Parity PROVE Syndromes(w)[i] = 0
  <2>1. i - 1 \in 0..(Parity - 1)
    BY CodeFacts
  <2>2. QED
    BY <1>4, <1>6, <1>7, <2>1
<1>9. IsCodeword(w)
  BY <1>8 DEF IsCodeword, AllZero
<1>10. QED
  BY <1>3, <1>9
-----------------------------------------------------------------------------
(* Quotients, and more about sums.                                         *)

\* No divisors of 0; a quotient is one; what is not 0 can be cancelled.
LEMMA MulNonzero == \A a, b \in Symbol \ {0} : GfMul[a][b] \in Symbol \ {0}
<1> SUFFICES ASSUME NEW a \in Symbol \ {0}, NEW b \in Symbol \ {0}
             PROVE  GfMul[a][b] \in Symbol \ {0}
  OBVIOUS
<1>1. PICK s \in 0..(2 * GfN - 1) : s = GfLog[a] + GfLog[b]
  BY MulIs
<1>2. GfMul[a][b] = GfExp[s]
  BY <1>1, MulIs
<1>3. QED
  BY <1>2, LogOfExp

LEMMA AddZero == \A a, b \in Symbol : GfAdd[a][b] = 0 => a = b
<1> SUFFICES ASSUME NEW a \in Symbol, NEW b \in Symbol, GfAdd[a][b] = 0
             PROVE  a = b
  OBVIOUS
<1>1. GfAdd[GfAdd[a][b]][b] = GfAdd[a][GfAdd[b][b]]
  BY AddGroups
<1>2. GfAdd[b][b] = 0 /\ GfAdd[a][0] = a /\ GfAdd[0][b] = b
  BY AddLaws
<1>3. QED
  BY <1>1, <1>2

LEMMA DivIs == \A a \in Symbol, b \in Symbol \ {0} : GfMul[GfDiv(a, b)][b] = a
<1> SUFFICES ASSUME NEW a \in Symbol, NEW b \in Symbol \ {0}
             PROVE  GfMul[GfDiv(a, b)][b] = a
  OBVIOUS
<1>1. CASE a = 0
  BY <1>1, MulLaws DEF GfDiv
<1>2. CASE a # 0
  <2>1. PICK x \in 0..(GfN - 1), y \in 0..(GfN - 1) : x = GfLog[a] /\ y = GfLog[b]
    BY <1>2, LogOfExp
  <2>2. GfExp[x] = a
    BY <1>2, <2>1, LogOfExp
  <2>3. GfN \in Nat
    BY CodeFacts
  <2>4. PICK s \in 0..(2 * GfN - 1) : s = x + GfN - y
    BY <2>3
  <2>5. PICK z \in 0..(GfN - 1) : z = (IF s < GfN THEN s ELSE s - GfN)
    <3>1. (IF s < GfN THEN s ELSE s - GfN) \in 0..(GfN - 1)
      BY <2>3
    <3>2. QED
      BY <3>1
  <2>6. GfDiv(a, b) = GfExp[s]
    BY <1>2, <2>1, <2>4 DEF GfDiv
  <2>7. GfExp[s] \in Symbol \ {0} /\ GfLog[GfExp[s]] = z
    BY <2>5, LogOfExp
  <2>8. GfMul[GfExp[s]][b] = GfExp[z + y]
    BY <2>1, <2>7, MulIs
  <2>9. CASE s < GfN
    <3>1. z + y \in GfN..(2 * GfN - 1) /\ (z + y) - GfN = x
      BY <2>3, <2>4, <2>5, <2>9
    <3>2. PICK t \in GfN..(2 * GfN - 1) : t = z + y /\ t - GfN = x
      BY <3>1
    <3>3. GfExp[t] = GfExp[t - GfN]
      BY LogOfExp
    <3>4. QED
      BY <2>2, <2>6, <2>8, <3>2, <3>3
  <2>10. CASE ~(s < GfN)
    <3>1. z + y = x
      BY <2>3, <2>4, <2>5, <2>10
    <3>2. QED
      BY <2>2, <2>6, <2>8, <3>1
  <2>11. QED
    BY <2>9, <2>10
<1>3. QED
  BY <1>1, <1>2

LEMMA MulCancels ==
  ASSUME NEW a \in Symbol, NEW b \in Symbol, NEW c \in Symbol \ {0}, GfMul[a][c] = GfMul[b][c]
  PROVE  a = b
<1>1. PICK p \in Symbol, d \in Symbol : p = GfMul[a][c] /\ d = GfAdd[a][b]
  BY MulIs, AddLaws
<1>2. GfMul[d][c] = GfAdd[p][p]
  BY <1>1, SumSpreads
<1>3. GfMul[d][c] = 0
  BY <1>2, AddLaws
<1>4. d = 0
  BY <1>3, MulNonzero
<1>5. QED
  BY <1>1, <1>4, AddZero

LEMMA DivMul == \A a \in Symbol, b \in Symbol \ {0} : GfDiv(GfMul[a][b], b) = a
<1> SUFFICES ASSUME NEW a \in Symbol, NEW b \in Symbol \ {0}
             PROVE  GfDiv(GfMul[a][b], b) = a
  OBVIOUS
<1>1. PICK p \in Symbol : p = GfMul[a][b]
  BY MulIs
<1>2. PICK q \in Symbol : q = GfDiv(p, b)
  BY MulIs
<1>3. GfMul[q][b] = GfMul[a][b]
  BY <1>1, <1>2, DivIs
<1>4. q = a
  BY <1>3, MulCancels
<1>5. QED
  BY <1>1, <1>2, <1>4

\* A sum of one term, and its last term apart.
LEMMA SumFirst ==
  ASSUME NEW c \in [0..0 -> Symbol]
  PROVE  Sum(0, c) = c[0]
<1>1. PICK z \in Nat : z = 0
  OBVIOUS
<1>2. PICK s : Partial(s, z, c) /\ Sum(z, c) = s[z]
  BY <1>1, SumRuns
<1>3. QED
  BY <1>1, <1>2 DEF Partial

LEMMA SumNext ==
  ASSUME NEW n \in Nat, NEW c \in [0..(n + 1) -> Symbol], NEW d \in [0..n -> Symbol],
         \A k \in 0..n : d[k] = c[k]
  PROVE  Sum(n + 1, c) = GfAdd[Sum(n, d)][c[n + 1]] /\ Sum(n, d) \in Symbol
<1>1. PICK s : Partial(s, n + 1, c) /\ Sum(n + 1, c) = s[n + 1]
  BY SumRuns
<1>2. PICK t : Partial(t, n, d) /\ Sum(n, d) = t[n]
  BY SumRuns
<1> DEFINE S == {k \in 0..n : s[k] = t[k]}
<1>3. 0 \in S
  BY <1>1, <1>2 DEF Partial
<1>4. ASSUME NEW k \in 0..(n - 1), k \in S
      PROVE  k + 1 \in S
  <2>1. k + 1 \in 1..n /\ (k + 1) - 1 = k /\ k + 1 \in 1..(n + 1) /\ k + 1 \in 0..n
    OBVIOUS
  <2>2. s[k + 1] = GfAdd[s[k]][c[k + 1]] /\ t[k + 1] = GfAdd[t[k]][d[k + 1]] /\ d[k + 1] = c[k + 1]
    BY <1>1, <1>2, <2>1 DEF Partial
  <2>3. QED
    BY <1>4, <2>1, <2>2
<1>5. n \in S
  <2>1. \A k \in 0..n : k \in S
    <3> HIDE DEF S
    <3>1. QED
      BY <1>3, <1>4, Climb
  <2>2. QED
    BY <2>1
<1>6. n + 1 \in 1..(n + 1) /\ (n + 1) - 1 = n
  OBVIOUS
<1>7. s[n + 1] = GfAdd[s[n]][c[n + 1]]
  BY <1>1, <1>6 DEF Partial
<1>8. t[n] \in Symbol
  BY <1>2 DEF Partial
<1>9. QED
  BY <1>1, <1>2, <1>5, <1>7, <1>8

\* The order of the terms does not matter.
Turned(c, d, n) == \A k \in 0..n : d[k] = c[n - k]

LEMMA SumTurned ==
  ASSUME NEW n \in Nat, NEW c \in [0..n -> Symbol], NEW d \in [0..n -> Symbol], Turned(c, d, n)
  PROVE  Sum(n, d) = Sum(n, c)
<1> DEFINE Fine(m) == \A u, v \in [0..m -> Symbol] : Turned(u, v, m) => Sum(m, v) = Sum(m, u)
           S       == {m \in 0..n : Fine(m)}
<1>1. 0 \in S
  <2>1. ASSUME NEW u \in [0..0 -> Symbol], NEW v \in [0..0 -> Symbol], Turned(u, v, 0)
        PROVE  Sum(0, v) = Sum(0, u)
    <3>1. v[0] = u[0]
      <4>1. 0 \in 0..0 /\ 0 - 0 = 0
        OBVIOUS
      <4>2. QED
        BY <2>1, <4>1 DEF Turned
    <3>2. QED
      BY <3>1, SumFirst
  <2>2. QED
    BY <2>1
<1>2. ASSUME NEW m \in 0..(n - 1), m \in S
      PROVE  m + 1 \in S
  <2>1. ASSUME NEW u \in [0..(m + 1) -> Symbol], NEW v \in [0..(m + 1) -> Symbol],
               Turned(u, v, m + 1)
        PROVE  Sum(m + 1, v) = Sum(m + 1, u)
    <3>1. PICK ud \in [0..m -> Symbol] : \A k \in 0..m : ud[k] = u[k + 1]
      <4>1. [k \in 0..m |-> u[k + 1]] \in [0..m -> Symbol]
        OBVIOUS
      <4>2. QED
        BY <4>1
    <3>2. PICK vd \in [0..m -> Symbol] : \A k \in 0..m : vd[k] = v[k]
      <4>1. [k \in 0..m |-> v[k]] \in [0..m -> Symbol]
        OBVIOUS
      <4>2. QED
        BY <4>1
    <3>3. m \in Nat /\ 0 \in 0..(m + 1) /\ m + 1 \in 0..(m + 1) /\ (m + 1) - (m + 1) = 0
      OBVIOUS
    <3>4. Turned(ud, vd, m)
      <4>1. ASSUME NEW k \in 0..m PROVE vd[k] = ud[m - k]
        <5>1. k \in 0..(m + 1) /\ m - k \in 0..m /\ (m - k) + 1 = (m + 1) - k
          OBVIOUS
        <5>2. vd[k] = v[k] /\ ud[m - k] = u[(m - k) + 1] /\ v[k] = u[(m + 1) - k]
          BY <2>1, <3>1, <3>2, <5>1 DEF Turned
        <5>3. QED
          BY <5>1, <5>2
      <4>2. QED
        BY <4>1 DEF Turned
    <3>5. v[m + 1] = u[0]
      <4>1. v[m + 1] = u[(m + 1) - (m + 1)]
        BY <2>1, <3>3 DEF Turned
      <4>2. QED
        BY <3>3, <4>1
    <3>6. Sum(m, vd) = Sum(m, ud)
      BY <1>2, <3>4
    <3>7. Sum(m + 1, u) = GfAdd[u[0]][Sum(m, ud)] /\ Sum(m, ud) \in Symbol
      BY <3>1, <3>3, SumSplits
    <3>8. Sum(m + 1, v) = GfAdd[Sum(m, vd)][v[m + 1]]
      BY <3>2, <3>3, SumNext
    <3>9. u[0] \in Symbol
      BY <3>3
    <3>10. PICK p \in Symbol, q \in Symbol : p = u[0] /\ q = Sum(m, ud)
      BY <3>7, <3>9
    <3>11. GfAdd[p][q] = GfAdd[q][p]
      BY AddLaws
    <3>12. QED
      BY <3>5, <3>6, <3>7, <3>8, <3>10, <3>11
  <2>2. m + 1 \in 0..n
    OBVIOUS
  <2>3. QED
    BY <2>1, <2>2
<1>3. n \in S
  <2>1. \A m \in 0..n : m \in S
    <3> HIDE DEF S
    <3>1. QED
      BY <1>1, <1>2, Climb
  <2>2. QED
    BY <2>1
<1>4. QED
  BY <1>3

\* A multiple of one and another one, a step of both sides.
MixesOn(s, u, v, a, b) ==
    GfAdd[GfAdd[GfMul[s][u]][v]][GfAdd[GfMul[s][a]][b]]
    = GfAdd[GfMul[s][GfAdd[u][a]]][GfAdd[v][b]]

LEMMA MixAdds ==
  ASSUME NEW s \in Symbol, NEW u \in Symbol, NEW v \in Symbol, NEW a \in Symbol, NEW b \in Symbol
  PROVE  MixesOn(s, u, v, a, b)
<1>1. PICK p \in Symbol, q \in Symbol : p = GfMul[s][u] /\ q = GfMul[s][a]
  BY MulIs
<1>2. GfAdd[GfAdd[p][v]][GfAdd[q][b]] = GfAdd[GfAdd[p][q]][GfAdd[v][b]]
  BY AddSwaps
<1>3. GfMul[s][GfAdd[u][a]] = GfAdd[p][q]
  BY <1>1, MulSpreads
<1>4. QED
  BY <1>1, <1>2, <1>3 DEF MixesOn

MixOf(e, s, c, d, n) == \A k \in 0..n : e[k] = GfAdd[GfMul[s][c[k]]][d[k]]

LEMMA SumMixed ==
  ASSUME NEW n \in Nat, NEW c \in [0..n -> Symbol], NEW d \in [0..n -> Symbol],
         NEW e \in [0..n -> Symbol], NEW s \in Symbol, MixOf(e, s, c, d, n)
  PROVE  Sum(n, e) = GfAdd[GfMul[s][Sum(n, c)]][Sum(n, d)]
<1>1. PICK f : Partial(f, n, c) /\ Sum(n, c) = f[n]
  BY SumRuns
<1>2. PICK g : Partial(g, n, d) /\ Sum(n, d) = g[n]
  BY SumRuns
<1>3. PICK h : Partial(h, n, e) /\ Sum(n, e) = h[n]
  BY SumRuns
<1> DEFINE S == {k \in 0..n : h[k] = GfAdd[GfMul[s][f[k]]][g[k]]}
<1>4. 0 \in S
  <2>1. f[0] = c[0] /\ g[0] = d[0] /\ h[0] = e[0] /\ 0 \in 0..n
    BY <1>1, <1>2, <1>3 DEF Partial
  <2>2. QED
    BY <2>1 DEF MixOf
<1>5. ASSUME NEW k \in 0..(n - 1), k \in S
      PROVE  k + 1 \in S
  <2>1. k + 1 \in 1..n /\ (k + 1) - 1 = k /\ k + 1 \in 0..n /\ k \in 0..n
    OBVIOUS
  <2>2. PICK u \in Symbol, v \in Symbol, a \in Symbol, b \in Symbol :
           u = f[k] /\ v = g[k] /\ a = c[k + 1] /\ b = d[k + 1]
    BY <1>1, <1>2, <2>1 DEF Partial
  <2>3. f[k + 1] = GfAdd[u][a] /\ g[k + 1] = GfAdd[v][b] /\ h[k + 1] = GfAdd[h[k]][e[k + 1]]
    BY <1>1, <1>2, <1>3, <2>1, <2>2 DEF Partial
  <2>4. h[k] = GfAdd[GfMul[s][u]][v] /\ e[k + 1] = GfAdd[GfMul[s][a]][b]
    BY <1>5, <2>1, <2>2 DEF MixOf
  <2>5. h[k + 1] = GfAdd[GfMul[s][GfAdd[u][a]]][GfAdd[v][b]]
    <3>1. MixesOn(s, u, v, a, b)
      BY MixAdds
    <3>2. QED
      BY <2>3, <2>4, <3>1 DEF MixesOn
  <2>6. QED
    BY <2>1, <2>3, <2>5
<1>6. n \in S
  <2>1. \A k \in 0..n : k \in S
    <3> HIDE DEF S
    <3>1. QED
      BY <1>4, <1>5, Climb
  <2>2. QED
    BY <2>1
<1>7. QED
  BY <1>1, <1>2, <1>3, <1>6

\* A sum with one term that may not be 0.
LEMMA SumAlone ==
  ASSUME NEW n \in Nat, NEW c \in [0..n -> Symbol], NEW a \in 0..n, \A k \in 0..n : k # a => c[k] = 0
  PROVE  Sum(n, c) = c[a]
<1>1. PICK s : Partial(s, n, c) /\ Sum(n, c) = s[n]
  BY SumRuns
<1> DEFINE S == {k \in 0..n : s[k] = IF k < a THEN 0 ELSE c[a]}
<1>2. 0 \in S
  <2>1. s[0] = c[0] /\ 0 \in 0..n
    BY <1>1 DEF Partial
  <2>2. QED
    BY <2>1
<1>3. ASSUME NEW k \in 0..(n - 1), k \in S
      PROVE  k + 1 \in S
  <2>1. k + 1 \in 1..n /\ (k + 1) - 1 = k /\ k + 1 \in 0..n /\ k \in 0..n
    OBVIOUS
  <2>2. s[k + 1] = GfAdd[s[k]][c[k + 1]]
    BY <1>1, <2>1 DEF Partial
  <2>3. c[a] \in Symbol /\ GfAdd[c[a]][0] = c[a] /\ GfAdd[0][c[a]] = c[a] /\ GfAdd[0][0] = 0
    BY CodeFacts, AddLaws
  <2>4. CASE k + 1 < a
    <3>1. k < a /\ k + 1 # a
      BY <2>4
    <3>2. s[k] = 0 /\ c[k + 1] = 0
      BY <1>3, <2>1, <3>1
    <3>3. QED
      BY <2>1, <2>2, <2>3, <2>4, <3>2
  <2>5. CASE k + 1 = a
    <3>1. k < a /\ ~(k + 1 < a)
      BY <2>5
    <3>2. s[k] = 0
      BY <1>3, <2>1, <3>1
    <3>3. QED
      BY <2>1, <2>2, <2>3, <2>5, <3>1, <3>2
  <2>6. CASE k + 1 > a
    <3>1. ~(k < a) /\ k + 1 # a /\ ~(k + 1 < a)
      BY <2>6
    <3>2. s[k] = c[a] /\ c[k + 1] = 0
      BY <1>3, <2>1, <3>1
    <3>3. QED
      BY <2>1, <2>2, <2>3, <3>1, <3>2
  <2>7. QED
    BY <2>4, <2>5, <2>6
<1>4. n \in S
  <2>1. \A k \in 0..n : k \in S
    <3> HIDE DEF S
    <3>1. QED
      BY <1>2, <1>3, Climb
  <2>2. QED
    BY <2>1
<1>5. ~(n < a)
  OBVIOUS
<1>6. QED
  BY <1>1, <1>4, <1>5
-----------------------------------------------------------------------------
(* Powers, and the power sums of a word: what its syndromes are.           *)

\* x^k, as the polynomial that has one coefficient.
Unit(k)  == [i \in Nat |-> IF i = k THEN 1 ELSE 0]
Pw(x, k) == Val(Unit(k), k + 1, x)

LEMMA UnitIs ==
  ASSUME NEW k \in Nat
  PROVE  /\ Unit(k) \in Coeffs /\ Down(Unit(k + 1)) = Unit(k)
         /\ Unit(k + 1)[0] = 0 /\ Unit(0)[0] = 1
<1>1. 0 \in Symbol /\ 1 \in Symbol
  BY CodeFacts
<1>2. Unit(k) \in Coeffs
  BY <1>1 DEF Unit, Coeffs
<1>3. Down(Unit(k + 1)) = Unit(k)
  <2>1. ASSUME NEW i \in Nat PROVE Unit(k + 1)[i + 1] = IF i = k THEN 1 ELSE 0
    BY DEF Unit
  <2>2. QED
    BY <2>1 DEF Down, Unit
<1>4. Unit(k + 1)[0] = 0 /\ Unit(0)[0] = 1
  BY DEF Unit
<1>5. QED
  BY <1>2, <1>3, <1>4

LEMMA PwIs ==
  ASSUME NEW x \in Symbol
  PROVE  /\ Pw(x, 0) = 1
         /\ \A k \in Nat : Pw(x, k) \in Symbol /\ Pw(x, k + 1) = GfMul[Pw(x, k)][x]
<1>1. Pw(x, 0) = 1
  <2>1. PICK z \in Nat : z = 0
    OBVIOUS
  <2>2. Unit(z) \in Coeffs /\ Unit(z)[0] = 1
    BY <2>1, UnitIs
  <2>3. PICK c \in Coeffs : c = Unit(z)
    BY <2>2
  <2>4. /\ Val(c, z + 1, x) = GfAdd[GfMul[Val(Down(c), z, x)][x]][c[0]]
        /\ Down(c) \in Coeffs
    BY ValNext, DownIs
  <2>5. Val(Down(c), 0, x) = 0
    BY <2>4, ValStart
  <2>6. GfMul[0][x] = 0 /\ GfAdd[0][1] = 1
    BY MulLaws, AddLaws, CodeFacts
  <2>7. QED
    BY <2>1, <2>2, <2>3, <2>4, <2>5, <2>6 DEF Pw
<1>2. ASSUME NEW k \in Nat PROVE Pw(x, k) \in Symbol
  BY UnitIs, ValTyped DEF Pw
<1>3. ASSUME NEW k \in Nat PROVE Pw(x, k + 1) = GfMul[Pw(x, k)][x]
  <2>1. PICK n \in Nat, c \in Coeffs : n = k + 1 /\ c = Unit(k + 1)
    BY UnitIs
  <2>2. Val(c, n + 1, x) = GfAdd[GfMul[Val(Down(c), n, x)][x]][c[0]]
    BY ValNext
  <2>3. Down(c) = Unit(k) /\ c[0] = 0
    BY <2>1, UnitIs
  <2>4. Pw(x, k + 1) = Val(c, n + 1, x) /\ Pw(x, k) = Val(Unit(k), n, x)
    BY <2>1 DEF Pw
  <2>5. PICK p \in Symbol : p = GfMul[Pw(x, k)][x]
    BY <1>2, MulIs
  <2>6. GfAdd[p][0] = p
    BY AddLaws
  <2>7. QED
    BY <2>2, <2>3, <2>4, <2>5, <2>6
<1>4. QED
  BY <1>1, <1>2, <1>3

LEMMA PwNonzero ==
  ASSUME NEW x \in Symbol \ {0}, NEW n \in Nat
  PROVE  Pw(x, n) \in Symbol \ {0}
<1> DEFINE S == {k \in 0..n : Pw(x, k) \in Symbol \ {0}}
<1>1. 0 \in S
  <2>1. Pw(x, 0) = 1
    BY PwIs
  <2>2. 1 \in Symbol
    BY CodeFacts
  <2>3. QED
    BY <2>1, <2>2
<1>2. ASSUME NEW k \in 0..(n - 1), k \in S PROVE k + 1 \in S
  <2>1. k \in Nat /\ k + 1 \in 0..n
    OBVIOUS
  <2>2. Pw(x, k + 1) = GfMul[Pw(x, k)][x]
    BY <2>1, PwIs
  <2>3. QED
    BY <1>2, <2>1, <2>2, MulNonzero
<1>3. \A k \in 0..n : k \in S
  <2> HIDE DEF S
  <2>1. QED
    BY <1>1, <1>2, Climb
<1>4. QED
  BY <1>3

\* A power of a product.
LEMMA PwMul ==
  ASSUME NEW x \in Symbol, NEW y \in Symbol, NEW n \in Nat
  PROVE  Pw(GfMul[x][y], n) = GfMul[Pw(x, n)][Pw(y, n)]
<1>1. PICK z \in Symbol : z = GfMul[x][y]
  BY MulIs
<1> DEFINE S == {k \in 0..n : Pw(z, k) = GfMul[Pw(x, k)][Pw(y, k)]}
<1>2. 0 \in S
  <2>1. Pw(z, 0) = 1 /\ Pw(x, 0) = 1 /\ Pw(y, 0) = 1 /\ GfMul[1][1] = 1
    BY PwIs, MulLaws, CodeFacts
  <2>2. QED
    BY <2>1
<1>3. ASSUME NEW k \in 0..(n - 1), k \in S PROVE k + 1 \in S
  <2>1. k \in Nat /\ k + 1 \in 0..n
    OBVIOUS
  <2>2. PICK p \in Symbol, q \in Symbol : p = Pw(x, k) /\ q = Pw(y, k)
    BY <2>1, PwIs
  <2>3. /\ Pw(x, k + 1) = GfMul[p][x] /\ Pw(y, k + 1) = GfMul[q][y]
        /\ Pw(z, k + 1) = GfMul[Pw(z, k)][z] /\ Pw(z, k) = GfMul[p][q]
    BY <1>3, <2>1, <2>2, PwIs
  <2>4. GfMul[GfMul[p][q]][GfMul[x][y]] = GfMul[GfMul[p][x]][GfMul[q][y]]
    <3>1. PICK xy \in Symbol, qy \in Symbol, xq \in Symbol :
             xy = GfMul[x][y] /\ qy = GfMul[q][y] /\ xq = GfMul[x][q]
      BY MulIs
    <3>2. GfMul[GfMul[p][q]][xy] = GfMul[p][GfMul[q][xy]]
      BY MulGroups
    <3>3. GfMul[GfMul[p][x]][qy] = GfMul[p][GfMul[x][qy]]
      BY MulGroups
    <3>4. GfMul[GfMul[q][x]][y] = GfMul[q][GfMul[x][y]]
      BY MulGroups
    <3>5. GfMul[GfMul[x][q]][y] = GfMul[x][GfMul[q][y]]
      BY MulGroups
    <3>6. GfMul[q][x] = GfMul[x][q]
      BY MulTurns
    <3>7. QED
      BY <3>1, <3>2, <3>3, <3>4, <3>5, <3>6
  <2>5. QED
    BY <1>1, <2>1, <2>3, <2>4
<1>4. \A k \in 0..n : k \in S
  <2> HIDE DEF S
  <2>1. QED
    BY <1>2, <1>3, Climb
<1>5. QED
  BY <1>1, <1>4

LEMMA PwOne ==
  ASSUME NEW n \in Nat
  PROVE  Pw(1, n) = 1
<1>1. PICK u \in Symbol : u = 1
  BY CodeFacts
<1> DEFINE S == {k \in 0..n : Pw(u, k) = 1}
<1>2. 0 \in S
  BY PwIs
<1>3. ASSUME NEW k \in 0..(n - 1), k \in S PROVE k + 1 \in S
  <2>1. k \in Nat /\ k + 1 \in 0..n
    OBVIOUS
  <2>2. Pw(u, k + 1) = GfMul[Pw(u, k)][u] /\ GfMul[1][u] = u
    BY <2>1, PwIs, MulLaws
  <2>3. QED
    BY <1>1, <1>3, <2>1, <2>2
<1>4. \A k \in 0..n : k \in S
  <2> HIDE DEF S
  <2>1. QED
    BY <1>2, <1>3, Climb
<1>5. QED
  BY <1>1, <1>4

\* The powers of alpha are its powers.
LEMMA AlphaNext ==
  ASSUME NEW e \in Nat
  PROVE  PowAlpha(e + 1) = GfMul[PowAlpha(e)][PowAlpha(1)]
<1>1. GfN \in Nat /\ GfN > 0
  BY CodeFacts
<1>2. PICK x \in 0..(GfN - 1), y \in 0..(GfN - 1) : x = e % GfN /\ y = 1 % GfN
  BY <1>1, DivMod
<1>3. y = IF GfN = 1 THEN 0 ELSE 1
  <2>1. CASE GfN = 1
    BY <1>2, <2>1
  <2>2. CASE GfN # 1
    <3>1. 1 \in 0..(GfN - 1)
      BY <1>1, <2>2
    <3>2. 1 % GfN = 1
      BY <1>1, <3>1, ModWithin
    <3>3. QED
      BY <1>2, <2>2, <3>2
  <2>3. QED
    BY <2>1, <2>2
<1>4. (e + 1) % GfN = IF x + 1 = GfN THEN 0 ELSE x + 1
  BY <1>1, <1>2, ModNext
<1>5. /\ GfExp[x] \in Symbol \ {0} /\ GfExp[y] \in Symbol \ {0}
      /\ GfLog[GfExp[x]] = x /\ GfLog[GfExp[y]] = y
  BY FieldAssumption
<1>6. GfMul[GfExp[x]][GfExp[y]] = GfExp[x + y]
  BY <1>5, MulIs
<1>7. PowAlpha(e) = GfExp[x] /\ PowAlpha(1) = GfExp[y] /\ PowAlpha(e + 1) = GfExp[(e + 1) % GfN]
  BY <1>2 DEF PowAlpha
<1>8. GfExp[GfN + 0] = GfExp[0] /\ GfN + 0 = GfN
  BY <1>1, FieldAssumption
<1>9. CASE x + 1 = GfN
  <2>1. x + y = GfN \/ (x + y = 0 /\ GfN = 1)
    BY <1>1, <1>3, <1>9
  <2>2. GfExp[x + y] = GfExp[0]
    BY <1>8, <2>1
  <2>3. (e + 1) % GfN = 0
    BY <1>4, <1>9
  <2>4. QED
    BY <1>6, <1>7, <2>2, <2>3
<1>10. CASE x + 1 # GfN
  <2>1. x + y = x + 1
    BY <1>1, <1>3, <1>10
  <2>2. (e + 1) % GfN = x + 1
    BY <1>4, <1>10
  <2>3. QED
    BY <1>6, <1>7, <2>1, <2>2
<1>11. QED
  BY <1>9, <1>10

LEMMA AlphaPower ==
  ASSUME NEW n \in Nat
  PROVE  PowAlpha(n) = Pw(PowAlpha(1), n)
<1>1. PICK a \in Symbol : a = PowAlpha(1)
  BY PowIs
<1> DEFINE S == {k \in 0..n : PowAlpha(k) = Pw(a, k)}
<1>2. 0 \in S
  <2>1. PowAlpha(0) = 1
    <3>1. GfN \in Nat /\ 0 \in 0..(GfN - 1) /\ GfExp[0] = 1
      BY CodeFacts, FieldAssumption
    <3>2. QED
      BY <3>1, PowIs
  <2>2. QED
    BY <2>1, PwIs
<1>3. ASSUME NEW k \in 0..(n - 1), k \in S PROVE k + 1 \in S
  <2>1. k \in Nat /\ k + 1 \in 0..n
    OBVIOUS
  <2>2. Pw(a, k + 1) = GfMul[Pw(a, k)][a]
    BY <2>1, PwIs
  <2>3. PowAlpha(k + 1) = GfMul[PowAlpha(k)][PowAlpha(1)]
    BY <2>1, AlphaNext
  <2>4. QED
    BY <1>1, <1>3, <2>1, <2>2, <2>3
<1>4. \A k \in 0..n : k \in S
  <2> HIDE DEF S
  <2>1. QED
    BY <1>2, <1>3, Climb
<1>5. QED
  BY <1>1, <1>4

\* alpha^i to the e is alpha^e to the i.
LEMMA PowerTurns ==
  ASSUME NEW n \in Nat, NEW e \in Nat
  PROVE  Pw(PowAlpha(n), e) = Pw(PowAlpha(e), n)
<1>1. PICK a \in Symbol, b \in Symbol : a = PowAlpha(1) /\ b = PowAlpha(e)
  BY PowIs
<1>2. Pw(a, e) = b
  BY <1>1, AlphaPower
<1> DEFINE S == {k \in 0..n : Pw(PowAlpha(k), e) = Pw(b, k)}
<1>3. 0 \in S
  <2>1. PowAlpha(0) = Pw(a, 0)
    BY <1>1, AlphaPower
  <2>2. Pw(a, 0) = 1 /\ Pw(b, 0) = 1 /\ Pw(1, e) = 1
    BY PwIs, PwOne
  <2>3. QED
    BY <2>1, <2>2
<1>4. ASSUME NEW k \in 0..(n - 1), k \in S PROVE k + 1 \in S
  <2>1. k \in Nat /\ k + 1 \in 0..n
    OBVIOUS
  <2>2. PICK p \in Symbol : p = PowAlpha(k)
    BY <2>1, PowIs
  <2>3. PowAlpha(k + 1) = GfMul[p][a]
    BY <1>1, <2>1, <2>2, AlphaNext
  <2>4. Pw(GfMul[p][a], e) = GfMul[Pw(p, e)][Pw(a, e)]
    BY PwMul
  <2>5. Pw(b, k + 1) = GfMul[Pw(b, k)][b]
    BY <2>1, PwIs
  <2>6. QED
    BY <1>2, <1>4, <2>1, <2>2, <2>3, <2>4, <2>5
<1>5. \A k \in 0..n : k \in S
  <2> HIDE DEF S
  <2>1. QED
    BY <1>3, <1>4, Climb
<1>6. QED
  BY <1>1, <1>5

\* No two symbols have the same locator.
LEMMA LocatorsApart ==
  /\ \A j \in Pos : Locator(j) \in Symbol \ {0} /\ InvLocator(j) \in Symbol \ {0}
                    /\ RsN - j \in Nat /\ Locator(j) = PowAlpha(RsN - j)
  /\ \A i, j \in Pos : Locator(i) = Locator(j) => i = j
<1>1. GfN \in Nat /\ GfN > 0 /\ RsN \in Nat /\ RsN <= GfN /\ Pos = 1..RsN
  BY CodeFacts
<1>2. ASSUME NEW j \in Pos
      PROVE  /\ Locator(j) \in Symbol \ {0} /\ InvLocator(j) \in Symbol \ {0}
             /\ RsN - j \in Nat /\ Locator(j) = PowAlpha(RsN - j)
             /\ GfLog[Locator(j)] = RsN - j
  <2>1. PICK e \in 0..(GfN - 1) : e = RsN - j
    BY <1>1
  <2>2. e \in Nat /\ e \in 0..(2 * GfN - 1)
    BY <1>1
  <2>3. Locator(j) = GfExp[e] /\ Locator(j) \in Symbol \ {0}
    BY <2>1, <2>2, PowIs DEF Locator
  <2>4. GfLog[GfExp[e]] = e
    BY FieldAssumption
  <2>5. InvLocator(j) \in Symbol \ {0}
    <3>1. GfMul[Locator(j)][InvLocator(j)] = 1 /\ InvLocator(j) \in Symbol
      BY LocatorIs
    <3>2. GfMul[Locator(j)][0] = 0
      BY <2>3, MulLaws
    <3>3. QED
      BY <3>1, <3>2
  <2>6. QED
    BY <2>1, <2>2, <2>3, <2>4, <2>5 DEF Locator
<1>3. ASSUME NEW i \in Pos, NEW j \in Pos, Locator(i) = Locator(j)
      PROVE  i = j
  <2>1. RsN - i = RsN - j
    BY <1>2, <1>3
  <2>2. QED
    BY <1>1, <2>1
<1>4. QED
  BY <1>2, <1>3
-----------------------------------------------------------------------------
(* Two functions with the same values, and two sums of the same terms.     *)

LEMMA SameFunction ==
  ASSUME NEW D, NEW R, NEW f \in [D -> R], NEW g \in [D -> R], \A x \in D : f[x] = g[x]
  PROVE  f = g
OBVIOUS

LEMMA SameSequence ==
  ASSUME NEW n \in Nat, NEW c \in [0..n -> Symbol], NEW d \in [0..n -> Symbol],
         \A k \in 0..n : c[k] = d[k]
  PROVE  c = d
<1>1. PICK D : D = 0..n
  OBVIOUS
<1>2. c \in [D -> Symbol] /\ d \in [D -> Symbol] /\ \A k \in D : c[k] = d[k]
  BY <1>1
<1>3. QED
  BY <1>2, SameFunction

-----------------------------------------------------------------------------
(* Power sums.                                                             *)

\* What each symbol of z adds to the k-th power sum, that of x^0 first.
Share(z, k) == [i \in 0..(RsN - 1) |-> GfMul[z[RsN - i]][Pw(Locator(RsN - i), k)]]
Pows(z, k)  == Sum(RsN - 1, Share(z, k))

LEMMA ShareIs ==
  ASSUME NEW z \in RsWords, NEW k \in Nat
  PROVE  /\ RsN - 1 \in Nat /\ Share(z, k) \in [0..(RsN - 1) -> Symbol]
         /\ \A i \in 0..(RsN - 1) : /\ RsN - i \in Pos
                                    /\ Share(z, k)[i] = GfMul[z[RsN - i]][Pw(Locator(RsN - i), k)]
         /\ \A j \in Pos : /\ RsN - j \in 0..(RsN - 1)
                           /\ Share(z, k)[RsN - j] = GfMul[z[j]][Pw(Locator(j), k)]
<1>1. RsN \in Nat /\ RsN > 0 /\ Pos = 1..RsN
  BY CodeFacts
<1>2. \A i \in 0..(RsN - 1) : RsN - i \in Pos
  BY <1>1
<1>3. ASSUME NEW j \in Pos PROVE GfMul[z[j]][Pw(Locator(j), k)] \in Symbol
  <2>1. z[j] \in Symbol /\ Locator(j) \in Symbol
    BY LocatorsApart DEF RsWords
  <2>2. Pw(Locator(j), k) \in Symbol
    BY <2>1, PwIs
  <2>3. QED
    BY <2>1, <2>2, MulIs
<1>4. Share(z, k) \in [0..(RsN - 1) -> Symbol]
  BY <1>2, <1>3 DEF Share
<1>5. \A i \in 0..(RsN - 1) : Share(z, k)[i] = GfMul[z[RsN - i]][Pw(Locator(RsN - i), k)]
  BY DEF Share
<1>6. ASSUME NEW j \in Pos
      PROVE  /\ RsN - j \in 0..(RsN - 1)
             /\ Share(z, k)[RsN - j] = GfMul[z[j]][Pw(Locator(j), k)]
  <2>1. RsN - j \in 0..(RsN - 1) /\ RsN - (RsN - j) = j
    BY <1>1
  <2>2. QED
    BY <1>5, <2>1
<1>7. QED
  BY <1>1, <1>2, <1>4, <1>5, <1>6

LEMMA PowsTyped ==
  ASSUME NEW z \in RsWords, NEW k \in Nat
  PROVE  Pows(z, k) \in Symbol
<1>1. RsN - 1 \in Nat /\ Share(z, k) \in [0..(RsN - 1) -> Symbol]
  BY ShareIs
<1>2. QED
  BY <1>1, SumTyped DEF Pows

\* A multiple of one word and another one.
WordMix(v, s, z, u) == \A j \in Pos : v[j] = GfAdd[GfMul[s][z[j]]][u[j]]
MixTimes(s, z, u, p) ==
    GfMul[GfAdd[GfMul[s][z]][u]][p] = GfAdd[GfMul[s][GfMul[z][p]]][GfMul[u][p]]

LEMMA MixSpreads ==
  ASSUME NEW s \in Symbol, NEW z \in Symbol, NEW u \in Symbol, NEW p \in Symbol
  PROVE  MixTimes(s, z, u, p)
<1>1. PICK sz \in Symbol : sz = GfMul[s][z]
  BY MulIs
<1>2. GfMul[GfAdd[sz][u]][p] = GfAdd[GfMul[sz][p]][GfMul[u][p]]
  BY SumSpreads
<1>3. GfMul[GfMul[s][z]][p] = GfMul[s][GfMul[z][p]]
  BY MulGroups
<1>4. QED
  BY <1>1, <1>2, <1>3 DEF MixTimes

LEMMA PowsMixed ==
  ASSUME NEW z \in RsWords, NEW u \in RsWords, NEW v \in RsWords, NEW s \in Symbol,
         WordMix(v, s, z, u), NEW k \in Nat
  PROVE  Pows(v, k) = GfAdd[GfMul[s][Pows(z, k)]][Pows(u, k)]
<1>0. PICK n \in Nat : n = RsN - 1
  BY ShareIs
<1>1. PICK c \in [0..n -> Symbol], d \in [0..n -> Symbol], e \in [0..n -> Symbol] :
         c = Share(z, k) /\ d = Share(u, k) /\ e = Share(v, k)
  BY <1>0, ShareIs
<1>2. MixOf(e, s, c, d, n)
  <2>1. ASSUME NEW i \in 0..n
        PROVE  e[i] = GfAdd[GfMul[s][c[i]]][d[i]]
    <3>1. PICK j \in Pos : j = RsN - i
      BY <1>0, <1>1, ShareIs
    <3>2. PICK p \in Symbol : p = Pw(Locator(j), k)
      <4>1. Locator(j) \in Symbol
        BY LocatorsApart
      <4>2. QED
        BY <4>1, PwIs
    <3>3. /\ c[i] = GfMul[z[j]][p] /\ d[i] = GfMul[u[j]][p] /\ e[i] = GfMul[v[j]][p]
      BY <1>0, <1>1, <3>1, <3>2, ShareIs
    <3>4. PICK zj \in Symbol, uj \in Symbol : zj = z[j] /\ uj = u[j]
      BY DEF RsWords
    <3>5. v[j] = GfAdd[GfMul[s][zj]][uj]
      BY <3>4 DEF WordMix
    <3>6. MixTimes(s, zj, uj, p)
      BY MixSpreads
    <3>7. QED
      BY <3>3, <3>4, <3>5, <3>6 DEF MixTimes
  <2>2. QED
    BY <2>1 DEF MixOf
<1>3. Sum(n, e) = GfAdd[GfMul[s][Sum(n, c)]][Sum(n, d)]
  BY <1>2, SumMixed, SMTT(60)
<1>4. QED
  BY <1>0, <1>1, <1>3 DEF Pows

\* Each symbol times its locator: the next power sum.
Located(v, z) == \A j \in Pos : v[j] = GfMul[z[j]][Locator(j)]

LEMMA PowsNext ==
  ASSUME NEW z \in RsWords, NEW v \in RsWords, Located(v, z), NEW k \in Nat
  PROVE  Pows(v, k) = Pows(z, k + 1)
<1>1. PICK l \in Nat : l = k + 1
  OBVIOUS
<1>2. ASSUME NEW j \in Pos
      PROVE  GfMul[v[j]][Pw(Locator(j), k)] = GfMul[z[j]][Pw(Locator(j), l)]
  <2>1. PICK a \in Symbol, x \in Symbol : a = z[j] /\ x = Locator(j)
    BY LocatorsApart DEF RsWords
  <2>2. PICK p \in Symbol : p = Pw(x, k)
    BY PwIs
  <2>3. Pw(x, l) = GfMul[p][x]
    BY <1>1, <2>2, PwIs
  <2>4. v[j] = GfMul[a][x]
    BY <2>1 DEF Located
  <2>5. GfMul[GfMul[a][x]][p] = GfMul[a][GfMul[x][p]] /\ GfMul[x][p] = GfMul[p][x]
    BY MulGroups, MulTurns
  <2>6. QED
    BY <2>1, <2>2, <2>3, <2>4, <2>5
<1>3. ASSUME NEW i \in 0..(RsN - 1) PROVE Share(v, k)[i] = Share(z, l)[i]
  <2>1. RsN - i \in Pos
    BY ShareIs
  <2>2. Share(v, k)[i] = GfMul[v[RsN - i]][Pw(Locator(RsN - i), k)]
    BY ShareIs
  <2>3. Share(z, l)[i] = GfMul[z[RsN - i]][Pw(Locator(RsN - i), l)]
    BY ShareIs
  <2>4. QED
    BY <1>2, <2>1, <2>2, <2>3
<1>4. Share(v, k) = Share(z, l)
  <2>1. PICK n \in Nat : n = RsN - 1
    BY ShareIs
  <2>2. Share(v, k) \in [0..n -> Symbol] /\ Share(z, l) \in [0..n -> Symbol]
    BY <2>1, ShareIs
  <2>3. QED
    BY <1>3, <2>1, <2>2, SameSequence
<1>5. QED
  BY <1>1, <1>4 DEF Pows

\* A word with one symbol that may not be 0, and one with none.
LEMMA PowsAlone ==
  ASSUME NEW z \in RsWords, NEW a \in Pos, \A j \in Pos : j # a => z[j] = 0, NEW k \in Nat
  PROVE  Pows(z, k) = GfMul[z[a]][Pw(Locator(a), k)]
<1>0. PICK n \in Nat : n = RsN - 1
  BY ShareIs
<1>1. PICK c \in [0..n -> Symbol], b \in 0..n : c = Share(z, k) /\ b = RsN - a
  BY <1>0, ShareIs
<1>2. c[b] = GfMul[z[a]][Pw(Locator(a), k)]
  BY <1>0, <1>1, ShareIs
<1>3. ASSUME NEW i \in 0..n, i # b PROVE c[i] = 0
  <2>1. PICK j \in Pos : j = RsN - i
    BY <1>0, <1>1, ShareIs
  <2>2. j # a
    BY <1>0, <1>1, <1>3, <2>1, CodeFacts
  <2>3. c[i] = GfMul[z[j]][Pw(Locator(j), k)]
    BY <1>0, <1>1, <2>1, ShareIs
  <2>4. PICK p \in Symbol : p = Pw(Locator(j), k)
    <3>1. Locator(j) \in Symbol
      BY LocatorsApart
    <3>2. QED
      BY <3>1, PwIs
  <2>5. GfMul[0][p] = 0
    BY MulLaws
  <2>6. QED
    BY <2>2, <2>3, <2>4, <2>5
<1>4. Sum(n, c) = c[b]
  BY <1>3, SumAlone
<1>5. QED
  BY <1>0, <1>1, <1>2, <1>4 DEF Pows

LEMMA PowsNothing ==
  ASSUME NEW z \in RsWords, \A j \in Pos : z[j] = 0, NEW k \in Nat
  PROVE  Pows(z, k) = 0
<1>1. PICK a \in Pos : a = 1
  BY CodeFacts
<1>2. Pows(z, k) = GfMul[z[a]][Pw(Locator(a), k)]
  BY PowsAlone
<1>3. PICK p \in Symbol : p = Pw(Locator(a), k)
  <2>1. Locator(a) \in Symbol
    BY LocatorsApart
  <2>2. QED
    BY <2>1, PwIs
<1>4. GfMul[0][p] = 0
  BY MulLaws
<1>5. QED
  BY <1>2, <1>3, <1>4

-----------------------------------------------------------------------------
(* A word whose power sums vanish as often as it has symbols is 0.         *)

\* As many power sums in a row as there are symbols that may not be 0.
OnlyIn(z, D)        == \A j \in Pos \ D : z[j] = 0
Vanishing(z, k, n)  == \A i \in k..(k + n - 1) : Pows(z, i) = 0
Zero(z)             == \A j \in Pos : z[j] = 0
Independent(n) ==
    \A D \in SUBSET Pos, z \in RsWords, k \in Nat :
       Cardinality(D) = n /\ OnlyIn(z, D) /\ Vanishing(z, k, n) => Zero(z)

\* The step: each symbol times the difference of its locator and a's.
LEMMA OneLess ==
  ASSUME NEW n \in Nat, Independent(n), NEW D \in SUBSET Pos, Cardinality(D) = n + 1,
         NEW z \in RsWords, NEW k \in Nat, OnlyIn(z, D), Vanishing(z, k, n + 1)
  PROVE  Zero(z)
<1>1. IsFiniteSet(Pos) /\ IsFiniteSet(D)
  <2>1. IsFiniteSet(Pos)
    BY CodeFacts, FS_Interval
  <2>2. QED
    BY <2>1, FS_Subset
<1>2. PICK a \in D : TRUE
  <2>1. D # {}
    BY FS_EmptySet
  <2>2. QED
    BY <2>1
<1>3. PICK A \in SUBSET Pos : A = D \ {a} /\ Cardinality(A) = n
  <2>1. Cardinality(D \ {a}) = Cardinality(D) - 1
    BY <1>1, FS_RemoveElement
  <2>2. QED
    BY <2>1
<1>4. PICK x \in Symbol : x = Locator(a)
  BY LocatorsApart
<1>5. PICK u \in RsWords : Located(u, z)
  <2>1. [j \in Pos |-> GfMul[z[j]][Locator(j)]] \in RsWords
    BY LocatorsApart, MulIs DEF RsWords
  <2>2. QED
    BY <2>1 DEF Located
<1>6. PICK v \in RsWords : WordMix(v, x, z, u)
  <2>1. ASSUME NEW j \in Pos PROVE GfAdd[GfMul[x][z[j]]][u[j]] \in Symbol
    <3>1. GfMul[x][z[j]] \in Symbol /\ u[j] \in Symbol
      BY MulIs DEF RsWords
    <3>2. QED
      BY <3>1, AddLaws
  <2>2. [j \in Pos |-> GfAdd[GfMul[x][z[j]]][u[j]]] \in RsWords
    BY <2>1 DEF RsWords
  <2>3. QED
    BY <2>2 DEF WordMix
<1>7. ASSUME NEW j \in Pos
      PROVE  v[j] = GfMul[z[j]][GfAdd[Locator(j)][x]]
  <2>1. PICK b \in Symbol, y \in Symbol : b = z[j] /\ y = Locator(j)
    BY LocatorsApart DEF RsWords
  <2>2. u[j] = GfMul[b][y]
    BY <1>5, <2>1 DEF Located
  <2>3. v[j] = GfAdd[GfMul[x][b]][GfMul[b][y]]
    BY <1>6, <2>1, <2>2 DEF WordMix
  <2>4. GfMul[b][GfAdd[y][x]] = GfAdd[GfMul[b][y]][GfMul[b][x]]
    BY MulSpreads
  <2>5. PICK p \in Symbol, q \in Symbol : p = GfMul[b][y] /\ q = GfMul[b][x]
    BY MulIs
  <2>6. GfMul[x][b] = q
    BY <2>5, MulTurns
  <2>7. GfAdd[q][p] = GfAdd[p][q]
    BY AddLaws
  <2>8. QED
    BY <2>1, <2>3, <2>4, <2>5, <2>6, <2>7
<1>8. OnlyIn(v, A)
  <2>1. ASSUME NEW j \in Pos \ A PROVE v[j] = 0
    <3>1. CASE j = a
      <4>1. GfAdd[x][x] = 0 /\ z[j] \in Symbol
        BY AddLaws DEF RsWords
      <4>2. GfMul[z[j]][0] = 0
        BY <4>1, MulLaws
      <4>3. QED
        BY <1>4, <1>7, <3>1, <4>1, <4>2
    <3>2. CASE j # a
      <4>1. z[j] = 0
        BY <1>3, <3>2 DEF OnlyIn
      <4>2. PICK y \in Symbol : y = GfAdd[Locator(j)][x]
        BY LocatorsApart, AddLaws
      <4>3. GfMul[0][y] = 0
        BY MulLaws
      <4>4. QED
        BY <1>7, <4>1, <4>2, <4>3
    <3>3. QED
      BY <3>1, <3>2
  <2>2. QED
    BY <2>1 DEF OnlyIn
<1>9. Vanishing(v, k, n)
  <2>1. ASSUME NEW i \in k..(k + n - 1) PROVE Pows(v, i) = 0
    <3>1. i \in Nat /\ i \in k..(k + (n + 1) - 1) /\ i + 1 \in k..(k + (n + 1) - 1)
      OBVIOUS
    <3>2. Pows(z, i) = 0 /\ Pows(z, i + 1) = 0
      BY <3>1 DEF Vanishing
    <3>3. Pows(u, i) = Pows(z, i + 1)
      BY <1>5, <3>1, PowsNext
    <3>4. Pows(v, i) = GfAdd[GfMul[x][Pows(z, i)]][Pows(u, i)]
      BY <1>6, <3>1, PowsMixed
    <3>5. GfMul[x][0] = 0 /\ GfAdd[0][0] = 0
      BY MulLaws, AddLaws, CodeFacts
    <3>6. QED
      BY <3>2, <3>3, <3>4, <3>5
  <2>2. QED
    BY <2>1 DEF Vanishing
<1>10. Zero(v)
  BY <1>3, <1>8, <1>9 DEF Independent
<1>11. ASSUME NEW j \in Pos, j # a PROVE z[j] = 0
  <2>1. PICK y \in Symbol : y = GfAdd[Locator(j)][x]
    BY LocatorsApart, AddLaws
  <2>2. y # 0
    <3>1. Locator(j) \in Symbol /\ Locator(j) # x
      BY <1>4, <1>11, LocatorsApart
    <3>2. QED
      BY <2>1, <3>1, AddZero
  <2>3. GfMul[z[j]][y] = 0
    BY <1>7, <1>10, <2>1 DEF Zero
  <2>4. z[j] \in Symbol
    BY DEF RsWords
  <2>5. QED
    BY <2>2, <2>3, <2>4, MulNonzero
<1>12. z[a] = 0
  <2>1. Pows(z, k) = GfMul[z[a]][Pw(x, k)]
    BY <1>4, <1>11, PowsAlone
  <2>2. Pows(z, k) = 0
    <3>1. k \in k..(k + (n + 1) - 1)
      OBVIOUS
    <3>2. QED
      BY <3>1 DEF Vanishing
  <2>3. Pw(x, k) \in Symbol \ {0}
    BY <1>4, LocatorsApart, PwNonzero
  <2>4. z[a] \in Symbol
    BY DEF RsWords
  <2>5. QED
    BY <2>1, <2>2, <2>3, <2>4, MulNonzero
<1>13. QED
  BY <1>11, <1>12 DEF Zero

LEMMA PowersIndependent ==
  ASSUME NEW D \in SUBSET Pos, NEW z \in RsWords, OnlyIn(z, D), NEW k \in Nat,
         NEW n \in Nat, Cardinality(D) <= n, Vanishing(z, k, n)
  PROVE  Zero(z)
<1>1. IsFiniteSet(D)
  <2>1. IsFiniteSet(Pos)
    BY CodeFacts, FS_Interval
  <2>2. QED
    BY <2>1, FS_Subset
<1>2. PICK m \in Nat : m = Cardinality(D)
  BY <1>1, FS_CardinalityType
<1> DEFINE S == {i \in 0..m : Independent(i)}
<1>3. 0 \in S
  <2>1. ASSUME NEW A \in SUBSET Pos, NEW y \in RsWords, Cardinality(A) = 0, OnlyIn(y, A)
        PROVE  Zero(y)
    <3>1. IsFiniteSet(A)
      <4>1. IsFiniteSet(Pos)
        BY CodeFacts, FS_Interval
      <4>2. QED
        BY <4>1, FS_Subset
    <3>2. A = {}
      BY <2>1, <3>1, FS_EmptySet
    <3>3. QED
      BY <2>1, <3>2 DEF OnlyIn, Zero
  <2>2. Independent(0)
    BY <2>1 DEF Independent
  <2>3. QED
    BY <2>2
<1>4. ASSUME NEW i \in 0..(m - 1), i \in S PROVE i + 1 \in S
  <2>1. i \in Nat /\ Independent(i) /\ i + 1 \in 0..m
    BY <1>4
  <2>2. Independent(i + 1)
    <3>1. ASSUME NEW A \in SUBSET Pos, NEW y \in RsWords, NEW l \in Nat,
                 Cardinality(A) = i + 1, OnlyIn(y, A), Vanishing(y, l, i + 1)
          PROVE  Zero(y)
      BY <2>1, <3>1, OneLess
    <3>2. QED
      BY <3>1 DEF Independent
  <2>3. QED
    BY <2>1, <2>2
<1>5. \A i \in 0..m : i \in S
  <2> HIDE DEF S
  <2>1. QED
    BY <1>3, <1>4, Climb
<1>6. Independent(m)
  BY <1>5
<1>7. Vanishing(z, k, m)
  <2>1. ASSUME NEW i \in k..(k + m - 1) PROVE Pows(z, i) = 0
    <3>1. i \in k..(k + n - 1)
      BY <1>2
    <3>2. QED
      BY <3>1 DEF Vanishing
  <2>2. QED
    BY <2>1 DEF Vanishing
<1>8. QED
  BY <1>2, <1>6, <1>7 DEF Independent
-----------------------------------------------------------------------------
(* A word seen through a polynomial: each symbol times what the polynomial *)
(* is worth where that symbol would be a root.                             *)
Seen(z, c, n) == [j \in Pos |-> GfMul[z[j]][Val(c, n, InvLocator(j))]]

LEMMA SeenIs ==
  ASSUME NEW z \in RsWords, NEW c \in Coeffs, NEW n \in Nat
  PROVE  /\ Seen(z, c, n) \in RsWords
         /\ \A j \in Pos : /\ Val(c, n, InvLocator(j)) \in Symbol
                           /\ Seen(z, c, n)[j] = GfMul[z[j]][Val(c, n, InvLocator(j))]
<1>1. ASSUME NEW j \in Pos PROVE Val(c, n, InvLocator(j)) \in Symbol
  <2>1. InvLocator(j) \in Symbol
    BY LocatorIs
  <2>2. QED
    BY <2>1, ValTyped
<1>2. ASSUME NEW j \in Pos PROVE GfMul[z[j]][Val(c, n, InvLocator(j))] \in Symbol
  BY <1>1, MulIs DEF RsWords
<1>3. QED
  BY <1>1, <1>2 DEF Seen, RsWords

LEMMA SeenSame ==
  ASSUME NEW z \in RsWords, NEW c \in Coeffs, NEW d \in Coeffs, NEW m \in Nat, NEW n \in Nat,
         \A x \in Symbol : Val(c, m, x) = Val(d, n, x)
  PROVE  Seen(z, c, m) = Seen(z, d, n)
<1>1. \A j \in Pos : Val(c, m, InvLocator(j)) = Val(d, n, InvLocator(j))
  BY LocatorIs
<1>2. QED
  BY <1>1 DEF Seen

\* A factor of x takes a locator off.
Undone(a, p, x, X) == GfMul[GfMul[a][GfMul[p][x]]][X] = GfMul[a][p]

LEMMA TakenOff ==
  ASSUME NEW a \in Symbol, NEW p \in Symbol, NEW x \in Symbol, NEW X \in Symbol, GfMul[X][x] = 1
  PROVE  Undone(a, p, x, X)
<1>1. PICK q \in Symbol : q = GfMul[p][x]
  BY MulIs
<1>2. GfMul[GfMul[a][q]][X] = GfMul[a][GfMul[q][X]]
  BY MulGroups
<1>3. GfMul[q][X] = GfMul[p][GfMul[x][X]]
  BY <1>1, MulGroups
<1>4. GfMul[x][X] = 1
  BY MulTurns
<1>5. GfMul[p][1] = p
  <2>1. GfMul[p][1] = GfMul[1][p] /\ GfMul[1][p] = p
    BY MulLaws, CodeFacts
  <2>2. QED
    BY <2>1
<1>6. QED
  BY <1>1, <1>2, <1>3, <1>4, <1>5 DEF Undone

LEMMA RaisedLocated ==
  ASSUME NEW z \in RsWords, NEW c \in Coeffs, NEW n \in Nat
  PROVE  Located(Seen(z, c, n), Seen(z, Raised(c), n + 1))
<1>1. Raised(c) \in Coeffs /\ Down(Raised(c)) = c /\ Raised(c)[0] = 0 /\ n + 1 \in Nat
  BY RaisedIs
<1>2. ASSUME NEW j \in Pos
      PROVE  Seen(z, c, n)[j] = GfMul[Seen(z, Raised(c), n + 1)[j]][Locator(j)]
  <2>1. PICK x \in Symbol, X \in Symbol, a \in Symbol :
           x = InvLocator(j) /\ X = Locator(j) /\ a = z[j]
    BY LocatorIs DEF RsWords
  <2>2. PICK p \in Symbol : p = Val(c, n, x)
    BY ValTyped
  <2>3. GfMul[X][x] = 1
    BY <2>1, LocatorIs
  <2>4. Val(Raised(c), n + 1, x) = GfMul[p][x]
    <3>1. Val(Raised(c), n + 1, x) = GfAdd[GfMul[p][x]][0]
      BY <1>1, <2>2, ValNext
    <3>2. PICK q \in Symbol : q = GfMul[p][x]
      BY MulIs
    <3>3. GfAdd[q][0] = q
      BY AddLaws
    <3>4. QED
      BY <3>1, <3>2, <3>3
  <2>5. Seen(z, Raised(c), n + 1)[j] = GfMul[a][GfMul[p][x]]
    BY <1>1, <2>1, <2>4, SeenIs
  <2>6. Seen(z, c, n)[j] = GfMul[a][p]
    BY <2>1, <2>2, SeenIs
  <2>7. Undone(a, p, x, X)
    BY <2>3, TakenOff
  <2>8. QED
    BY <2>1, <2>5, <2>6, <2>7 DEF Undone
<1>3. QED
  BY <1>2 DEF Located

LEMMA SeenRaised ==
  ASSUME NEW z \in RsWords, NEW c \in Coeffs, NEW n \in Nat, NEW k \in Nat
  PROVE  Pows(Seen(z, Raised(c), n + 1), k + 1) = Pows(Seen(z, c, n), k)
<1>1. PICK v \in RsWords, u \in RsWords : v = Seen(z, c, n) /\ u = Seen(z, Raised(c), n + 1)
  <2>1. Raised(c) \in Coeffs /\ n + 1 \in Nat
    BY RaisedIs
  <2>2. QED
    BY <2>1, SeenIs
<1>2. Located(v, u)
  BY <1>1, RaisedLocated
<1>3. QED
  BY <1>1, <1>2, PowsNext

LEMMA SeenDown ==
  ASSUME NEW z \in RsWords, NEW c \in Coeffs, NEW n \in Nat
  PROVE  \E u \in RsWords : /\ Located(Seen(z, Down(c), n), u)
                            /\ WordMix(Seen(z, c, n + 1), c[0], z, u)
<1>1. PICK d \in Coeffs : d = Down(c)
  BY DownIs
<1>2. Raised(d) \in Coeffs /\ Down(Raised(d)) = d /\ Raised(d)[0] = 0 /\ n + 1 \in Nat
  BY RaisedIs
<1>3. PICK u \in RsWords : u = Seen(z, Raised(d), n + 1)
  BY <1>2, SeenIs
<1>4. Located(Seen(z, Down(c), n), u)
  BY <1>1, <1>3, RaisedLocated
<1>5. PICK f \in Symbol : f = c[0]
  BY DEF Coeffs
<1>6. ASSUME NEW j \in Pos PROVE Seen(z, c, n + 1)[j] = GfAdd[GfMul[f][z[j]]][u[j]]
  <2>1. PICK x \in Symbol, a \in Symbol : x = InvLocator(j) /\ a = z[j]
    BY LocatorIs DEF RsWords
  <2>2. PICK p \in Symbol : p = GfMul[Val(d, n, x)][x]
    BY ValTyped, MulIs
  <2>3. Val(c, n + 1, x) = GfAdd[p][f]
    BY <1>1, <1>5, <2>2, ValNext
  <2>4. Val(Raised(d), n + 1, x) = p
    <3>1. Val(Raised(d), n + 1, x) = GfAdd[p][0]
      BY <1>2, <2>2, ValNext
    <3>2. GfAdd[p][0] = p
      BY AddLaws
    <3>3. QED
      BY <3>1, <3>2
  <2>5. Seen(z, c, n + 1)[j] = GfMul[a][GfAdd[p][f]]
    BY <1>2, <2>1, <2>3, SeenIs
  <2>6. u[j] = GfMul[a][p]
    BY <1>2, <1>3, <2>1, <2>4, SeenIs
  <2>7. GfMul[a][GfAdd[p][f]] = GfAdd[GfMul[a][p]][GfMul[a][f]]
    BY MulSpreads
  <2>8. GfMul[a][f] = GfMul[f][a]
    BY MulTurns
  <2>9. PICK r \in Symbol, t \in Symbol : r = GfMul[a][p] /\ t = GfMul[f][a]
    BY MulIs
  <2>10. GfAdd[r][t] = GfAdd[t][r]
    BY AddLaws
  <2>11. QED
    BY <2>1, <2>5, <2>6, <2>7, <2>8, <2>9, <2>10
<1>7. WordMix(Seen(z, c, n + 1), c[0], z, u)
  BY <1>5, <1>6 DEF WordMix
<1>8. QED
  BY <1>4, <1>7

\* What a polynomial makes of the power sums of z, and of z.
Weighed(z, c, l, n) == [i \in 0..l |-> GfMul[c[i]][Pows(z, n - i)]]
Spectral(z, c, l, n) == Sum(l, Weighed(z, c, l, n)) = Pows(Seen(z, c, l + 1), n)

LEMMA WeighedIs ==
  ASSUME NEW z \in RsWords, NEW c \in Coeffs, NEW l \in Nat, NEW n \in Nat, n >= l
  PROVE  /\ Weighed(z, c, l, n) \in [0..l -> Symbol]
         /\ \A i \in 0..l : Weighed(z, c, l, n)[i] = GfMul[c[i]][Pows(z, n - i)]
<1>1. ASSUME NEW i \in 0..l PROVE GfMul[c[i]][Pows(z, n - i)] \in Symbol
  <2>1. i \in Nat /\ n - i \in Nat
    OBVIOUS
  <2>2. c[i] \in Symbol /\ Pows(z, n - i) \in Symbol
    BY <2>1, PowsTyped DEF Coeffs
  <2>3. QED
    BY <2>2, MulIs
<1>2. QED
  BY <1>1 DEF Weighed

LEMMA SpectralStart ==
  ASSUME NEW z \in RsWords, NEW c \in Coeffs, NEW n \in Nat
  PROVE  Spectral(z, c, 0, n)
<1>1. /\ Weighed(z, c, 0, n) \in [0..0 -> Symbol]
      /\ Weighed(z, c, 0, n)[0] = GfMul[c[0]][Pows(z, n)]
  <2>1. PICK l \in Nat : l = 0 /\ n >= l /\ l \in 0..l /\ n - l = n
    OBVIOUS
  <2>2. /\ Weighed(z, c, l, n) \in [0..l -> Symbol]
        /\ Weighed(z, c, l, n)[l] = GfMul[c[l]][Pows(z, n - l)]
    <3>1. n >= l
      BY <2>1
    <3>2. /\ Weighed(z, c, l, n) \in [0..l -> Symbol]
          /\ \A i \in 0..l : Weighed(z, c, l, n)[i] = GfMul[c[i]][Pows(z, n - i)]
      BY <3>1, WeighedIs
    <3>3. QED
      BY <2>1, <3>2
  <2>3. QED
    BY <2>1, <2>2
<1>2. Sum(0, Weighed(z, c, 0, n)) = GfMul[c[0]][Pows(z, n)]
  BY <1>1, SumFirst
<1>3. PICK u \in RsWords, d \in Coeffs : /\ d = Down(c) /\ Located(Seen(z, d, 0), u)
                                         /\ WordMix(Seen(z, c, 1), c[0], z, u)
  <2>1. \E u \in RsWords : /\ Located(Seen(z, Down(c), 0), u)
                           /\ WordMix(Seen(z, c, 0 + 1), c[0], z, u)
    BY SeenDown
  <2>2. 0 + 1 = 1 /\ Down(c) \in Coeffs
    BY DownIs
  <2>3. QED
    BY <2>1, <2>2
<1>4. PICK v \in RsWords, y \in RsWords : v = Seen(z, c, 1) /\ y = Seen(z, d, 0)
  BY SeenIs
<1>5. ASSUME NEW j \in Pos PROVE u[j] = 0
  <2>1. y[j] = 0
    <3>1. PICK a \in Symbol : a = z[j]
      BY DEF RsWords
    <3>2. Val(d, 0, InvLocator(j)) = 0
      BY LocatorIs, ValStart
    <3>3. GfMul[a][0] = 0
      BY MulLaws
    <3>4. QED
      BY <1>4, <3>1, <3>2, <3>3, SeenIs, SMTT(60)
  <2>2. y[j] = GfMul[u[j]][Locator(j)]
    BY <1>3, <1>4 DEF Located
  <2>3. u[j] \in Symbol /\ Locator(j) \in Symbol \ {0}
    BY LocatorsApart DEF RsWords
  <2>4. QED
    BY <2>1, <2>2, <2>3, MulNonzero
<1>6. Pows(u, n) = 0
  BY <1>5, PowsNothing
<1>7. PICK f \in Symbol : f = c[0]
  BY DEF Coeffs
<1>8. Pows(v, n) = GfAdd[GfMul[f][Pows(z, n)]][Pows(u, n)]
  BY <1>3, <1>4, <1>7, PowsMixed
<1>9. PICK q \in Symbol : q = GfMul[f][Pows(z, n)]
  BY PowsTyped, MulIs
<1>10. GfAdd[q][0] = q
  BY AddLaws
<1>11. 0 + 1 = 1
  OBVIOUS
<1>12. QED
  BY <1>2, <1>4, <1>6, <1>7, <1>8, <1>9, <1>10, <1>11 DEF Spectral

LEMMA SpectralStep ==
  ASSUME NEW z \in RsWords, NEW l \in Nat,
         \A c \in Coeffs, n \in Nat : n >= l => Spectral(z, c, l, n),
         NEW c \in Coeffs, NEW n \in Nat, n >= l + 1
  PROVE  Spectral(z, c, l + 1, n)
<1>1. PICK d \in Coeffs : d = Down(c) /\ \A k \in Nat : d[k] = c[k + 1]
  BY DownIs
<1>2. PICK m \in Nat : n = m + 1 /\ m >= l
  <2>1. n - 1 \in Nat /\ n = (n - 1) + 1 /\ n - 1 >= l
    OBVIOUS
  <2>2. QED
    BY <2>1
<1>3. PICK a \in [0..(l + 1) -> Symbol] :
         /\ a = Weighed(z, c, l + 1, n)
         /\ \A i \in 0..(l + 1) : a[i] = GfMul[c[i]][Pows(z, n - i)]
  <2>1. l + 1 \in Nat
    OBVIOUS
  <2>2. QED
    BY <2>1, WeighedIs
<1>4. PICK b \in [0..l -> Symbol] :
         /\ b = Weighed(z, d, l, m) /\ \A i \in 0..l : b[i] = GfMul[d[i]][Pows(z, m - i)]
  BY <1>2, WeighedIs
<1>5. ASSUME NEW k \in 0..l PROVE b[k] = a[k + 1]
  <2>1. k + 1 \in 0..(l + 1) /\ n - (k + 1) = m - k /\ k \in Nat
    BY <1>2
  <2>2. a[k + 1] = GfMul[c[k + 1]][Pows(z, m - k)]
    BY <1>3, <2>1
  <2>3. d[k] = c[k + 1]
    BY <1>1, <2>1
  <2>4. QED
    BY <1>4, <2>2, <2>3
<1>6. Sum(l + 1, a) = GfAdd[a[0]][Sum(l, b)]
  BY <1>5, SumSplits
<1>7. Sum(l, b) = Pows(Seen(z, d, l + 1), m)
  <2>1. Spectral(z, d, l, m)
    BY <1>2
  <2>2. QED
    BY <1>4, <2>1 DEF Spectral
<1>8. PICK u \in RsWords : /\ Located(Seen(z, d, l + 1), u)
                           /\ WordMix(Seen(z, c, (l + 1) + 1), c[0], z, u)
  <2>1. l + 1 \in Nat
    OBVIOUS
  <2>2. QED
    BY <1>1, <2>1, SeenDown
<1>9. PICK y \in RsWords, v \in RsWords : y = Seen(z, d, l + 1) /\ v = Seen(z, c, (l + 1) + 1)
  <2>1. l + 1 \in Nat /\ (l + 1) + 1 \in Nat
    OBVIOUS
  <2>2. QED
    BY <2>1, SeenIs
<1>10. Pows(y, m) = Pows(u, n)
  BY <1>2, <1>8, <1>9, PowsNext
<1>11. PICK f \in Symbol : f = c[0]
  BY DEF Coeffs
<1>12. Pows(v, n) = GfAdd[GfMul[f][Pows(z, n)]][Pows(u, n)]
  BY <1>8, <1>9, <1>11, PowsMixed
<1>13. a[0] = GfMul[f][Pows(z, n)]
  <2>1. 0 \in 0..(l + 1) /\ n - 0 = n
    OBVIOUS
  <2>2. a[0] = GfMul[c[0]][Pows(z, n - 0)]
    BY <1>3, <2>1
  <2>3. QED
    BY <1>11, <2>1, <2>2
<1>14. QED
  BY <1>3, <1>6, <1>7, <1>9, <1>10, <1>12, <1>13 DEF Spectral

LEMMA SeenSums ==
  ASSUME NEW z \in RsWords, NEW c \in Coeffs, NEW l \in Nat, NEW n \in Nat, n >= l
  PROVE  Sum(l, Weighed(z, c, l, n)) = Pows(Seen(z, c, l + 1), n)
<1> DEFINE S == {i \in 0..l : \A d \in Coeffs, m \in Nat : m >= i => Spectral(z, d, i, m)}
<1>1. 0 \in S
  BY SpectralStart
<1>2. ASSUME NEW i \in 0..(l - 1), i \in S PROVE i + 1 \in S
  <2>1. i \in Nat /\ i + 1 \in 0..l /\ \A d \in Coeffs, m \in Nat : m >= i => Spectral(z, d, i, m)
    BY <1>2
  <2>2. ASSUME NEW d \in Coeffs, NEW m \in Nat, m >= i + 1 PROVE Spectral(z, d, i + 1, m)
    BY <2>1, <2>2, SpectralStep
  <2>3. QED
    BY <2>1, <2>2
<1>3. \A i \in 0..l : i \in S
  <2> HIDE DEF S
  <2>1. QED
    BY <1>1, <1>2, Climb
<1>4. Spectral(z, c, l, n)
  BY <1>3
<1>5. QED
  BY <1>4 DEF Spectral
-----------------------------------------------------------------------------
(* Power sums through the decoder's polynomials: up to Parity + 1          *)
(* coefficients.                                                           *)
Through(z, c, k) == Pows(Seen(z, c, Parity + 1), k)
Lifted(c, m)     == [k \in Nat |-> IF k < m THEN 0 ELSE c[k - m]]

LEMMA ThroughTyped ==
  ASSUME NEW z \in RsWords, NEW c \in Coeffs, NEW k \in Nat
  PROVE  Through(z, c, k) \in Symbol /\ Seen(z, c, Parity + 1) \in RsWords
<1>1. Parity + 1 \in Nat
  BY CodeFacts
<1>2. Seen(z, c, Parity + 1) \in RsWords
  BY <1>1, SeenIs
<1>3. QED
  BY <1>2, PowsTyped DEF Through

LEMMA ThroughRaised ==
  ASSUME NEW z \in RsWords, NEW c \in Coeffs, EndsAt(c, Parity), NEW k \in Nat
  PROVE  Through(z, Raised(c), k + 1) = Through(z, c, k)
<1>1. PICK n \in Nat : n = Parity
  BY CodeFacts
<1>2. Pows(Seen(z, Raised(c), n + 1), k + 1) = Pows(Seen(z, c, n), k)
  BY SeenRaised
<1>3. Seen(z, c, n + 1) = Seen(z, c, n)
  <2>1. ASSUME NEW x \in Symbol PROVE Val(c, n + 1, x) = Val(c, n, x)
    <3>1. n + 1 \in Nat /\ n + 1 >= n
      OBVIOUS
    <3>2. QED
      BY <1>1, <3>1, ValPad
  <2>2. n + 1 \in Nat
    OBVIOUS
  <2>3. QED
    BY <2>1, <2>2, SeenSame
<1>4. QED
  BY <1>1, <1>2, <1>3 DEF Through

LEMMA LiftedIs ==
  ASSUME NEW c \in Coeffs, NEW m \in Nat
  PROVE  /\ Lifted(c, m) \in Coeffs
         /\ \A k \in Nat : Lifted(c, m)[k] = IF k < m THEN 0 ELSE c[k - m]
         /\ \A q \in Nat : EndsAt(c, q) => EndsAt(Lifted(c, m), q + m)
<1>1. ASSUME NEW k \in Nat PROVE (IF k < m THEN 0 ELSE c[k - m]) \in Symbol
  <2>1. ~(k < m) => k - m \in Nat
    OBVIOUS
  <2>2. QED
    BY <2>1, CodeFacts DEF Coeffs
<1>2. ASSUME NEW q \in Nat, EndsAt(c, q), NEW k \in Nat, k >= q + m PROVE Lifted(c, m)[k] = 0
  <2>1. ~(k < m) /\ k - m \in Nat /\ k - m >= q
    BY <1>2
  <2>2. QED
    BY <1>2, <2>1 DEF Lifted, EndsAt
<1>3. QED
  BY <1>1, <1>2 DEF Lifted, Coeffs, EndsAt

LEMMA LiftedStart ==
  ASSUME NEW c \in Coeffs
  PROVE  Lifted(c, 0) = c
<1>1. \A k \in Nat : ~(k < 0) /\ k - 0 = k
  OBVIOUS
<1>2. Lifted(c, 0) = [k \in Nat |-> c[k]]
  BY <1>1 DEF Lifted
<1>3. QED
  BY <1>2 DEF Coeffs

LEMMA LiftedNext ==
  ASSUME NEW c \in Coeffs, NEW m \in Nat
  PROVE  Lifted(c, m + 1) = Raised(Lifted(c, m))
<1>1. ASSUME NEW k \in Nat
      PROVE  (IF k < m + 1 THEN 0 ELSE c[k - (m + 1)]) = IF k = 0 THEN 0 ELSE Lifted(c, m)[k - 1]
  <2>1. CASE k < m + 1
    <3>1. k = 0 \/ (k # 0 /\ k - 1 \in Nat /\ k - 1 < m)
      BY <2>1
    <3>2. QED
      BY <2>1, <3>1 DEF Lifted
  <2>2. CASE ~(k < m + 1)
    <3>1. k # 0 /\ k - 1 \in Nat /\ ~(k - 1 < m) /\ k - (m + 1) = (k - 1) - m
      BY <2>2
    <3>2. QED
      BY <2>2, <3>1 DEF Lifted
  <2>3. QED
    BY <2>1, <2>2
<1>2. QED
  BY <1>1 DEF Lifted, Raised

LEMMA ThroughLifted ==
  ASSUME NEW z \in RsWords, NEW c \in Coeffs, NEW q \in Nat, EndsAt(c, q),
         NEW m \in Nat, q + m <= Parity + 1, NEW k \in Nat
  PROVE  Through(z, Lifted(c, m), k + m) = Through(z, c, k)
<1> DEFINE S == {i \in 0..m : Through(z, Lifted(c, i), k + i) = Through(z, c, k)}
<1>1. 0 \in S
  <2>1. k + 0 = k /\ 0 \in 0..m
    OBVIOUS
  <2>2. QED
    BY <2>1, LiftedStart
<1>2. ASSUME NEW i \in 0..(m - 1), i \in S PROVE i + 1 \in S
  <2>1. /\ i \in Nat /\ i + 1 \in 0..m /\ k + i \in Nat /\ k + (i + 1) = (k + i) + 1
        /\ Through(z, Lifted(c, i), k + i) = Through(z, c, k)
    BY <1>2
  <2>2. PICK d \in Coeffs : d = Lifted(c, i) /\ EndsAt(d, q + i)
    BY <2>1, LiftedIs
  <2>3. EndsAt(d, Parity)
    <3>1. q + i <= Parity
      BY <2>1, CodeFacts
    <3>2. \A j \in Nat : j >= Parity => j >= q + i
      BY <2>1, <3>1, CodeFacts
    <3>3. QED
      BY <2>2, <3>2 DEF EndsAt
  <2>4. Through(z, Raised(d), (k + i) + 1) = Through(z, d, k + i)
    BY <2>1, <2>3, ThroughRaised
  <2>5. Lifted(c, i + 1) = Raised(d)
    BY <2>1, <2>2, LiftedNext
  <2>6. Through(z, Lifted(c, i + 1), k + (i + 1)) = Through(z, c, k)
    BY <2>1, <2>2, <2>4, <2>5
  <2>7. QED
    BY <2>1, <2>6
<1>3. \A i \in 0..m : i \in S
  <2> HIDE DEF S
  <2>1. QED
    BY <1>1, <1>2, Climb
<1>4. QED
  BY <1>3

\* A multiple of one polynomial and another one.
LEMMA ThroughMixed ==
  ASSUME NEW z \in RsWords, NEW s \in Symbol, NEW c \in Coeffs, NEW d \in Coeffs, NEW k \in Nat
  PROVE  Through(z, Mixed(s, c, d), k) = GfAdd[GfMul[s][Through(z, c, k)]][Through(z, d, k)]
<1>1. PICK n \in Nat : n = Parity + 1
  BY CodeFacts
<1>2. PICK e \in Coeffs :
         /\ e = Mixed(s, c, d)
         /\ \A x \in Symbol : Val(e, n, x) = GfAdd[GfMul[s][Val(c, n, x)]][Val(d, n, x)]
  BY MixedIs
<1>3. PICK zc \in RsWords, zd \in RsWords, ze \in RsWords :
         zc = Seen(z, c, n) /\ zd = Seen(z, d, n) /\ ze = Seen(z, e, n)
  BY SeenIs
<1>4. ASSUME NEW j \in Pos PROVE ze[j] = GfAdd[GfMul[s][zc[j]]][zd[j]]
  <2>1. PICK x \in Symbol, a \in Symbol : x = InvLocator(j) /\ a = z[j]
    BY LocatorIs DEF RsWords
  <2>2. PICK p \in Symbol, r \in Symbol : p = Val(c, n, x) /\ r = Val(d, n, x)
    BY ValTyped
  <2>3. ze[j] = GfMul[a][GfAdd[GfMul[s][p]][r]]
    BY <1>2, <1>3, <2>1, <2>2, SeenIs
  <2>4. zc[j] = GfMul[a][p] /\ zd[j] = GfMul[a][r]
    BY <1>3, <2>1, <2>2, SeenIs
  <2>5. PICK sp \in Symbol : sp = GfMul[s][p]
    BY MulIs
  <2>6. GfMul[a][GfAdd[sp][r]] = GfAdd[GfMul[a][sp]][GfMul[a][r]]
    BY MulSpreads
  <2>7. GfMul[a][GfMul[s][p]] = GfMul[s][GfMul[a][p]]
    <3>1. GfMul[GfMul[a][s]][p] = GfMul[a][GfMul[s][p]]
      BY MulGroups
    <3>2. GfMul[GfMul[s][a]][p] = GfMul[s][GfMul[a][p]]
      BY MulGroups
    <3>3. GfMul[a][s] = GfMul[s][a]
      BY MulTurns
    <3>4. QED
      BY <3>1, <3>2, <3>3
  <2>8. QED
    BY <2>3, <2>4, <2>5, <2>6, <2>7
<1>5. WordMix(ze, s, zc, zd)
  BY <1>4 DEF WordMix
<1>6. Pows(ze, k) = GfAdd[GfMul[s][Pows(zc, k)]][Pows(zd, k)]
  BY <1>5, PowsMixed
<1>7. QED
  BY <1>1, <1>2, <1>3, <1>6 DEF Through

LEMMA ThroughSame ==
  ASSUME NEW z \in RsWords, NEW c \in Coeffs, NEW d \in Coeffs, \A k \in 0..Parity : c[k] = d[k]
  PROVE  Seen(z, c, Parity + 1) = Seen(z, d, Parity + 1)
<1>1. PICK n \in Nat : n = Parity + 1 /\ \A k \in 0..(n - 1) : c[k] = d[k]
  <2>1. Parity + 1 \in Nat /\ (Parity + 1) - 1 = Parity
    BY CodeFacts
  <2>2. QED
    BY <2>1
<1>2. \A x \in Symbol : Val(c, n, x) = Val(d, n, x)
  BY <1>1, ValSame
<1>3. QED
  BY <1>1, <1>2, SeenSame

\* A polynomial shorter than that sees as far.
LEMMA ThroughShort ==
  ASSUME NEW z \in RsWords, NEW c \in Coeffs, NEW q \in Nat, EndsAt(c, q), q <= Parity + 1
  PROVE  /\ Seen(z, c, Parity + 1) = Seen(z, c, q)
         /\ \A n \in Nat : n >= q => Seen(z, c, n) = Seen(z, c, q)
<1>1. Parity + 1 \in Nat /\ Parity + 1 >= q
  BY CodeFacts
<1>2. ASSUME NEW n \in Nat, n >= q PROVE Seen(z, c, n) = Seen(z, c, q)
  <2>1. \A x \in Symbol : Val(c, n, x) = Val(c, q, x)
    BY <1>2, ValPad
  <2>2. QED
    BY <2>1, SeenSame
<1>3. QED
  BY <1>1, <1>2

LEMMA ThroughSum ==
  ASSUME NEW z \in RsWords, NEW c \in Coeffs, NEW l \in Nat, EndsAt(c, l + 1), l <= Parity,
         NEW n \in Nat, n >= l
  PROVE  Sum(l, Weighed(z, c, l, n)) = Through(z, c, n)
<1>1. Sum(l, Weighed(z, c, l, n)) = Pows(Seen(z, c, l + 1), n)
  BY SeenSums
<1>2. PICK q \in Nat : q = l + 1 /\ q <= Parity + 1
  BY CodeFacts
<1>3. Seen(z, c, Parity + 1) = Seen(z, c, q)
  BY <1>2, ThroughShort
<1>4. QED
  BY <1>1, <1>2, <1>3 DEF Through

-----------------------------------------------------------------------------
(* A polynomial from its top, and the syndromes as power sums.             *)
Shortened(c, n) == [k \in Nat |-> IF k < n THEN c[k] ELSE 0]

LEMMA ValTop ==
  ASSUME NEW c \in Coeffs, NEW n \in Nat, NEW x \in Symbol
  PROVE  Val(c, n + 1, x) = GfAdd[Val(c, n, x)][GfMul[c[n]][Pw(x, n)]]
<1>1. PICK d \in Coeffs : /\ \A k \in Nat : d[k] = IF k < n THEN c[k] ELSE 0
                          /\ EndsAt(d, n)
  <2>1. Shortened(c, n) \in Coeffs
    BY CodeFacts DEF Shortened, Coeffs
  <2>2. \A k \in Nat : Shortened(c, n)[k] = IF k < n THEN c[k] ELSE 0
    BY DEF Shortened
  <2>3. EndsAt(Shortened(c, n), n)
    <3>1. \A k \in Nat : k >= n => ~(k < n)
      OBVIOUS
    <3>2. QED
      BY <2>2, <3>1 DEF EndsAt
  <2>4. QED
    BY <2>1, <2>2, <2>3
<1>2. PICK f \in Symbol : f = c[n]
  BY DEF Coeffs
<1>3. Unit(n) \in Coeffs /\ \A k \in Nat : Unit(n)[k] = IF k = n THEN 1 ELSE 0
  BY UnitIs DEF Unit
<1>4. PICK e \in Coeffs :
         /\ \A k \in Nat : e[k] = GfAdd[GfMul[f][Unit(n)[k]]][d[k]]
         /\ \A m \in Nat : Val(e, m, x) = GfAdd[GfMul[f][Val(Unit(n), m, x)]][Val(d, m, x)]
  BY <1>3, MixedIs
<1>5. ASSUME NEW k \in 0..n PROVE c[k] = e[k]
  <2>1. CASE k = n
    <3>1. Unit(n)[k] = 1 /\ d[k] = 0
      BY <1>1, <1>3, <2>1
    <3>2. GfMul[f][1] = f
      <4>1. GfMul[f][1] = GfMul[1][f] /\ GfMul[1][f] = f
        BY MulLaws, CodeFacts
      <4>2. QED
        BY <4>1
    <3>3. GfAdd[f][0] = f
      BY AddLaws
    <3>4. QED
      BY <1>2, <1>4, <2>1, <3>1, <3>2, <3>3
  <2>2. CASE k # n
    <3>1. k \in Nat /\ k < n
      BY <2>2
    <3>2. Unit(n)[k] = 0 /\ d[k] = c[k]
      BY <1>1, <1>3, <2>2, <3>1
    <3>3. PICK g \in Symbol : g = c[k]
      BY <3>1 DEF Coeffs
    <3>4. GfMul[f][0] = 0 /\ GfAdd[0][g] = g
      BY MulLaws, AddLaws
    <3>5. QED
      BY <1>4, <3>1, <3>2, <3>3, <3>4
  <2>3. QED
    BY <2>1, <2>2
<1>6. Val(c, n + 1, x) = Val(e, n + 1, x)
  <2>1. n + 1 \in Nat /\ (n + 1) - 1 = n
    OBVIOUS
  <2>2. \A k \in 0..((n + 1) - 1) : c[k] = e[k]
    BY <1>5, <2>1
  <2>3. QED
    BY <2>1, <2>2, ValSame
<1>7. Val(e, n + 1, x) = GfAdd[GfMul[f][Pw(x, n)]][Val(d, n + 1, x)]
  <2>1. n + 1 \in Nat
    OBVIOUS
  <2>2. QED
    BY <1>4, <2>1 DEF Pw
<1>8. Val(d, n + 1, x) = Val(c, n, x)
  <2>1. Val(d, n + 1, x) = Val(d, n, x)
    <3>1. n + 1 \in Nat /\ n + 1 >= n
      OBVIOUS
    <3>2. QED
      BY <1>1, <3>1, ValPad
  <2>2. \A k \in 0..(n - 1) : d[k] = c[k]
    <3>1. \A k \in 0..(n - 1) : k \in Nat /\ k < n
      OBVIOUS
    <3>2. QED
      BY <1>1, <3>1
  <2>3. Val(d, n, x) = Val(c, n, x)
    BY <2>2, ValSame
  <2>4. QED
    BY <2>1, <2>3
<1>9. PICK p \in Symbol, r \in Symbol : p = GfMul[f][Pw(x, n)] /\ r = Val(c, n, x)
  BY PwIs, MulIs, ValTyped
<1>10. GfAdd[p][r] = GfAdd[r][p]
  BY AddLaws
<1>11. QED
  BY <1>2, <1>6, <1>7, <1>8, <1>9, <1>10

\* The terms of a polynomial at x.
Valued(c, n, x) == [k \in 0..n |-> GfMul[c[k]][Pw(x, k)]]

LEMMA ValuedIs ==
  ASSUME NEW c \in Coeffs, NEW n \in Nat, NEW x \in Symbol
  PROVE  /\ Valued(c, n, x) \in [0..n -> Symbol]
         /\ \A k \in 0..n : Valued(c, n, x)[k] = GfMul[c[k]][Pw(x, k)]
<1>1. ASSUME NEW k \in 0..n PROVE GfMul[c[k]][Pw(x, k)] \in Symbol
  <2>1. c[k] \in Symbol /\ Pw(x, k) \in Symbol
    BY PwIs DEF Coeffs
  <2>2. QED
    BY <2>1, MulIs
<1>2. QED
  BY <1>1 DEF Valued

LEMMA ValSum ==
  ASSUME NEW c \in Coeffs, NEW n \in Nat, NEW x \in Symbol
  PROVE  Val(c, n + 1, x) = Sum(n, Valued(c, n, x))
<1> DEFINE S == {m \in 0..n : Val(c, m + 1, x) = Sum(m, Valued(c, m, x))}
<1>1. 0 \in S
  <2>1. Sum(0, Valued(c, 0, x)) = GfMul[c[0]][Pw(x, 0)]
    <3>1. PICK l \in Nat : l = 0 /\ l \in 0..l
      OBVIOUS
    <3>2. Valued(c, l, x) \in [0..l -> Symbol] /\ Valued(c, l, x)[l] = GfMul[c[l]][Pw(x, l)]
      BY <3>1, ValuedIs
    <3>3. QED
      BY <3>1, <3>2, SumFirst
  <2>2. Val(c, 0 + 1, x) = GfAdd[Val(c, 0, x)][GfMul[c[0]][Pw(x, 0)]]
    BY ValTop
  <2>3. PICK p \in Symbol : p = GfMul[c[0]][Pw(x, 0)]
    BY PwIs, MulIs DEF Coeffs
  <2>4. Val(c, 0, x) = 0 /\ GfAdd[0][p] = p
    BY ValStart, AddLaws
  <2>5. 0 \in 0..n
    OBVIOUS
  <2>6. QED
    BY <2>1, <2>2, <2>3, <2>4, <2>5
<1>2. ASSUME NEW m \in 0..(n - 1), m \in S PROVE m + 1 \in S
  <2>1. m \in Nat /\ m + 1 \in Nat /\ m + 1 \in 0..n /\ Val(c, m + 1, x) = Sum(m, Valued(c, m, x))
    BY <1>2
  <2>2. PICK a \in [0..(m + 1) -> Symbol] :
           a = Valued(c, m + 1, x) /\ \A k \in 0..(m + 1) : a[k] = GfMul[c[k]][Pw(x, k)]
    BY <2>1, ValuedIs
  <2>3. PICK b \in [0..m -> Symbol] :
           b = Valued(c, m, x) /\ \A k \in 0..m : b[k] = GfMul[c[k]][Pw(x, k)]
    BY <2>1, ValuedIs
  <2>4. \A k \in 0..m : b[k] = a[k]
    <3>1. \A k \in 0..m : k \in 0..(m + 1)
      BY <2>1
    <3>2. QED
      BY <2>2, <2>3, <3>1
  <2>5. Sum(m + 1, a) = GfAdd[Sum(m, b)][a[m + 1]]
    BY <2>1, <2>4, SumNext
  <2>6. Val(c, (m + 1) + 1, x) = GfAdd[Val(c, m + 1, x)][GfMul[c[m + 1]][Pw(x, m + 1)]]
    BY <2>1, ValTop
  <2>7. a[m + 1] = GfMul[c[m + 1]][Pw(x, m + 1)]
    <3>1. m + 1 \in 0..(m + 1)
      BY <2>1
    <3>2. QED
      BY <2>2, <3>1
  <2>8. Val(c, (m + 1) + 1, x) = Sum(m + 1, Valued(c, m + 1, x))
    BY <2>1, <2>2, <2>3, <2>5, <2>6, <2>7
  <2>9. QED
    BY <2>1, <2>8
<1>3. \A m \in 0..n : m \in S
  <2> HIDE DEF S
  <2>1. QED
    BY <1>1, <1>2, Climb
<1>4. QED
  BY <1>3

LEMMA HornerPows ==
  ASSUME NEW w \in RsWords, NEW e \in Nat
  PROVE  Horner(w, PowAlpha(e)) = Pows(w, e)
<1>1. PICK n \in Nat : n = RsN - 1 /\ RsN = n + 1 /\ Pos = 1..(n + 1)
  <2>1. RsN - 1 \in Nat /\ RsN = (RsN - 1) + 1
    BY CodeFacts
  <2>2. QED
    BY <2>1, CodeFacts
<1>2. PICK x \in Symbol : x = PowAlpha(e)
  BY PowIs
<1>3. PICK c \in Coeffs : \A k \in 0..n : c[k] = w[RsN - k]
  <2> DEFINE d == [k \in Nat |-> IF k <= n THEN w[RsN - k] ELSE 0]
  <2>1. ASSUME NEW k \in Nat PROVE (IF k <= n THEN w[RsN - k] ELSE 0) \in Symbol
    <3>1. k <= n => RsN - k \in Pos
      BY <1>1
    <3>2. QED
      BY <3>1, CodeFacts DEF RsWords
  <2>2. d \in Coeffs
    BY <2>1 DEF Coeffs
  <2>3. \A k \in 0..n : d[k] = w[RsN - k]
    OBVIOUS
  <2>4. QED
    BY <2>2, <2>3
<1>4. Val(c, n + 1, x) = Horner(w, x)
  <2>1. ASSUME NEW i \in 1..(n + 1) PROVE c[(n + 1) - i] = w[i]
    <3>1. (n + 1) - i \in 0..n /\ RsN - ((n + 1) - i) = i
      BY <1>1
    <3>2. QED
      BY <1>3, <3>1
  <2>2. [i \in 1..(n + 1) |-> c[(n + 1) - i]] = [i \in 1..(n + 1) |-> w[i]]
    BY <2>1
  <2>3. [i \in 1..(n + 1) |-> w[i]] = w
    BY <1>1 DEF RsWords
  <2>4. QED
    BY <2>2, <2>3 DEF Val
<1>5. Val(c, n + 1, x) = Sum(n, Valued(c, n, x))
  BY ValSum
<1>6. Valued(c, n, x) = Share(w, e)
  <2>1. ASSUME NEW k \in 0..n PROVE Valued(c, n, x)[k] = Share(w, e)[k]
    <3>1. RsN - k \in Pos /\ RsN - (RsN - k) = k /\ k \in Nat /\ k \in 0..(RsN - 1)
      BY <1>1
    <3>2. Locator(RsN - k) = PowAlpha(k)
      BY <3>1, LocatorsApart
    <3>3. Pw(x, k) = Pw(PowAlpha(k), e)
      BY <1>2, <3>1, PowerTurns
    <3>4. Share(w, e)[k] = GfMul[w[RsN - k]][Pw(Locator(RsN - k), e)]
      BY <3>1, ShareIs
    <3>5. Valued(c, n, x)[k] = GfMul[c[k]][Pw(x, k)]
      BY ValuedIs
    <3>6. QED
      BY <1>3, <3>2, <3>3, <3>4, <3>5
  <2>2. Valued(c, n, x) \in [0..n -> Symbol] /\ Share(w, e) \in [0..n -> Symbol]
    BY <1>1, ShareIs, ValuedIs
  <2>3. QED
    BY <2>1, <2>2, SameSequence
<1>7. QED
  BY <1>1, <1>2, <1>4, <1>5, <1>6 DEF Pows

LEMMA SyndromesAre ==
  ASSUME NEW w \in RsWords
  PROVE  /\ Syndromes(w) \in Seq(Symbol) /\ Len(Syndromes(w)) = Parity
         /\ \A k \in 0..(Parity - 1) : Syndromes(w)[k + 1] = Pows(w, k + 1)
         /\ \A k \in 0..(Parity - 1) : Up(Syndromes(w))[k] = Pows(w, k + 1)
<1> DEFINE f == [i \in 0..(Parity - 1) |-> Horner(w, PowAlpha(i + 1))]
<1>1. ASSUME NEW i \in 0..(Parity - 1)
      PROVE  f[i] = Pows(w, i + 1) /\ f[i] \in Symbol
  <2>1. i + 1 \in Nat
    BY CodeFacts
  <2>2. QED
    BY <2>1, HornerPows, PowsTyped
<1>2. Syndromes(w) = Poly(Parity, f)
  BY DEF Syndromes
<1>3. f \in [0..(Parity - 1) -> Symbol]
  BY <1>1
<1> HIDE DEF f
<1>4. /\ Syndromes(w) \in Seq(Symbol) /\ Len(Syndromes(w)) = Parity
      /\ \A i \in 1..Parity : Syndromes(w)[i] = f[i - 1]
      /\ \A k \in Nat : Coeff(Syndromes(w), k) = IF k < Parity THEN f[k] ELSE 0
  <2>1. PICK n \in Nat : n = Parity
    BY CodeFacts
  <2>2. f \in [0..(n - 1) -> Symbol]
    BY <1>3, <2>1
  <2>3. /\ Poly(n, f) \in Seq(Symbol) /\ Len(Poly(n, f)) = n
        /\ \A i \in 1..n : Poly(n, f)[i] = f[i - 1]
        /\ \A k \in Nat : Coeff(Poly(n, f), k) = IF k < n THEN f[k] ELSE 0
    BY <2>2, PolyIs
  <2>4. QED
    BY <1>2, <2>1, <2>3
<1>5. ASSUME NEW k \in 0..(Parity - 1)
      PROVE  Syndromes(w)[k + 1] = Pows(w, k + 1) /\ Up(Syndromes(w))[k] = Pows(w, k + 1)
  <2>1. k \in Nat /\ k < Parity /\ k + 1 \in 1..Parity /\ (k + 1) - 1 = k
    BY CodeFacts
  <2>2. Syndromes(w)[k + 1] = f[k]
    BY <1>4, <2>1
  <2>3. Up(Syndromes(w))[k] = f[k]
    BY <1>4, <2>1, UpIs
  <2>4. QED
    BY <1>1, <2>2, <2>3
<1>6. QED
  BY <1>4, <1>5

\* What the line added to a codeword has the syndromes of what was received.
LEMMA SyndromesOfError ==
  ASSUME NEW c \in RsWords, IsCodeword(c), NEW w \in RsWords, NEW e \in RsWords,
         WordMix(e, 1, w, c)
  PROVE  \A k \in 0..(Parity - 1) : Pows(w, k + 1) = Pows(e, k + 1)
<1>1. ASSUME NEW k \in 0..(Parity - 1) PROVE Pows(w, k + 1) = Pows(e, k + 1)
  <2>1. PICK l \in Nat : l = k + 1 /\ l \in 1..Parity
    BY CodeFacts
  <2>2. Pows(c, l) = 0
    <3>1. Syndromes(c)[k + 1] = Pows(c, k + 1)
      BY SyndromesAre
    <3>2. Syndromes(c)[l] = 0
      BY <2>1 DEF IsCodeword, AllZero
    <3>3. QED
      BY <2>1, <3>1, <3>2
  <2>3. PICK p \in Symbol : p = Pows(w, l)
    BY PowsTyped
  <2>4. Pows(e, l) = GfAdd[GfMul[1][p]][0]
    BY <2>2, <2>3, PowsMixed, CodeFacts
  <2>5. GfMul[1][p] = p /\ GfAdd[p][0] = p
    BY MulLaws, AddLaws
  <2>6. QED
    BY <2>1, <2>3, <2>4, <2>5
<1>2. QED
  BY <1>1

\* The syndromes times a polynomial are the power sums through it.
LEMMA TimesSeen ==
  ASSUME NEW S \in Seq(Symbol), NEW e \in RsWords,
         \A k \in 0..(Parity - 1) : Up(S)[k] = Pows(e, k + 1), NEW p \in Seq(Symbol)
  PROVE  \A k \in 0..(Parity - 1) : Up(Times(S, p, Parity))[k] = Pows(Seen(e, Up(p), k + 1), k + 1)
<1>1. ASSUME NEW k \in 0..(Parity - 1)
      PROVE  Up(Times(S, p, Parity))[k] = Pows(Seen(e, Up(p), k + 1), k + 1)
  <2>1. PICK a \in Coeffs, b \in Coeffs : a = Up(S) /\ b = Up(p)
    BY UpIs
  <2>2. k \in Nat /\ k + 1 \in Nat /\ k + 1 >= k
    BY CodeFacts
  <2>3. Up(Times(S, p, Parity))[k] = Sum(k, Terms(a, b, k))
    <3>1. Up(Times(S, p, Parity))[k] = Conv(a, b)[k]
      <4>1. Parity \in Nat
        BY CodeFacts
      <4>2. \A i \in 0..(Parity - 1) : Up(Times(S, p, Parity))[i] = Conv(Up(S), Up(p))[i]
        BY <4>1, TimesIs
      <4>3. QED
        BY <2>1, <4>2
    <3>2. QED
      BY <2>2, <3>1, ConvTyped
  <2>4. PICK c \in [0..k -> Symbol] :
           /\ c = Weighed(e, b, k, k + 1)
           /\ \A i \in 0..k : c[i] = GfMul[b[i]][Pows(e, (k + 1) - i)]
    BY <2>2, WeighedIs
  <2>5. PICK d \in [0..k -> Symbol] :
           d = Terms(a, b, k) /\ \A i \in 0..k : d[i] = GfMul[a[i]][b[k - i]]
    BY <2>2, TermsTyped
  <2>6. ASSUME NEW i \in 0..k PROVE d[i] = c[k - i]
    <3>1. k - i \in 0..k /\ (k + 1) - (k - i) = i + 1 /\ i \in 0..(Parity - 1) /\ i + 1 \in Nat
      BY CodeFacts
    <3>2. c[k - i] = GfMul[b[k - i]][Pows(e, i + 1)]
      BY <2>4, <3>1
    <3>3. a[i] = Pows(e, i + 1)
      BY <2>1, <3>1
    <3>4. PICK s \in Symbol, t \in Symbol : s = Pows(e, i + 1) /\ t = b[k - i]
      <4>1. k - i \in Nat
        BY <3>1
      <4>2. QED
        BY <3>1, <4>1, PowsTyped DEF Coeffs
    <3>5. GfMul[s][t] = GfMul[t][s]
      BY MulTurns
    <3>6. QED
      BY <2>5, <3>2, <3>3, <3>4, <3>5
  <2>7. Turned(c, d, k)
    BY <2>6 DEF Turned
  <2>8. Sum(k, d) = Sum(k, c)
    BY <2>2, <2>7, SumTurned
  <2>9. Sum(k, c) = Pows(Seen(e, b, k + 1), k + 1)
    BY <2>2, <2>4, SeenSums
  <2>10. QED
    BY <2>1, <2>3, <2>5, <2>8, <2>9
<1>2. QED
  BY <1>1
-----------------------------------------------------------------------------
(* Dividing by 1 - X x, and how many roots a polynomial has.               *)
QuotBy(c, X, Y) == [k \in Nat |-> GfMul[Pw(X, k)][Val(c, k + 1, Y)]]

\* The next power of X takes the new term's power of Y off.
CarriedBy(p, X, v, f, r, t) ==
    GfMul[GfMul[p][X]][GfAdd[v][GfMul[f][r]]] = GfAdd[f][GfMul[X][GfMul[p][v]]]

Carries(t, p, X, r) == t = GfMul[p][X] /\ GfMul[t][r] = 1

LEMMA CarriedOver ==
  ASSUME NEW p \in Symbol, NEW X \in Symbol, NEW v \in Symbol, NEW f \in Symbol, NEW r \in Symbol,
         NEW t \in Symbol, Carries(t, p, X, r)
  PROVE  CarriedBy(p, X, v, f, r, t)
<1>1. PICK g \in Symbol, h \in Symbol : g = GfMul[f][r] /\ h = GfMul[r][f]
  BY MulIs
<1>2. GfMul[t][GfAdd[v][g]] = GfAdd[GfMul[t][v]][GfMul[t][g]]
  BY MulSpreads
<1>3. GfMul[t][g] = f
  <2>1. g = h
    BY <1>1, MulTurns
  <2>2. GfMul[GfMul[t][r]][f] = GfMul[t][h]
    BY <1>1, MulGroups
  <2>3. GfMul[1][f] = f
    BY MulLaws
  <2>4. QED
    BY <2>1, <2>2, <2>3 DEF Carries
<1>4. GfMul[t][v] = GfMul[X][GfMul[p][v]]
  <2>1. GfMul[GfMul[X][p]][v] = GfMul[X][GfMul[p][v]]
    BY MulGroups
  <2>2. GfMul[X][p] = t
    BY MulTurns DEF Carries
  <2>3. QED
    BY <2>1, <2>2
<1>5. PICK a \in Symbol : a = GfMul[t][v]
  BY MulIs
<1>6. GfAdd[a][f] = GfAdd[f][a]
  BY AddLaws
<1>7. QED
  BY <1>1, <1>2, <1>3, <1>4, <1>5, <1>6 DEF CarriedBy, Carries

LEMMA QuotIs ==
  ASSUME NEW c \in Coeffs, NEW X \in Symbol, NEW Y \in Symbol, GfMul[X][Y] = 1
  PROVE  /\ QuotBy(c, X, Y) \in Coeffs /\ QuotBy(c, X, Y)[0] = c[0]
         /\ \A k \in Nat : QuotBy(c, X, Y)[k] = GfMul[Pw(X, k)][Val(c, k + 1, Y)]
         /\ \A k \in Nat : QuotBy(c, X, Y)[k + 1] = GfAdd[c[k + 1]][GfMul[X][QuotBy(c, X, Y)[k]]]
<1>1. ASSUME NEW k \in Nat PROVE GfMul[Pw(X, k)][Val(c, k + 1, Y)] \in Symbol
  <2>1. k + 1 \in Nat
    OBVIOUS
  <2>2. Pw(X, k) \in Symbol /\ Val(c, k + 1, Y) \in Symbol
    BY <2>1, PwIs, ValTyped
  <2>3. QED
    BY <2>2, MulIs
<1>2. PICK q \in Coeffs : /\ q = QuotBy(c, X, Y)
                          /\ \A k \in Nat : q[k] = GfMul[Pw(X, k)][Val(c, k + 1, Y)]
  <2>1. QuotBy(c, X, Y) \in [Nat -> Symbol]
    BY <1>1 DEF QuotBy
  <2>2. \A k \in Nat : QuotBy(c, X, Y)[k] = GfMul[Pw(X, k)][Val(c, k + 1, Y)]
    BY DEF QuotBy
  <2>3. QED
    BY <2>1, <2>2 DEF Coeffs
<1>3. q[0] = c[0]
  <2>1. PICK f \in Symbol : f = c[0]
    BY DEF Coeffs
  <2>2. Val(c, 0 + 1, Y) = GfAdd[Val(c, 0, Y)][GfMul[f][Pw(Y, 0)]]
    BY <2>1, ValTop
  <2>3. Val(c, 0, Y) = 0 /\ Pw(Y, 0) = 1 /\ Pw(X, 0) = 1
    BY ValStart, PwIs
  <2>4. GfMul[f][1] = f
    <3>1. GfMul[f][1] = GfMul[1][f] /\ GfMul[1][f] = f
      BY MulLaws, CodeFacts
    <3>2. QED
      BY <3>1
  <2>5. GfAdd[0][f] = f /\ GfMul[1][f] = f
    BY AddLaws, MulLaws
  <2>6. q[0] = GfMul[Pw(X, 0)][Val(c, 0 + 1, Y)]
    BY <1>2
  <2>7. QED
    BY <2>1, <2>2, <2>3, <2>4, <2>5, <2>6
<1>4. ASSUME NEW k \in Nat PROVE q[k + 1] = GfAdd[c[k + 1]][GfMul[X][q[k]]]
  <2>1. PICK n \in Nat : n = k + 1
    OBVIOUS
  <2>2. PICK p \in Symbol, r \in Symbol, t \in Symbol : p = Pw(X, k) /\ r = Pw(Y, n) /\ t = Pw(X, n)
    BY PwIs
  <2>3. t = GfMul[p][X]
    BY <2>1, <2>2, PwIs
  <2>4. GfMul[t][r] = 1
    <3>1. Pw(GfMul[X][Y], n) = GfMul[Pw(X, n)][Pw(Y, n)]
      BY PwMul
    <3>2. Pw(1, n) = 1
      BY PwOne
    <3>3. QED
      BY <2>2, <3>1, <3>2
  <2>5. PICK v \in Symbol, f \in Symbol : v = Val(c, n, Y) /\ f = c[n]
    BY ValTyped DEF Coeffs
  <2>6. Val(c, n + 1, Y) = GfAdd[v][GfMul[f][r]]
    BY <2>2, <2>5, ValTop
  <2>7. q[n] = GfMul[t][GfAdd[v][GfMul[f][r]]]
    BY <1>2, <2>2, <2>6
  <2>8. q[k] = GfMul[p][v]
    BY <1>2, <2>1, <2>2, <2>5
  <2>9. CarriedBy(p, X, v, f, r, t)
    BY <2>3, <2>4, CarriedOver DEF Carries
  <2>10. GfMul[GfMul[p][X]][GfAdd[v][GfMul[f][r]]] = GfAdd[f][GfMul[X][GfMul[p][v]]]
    BY <2>9 DEF CarriedBy
  <2>11. QED
    BY <2>1, <2>3, <2>5, <2>7, <2>8, <2>10
<1>5. QED
  BY <1>2, <1>3, <1>4

LEMMA QuotEnds ==
  ASSUME NEW c \in Coeffs, NEW X \in Symbol, NEW Y \in Symbol, GfMul[X][Y] = 1,
         NEW n \in Nat, EndsAt(c, n + 1), Val(c, n + 1, Y) = 0
  PROVE  EndsAt(QuotBy(c, X, Y), n)
<1>1. ASSUME NEW k \in Nat, k >= n PROVE QuotBy(c, X, Y)[k] = 0
  <2>1. PICK m \in Nat, l \in Nat : m = n + 1 /\ l = k + 1 /\ l >= m
    BY <1>1
  <2>2. Val(c, l, Y) = Val(c, m, Y)
    BY <2>1, ValPad
  <2>3. PICK p \in Symbol : p = Pw(X, k)
    BY PwIs
  <2>4. GfMul[p][0] = 0
    BY MulLaws
  <2>5. QuotBy(c, X, Y)[k] = GfMul[p][Val(c, l, Y)]
    BY <2>1, <2>3, QuotIs
  <2>6. QED
    BY <2>1, <2>2, <2>4, <2>5
<1>2. QED
  BY <1>1 DEF EndsAt

LEMMA QuotMixed ==
  ASSUME NEW c \in Coeffs, NEW X \in Symbol, NEW Y \in Symbol, GfMul[X][Y] = 1
  PROVE  \A k \in Nat : c[k] = Mixed(X, Raised(QuotBy(c, X, Y)), QuotBy(c, X, Y))[k]
<1>1. PICK q \in Coeffs :
         /\ q = QuotBy(c, X, Y) /\ q[0] = c[0]
         /\ \A k \in Nat : q[k + 1] = GfAdd[c[k + 1]][GfMul[X][q[k]]]
  BY QuotIs
<1>2. PICK r \in Coeffs : r = Raised(q) /\ r[0] = 0 /\ \A k \in Nat : r[k + 1] = q[k]
  BY RaisedIs
<1>3. \A k \in Nat : Mixed(X, r, q)[k] = GfAdd[GfMul[X][r[k]]][q[k]]
  BY MixedIs
<1>4. ASSUME NEW k \in Nat PROVE c[k] = GfAdd[GfMul[X][r[k]]][q[k]]
  <2>1. CASE k = 0
    <3>1. PICK f \in Symbol : f = c[0]
      BY DEF Coeffs
    <3>2. GfMul[X][0] = 0 /\ GfAdd[0][f] = f
      BY MulLaws, AddLaws
    <3>3. QED
      BY <1>1, <1>2, <2>1, <3>1, <3>2
  <2>2. CASE k # 0
    <3>1. PICK m \in Nat : k = m + 1
      <4>1. k - 1 \in Nat /\ k = (k - 1) + 1
        BY <2>2
      <4>2. QED
        BY <4>1
    <3>2. PICK f \in Symbol, a \in Symbol : f = c[k] /\ a = GfMul[X][q[m]]
      BY MulIs DEF Coeffs
    <3>3. q[k] = GfAdd[f][a] /\ r[k] = q[m]
      BY <1>1, <1>2, <3>1, <3>2
    <3>4. GfAdd[a][GfAdd[f][a]] = f
      <4>1. GfAdd[f][a] = GfAdd[a][f]
        BY AddLaws
      <4>2. GfAdd[GfAdd[a][a]][f] = GfAdd[a][GfAdd[a][f]]
        BY AddGroups
      <4>3. GfAdd[a][a] = 0 /\ GfAdd[0][f] = f
        BY AddLaws
      <4>4. QED
        BY <4>1, <4>2, <4>3
    <3>5. QED
      BY <3>2, <3>3, <3>4
  <2>3. QED
    BY <2>1, <2>2
<1>5. QED
  BY <1>1, <1>2, <1>3, <1>4

LEMMA QuotVal ==
  ASSUME NEW c \in Coeffs, NEW X \in Symbol, NEW Y \in Symbol, GfMul[X][Y] = 1,
         NEW n \in Nat, EndsAt(c, n + 1), Val(c, n + 1, Y) = 0, NEW y \in Symbol
  PROVE  Val(c, n + 1, y)
         = GfAdd[GfMul[X][GfMul[Val(QuotBy(c, X, Y), n, y)][y]]][Val(QuotBy(c, X, Y), n, y)]
<1>1. PICK q \in Coeffs : q = QuotBy(c, X, Y) /\ EndsAt(q, n)
                          /\ \A k \in Nat : c[k] = Mixed(X, Raised(q), q)[k]
  BY QuotIs, QuotEnds, QuotMixed
<1>2. PICK r \in Coeffs : r = Raised(q) /\ Down(r) = q /\ r[0] = 0
  BY RaisedIs
<1>3. PICK m \in Nat : m = n + 1 /\ m >= n
  OBVIOUS
<1>4. Val(c, m, y) = Val(Mixed(X, r, q), m, y)
  <2>1. \A k \in 0..(m - 1) : c[k] = Mixed(X, r, q)[k]
    BY <1>1, <1>2
  <2>2. QED
    BY <2>1, ValSame
<1>5. Val(Mixed(X, r, q), m, y) = GfAdd[GfMul[X][Val(r, m, y)]][Val(q, m, y)]
  <2>1. \A l \in Nat, x \in Symbol :
           Val(Mixed(X, r, q), l, x) = GfAdd[GfMul[X][Val(r, l, x)]][Val(q, l, x)]
    BY MixedIs
  <2>2. QED
    BY <2>1
<1>6. Val(q, m, y) = Val(q, n, y)
  BY <1>1, <1>3, ValPad
<1>7. Val(r, m, y) = GfMul[Val(q, n, y)][y]
  <2>1. Val(r, n + 1, y) = GfAdd[GfMul[Val(q, n, y)][y]][0]
    BY <1>2, ValNext
  <2>2. PICK a \in Symbol : a = GfMul[Val(q, n, y)][y]
    BY ValTyped, MulIs
  <2>3. GfAdd[a][0] = a
    BY AddLaws
  <2>4. QED
    BY <1>3, <2>1, <2>2, <2>3
<1>8. QED
  BY <1>1, <1>3, <1>4, <1>5, <1>6, <1>7

\* A root of the polynomial elsewhere is a root of the quotient.
LEMMA QuotRoot ==
  ASSUME NEW a \in Pos, NEW j \in Pos, j # a, NEW c \in Coeffs, NEW n \in Nat, EndsAt(c, n + 1),
         Val(c, n + 1, InvLocator(a)) = 0, Val(c, n + 1, InvLocator(j)) = 0
  PROVE  Val(QuotBy(c, Locator(a), InvLocator(a)), n, InvLocator(j)) = 0
<1>1. PICK X \in Symbol, Y \in Symbol : X = Locator(a) /\ Y = InvLocator(a) /\ GfMul[X][Y] = 1
  BY LocatorIs
<1>2. PICK y \in Symbol \ {0}, x \in Symbol : y = InvLocator(j) /\ x = Locator(j) /\ GfMul[x][y] = 1
  BY LocatorsApart, LocatorIs
<1>3. PICK v \in Symbol : v = Val(QuotBy(c, X, Y), n, y)
  BY <1>1, QuotIs, ValTyped
<1>4. GfAdd[GfMul[X][GfMul[v][y]]][v] = 0
  BY <1>1, <1>2, <1>3, QuotVal
<1>5. GfMul[X][GfMul[v][y]] = v
  <2>1. PICK u \in Symbol : u = GfMul[X][GfMul[v][y]]
    BY MulIs
  <2>2. u = v
    BY <1>4, <2>1, AddZero
  <2>3. QED
    BY <2>1, <2>2
<1>6. PICK t \in Symbol : t = GfMul[X][y]
  BY MulIs
<1>7. GfMul[t][v] = v
  <2>1. GfMul[GfMul[X][y]][v] = GfMul[X][GfMul[y][v]]
    BY MulGroups
  <2>2. GfMul[y][v] = GfMul[v][y]
    BY MulTurns
  <2>3. QED
    BY <1>5, <1>6, <2>1, <2>2
<1>8. SUFFICES ASSUME v # 0 PROVE FALSE
  BY <1>1, <1>2, <1>3
<1>9. t = 1
  <2>1. GfMul[1][v] = v
    BY MulLaws
  <2>2. GfMul[t][v] = GfMul[1][v]
    BY <1>7, <2>1
  <2>3. QED
    BY <1>8, <2>2, MulCancels, CodeFacts
<1>10. X = x
  <2>1. GfMul[X][y] = GfMul[x][y]
    BY <1>2, <1>6, <1>9
  <2>2. QED
    BY <2>1, MulCancels
<1>11. QED
  BY <1>1, <1>2, <1>10, LocatorsApart

RootsOf(D, c, n) == \A j \in D : Val(c, n, InvLocator(j)) = 0
FewRoots(n) ==
    \A D \in SUBSET Pos, c \in Coeffs :
       EndsAt(c, n + 1) /\ c[0] # 0 /\ RootsOf(D, c, n + 1) => Cardinality(D) <= n

LEMMA PosFinite ==
  ASSUME NEW D \in SUBSET Pos
  PROVE  IsFiniteSet(D) /\ Cardinality(D) \in Nat
<1>1. IsFiniteSet(Pos)
  BY CodeFacts, FS_Interval
<1>2. QED
  BY <1>1, FS_Subset, FS_CardinalityType

LEMMA FewRootsNext ==
  ASSUME NEW n \in Nat, FewRoots(n)
  PROVE  FewRoots(n + 1)
<1>1. ASSUME NEW D \in SUBSET Pos, NEW c \in Coeffs, EndsAt(c, (n + 1) + 1), c[0] # 0,
             RootsOf(D, c, (n + 1) + 1)
      PROVE  Cardinality(D) <= n + 1
  <2>1. IsFiniteSet(D) /\ Cardinality(D) \in Nat
    BY PosFinite
  <2>2. CASE D = {}
    <3>1. Cardinality(D) = 0
      BY <2>2, FS_EmptySet
    <3>2. QED
      BY <3>1
  <2>3. CASE D # {}
    <3>1. PICK a \in D : a \in Pos
      BY <2>3
    <3>2. PICK X \in Symbol, Y \in Symbol : X = Locator(a) /\ Y = InvLocator(a) /\ GfMul[X][Y] = 1
      BY <3>1, LocatorIs
    <3>3. PICK m \in Nat : m = n + 1
      OBVIOUS
    <3>4. Val(c, m + 1, Y) = 0
      BY <1>1, <3>1, <3>2, <3>3 DEF RootsOf
    <3>5. PICK q \in Coeffs : q = QuotBy(c, X, Y) /\ q[0] = c[0] /\ EndsAt(q, m)
      <4>1. EndsAt(c, m + 1)
        BY <1>1, <3>3
      <4>2. QED
        BY <3>2, <3>4, <4>1, QuotIs, QuotEnds
    <3>6. PICK A \in SUBSET Pos : A = D \ {a} /\ Cardinality(A) = Cardinality(D) - 1
      <4>1. Cardinality(D \ {a}) = Cardinality(D) - 1
        BY <2>1, <3>1, FS_RemoveElement
      <4>2. QED
        BY <4>1
    <3>7. RootsOf(A, q, m)
      <4>1. ASSUME NEW j \in A PROVE Val(q, m, InvLocator(j)) = 0
        <5>1. j \in Pos /\ j # a /\ j \in D
          BY <3>6, <4>1
        <5>2. Val(c, m + 1, InvLocator(j)) = 0
          BY <1>1, <3>3, <5>1 DEF RootsOf
        <5>3. EndsAt(c, m + 1) /\ Val(c, m + 1, InvLocator(a)) = 0
          BY <1>1, <3>2, <3>3, <3>4
        <5>4. Val(QuotBy(c, Locator(a), InvLocator(a)), m, InvLocator(j)) = 0
          BY <3>1, <5>1, <5>2, <5>3, QuotRoot
        <5>5. QED
          BY <3>2, <3>5, <5>4
      <4>2. QED
        BY <4>1 DEF RootsOf
    <3>8. Cardinality(A) <= n
      BY <1>1, <3>3, <3>5, <3>7 DEF FewRoots
    <3>9. QED
      BY <2>1, <3>6, <3>8
  <2>4. QED
    BY <2>2, <2>3
<1>2. QED
  BY <1>1 DEF FewRoots

LEMMA FewRootsStart == FewRoots(0)
<1>1. ASSUME NEW D \in SUBSET Pos, NEW c \in Coeffs, c[0] # 0, RootsOf(D, c, 0 + 1)
      PROVE  Cardinality(D) <= 0
  <2>1. ASSUME NEW j \in D PROVE FALSE
    <3>1. PICK y \in Symbol : y = InvLocator(j)
      BY LocatorIs
    <3>2. PICK f \in Symbol : f = c[0]
      BY DEF Coeffs
    <3>3. Val(c, 0 + 1, y) = GfAdd[Val(c, 0, y)][GfMul[f][Pw(y, 0)]]
      BY <3>2, ValTop
    <3>4. Val(c, 0, y) = 0 /\ Pw(y, 0) = 1
      BY ValStart, PwIs
    <3>5. GfMul[f][1] = f
      <4>1. GfMul[f][1] = GfMul[1][f] /\ GfMul[1][f] = f
        BY MulLaws, CodeFacts
      <4>2. QED
        BY <4>1
    <3>6. GfAdd[0][f] = f
      BY AddLaws
    <3>7. Val(c, 0 + 1, y) = 0
      BY <1>1, <3>1 DEF RootsOf
    <3>8. QED
      BY <1>1, <3>2, <3>3, <3>4, <3>5, <3>6, <3>7
  <2>2. D = {}
    BY <2>1
  <2>3. Cardinality(D) = 0
    BY <2>2, FS_EmptySet
  <2>4. QED
    BY <2>3
<1>2. QED
  BY <1>1 DEF FewRoots

LEMMA RootCount ==
  ASSUME NEW D \in SUBSET Pos, NEW c \in Coeffs, NEW n \in Nat, EndsAt(c, n + 1), c[0] # 0,
         RootsOf(D, c, n + 1)
  PROVE  Cardinality(D) <= n
<1> DEFINE S == {m \in 0..n : FewRoots(m)}
<1>1. 0 \in S
  BY FewRootsStart
<1>2. ASSUME NEW m \in 0..(n - 1), m \in S PROVE m + 1 \in S
  <2>1. m \in Nat /\ m + 1 \in 0..n /\ FewRoots(m)
    BY <1>2
  <2>2. QED
    BY <2>1, FewRootsNext
<1>3. \A m \in 0..n : m \in S
  <2> HIDE DEF S
  <2>1. QED
    BY <1>1, <1>2, Climb
<1>4. FewRoots(n)
  BY <1>3
<1>5. QED
  BY <1>4 DEF FewRoots
-----------------------------------------------------------------------------
(* Berlekamp-Massey.  After it iterations the locator c of length L sees   *)
(* nothing in the syndromes from ne + L on; the one it replaced, m         *)
(* iterations back, was the last to see something, b.                      *)
Blind(z, c, lo, hi) == \A k \in lo..(hi - 1) : Through(z, c, k + 1) = 0
Locating(c, L, z, ne, it, v) ==
    /\ L <= it /\ L <= v /\ EndsAt(c, L + 1) /\ c[0] = 1
    /\ Blind(z, c, ne + L, ne + it)
LaggingBy(q, a, b, m, L, z, ne, it) ==
    /\ 1 <= m /\ q + m + L = it + 1 /\ EndsAt(a, q + 1)
    /\ m <= it => /\ Blind(z, a, ne + q, ne + (it - m))
                  /\ Through(z, a, ne + (it - m) + 1) = b
Trailing(a, b, m, L, z, ne, it) == \E q \in Nat : LaggingBy(q, a, b, m, L, z, ne, it)

\* A discrepancy of 0 leaves the locator as it is.
LEMMA LocatesOn ==
  ASSUME NEW c, NEW L \in Nat, NEW z, NEW ne \in Nat, NEW it \in Nat, NEW v \in Nat,
         Locating(c, L, z, ne, it, v), Through(z, c, ne + it + 1) = 0
  PROVE  Locating(c, L, z, ne, it + 1, v)
<1>1. ASSUME NEW k \in (ne + L)..(ne + (it + 1) - 1) PROVE Through(z, c, k + 1) = 0
  <2>1. k \in (ne + L)..((ne + it) - 1) \/ k = ne + it
    OBVIOUS
  <2>2. CASE k = ne + it
    <3>1. k + 1 = ne + it + 1
      BY <2>2
    <3>2. QED
      BY <3>1
  <2>3. CASE k \in (ne + L)..((ne + it) - 1)
    BY <2>3 DEF Locating, Blind
  <2>4. QED
    BY <2>1, <2>2, <2>3
<1>2. Blind(z, c, ne + L, ne + (it + 1))
  BY <1>1 DEF Blind
<1>3. L <= it /\ L <= v /\ EndsAt(c, L + 1) /\ c[0] = 1
  BY DEF Locating
<1>4. L <= it + 1
  BY <1>3
<1>5. QED
  BY <1>2, <1>3, <1>4 DEF Locating

LEMMA LagsOn ==
  ASSUME NEW a, NEW b, NEW m \in Nat, NEW L \in Nat, NEW z, NEW ne \in Nat, NEW it \in Nat,
         Trailing(a, b, m, L, z, ne, it)
  PROVE  Trailing(a, b, m + 1, L, z, ne, it + 1)
<1>1. PICK q \in Nat : LaggingBy(q, a, b, m, L, z, ne, it)
  BY DEF Trailing
<1>2. 1 <= m /\ q + m + L = it + 1 /\ EndsAt(a, q + 1)
  BY <1>1 DEF LaggingBy
<1>3. 1 <= m + 1 /\ q + (m + 1) + L = (it + 1) + 1 /\ (it + 1) - (m + 1) = it - m
      /\ (m + 1 <= it + 1 => m <= it)
  BY <1>2
<1>4. m <= it => Blind(z, a, ne + q, ne + (it - m)) /\ Through(z, a, ne + (it - m) + 1) = b
  BY <1>1 DEF LaggingBy
<1>5. LaggingBy(q, a, b, m + 1, L, z, ne, it + 1)
  BY <1>2, <1>3, <1>4 DEF LaggingBy
<1>6. QED
  BY <1>5 DEF Trailing

\* The locator a change of length replaces.
LEMMA LagsAnew ==
  ASSUME NEW c, NEW L \in Nat, NEW M \in Nat, NEW z, NEW ne \in Nat, NEW it \in Nat, NEW v \in Nat,
         Locating(c, L, z, ne, it, v), M + L = it + 1
  PROVE  Trailing(c, Through(z, c, ne + it + 1), 1, M, z, ne, it + 1)
<1>1. L <= it /\ EndsAt(c, L + 1) /\ Blind(z, c, ne + L, ne + it)
  BY DEF Locating
<1>2. L + 1 + M = (it + 1) + 1 /\ (it + 1) - 1 = it
  OBVIOUS
<1>3. LaggingBy(L, c, Through(z, c, ne + it + 1), 1, M, z, ne, it + 1)
  BY <1>1, <1>2 DEF LaggingBy
<1>4. QED
  BY <1>3 DEF Trailing

MendedTo(e, coef, a, m, c) ==
    EndsAt(e, Parity + 1) /\ \A k \in 0..Parity : e[k] = Mixed(coef, Lifted(a, m), c)[k]

LEMMA MendedIs ==
  ASSUME NEW lam \in Seq(Symbol), NEW B \in Seq(Symbol), NEW coef \in Symbol, NEW m \in Nat
  PROVE  /\ Up(Mended(lam, coef, B, m)) \in Coeffs
         /\ MendedTo(Up(Mended(lam, coef, B, m)), coef, Up(B), m, Up(lam))
<1> DEFINE f == [k \in 0..Parity |->
                   GfAdd[Coeff(lam, k)][IF k < m THEN 0 ELSE GfMul[coef][Coeff(B, k - m)]]]
<1>1. PICK n \in Nat : n = Parity + 1 /\ n - 1 = Parity
  BY CodeFacts
<1>2. PICK c \in Coeffs, b \in Coeffs, a \in Coeffs :
         /\ c = Up(lam) /\ \A k \in Nat : c[k] = Coeff(lam, k)
         /\ b = Up(B) /\ \A k \in Nat : b[k] = Coeff(B, k)
         /\ a = Lifted(b, m) /\ \A k \in Nat : a[k] = IF k < m THEN 0 ELSE b[k - m]
  BY UpIs, LiftedIs
<1>3. \A k \in Nat : Mixed(coef, a, c)[k] = GfAdd[GfMul[coef][a[k]]][c[k]]
  BY MixedIs
<1>4. ASSUME NEW k \in 0..Parity PROVE f[k] = Mixed(coef, a, c)[k] /\ f[k] \in Symbol
  <2>1. k \in Nat
    BY CodeFacts
  <2>2. PICK u \in Symbol, t \in Symbol, r \in Symbol : u = c[k] /\ t = a[k] /\ r = GfMul[coef][t]
    BY <2>1, MulIs DEF Coeffs
  <2>3. (IF k < m THEN 0 ELSE GfMul[coef][Coeff(B, k - m)]) = r
    <3>1. CASE k < m
      <4>1. t = 0
        BY <1>2, <2>1, <2>2, <3>1
      <4>2. GfMul[coef][0] = 0
        BY MulLaws
      <4>3. QED
        BY <2>2, <3>1, <4>1, <4>2
    <3>2. CASE ~(k < m)
      <4>1. k - m \in Nat
        BY <2>1, <3>2
      <4>2. t = Coeff(B, k - m)
        BY <1>2, <2>1, <2>2, <3>2, <4>1
      <4>3. QED
        BY <2>2, <3>2, <4>2
    <3>3. QED
      BY <3>1, <3>2
  <2>4. f[k] = GfAdd[u][r]
    BY <1>2, <2>1, <2>2, <2>3
  <2>5. Mixed(coef, a, c)[k] = GfAdd[r][u]
    BY <1>3, <2>1, <2>2
  <2>6. GfAdd[u][r] = GfAdd[r][u] /\ GfAdd[u][r] \in Symbol
    BY AddLaws
  <2>7. QED
    BY <2>4, <2>5, <2>6
<1>5. f \in [0..(n - 1) -> Symbol]
  BY <1>1, <1>4
<1>6. Mended(lam, coef, B, m) = Poly(n, f)
  BY <1>1 DEF Mended
<1> HIDE DEF f
<1>7. PICK p \in Seq(Symbol) : /\ p = Mended(lam, coef, B, m) /\ Len(p) = n
                               /\ \A k \in Nat : Coeff(p, k) = IF k < n THEN f[k] ELSE 0
  BY <1>5, <1>6, PolyIs
<1>8. Up(p) \in Coeffs /\ EndsAt(Up(p), n) /\ \A k \in Nat : Up(p)[k] = Coeff(p, k)
  BY <1>7, UpIs
<1>9. ASSUME NEW k \in 0..Parity PROVE Up(p)[k] = Mixed(coef, a, c)[k]
  <2>1. k \in Nat /\ k < n
    BY <1>1, CodeFacts
  <2>2. QED
    BY <1>4, <1>7, <1>8, <2>1
<1>10. MendedTo(Up(p), coef, b, m, c)
  BY <1>1, <1>2, <1>8, <1>9 DEF MendedTo
<1>11. QED
  BY <1>2, <1>7, <1>8, <1>10

\* The locator mended: the multiple of the old one takes off what it saw.
LEMMA MendedLocates ==
  ASSUME NEW z \in RsWords, NEW c \in Coeffs, NEW a \in Coeffs, NEW e \in Coeffs,
         NEW coef \in Symbol, NEW b \in Symbol, NEW d \in Symbol,
         NEW L \in Nat, NEW M \in Nat, NEW m \in Nat, NEW ne \in Nat, NEW it \in Nat, NEW v \in Nat,
         MendedTo(e, coef, a, m, c),
         Locating(c, L, z, ne, it, v), Through(z, c, ne + it + 1) = d,
         Trailing(a, b, m, L, z, ne, it), GfMul[coef][b] = d,
         ne + it < Parity, L <= M, it + 1 <= M + L, M <= it + 1, M <= v
  PROVE  Locating(e, M, z, ne, it + 1, v)
<1>1. PICK q \in Nat : LaggingBy(q, a, b, m, L, z, ne, it)
  BY DEF Trailing
<1>2. /\ 1 <= m /\ q + m + L = it + 1 /\ EndsAt(a, q + 1)
      /\ m <= it => Blind(z, a, ne + q, ne + (it - m)) /\ Through(z, a, ne + (it - m) + 1) = b
  BY <1>1 DEF LaggingBy
<1>3. L <= it /\ EndsAt(c, L + 1) /\ c[0] = 1 /\ Blind(z, c, ne + L, ne + it)
  BY DEF Locating
<1>4. PICK l \in Coeffs : /\ l = Lifted(a, m) /\ EndsAt(l, (q + 1) + m)
                          /\ \A k \in Nat : l[k] = IF k < m THEN 0 ELSE a[k - m]
  <2>1. q + 1 \in Nat
    OBVIOUS
  <2>2. QED
    BY <1>2, <2>1, LiftedIs
<1>5. PICK g \in Coeffs : /\ g = Mixed(coef, l, c)
                          /\ \A k \in Nat : g[k] = GfAdd[GfMul[coef][l[k]]][c[k]]
  BY MixedIs
<1>6. GfMul[coef][0] = 0 /\ GfAdd[0][0] = 0 /\ GfAdd[0][1] = 1 /\ GfAdd[d][d] = 0
  BY MulLaws, AddLaws, CodeFacts
<1>7. PICK P \in Nat : P = Parity
  BY CodeFacts
<1>7a. EndsAt(e, Parity + 1) /\ \A k \in 0..Parity : e[k] = Mixed(coef, Lifted(a, m), c)[k]
  BY DEF MendedTo
<1>8. e[0] = 1
  <2>1. 0 \in 0..Parity /\ 0 < m
    BY <1>2, <1>7
  <2>2. l[0] = 0
    BY <1>4, <2>1
  <2>3. QED
    BY <1>3, <1>4, <1>5, <1>6, <1>7a, <2>1, <2>2
<1>9. EndsAt(e, M + 1)
  <2>1. ASSUME NEW k \in Nat, k >= M + 1 PROVE e[k] = 0
    <3>1. CASE k >= P + 1
      BY <1>7, <1>7a, <3>1 DEF EndsAt
    <3>2. CASE ~(k >= P + 1)
      <4>1. k \in 0..Parity
        BY <1>7, <3>2
      <4>2. k >= L + 1 /\ k >= (q + 1) + m
        BY <1>2, <2>1
      <4>3. c[k] = 0 /\ l[k] = 0
        BY <1>3, <1>4, <4>2 DEF EndsAt
      <4>4. QED
        BY <1>4, <1>5, <1>6, <1>7a, <4>1, <4>3
    <3>3. QED
      BY <3>1, <3>2
  <2>2. QED
    BY <2>1 DEF EndsAt
<1>10. Seen(z, e, Parity + 1) = Seen(z, g, Parity + 1)
  BY <1>4, <1>5, <1>7a, ThroughSame
<1>11. ASSUME NEW k \in (ne + M)..(ne + (it + 1) - 1) PROVE Through(z, e, k + 1) = 0
  <2>1. k \in Nat /\ k + 1 \in Nat /\ ne + M <= k /\ k <= ne + it
    OBVIOUS
  <2>2. m <= it
    BY <1>2, <2>1
  <2>3. PICK r \in Nat : r + m = it /\ r = it - m
    BY <2>2
  <2>4. PICK h \in Nat : k = h + m /\ ne + q <= h /\ h <= ne + r
    <3>1. k - m \in Nat /\ k = (k - m) + m /\ ne + q <= k - m /\ k - m <= ne + r
      BY <1>2, <2>1, <2>3
    <3>2. QED
      BY <3>1
  <2>5. Through(z, l, k + 1) = Through(z, a, h + 1)
    <3>1. PICK w \in Nat, j \in Nat : w = q + 1 /\ j = h + 1 /\ j + m = k + 1
      BY <2>4
    <3>2. w + m <= Parity + 1
      BY <1>2, <1>7, <3>1
    <3>2a. EndsAt(a, w)
      BY <1>2, <3>1
    <3>3. Through(z, Lifted(a, m), j + m) = Through(z, a, j)
      BY <3>2, <3>2a, ThroughLifted
    <3>4. QED
      BY <1>4, <3>1, <3>3
  <2>6. Through(z, e, k + 1) = GfAdd[GfMul[coef][Through(z, l, k + 1)]][Through(z, c, k + 1)]
    <3>1. Through(z, g, k + 1) = GfAdd[GfMul[coef][Through(z, l, k + 1)]][Through(z, c, k + 1)]
      BY <1>5, <2>1, ThroughMixed
    <3>2. QED
      BY <1>10, <3>1 DEF Through
  <2>7. Blind(z, a, ne + q, ne + r) /\ Through(z, a, ne + r + 1) = b
    BY <1>2, <2>2, <2>3
  <2>8. CASE k = ne + it
    <3>1. h = ne + r
      BY <2>3, <2>4, <2>8
    <3>2. h + 1 = ne + r + 1 /\ k + 1 = ne + it + 1
      BY <2>8, <3>1
    <3>3. Through(z, a, h + 1) = b /\ Through(z, c, k + 1) = d
      BY <2>7, <3>2
    <3>4. QED
      BY <1>6, <2>5, <2>6, <3>3
  <2>9. CASE k # ne + it
    <3>1. k \in (ne + L)..((ne + it) - 1)
      BY <2>1, <2>9
    <3>2. Through(z, c, k + 1) = 0
      BY <1>3, <3>1 DEF Blind
    <3>3. h \in (ne + q)..((ne + r) - 1)
      BY <2>3, <2>4, <2>9
    <3>4. Through(z, a, h + 1) = 0
      BY <2>7, <3>3 DEF Blind
    <3>5. QED
      BY <1>6, <2>5, <2>6, <3>2, <3>4
  <2>10. QED
    BY <2>8, <2>9
<1>12. Blind(z, e, ne + M, ne + (it + 1))
  BY <1>11 DEF Blind
<1>13. QED
  BY <1>8, <1>9, <1>12 DEF Locating

\* Symbols the locator never sees: it sees no more of a word with fewer of them
\* than syndromes it has been blind to.
LEMMA BlindToAll ==
  ASSUME NEW z \in RsWords, NEW E \in SUBSET Pos, OnlyIn(z, E), NEW c \in Coeffs,
         NEW lo \in Nat, NEW hi \in Nat, lo + Cardinality(E) <= hi, Blind(z, c, lo, hi)
  PROVE  Zero(Seen(z, c, Parity + 1))
<1>1. PICK y \in RsWords : y = Seen(z, c, Parity + 1)
  BY ThroughTyped
<1>2. OnlyIn(y, E)
  <2>1. ASSUME NEW j \in Pos \ E PROVE y[j] = 0
    <3>1. PICK n \in Nat : n = Parity + 1
      BY CodeFacts
    <3>2. PICK p \in Symbol : p = Val(c, n, InvLocator(j)) /\ y[j] = GfMul[z[j]][p]
      BY <1>1, <3>1, SeenIs
    <3>3. z[j] = 0 /\ GfMul[0][p] = 0
      BY MulLaws DEF OnlyIn
    <3>4. QED
      BY <3>2, <3>3
  <2>2. QED
    BY <2>1 DEF OnlyIn
<1>3. PICK n \in Nat : n = Cardinality(E)
  BY PosFinite
<1>4. Vanishing(y, lo + 1, n)
  <2>1. ASSUME NEW i \in (lo + 1)..((lo + 1) + n - 1) PROVE Pows(y, i) = 0
    <3>1. i - 1 \in lo..(hi - 1) /\ (i - 1) + 1 = i
      BY <1>3
    <3>2. Through(z, c, (i - 1) + 1) = 0
      BY <3>1 DEF Blind
    <3>3. QED
      BY <1>1, <3>1, <3>2 DEF Through
  <2>2. QED
    BY <2>1 DEF Vanishing
<1>5. Zero(y)
  <2>1. lo + 1 \in Nat /\ Cardinality(E) <= n
    BY <1>3
  <2>2. QED
    BY <1>2, <1>4, <2>1, PowersIndependent
<1>6. QED
  BY <1>1, <1>5

LEMMA LengthWithin ==
  ASSUME NEW z \in RsWords, NEW E \in SUBSET Pos, OnlyIn(z, E), NEW c \in Coeffs,
         NEW L \in Nat, NEW ne \in Nat, NEW it \in Nat, NEW v \in Nat, v = Cardinality(E),
         Locating(c, L, z, ne, it, v), Through(z, c, ne + it + 1) # 0
  PROVE  it + 1 <= v + L
<1>1. SUFFICES ASSUME v + L <= it PROVE FALSE
  OBVIOUS
<1>2. ne + L \in Nat /\ ne + it \in Nat /\ (ne + L) + v <= ne + it /\ ne + it + 1 \in Nat
  BY <1>1
<1>3. Blind(z, c, ne + L, ne + it)
  BY DEF Locating
<1>4. PICK y \in RsWords : y = Seen(z, c, Parity + 1) /\ Zero(y)
  BY <1>2, <1>3, BlindToAll, ThroughTyped
<1>5. Pows(y, ne + it + 1) = 0
  BY <1>2, <1>4, PowsNothing DEF Zero
<1>6. QED
  BY <1>4, <1>5 DEF Through
\* From the first syndrome no erasure took, T holds the power sums of z.
Modified(T, z, ne) == \A k \in ne..(Parity - 1) : T[k + 1] = Pows(z, k + 1)
Searching(s, z, ne, it, v) ==
    /\ s \in MStates /\ Locating(Up(s.lam), s.L, z, ne, it, v)
    /\ Trailing(Up(s.B), s.b, s.m, s.L, z, ne, it)

LEMMA StateIs ==
  ASSUME NEW s \in MStates
  PROVE  /\ s.lam \in Seq(Symbol) /\ s.B \in Seq(Symbol) /\ Up(s.lam) \in Coeffs /\ Up(s.B) \in Coeffs
         /\ s.L \in Nat /\ s.m \in Nat /\ s.b \in Symbol \ {0}
         /\ \A k \in Nat : Up(s.lam)[k] = Coeff(s.lam, k)
<1>1. s.lam \in Seq(Symbol) /\ s.B \in Seq(Symbol) /\ s.L \in Nat /\ s.m \in Nat /\ s.b \in Symbol \ {0}
  BY DEF MStates, Polys
<1>2. QED
  BY <1>1, UpIs

\* The discrepancy is what the locator sees there.
LEMMA DiscrepancyIs ==
  ASSUME NEW T \in Seq(Symbol), NEW z \in RsWords, NEW ne \in Nat, Modified(T, z, ne),
         NEW it \in Nat, ne + it < Parity, NEW v \in Nat, NEW s, Searching(s, z, ne, it, v)
  PROVE  Discrepancy(T, s, ne + it) = Through(z, Up(s.lam), ne + it + 1)
<1>1. PICK c \in Coeffs, L \in Nat : /\ c = Up(s.lam) /\ L = s.L
                                     /\ \A k \in Nat : c[k] = Coeff(s.lam, k)
  BY StateIs DEF Searching
<1>2. L <= it /\ EndsAt(c, L + 1)
  BY <1>1 DEF Searching, Locating
<1>3. PICK n \in Nat, l \in Nat : n = ne + it /\ l = n + 1 /\ l >= L /\ l = ne + it + 1
  BY <1>2
<1>4. L <= Parity
  BY <1>2, CodeFacts
<1>5. ASSUME NEW i \in 0..L PROVE GfMul[Coeff(s.lam, i)][T[n - i + 1]] = GfMul[c[i]][Pows(z, l - i)]
  <2>1. i \in Nat /\ n - i \in ne..(Parity - 1) /\ n - i + 1 = l - i
    BY <1>2, <1>3, CodeFacts
  <2>2. T[(n - i) + 1] = Pows(z, (n - i) + 1)
    BY <2>1 DEF Modified
  <2>3. c[i] = Coeff(s.lam, i)
    BY <1>1, <2>1
  <2>4. QED
    BY <2>1, <2>2, <2>3
<1>6. [i \in 0..L |-> GfMul[Coeff(s.lam, i)][T[n - i + 1]]] = Weighed(z, c, L, l)
  BY <1>5 DEF Weighed
<1>7. Discrepancy(T, s, n) = Sum(L, Weighed(z, c, L, l))
  BY <1>1, <1>6, Zenon DEF Discrepancy
<1>8. Sum(L, Weighed(z, c, L, l)) = Through(z, c, l)
  BY <1>2, <1>3, <1>4, ThroughSum
<1>9. QED
  BY <1>1, <1>3, <1>7, <1>8

LEMMA SearchStarts ==
  ASSUME NEW z, NEW ne \in Nat, NEW v \in Nat
  PROVE  Searching(MStart, z, ne, 0, v)
<1>1. /\ MStart \in MStates /\ MStart.lam = <<1>> /\ MStart.B = <<1>> /\ MStart.L = 0
      /\ MStart.b = 1 /\ MStart.m = 1
  BY StartTyped DEF MStart
<1>2. PICK c : c = Up(<<1>>) /\ EndsAt(c, 1) /\ c[0] = 1
  BY OneIs
<1>3. 0 <= v /\ 0 + 1 = 1 /\ 0 + 1 + 0 = 1 /\ ~(1 <= 0) /\ ne + 0 = ne /\ ne..(ne - 1) = {}
  OBVIOUS
<1>4. Blind(z, c, ne + 0, ne + 0)
  BY <1>3 DEF Blind
<1>5. Locating(c, 0, z, ne, 0, v)
  BY <1>2, <1>3, <1>4 DEF Locating
<1>6. LaggingBy(0, c, 1, 1, 0, z, ne, 0)
  BY <1>2, <1>3 DEF LaggingBy
<1>7. Trailing(c, 1, 1, 0, z, ne, 0)
  BY <1>6 DEF Trailing
<1>8. QED
  BY <1>1, <1>2, <1>5, <1>7 DEF Searching

LEMMA SearchGoesOn ==
  ASSUME NEW T \in Seq(Symbol), Len(T) = Parity, NEW z \in RsWords, NEW ne \in 0..Parity,
         Modified(T, z, ne), NEW E \in SUBSET Pos, OnlyIn(z, E), NEW v \in Nat, v = Cardinality(E),
         NEW it \in Nat, ne + it < Parity, NEW s, Searching(s, z, ne, it, v)
  PROVE  Searching(Iterated(s, T, ne, it + 1), z, ne, it + 1, v)
<1>1. /\ s \in MStates /\ Locating(Up(s.lam), s.L, z, ne, it, v)
      /\ Trailing(Up(s.B), s.b, s.m, s.L, z, ne, it)
  BY DEF Searching
<1>2. PICK p \in Seq(Symbol), r \in Seq(Symbol), L \in Nat, m \in Nat, b \in Symbol \ {0} :
         p = s.lam /\ r = s.B /\ L = s.L /\ m = s.m /\ b = s.b
  BY <1>1, StateIs
<1>3. PICK c \in Coeffs, a \in Coeffs : c = Up(p) /\ a = Up(r)
  BY UpIs
<1>4. /\ Locating(c, L, z, ne, it, v) /\ Trailing(a, b, m, L, z, ne, it)
      /\ s = [lam |-> p, B |-> r, L |-> L, b |-> b, m |-> m]
  BY <1>1, <1>2, <1>3 DEF MStates
<1>5. L <= it
  BY <1>4 DEF Locating
<1>6. PICK n \in Nat : n = ne + it /\ n = ne + (it + 1) - 1
  BY CodeFacts
<1>7. PICK d \in Symbol : d = Discrepancy(T, s, n) /\ d = Through(z, c, ne + it + 1)
  <2>1. ne \in Nat
    BY CodeFacts
  <2>2. Discrepancy(T, s, ne + it) = Through(z, Up(s.lam), ne + it + 1)
    BY <2>1, DiscrepancyIs
  <2>3. Through(z, c, ne + it + 1) \in Symbol
    BY <2>1, ThroughTyped
  <2>4. QED
    BY <1>2, <1>3, <1>6, <2>2, <2>3
<1>8. PICK t : t = Revised(s, n, ne, d) /\ t = Iterated(s, T, ne, it + 1) /\ t \in MStates
  <2>1. Iterated(s, T, ne, it + 1) = Revised(s, n, ne, d)
    BY <1>6, <1>7 DEF Iterated
  <2>2. it + 1 \in 1..(Parity - ne) /\ s.L <= (it + 1) - 1
    BY <1>2, <1>5, CodeFacts
  <2>3. Iterated(s, T, ne, it + 1) \in MStates
    BY <1>1, <2>2, IteratedTyped
  <2>4. QED
    BY <2>1, <2>3
<1>9. Iteration(n, ne) = it /\ ne \in Nat
  BY <1>6, CodeFacts DEF Iteration
<1>10. CASE d = 0
  <2>1. t = [lam |-> p, B |-> r, L |-> L, b |-> b, m |-> m + 1]
    BY <1>4, <1>8, <1>10 DEF Revised
  <2>2. Locating(c, L, z, ne, it + 1, v)
    BY <1>4, <1>7, <1>9, <1>10, LocatesOn
  <2>3. Trailing(a, b, m + 1, L, z, ne, it + 1)
    BY <1>4, <1>9, LagsOn
  <2>4. t.lam = p /\ t.B = r /\ t.L = L /\ t.b = b /\ t.m = m + 1
    BY <2>1
  <2>5. QED
    BY <1>3, <1>8, <2>2, <2>3, <2>4 DEF Searching
<1>11. CASE d # 0
  <2>1. PICK coef \in Symbol : coef = GfDiv(d, b) /\ GfMul[coef][b] = d
    BY MulIs, DivIs
  <2>2. PICK w \in Seq(Symbol) : w = Mended(p, coef, r, m)
    BY MendedTyped
  <2>3. PICK e \in Coeffs : e = Up(w) /\ MendedTo(e, coef, a, m, c)
    BY <1>3, <2>2, MendedIs
  <2>4. ASSUME NEW M \in Nat, L <= M, it + 1 <= M + L, M <= it + 1, M <= v
        PROVE  Locating(e, M, z, ne, it + 1, v)
    <3>1. b \in Symbol /\ ne \in Nat /\ Through(z, c, ne + it + 1) = d
      BY <1>7, <1>9
    <3>2. Locating(c, L, z, ne, it, v) /\ Trailing(a, b, m, L, z, ne, it)
      BY <1>4
    <3>3. MendedTo(e, coef, a, m, c)
      BY <2>3
    <3>4. GfMul[coef][b] = d
      BY <2>1
    <3>5. QED
      BY <2>4, <3>1, <3>2, <3>3, <3>4, MendedLocates
  <2>5. CASE 2 * L <= it
    <3>1. PICK M \in Nat : M = it + 1 - L /\ M + L = it + 1 /\ L <= M /\ it + 1 <= M + L /\ M <= it + 1
      BY <1>5, <2>5
    <3>2. t = [lam |-> w, B |-> p, L |-> M, b |-> d, m |-> 1]
      BY <1>4, <1>8, <1>9, <1>11, <2>1, <2>2, <2>5, <3>1 DEF Revised
    <3>3. M <= v
      <4>1. it + 1 <= v + L
        BY <1>4, <1>7, <1>9, <1>11, LengthWithin
      <4>2. QED
        BY <3>1, <4>1
    <3>4. Locating(e, M, z, ne, it + 1, v)
      BY <2>4, <3>1, <3>3
    <3>5. Trailing(c, d, 1, M, z, ne, it + 1)
      <4>1. ne \in Nat /\ Locating(c, L, z, ne, it, v) /\ M + L = it + 1
        BY <1>4, <1>9, <3>1
      <4>2. Trailing(c, Through(z, c, ne + it + 1), 1, M, z, ne, it + 1)
        BY <4>1, LagsAnew
      <4>3. QED
        BY <1>7, <4>2
    <3>6. t.lam = w /\ t.B = p /\ t.L = M /\ t.b = d /\ t.m = 1
      BY <3>2
    <3>7. QED
      BY <1>3, <1>8, <2>3, <3>4, <3>5, <3>6 DEF Searching
  <2>6. CASE ~(2 * L <= it)
    <3>1. L <= L /\ it + 1 <= L + L /\ L <= it + 1
      BY <1>5, <2>6
    <3>2. L <= v
      BY <1>4 DEF Locating
    <3>3. t = [lam |-> w, B |-> r, L |-> L, b |-> b, m |-> m + 1]
      <4>1. t = [s EXCEPT !.lam = w, !.m = @ + 1]
        BY <1>2, <1>8, <1>9, <1>11, <2>1, <2>2, <2>6 DEF Revised
      <4>2. QED
        BY <1>4, <4>1
    <3>4. Locating(e, L, z, ne, it + 1, v)
      BY <2>4, <3>1, <3>2
    <3>5. Trailing(a, b, m + 1, L, z, ne, it + 1)
      BY <1>4, <1>9, LagsOn
    <3>6. t.lam = w /\ t.B = r /\ t.L = L /\ t.b = b /\ t.m = m + 1
      BY <3>3
    <3>7. QED
      BY <1>3, <1>8, <2>3, <3>4, <3>5, <3>6 DEF Searching
  <2>7. QED
    BY <2>5, <2>6
<1>12. QED
  BY <1>8, <1>10, <1>11

LEMMA SearchEnds ==
  ASSUME NEW T \in Seq(Symbol), Len(T) = Parity, NEW z \in RsWords, NEW ne \in 0..Parity,
         Modified(T, z, ne), NEW E \in SUBSET Pos, OnlyIn(z, E), NEW v \in Nat, v = Cardinality(E)
  PROVE  Searching(Massey(T, ne), z, ne, Parity - ne, v)
<1>1. PICK f : MasseyRun(f, T, ne) /\ Massey(T, ne) = f[Parity - ne]
  BY MasseyRuns
<1>2. PICK N \in Nat : N = Parity - ne
  BY CodeFacts
<1>3. f[0] = MStart /\ \A k \in 1..N : f[k] = Iterated(f[k - 1], T, ne, k)
  BY <1>1, <1>2 DEF MasseyRun
<1> DEFINE Z == {k \in 0..N : Searching(f[k], z, ne, k, v)}
<1>4. 0 \in Z
  <2>1. ne \in Nat
    BY CodeFacts
  <2>2. Searching(MStart, z, ne, 0, v)
    BY <2>1, SearchStarts
  <2>3. QED
    BY <1>3, <2>2
<1>5. ASSUME NEW k \in 0..(N - 1), k \in Z PROVE k + 1 \in Z
  <2>1. k \in Nat /\ k + 1 \in 1..N /\ k + 1 \in 0..N /\ (k + 1) - 1 = k /\ ne + k < Parity
    BY <1>2, CodeFacts
  <2>2. PICK s : s = f[k] /\ Searching(s, z, ne, k, v)
    BY <1>5
  <2>3. Searching(Iterated(s, T, ne, k + 1), z, ne, k + 1, v)
    BY <2>1, <2>2, SearchGoesOn
  <2>4. f[k + 1] = Iterated(s, T, ne, k + 1)
    BY <1>3, <2>1, <2>2
  <2>5. QED
    BY <2>1, <2>3, <2>4
<1>6. \A k \in 0..N : k \in Z
  <2> HIDE DEF Z
  <2>1. QED
    BY <1>4, <1>5, Climb
<1>7. QED
  BY <1>1, <1>2, <1>6

\* Within the budget it finds them all, and nothing else.
LEMMA FindsAll ==
  ASSUME NEW T \in Seq(Symbol), Len(T) = Parity, NEW z \in RsWords, NEW ne \in 0..Parity,
         Modified(T, z, ne), NEW E \in SUBSET Pos, OnlyIn(z, E), \A j \in E : z[j] # 0,
         2 * Cardinality(E) + ne <= Parity
  PROVE  LET bm == Massey(T, ne)
         IN  /\ bm \in MStates /\ bm.L = Cardinality(E)
             /\ EndsAt(Up(bm.lam), bm.L + 1) /\ Up(bm.lam)[0] = 1
             /\ RootsOf(E, Up(bm.lam), bm.L + 1)
<1>1. PICK v \in Nat : v = Cardinality(E)
  BY PosFinite
<1>2. PICK bm : bm = Massey(T, ne) /\ Searching(bm, z, ne, Parity - ne, v)
  BY <1>1, SearchEnds
<1>3. bm \in MStates
  BY <1>2 DEF Searching
<1>4. PICK c \in Coeffs, L \in Nat, N \in Nat, g \in Nat :
         c = Up(bm.lam) /\ L = bm.L /\ N = Parity - ne /\ g = ne
  <2>1. Up(bm.lam) \in Coeffs /\ bm.L \in Nat
    BY <1>3, StateIs
  <2>2. Parity - ne \in Nat /\ ne \in Nat
    BY CodeFacts
  <2>3. QED
    BY <2>1, <2>2
<1>5. L <= N /\ L <= v /\ EndsAt(c, L + 1) /\ c[0] = 1 /\ Blind(z, c, g + L, g + N)
  BY <1>2, <1>4 DEF Searching, Locating
<1>6. Zero(Seen(z, c, Parity + 1))
  <2>1. g + L \in Nat /\ g + N \in Nat /\ (g + L) + v <= g + N
    <3>1. L <= v /\ 2 * v + g <= Parity /\ g + N = Parity
      BY <1>1, <1>4, <1>5, CodeFacts
    <3>2. QED
      BY <3>1
  <2>2. QED
    BY <1>1, <1>5, <2>1, BlindToAll
<1>7. RootsOf(E, c, L + 1)
  <2>1. PICK q \in Nat : q = L + 1 /\ q <= Parity + 1
    BY <1>4, <1>5, CodeFacts
  <2>2. Seen(z, c, Parity + 1) = Seen(z, c, q)
    BY <1>5, <2>1, ThroughShort
  <2>3. ASSUME NEW j \in E PROVE Val(c, q, InvLocator(j)) = 0
    <3>1. PICK p \in Symbol : p = Val(c, q, InvLocator(j)) /\ Seen(z, c, q)[j] = GfMul[z[j]][p]
      BY SeenIs
    <3>2. Seen(z, c, q)[j] = 0
      BY <1>6, <2>2 DEF Zero
    <3>3. z[j] \in Symbol \ {0}
      BY DEF RsWords
    <3>4. QED
      BY <3>1, <3>2, <3>3, MulNonzero
  <2>4. QED
    BY <2>1, <2>3 DEF RootsOf
<1>8. v <= L
  BY <1>1, <1>5, <1>7, RootCount
<1>9. L = v
  BY <1>5, <1>8
<1>10. QED
  BY <1>1, <1>2, <1>3, <1>4, <1>5, <1>7, <1>9
-----------------------------------------------------------------------------
(* Forney.  p is the errata locator: its d roots are the symbols of D, and *)
(* e, what is to be taken off, is 0 outside D.                             *)
LocatorOf(p, D, d) ==
    /\ p \in Coeffs /\ EndsAt(p, d + 1) /\ p[0] = 1
    /\ RootsOf(D, p, d + 1) /\ Cardinality(D) = d

\* p without its root at j, and what each symbol adds to omega.
Without(p, j) == QuotBy(p, Locator(j), InvLocator(j))
Forney(e, p, m, y) == [j \in Pos |-> GfMul[GfMul[e[j]][Locator(j)]][Val(Without(p, j), m, y)]]

LEMMA WithoutIs ==
  ASSUME NEW p \in Coeffs, NEW j \in Pos
  PROVE  /\ Without(p, j) \in Coeffs /\ Without(p, j)[0] = p[0]
         /\ \A k \in Nat : Without(p, j)[k] = GfMul[Pw(Locator(j), k)][Val(p, k + 1, InvLocator(j))]
         /\ \A k \in Nat : p[k] = Mixed(Locator(j), Raised(Without(p, j)), Without(p, j))[k]
<1>1. PICK X \in Symbol, Y \in Symbol : X = Locator(j) /\ Y = InvLocator(j) /\ GfMul[X][Y] = 1
  BY LocatorIs
<1>2. Without(p, j) = QuotBy(p, X, Y)
  BY <1>1 DEF Without
<1>3. /\ QuotBy(p, X, Y) \in Coeffs /\ QuotBy(p, X, Y)[0] = p[0]
      /\ \A k \in Nat : QuotBy(p, X, Y)[k] = GfMul[Pw(X, k)][Val(p, k + 1, Y)]
  BY <1>1, QuotIs
<1>4. \A k \in Nat : p[k] = Mixed(X, Raised(QuotBy(p, X, Y)), QuotBy(p, X, Y))[k]
  BY <1>1, QuotMixed
<1>5. QED
  BY <1>1, <1>2, <1>3, <1>4

LEMMA ForneyIs ==
  ASSUME NEW e \in RsWords, NEW p \in Coeffs, NEW m \in Nat, NEW y \in Symbol
  PROVE  /\ Forney(e, p, m, y) \in RsWords
         /\ \A j \in Pos : Forney(e, p, m, y)[j]
                           = GfMul[GfMul[e[j]][Locator(j)]][Val(Without(p, j), m, y)]
<1>1. ASSUME NEW j \in Pos
      PROVE  GfMul[GfMul[e[j]][Locator(j)]][Val(Without(p, j), m, y)] \in Symbol
  <2>1. PICK a \in Symbol, X \in Symbol, v \in Symbol :
           a = e[j] /\ X = Locator(j) /\ v = Val(Without(p, j), m, y)
    BY LocatorIs, WithoutIs, ValTyped DEF RsWords
  <2>2. GfMul[a][X] \in Symbol
    BY MulIs
  <2>3. GfMul[GfMul[a][X]][v] \in Symbol
    BY <2>2, MulIs
  <2>4. QED
    BY <2>1, <2>3
<1>2. QED
  BY <1>1 DEF Forney, RsWords

\* One coefficient of omega more.
ShareOf(a, v, x, s, p) == GfMul[GfMul[a][v]][GfMul[s][x]] = GfMul[GfMul[a][x]][GfMul[s][v]]

LEMMA ShareTurns ==
  ASSUME NEW a \in Symbol, NEW v \in Symbol, NEW x \in Symbol, NEW s \in Symbol, NEW p
  PROVE  ShareOf(a, v, x, s, p)
<1>1. PICK q \in Symbol, r \in Symbol : q = GfMul[s][x] /\ r = GfMul[s][v]
  BY MulIs
<1>2. GfMul[GfMul[a][v]][q] = GfMul[a][GfMul[v][q]]
  BY MulGroups
<1>3. GfMul[GfMul[a][x]][r] = GfMul[a][GfMul[x][r]]
  BY MulGroups
<1>4. GfMul[v][q] = GfMul[r][x]
  <2>1. GfMul[GfMul[v][s]][x] = GfMul[v][GfMul[s][x]]
    BY MulGroups
  <2>2. GfMul[v][s] = GfMul[s][v]
    BY MulTurns
  <2>3. QED
    BY <1>1, <2>1, <2>2
<1>5. GfMul[x][r] = GfMul[r][x]
  BY MulTurns
<1>6. QED
  BY <1>1, <1>2, <1>3, <1>4, <1>5 DEF ShareOf

Weights(e, p, k) == [j \in Pos |-> GfMul[GfMul[e[j]][Locator(j)]][Without(p, j)[k]]]

LEMMA WeightsIs ==
  ASSUME NEW e \in RsWords, NEW p \in Coeffs, NEW k \in Nat
  PROVE  /\ Weights(e, p, k) \in RsWords
         /\ \A j \in Pos : Weights(e, p, k)[j] = GfMul[GfMul[e[j]][Locator(j)]][Without(p, j)[k]]
<1>1. ASSUME NEW j \in Pos
      PROVE  GfMul[GfMul[e[j]][Locator(j)]][Without(p, j)[k]] \in Symbol
  <2>1. PICK q \in Coeffs : q = Without(p, j)
    BY WithoutIs
  <2>2. PICK a \in Symbol, X \in Symbol, v \in Symbol : a = e[j] /\ X = Locator(j) /\ v = q[k]
    BY LocatorIs DEF RsWords, Coeffs
  <2>3. GfMul[a][X] \in Symbol
    BY MulIs
  <2>4. GfMul[GfMul[a][X]][v] \in Symbol
    BY <2>3, MulIs
  <2>5. QED
    BY <2>1, <2>2, <2>4
<1>2. QED
  BY <1>1 DEF Weights, RsWords

LEMMA OmegaCoeff ==
  ASSUME NEW e \in RsWords, NEW p \in Coeffs, NEW k \in Nat
  PROVE  Pows(Seen(e, p, k + 1), k + 1) = Pows(Weights(e, p, k), 0)
<1>1. PICK l \in Nat : l = k + 1
  OBVIOUS
<1>2. PICK y \in RsWords, u \in RsWords : y = Seen(e, p, l) /\ u = Weights(e, p, k)
  BY SeenIs, WeightsIs
<1>3. ASSUME NEW j \in Pos
      PROVE  GfMul[y[j]][Pw(Locator(j), l)] = GfMul[u[j]][Pw(Locator(j), 0)]
  <2>1. PICK a \in Symbol, x \in Symbol, Y \in Symbol : a = e[j] /\ x = Locator(j) /\ Y = InvLocator(j)
    BY LocatorIs DEF RsWords
  <2>2. PICK v \in Symbol, s \in Symbol : v = Val(p, l, Y) /\ s = Pw(x, k)
    BY ValTyped, PwIs
  <2>3. y[j] = GfMul[a][v]
    BY <1>2, <2>1, <2>2, SeenIs
  <2>4. Pw(x, l) = GfMul[s][x]
    BY <1>1, <2>2, PwIs
  <2>5. u[j] = GfMul[GfMul[a][x]][GfMul[s][v]]
    <3>1. Without(p, j)[k] = GfMul[s][v]
      BY <1>1, <2>1, <2>2, WithoutIs
    <3>2. QED
      BY <1>2, <2>1, <3>1, WeightsIs
  <2>6. Pw(x, 0) = 1
    BY PwIs
  <2>7. GfMul[u[j]][1] = u[j]
    <3>1. PICK t \in Symbol : t = u[j]
      BY DEF RsWords
    <3>2. GfMul[t][1] = GfMul[1][t] /\ GfMul[1][t] = t
      BY MulLaws, CodeFacts
    <3>3. QED
      BY <3>1, <3>2
  <2>8. ShareOf(a, v, x, s, p)
    BY ShareTurns
  <2>9. GfMul[GfMul[a][v]][GfMul[s][x]] = GfMul[GfMul[a][x]][GfMul[s][v]]
    BY <2>8 DEF ShareOf
  <2>10. QED
    BY <2>1, <2>3, <2>4, <2>5, <2>6, <2>7, <2>9
<1>4. PICK n \in Nat : n = RsN - 1
  BY ShareIs
<1>5. ASSUME NEW i \in 0..n PROVE Share(y, l)[i] = Share(u, 0)[i]
  <2>1. PICK j \in Pos : j = RsN - i
    BY <1>4, ShareIs
  <2>2. Share(y, l)[i] = GfMul[y[j]][Pw(Locator(j), l)]
    BY <1>4, <2>1, ShareIs
  <2>3. Share(u, 0)[i] = GfMul[u[j]][Pw(Locator(j), 0)]
    BY <1>4, <2>1, ShareIs
  <2>4. QED
    BY <1>3, <2>2, <2>3
<1>6. Share(y, l) = Share(u, 0)
  <2>1. Share(y, l) \in [0..n -> Symbol] /\ Share(u, 0) \in [0..n -> Symbol]
    BY <1>4, ShareIs
  <2>2. QED
    BY <1>5, <2>1, SameSequence
<1>7. QED
  BY <1>1, <1>2, <1>6 DEF Pows

LEMMA ForneySum ==
  ASSUME NEW e \in RsWords, NEW p \in Coeffs, NEW o \in Coeffs, NEW n \in Nat, NEW y \in Symbol,
         \A k \in 0..(n - 1) : o[k] = Pows(Seen(e, p, k + 1), k + 1)
  PROVE  Val(o, n, y) = Pows(Forney(e, p, n, y), 0)
<1> DEFINE S == {m \in 0..n : Val(o, m, y) = Pows(Forney(e, p, m, y), 0)}
<1>1. 0 \in S
  <2>1. PICK u \in RsWords : u = Forney(e, p, 0, y)
    BY ForneyIs
  <2>2. ASSUME NEW j \in Pos PROVE u[j] = 0
    <3>1. PICK q \in Coeffs : q = Without(p, j)
      BY WithoutIs
    <3>2. Val(q, 0, y) = 0
      BY ValStart
    <3>3. PICK a \in Symbol : a = GfMul[e[j]][Locator(j)]
      BY LocatorIs, MulIs DEF RsWords
    <3>4. GfMul[a][0] = 0
      BY MulLaws
    <3>5. QED
      BY <2>1, <3>1, <3>2, <3>3, <3>4, ForneyIs
  <2>3. Pows(u, 0) = 0
    BY <2>2, PowsNothing
  <2>4. Val(o, 0, y) = 0 /\ 0 \in 0..n
    BY ValStart
  <2>5. QED
    BY <2>1, <2>3, <2>4
<1>2. ASSUME NEW m \in 0..(n - 1), m \in S PROVE m + 1 \in S
  <2>1. m \in Nat /\ m + 1 \in Nat /\ m + 1 \in 0..n /\ Val(o, m, y) = Pows(Forney(e, p, m, y), 0)
    BY <1>2
  <2>2. PICK s \in Symbol, f \in Symbol : s = Pw(y, m) /\ f = o[m]
    BY <2>1, PwIs DEF Coeffs
  <2>3. PICK t \in RsWords, u \in RsWords, v \in RsWords :
           t = Weights(e, p, m) /\ u = Forney(e, p, m, y) /\ v = Forney(e, p, m + 1, y)
    BY <2>1, WeightsIs, ForneyIs
  <2>4. ASSUME NEW j \in Pos PROVE v[j] = GfAdd[GfMul[s][t[j]]][u[j]]
    <3>1. PICK q \in Coeffs : q = Without(p, j)
      BY WithoutIs
    <3>2. PICK a \in Symbol : a = GfMul[e[j]][Locator(j)]
      BY LocatorIs, MulIs DEF RsWords
    <3>3. PICK r \in Symbol, w \in Symbol : r = q[m] /\ w = Val(q, m, y)
      BY <2>1, ValTyped DEF Coeffs
    <3>4. Val(q, m + 1, y) = GfAdd[w][GfMul[r][s]]
      <4>1. Val(q, m + 1, y) = GfAdd[Val(q, m, y)][GfMul[q[m]][Pw(y, m)]]
        BY <2>1, ValTop
      <4>2. QED
        BY <2>2, <3>3, <4>1
    <3>5. v[j] = GfMul[a][GfAdd[w][GfMul[r][s]]]
      <4>1. v[j] = GfMul[GfMul[e[j]][Locator(j)]][Val(Without(p, j), m + 1, y)]
        BY <2>3 DEF Forney
      <4>2. QED
        BY <3>1, <3>2, <3>4, <4>1
    <3>6. u[j] = GfMul[a][w] /\ t[j] = GfMul[a][r]
      <4>1. u[j] = GfMul[GfMul[e[j]][Locator(j)]][Val(Without(p, j), m, y)]
        BY <2>3 DEF Forney
      <4>2. t[j] = GfMul[GfMul[e[j]][Locator(j)]][Without(p, j)[m]]
        BY <2>3 DEF Weights
      <4>3. QED
        BY <3>1, <3>2, <3>3, <4>1, <4>2
    <3>7. PICK g \in Symbol : g = GfMul[r][s]
      BY MulIs
    <3>8. GfMul[a][GfAdd[w][g]] = GfAdd[GfMul[a][w]][GfMul[a][g]]
      BY MulSpreads
    <3>9. GfMul[a][g] = GfMul[s][GfMul[a][r]]
      <4>1. GfMul[GfMul[a][r]][s] = GfMul[a][GfMul[r][s]]
        BY MulGroups
      <4>2. PICK h \in Symbol : h = GfMul[a][r]
        BY MulIs
      <4>3. GfMul[h][s] = GfMul[s][h]
        BY MulTurns
      <4>4. QED
        BY <3>7, <4>1, <4>2, <4>3
    <3>10. PICK b \in Symbol, d \in Symbol : b = GfMul[a][w] /\ d = GfMul[a][g]
      BY MulIs
    <3>11. GfAdd[b][d] = GfAdd[d][b]
      BY AddLaws
    <3>12. QED
      BY <3>5, <3>6, <3>7, <3>8, <3>9, <3>10, <3>11
  <2>5. WordMix(v, s, t, u)
    BY <2>4 DEF WordMix
  <2>6. Pows(v, 0) = GfAdd[GfMul[s][Pows(t, 0)]][Pows(u, 0)]
    BY <2>5, PowsMixed
  <2>7. Pows(t, 0) = f
    <3>1. Pows(Seen(e, p, m + 1), m + 1) = Pows(t, 0)
      BY <2>1, <2>3, OmegaCoeff
    <3>2. QED
      BY <2>2, <3>1
  <2>8. Val(o, m + 1, y) = GfAdd[Val(o, m, y)][GfMul[f][s]]
    BY <2>1, <2>2, ValTop
  <2>9. PICK a \in Symbol, b \in Symbol : a = Val(o, m, y) /\ b = GfMul[f][s]
    BY <2>1, ValTyped, MulIs
  <2>10. GfMul[s][f] = b
    BY <2>9, MulTurns
  <2>11. GfAdd[a][b] = GfAdd[b][a]
    BY AddLaws
  <2>12. Val(o, m + 1, y) = Pows(v, 0)
    BY <2>1, <2>3, <2>6, <2>7, <2>8, <2>9, <2>10, <2>11
  <2>13. QED
    BY <2>1, <2>3, <2>12
<1>3. \A m \in 0..n : m \in S
  <2> HIDE DEF S
  <2>1. QED
    BY <1>1, <1>2, Climb
<1>4. QED
  BY <1>3

\* p without a root keeps the others and not that one.
LEMMA WithoutRoots ==
  ASSUME NEW D \in SUBSET Pos, NEW d \in Nat, NEW p, LocatorOf(p, D, d), NEW a \in D
  PROVE  /\ d > 0 /\ EndsAt(Without(p, a), d)
         /\ Val(Without(p, a), d, InvLocator(a)) \in Symbol \ {0}
         /\ \A j \in D : j # a => Val(Without(p, a), d, InvLocator(j)) = 0
<1>1. /\ p \in Coeffs /\ EndsAt(p, d + 1) /\ p[0] = 1 /\ Cardinality(D) = d
      /\ \A j \in D : Val(p, d + 1, InvLocator(j)) = 0
  BY DEF LocatorOf, RootsOf
<1>2. PICK X \in Symbol, Y \in Symbol : X = Locator(a) /\ Y = InvLocator(a) /\ GfMul[X][Y] = 1
  BY LocatorIs
<1>3. PICK q \in Coeffs : q = Without(p, a) /\ q[0] = 1 /\ q = QuotBy(p, X, Y)
  BY <1>1, <1>2, WithoutIs DEF Without
<1>4. EndsAt(q, d)
  BY <1>1, <1>2, <1>3, QuotEnds
<1>5. \A j \in D : j # a => Val(q, d, InvLocator(j)) = 0
  <2>1. ASSUME NEW j \in D, j # a PROVE Val(q, d, InvLocator(j)) = 0
    <3>1. Val(QuotBy(p, Locator(a), InvLocator(a)), d, InvLocator(j)) = 0
      BY <1>1, <2>1, QuotRoot
    <3>2. QED
      BY <1>2, <1>3, <3>1
  <2>2. QED
    BY <2>1
<1>6. d > 0
  <2>1. IsFiniteSet(D)
    BY PosFinite
  <2>2. d # 0
    BY <1>1, <2>1, FS_EmptySet
  <2>3. QED
    BY <2>2
<1>7. Val(q, d, Y) \in Symbol \ {0}
  <2>1. SUFFICES ASSUME Val(q, d, Y) = 0 PROVE FALSE
    BY ValTyped
  <2>2. PICK n \in Nat : d = n + 1
    <3>1. d - 1 \in Nat /\ d = (d - 1) + 1
      BY <1>6
    <3>2. QED
      BY <3>1
  <2>3. RootsOf(D, q, n + 1)
    <3>1. ASSUME NEW j \in D PROVE Val(q, d, InvLocator(j)) = 0
      BY <1>2, <1>5, <2>1, <3>1
    <3>2. QED
      BY <2>2, <3>1 DEF RootsOf
  <2>4. EndsAt(q, n + 1) /\ q[0] # 0
    BY <1>3, <1>4, <2>2
  <2>5. Cardinality(D) <= n
    BY <2>3, <2>4, RootCount
  <2>6. QED
    BY <1>1, <2>2, <2>5
<1>8. QED
  BY <1>2, <1>3, <1>4, <1>5, <1>6, <1>7

\* Omega, as far as n, and what it is at a root.
OmegaIs(o, e, p, n) == \A k \in 0..(n - 1) : o[k] = Pows(Seen(e, p, k + 1), k + 1)

OmegaGives(o, n, e, p, d, a) ==
    Val(o, n, InvLocator(a)) = GfMul[GfMul[e[a]][Locator(a)]][Val(Without(p, a), d, InvLocator(a))]

LEMMA OmegaAt ==
  ASSUME NEW D \in SUBSET Pos, NEW d \in Nat, NEW p, LocatorOf(p, D, d), NEW n \in Nat, d <= n,
         NEW e \in RsWords, OnlyIn(e, D), NEW o \in Coeffs, OmegaIs(o, e, p, n), NEW a \in D
  PROVE  OmegaGives(o, n, e, p, d, a)
<1>1. p \in Coeffs
  BY DEF LocatorOf
<1>2. PICK y \in Symbol, x \in Symbol : y = InvLocator(a) /\ x = Locator(a)
  BY LocatorIs
<1>3. PICK u \in RsWords : u = Forney(e, p, n, y)
  BY <1>1, ForneyIs
<1>4. Val(o, n, y) = Pows(u, 0)
  BY <1>1, <1>3, ForneySum DEF OmegaIs
<1>5. ASSUME NEW j \in D
      PROVE  u[j] = GfMul[GfMul[e[j]][Locator(j)]][Val(Without(p, j), d, y)]
  <2>1. PICK q \in Coeffs : q = Without(p, j) /\ EndsAt(q, d)
    <3>1. Without(p, j) \in Coeffs
      BY <1>1, WithoutIs
    <3>2. EndsAt(Without(p, j), d)
      BY WithoutRoots
    <3>3. QED
      BY <3>1, <3>2
  <2>2. Val(q, n, y) = Val(q, d, y)
    BY <2>1, ValPad
  <2>3. QED
    BY <1>1, <1>3, <2>1, <2>2, ForneyIs, SMTT(60)
<1>6. ASSUME NEW j \in Pos, j # a PROVE u[j] = 0
  <2>1. PICK b \in Symbol, X \in Symbol : b = e[j] /\ X = Locator(j)
    BY LocatorIs DEF RsWords
  <2>2. CASE j \in D
    <3>1. Val(Without(p, j), d, y) = 0
      BY <1>2, <1>6, <2>2, WithoutRoots
    <3>2. PICK f \in Symbol : f = GfMul[b][X]
      BY MulIs
    <3>3. GfMul[f][0] = 0
      BY MulLaws
    <3>4. QED
      BY <1>5, <2>1, <2>2, <3>1, <3>2, <3>3
  <2>3. CASE j \notin D
    <3>1. b = 0
      BY <2>1, <2>3 DEF OnlyIn
    <3>2. PICK f \in Symbol : f = Val(Without(p, j), n, y)
      BY <1>1, WithoutIs, ValTyped
    <3>3. GfMul[0][X] = 0 /\ GfMul[0][f] = 0
      BY MulLaws
    <3>4. QED
      <4>1. u[j] = GfMul[GfMul[e[j]][Locator(j)]][Val(Without(p, j), n, y)]
        BY <1>3 DEF Forney
      <4>2. QED
        BY <2>1, <3>1, <3>2, <3>3, <4>1
  <2>4. QED
    BY <2>2, <2>3
<1>7. Pows(u, 0) = GfMul[u[a]][Pw(x, 0)]
  BY <1>2, <1>6, PowsAlone
<1>8. GfMul[u[a]][Pw(x, 0)] = u[a]
  <2>1. PICK t \in Symbol : t = u[a]
    BY DEF RsWords
  <2>2. Pw(x, 0) = 1
    BY PwIs
  <2>3. GfMul[t][1] = GfMul[1][t] /\ GfMul[1][t] = t
    BY MulLaws, CodeFacts
  <2>4. QED
    BY <2>1, <2>2, <2>3
<1>9. QED
  BY <1>2, <1>4, <1>5, <1>7, <1>8 DEF OmegaGives
-----------------------------------------------------------------------------
(* The derivative, in characteristic two, of p: the odd coefficients of p. *)
(* Where p is 0 it is what Forney divides by.                              *)
Derived(p) == [k \in Nat |-> IF k % 2 = 0 THEN p[k + 1] ELSE 0]

LEMMA DerivedIs ==
  ASSUME NEW p \in Coeffs
  PROVE  /\ Derived(p) \in Coeffs
         /\ \A k \in Nat : Derived(p)[k] = IF k % 2 = 0 THEN p[k + 1] ELSE 0
<1>1. ASSUME NEW k \in Nat
      PROVE  (IF k % 2 = 0 THEN p[k + 1] ELSE 0) \in Symbol
  <2>1. p[k + 1] \in Symbol
    BY DEF Coeffs
  <2>2. QED
    BY <2>1, CodeFacts
<1>2. QED
  BY <1>1 DEF Coeffs, Derived

\* What Derivative computes.
LEMMA DerivativeIs ==
  ASSUME NEW psi \in Seq(Symbol), NEW d \in Nat, Len(psi) = d + 1
  PROVE  /\ Derivative(psi) \in Seq(Symbol) /\ Len(Derivative(psi)) = d
         /\ \A k \in 0..(d - 1) : Up(Derivative(psi))[k] = Derived(Up(psi))[k]
<1> DEFINE c == [k \in 0..(Len(psi) - 2) |-> IF k % 2 = 0 THEN psi[k + 2] ELSE 0]
<1>1. Len(psi) - 1 = d /\ Len(psi) - 2 = d - 1
  OBVIOUS
<1>2. ASSUME NEW k \in 0..(d - 1)
      PROVE  /\ k \in Nat /\ c[k] \in Symbol /\ c[k] = Derived(Up(psi))[k]
  <2>1. k \in Nat /\ k + 1 \in Nat /\ k + 2 \in 1..Len(psi) /\ k + 1 < Len(psi)
    BY <1>1
  <2>2. psi[k + 2] \in Symbol
    BY <2>1, ElementOfSeq
  <2>3. Up(psi) \in Coeffs /\ Up(psi)[k + 1] = Coeff(psi, k + 1)
    BY <2>1, UpIs
  <2>4. Coeff(psi, k + 1) = psi[k + 2]
    BY <2>1 DEF Coeff
  <2>5. Derived(Up(psi))[k] = IF k % 2 = 0 THEN Up(psi)[k + 1] ELSE 0
    BY <2>1, <2>3, DerivedIs
  <2>6. c[k] = IF k % 2 = 0 THEN psi[k + 2] ELSE 0
    BY <1>1
  <2>7. QED
    BY <2>1, <2>2, <2>3, <2>4, <2>5, <2>6, CodeFacts
<1>3. c \in [0..(d - 1) -> Symbol]
  BY <1>1, <1>2
<1>4. Derivative(psi) = Poly(d, c)
  BY <1>1 DEF Derivative
<1> HIDE DEF c
<1>5. /\ Poly(d, c) \in Seq(Symbol) /\ Len(Poly(d, c)) = d
      /\ \A k \in Nat : Coeff(Poly(d, c), k) = IF k < d THEN c[k] ELSE 0
  BY <1>3, PolyIs
<1>6. PICK r \in Seq(Symbol) : r = Poly(d, c)
  BY <1>5
<1>7. ASSUME NEW k \in 0..(d - 1)
      PROVE  Up(r)[k] = Derived(Up(psi))[k]
  <2>1. k \in Nat /\ k < d
    OBVIOUS
  <2>2. Up(r)[k] = Coeff(r, k)
    BY <2>1, UpIs
  <2>3. Coeff(r, k) = c[k]
    BY <1>5, <1>6, <2>1
  <2>4. QED
    BY <1>2, <2>2, <2>3
<1>8. QED
  BY <1>4, <1>5, <1>6, <1>7

\* p is q times 1 + X x.
TimesFactor(p, X, q) == \A k \in Nat : p[k] = Mixed(X, Raised(q), q)[k]

\* The derivative of a product with a factor whose derivative is X.
LEMMA DerivedProduct ==
  ASSUME NEW p \in Coeffs, NEW q \in Coeffs, NEW X \in Symbol,
         TimesFactor(p, X, q)
  PROVE  \A k \in Nat :
           Derived(p)[k] = Mixed(X, q, Mixed(X, Raised(Derived(q)), Derived(q)))[k]
<1>1. PICK g \in Coeffs : g = Derived(q) /\ \A k \in Nat : g[k] = IF k % 2 = 0 THEN q[k + 1] ELSE 0
  BY DerivedIs
<1>2. PICK r \in Coeffs : r = Raised(g) /\ r[0] = 0 /\ \A k \in Nat : r[k + 1] = g[k]
  BY RaisedIs
<1>3. PICK u \in Coeffs : u = Raised(q) /\ \A k \in Nat : u[k + 1] = q[k]
  BY RaisedIs
<1>4. PICK o \in Coeffs : o = Mixed(X, r, g) /\ \A k \in Nat : o[k] = GfAdd[GfMul[X][r[k]]][g[k]]
  BY MixedIs
<1>5. \A k \in Nat : Mixed(X, q, o)[k] = GfAdd[GfMul[X][q[k]]][o[k]]
  BY MixedIs
<1>6. \A k \in Nat : p[k] = GfAdd[GfMul[X][u[k]]][q[k]]
  BY <1>3, MixedIs DEF TimesFactor
<1>7. ASSUME NEW k \in Nat
      PROVE  Derived(p)[k] = Mixed(X, q, o)[k]
  <2>1. k + 1 \in Nat
    OBVIOUS
  <2>2. PICK a \in Symbol, b \in Symbol : a = q[k] /\ b = q[k + 1]
    BY <2>1 DEF Coeffs
  <2>3. PICK t \in Symbol : t = GfMul[X][a]
    BY MulIs
  <2>4. p[k + 1] = GfAdd[t][b]
    <3>1. u[k + 1] = a
      BY <1>3, <2>2
    <3>2. p[k + 1] = GfAdd[GfMul[X][u[k + 1]]][q[k + 1]]
      BY <1>6, <2>1
    <3>3. QED
      BY <2>2, <2>3, <3>1, <3>2
  <2>5. Derived(p)[k] = IF k % 2 = 0 THEN p[k + 1] ELSE 0
    BY DerivedIs
  <2>6. g[k] = IF k % 2 = 0 THEN b ELSE 0
    BY <1>1, <2>2
  <2>7. Mixed(X, q, o)[k] = GfAdd[t][o[k]]
    BY <1>5, <2>2, <2>3
  <2>8. CASE k % 2 = 0
    <3>1. r[k] = 0
      <4>1. CASE k = 0
        BY <1>2, <4>1
      <4>2. CASE k # 0
        <5>1. PICK l \in Nat : k = l + 1
          BY <4>2
        <5>2. ~(l % 2 = 0)
          BY <2>8, <5>1
        <5>3. g[l] = 0
          BY <1>1, <5>2
        <5>4. r[l + 1] = g[l]
          BY <1>2
        <5>5. QED
          BY <5>1, <5>3, <5>4
      <4>3. QED
        BY <4>1, <4>2
    <3>2. o[k] = GfAdd[GfMul[X][0]][b]
      BY <1>4, <2>6, <2>8, <3>1
    <3>3. GfMul[X][0] = 0 /\ GfAdd[0][b] = b
      BY MulLaws, AddLaws
    <3>4. QED
      BY <2>4, <2>5, <2>7, <2>8, <3>2, <3>3
  <2>9. CASE ~(k % 2 = 0)
    <3>1. PICK l \in Nat : k = l + 1
      BY <2>9
    <3>2. l % 2 = 0
      BY <2>9, <3>1
    <3>3. g[l] = a
      BY <1>1, <2>2, <3>1, <3>2
    <3>4. r[k] = a
      <4>1. r[l + 1] = g[l]
        BY <1>2
      <4>2. QED
        BY <3>1, <3>3, <4>1
    <3>5. o[k] = GfAdd[GfMul[X][a]][0]
      BY <1>4, <2>6, <2>9, <3>4
    <3>6. o[k] = t /\ GfAdd[t][t] = 0
      BY <2>3, <3>5, AddLaws
    <3>7. QED
      BY <2>5, <2>7, <2>9, <3>6
  <2>10. QED
    BY <2>8, <2>9
<1>8. QED
  BY <1>1, <1>2, <1>4, <1>7

\* At the root of that factor only one of its two terms is left.
LEMMA DerivedVal ==
  ASSUME NEW p \in Coeffs, NEW q \in Coeffs, NEW X \in Symbol, NEW Y \in Symbol, GfMul[X][Y] = 1,
         TimesFactor(p, X, q), NEW d \in Nat, d > 0, EndsAt(q, d)
  PROVE  Val(Derived(p), d, Y) = GfMul[X][Val(q, d, Y)]
<1>1. PICK g \in Coeffs : g = Derived(q) /\ \A k \in Nat : g[k] = IF k % 2 = 0 THEN q[k + 1] ELSE 0
  BY DerivedIs
<1>2. PICK r \in Coeffs : r = Raised(g) /\ r[0] = 0 /\ Down(r) = g
  BY RaisedIs
<1>3. PICK o \in Coeffs : o = Mixed(X, r, g)
  BY MixedIs
<1>4. PICK m \in Nat : d = m + 1 /\ m < d
  OBVIOUS
<1>5. EndsAt(g, m)
  <2>1. ASSUME NEW k \in Nat, k >= m PROVE g[k] = 0
    <3>1. k + 1 \in Nat /\ k + 1 >= d
      BY <1>4, <2>1
    <3>2. q[k + 1] = 0
      BY <3>1 DEF EndsAt
    <3>3. QED
      BY <1>1, <3>2
  <2>2. QED
    BY <2>1 DEF EndsAt
<1>6. PICK v \in Symbol : v = Val(g, m, Y)
  BY ValTyped
<1>7. Val(g, d, Y) = v
  BY <1>4, <1>5, <1>6, ValPad
<1>8. Val(r, d, Y) = GfMul[v][Y]
  <2>1. Val(r, m + 1, Y) = GfAdd[GfMul[Val(g, m, Y)][Y]][0]
    BY <1>2, ValNext
  <2>2. PICK a \in Symbol : a = GfMul[v][Y]
    BY MulIs
  <2>3. GfAdd[a][0] = a
    BY AddLaws
  <2>4. QED
    BY <1>4, <1>6, <2>1, <2>2, <2>3
<1>9. Val(o, d, Y) = 0
  <2>1. Val(o, d, Y) = GfAdd[GfMul[X][Val(r, d, Y)]][Val(g, d, Y)]
    <3>1. \A l \in Nat, x \in Symbol :
             Val(Mixed(X, r, g), l, x) = GfAdd[GfMul[X][Val(r, l, x)]][Val(g, l, x)]
      BY MixedIs
    <3>2. QED
      BY <1>3, <3>1
  <2>2. GfMul[X][GfMul[v][Y]] = v
    <3>1. GfMul[v][Y] = GfMul[Y][v]
      BY MulTurns
    <3>2. GfMul[GfMul[X][Y]][v] = GfMul[X][GfMul[Y][v]]
      BY MulGroups
    <3>3. GfMul[1][v] = v
      BY MulLaws
    <3>4. QED
      BY <3>1, <3>2, <3>3
  <2>3. GfAdd[v][v] = 0
    BY AddLaws
  <2>4. QED
    BY <1>7, <1>8, <2>1, <2>2, <2>3
<1>10. Val(Mixed(X, q, o), d, Y) = GfAdd[GfMul[X][Val(q, d, Y)]][Val(o, d, Y)]
  <2>1. \A l \in Nat, x \in Symbol :
           Val(Mixed(X, q, o), l, x) = GfAdd[GfMul[X][Val(q, l, x)]][Val(o, l, x)]
    BY MixedIs
  <2>2. QED
    BY <2>1
<1>11. Val(Derived(p), d, Y) = Val(Mixed(X, q, o), d, Y)
  <2>1. \A k \in Nat : Derived(p)[k] = Mixed(X, q, o)[k]
    BY <1>1, <1>2, <1>3, DerivedProduct
  <2>2. \A k \in 0..(d - 1) : Derived(p)[k] = Mixed(X, q, o)[k]
    BY <2>1
  <2>3. QED
    BY <2>2, ValSame
<1>12. PICK s \in Symbol : s = GfMul[X][Val(q, d, Y)]
  BY ValTyped, MulIs
<1>13. GfAdd[s][0] = s
  BY AddLaws
<1>14. QED
  BY <1>9, <1>10, <1>11, <1>12, <1>13

\* So, where the locator is 0, its derivative is not, and what Forney makes of
\* the two is what is to be taken off.
LEMMA ForneyGives ==
  ASSUME NEW D \in SUBSET Pos, NEW d \in Nat, NEW psi \in Seq(Symbol), Len(psi) = d + 1,
         LocatorOf(Up(psi), D, d), d <= Parity, NEW e \in RsWords, OnlyIn(e, D),
         NEW omega \in Seq(Symbol), Len(omega) = Parity,
         OmegaIs(Up(omega), e, Up(psi), Parity), NEW a \in D
  PROVE  /\ Eval(Derivative(psi), InvLocator(a)) # 0
         /\ GfDiv(Eval(omega, InvLocator(a)), Eval(Derivative(psi), InvLocator(a))) = e[a]
<1>1. PICK p \in Coeffs : p = Up(psi)
  BY UpIs
<1>2. PICK X \in Symbol, Y \in Symbol : X = Locator(a) /\ Y = InvLocator(a) /\ GfMul[X][Y] = 1
  BY LocatorIs
<1>3. PICK q \in Coeffs : q = Without(p, a) /\ TimesFactor(p, X, q)
  BY <1>2, WithoutIs DEF TimesFactor
<1>4. /\ d > 0 /\ EndsAt(q, d) /\ Val(q, d, Y) \in Symbol \ {0}
  BY <1>1, <1>2, <1>3, WithoutRoots
<1>5. PICK v \in Symbol \ {0} : v = Val(q, d, Y)
  BY <1>4
<1>6. X # 0
  <2>1. ASSUME X = 0 PROVE FALSE
    <3>1. GfMul[0][Y] = 0
      BY MulLaws
    <3>2. QED
      BY <1>2, <2>1, <3>1
  <2>2. QED
    BY <2>1
<1>7. PICK t \in Symbol \ {0} : t = GfMul[X][v]
  BY <1>5, <1>6, MulNonzero
<1>8. Eval(Derivative(psi), Y) = t
  <2>1. PICK f \in Seq(Symbol) : /\ f = Derivative(psi) /\ Len(f) = d
                                 /\ \A k \in 0..(d - 1) : Up(f)[k] = Derived(p)[k]
    BY <1>1, DerivativeIs
  <2>2. Eval(f, Y) = Val(Up(f), d, Y)
    BY <2>1, EvalIs
  <2>3. Val(Up(f), d, Y) = Val(Derived(p), d, Y)
    <3>1. PICK h, g : h = Up(f) /\ g = Derived(p)
      OBVIOUS
    <3>2. \A k \in 0..(d - 1) : h[k] = g[k]
      BY <2>1, <3>1
    <3>3. Val(h, d, Y) = Val(g, d, Y)
      BY <3>2, ValSame
    <3>4. QED
      BY <3>1, <3>3
  <2>4. Val(Derived(p), d, Y) = GfMul[X][Val(q, d, Y)]
    BY <1>2, <1>3, <1>4, DerivedVal
  <2>5. QED
    BY <1>5, <1>7, <2>1, <2>2, <2>3, <2>4
<1>9. PICK b \in Symbol : b = e[a]
  BY DEF RsWords
<1>10. Eval(omega, Y) = GfMul[b][t]
  <2>1. Parity \in Nat
    BY CodeFacts
  <2>2. PICK o \in Coeffs : o = Up(omega)
    BY UpIs
  <2>3. Val(Up(omega), Parity, InvLocator(a))
        = GfMul[GfMul[e[a]][Locator(a)]][Val(Without(p, a), d, InvLocator(a))]
    <3>1. OmegaIs(o, e, p, Parity)
      BY <1>1, <2>2
    <3>2. LocatorOf(p, D, d)
      BY <1>1
    <3>3. OmegaGives(o, Parity, e, p, d, a)
      BY <2>1, <3>1, <3>2, OmegaAt
    <3>4. QED
      BY <2>2, <3>3 DEF OmegaGives
  <2>4. Eval(omega, Y) = Val(Up(omega), Parity, Y)
    BY EvalIs
  <2>5. GfMul[GfMul[b][X]][v] = GfMul[b][GfMul[X][v]]
    BY MulGroups
  <2>6. QED
    BY <1>2, <1>3, <1>5, <1>7, <1>9, <2>3, <2>4, <2>5
<1>11. GfDiv(GfMul[b][t], t) = b
  BY DivMul
<1>12. QED
  BY <1>2, <1>8, <1>9, <1>10, <1>11
-----------------------------------------------------------------------------
(* What the decoder is for.  e is what the line added to the codeword c:   *)
(* within the budget the decoder finds all of it and takes it off.         *)
TakesBack(e, w, c) == \A j \in Pos : (e[j] = 0 <=> w[j] = c[j]) /\ GfAdd[w[j]][e[j]] = c[j]

LEMMA ErrorIs ==
  ASSUME NEW c \in RsWords, NEW w \in RsWords
  PROVE  \E e \in RsWords : WordMix(e, 1, w, c) /\ OnlyIn(e, Differ(c, w)) /\ TakesBack(e, w, c)
<1> DEFINE e == [j \in Pos |-> GfAdd[w[j]][c[j]]]
<1>1. ASSUME NEW j \in Pos
      PROVE  /\ e[j] \in Symbol /\ (e[j] = 0 <=> w[j] = c[j]) /\ GfAdd[w[j]][e[j]] = c[j]
             /\ e[j] = GfAdd[GfMul[1][w[j]]][c[j]]
  <2>1. PICK a \in Symbol, b \in Symbol : a = w[j] /\ b = c[j]
    BY DEF RsWords
  <2>2. PICK d \in Symbol : d = GfAdd[a][b]
    BY AddLaws
  <2>3. e[j] = d
    BY <2>1, <2>2
  <2> HIDE DEF e
  <2>4. d = 0 <=> a = b
    BY <2>2, AddZero, AddLaws
  <2>5. GfAdd[a][d] = b
    <3>1. GfAdd[GfAdd[a][a]][b] = GfAdd[a][GfAdd[a][b]]
      BY AddGroups
    <3>2. GfAdd[a][a] = 0 /\ GfAdd[0][b] = b
      BY AddLaws
    <3>3. QED
      BY <2>2, <3>1, <3>2
  <2>6. GfMul[1][a] = a
    BY MulLaws
  <2>7. QED
    BY <2>1, <2>2, <2>3, <2>4, <2>5, <2>6
<1>2. e \in RsWords
  BY <1>1 DEF RsWords
<1> HIDE DEF e
<1>3. WordMix(e, 1, w, c) /\ TakesBack(e, w, c)
  BY <1>1 DEF WordMix, TakesBack
<1>4. OnlyIn(e, Differ(c, w))
  BY <1>1 DEF OnlyIn, Differ
<1>5. QED
  BY <1>2, <1>3, <1>4

\* What the budget says of the symbols hit (D) and of those flagged (F).
LEMMA BudgetIs ==
  ASSUME NEW D \in SUBSET Pos, NEW F \in SUBSET Pos, Cost(D, F) <= Parity
  PROVE  /\ Cardinality(F) \in 0..Parity /\ Cardinality(D \ F) \in Nat
         /\ 2 * Cardinality(D \ F) + Cardinality(F) <= Parity
         /\ Cardinality(D) <= Parity
         /\ Cardinality(F \cup (D \ F)) = Cardinality(F) + Cardinality(D \ F)
<1>1. PICK f \in Nat, d \in Nat, o \in Nat :
        f = Cardinality(F) /\ d = Cardinality(D) /\ o = Cardinality(D \ F)
  BY PosFinite
<1>2. Parity \in Nat /\ 2 * o + f <= Parity
  BY <1>1, CodeFacts DEF Cost
<1>3. IsFiniteSet(F) /\ IsFiniteSet(D \ F) /\ IsFiniteSet(D)
  BY PosFinite
<1>4. Cardinality(F \cup (D \ F)) = f + o
  <2>1. F \cap (D \ F) = {}
    OBVIOUS
  <2>2. Cardinality(F \cup (D \ F)) = f + o - Cardinality(F \cap (D \ F))
    BY <1>1, <1>3, FS_Union
  <2>3. Cardinality(F \cap (D \ F)) = 0
    BY <2>1, FS_EmptySet
  <2>4. QED
    BY <2>2, <2>3
<1>5. d <= f + o
  <2>1. D \in SUBSET (F \cup (D \ F))
    OBVIOUS
  <2>2. IsFiniteSet(F \cup (D \ F))
    BY <1>3, FS_Union
  <2>3. Cardinality(D) <= Cardinality(F \cup (D \ F))
    BY <2>1, <2>2, FS_Subset
  <2>4. QED
    BY <1>1, <1>4, <2>3
<1>6. QED
  BY <1>1, <1>2, <1>4, <1>5

\* No syndrome, no error.
LEMMA NothingHit ==
  ASSUME NEW w \in RsWords, AllZero(Syndromes(w)), NEW e \in RsWords,
         \A k \in 0..(Parity - 1) : Pows(w, k + 1) = Pows(e, k + 1),
         NEW D \in SUBSET Pos, OnlyIn(e, D), Cardinality(D) <= Parity
  PROVE  Zero(e)
<1>1. Parity \in Nat /\ Parity > 0 /\ 1 \in Nat
  BY CodeFacts
<1>2. Vanishing(e, 1, Parity)
  <2>1. ASSUME NEW i \in 1..(1 + Parity - 1)
        PROVE  Pows(e, i) = 0
    <3>1. PICK k \in 0..(Parity - 1) : i = k + 1 /\ i \in 1..Parity
      BY <1>1
    <3>2. Syndromes(w)[k + 1] = Pows(w, k + 1)
      BY SyndromesAre
    <3>3. Syndromes(w)[i] = 0
      BY <3>1 DEF AllZero
    <3>4. QED
      BY <3>1, <3>2, <3>3
  <2>2. QED
    BY <2>1 DEF Vanishing
<1>3. QED
  BY <1>1, <1>2, PowersIndependent

\* The modified syndromes, past the erasures, are those of the errors only:
\* Gamma is 0 at the flagged symbols, and at no other.
Erased(e, F) == Seen(e, Up(Gamma(F)), Cardinality(F) + 1)

LEMMA ErasedIs ==
  ASSUME NEW F \in SUBSET Pos, NEW e \in RsWords, NEW D \in SUBSET Pos, OnlyIn(e, D),
         \A j \in D : e[j] # 0
  PROVE  /\ Erased(e, F) \in RsWords /\ OnlyIn(Erased(e, F), D \ F)
         /\ \A j \in D \ F : Erased(e, F)[j] # 0
<1>1. PICK ne \in Nat : ne = Cardinality(F)
  BY PosFinite
<1>2. PICK gam \in Seq(Symbol) : /\ gam = Gamma(F) /\ Len(gam) = ne + 1 /\ Up(gam)[0] = 1
                                 /\ \A j \in F : Eval(gam, InvLocator(j)) = 0
  BY <1>1, GammaIs
<1>3. PICK g \in Coeffs : g = Up(gam) /\ EndsAt(g, ne + 1) /\ g[0] = 1
  BY <1>2, UpIs
<1>4. RootsOf(F, g, ne + 1)
  <2>1. ASSUME NEW j \in F PROVE Val(g, ne + 1, InvLocator(j)) = 0
    <3>1. InvLocator(j) \in Symbol
      BY LocatorIs
    <3>2. Eval(gam, InvLocator(j)) = Val(Up(gam), Len(gam), InvLocator(j))
      BY <3>1, EvalIs
    <3>3. QED
      BY <1>2, <1>3, <3>2
  <2>2. QED
    BY <2>1 DEF RootsOf
<1>5. PICK z \in RsWords : /\ z = Erased(e, F)
                           /\ \A j \in Pos : /\ Val(g, ne + 1, InvLocator(j)) \in Symbol
                                             /\ z[j] = GfMul[e[j]][Val(g, ne + 1, InvLocator(j))]
  BY <1>1, <1>2, <1>3, SeenIs DEF Erased
<1>6. ASSUME NEW j \in Pos, j \notin D \ F
      PROVE  z[j] = 0
  <2>1. PICK a \in Symbol, v \in Symbol : a = e[j] /\ v = Val(g, ne + 1, InvLocator(j))
    BY <1>5 DEF RsWords
  <2>2. a = 0 \/ v = 0
    <3>1. CASE j \in F
      BY <1>4, <2>1, <3>1 DEF RootsOf
    <3>2. CASE j \notin D
      BY <2>1, <3>2 DEF OnlyIn
    <3>3. QED
      BY <1>6, <3>1, <3>2
  <2>3. GfMul[a][v] = 0
    BY <2>2, MulLaws
  <2>4. QED
    BY <1>5, <2>1, <2>3
<1>7. ASSUME NEW j \in D \ F
      PROVE  z[j] # 0
  <2>1. PICK a \in Symbol, v \in Symbol : a = e[j] /\ v = Val(g, ne + 1, InvLocator(j))
    BY <1>5 DEF RsWords
  <2>2. v # 0
    <3>1. ASSUME v = 0 PROVE FALSE
      <4>1. RootsOf(F \cup {j}, g, ne + 1)
        BY <1>4, <2>1, <3>1 DEF RootsOf
      <4>2. g[0] # 0
        BY <1>3
      <4>3. Cardinality(F \cup {j}) = ne + 1
        BY <1>1, PosFinite, FS_AddElement
      <4>4. Cardinality(F \cup {j}) <= ne
        <5>1. PICK R \in SUBSET Pos : R = F \cup {j}
          OBVIOUS
        <5>2. RootsOf(R, g, ne + 1)
          BY <4>1, <5>1
        <5>3. Cardinality(R) <= ne
          BY <1>3, <4>2, <5>2, RootCount
        <5>4. QED
          BY <5>1, <5>3
      <4>5. QED
        BY <4>3, <4>4
    <3>2. QED
      BY <3>1
  <2>3. GfMul[a][v] \in Symbol \ {0}
    BY <2>1, <2>2, MulNonzero
  <2>4. QED
    BY <1>5, <2>1, <2>3
<1>8. QED
  BY <1>5, <1>6, <1>7 DEF OnlyIn

LEMMA ModifiedIs ==
  ASSUME NEW F \in SUBSET Pos, Cardinality(F) \in 0..Parity, NEW e \in RsWords,
         NEW S \in Seq(Symbol), \A k \in 0..(Parity - 1) : Up(S)[k] = Pows(e, k + 1)
  PROVE  /\ Times(S, Gamma(F), Parity) \in Seq(Symbol) /\ Len(Times(S, Gamma(F), Parity)) = Parity
         /\ Modified(Times(S, Gamma(F), Parity), Erased(e, F), Cardinality(F))
<1>1. PICK ne \in 0..Parity : ne = Cardinality(F)
  OBVIOUS
<1>2. Parity \in Nat /\ ne \in Nat /\ ne + 1 \in Nat /\ ne + 1 <= Parity + 1
  BY <1>1, CodeFacts
<1>3. PICK gam \in Seq(Symbol) : gam = Gamma(F) /\ Len(gam) = ne + 1
  BY <1>1, GammaIs
<1>4. PICK g \in Coeffs : g = Up(gam) /\ EndsAt(g, ne + 1)
  BY <1>3, UpIs
<1>5. PICK T \in Seq(Symbol) : T = Times(S, gam, Parity) /\ Len(T) = Parity
  BY <1>2, TimesIs
<1>6. \A k \in 0..(Parity - 1) : Up(T)[k] = Pows(Seen(e, g, k + 1), k + 1)
  BY <1>4, <1>5, TimesSeen
<1>7. ASSUME NEW k \in ne..(Parity - 1)
      PROVE  T[k + 1] = Pows(Seen(e, g, ne + 1), k + 1)
  <2>1. k \in 0..(Parity - 1) /\ k \in Nat /\ k + 1 \in Nat /\ k + 1 >= ne + 1
    BY <1>2
  <2>2. Seen(e, g, k + 1) = Seen(e, g, ne + 1)
    <3>1. PICK q \in Nat, n \in Nat : q = ne + 1 /\ n = k + 1
      BY <1>2, <2>1
    <3>2. Seen(e, g, n) = Seen(e, g, q)
      BY <1>2, <1>4, <2>1, <3>1, ThroughShort
    <3>3. QED
      BY <3>1, <3>2
  <2>3. Up(T)[k] = Coeff(T, k)
    BY <2>1, UpIs
  <2>4. Coeff(T, k) = T[k + 1]
    BY <1>2, <1>5, <2>1 DEF Coeff
  <2>5. QED
    BY <1>6, <2>1, <2>2, <2>3, <2>4
<1>8. QED
  BY <1>1, <1>3, <1>4, <1>5, <1>7 DEF Modified, Erased

\* The errata locator: its roots are the flagged symbols and those in error.
LEMMA ErrataLocates ==
  ASSUME NEW F \in SUBSET Pos, NEW E \in SUBSET Pos, NEW bm \in MStates, bm.L = Cardinality(E),
         EndsAt(Up(bm.lam), bm.L + 1), Up(bm.lam)[0] = 1, RootsOf(E, Up(bm.lam), bm.L + 1),
         bm.L <= Parity, Cardinality(F \cup E) = Cardinality(F) + Cardinality(E)
  PROVE  LET psi == Errata(Gamma(F), bm)
             d   == Cardinality(F) + Cardinality(E)
         IN  psi \in Seq(Symbol) /\ Len(psi) = d + 1 /\ LocatorOf(Up(psi), F \cup E, d)
<1>1. PICK ne \in Nat, L \in Nat : ne = Cardinality(F) /\ L = Cardinality(E) /\ L = bm.L
  BY PosFinite
<1>2. PICK gam \in Seq(Symbol) : /\ gam = Gamma(F) /\ Len(gam) = ne + 1 /\ Up(gam)[0] = 1
                                 /\ \A j \in F : Eval(gam, InvLocator(j)) = 0
  BY <1>1, GammaIs
<1>3. PICK lam \in Coeffs : lam = Up(bm.lam)
  BY StateIs
<1>4. PICK t \in Seq(Symbol) : /\ t = Trimmed(bm) /\ Len(t) = L + 1
                               /\ \A k \in 0..L : Up(t)[k] = lam[k]
  BY <1>1, <1>3, TrimmedIs
<1>5. PICK psi \in Seq(Symbol) :
        /\ psi = Errata(Gamma(F), bm) /\ Len(psi) = Len(gam) + L
        /\ psi = Times(gam, t, Len(gam) + L)
        /\ \A x \in Symbol : Eval(psi, x) = GfMul[Eval(gam, x)][Eval(t, x)]
  <2>1. /\ Errata(gam, bm) \in Seq(Symbol) /\ Len(Errata(gam, bm)) = Len(gam) + bm.L
        /\ Errata(gam, bm) = Times(gam, Trimmed(bm), Len(gam) + bm.L)
        /\ \A x \in Symbol :
             Eval(Errata(gam, bm), x) = GfMul[Eval(gam, x)][Eval(Trimmed(bm), x)]
    BY ErrataIs
  <2>2. gam = Gamma(F) /\ t = Trimmed(bm) /\ L = bm.L
    BY <1>1, <1>2, <1>4
  <2>3. QED
    BY <2>1, <2>2
<1>6. PICK d \in Nat, n \in Nat : d = ne + L /\ n = d + 1 /\ n = Len(gam) + L /\ n > 0
  BY <1>2
<1>7. PICK p \in Coeffs : p = Up(psi) /\ EndsAt(p, n)
  BY <1>5, <1>6, UpIs
<1>8. p[0] = 1
  <2>1. Up(Times(gam, t, n))[0] = GfMul[Up(gam)[0]][Up(t)[0]]
    BY <1>6, TimesStart
  <2>2. 0 \in 0..L
    OBVIOUS
  <2>3. Up(t)[0] = 1
    BY <1>3, <1>4, <2>2
  <2>4. GfMul[1][1] = 1
    BY MulLaws, CodeFacts
  <2>5. QED
    BY <1>2, <1>5, <1>6, <1>7, <2>1, <2>3, <2>4
<1>9. ASSUME NEW j \in F \cup E
      PROVE  Val(p, n, InvLocator(j)) = 0
  <2>1. PICK y \in Symbol : y = InvLocator(j)
    BY LocatorIs
  <2>2. PICK a \in Symbol, b \in Symbol : a = Eval(gam, y) /\ b = Eval(t, y)
    BY EvalIs
  <2>3. a = 0 \/ b = 0
    <3>1. CASE j \in F
      BY <1>2, <2>1, <2>2, <3>1
    <3>2. CASE j \in E
      <4>1. PICK m \in Nat : m = L + 1
        OBVIOUS
      <4>2. Val(lam, m, y) = 0
        BY <1>1, <1>3, <2>1, <3>2, <4>1 DEF RootsOf
      <4>3. Val(Up(t), m, y) = Val(lam, m, y)
        <5>1. PICK u : u = Up(t)
          OBVIOUS
        <5>2. \A k \in 0..(m - 1) : u[k] = lam[k]
          BY <1>4, <4>1, <5>1
        <5>3. Val(u, m, y) = Val(lam, m, y)
          BY <5>2, ValSame
        <5>4. QED
          BY <5>1, <5>3
      <4>4. Eval(t, y) = Val(Up(t), m, y)
        BY <1>4, <4>1, EvalIs
      <4>5. QED
        BY <2>2, <4>2, <4>3, <4>4
    <3>3. QED
      BY <3>1, <3>2
  <2>4. GfMul[a][b] = 0
    BY <2>3, MulLaws
  <2>5. Eval(psi, y) = Val(Up(psi), Len(psi), y)
    BY EvalIs
  <2>6. QED
    BY <1>5, <1>6, <1>7, <2>1, <2>2, <2>4, <2>5
<1>10. LocatorOf(p, F \cup E, d)
  BY <1>1, <1>6, <1>7, <1>8, <1>9 DEF LocatorOf, RootsOf
<1>11. Len(psi) = d + 1
  BY <1>5, <1>6
<1>12. psi = Errata(Gamma(F), bm) /\ d = Cardinality(F) + Cardinality(E) /\ p = Up(psi)
  BY <1>1, <1>5, <1>6, <1>7
<1>13. QED
  BY <1>10, <1>11, <1>12, Zenon

\* Chien's search finds the roots of the locator, and there are no others.
LEMMA ChienFinds ==
  ASSUME NEW D \in SUBSET Pos, NEW d \in Nat, NEW psi \in Seq(Symbol), Len(psi) = d + 1,
         LocatorOf(Up(psi), D, d)
  PROVE  Chien(psi) = D
<1>1. PICK p \in Coeffs : p = Up(psi) /\ EndsAt(p, d + 1) /\ p[0] = 1 /\ RootsOf(D, p, d + 1)
                          /\ Cardinality(D) = d
  BY DEF LocatorOf
<1>2. \A j \in Pos : Eval(psi, InvLocator(j)) = Val(p, d + 1, InvLocator(j))
  BY <1>1, LocatorIs, EvalIs
<1>3. PICK R \in SUBSET Pos : R = Chien(psi)
  BY DEF Chien
<1>4. \A j \in Pos : j \in R <=> Val(p, d + 1, InvLocator(j)) = 0
  BY <1>2, <1>3 DEF Chien
<1>5. D \in SUBSET R
  BY <1>1, <1>4 DEF RootsOf
<1>6. RootsOf(R, p, d + 1)
  BY <1>4 DEF RootsOf
<1>7. p[0] # 0
  BY <1>1
<1>8. Cardinality(R) <= d
  BY <1>1, <1>6, <1>7, RootCount
<1>9. IsFiniteSet(R) /\ Cardinality(R) \in Nat
  BY PosFinite
<1>10. Cardinality(D) <= Cardinality(R) /\ (Cardinality(R) = Cardinality(D) => R = D)
  BY <1>5, <1>9, FS_Subset
<1>11. QED
  BY <1>1, <1>3, <1>8, <1>9, <1>10

\* Forney's correction gives the codeword back.
LEMMA CorrectsAll ==
  ASSUME NEW D \in SUBSET Pos, NEW d \in Nat, NEW psi \in Seq(Symbol), Len(psi) = d + 1,
         LocatorOf(Up(psi), D, d), d <= Parity, NEW e \in RsWords, OnlyIn(e, D),
         NEW S \in Seq(Symbol), \A k \in 0..(Parity - 1) : Up(S)[k] = Pows(e, k + 1),
         NEW c \in RsWords, NEW w \in RsWords, TakesBack(e, w, c)
  PROVE  /\ Corrected(w, Times(S, psi, Parity), Derivative(psi), D) = c
         /\ \A j \in D : Eval(Derivative(psi), InvLocator(j)) # 0
<1>1. Parity \in Nat
  BY CodeFacts
<1>2. PICK omega \in Seq(Symbol) : omega = Times(S, psi, Parity) /\ Len(omega) = Parity
  BY <1>1, TimesIs
<1>3. PICK dpsi \in Seq(Symbol) : dpsi = Derivative(psi)
  BY DerivativeIs
<1>4. OmegaIs(Up(omega), e, Up(psi), Parity)
  BY <1>2, TimesSeen, SMTT(60) DEF OmegaIs
<1>5. \A j \in D : /\ Eval(dpsi, InvLocator(j)) # 0
                   /\ GfDiv(Eval(omega, InvLocator(j)), Eval(dpsi, InvLocator(j))) = e[j]
  BY <1>2, <1>3, <1>4, ForneyGives
<1> DEFINE f == [j \in Pos |->
                   IF j \notin D \/ Eval(dpsi, InvLocator(j)) = 0 THEN w[j]
                   ELSE GfAdd[w[j]][GfDiv(Eval(omega, InvLocator(j)), Eval(dpsi, InvLocator(j)))]]
<1>6. ASSUME NEW j \in Pos
      PROVE  f[j] = c[j] /\ c[j] \in Symbol
  <2>1. c[j] \in Symbol
    BY DEF RsWords
  <2>2. CASE j \in D
    <3>1. f[j] = GfAdd[w[j]][e[j]]
      BY <1>5, <2>2
    <3>2. QED
      BY <2>1, <3>1 DEF TakesBack
  <2>3. CASE j \notin D
    <3>1. f[j] = w[j]
      BY <2>3
    <3>2. e[j] = 0
      BY <2>3 DEF OnlyIn
    <3>3. QED
      BY <2>1, <3>1, <3>2 DEF TakesBack
  <2>4. QED
    BY <2>2, <2>3
<1>7. f \in RsWords
  BY <1>6 DEF RsWords
<1>8. Corrected(w, omega, dpsi, D) = <<>> \o f
  BY DEF Corrected
<1> HIDE DEF f
<1>9. f = c
  <2>1. f \in [Pos -> Symbol] /\ c \in [Pos -> Symbol]
    BY <1>7 DEF RsWords
  <2>2. QED
    BY <1>6, <2>1, SameFunction
<1>10. <<>> \o c = c
  BY WordIs
<1>11. QED
  BY <1>2, <1>3, <1>5, <1>8, <1>9, <1>10

\* Within the budget, what was sent comes back.
Restores(d, c) == d.word = c /\ d.ret >= 0

LEMMA LocatesAndCorrects ==
  ASSUME NEW c \in RsWords, IsCodeword(c), NEW w \in RsWords, NEW F \in SUBSET Pos,
         Cost(Differ(c, w), F) <= Parity, NEW S \in Seq(Symbol), NEW e \in RsWords,
         \A k \in 0..(Parity - 1) : Up(S)[k] = Pows(e, k + 1),
         OnlyIn(e, Differ(c, w)), TakesBack(e, w, c)
  PROVE  Restores(Search(w, S, Gamma(F), Cardinality(F)), c)
<1>1. PICK D \in SUBSET Pos : D = Differ(c, w)
  BY DEF Differ
<1>2. PICK E \in SUBSET Pos : E = D \ F
  OBVIOUS
<1>3. PICK ne \in 0..Parity : ne = Cardinality(F)
  BY <1>1, BudgetIs
<1>4. PICK v \in Nat : v = Cardinality(E)
  BY PosFinite
<1>5. 2 * v + ne <= Parity /\ Cardinality(F \cup E) = ne + v
  BY <1>1, <1>2, <1>3, <1>4, BudgetIs
<1>6. Parity \in Nat /\ ne \in Nat /\ v <= Parity /\ ne + v \in Nat /\ ne + v <= Parity
  BY <1>3, <1>4, <1>5, CodeFacts, SMTT(60)
<1>7. ASSUME NEW j \in D
      PROVE  e[j] # 0
  <2>1. c[j] # w[j]
    BY <1>1 DEF Differ
  <2>2. e[j] = 0 <=> w[j] = c[j]
    BY DEF TakesBack
  <2>3. QED
    BY <2>1, <2>2
<1>8. PICK z \in RsWords : z = Erased(e, F) /\ OnlyIn(z, E) /\ \A j \in E : z[j] # 0
  <2>1. OnlyIn(e, D) /\ \A j \in D : e[j] # 0
    BY <1>1, <1>7
  <2>2. /\ Erased(e, F) \in RsWords /\ OnlyIn(Erased(e, F), D \ F)
        /\ \A j \in D \ F : Erased(e, F)[j] # 0
    BY <2>1, ErasedIs
  <2>3. QED
    BY <1>2, <2>2
<1>9. PICK T \in Seq(Symbol) : T = Times(S, Gamma(F), Parity) /\ Len(T) = Parity /\ Modified(T, z, ne)
  BY <1>3, <1>8, ModifiedIs
<1>10. PICK bm \in MStates :
         /\ bm = Massey(T, ne) /\ bm.L = v
         /\ EndsAt(Up(bm.lam), bm.L + 1) /\ Up(bm.lam)[0] = 1 /\ RootsOf(E, Up(bm.lam), bm.L + 1)
  BY <1>4, <1>5, <1>8, <1>9, FindsAll
<1>11. PICK psi \in Seq(Symbol) :
         /\ psi = Errata(Gamma(F), bm) /\ Len(psi) = (ne + v) + 1
         /\ LocatorOf(Up(psi), F \cup E, ne + v)
  BY <1>3, <1>4, <1>5, <1>6, <1>10, ErrataLocates
<1>12. PICK R \in SUBSET Pos : R = F \cup E
  OBVIOUS
<1>13. PICK d \in Nat : d = ne + v
  BY <1>6
<1>14. Len(psi) = d + 1 /\ LocatorOf(Up(psi), R, d) /\ d <= Parity /\ Cardinality(R) = d
  BY <1>5, <1>6, <1>11, <1>12, <1>13
<1>15. Chien(psi) = R
  BY <1>14, ChienFinds
<1>16. OnlyIn(e, R)
  BY <1>1, <1>2, <1>12 DEF OnlyIn
<1>17. /\ Corrected(w, Times(S, psi, Parity), Derivative(psi), R) = c
       /\ \A j \in R : Eval(Derivative(psi), InvLocator(j)) # 0
  BY <1>14, <1>16, CorrectsAll
<1>18. Search(w, S, Gamma(F), ne) = Locate(w, S, Gamma(F), bm, ne)
  BY <1>9, <1>10 DEF Search
<1>19. Locate(w, S, Gamma(F), bm, ne) = Outcome(w, c, psi, R, ne)
  <2>1. ~(~WithinBudget(bm.L, ne) \/ ne + bm.L > Parity)
    BY <1>5, <1>6, <1>10 DEF WithinBudget
  <2>2. Locate(w, S, Gamma(F), bm, ne) = Correct(w, S, psi, R, ne)
    BY <1>11, <1>15, <2>1, Zenon DEF Locate
  <2>3. QED
    BY <1>17, <2>2, Zenon DEF Correct
<1>20. Outcome(w, c, psi, R, ne)
       = [ret |-> Cardinality({j \in R : c[j] # w[j]}), word |-> c, used |-> ne]
  <2>1. Cardinality(R) = Len(psi) - 1
    BY <1>14
  <2>2. QED
    BY <1>17, <2>1, Zenon DEF Outcome
<1>21. Cardinality({j \in R : c[j] # w[j]}) \in Nat
  BY PosFinite
<1>22. QED
  BY <1>3, <1>18, <1>19, <1>20, <1>21 DEF Restores

LEMMA DecodedRestores ==
  ASSUME NEW c \in RsWords, IsCodeword(c), NEW w \in RsWords, NEW flagged \in SUBSET Pos,
         Cost(Differ(c, w), Usable(flagged)) <= Parity
  PROVE  Restores(Decoded(w, flagged), c)
<1>1. PICK F \in SUBSET Pos : F = Usable(flagged)
  BY DEF Usable
<1>2. PICK S \in Seq(Symbol) : /\ S = Syndromes(w)
                               /\ \A k \in 0..(Parity - 1) : Up(S)[k] = Pows(w, k + 1)
  BY SyndromesAre
<1>3. PICK e \in RsWords : WordMix(e, 1, w, c) /\ OnlyIn(e, Differ(c, w)) /\ TakesBack(e, w, c)
  BY ErrorIs
<1>4. \A k \in 0..(Parity - 1) : Pows(w, k + 1) = Pows(e, k + 1)
  BY <1>3, SyndromesOfError
<1>5. Decoded(w, flagged) = DecodedWith(w, S, F)
  BY <1>1, <1>2 DEF Decoded
<1>6. CASE AllZero(S)
  <2>1. DecodedWith(w, S, F) = [ret |-> 0, word |-> w, used |-> 0]
    BY <1>6, Zenon DEF DecodedWith
  <2>2. Differ(c, w) \in SUBSET Pos
    BY DEF Differ
  <2>3. Zero(e)
    BY <1>1, <1>2, <1>3, <1>4, <1>6, <2>2, BudgetIs, NothingHit
  <2>4. \A j \in Pos : w[j] = c[j]
    BY <1>3, <2>3 DEF TakesBack, Zero
  <2>5. w = c
    <3>1. w \in [Pos -> Symbol] /\ c \in [Pos -> Symbol]
      BY DEF RsWords
    <3>2. QED
      BY <2>4, <3>1, SameFunction
  <2>6. QED
    BY <1>5, <2>1, <2>5 DEF Restores
<1>7. CASE ~AllZero(S)
  <2>1. DecodedWith(w, S, F) = Search(w, S, Gamma(F), Cardinality(F))
    BY <1>7, Zenon DEF DecodedWith
  <2>2. \A k \in 0..(Parity - 1) : Up(S)[k] = Pows(e, k + 1)
    BY <1>2, <1>4
  <2>3. Restores(Search(w, S, Gamma(F), Cardinality(F)), c)
    BY <1>1, <1>3, <2>2, LocatesAndCorrects
  <2>4. QED
    BY <1>5, <2>1, <2>3
<1>8. QED
  BY <1>6, <1>7

\* A word within the budget of a codeword is decoded to it: whatever the field,
\* the code, the symbols hit, the errors on them and the flags
\* (fec_decode_erasures).
THEOREM DecoderRestores ==
  \A c, w \in RsWords, flagged \in SUBSET Pos :
     IsCodeword(c) /\ Cost(Differ(c, w), Usable(flagged)) <= Parity =>
        Restores(Decoded(w, flagged), c)
BY DecodedRestores

\* Two codewords are further apart than the parity.
THEOREM CodewordsApart ==
  \A c, w \in RsWords :
     IsCodeword(c) /\ IsCodeword(w) /\ Cardinality(Differ(c, w)) <= Parity => c = w
<1> SUFFICES ASSUME NEW c \in RsWords, NEW w \in RsWords, IsCodeword(c), IsCodeword(w),
                    Cardinality(Differ(c, w)) <= Parity
             PROVE  c = w
  OBVIOUS
<1>1. PICK e \in RsWords : WordMix(e, 1, w, c) /\ OnlyIn(e, Differ(c, w)) /\ TakesBack(e, w, c)
  BY ErrorIs
<1>2. \A k \in 0..(Parity - 1) : Pows(w, k + 1) = Pows(e, k + 1)
  BY <1>1, SyndromesOfError
<1>3. AllZero(Syndromes(w))
  BY Zenon DEF IsCodeword
<1>4. Differ(c, w) \in SUBSET Pos
  BY DEF Differ
<1>5. Zero(e)
  BY <1>1, <1>2, <1>3, <1>4, NothingHit
<1>6. \A j \in Pos : c[j] = w[j]
  BY <1>1, <1>5 DEF TakesBack, Zero
<1>7. c \in [Pos -> Symbol] /\ w \in [Pos -> Symbol]
  BY DEF RsWords
<1>8. QED
  BY <1>6, <1>7, SameFunction

\* What the encoder makes are the words without syndromes, all of them.
THEOREM CodewordsAre == Codewords = {w \in RsWords : IsCodeword(w)}
<1>1. ASSUME NEW c \in Codewords
      PROVE  c \in RsWords /\ IsCodeword(c)
  BY EncodeMakesCodewords DEF Codewords
<1>2. ASSUME NEW w \in RsWords, IsCodeword(w)
      PROVE  w \in Codewords
  <2> DEFINE m == [i \in 1..RsK |-> w[i]]
  <2>1. RsK \in Nat /\ RsN \in Nat /\ Parity \in Nat /\ RsN = RsK + Parity /\ Pos = 1..RsN
    BY CodeFacts
  <2>2. m \in [1..RsK -> Symbol] /\ \A i \in 1..RsK : m[i] = w[i]
    BY <2>1 DEF RsWords
  <2> HIDE DEF m
  <2>3. Encode(m) \in Codewords
    BY <2>2 DEF Codewords
  <2>4. PICK c \in RsWords : c = Encode(m) /\ IsCodeword(c)
    BY <1>1, <2>3
  <2>5. \A i \in 1..RsK : c[i] = w[i]
    <3>1. PICK f : Division(f, m) /\ Encode(m) = m \o Reversed(f[RsK])
      BY <2>2, EncodeRuns
    <3>2. f[RsK] \in Rests
      BY <2>1, <3>1 DEF Division
    <3>3. PICK r \in Rests : r = f[RsK]
      BY <3>2
    <3>4. \A i \in 1..RsK : (m \o Reversed(r))[i] = m[i]
      BY <2>2, SentIs
    <3>5. QED
      BY <2>2, <2>4, <3>1, <3>3, <3>4
  <2>6. Cardinality(Differ(c, w)) <= Parity
    <3>1. Differ(c, w) \in SUBSET ((RsK + 1)..RsN)
      <4>1. ASSUME NEW j \in Pos, c[j] # w[j]
            PROVE  j \in (RsK + 1)..RsN
        <5>1. j \notin 1..RsK
          BY <2>5, <4>1
        <5>2. QED
          BY <2>1, <5>1
      <4>2. QED
        BY <4>1 DEF Differ
    <3>2. PICK a \in Nat : a = RsK + 1 /\ a <= RsN + 1
      BY <2>1
    <3>3. IsFiniteSet(a..RsN) /\ Cardinality(a..RsN) = IF a > RsN THEN 0 ELSE RsN - a + 1
      BY <2>1, FS_Interval
    <3>4. Cardinality(a..RsN) = Parity
      BY <2>1, <3>2, <3>3
    <3>5. Cardinality(Differ(c, w)) <= Cardinality(a..RsN)
      BY <3>1, <3>2, <3>3, FS_Subset
    <3>6. QED
      BY <3>4, <3>5
  <2>7. c = w
    BY <1>2, <2>4, <2>6, CodewordsApart
  <2>8. QED
    BY <2>3, <2>4, <2>7
<1>3. QED
  BY <1>1, <1>2
-----------------------------------------------------------------------------
(* The specification.                                                      *)

\* A decoder that gives up hands the word back as it came (fec.c:366).
GaveUpUntouched == line = "decoded" /\ got.ret < 0 => word = got.word

\* Every codeword within reach of what the decoder was given is what it gave.
ReachIsTaken ==
    line = "decoded" =>
        \A c \in Codewords :
           Cost(Differ(c, got.word), Usable(flags)) <= Parity => word = c /\ got.ret >= 0

FecInv ==
    /\ FecTypeOK /\ SuccessIsHonest /\ GaveUpUntouched /\ ReachIsTaken
    /\ line # "idle" => /\ sent \in Codewords /\ sent \in RsWords
                        /\ word \in RsWords

LEMMA ReceivedIs ==
  ASSUME NEW w \in RsWords, NEW S \in SUBSET Pos, NEW e \in [S -> ErrVals]
  PROVE  <<>> \o [j \in Pos |-> IF j \in S THEN GfAdd[w[j]][e[j]] ELSE w[j]] \in RsWords
<1> DEFINE f == [j \in Pos |-> IF j \in S THEN GfAdd[w[j]][e[j]] ELSE w[j]]
<1>1. ErrVals \subseteq Symbol
  <2>1. ErrVals \subseteq 1..(GfSize - 1)
    BY FecAssumption
  <2>2. 1..(GfSize - 1) \subseteq Symbol
    BY CodeFacts DEF GfN
  <2>3. QED
    BY <2>1, <2>2
<1>2. ASSUME NEW j \in Pos PROVE f[j] \in Symbol
  <2>1. w[j] \in Symbol
    BY DEF RsWords
  <2>2. CASE j \in S
    <3>1. e[j] \in Symbol
      BY <1>1, <2>2
    <3>2. QED
      BY <2>1, <2>2, <3>1, AddLaws
  <2>3. CASE j \notin S
    BY <2>1, <2>3
  <2>4. QED
    BY <2>2, <2>3
<1>3. f \in RsWords
  BY <1>2 DEF RsWords
<1> HIDE DEF f
<1>4. <<>> \o f \in RsWords
  BY <1>3, WordIs
<1>5. QED
  BY <1>4 DEF f

LEMMA FecStarts == FecInit => FecInv
<1> SUFFICES ASSUME FecInit PROVE FecInv
  OBVIOUS
<1>1. -1 \in -1..RsN /\ 0 \in 0..Parity
  BY CodeFacts
<1>2. got.ret = -1 /\ got.used = 0
  BY DEF FecInit, Failed
<1>3. line = "idle" /\ sent = <<>> /\ word = <<>> /\ flags = {}
  BY DEF FecInit
<1>4. FecTypeOK
  BY <1>1, <1>2, <1>3 DEF FecTypeOK
<1>5. SuccessIsHonest /\ GaveUpUntouched /\ ReachIsTaken
  BY <1>3 DEF SuccessIsHonest, GaveUpUntouched, ReachIsTaken
<1>6. QED
  BY <1>3, <1>4, <1>5 DEF FecInv

LEMMA SendKeeps ==
  ASSUME FecInv, NEW msg \in Messages, Send(msg)
  PROVE  FecInv'
<1>1. line' = "sent" /\ sent' = Encode(msg) /\ word' = sent' /\ flags' = {} /\ got' = Failed(<<>>)
  BY DEF Send
<1>2. msg \in [1..RsK -> Symbol]
  <2>1. Messages \subseteq [1..RsK -> 0..(GfSize - 1)]
    BY FecAssumption
  <2>2. QED
    BY <2>1 DEF Symbol, GfN
<1>3. sent' \in RsWords /\ sent' \in Codewords
  BY <1>1, <1>2, EncodeMakesCodewords DEF Codewords
<1>4. got'.ret = -1 /\ got'.used = 0
  BY <1>1 DEF Failed
<1>5. -1 \in -1..RsN /\ 0 \in 0..Parity
  BY CodeFacts
<1>6. FecTypeOK'
  BY <1>1, <1>3, <1>4, <1>5 DEF FecTypeOK, RsWords
<1>7. SuccessIsHonest' /\ GaveUpUntouched' /\ ReachIsTaken'
  BY <1>1 DEF SuccessIsHonest, GaveUpUntouched, ReachIsTaken
<1>8. QED
  BY <1>1, <1>3, <1>6, <1>7 DEF FecInv

LEMMA ReceiveKeeps ==
  ASSUME FecInv, NEW S \in SUBSET Pos, NEW F \in FlagSets, Receive(S, F)
  PROVE  FecInv'
<1>1. line = "sent" /\ line' = "received" /\ flags' = F /\ UNCHANGED <<sent, got>>
  BY DEF Receive
<1>2. sent \in RsWords /\ sent \in Codewords /\ word \in RsWords /\ FecTypeOK
  BY <1>1 DEF FecInv
<1>3. PICK e \in [S -> ErrVals] :
        word' = <<>> \o [j \in Pos |-> IF j \in S THEN GfAdd[word[j]][e[j]] ELSE word[j]]
  BY DEF Receive
<1>4. word' \in RsWords
  BY <1>2, <1>3, ReceivedIs
<1>5. F \subseteq Pos
  BY FecAssumption DEF Pos
<1>6. FecTypeOK'
  BY <1>1, <1>2, <1>4, <1>5 DEF FecTypeOK, RsWords
<1>7. SuccessIsHonest' /\ GaveUpUntouched' /\ ReachIsTaken'
  BY <1>1 DEF SuccessIsHonest, GaveUpUntouched, ReachIsTaken
<1>8. QED
  BY <1>1, <1>2, <1>4, <1>6, <1>7 DEF FecInv

LEMMA DecodeKeeps ==
  ASSUME FecInv, Decode
  PROVE  FecInv'
<1> DEFINE d == Decoded(word, flags)
<1>1. /\ line = "received" /\ line' = "decoded" /\ UNCHANGED <<sent, flags>>
      /\ word' = d.word /\ got' = [d EXCEPT !.word = word]
  BY DEF Decode
<1>2. sent \in RsWords /\ sent \in Codewords /\ word \in RsWords /\ FecTypeOK
  BY <1>1 DEF FecInv
<1>3. flags \in SUBSET Pos
  BY <1>2 DEF FecTypeOK
<1>4. Honest(d, word, Usable(flags))
  BY <1>2, <1>3, DecodedHonest
<1> HIDE DEF d
<1>5. d \in Results
  BY <1>4 DEF Honest
<1>6. /\ d.ret \in -1..RsN /\ d.used \in 0..Parity /\ d.word \in RsWords
      /\ got'.ret = d.ret /\ got'.used = d.used /\ got'.word = word
  BY <1>1, <1>5 DEF Results
<1>7. FecTypeOK'
  BY <1>1, <1>2, <1>3, <1>6 DEF FecTypeOK, RsWords
<1>8. GaveUpUntouched'
  BY <1>1, <1>4, <1>6 DEF GaveUpUntouched, Honest
<1>9. SuccessIsHonest'
  <2>1. ASSUME d.ret >= 0
        PROVE  /\ IsCodeword(word') /\ got'.ret = Cardinality(Differ(word', got'.word))
               /\ Differ(word', got'.word) # {} =>
                    Cost(Differ(word', got'.word), Usable(flags')) <= Parity
    <3>1. /\ IsCodeword(d.word) /\ d.ret = Cardinality(Differ(d.word, word))
          /\ Differ(d.word, word) # {} => Cost(Differ(d.word, word), Usable(flags)) <= Parity
      BY <1>4, <2>1 DEF Honest
    <3>2. word' = d.word /\ got'.ret = d.ret /\ got'.word = word /\ flags' = flags
      BY <1>1, <1>6
    <3>3. QED
      BY <3>1, <3>2
  <2>2. QED
    BY <1>6, <2>1 DEF SuccessIsHonest
<1>10. ReachIsTaken'
  <2>1. ASSUME NEW c \in Codewords, Cost(Differ(c, word), Usable(flags)) <= Parity
        PROVE  d.word = c /\ d.ret >= 0
    <3>1. c \in RsWords /\ IsCodeword(c)
      BY CodewordsAre
    <3>2. Restores(d, c)
      BY <1>2, <1>3, <2>1, <3>1, DecoderRestores DEF d
    <3>3. QED
      BY <3>2 DEF Restores
  <2>2. word' = d.word /\ got'.ret = d.ret /\ got'.word = word /\ flags' = flags
    BY <1>1, <1>6
  <2>3. QED
    BY <2>1, <2>2 DEF ReachIsTaken
<1>11. QED
  BY <1>1, <1>2, <1>6, <1>7, <1>8, <1>9, <1>10 DEF FecInv

LEMMA FecKeeps == FecInv /\ [FecNext]_fecVars => FecInv'
<1> SUFFICES ASSUME FecInv, [FecNext]_fecVars PROVE FecInv'
  OBVIOUS
<1>1. ASSUME NEW msg \in Messages, Send(msg) PROVE FecInv'
  BY <1>1, SendKeeps
<1>2. ASSUME NEW S \in SUBSET Pos, NEW F \in FlagSets, Receive(S, F) PROVE FecInv'
  BY <1>2, ReceiveKeeps
<1>3. CASE Decode
  BY <1>3, DecodeKeeps
<1>4. CASE UNCHANGED fecVars
  BY <1>4 DEF FecInv, FecTypeOK, SuccessIsHonest, GaveUpUntouched, ReachIsTaken, fecVars
<1>5. QED
  BY <1>1, <1>2, <1>3, <1>4 DEF FecNext

THEOREM FecInvHolds == FecSpec => []FecInv
<1>1. FecInit => FecInv
  BY FecStarts
<1>2. FecInv /\ [FecNext]_fecVars => FecInv'
  BY FecKeeps
<1>3. QED
  BY <1>1, <1>2, PTL DEF FecSpec

\* Every word of the decoder's is a word, and its counts are within the code.
THEOREM FecStaysTyped == FecSpec => []FecTypeOK
<1>1. FecInv => FecTypeOK
  BY DEF FecInv
<1>2. QED
  BY <1>1, FecInvHolds, PTL

\* A decoder that succeeds has landed on a codeword, within the code's reach of
\* what it was given, and reports how many symbols it changed, for every field,
\* code, message, error and set of flags.
THEOREM DecoderIsHonest == FecSpec => []SuccessIsHonest
<1>1. FecInv => SuccessIsHonest
  BY DEF FecInv
<1>2. QED
  BY <1>1, FecInvHolds, PTL

\* A decoder that gives up leaves no half of a correction behind.
THEOREM FailureLeavesTheWord == FecSpec => []GaveUpUntouched
<1>1. FecInv => GaveUpUntouched
  BY DEF FecInv
<1>2. QED
  BY <1>1, FecInvHolds, PTL

\* Whatever the line did within the budget is undone: two parity symbols for
\* an error, one for a flag, for every field, code, message and set of flags.
THEOREM WithinBudgetIsUndone == FecSpec => []CorrectsWithinBudget
<1>1. FecInv => CorrectsWithinBudget
  BY DEF FecInv, ReachIsTaken, CorrectsWithinBudget
<1>2. QED
  BY <1>1, FecInvHolds, PTL

\* The decoder gives up only where it could not have been right: on a word no
\* codeword is within the budget of, and it leaves that word as it came.
THEOREM GivingUpIsJustified == FecSpec => []GivesUpOnlyOutOfReach
<1>1. ASSUME FecInv, line = "decoded", got.ret < 0
      PROVE  word = got.word /\ \A c \in Codewords : Cost(Differ(c, word), Usable(flags)) > Parity
  <2>1. word = got.word /\ got.ret \in -1..RsN
    BY <1>1 DEF FecInv, GaveUpUntouched, FecTypeOK
  <2>2. ~(got.ret >= 0)
    BY <1>1, <2>1
  <2>3. ASSUME NEW c \in Codewords
        PROVE  Cost(Differ(c, word), Usable(flags)) > Parity
    <3>1. ~(Cost(Differ(c, word), Usable(flags)) <= Parity)
      BY <1>1, <2>1, <2>2 DEF FecInv, ReachIsTaken
    <3>2. flags \in SUBSET Pos
      BY <1>1 DEF FecInv, FecTypeOK
    <3>3. Usable(flags) \in SUBSET Pos /\ Differ(c, word) \ Usable(flags) \in SUBSET Pos
      BY <3>2 DEF Usable, Differ
    <3>4. PICK n \in Nat, m \in Nat :
            n = Cardinality(Differ(c, word) \ Usable(flags)) /\ m = Cardinality(Usable(flags))
      BY <3>3, PosFinite
    <3>5. Cost(Differ(c, word), Usable(flags)) = 2 * n + m /\ Parity \in Nat
      BY <3>4, CodeFacts DEF Cost
    <3>6. QED
      BY <3>1, <3>5
  <2>4. QED
    BY <2>1, <2>3
<1>2. FecInv => GivesUpOnlyOutOfReach
  BY <1>1 DEF GivesUpOnlyOutOfReach
<1>3. QED
  BY <1>2, FecInvHolds, PTL
=============================================================================
