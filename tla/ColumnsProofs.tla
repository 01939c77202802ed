--------------------------- MODULE ColumnsProofs ----------------------------
(***************************************************************************)
(* The row of cdeep.clar is the textbook quotient, for any field, domain   *)
(* and column; the pairs it is folded by stand at opposite points, not at  *)
(* zero; and an evaluation over the domain interpolates.  On the way:      *)
(* recursion over an interval is a function with the expected values,      *)
(* square-and-multiply is the power, bit reversal is onto, and columns,    *)
(* points and openings are of the secure field.                            *)
(***************************************************************************)
EXTENDS Columns, FriProofs, WellFoundedInduction

\* A set of naturals that is not empty has a least member.
LEMMA LeastNat ==
  ASSUME NEW T, T \subseteq Nat, T # {}
  PROVE  \E n \in T : \A m \in T : n <= m
<1> DEFINE R == {ss \in Nat \X Nat : ss[1] < ss[2]}
<1>0. IsWellFoundedOn(R, Nat)
  BY NatLessThanWellFounded, SMT DEF OpToRel
<1> HIDE DEF R
<1>1. PICK n \in T : \A m \in T : <<m, n>> \notin R
  BY <1>0, WFMin
<1>2. \A m \in T : ~(m < n)
  BY <1>1 DEF R
<1> QED BY <1>2

\* Induction up to n: a set that holds 0 and each successor holds all of 0 .. n.
LEMMA UpTo ==
  ASSUME NEW n \in Nat, NEW T, 0 \in T, \A i \in 1 .. n : i - 1 \in T => i \in T
  PROVE  \A i \in 0 .. n : i \in T
<1> DEFINE B == (0 .. n) \ T
<1>1. SUFFICES ASSUME B # {} PROVE FALSE OBVIOUS
<1>2. B \subseteq Nat OBVIOUS
<1>3. PICK m \in B : \A k \in B : m <= k
  <2> HIDE DEF B
  <2> QED BY <1>1, <1>2, LeastNat
<1>4. m \in 1 .. n /\ m - 1 \in 0 .. n /\ ~(m <= m - 1) BY <1>3
<1>5. m - 1 \in T BY <1>3, <1>4
<1> QED BY <1>3, <1>4, <1>5

\* f is the function defined by recursion over 0 .. n from a by the steps F.
IsRecursion(f, n, a, F) == f = [i \in 0 .. n |-> IF i = 0 THEN a ELSE F[i][f[i - 1]]]
\* Each step leads from S[i - 1] to S[i].
Steps(n, F, S) == \A i \in 1 .. n : \A x \in S[i - 1] : F[i][x] \in S[i]
\* The i-th value of f lies in S[i].
Valued(f, n, S) == \A i \in 0 .. n : f[i] \in S[i]

\* A function defined by recursion over 0 .. n exists, with its i-th value in S[i].
LEMMA Recursion ==
  ASSUME NEW n \in Nat, NEW S, NEW F, NEW a, a \in S[0], Steps(n, F, S)
  PROVE  \E f : IsRecursion(f, n, a, F) /\ Valued(f, n, S)
<1> USE DEF IsRecursion, Steps, Valued
<1> DEFINE Rec(f, k) == f = [i \in 0 .. k |-> IF i = 0 THEN a ELSE F[i][f[i - 1]]]
           Typed(f, k) == \A i \in 0 .. k : f[i] \in S[i]
           T == {k \in Nat : \E f : Rec(f, k) /\ Typed(f, k)}
<1>1. 0 \in T
  <2> DEFINE f == [i \in 0 .. 0 |-> a]
  <2>1. Rec(f, 0) OBVIOUS
  <2>2. Typed(f, 0) OBVIOUS
  <2> HIDE DEF f
  <2> QED BY <2>1, <2>2
<1>2. ASSUME NEW k \in 1 .. n, k - 1 \in T PROVE k \in T
  <2>1. PICK f : Rec(f, k - 1) /\ Typed(f, k - 1) BY <1>2
  <2> DEFINE g == [i \in 0 .. k |-> IF i = k THEN F[k][f[k - 1]] ELSE f[i]]
  <2>2. k \in Nat /\ k - 1 \in Nat /\ k # 0 /\ k - 1 \in 0 .. (k - 1) OBVIOUS
  <2>3. \A i \in 0 .. (k - 1) : i \in 0 .. k /\ i # k /\ g[i] = f[i] OBVIOUS
  <2>4. g[k] = F[k][f[k - 1]] OBVIOUS
  <2>5. f[k - 1] \in S[k - 1] BY <2>1, <2>2
  <2>6. g[k] \in S[k] BY <2>4, <2>5
  <2>7. ASSUME NEW i \in 0 .. k PROVE g[i] = IF i = 0 THEN a ELSE F[i][g[i - 1]]
    <3>1. CASE i = k
      <4>1. g[k - 1] = f[k - 1] BY <2>2, <2>3
      <4> QED BY <3>1, <4>1, <2>2, <2>4
    <3>2. CASE i = 0
      <4>1. 0 \in 0 .. (k - 1) BY <2>2
      <4> HIDE DEF g
      <4> QED BY <3>2, <4>1, <2>1, <2>3
    <3>3. CASE i # k /\ i # 0
      <4>1. i \in 0 .. (k - 1) /\ i - 1 \in 0 .. (k - 1) BY <3>3
      <4>2. g[i] = f[i] /\ g[i - 1] = f[i - 1] BY <2>3, <4>1
      <4>3. f[i] = F[i][f[i - 1]] BY <2>1, <3>3, <4>1
      <4> QED BY <4>2, <4>3, <3>3
    <3> QED BY <3>1, <3>2, <3>3
  <2>8. DOMAIN g = 0 .. k /\ g = [i \in 0 .. k |-> g[i]] OBVIOUS
  <2>9. Typed(g, k)
    <3> SUFFICES ASSUME NEW i \in 0 .. k PROVE g[i] \in S[i] OBVIOUS
    <3>1. CASE i = k BY <3>1, <2>6
    <3>2. CASE i # k
      <4>1. i \in 0 .. (k - 1) BY <3>2
      <4> QED BY <4>1, <2>1, <2>3
    <3> QED BY <3>1, <3>2
  <2> HIDE DEF g
  <2>10. Rec(g, k) BY <2>7, <2>8
  <2> QED BY <2>2, <2>9, <2>10
<1> HIDE DEF T
<1>3. n \in T BY <1>1, <1>2, UpTo
<1> QED BY <1>3 DEF T

\* The same, when every step is the same function.
IsIteration(f, n, S, a, G) ==
  f \in [0 .. n -> S] /\ f[0] = a /\ \A i \in 1 .. n : f[i] = G[f[i - 1]]

\* An iteration exists.
LEMMA Iteration ==
  ASSUME NEW n \in Nat, NEW S, NEW a \in S, NEW G \in [S -> S]
  PROVE  \E f : IsIteration(f, n, S, a, G)
<1> DEFINE T == [i \in 0 .. n |-> S]
           F == [i \in 1 .. n |-> G]
<1>1. a \in T[0] /\ Steps(n, F, T) BY DEF Steps
<1>2. PICK f : IsRecursion(f, n, a, F) /\ Valued(f, n, T)
  <2> HIDE DEF T, F
  <2> QED BY <1>1, Recursion
<1>3. \A i \in 0 .. n : f[i] \in S BY <1>2 DEF Valued
<1>4. f = [i \in 0 .. n |-> f[i]] BY <1>2 DEF IsRecursion
<1>5. f \in [0 .. n -> S] BY <1>3, <1>4
<1>6. f[0] = a BY <1>2 DEF IsRecursion
<1>7. ASSUME NEW i \in 1 .. n PROVE f[i] = G[f[i - 1]]
  <2>1. i \in 0 .. n /\ i # 0 OBVIOUS
  <2>2. f[i] = F[i][f[i - 1]] BY <1>2, <2>1 DEF IsRecursion
  <2> QED BY <2>2
<1> QED BY <1>5, <1>6, <1>7 DEF IsIteration

-----------------------------------------------------------------------------
\* The pairs the circle of the secure field is made of.
SecurePoints == [x : QM31, y : QM31]

MinusTwoU == [c0 |-> 0, c1 |-> 0, c2 |-> M31Sub(0, 2), c3 |-> 0]

\* -2u is not zero and reduces to its quadruple.
LEMMA MinusTwoUIs ==
  /\ MinusTwoU \in QM31 /\ MinusTwoU # SecureZero
  /\ Reduces(MinusTwoU, [c0 |-> 0, c1 |-> 0, c2 |-> 0 - 2, c3 |-> 0])
<1>1. P \in Nat /\ P > 2 BY FieldAssumption
<1>2. 2 \in M31 BY <1>1 DEF M31
<1>3. Residue(M31Sub(0, 2), 0 - 2) BY <1>2, ZeroInM31, ResidueSelf, ResidueOps
<1>6. M31Sub(0, 2) # 0
  <2>1. P - 2 \in Nat /\ P - 2 < P /\ 0 + P - 2 = P - 2 /\ P - 2 # 0 BY <1>1
  <2>2. (P - 2) % P = P - 2 BY <1>1, <2>1
  <2> QED BY <2>1, <2>2 DEF M31Sub
<1>7. M31Sub(0, 2) \in M31 BY <1>3 DEF Residue
<1>8. MinusTwoU \in QM31 BY <1>7, ZeroInM31 DEF MinusTwoU, QM31
<1>9. MinusTwoU # SecureZero BY <1>6 DEF MinusTwoU, SecureZero, Qm31FromM31
<1>10. [c0 |-> 0, c1 |-> 0, c2 |-> 0 - 2, c3 |-> 0] \in Quads BY DEF Quads
<1> QED BY <1>3, <1>8, <1>9, <1>10, ZeroInM31 DEF Reduces, MinusTwoU

\* Conjugation over CM31 negates the high half.
LEMMA ConjReduces ==
  ASSUME NEW a \in QM31
  PROVE  /\ ConjU(a) \in QM31
         /\ Reduces(ConjU(a), [c0 |-> a.c0, c1 |-> a.c1, c2 |-> 0 - a.c2, c3 |-> 0 - a.c3])
<1> DEFINE k == [c0 |-> a.c0, c1 |-> a.c1, c2 |-> 0 - a.c2, c3 |-> 0 - a.c3]
<1>1. ConjU(a) \in QM31 BY HalvesClosed DEF ConjU, Conjugate
<1>2. a.c0 \in M31 /\ a.c1 \in M31 /\ a.c2 \in M31 /\ a.c3 \in M31 BY DEF QM31
<1>3. /\ a.c0 \in Int /\ a.c1 \in Int /\ a.c2 \in Int /\ a.c3 \in Int
      /\ Residue(a.c0, a.c0) /\ Residue(a.c1, a.c1) /\ Residue(a.c2, a.c2) /\ Residue(a.c3, a.c3)
  BY <1>2, M31Bounds, ResidueSelf
<1>4. k \in Quads BY <1>3 DEF Quads
<1>5. /\ Low(a).re = a.c0 /\ Low(a).im = a.c1 /\ High(a).re = a.c2 /\ High(a).im = a.c3
      /\ Cm(0, 0).re = 0 /\ Cm(0, 0).im = 0
  BY DEF Low, High, Cm
<1>6. /\ Residue(CmSub(Cm(0, 0), High(a)).re, 0 - a.c2)
      /\ Residue(CmSub(Cm(0, 0), High(a)).im, 0 - a.c3)
  BY <1>3, <1>5, ZeroInM31, CmSubResidues
<1>7. /\ ConjU(a).c0 = a.c0 /\ ConjU(a).c1 = a.c1
      /\ ConjU(a).c2 = CmSub(Cm(0, 0), High(a)).re
      /\ ConjU(a).c3 = CmSub(Cm(0, 0), High(a)).im
  BY <1>5 DEF ConjU, FromHalves
<1>8. k.c0 = a.c0 /\ k.c1 = a.c1 /\ k.c2 = 0 - a.c2 /\ k.c3 = 0 - a.c3 OBVIOUS
<1> HIDE DEF k
<1>9. Reduces(ConjU(a), k) BY <1>1, <1>3, <1>4, <1>6, <1>7, <1>8 DEF Reduces
<1> QED BY <1>1, <1>9 DEF k

\* The slope is -2u times the high half of the point's y.
LEMMA SlopeIs ==
  ASSUME NEW a \in QM31
  PROVE  /\ Emb(High(a)) \in QM31
         /\ Qm31Sub(ConjU(a), a) = Qm31Mul(MinusTwoU, Emb(High(a)))
<1>1. PICK a0 \in M31, a1 \in M31, a2 \in M31, a3 \in M31 :
        a = [c0 |-> a0, c1 |-> a1, c2 |-> a2, c3 |-> a3]
  BY DEF QM31
<1>2. a0 \in Int /\ a1 \in Int /\ a2 \in Int /\ a3 \in Int BY M31Bounds
<1> DEFINE k == [c0 |-> a0, c1 |-> a1, c2 |-> 0 - a2, c3 |-> 0 - a3]
           e == [c0 |-> a2, c1 |-> a3, c2 |-> 0, c3 |-> 0]
           n == 0 - 2
           m == [c0 |-> 0, c1 |-> 0, c2 |-> n, c3 |-> 0]
<1>3. Reduces(ConjU(a), k)
  <2>1. k = [c0 |-> a.c0, c1 |-> a.c1, c2 |-> 0 - a.c2, c3 |-> 0 - a.c3] BY <1>1
  <2> QED BY <2>1, ConjReduces
<1>4. Reduces(Qm31Sub(ConjU(a), a), QuadSub(k, a)) BY <1>3, ReducesSelf, ReducesOps
<1>5. Emb(High(a)) \in QM31 /\ Emb(High(a)) = e
  <2>1. High(a).re = a2 /\ High(a).im = a3 BY <1>1 DEF High, Cm
  <2> QED BY <2>1, HalvesClosed, EmbClosed
<1>6. Reduces(Qm31Mul(MinusTwoU, Emb(High(a))), QuadMul(m, e))
  BY <1>5, ReducesSelf, ReducesOps, MinusTwoUIs
<1>7. QuadSub(k, a) = QuadMul(m, e)
  <2>1. QuadSub(k, a) = [c0 |-> a0 - a0, c1 |-> a1 - a1, c2 |-> (0 - a2) - a2, c3 |-> (0 - a3) - a3]
    BY <1>1, Zenon DEF QuadSub
  <2>2. QuadMul(m, e) =
          [ c0 |-> (0 * a2 - 0 * a3) + 2 * (n * 0 - 0 * 0) - (n * 0 + 0 * 0),
            c1 |-> (0 * a3 + 0 * a2) + (n * 0 - 0 * 0) + 2 * (n * 0 + 0 * 0),
            c2 |-> (0 * 0 - 0 * 0) + (n * a2 - 0 * a3),
            c3 |-> (0 * 0 + 0 * 0) + (n * a3 + 0 * a2) ]
    <3> HIDE DEF n
    <3> QED BY Zenon DEF QuadMul
  <2>3. /\ a0 - a0 = (0 * a2 - 0 * a3) + 2 * (n * 0 - 0 * 0) - (n * 0 + 0 * 0)
        /\ a1 - a1 = (0 * a3 + 0 * a2) + (n * 0 - 0 * 0) + 2 * (n * 0 + 0 * 0)
        /\ (0 - a2) - a2 = (0 * 0 - 0 * 0) + (n * a2 - 0 * a3)
        /\ (0 - a3) - a3 = (0 * 0 + 0 * 0) + (n * a3 + 0 * a2)
    BY <1>2
  <2> HIDE DEF n
  <2> QED BY <2>1, <2>2, <2>3, Zenon
<1> HIDE DEF k, e, m
<1> QED BY <1>4, <1>5, <1>6, <1>7, ReducesUnique

\* The scale is the slope times -2u.
LEMMA ScaleIs ==
  ASSUME NEW a \in QM31
  PROVE  Qm31Mul(Qm31FromM31(4 % P), FromHalves(CmMulR(High(a)), Cm(0, 0)))
           = Qm31Mul(Qm31Sub(ConjU(a), a), MinusTwoU)
<1> DEFINE h == High(a)
           four == Cm(4 % P, 0)
           two == Cm(2 % P, 1)
           sq == Qm31Mul(MinusTwoU, MinusTwoU)
<1>1. h \in CM31 /\ Emb(h) \in QM31 BY HalvesClosed, EmbClosed
<1>2. Residue(4 % P, 4) /\ 4 % P \in M31 /\ Residue(2 % P, 2)
  BY ResidueMod DEF Residue
<1>3. four \in CM31 /\ Emb(four) = Qm31FromM31(4 % P) BY <1>2, Embeds
<1>4. two \in CM31 /\ CmMulR(h) \in CM31 /\ CmMulR(h) = CmMul(two, h) BY <1>1, CmMulRIsMul
<1>5. FromHalves(CmMulR(h), Cm(0, 0)) = Qm31Mul(Emb(two), Emb(h)) BY <1>1, <1>4, EmbMul DEF Emb
<1>6. sq = Qm31Mul(Emb(four), Emb(two))
  <2> DEFINE n == 0 - 2
             m == [c0 |-> 0, c1 |-> 0, c2 |-> n, c3 |-> 0]
             t == CmMul(four, two)
  <2>1. Reduces(sq, QuadMul(m, m)) BY ReducesOps, MinusTwoUIs
  <2>2. QuadMul(m, m) = [c0 |-> 8, c1 |-> 4, c2 |-> 0, c3 |-> 0]
    <3>1. QuadMul(m, m) =
            [ c0 |-> (0 * 0 - 0 * 0) + 2 * (n * n - 0 * 0) - (n * 0 + 0 * n),
              c1 |-> (0 * 0 + 0 * 0) + (n * n - 0 * 0) + 2 * (n * 0 + 0 * n),
              c2 |-> (0 * n - 0 * 0) + (n * 0 - 0 * 0),
              c3 |-> (0 * 0 + 0 * n) + (n * 0 + 0 * 0) ]
      <4> HIDE DEF n
      <4> QED BY Zenon DEF QuadMul
    <3>2. /\ (0 * 0 - 0 * 0) + 2 * (n * n - 0 * 0) - (n * 0 + 0 * n) = 8
          /\ (0 * 0 + 0 * 0) + (n * n - 0 * 0) + 2 * (n * 0 + 0 * n) = 4
          /\ (0 * n - 0 * 0) + (n * 0 - 0 * 0) = 0
          /\ (0 * 0 + 0 * n) + (n * 0 + 0 * 0) = 0
      OBVIOUS
    <3> HIDE DEF n
    <3> QED BY <3>1, <3>2, Zenon
  <2>3. t \in CM31 /\ Qm31Mul(Emb(four), Emb(two)) = Emb(t) BY <1>3, <1>4, EmbMul
  <2>4. Residue(t.re, 8) /\ Residue(t.im, 4)
    <3>1. four.re = 4 % P /\ four.im = 0 /\ two.re = 2 % P /\ two.im = 1 BY DEF Cm
    <3>2. Residue(t.re, 4 * 2 - 0 * 1) /\ Residue(t.im, 4 * 1 + 0 * 2)
      <4>1. /\ Residue(four.re, 4) /\ Residue(four.im, 0)
            /\ Residue(two.re, 2) /\ Residue(two.im, 1)
        BY <1>2, <3>1, ZeroInM31
      <4> HIDE DEF four, two
      <4> QED BY <4>1, CmMulResidues
    <3>3. 4 * 2 - 0 * 1 = 8 /\ 4 * 1 + 0 * 2 = 4 OBVIOUS
    <3> QED BY <3>2, <3>3
  <2> HIDE DEF t
  <2>5. Emb(t) \in QM31 /\ Emb(t) = [c0 |-> t.re, c1 |-> t.im, c2 |-> 0, c3 |-> 0]
    BY <2>3, EmbClosed
  <2>6. [c0 |-> 8, c1 |-> 4, c2 |-> 0, c3 |-> 0] \in Quads BY DEF Quads
  <2>7. Reduces(Emb(t), [c0 |-> 8, c1 |-> 4, c2 |-> 0, c3 |-> 0])
    BY <2>4, <2>5, <2>6, ZeroInM31 DEF Reduces
  <2> QED BY <2>1, <2>2, <2>3, <2>7, ReducesUnique
<1>7. Emb(four) \in QM31 /\ Emb(two) \in QM31 BY <1>3, <1>4, EmbClosed
<1>8. Qm31Mul(Emb(four), Qm31Mul(Emb(two), Emb(h))) = Qm31Mul(sq, Emb(h))
  BY <1>1, <1>6, <1>7, SecureRing
<1>9. Qm31Sub(ConjU(a), a) = Qm31Mul(MinusTwoU, Emb(h)) BY SlopeIs
<1> HIDE DEF h
<1>10. Qm31Mul(sq, Emb(h)) = Qm31Mul(Qm31Mul(MinusTwoU, Emb(h)), MinusTwoU)
  <2>1. sq \in QM31 /\ Qm31Mul(MinusTwoU, Emb(h)) \in QM31 BY <1>1, MinusTwoUIs, Qm31Closed
  <2>2. Qm31Mul(sq, Emb(h)) = Qm31Mul(MinusTwoU, Qm31Mul(MinusTwoU, Emb(h)))
    BY <1>1, MinusTwoUIs, SecureRing
  <2> QED BY <2>1, <2>2, MinusTwoUIs, SecureRing
<1> QED BY <1>3, <1>5, <1>8, <1>9, <1>10 DEF h

-----------------------------------------------------------------------------
\* The line's value is -2u times the denominator the contract inverts.
LEMMA VanishingIs ==
  ASSUME NEW pt \in SecurePoints, NEW p \in CM31
  PROVE  /\ Denom(pt, p) \in QM31
         /\ PairVanishing(pt, p) = Qm31Mul(MinusTwoU, Denom(pt, p))
<1>1. pt.x \in QM31 /\ pt.y \in QM31 BY DEF SecurePoints
<1>2. PICK x0 \in M31, x1 \in M31, x2 \in M31, x3 \in M31 :
        pt.x = [c0 |-> x0, c1 |-> x1, c2 |-> x2, c3 |-> x3]
  BY <1>1 DEF QM31
<1>3. PICK y0 \in M31, y1 \in M31, y2 \in M31, y3 \in M31 :
        pt.y = [c0 |-> y0, c1 |-> y1, c2 |-> y2, c3 |-> y3]
  BY <1>1 DEF QM31
<1>4. PICK r \in M31, i \in M31 : p = [re |-> r, im |-> i] BY DEF CM31
<1>5. /\ x0 \in Int /\ x1 \in Int /\ x2 \in Int /\ x3 \in Int
      /\ y0 \in Int /\ y1 \in Int /\ y2 \in Int /\ y3 \in Int /\ r \in Int /\ i \in Int
      /\ Residue(x0, x0) /\ Residue(x1, x1) /\ Residue(x2, x2) /\ Residue(x3, x3)
      /\ Residue(y0, y0) /\ Residue(y1, y1) /\ Residue(y2, y2) /\ Residue(y3, y3)
      /\ Residue(r, r) /\ Residue(i, i)
  BY M31Bounds, ResidueSelf
<1> DEFINE x == [c0 |-> x0, c1 |-> x1, c2 |-> x2, c3 |-> x3]
           y == [c0 |-> y0, c1 |-> y1, c2 |-> y2, c3 |-> y3]
           xc == [c0 |-> x0, c1 |-> x1, c2 |-> 0 - x2, c3 |-> 0 - x3]
           yc == [c0 |-> y0, c1 |-> y1, c2 |-> 0 - y2, c3 |-> 0 - y3]
           ex == [c0 |-> r, c1 |-> 0, c2 |-> 0, c3 |-> 0]
           ey == [c0 |-> i, c1 |-> 0, c2 |-> 0, c3 |-> 0]
           m == [c0 |-> 0, c1 |-> 0, c2 |-> 0 - 2, c3 |-> 0]
           D0 == ((x0 - r) * y2 - (x1 - 0) * y3) - ((y0 - i) * x2 - (y1 - 0) * x3)
           D1 == ((x0 - r) * y3 + (x1 - 0) * y2) - ((y0 - i) * x3 + (y1 - 0) * x2)
           D == [c0 |-> D0, c1 |-> D1, c2 |-> 0, c3 |-> 0]
<1>6. Reduces(pt.x, x) /\ Reduces(pt.y, y) BY <1>1, <1>2, <1>3, ReducesSelf
<1>7. Reduces(ConjU(pt.x), xc) /\ Reduces(ConjU(pt.y), yc)
  <2>1. /\ xc = [c0 |-> pt.x.c0, c1 |-> pt.x.c1, c2 |-> 0 - pt.x.c2, c3 |-> 0 - pt.x.c3]
        /\ yc = [c0 |-> pt.y.c0, c1 |-> pt.y.c1, c2 |-> 0 - pt.y.c2, c3 |-> 0 - pt.y.c3]
    BY <1>2, <1>3
  <2> QED BY <1>1, <2>1, ConjReduces
<1>8. Reduces(IntoEf(p).x, ex) /\ Reduces(IntoEf(p).y, ey)
  <2>1. IntoEf(p).x = ex /\ IntoEf(p).y = ey BY <1>4 DEF IntoEf, Qm31FromM31
  <2>2. Qm31FromM31(r) \in QM31 /\ Qm31FromM31(i) \in QM31
    BY ZeroInM31 DEF Qm31FromM31, QM31
  <2>3. Qm31FromM31(r) = ex /\ Qm31FromM31(i) = ey BY DEF Qm31FromM31
  <2> QED BY <2>1, <2>2, <2>3, ReducesSelf
<1> DEFINE s1 == QuadMul(QuadSub(y, yc), ex)
           s2 == QuadMul(QuadSub(xc, x), ey)
           s3 == QuadSub(QuadMul(x, yc), QuadMul(y, xc))
           S == QuadAdd(QuadAdd(s1, s2), s3)
<1>9. Reduces(PairVanishing(pt, p), S)
  <2> HIDE DEF x, y, xc, yc, ex, ey
  <2> DEFINE ef == IntoEf(p)
             xC == ConjU(pt.x)
             yC == ConjU(pt.y)
             t1 == Qm31Mul(Qm31Sub(pt.y, yC), ef.x)
             t2 == Qm31Mul(Qm31Sub(xC, pt.x), ef.y)
             t3 == Qm31Sub(Qm31Mul(pt.x, yC), Qm31Mul(pt.y, xC))
  <2>1. PairVanishing(pt, p) = Qm31Add(Qm31Add(t1, t2), t3) BY DEF PairVanishing
  <2> HIDE DEF ef, xC, yC
  <2>2. Reduces(xC, xc) /\ Reduces(yC, yc) /\ Reduces(ef.x, ex) /\ Reduces(ef.y, ey)
    BY <1>7, <1>8 DEF ef, xC, yC
  <2>3. Reduces(Qm31Sub(pt.y, yC), QuadSub(y, yc)) /\ Reduces(Qm31Sub(xC, pt.x), QuadSub(xc, x))
    BY <1>6, <2>2, ReducesOps
  <2>4. Reduces(t1, s1) /\ Reduces(t2, s2) BY <2>2, <2>3, ReducesOps
  <2>5. Reduces(Qm31Mul(pt.x, yC), QuadMul(x, yc)) /\ Reduces(Qm31Mul(pt.y, xC), QuadMul(y, xc))
    BY <1>6, <2>2, ReducesOps
  <2>6. Reduces(t3, s3) BY <2>5, ReducesOps
  <2> HIDE DEF t1, t2, t3, s1, s2, s3
  <2>7. Reduces(Qm31Add(t1, t2), QuadAdd(s1, s2)) BY <2>4, ReducesOps
  <2>8. Reduces(Qm31Add(Qm31Add(t1, t2), t3), QuadAdd(QuadAdd(s1, s2), s3))
    BY <2>6, <2>7, ReducesOps
  <2> QED BY <2>1, <2>8
<1>10. Denom(pt, p) \in QM31 /\ Reduces(Denom(pt, p), D)
  <2> DEFINE u1 == CmSub(Low(pt.x), Cm(p.re, 0))
             u2 == CmSub(Low(pt.y), Cm(p.im, 0))
             v1 == CmMul(u1, High(pt.y))
             v2 == CmMul(u2, High(pt.x))
             w == CmSub(v1, v2)
  <2>1. /\ Low(pt.x).re = x0 /\ Low(pt.x).im = x1 /\ High(pt.x).re = x2 /\ High(pt.x).im = x3
        /\ Low(pt.y).re = y0 /\ Low(pt.y).im = y1 /\ High(pt.y).re = y2 /\ High(pt.y).im = y3
        /\ Cm(p.re, 0).re = r /\ Cm(p.re, 0).im = 0 /\ Cm(p.im, 0).re = i /\ Cm(p.im, 0).im = 0
    BY <1>2, <1>3, <1>4 DEF Low, High, Cm
  <2> DEFINE o == 0
  <2>a. /\ Residue(Cm(p.re, 0).re, r) /\ Residue(Cm(p.re, 0).im, o)
        /\ Residue(Cm(p.im, 0).re, i) /\ Residue(Cm(p.im, 0).im, o)
    BY <1>5, <2>1, ZeroInM31
  <2> HIDE DEF o
  <2>2. Residue(u1.re, x0 - r) /\ Residue(u1.im, x1 - o)
    BY <1>5, <2>1, <2>a, CmSubResidues
  <2>3. Residue(u2.re, y0 - i) /\ Residue(u2.im, y1 - o)
    BY <1>5, <2>1, <2>a, CmSubResidues
  <2>4. Denom(pt, p) = [c0 |-> w.re, c1 |-> w.im, c2 |-> 0, c3 |-> 0]
    BY DEF Denom, FromHalves, Cm
  <2> HIDE DEF u1, u2
  <2> DEFINE a == x0 - r
             b == x1 - o
             c == y0 - i
             d == y1 - o
  <2> HIDE DEF a, b, c, d
  <2>5. Residue(u1.re, a) /\ Residue(u1.im, b) /\ Residue(u2.re, c) /\ Residue(u2.im, d)
    BY <2>2, <2>3 DEF a, b, c, d
  <2>6. Residue(v1.re, a * y2 - b * y3) /\ Residue(v1.im, a * y3 + b * y2)
    BY <1>5, <2>1, <2>5, CmMulResidues
  <2>7. Residue(v2.re, c * x2 - d * x3) /\ Residue(v2.im, c * x3 + d * x2)
    BY <1>5, <2>1, <2>5, CmMulResidues
  <2> HIDE DEF v1, v2
  <2>8. /\ Residue(w.re, (a * y2 - b * y3) - (c * x2 - d * x3))
        /\ Residue(w.im, (a * y3 + b * y2) - (c * x3 + d * x2))
    BY <2>6, <2>7, CmSubResidues
  <2> HIDE DEF w, D0, D1
  <2>9. Residue(w.re, D0) /\ Residue(w.im, D1) BY <2>8 DEF a, b, c, d, o, D0, D1
  <2>10. Denom(pt, p) \in QM31 BY <2>4, <2>9, ZeroInM31 DEF QM31, Residue
  <2>11. D \in Quads BY <2>9 DEF Residue, Quads
  <2> QED BY <2>4, <2>9, <2>10, <2>11, ZeroInM31 DEF Reduces
<1>11. Reduces(Qm31Mul(MinusTwoU, Denom(pt, p)), QuadMul(m, D))
  BY <1>10, MinusTwoUIs, ReducesOps
<1>12. S = QuadMul(m, D)
  <2>1. s1 = [c0 |-> 0, c1 |-> 0, c2 |-> 2 * (y2 * r), c3 |-> 2 * (y3 * r)]
    BY <1>5 DEF QuadMul, QuadSub
  <2>2. s2 = [c0 |-> 0, c1 |-> 0, c2 |-> 0 - 2 * (x2 * i), c3 |-> 0 - 2 * (x3 * i)]
    BY <1>5 DEF QuadMul, QuadSub
  <2>3. s3 = [c0 |-> 0, c1 |-> 0,
              c2 |-> 2 * (x2 * y0 - x3 * y1) - 2 * (x0 * y2 - x1 * y3),
              c3 |-> 2 * (x2 * y1 + x3 * y0) - 2 * (x0 * y3 + x1 * y2)]
    BY <1>5 DEF QuadMul, QuadSub
  <2>4. QuadMul(m, D) = [c0 |-> 0, c1 |-> 0, c2 |-> 0 - 2 * D0, c3 |-> 0 - 2 * D1]
    <3>1. D0 \in Int /\ D1 \in Int BY <1>5
    <3> HIDE DEF D0, D1
    <3> QED BY <3>1 DEF QuadMul
  <2>5. /\ (2 * (y2 * r) + (0 - 2 * (x2 * i)))
             + (2 * (x2 * y0 - x3 * y1) - 2 * (x0 * y2 - x1 * y3)) = 0 - 2 * D0
        /\ (2 * (y3 * r) + (0 - 2 * (x3 * i)))
             + (2 * (x2 * y1 + x3 * y0) - 2 * (x0 * y3 + x1 * y2)) = 0 - 2 * D1
    BY <1>5
  <2>6. S = [c0 |-> (0 + 0) + 0, c1 |-> (0 + 0) + 0,
             c2 |-> (2 * (y2 * r) + (0 - 2 * (x2 * i)))
                      + (2 * (x2 * y0 - x3 * y1) - 2 * (x0 * y2 - x1 * y3)),
             c3 |-> (2 * (y3 * r) + (0 - 2 * (x3 * i)))
                      + (2 * (x2 * y1 + x3 * y0) - 2 * (x0 * y3 + x1 * y2))]
    <3> HIDE DEF s1, s2, s3
    <3> QED BY <2>1, <2>2, <2>3, Zenon DEF QuadAdd
  <2>7. (0 + 0) + 0 = 0 OBVIOUS
  <2> HIDE DEF S, D0, D1, D, m
  <2> QED BY <2>4, <2>5, <2>6, <2>7, Zenon
<1> HIDE DEF S, D, m
<1> QED BY <1>9, <1>10, <1>11, <1>12, ReducesUnique

-----------------------------------------------------------------------------
\* The contract's term of the row at p, for the sample point pt, is the classic one.
TermAgrees(f, pt, p, v, w) ==
  /\ Qm31Inv(Denom(pt, p)) \in QM31
  /\ QuotTerm(f, p.im, LineCoeffs(pt.y, v, w)) \in QM31
  /\ Qm31Mul(QuotTerm(f, p.im, LineCoeffs(pt.y, v, w)), Qm31Inv(Denom(pt, p)))
       = ClassicTerm(f, pt, p, v, w)

(***************************************************************************)
(* The term the contract computes, its numerator times the inverse of its  *)
(* denominator, is the classic one: scaled by 4R times the high half of y. *)
(***************************************************************************)
LEMMA TermIsClassic ==
  ASSUME NEW pt \in SecurePoints, NEW p \in CM31,
         NEW f \in QM31, NEW v \in QM31, NEW w \in QM31,
         LineCoeffsRequires(pt.y), Qm31InvRequires(Denom(pt, p))
  PROVE  TermAgrees(f, pt, p, v, w)
<1> DEFINE y == pt.y
           d == Qm31Sub(ConjU(y), y)
           A == Qm31Sub(ConjU(v), v)
           e == Qm31FromM31(p.im)
           h == Emb(High(y))
           g == Qm31Inv(d)
           D == Denom(pt, p)
           V == PairVanishing(pt, p)
           interp == Qm31Add(v, Qm31Mul(Qm31Mul(A, Qm31Sub(e, y)), g))
           F == Qm31Sub(f, interp)
           num == QuotTerm(f, p.im, LineCoeffs(y, v, w))
           c == MinusTwoU
<1>1. y \in QM31 /\ p.im \in M31 /\ p.re \in M31 BY DEF SecurePoints, CM31
<1>2. e \in QM31 BY <1>1, ScalarIsMul
<1>3. ConjU(y) \in QM31 /\ ConjU(v) \in QM31 BY <1>1, ConjReduces
<1>4. d \in QM31 /\ A \in QM31 BY <1>1, <1>3, Qm31Closed
<1>5. h \in QM31 /\ d = Qm31Mul(c, h) BY <1>1, SlopeIs
<1>6. h # SecureZero
  <2>1. High(y) \in CM31 /\ Cm(0, 0) \in CM31 /\ Emb(Cm(0, 0)) = SecureZero
    BY <1>1, HalvesClosed, Embeds, ZeroInM31 DEF SecureZero
  <2>2. High(y) # Cm(0, 0) BY DEF LineCoeffsRequires
  <2> HIDE DEF y
  <2> QED BY <2>1, <2>2, EmbInjective
<1>7. c \in QM31 /\ c # SecureZero BY MinusTwoUIs
<1>8. d # SecureZero BY <1>5, <1>6, <1>7, NoZeroDivisors
<1>9. g \in QM31 /\ Qm31Mul(d, g) = ONE
  <2> HIDE DEF d
  <2> QED BY <1>4, <1>8, SecureField DEF ONE
<1>10. D \in QM31 /\ V = Qm31Mul(c, D) BY VanishingIs
<1>11. D # SecureZero BY <1>10, SecureField
<1> DEFINE iD == Qm31Inv(D)
           iV == Qm31Inv(V)
<1>12. iD \in QM31
  <2> HIDE DEF D
  <2> QED BY <1>10, <1>11, SecureField
<1>13. V \in QM31 /\ V # SecureZero BY <1>7, <1>10, <1>11, NoZeroDivisors, Qm31Closed
<1>14. iV \in QM31 /\ Qm31Mul(V, iV) = ONE
  <2> HIDE DEF V
  <2> QED BY <1>13, SecureField DEF ONE
<1>15. iD = Qm31Mul(c, iV)
  <2> HIDE DEF D, V, iV, c
  <2>1. Qm31Mul(c, iV) \in QM31 BY <1>7, <1>14, Qm31Closed
  <2>2. Qm31Mul(D, Qm31Mul(c, iV)) = Qm31Mul(Qm31Mul(D, c), iV) BY <1>7, <1>10, <1>14, SecureRing
  <2>3. Qm31Mul(D, c) = V BY <1>7, <1>10, SecureRing
  <2>4. Qm31Mul(D, Qm31Mul(c, iV)) = Qm31FromM31(1) BY <1>14, <2>2, <2>3 DEF ONE
  <2> QED BY <1>10, <2>1, <2>4, InverseUnique
<1>16. num = Qm31Sub(Qm31Mul(Qm31Mul(w, d), f),
                     Qm31Add(Qm31Mul(Qm31Mul(w, A), e),
                             Qm31Mul(w, Qm31Sub(Qm31Mul(v, d), Qm31Mul(A, y)))))
  <2> HIDE DEF d, A, e, y
  <2>1. Qm31Mul(w, A) \in QM31 BY <1>4, Qm31Closed
  <2>2. Qm31MulM31(Qm31Mul(w, A), p.im) = Qm31Mul(Qm31Mul(w, A), e)
    BY <1>1, <2>1, ScalarIsMul DEF e
  <2> QED BY <2>2 DEF QuotTerm, LineCoeffs, A, d
<1> HIDE DEF d, A, e, y, g, D, V, iD, iV, h
<1>17. F \in QM31 /\ num = Qm31Mul(Qm31Mul(w, d), F)
  <2> DEFINE k == Qm31Sub(e, y)
             m == Qm31Mul(A, k)
             df == Qm31Mul(d, f)
             Ae == Qm31Mul(A, e)
             Ay == Qm31Mul(A, y)
             vd == Qm31Mul(v, d)
             B == Qm31Sub(vd, Ay)
             wd == Qm31Mul(w, d)
             wA == Qm31Mul(w, A)
  <2>0. y \in QM31 /\ e \in QM31 /\ A \in QM31 /\ d \in QM31 /\ g \in QM31
    BY <1>1, <1>2, <1>4, <1>9
  <2>1. /\ k \in QM31 /\ df \in QM31 /\ Ae \in QM31 /\ Ay \in QM31 /\ vd \in QM31
        /\ wd \in QM31 /\ wA \in QM31
    BY <2>0, Qm31Closed
  <2>2. m = Qm31Sub(Ae, Ay) BY <2>0, SecureRing
  <2>3. m \in QM31 BY <2>0, <2>1, Qm31Closed
  <2>4. interp = Qm31Add(v, Qm31Mul(m, g)) OBVIOUS
  <2>5. num = Qm31Sub(Qm31Mul(wd, f), Qm31Add(Qm31Mul(wA, e), Qm31Mul(w, B))) BY <1>16
  <2>6. Qm31Mul(w, df) = Qm31Mul(wd, f) BY <2>0, SecureRing
  <2>7. Qm31Mul(w, Ae) = Qm31Mul(wA, e) BY <2>0, SecureRing
  <2> HIDE DEF num, m, interp, k, wA
  <2>8. Qm31Mul(m, g) \in QM31 BY <2>0, <2>3, Qm31Closed
  <2>9. interp \in QM31 BY <2>4, <2>8, Qm31Closed
  <2>10. F \in QM31 BY <2>9, Qm31Closed
  <2>11. Qm31Mul(d, Qm31Mul(m, g)) = m
    <3>1. Qm31Mul(d, Qm31Mul(m, g)) = Qm31Mul(Qm31Mul(m, g), d) BY <2>0, <2>8, SecureRing
    <3>2. Qm31Mul(Qm31Mul(m, g), d) = Qm31Mul(m, Qm31Mul(g, d)) BY <2>0, <2>3, SecureRing
    <3>3. Qm31Mul(g, d) = ONE BY <1>9, <2>0, SecureRing
    <3> QED BY <2>3, <3>1, <3>2, <3>3, OneIsOne DEF ONE
  <2>12. Qm31Mul(d, interp) = Qm31Add(vd, m)
    <3>1. Qm31Mul(d, interp) = Qm31Add(Qm31Mul(d, v), Qm31Mul(d, Qm31Mul(m, g)))
      BY <2>0, <2>4, <2>8, SecureRing
    <3>2. Qm31Mul(d, v) = vd BY <2>0, SecureRing
    <3> QED BY <2>11, <3>1, <3>2
  <2>13. Qm31Mul(d, F) = Qm31Sub(df, Qm31Mul(d, interp)) BY <2>0, <2>9, SecureRing
  <2>14. Qm31Mul(wd, F) = Qm31Mul(w, Qm31Mul(d, F)) BY <2>0, <2>10, SecureRing
  <2> HIDE DEF F, df, Ae, Ay, vd
  <2>15. Qm31Add(vd, m) = Qm31Add(Ae, B) BY <2>1, <2>2, SumSwap
  <2>16. B \in QM31 BY <2>1, Qm31Closed
  <2> HIDE DEF B
  <2>17. Qm31Add(Ae, B) \in QM31 BY <2>1, <2>16, Qm31Closed
  <2>18. Qm31Mul(w, Qm31Sub(df, Qm31Add(Ae, B)))
           = Qm31Sub(Qm31Mul(w, df), Qm31Mul(w, Qm31Add(Ae, B)))
    BY <2>1, <2>17, SecureRing
  <2>19. Qm31Mul(w, Qm31Add(Ae, B)) = Qm31Add(Qm31Mul(w, Ae), Qm31Mul(w, B))
    BY <2>1, <2>16, SecureRing
  <2> HIDE DEF wd
  <2>20. num = Qm31Mul(wd, F)
    BY <2>5, <2>6, <2>7, <2>12, <2>13, <2>14, <2>15, <2>18, <2>19
  <2> QED BY <2>10, <2>20 DEF wd
<1>18. ClassicTerm(f, pt, p, v, w)
         = Qm31Mul(Qm31Mul(d, c), Qm31Mul(w, Qm31Mul(F, iV)))
  <2>1. Qm31Mul(Qm31FromM31(4 % P), FromHalves(CmMulR(High(y)), Cm(0, 0))) = Qm31Mul(d, c)
    BY <1>1, ScaleIs DEF d
  <2>2. Qm31Mul(d, ONE) = d BY <1>4, OneIsOne DEF ONE
  <2>3. IntoEf(p).y = e BY DEF IntoEf, e
  <2>4. ClassicTerm(f, pt, p, v, w)
          = Qm31Mul(Qm31Mul(Qm31FromM31(4 % P), FromHalves(CmMulR(High(y)), Cm(0, 0))),
              Qm31Mul(w, Qm31Mul(Qm31Sub(f, Qm31Add(v,
                Qm31Mul(Qm31Mul(A, Qm31Sub(IntoEf(p).y, y)), Qm31Inv(Qm31Mul(d, ONE))))), iV)))
    BY DEF ClassicTerm, d, A, y, V, iV
  <2> HIDE DEF c
  <2> QED BY <2>1, <2>2, <2>3, <2>4 DEF g
<1> HIDE DEF F, num, c
<1>19. Qm31Mul(num, iD) = Qm31Mul(Qm31Mul(d, c), Qm31Mul(w, Qm31Mul(F, iV)))
  <2>1. /\ Qm31Mul(w, d) \in QM31 /\ Qm31Mul(d, c) \in QM31 /\ Qm31Mul(F, iV) \in QM31
        /\ Qm31Mul(w, F) \in QM31 /\ Qm31Mul(c, iV) \in QM31
    BY <1>4, <1>7, <1>14, <1>17, Qm31Closed
  <2>2. Qm31Mul(Qm31Mul(w, d), F) = Qm31Mul(d, Qm31Mul(w, F)) BY <1>4, <1>17, SecureRing
  <2>3. Qm31Mul(Qm31Mul(d, Qm31Mul(w, F)), Qm31Mul(c, iV))
          = Qm31Mul(Qm31Mul(d, c), Qm31Mul(Qm31Mul(w, F), iV))
    BY <1>4, <1>7, <1>14, <2>1, MulSwap
  <2>4. Qm31Mul(Qm31Mul(w, F), iV) = Qm31Mul(w, Qm31Mul(F, iV)) BY <1>14, <1>17, SecureRing
  <2> QED BY <1>15, <1>17, <2>2, <2>3, <2>4
<1>20. num \in QM31
  <2>1. Qm31Mul(w, d) \in QM31 BY <1>4, Qm31Closed
  <2> QED BY <1>17, <2>1, Qm31Closed
<1> QED BY <1>12, <1>18, <1>19, <1>20 DEF iD, D, num, y, TermAgrees

-----------------------------------------------------------------------------
\* The powers of a challenge, as the contract runs them and as the classic row does.
LEMMA PowersAre ==
  ASSUME NEW g \in QM31, NEW pw,
         pw = [n \in 0 .. 6 |-> IF n = 0 THEN ONE ELSE Qm31Mul(g, pw[n - 1])]
  PROVE  \A n \in 0 .. 6 : pw[n] \in QM31 /\ Powers(g)[n] = pw[n]
<1> DEFINE S == [i \in 0 .. 6 |-> QM31]
           F == [i \in 1 .. 6 |-> [x \in QM31 |-> Qm31Mul(x, g)]]
           Is(f) == f = [n \in 0 .. 6 |-> IF n = 0 THEN Qm31FromM31(1) ELSE Qm31Mul(f[n - 1], g)]
           q == CHOOSE f : Is(f)
           T == {n \in 0 .. 6 : pw[n] \in QM31 /\ q[n] = pw[n]}
<1>1. ONE \in QM31 BY OneIsOne DEF ONE
<1>2. \A x \in QM31 : Qm31Mul(x, g) \in QM31 BY Qm31Closed
<1>3. PICK f : IsRecursion(f, 6, ONE, F) /\ Valued(f, 6, S)
  <2>1. ONE \in S[0] /\ Steps(6, F, S) BY <1>1, <1>2 DEF Steps
  <2> HIDE DEF S, F
  <2> QED BY <2>1, Recursion
<1>4. Is(f)
  <2>1. \A i \in 0 .. 6 : f[i] \in QM31 BY <1>3 DEF Valued
  <2>2. \A i \in 0 .. 6 : f[i] = IF i = 0 THEN ONE ELSE F[i][f[i - 1]] BY <1>3 DEF IsRecursion
  <2>3. \A i \in 1 .. 6 : F[i][f[i - 1]] = Qm31Mul(f[i - 1], g) BY <2>1
  <2>4. \A i \in 0 .. 6 : f[i] = IF i = 0 THEN Qm31FromM31(1) ELSE Qm31Mul(f[i - 1], g)
    <3> HIDE DEF F
    <3> QED BY <2>2, <2>3 DEF ONE
  <2>5. f = [i \in 0 .. 6 |-> f[i]] BY <1>3 DEF IsRecursion
  <2> QED BY <2>4, <2>5
<1>5. Is(q) BY <1>4
<1>6. Powers(g) = q BY DEF Powers
<1> HIDE DEF q
<1>7. 0 \in T BY <1>1, <1>5 DEF ONE
<1>8. ASSUME NEW i \in 1 .. 6, i - 1 \in T PROVE i \in T
  <2>1. i \in 0 .. 6 /\ i # 0 /\ pw[i] = Qm31Mul(g, pw[i - 1]) OBVIOUS
  <2>2. q[i] = Qm31Mul(q[i - 1], g) BY <1>5, <2>1
  <2>3. pw[i - 1] \in QM31 /\ q[i - 1] = pw[i - 1] BY <1>8
  <2>4. Qm31Mul(g, pw[i - 1]) \in QM31 BY <2>3, Qm31Closed
  <2>5. Qm31Mul(g, pw[i - 1]) = Qm31Mul(pw[i - 1], g) BY <2>3, SecureRing
  <2> QED BY <2>1, <2>2, <2>3, <2>4, <2>5
<1> HIDE DEF T
<1>9. \A i \in 0 .. 6 : i \in T BY <1>7, <1>8, UpTo
<1> QED BY <1>6, <1>9 DEF T

\* The contract's sum of the seven terms, batch by batch, and the classic row's.
SumsAgree(a1, a2, a3, a4, a5, a6, a7) ==
  Qm31Add(Qm31Add(Qm31Add(a1, Qm31Add(Qm31Add(a4, a5), Qm31Add(a6, a7))), a2), a3)
    = Qm31Add(Qm31Add(Qm31Add(a1, a2), Qm31Add(a3, a4)), Qm31Add(Qm31Add(a5, a6), a7))

\* Addition in the secure field makes them one.
LEMMA BatchSum ==
  ASSUME NEW a1 \in QM31, NEW a2 \in QM31, NEW a3 \in QM31, NEW a4 \in QM31,
         NEW a5 \in QM31, NEW a6 \in QM31, NEW a7 \in QM31
  PROVE  SumsAgree(a1, a2, a3, a4, a5, a6, a7)
<1> DEFINE s4 == Qm31Add(Qm31Add(a4, a5), Qm31Add(a6, a7))
           l == QuadAdd(QuadAdd(QuadAdd(a1, QuadAdd(QuadAdd(a4, a5), QuadAdd(a6, a7))), a2), a3)
           r == QuadAdd(QuadAdd(QuadAdd(a1, a2), QuadAdd(a3, a4)), QuadAdd(QuadAdd(a5, a6), a7))
<1>1. /\ Reduces(a1, a1) /\ Reduces(a2, a2) /\ Reduces(a3, a3) /\ Reduces(a4, a4)
      /\ Reduces(a5, a5) /\ Reduces(a6, a6) /\ Reduces(a7, a7)
      /\ a1 \in Quads /\ a2 \in Quads /\ a3 \in Quads /\ a4 \in Quads
      /\ a5 \in Quads /\ a6 \in Quads /\ a7 \in Quads
  BY ReducesSelf
<1>2. /\ Reduces(Qm31Add(a4, a5), QuadAdd(a4, a5)) /\ Reduces(Qm31Add(a6, a7), QuadAdd(a6, a7))
      /\ Reduces(Qm31Add(a1, a2), QuadAdd(a1, a2)) /\ Reduces(Qm31Add(a3, a4), QuadAdd(a3, a4))
      /\ Reduces(Qm31Add(a5, a6), QuadAdd(a5, a6))
  BY <1>1, ReducesOps
<1>3. Reduces(s4, QuadAdd(QuadAdd(a4, a5), QuadAdd(a6, a7))) BY <1>2, ReducesOps
<1>4. Reduces(Qm31Add(a1, s4), QuadAdd(a1, QuadAdd(QuadAdd(a4, a5), QuadAdd(a6, a7))))
  BY <1>1, <1>3, ReducesOps
<1>5. Reduces(Qm31Add(Qm31Add(a1, s4), a2),
              QuadAdd(QuadAdd(a1, QuadAdd(QuadAdd(a4, a5), QuadAdd(a6, a7))), a2))
  BY <1>1, <1>4, ReducesOps
<1>6. Reduces(Qm31Add(Qm31Add(Qm31Add(a1, s4), a2), a3), l) BY <1>1, <1>5, ReducesOps
<1>7. /\ Reduces(Qm31Add(Qm31Add(a1, a2), Qm31Add(a3, a4)),
                 QuadAdd(QuadAdd(a1, a2), QuadAdd(a3, a4)))
      /\ Reduces(Qm31Add(Qm31Add(a5, a6), a7), QuadAdd(QuadAdd(a5, a6), a7))
  BY <1>1, <1>2, ReducesOps
<1>8. Reduces(Qm31Add(Qm31Add(Qm31Add(a1, a2), Qm31Add(a3, a4)), Qm31Add(Qm31Add(a5, a6), a7)), r)
  BY <1>7, ReducesOps
<1>9. l = r
  <2>1. \A x, y \in Quads : QuadAdd(x, y) \in Quads /\ QuadAdd(x, y) = QuadAdd(y, x)
    <3> SUFFICES ASSUME NEW x \in Quads, NEW y \in Quads
                 PROVE  QuadAdd(x, y) \in Quads /\ QuadAdd(x, y) = QuadAdd(y, x) OBVIOUS
    <3>1. /\ x.c0 \in Int /\ x.c1 \in Int /\ x.c2 \in Int /\ x.c3 \in Int
          /\ y.c0 \in Int /\ y.c1 \in Int /\ y.c2 \in Int /\ y.c3 \in Int
      BY DEF Quads
    <3>2. QuadAdd(x, y) = QuadAdd(y, x) BY <3>1 DEF QuadAdd
    <3>3. QuadAdd(x, y) \in Quads BY <3>1 DEF QuadAdd, Quads
    <3> QED BY <3>2, <3>3
  <2>2. \A x, y, z \in Quads : QuadAdd(QuadAdd(x, y), z) = QuadAdd(x, QuadAdd(y, z))
    <3> SUFFICES ASSUME NEW x \in Quads, NEW y \in Quads, NEW z \in Quads
                 PROVE  QuadAdd(QuadAdd(x, y), z) = QuadAdd(x, QuadAdd(y, z)) OBVIOUS
    <3>1. /\ x.c0 \in Int /\ x.c1 \in Int /\ x.c2 \in Int /\ x.c3 \in Int
          /\ y.c0 \in Int /\ y.c1 \in Int /\ y.c2 \in Int /\ y.c3 \in Int
          /\ z.c0 \in Int /\ z.c1 \in Int /\ z.c2 \in Int /\ z.c3 \in Int
      BY DEF Quads
    <3> QED BY <3>1 DEF QuadAdd
  <2> DEFINE t == QuadAdd(QuadAdd(a5, a6), a7)
             u == QuadAdd(QuadAdd(a4, a5), QuadAdd(a6, a7))
             a12 == QuadAdd(a1, a2)
             a23 == QuadAdd(a2, a3)
  <2>3. t \in Quads /\ u \in Quads /\ a12 \in Quads /\ a23 \in Quads /\ QuadAdd(a4, t) \in Quads
        /\ QuadAdd(a3, a4) \in Quads /\ QuadAdd(a1, u) \in Quads
    BY <1>1, <2>1
  <2>4. u = QuadAdd(a4, t)
    <3>1. QuadAdd(a5, a6) \in Quads /\ QuadAdd(a6, a7) \in Quads BY <1>1, <2>1
    <3>2. u = QuadAdd(a4, QuadAdd(a5, QuadAdd(a6, a7))) BY <1>1, <2>2, <3>1
    <3>3. t = QuadAdd(a5, QuadAdd(a6, a7)) BY <1>1, <2>2
    <3> QED BY <3>2, <3>3
  <2>5. l = QuadAdd(QuadAdd(QuadAdd(a1, u), a2), a3)
        /\ r = QuadAdd(QuadAdd(a12, QuadAdd(a3, a4)), t)
    OBVIOUS
  <2> HIDE DEF t, u, l, r
  <2>6. l = QuadAdd(a1, QuadAdd(u, a23))
    <3>1. l = QuadAdd(QuadAdd(a1, u), a23) BY <1>1, <2>2, <2>3, <2>5
    <3> QED BY <1>1, <2>2, <2>3, <3>1
  <2>7. r = QuadAdd(a1, QuadAdd(a23, u))
    <3>1. r = QuadAdd(a12, QuadAdd(QuadAdd(a3, a4), t)) BY <1>1, <2>2, <2>3, <2>5
    <3>2. QuadAdd(QuadAdd(a3, a4), t) = QuadAdd(a3, u) BY <1>1, <2>2, <2>3, <2>4
    <3>3. QuadAdd(a3, u) \in Quads BY <1>1, <2>1, <2>3
    <3>4. r = QuadAdd(a1, QuadAdd(a2, QuadAdd(a3, u))) BY <1>1, <2>2, <3>1, <3>2, <3>3
    <3>5. QuadAdd(a2, QuadAdd(a3, u)) = QuadAdd(a23, u) BY <1>1, <2>2, <2>3
    <3> QED BY <3>4, <3>5
  <2> QED BY <2>1, <2>3, <2>6, <2>7
<1> HIDE DEF l, r, s4
<1> QED BY <1>6, <1>8, <1>9, ReducesUnique DEF s4, SumsAgree

-----------------------------------------------------------------------------
\* The contract's rotation of a point is the group law's, and stays in the secure field.
LEMMA RotationIs ==
  ASSUME NEW pt \in SecurePoints
  PROVE  PointAddBase(pt, STEP) \in SecurePoints /\ RotS(pt) = PointAddBase(pt, STEP)
<1>1. STEP.re \in M31 /\ STEP.im \in M31 /\ DEEP_STEP = STEP BY InputsAssumption
<1>2. pt.x \in QM31 /\ pt.y \in QM31 BY DEF SecurePoints
<1>3. /\ Qm31MulM31(pt.x, STEP.re) \in QM31 /\ Qm31MulM31(pt.y, STEP.im) \in QM31
      /\ Qm31MulM31(pt.x, STEP.im) \in QM31 /\ Qm31MulM31(pt.y, STEP.re) \in QM31
  BY <1>1, <1>2, ScalarIsMul, Qm31Closed
<1>4. PointAddBase(pt, STEP) \in SecurePoints BY <1>3, Qm31Closed DEF PointAddBase, SecurePoints
<1> QED BY <1>1, <1>4 DEF RotS, PointAddBase

\* What the contract computes at a position is the classic row there.
LEMMA RowValueIsClassic ==
  ASSUME NEW p \in CM31, NEW t \in QM31, NEW c \in QM31,
         zpt \in SecurePoints, \A i \in 1 .. 7 : openings[i] \in QM31, gamma \in QM31,
         RowRequires(zpt, p)
  PROVE  RowValue(t, c, p, openings, zpt, gamma) = ClassicRow(t, c, p)
<1> DEFINE Is(f) == f = [n \in 0 .. 6 |-> IF n = 0 THEN ONE ELSE Qm31Mul(gamma, f[n - 1])]
           pw == CHOOSE f : Is(f)
           z1 == PointAddBase(zpt, STEP)
           z2 == PointAddBase(z1, STEP)
           N(f, z, i) == QuotTerm(f, p.im, LineCoeffs(z.y, openings[i], pw[i - 1]))
           I(z) == Qm31Inv(Denom(z, p))
           C(f, z, i) == ClassicTerm(f, z, p, openings[i], pw[i - 1])
           c0 == Qm31FromM31(c.c0)
           c1 == Qm31FromM31(c.c1)
           c2 == Qm31FromM31(c.c2)
           c3 == Qm31FromM31(c.c3)
<1>1. Is(pw)
  <2> DEFINE S == [i \in 0 .. 6 |-> QM31]
             F == [i \in 1 .. 6 |-> [x \in QM31 |-> Qm31Mul(gamma, x)]]
  <2>1. ONE \in QM31 BY OneIsOne DEF ONE
  <2>2. \A x \in QM31 : Qm31Mul(gamma, x) \in QM31 BY Qm31Closed
  <2>3. PICK f : IsRecursion(f, 6, ONE, F) /\ Valued(f, 6, S)
    <3>1. ONE \in S[0] /\ Steps(6, F, S) BY <2>1, <2>2 DEF Steps
    <3> HIDE DEF S, F
    <3> QED BY <3>1, Recursion
  <2>4. Is(f)
    <3>1. \A i \in 0 .. 6 : f[i] \in QM31 BY <2>3 DEF Valued
    <3>2. \A i \in 0 .. 6 : f[i] = IF i = 0 THEN ONE ELSE F[i][f[i - 1]] BY <2>3 DEF IsRecursion
    <3>3. \A i \in 1 .. 6 : F[i][f[i - 1]] = Qm31Mul(gamma, f[i - 1]) BY <3>1
    <3>4. \A i \in 0 .. 6 : f[i] = IF i = 0 THEN ONE ELSE Qm31Mul(gamma, f[i - 1])
      <4> HIDE DEF F
      <4> QED BY <3>2, <3>3
    <3>5. f = [i \in 0 .. 6 |-> f[i]] BY <2>3 DEF IsRecursion
    <3> QED BY <3>4, <3>5
  <2> QED BY <2>4
<1>2. ClassicRow(t, c, p) =
        Qm31Add(Qm31Add(Qm31Add(C(t, zpt, 1), C(t, z1, 2)), Qm31Add(C(t, z2, 3), C(c0, zpt, 4))),
                Qm31Add(Qm31Add(C(c1, zpt, 5), C(c2, zpt, 6)), C(c3, zpt, 7)))
  BY DEF ClassicRow
<1> HIDE DEF pw
<1>3. \A n \in 0 .. 6 : pw[n] \in QM31 /\ Powers(gamma)[n] = pw[n] BY <1>1, PowersAre
<1>4. /\ z1 \in SecurePoints /\ z2 \in SecurePoints
      /\ RotS(zpt) = z1 /\ RotS(RotS(zpt)) = z2
  BY RotationIs
<1> DEFINE num0 == Qm31Add(N(t, zpt, 1), Qm31Add(Qm31Add(N(c0, zpt, 4), N(c1, zpt, 5)),
                                                 Qm31Add(N(c2, zpt, 6), N(c3, zpt, 7))))
<1>5. RowValue(t, c, p, openings, zpt, gamma) =
        Qm31Add(Qm31Add(Qm31Mul(num0, I(zpt)), Qm31Mul(N(t, z1, 2), I(z1))),
                Qm31Mul(N(t, z2, 3), I(z2)))
  <2> DEFINE zs == SamplePoints(zpt)
             q == Powers(gamma)
             T(f, i, v, n) == QuotTerm(f, p.im, LineCoeffs(zs[i].y, v, q[n]))
             L(v, i, n) == T(Qm31FromM31(v), 1, openings[i], n)
  <2>1. zs[1] = zpt /\ zs[2] = z1 /\ zs[3] = z2 BY <1>4 DEF SamplePoints
  <2>2. /\ q[0] = pw[0] /\ q[1] = pw[1] /\ q[2] = pw[2] /\ q[3] = pw[3]
        /\ q[4] = pw[4] /\ q[5] = pw[5] /\ q[6] = pw[6]
    BY <1>3
  <2>3. RowValue(t, c, p, openings, zpt, gamma) =
          Qm31Add(Qm31Add(
            Qm31Mul(Qm31Add(T(t, 1, openings[1], 0),
                Qm31Add(Qm31Add(L(c.c0, 4, 3), L(c.c1, 5, 4)),
                        Qm31Add(L(c.c2, 6, 5), L(c.c3, 7, 6)))), Qm31Inv(Denom(zs[1], p))),
            Qm31Mul(T(t, 2, openings[2], 1), Qm31Inv(Denom(zs[2], p)))),
            Qm31Mul(T(t, 3, openings[3], 2), Qm31Inv(Denom(zs[3], p))))
    BY DEF RowValue
  <2>4. /\ 1 - 1 = 0 /\ 2 - 1 = 1 /\ 3 - 1 = 2 /\ 4 - 1 = 3 /\ 5 - 1 = 4 /\ 6 - 1 = 5 /\ 7 - 1 = 6
    OBVIOUS
  <2> HIDE DEF zs, q, z1, z2
  <2> QED BY <2>1, <2>2, <2>3, <2>4
<1>6. ASSUME NEW z \in {zpt, z1, z2}
      PROVE  z \in SecurePoints /\ LineCoeffsRequires(z.y) /\ Qm31InvRequires(Denom(z, p))
  <2> DEFINE zs == SamplePoints(zpt)
  <2>1. zs[1] = zpt /\ zs[2] = z1 /\ zs[3] = z2 BY <1>4 DEF SamplePoints
  <2>2. \A i \in 1 .. 3 : LineCoeffsRequires(zs[i].y) /\ Qm31InvRequires(Denom(zs[i], p))
    BY DEF RowRequires
  <2> HIDE DEF zs, z1, z2
  <2>3. PICK i \in 1 .. 3 : z = zs[i] BY <2>1
  <2> QED BY <1>4, <2>2, <2>3
<1>7. c0 \in QM31 /\ c1 \in QM31 /\ c2 \in QM31 /\ c3 \in QM31
  <2>1. c.c0 \in M31 /\ c.c1 \in M31 /\ c.c2 \in M31 /\ c.c3 \in M31 BY DEF QM31
  <2> QED BY <2>1, ScalarIsMul
<1>8. ASSUME NEW z \in {zpt, z1, z2}, NEW f \in QM31, NEW i \in 1 .. 7
      PROVE  /\ I(z) \in QM31
             /\ N(f, z, i) \in QM31
             /\ Qm31Mul(N(f, z, i), I(z)) = C(f, z, i)
  <2> DEFINE v == openings[i]
             w == pw[i - 1]
  <2>1. i - 1 \in 0 .. 6 OBVIOUS
  <2>2. w \in QM31 BY <1>3, <2>1
  <2>3. v \in QM31 OBVIOUS
  <2>4. z \in SecurePoints /\ LineCoeffsRequires(z.y) /\ Qm31InvRequires(Denom(z, p)) BY <1>6
  <2> HIDE DEF v, w, z1, z2
  <2>5. TermAgrees(f, z, p, v, w) BY <2>2, <2>3, <2>4, TermIsClassic
  <2> QED BY <2>5, Zenon DEF v, w, TermAgrees
<1> DEFINE n1 == N(t, zpt, 1)
           n2 == N(t, z1, 2)
           n3 == N(t, z2, 3)
           n4 == N(c0, zpt, 4)
           n5 == N(c1, zpt, 5)
           n6 == N(c2, zpt, 6)
           n7 == N(c3, zpt, 7)
           m1 == C(t, zpt, 1)
           m2 == C(t, z1, 2)
           m3 == C(t, z2, 3)
           m4 == C(c0, zpt, 4)
           m5 == C(c1, zpt, 5)
           m6 == C(c2, zpt, 6)
           m7 == C(c3, zpt, 7)
           g == I(zpt)
<1> HIDE DEF N, I, C, z1, z2, c0, c1, c2, c3
<1>9. /\ n1 \in QM31 /\ n2 \in QM31 /\ n3 \in QM31 /\ n4 \in QM31
      /\ n5 \in QM31 /\ n6 \in QM31 /\ n7 \in QM31 /\ g \in QM31
      /\ I(z1) \in QM31 /\ I(z2) \in QM31
  BY <1>7, <1>8
<1>10. /\ Qm31Mul(n1, g) = m1 /\ Qm31Mul(n2, I(z1)) = m2 /\ Qm31Mul(n3, I(z2)) = m3
       /\ Qm31Mul(n4, g) = m4 /\ Qm31Mul(n5, g) = m5
       /\ Qm31Mul(n6, g) = m6 /\ Qm31Mul(n7, g) = m7
  BY <1>7, <1>8
<1> HIDE DEF n1, n2, n3, n4, n5, n6, n7, m1, m2, m3, m4, m5, m6, m7, g
<1>11. \A a, b \in QM31 : Qm31Mul(Qm31Add(a, b), g) = Qm31Add(Qm31Mul(a, g), Qm31Mul(b, g))
  <2> SUFFICES ASSUME NEW a \in QM31, NEW b \in QM31
               PROVE  Qm31Mul(Qm31Add(a, b), g) = Qm31Add(Qm31Mul(a, g), Qm31Mul(b, g)) OBVIOUS
  <2>1. Qm31Add(a, b) \in QM31 BY Qm31Closed
  <2>2. Qm31Mul(Qm31Add(a, b), g) = Qm31Mul(g, Qm31Add(a, b)) BY <1>9, <2>1, SecureRing
  <2>3. Qm31Mul(g, Qm31Add(a, b)) = Qm31Add(Qm31Mul(g, a), Qm31Mul(g, b)) BY <1>9, SecureRing
  <2>4. Qm31Mul(g, a) = Qm31Mul(a, g) /\ Qm31Mul(g, b) = Qm31Mul(b, g) BY <1>9, SecureRing
  <2> QED BY <2>2, <2>3, <2>4
<1>12. Qm31Mul(num0, g) = Qm31Add(m1, Qm31Add(Qm31Add(m4, m5), Qm31Add(m6, m7)))
  <2> DEFINE s45 == Qm31Add(n4, n5)
             s67 == Qm31Add(n6, n7)
             s == Qm31Add(s45, s67)
  <2>1. s45 \in QM31 /\ s67 \in QM31 /\ s \in QM31 BY <1>9, Qm31Closed
  <2>2. num0 = Qm31Add(n1, s) BY DEF n1, n4, n5, n6, n7
  <2>3. Qm31Mul(s45, g) = Qm31Add(m4, m5) BY <1>9, <1>10, <1>11
  <2>4. Qm31Mul(s67, g) = Qm31Add(m6, m7) BY <1>9, <1>10, <1>11
  <2> HIDE DEF s45, s67
  <2>5. Qm31Mul(s, g) = Qm31Add(Qm31Mul(s45, g), Qm31Mul(s67, g)) BY <2>1, <1>11
  <2> HIDE DEF s
  <2>6. Qm31Mul(Qm31Add(n1, s), g) = Qm31Add(Qm31Mul(n1, g), Qm31Mul(s, g)) BY <1>9, <2>1, <1>11
  <2> HIDE DEF num0
  <2> QED BY <1>10, <2>2, <2>3, <2>4, <2>5, <2>6
<1>13. RowValue(t, c, p, openings, zpt, gamma) =
         Qm31Add(Qm31Add(Qm31Mul(num0, g), Qm31Mul(n2, I(z1))), Qm31Mul(n3, I(z2)))
  BY <1>5 DEF n2, n3, g
<1>14. ClassicRow(t, c, p) =
         Qm31Add(Qm31Add(Qm31Add(m1, m2), Qm31Add(m3, m4)), Qm31Add(Qm31Add(m5, m6), m7))
  BY <1>2 DEF m1, m2, m3, m4, m5, m6, m7
<1>15. /\ m1 \in QM31 /\ m2 \in QM31 /\ m3 \in QM31 /\ m4 \in QM31
       /\ m5 \in QM31 /\ m6 \in QM31 /\ m7 \in QM31
  BY <1>9, <1>10, Qm31Closed
<1> HIDE DEF num0
<1>16. SumsAgree(m1, m2, m3, m4, m5, m6, m7) BY <1>15, BatchSum
<1> QED BY <1>10, <1>12, <1>13, <1>14, <1>16 DEF SumsAgree

-----------------------------------------------------------------------------
\* The base field's exponentiation, and so the inverse, stays in the field, for 0 too.
LEMMA InverseClosed ==
  ASSUME NEW a \in M31
  PROVE  M31Inv(a) \in M31
<1> DEFINE S == [r : M31, b : M31, e : Nat]
           G == [x \in S |-> PowStep(x)]
           o == [r |-> 1, b |-> a, e |-> P - 2]
           Is(f) == f = [i \in 0 .. STEPS |->
                           IF i = 0 THEN [r |-> 1, b |-> a, e |-> P - 2] ELSE PowStep(f[i - 1])]
           st == CHOOSE f : Is(f)
<1>1. STEPS \in Nat /\ P - 2 \in Nat BY FieldAssumption
<1>2. o \in S BY <1>1, ZeroInM31
<1>3. ASSUME NEW x \in S PROVE PowStep(x) \in S
  <2>1. x.r \in M31 /\ x.b \in M31 /\ x.e \in Nat OBVIOUS
  <2>2. M31Mul(x.r, x.b) \in M31 /\ M31Mul(x.b, x.b) \in M31 BY <2>1, M31Bounds, M31Closed
  <2>3. x.e \div 2 \in Nat BY <2>1
  <2> QED BY <2>1, <2>2, <2>3 DEF PowStep
<1> HIDE DEF S
<1>4. G \in [S -> S] BY <1>3
<1>5. PICK f : IsIteration(f, STEPS, S, o, G)
  <2> HIDE DEF G, o
  <2> QED BY <1>1, <1>2, <1>4, Iteration
<1>5a. Is(f)
  <2>1. \A i \in 1 .. STEPS : i - 1 \in 0 .. STEPS BY <1>1
  <2>2. \A i \in 1 .. STEPS : f[i] = PowStep(f[i - 1]) BY <1>5, <2>1 DEF IsIteration
  <2> QED BY <1>1, <1>5, <2>2 DEF IsIteration
<1>6. Is(st) BY <1>5a
<1>7. M31Inv(a) = st[STEPS].r BY DEF M31Inv, M31Pow
<1> DEFINE U == {i \in 0 .. STEPS : st[i] \in S}
<1> HIDE DEF st
<1>8. 0 \in U BY <1>1, <1>2, <1>6
<1>9. ASSUME NEW i \in 1 .. STEPS, i - 1 \in U PROVE i \in U
  <2>1. st[i] = PowStep(st[i - 1]) BY <1>1, <1>6
  <2> QED BY <1>3, <1>9, <2>1
<1> HIDE DEF U
<1>10. STEPS \in U BY <1>1, <1>8, <1>9, UpTo
<1> QED BY <1>7, <1>10 DEF U, S

-----------------------------------------------------------------------------
\* 1 and -1.
Unit == Cm(1, 0)
MinusUnit == Cm(P - 1, 0)

\* The complex extension is a commutative ring.
LEMMA ComplexRing ==
  ASSUME NEW x \in CM31, NEW y \in CM31, NEW z \in CM31
  PROVE  /\ CmMul(x, y) \in CM31
         /\ CmMul(x, y) = CmMul(y, x)
         /\ CmMul(CmMul(x, y), z) = CmMul(x, CmMul(y, z))
         /\ Unit \in CM31 /\ CmMul(x, Unit) = x
<1>1. CmMul(x, y) \in CM31 /\ CmMul(y, z) \in CM31 /\ CmMul(y, x) \in CM31
  BY CmClosed DEF CM31
<1>2. CmMul(CmMul(x, y), z) \in CM31 /\ CmMul(x, CmMul(y, z)) \in CM31
  BY <1>1, CmClosed DEF CM31
<1>3. Unit \in CM31 BY ZeroInM31 DEF Unit, Cm, CM31
<1>4. Emb(x) \in QM31 /\ Emb(y) \in QM31 /\ Emb(z) \in QM31 /\ Emb(Unit) \in QM31
  BY <1>3, EmbClosed
<1>5. CmMul(x, y) = CmMul(y, x)
  <2>1. Emb(CmMul(x, y)) = Emb(CmMul(y, x)) BY <1>4, EmbMul, SecureRing
  <2> QED BY <1>1, <2>1, EmbInjective
<1>6. CmMul(CmMul(x, y), z) = CmMul(x, CmMul(y, z))
  <2>1. Emb(CmMul(CmMul(x, y), z)) = Emb(CmMul(x, CmMul(y, z)))
    <3>1. Emb(CmMul(CmMul(x, y), z)) = Qm31Mul(Qm31Mul(Emb(x), Emb(y)), Emb(z)) BY <1>1, EmbMul
    <3>2. Emb(CmMul(x, CmMul(y, z))) = Qm31Mul(Emb(x), Qm31Mul(Emb(y), Emb(z))) BY <1>1, EmbMul
    <3> QED BY <1>4, <3>1, <3>2, SecureRing
  <2> QED BY <1>2, <2>1, EmbInjective
<1>7. CmMul(x, Unit) = x
  <2>1. CmMul(x, Unit) \in CM31 BY <1>3, CmClosed DEF CM31
  <2>2. Emb(Unit) = Qm31FromM31(1) BY <1>3, EmbClosed DEF Unit, Cm, Qm31FromM31
  <2>3. Emb(CmMul(x, Unit)) = Emb(x) BY <1>3, <1>4, <2>2, EmbMul, OneIsOne
  <2> QED BY <2>1, <2>3, EmbInjective
<1> QED BY <1>1, <1>3, <1>5, <1>6, <1>7

-----------------------------------------------------------------------------
\* base^e, one factor at a time.
PowerTable(base, e) ==
  LET pw[n \in 0 .. e] == IF n = 0 THEN Unit ELSE CmMul(pw[n - 1], base) IN pw
Power(base, e) == PowerTable(base, e)[e]

\* The table of powers starts at 1, takes a factor at each step, and stays in the extension.
LEMMA PowerTableIs ==
  ASSUME NEW base \in CM31, NEW e \in Nat
  PROVE  /\ PowerTable(base, e)[0] = Unit
         /\ \A i \in 1 .. e : PowerTable(base, e)[i] = CmMul(PowerTable(base, e)[i - 1], base)
         /\ \A i \in 0 .. e : PowerTable(base, e)[i] \in CM31
<1> DEFINE G == [x \in CM31 |-> CmMul(x, base)]
           Is(f) == f = [n \in 0 .. e |-> IF n = 0 THEN Unit ELSE CmMul(f[n - 1], base)]
           t == CHOOSE f : Is(f)
<1>1. Unit \in CM31 /\ \A x \in CM31 : CmMul(x, base) \in CM31 BY ComplexRing
<1>2. G \in [CM31 -> CM31] BY <1>1
<1>3. PICK f : IsIteration(f, e, CM31, Unit, G)
  <2> HIDE DEF G
  <2> QED BY <1>1, <1>2, Iteration
<1>4. Is(f)
  <2>1. \A i \in 1 .. e : i - 1 \in 0 .. e OBVIOUS
  <2>2. \A i \in 1 .. e : f[i] = CmMul(f[i - 1], base) BY <1>3, <2>1 DEF IsIteration
  <2> QED BY <1>3, <2>2 DEF IsIteration
<1>5. Is(t) BY <1>4
<1>6. PowerTable(base, e) = t BY DEF PowerTable
<1> DEFINE U == {i \in 0 .. e : t[i] \in CM31}
<1> HIDE DEF t
<1>7. 0 \in U BY <1>1, <1>5
<1>8. ASSUME NEW i \in 1 .. e, i - 1 \in U PROVE i \in U
  <2>1. t[i] = CmMul(t[i - 1], base) BY <1>5
  <2> QED BY <1>1, <1>8, <2>1
<1> HIDE DEF U
<1>9. \A i \in 0 .. e : i \in U BY <1>7, <1>8, UpTo
<1>10. t[0] = Unit /\ \A i \in 1 .. e : t[i] = CmMul(t[i - 1], base) BY <1>5
<1> QED BY <1>6, <1>9, <1>10 DEF U

\* The laws of exponents: zero and the successor ...
LEMMA PowerIs ==
  ASSUME NEW base \in CM31, NEW e \in Nat
  PROVE  /\ Power(base, e) \in CM31
         /\ Power(base, 0) = Unit
         /\ Power(base, e + 1) = CmMul(Power(base, e), base)
<1> DEFINE t == PowerTable(base, e)
           u == PowerTable(base, e + 1)
           U == {i \in 0 .. e : t[i] = u[i]}
<1>1. /\ t[0] = Unit /\ \A i \in 1 .. e : t[i] = CmMul(t[i - 1], base)
      /\ \A i \in 0 .. e : t[i] \in CM31
  BY PowerTableIs
<1>2. e + 1 \in Nat OBVIOUS
<1>3. u[0] = Unit /\ \A i \in 1 .. (e + 1) : u[i] = CmMul(u[i - 1], base) BY <1>2, PowerTableIs
<1>4. PowerTable(base, 0)[0] = Unit BY PowerTableIs
<1> HIDE DEF t, u
<1>5. 0 \in U BY <1>1, <1>3
<1>6. ASSUME NEW i \in 1 .. e, i - 1 \in U PROVE i \in U
  <2>1. i \in 1 .. (e + 1) OBVIOUS
  <2> QED BY <1>1, <1>3, <1>6, <2>1
<1> HIDE DEF U
<1>7. e \in U BY <1>5, <1>6, UpTo
<1>8. u[e] = t[e] BY <1>7 DEF U
<1>9. e + 1 \in 1 .. (e + 1) /\ (e + 1) - 1 = e OBVIOUS
<1>10. u[e + 1] = CmMul(u[e], base) BY <1>3, <1>9
<1> QED BY <1>1, <1>4, <1>8, <1>10 DEF Power, t, u

\* ... the sum of two exponents ...
LEMMA PowerAdd ==
  ASSUME NEW base \in CM31, NEW m \in Nat, NEW n \in Nat
  PROVE  Power(base, m + n) = CmMul(Power(base, m), Power(base, n))
<1> DEFINE U == {i \in 0 .. n : Power(base, m + i) = CmMul(Power(base, m), Power(base, i))}
<1>1. Power(base, m) \in CM31 /\ Power(base, 0) = Unit BY PowerIs
<1>2. 0 \in U
  <2>1. m + 0 = m OBVIOUS
  <2> QED BY <1>1, <2>1, ComplexRing
<1>3. ASSUME NEW i \in 1 .. n, i - 1 \in U PROVE i \in U
  <2> DEFINE j == i - 1
  <2>1. j \in Nat /\ m + j \in Nat /\ i = j + 1 /\ m + i = (m + j) + 1 OBVIOUS
  <2>2. Power(base, m + j) = CmMul(Power(base, m), Power(base, j)) BY <1>3
  <2> HIDE DEF j
  <2>3. Power(base, i) = CmMul(Power(base, j), base) /\ Power(base, j) \in CM31 BY <2>1, PowerIs
  <2>4. Power(base, m + i) = CmMul(Power(base, m + j), base) BY <2>1, PowerIs
  <2>5. Power(base, m + i) = CmMul(Power(base, m), Power(base, i))
    BY <1>1, <2>2, <2>3, <2>4, ComplexRing
  <2> QED BY <2>5
<1> HIDE DEF U
<1>4. n \in U BY <1>2, <1>3, UpTo
<1> QED BY <1>4 DEF U

\* ... and the power of a product.
LEMMA PowerMul ==
  ASSUME NEW x \in CM31, NEW y \in CM31, NEW n \in Nat
  PROVE  Power(CmMul(x, y), n) = CmMul(Power(x, n), Power(y, n))
<1> DEFINE xy == CmMul(x, y)
           U == {i \in 0 .. n : Power(xy, i) = CmMul(Power(x, i), Power(y, i))}
<1>1. xy \in CM31 BY ComplexRing
<1> HIDE DEF xy
<1>2. 0 \in U
  <2>1. Power(xy, 0) = Unit /\ Power(x, 0) = Unit /\ Power(y, 0) = Unit BY <1>1, PowerIs
  <2> QED BY <2>1, ComplexRing
<1>3. ASSUME NEW i \in 1 .. n, i - 1 \in U PROVE i \in U
  <2> DEFINE j == i - 1
             a == Power(x, j)
             b == Power(y, j)
  <2>1. j \in Nat /\ i = j + 1 OBVIOUS
  <2>2. Power(xy, j) = CmMul(a, b) BY <1>3
  <2> HIDE DEF j
  <2>3. a \in CM31 /\ b \in CM31 BY <2>1, PowerIs
  <2>4. Power(x, i) = CmMul(a, x) /\ Power(y, i) = CmMul(b, y) BY <2>1, PowerIs
  <2>5. Power(xy, i) = CmMul(CmMul(a, b), xy) BY <1>1, <2>1, <2>2, PowerIs
  <2> HIDE DEF a, b
  <2>6. CmMul(CmMul(a, b), CmMul(x, y)) = CmMul(CmMul(a, x), CmMul(b, y))
    <3>1. CmMul(b, y) \in CM31 /\ CmMul(b, x) \in CM31 /\ CmMul(x, y) \in CM31
      BY <2>3, ComplexRing
    <3>2. CmMul(CmMul(a, b), CmMul(x, y)) = CmMul(a, CmMul(b, CmMul(x, y)))
      BY <2>3, <3>1, ComplexRing
    <3>3. CmMul(b, CmMul(x, y)) = CmMul(CmMul(b, x), y) BY <2>3, ComplexRing
    <3>4. CmMul(CmMul(b, x), y) = CmMul(CmMul(x, b), y) BY <2>3, ComplexRing
    <3>5. CmMul(CmMul(x, b), y) = CmMul(x, CmMul(b, y)) BY <2>3, ComplexRing
    <3>6. CmMul(a, CmMul(x, CmMul(b, y))) = CmMul(CmMul(a, x), CmMul(b, y))
      BY <2>3, <3>1, ComplexRing
    <3> QED BY <3>2, <3>3, <3>4, <3>5, <3>6
  <2>7. Power(xy, i) = CmMul(Power(x, i), Power(y, i)) BY <2>4, <2>5, <2>6 DEF xy
  <2> QED BY <2>7
<1> HIDE DEF U
<1>4. n \in U BY <1>2, <1>3, UpTo
<1> QED BY <1>4 DEF U, xy

-----------------------------------------------------------------------------
\* The states of n square-and-multiply steps.
PowStates(n, base, exp) ==
  LET st[i \in 0 .. n] ==
        IF i = 0 THEN [r |-> Cm(1, 0), b |-> base, e |-> exp] ELSE CmPowStep(st[i - 1])
  IN  st

\* What a state of square-and-multiply is made of.
PowState == [r : CM31, b : CM31, e : Nat]

\* The states start at <<1, base, exp>>, and each is a step from the one before.
LEMMA PowStatesAre ==
  ASSUME NEW n \in Nat, NEW base \in CM31, NEW exp \in Nat
  PROVE  /\ PowStates(n, base, exp)[0] = [r |-> Cm(1, 0), b |-> base, e |-> exp]
         /\ \A i \in 1 .. n : PowStates(n, base, exp)[i] = CmPowStep(PowStates(n, base, exp)[i - 1])
         /\ \A i \in 0 .. n : PowStates(n, base, exp)[i] \in PowState
<1> DEFINE G == [x \in PowState |-> CmPowStep(x)]
           o == [r |-> Cm(1, 0), b |-> base, e |-> exp]
           Is(f) == f = [i \in 0 .. n |->
                           IF i = 0 THEN [r |-> Cm(1, 0), b |-> base, e |-> exp]
                           ELSE CmPowStep(f[i - 1])]
           st == CHOOSE f : Is(f)
<1>1. o \in PowState
  <2>1. Cm(1, 0) \in CM31 BY ComplexRing DEF Unit
  <2> QED BY <2>1 DEF PowState
<1>2. ASSUME NEW x \in PowState PROVE CmPowStep(x) \in PowState
  <2>1. x.r \in CM31 /\ x.b \in CM31 /\ x.e \in Nat BY DEF PowState
  <2>2. CmMul(x.r, x.b) \in CM31 /\ CmMul(x.b, x.b) \in CM31 BY <2>1, ComplexRing
  <2>3. x.e \div 2 \in Nat BY <2>1
  <2> QED BY <2>1, <2>2, <2>3 DEF CmPowStep, PowState
<1>3. G \in [PowState -> PowState] BY <1>2
<1>4. PICK f : IsIteration(f, n, PowState, o, G)
  <2> HIDE DEF G, o
  <2> QED BY <1>1, <1>3, Iteration
<1>5. Is(f)
  <2>1. \A i \in 1 .. n : i - 1 \in 0 .. n OBVIOUS
  <2>2. \A i \in 1 .. n : f[i] = CmPowStep(f[i - 1]) BY <1>4, <2>1 DEF IsIteration
  <2> QED BY <1>4, <2>2 DEF IsIteration
<1>6. Is(st) BY <1>5
<1>7. PowStates(n, base, exp) = st BY DEF PowStates
<1> DEFINE U == {i \in 0 .. n : st[i] \in PowState}
<1> HIDE DEF st
<1>8. 0 \in U BY <1>1, <1>6
<1>9. ASSUME NEW i \in 1 .. n, i - 1 \in U PROVE i \in U
  <2>1. st[i] = CmPowStep(st[i - 1]) BY <1>6
  <2> QED BY <1>2, <1>9, <2>1
<1> HIDE DEF U
<1>10. \A i \in 0 .. n : i \in U BY <1>8, <1>9, UpTo
<1>11. st[0] = o /\ \A i \in 1 .. n : st[i] = CmPowStep(st[i - 1]) BY <1>6
<1> QED BY <1>7, <1>10, <1>11 DEF U

\* cm-pow, for the domain and for the trace's.
LEMMA CmPowIs ==
  ASSUME NEW base \in CM31, NEW exp \in Nat
  PROVE  /\ CmPow(base, exp) = PowStates(LOG_DOMAIN - 1, base, exp)[LOG_DOMAIN - 1].r
         /\ CmPow(base, exp) \in CM31
         /\ TraceDomain!CmPow(base, exp) = PowStates(LOG_TRACE - 1, base, exp)[LOG_TRACE - 1].r
         /\ TraceDomain!CmPow(base, exp) \in CM31
<1>1. CmPow(base, exp) = PowStates(LOG_DOMAIN - 1, base, exp)[LOG_DOMAIN - 1].r
  BY DEF CmPow, PowStates
<1>2. TraceDomain!CmPow(base, exp) = PowStates(LOG_TRACE - 1, base, exp)[LOG_TRACE - 1].r
  BY Zenon DEF TraceDomain!CmPow, TraceDomain!CmPowStep, TraceDomain!CmMul, TraceDomain!Cm,
               TraceDomain!M31Add, TraceDomain!M31Sub, TraceDomain!M31Mul,
               CmPowStep, CmMul, Cm, M31Add, M31Sub, M31Mul, PowStates
<1> DEFINE d == LOG_DOMAIN - 1
           t == LOG_TRACE - 1
<1>3. d \in Nat /\ t \in Nat /\ d \in 0 .. d /\ t \in 0 .. t BY QueryAssumption, CairAssumption
<1> HIDE DEF d, t
<1>4. PowStates(d, base, exp)[d] \in PowState /\ PowStates(t, base, exp)[t] \in PowState
  BY <1>3, PowStatesAre
<1> QED BY <1>1, <1>2, <1>4 DEF PowState, d, t

\* A power of the square is the power of twice the exponent.
LEMMA PowerSquare ==
  ASSUME NEW base \in CM31, NEW n \in Nat
  PROVE  Power(CmMul(base, base), n) = Power(base, 2 * n)
<1>1. Power(CmMul(base, base), n) = CmMul(Power(base, n), Power(base, n)) BY PowerMul
<1>2. Power(base, n + n) = CmMul(Power(base, n), Power(base, n)) BY PowerAdd
<1>3. n + n = 2 * n OBVIOUS
<1> QED BY <1>1, <1>2, <1>3

\* Square-and-multiply computes the power, for an exponent below the domain's half.
LEMMA CmPowIsPower ==
  ASSUME NEW base \in CM31, NEW exp \in Nat, exp < HALF
  PROVE  CmPow(base, exp) = Power(base, exp)
<1> DEFINE n == LOG_DOMAIN - 1
           st == PowStates(n, base, exp)
           E == [i \in 0 .. n |-> 2 ^ (n - i)]
           U == {i \in 0 .. n : /\ st[i].e < E[i]
                                /\ CmMul(st[i].r, Power(st[i].b, st[i].e)) = Power(base, exp)}
<1>1. n \in Nat BY QueryAssumption
<1>2. /\ st[0] = [r |-> Cm(1, 0), b |-> base, e |-> exp]
      /\ \A i \in 1 .. n : st[i] = CmPowStep(st[i - 1])
      /\ \A i \in 0 .. n : st[i] \in PowState
  BY <1>1, PowStatesAre
<1>3. exp < E[0]
  <2>1. n - 0 = n /\ 0 \in 0 .. n BY <1>1
  <2>2. E[0] = 2 ^ n
    <3>1. E[0] = 2 ^ (n - 0) BY <2>1
    <3> QED BY <2>1, <3>1, Zenon
  <2> QED BY <2>2 DEF HALF
<1>4a. E[n] = 1
  <2>1. n - n = 0 /\ n \in 0 .. n BY <1>1
  <2>2. E[n] = 2 ^ (n - n) BY <2>1
  <2>3. E[n] = 2 ^ 0 BY <2>1, <2>2, Zenon
  <2> QED BY <2>3, DoublingAssumption
<1>4b. ASSUME NEW i \in 1 .. n PROVE E[i] \in Nat /\ E[i - 1] = 2 * E[i]
  <2> DEFINE k == n - i
  <2>1. k \in 0 .. LOG_DOMAIN /\ n - (i - 1) = k + 1 /\ i - 1 \in 0 .. n /\ i \in 0 .. n
    BY <1>1, QueryAssumption
  <2>2. E[i - 1] = 2 ^ (n - (i - 1)) BY <2>1
  <2>3. E[i] = 2 ^ k BY <2>1
  <2> HIDE DEF k
  <2>4. E[i - 1] = 2 ^ (k + 1) BY <2>1, <2>2, Zenon
  <2>5. 2 ^ (k + 1) = 2 * 2 ^ k /\ 2 ^ k \in Nat BY <2>1, DoublingAssumption
  <2> QED BY <2>3, <2>4, <2>5
<1> HIDE DEF st, n, E
<1>4. 0 \in U
  <2>1. st[0].r = Unit /\ st[0].b = base /\ st[0].e = exp BY <1>2 DEF Unit
  <2>2. Power(base, exp) \in CM31 BY PowerIs
  <2>3. CmMul(Unit, Power(base, exp)) = Power(base, exp) BY <2>2, ComplexRing
  <2> QED BY <1>1, <1>3, <2>1, <2>3
<1>5. ASSUME NEW i \in 1 .. n, i - 1 \in U PROVE i \in U
  <2> DEFINE x == st[i - 1]
             h == x.e \div 2
  <2>1. x.r \in CM31 /\ x.b \in CM31 /\ x.e \in Nat BY <1>2, <1>5 DEF PowState
  <2>2. st[i] = CmPowStep(x) BY <1>2
  <2>3. /\ h \in Nat /\ (x.e = 2 * h \/ x.e = 2 * h + 1)
        /\ (x.e % 2 = 1 => x.e = 2 * h + 1) /\ (x.e % 2 # 1 => x.e = 2 * h)
    <3> DEFINE e == x.e
    <3>1. e \in Nat BY <2>1
    <3> HIDE DEF e
    <3>2. /\ e \div 2 \in Nat /\ (e = 2 * (e \div 2) \/ e = 2 * (e \div 2) + 1)
          /\ (e % 2 = 1 => e = 2 * (e \div 2) + 1) /\ (e % 2 # 1 => e = 2 * (e \div 2))
      BY <3>1
    <3> QED BY <3>2 DEF e
  <2>4. x.e < E[i - 1] /\ CmMul(x.r, Power(x.b, x.e)) = Power(base, exp) BY <1>5
  <2> HIDE DEF h, x
  <2>5. h < E[i] BY <1>4b, <2>1, <2>3, <2>4
  <2>6. Power(CmMul(x.b, x.b), h) = Power(x.b, 2 * h) BY <2>1, <2>3, PowerSquare
  <2>7. /\ st[i].e = h /\ st[i].b = CmMul(x.b, x.b)
        /\ (x.e % 2 = 1 => st[i].r = CmMul(x.r, x.b))
        /\ (x.e % 2 # 1 => st[i].r = x.r)
    BY <2>2 DEF CmPowStep, h
  <2>8. CmMul(st[i].r, Power(st[i].b, st[i].e)) = Power(base, exp)
    <3> DEFINE w == Power(x.b, 2 * h)
    <3>1. 2 * h \in Nat BY <2>3
    <3>2. w \in CM31 /\ Power(x.b, 2 * h + 1) = CmMul(w, x.b) BY <2>1, <3>1, PowerIs
    <3>3. Power(st[i].b, st[i].e) = w BY <2>6, <2>7
    <3>4. CASE x.e % 2 = 1
      <4>1. x.e = 2 * h + 1 /\ st[i].r = CmMul(x.r, x.b) BY <3>4, <2>3, <2>7
      <4>2. CmMul(x.r, CmMul(w, x.b)) = Power(base, exp) BY <4>1, <2>4, <3>2
      <4> HIDE DEF w
      <4>3. CmMul(CmMul(x.r, x.b), w) = CmMul(x.r, CmMul(w, x.b))
        <5>0. \A a, b \in CM31 : CmMul(CmMul(a, b), w) = CmMul(a, CmMul(b, w)) BY <3>2, ComplexRing
        <5>1. CmMul(CmMul(x.r, x.b), w) = CmMul(x.r, CmMul(x.b, w)) BY <2>1, <5>0
        <5>2. CmMul(x.b, w) = CmMul(w, x.b) BY <2>1, <3>2, ComplexRing
        <5> QED BY <5>1, <5>2
      <4> QED BY <3>3, <4>1, <4>2, <4>3
    <3>5. CASE x.e % 2 # 1
      <4>1. x.e = 2 * h /\ st[i].r = x.r BY <3>5, <2>3, <2>7
      <4> QED BY <2>4, <3>3, <4>1
    <3> QED BY <3>4, <3>5
  <2> QED BY <2>5, <2>7, <2>8
<1> HIDE DEF U
<1>6. n \in U BY <1>1, <1>4, <1>5, UpTo
<1>7. /\ st[n] \in PowState /\ st[n].e < E[n]
      /\ CmMul(st[n].r, Power(st[n].b, st[n].e)) = Power(base, exp)
  BY <1>1, <1>2, <1>6 DEF U
<1>8. st[n].e = 0 BY <1>4a, <1>7 DEF PowState
<1>9. st[n].r \in CM31 /\ st[n].b \in CM31 BY <1>7 DEF PowState
<1>10. st[n].r = Power(base, exp) BY <1>7, <1>8, <1>9, PowerIs, ComplexRing
<1> QED BY <1>10, CmPowIs DEF st, n

-----------------------------------------------------------------------------
\* The powers of two the domain's sizes are, and their sums.
LEMMA PowersOfTwo ==
  ASSUME NEW k \in 0 .. LOG_DOMAIN
  PROVE  2 ^ k \in Nat /\ 2 ^ k > 0 /\ 2 ^ (k + 1) = 2 * 2 ^ k /\ 2 ^ 0 = 1
BY DoublingAssumption

\* The states of n steps of bit reversal.
RevStates(n, q) ==
  LET st[i \in 0 .. n] ==
        IF i = 0 THEN [q |-> q, r |-> 0]
        ELSE [q |-> st[i - 1].q \div 2, r |-> st[i - 1].r * 2 + (st[i - 1].q % 2)]
  IN  st

\* A state of bit reversal, and its step.
RevState == [q : Nat, r : Nat]
RevStep(x) == [q |-> x.q \div 2, r |-> x.r * 2 + (x.q % 2)]

\* The states start at <<q, 0>>, and each moves the lowest bit of q to the end of r.
LEMMA RevStatesAre ==
  ASSUME NEW n \in Nat, NEW q \in Nat
  PROVE  /\ RevStates(n, q)[0] = [q |-> q, r |-> 0]
         /\ \A i \in 1 .. n :
              /\ RevStates(n, q)[i].q = RevStates(n, q)[i - 1].q \div 2
              /\ RevStates(n, q)[i].r
                   = RevStates(n, q)[i - 1].r * 2 + (RevStates(n, q)[i - 1].q % 2)
         /\ \A i \in 0 .. n : RevStates(n, q)[i] \in RevState
<1> DEFINE G == [x \in RevState |-> RevStep(x)]
           o == [q |-> q, r |-> 0]
           Is(f) == f = [i \in 0 .. n |->
                           IF i = 0 THEN [q |-> q, r |-> 0] ELSE RevStep(f[i - 1])]
           st == CHOOSE f : Is(f)
<1>1. o \in RevState BY DEF RevState
<1>2. ASSUME NEW x \in RevState PROVE RevStep(x) \in RevState
  <2>1. x.q \in Nat /\ x.r \in Nat BY DEF RevState
  <2>2. x.q \div 2 \in Nat /\ x.q % 2 \in Nat /\ x.r * 2 \in Nat BY <2>1
  <2>3. x.r * 2 + (x.q % 2) \in Nat BY <2>2
  <2> QED BY <2>2, <2>3 DEF RevState, RevStep
<1>3. G \in [RevState -> RevState] BY <1>2
<1>4. PICK f : IsIteration(f, n, RevState, o, G)
  <2> HIDE DEF G, o
  <2> QED BY <1>1, <1>3, Iteration
<1>5. Is(f)
  <2>1. \A i \in 1 .. n : i - 1 \in 0 .. n OBVIOUS
  <2>2. \A i \in 1 .. n : f[i] = RevStep(f[i - 1]) BY <1>4, <2>1 DEF IsIteration
  <2> QED BY <1>4, <2>2 DEF IsIteration
<1>6. Is(st) BY <1>5
<1>7. RevStates(n, q) = st BY DEF RevStates, RevStep
<1> DEFINE U == {i \in 0 .. n : st[i] \in RevState}
<1> HIDE DEF st
<1>8. 0 \in U BY <1>1, <1>6
<1>9. ASSUME NEW i \in 1 .. n, i - 1 \in U PROVE i \in U
  <2>1. st[i] = RevStep(st[i - 1]) BY <1>6
  <2>2. st[i - 1] \in RevState BY <1>9
  <2> QED BY <1>2, <2>1, <2>2
<1> HIDE DEF U
<1>10. \A i \in 0 .. n : i \in U BY <1>8, <1>9, UpTo
<1>11. st[0] = o /\ \A i \in 1 .. n : st[i] = RevStep(st[i - 1]) BY <1>6
<1>12. \A i \in 1 .. n :
         st[i].q = st[i - 1].q \div 2 /\ st[i].r = st[i - 1].r * 2 + (st[i - 1].q % 2)
  <2>1. \A x : RevStep(x).q = x.q \div 2 /\ RevStep(x).r = x.r * 2 + (x.q % 2) BY DEF RevStep
  <2> QED BY <1>11, <2>1
<1> QED BY <1>7, <1>10, <1>11, <1>12 DEF U

\* bit-rev, for the domain and for the trace's.
LEMMA BitRevIs ==
  ASSUME NEW q \in Nat
  PROVE  /\ BitRev(q) = RevStates(LOG_DOMAIN, q)[LOG_DOMAIN].r
         /\ BitRev(q) \in Nat
         /\ TraceDomain!BitRev(q) = RevStates(LOG_TRACE, q)[LOG_TRACE].r
         /\ TraceDomain!BitRev(q) \in Nat
<1>1. BitRev(q) = RevStates(LOG_DOMAIN, q)[LOG_DOMAIN].r BY Zenon DEF BitRev, RevStates
<1>2. TraceDomain!BitRev(q) = RevStates(LOG_TRACE, q)[LOG_TRACE].r
  BY Zenon DEF TraceDomain!BitRev, RevStates
<1>3. /\ LOG_DOMAIN \in Nat /\ LOG_DOMAIN \in 0 .. LOG_DOMAIN
      /\ LOG_TRACE \in Nat /\ LOG_TRACE \in 0 .. LOG_TRACE
  BY QueryAssumption, CairAssumption
<1>4. /\ RevStates(LOG_DOMAIN, q)[LOG_DOMAIN] \in RevState
      /\ RevStates(LOG_TRACE, q)[LOG_TRACE] \in RevState
  BY <1>3, RevStatesAre
<1> QED BY <1>1, <1>2, <1>4 DEF RevState

\* Every value of n bits is the reversal of one.
LEMMA RevSurjective ==
  ASSUME NEW n \in 0 .. LOG_DOMAIN, NEW r \in 0 .. (2 ^ n - 1)
  PROVE  \E q \in 0 .. (2 ^ n - 1) : RevStates(n, q)[n].r = r
<1> DEFINE Reached(i, b, s, q) ==
             \A h \in Nat : RevStates(n, q + h * b)[i].q = h /\ RevStates(n, q + h * b)[i].r = s
           U == {i \in 0 .. n : \A s \in 0 .. (2 ^ i - 1) :
                                  \E q \in 0 .. (2 ^ i - 1) : Reached(i, 2 ^ i, s, q)}
<1>0. n \in Nat /\ LOG_DOMAIN \in Nat BY QueryAssumption
<1>1. 0 \in U
  <2>1. 2 ^ 0 = 1 /\ 0 .. (1 - 1) = {0} BY DoublingAssumption
  <2>2. Reached(0, 1, 0, 0)
    <3> SUFFICES ASSUME NEW h \in Nat
                 PROVE  RevStates(n, 0 + h * 1)[0].q = h /\ RevStates(n, 0 + h * 1)[0].r = 0
      OBVIOUS
    <3>1. 0 + h * 1 = h OBVIOUS
    <3>2. RevStates(n, h)[0] = [q |-> h, r |-> 0] BY <1>0, RevStatesAre
    <3> QED BY <3>1, <3>2
  <2> HIDE DEF Reached
  <2> QED BY <1>0, <2>1, <2>2
<1>2. ASSUME NEW i \in 1 .. n, i - 1 \in U PROVE i \in U
  <2> DEFINE j == i - 1
             b == 2 ^ j
  <2>1. j \in 0 .. LOG_DOMAIN /\ i = j + 1 /\ i \in 0 .. n BY <1>0
  <2>2. \A s \in 0 .. (b - 1) : \E q \in 0 .. (b - 1) : Reached(j, b, s, q) BY <1>2
  <2> HIDE DEF j
  <2>3. b \in Nat /\ b > 0 /\ 2 ^ i = 2 * b BY <2>1, PowersOfTwo
  <2> HIDE DEF b
  <2>4. ASSUME NEW s \in 0 .. (2 * b - 1)
        PROVE  \E q \in 0 .. (2 * b - 1) : Reached(i, 2 * b, s, q)
    <3> DEFINE t == s \div 2
               c == s % 2
    <3>1. t \in 0 .. (b - 1) /\ c \in 0 .. 1 /\ s = t * 2 + c BY <2>3
    <3> HIDE DEF t, c
    <3>2. PICK p \in 0 .. (b - 1) : Reached(j, b, t, p) BY <2>2, <3>1
    <3> DEFINE q == p + c * b
    <3>3. q \in 0 .. (2 * b - 1)
      <4>1. c = 0 \/ c = 1 BY <3>1
      <4>2. CASE c = 0 BY <2>3, <4>2
      <4>3. CASE c = 1 BY <2>3, <4>3
      <4> QED BY <4>1, <4>2, <4>3
    <3>4. ASSUME NEW h \in Nat
          PROVE  /\ RevStates(n, q + h * (2 * b))[i].q = h
                 /\ RevStates(n, q + h * (2 * b))[i].r = s
      <4> DEFINE g == 2 * h + c
                 z == q + h * (2 * b)
      <4>1. g \in Nat /\ g \div 2 = h /\ g % 2 = c BY <3>1
      <4>2. z = p + g * b
        <5>1. p \in Int /\ b \in Int /\ c \in Int /\ h \in Int BY <2>3, <3>1
        <5> QED BY <5>1
      <4> HIDE DEF g
      <4>3. RevStates(n, p + g * b)[j].q = g /\ RevStates(n, p + g * b)[j].r = t BY <3>2, <4>1
      <4>4. z \in Nat
        <5>1. g * b \in Nat /\ p \in Nat BY <2>3, <4>1
        <5> HIDE DEF z
        <5> QED BY <4>2, <5>1
      <4> HIDE DEF z, q, Reached
      <4>5. RevStates(n, z)[j].q = g /\ RevStates(n, z)[j].r = t BY <4>2, <4>3
      <4>6. /\ RevStates(n, z)[i].q = RevStates(n, z)[i - 1].q \div 2
            /\ RevStates(n, z)[i].r = RevStates(n, z)[i - 1].r * 2 + (RevStates(n, z)[i - 1].q % 2)
        BY <1>0, <4>4, RevStatesAre
      <4>7. RevStates(n, z)[i - 1] = RevStates(n, z)[j] BY DEF j
      <4>8. RevStates(n, z)[i].q = g \div 2 /\ RevStates(n, z)[i].r = t * 2 + (g % 2)
        BY <4>5, <4>6, <4>7
      <4>9. RevStates(n, z)[i].q = h /\ RevStates(n, z)[i].r = s BY <3>1, <4>1, <4>8
      <4> QED BY <4>9, Zenon DEF z
    <3>5. Reached(i, 2 * b, s, q) BY <3>4
    <3> HIDE DEF q, Reached
    <3> QED BY <3>3, <3>5
  <2> HIDE DEF Reached
  <2> QED BY <2>1, <2>3, <2>4
<1> HIDE DEF U
<1>3. n \in U BY <1>0, <1>1, <1>2, UpTo
<1>4. PICK q \in 0 .. (2 ^ n - 1) : Reached(n, 2 ^ n, r, q) BY <1>3 DEF U
<1>5. q + 0 * 2 ^ n = q
  <2>1. 2 ^ n \in Nat BY PowersOfTwo
  <2>2. \A m \in Nat : 0 * m = 0 OBVIOUS
  <2>3. 0 * 2 ^ n = 0 BY <2>1, <2>2
  <2>4. q \in Int BY <2>1
  <2> QED BY <2>3, <2>4
<1>6. RevStates(n, q + 0 * 2 ^ n)[n].r = r
  <2>1. 0 \in Nat OBVIOUS
  <2> QED BY <1>4, <2>1, Zenon
<1> QED BY <1>5, <1>6

-----------------------------------------------------------------------------
\* PiX, n times.
PiTable(n, s) == LET x[k \in 0 .. n] == IF k = 0 THEN s ELSE PiX(x[k - 1]) IN x
PiTimes(n, s) == PiTable(n, s)[n]

\* PiX stays in the base field.
LEMMA PiClosed ==
  ASSUME NEW x \in M31
  PROVE  PiX(x) \in M31
<1>1. \A a, b \in M31 : M31Mul(a, b) \in M31 /\ M31Sub(a, b) \in M31 BY M31Bounds, M31Closed
<1>2. M31Mul(x, x) \in M31 BY <1>1
<1>3. M31Mul(2, M31Mul(x, x)) \in M31 BY <1>2, M31Bounds, M31Closed
<1> QED BY <1>1, <1>3, ZeroInM31 DEF PiX

\* The table starts at s and takes PiX at each step.
LEMMA PiTableIs ==
  ASSUME NEW n \in Nat, NEW s \in M31
  PROVE  /\ PiTable(n, s)[0] = s
         /\ \A i \in 1 .. n : PiTable(n, s)[i] = PiX(PiTable(n, s)[i - 1])
         /\ \A i \in 0 .. n : PiTable(n, s)[i] \in M31
<1> DEFINE G == [x \in M31 |-> PiX(x)]
           Is(f) == f = [k \in 0 .. n |-> IF k = 0 THEN s ELSE PiX(f[k - 1])]
           t == CHOOSE f : Is(f)
<1>2. G \in [M31 -> M31] BY PiClosed
<1>3. PICK f : IsIteration(f, n, M31, s, G)
  <2> HIDE DEF G
  <2> QED BY <1>2, Iteration
<1>4. Is(f)
  <2>1. \A i \in 1 .. n : i - 1 \in 0 .. n OBVIOUS
  <2>2. \A i \in 1 .. n : f[i] = PiX(f[i - 1]) BY <1>3, <2>1 DEF IsIteration
  <2> QED BY <1>3, <2>2 DEF IsIteration
<1>5. Is(t) BY <1>4
<1>6. PiTable(n, s) = t BY DEF PiTable
<1> DEFINE U == {i \in 0 .. n : t[i] \in M31}
<1> HIDE DEF t
<1>7. 0 \in U BY <1>5
<1>8. ASSUME NEW i \in 1 .. n, i - 1 \in U PROVE i \in U
  <2>1. t[i] = PiX(t[i - 1]) BY <1>5
  <2> QED BY <1>8, <2>1, PiClosed
<1> HIDE DEF U
<1>9. \A i \in 0 .. n : i \in U BY <1>7, <1>8, UpTo
<1>10. t[0] = s /\ \A i \in 1 .. n : t[i] = PiX(t[i - 1]) BY <1>5
<1> QED BY <1>6, <1>9, <1>10 DEF U

\* Whatever starts at s and takes PiX at each step is PiTimes.
LEMMA PiUnique ==
  ASSUME NEW n \in Nat, NEW s \in M31, NEW f, f[0] = s, \A i \in 1 .. n : f[i] = PiX(f[i - 1])
  PROVE  \A i \in 0 .. n : f[i] = PiTable(n, s)[i]
<1> DEFINE t == PiTable(n, s)
           U == {i \in 0 .. n : f[i] = t[i]}
<1>1. t[0] = s /\ \A i \in 1 .. n : t[i] = PiX(t[i - 1]) BY PiTableIs
<1> HIDE DEF t
<1>2. 0 \in U BY <1>1
<1>3. ASSUME NEW i \in 1 .. n, i - 1 \in U PROVE i \in U BY <1>1, <1>3
<1> HIDE DEF U
<1>4. \A i \in 0 .. n : i \in U BY <1>2, <1>3, UpTo
<1> QED BY <1>4 DEF U, t

\* PiTimes, zero times and once more.
LEMMA PiTimesIs ==
  ASSUME NEW n \in Nat, NEW s \in M31
  PROVE  /\ PiTimes(n, s) \in M31 /\ PiTimes(0, s) = s
         /\ PiTimes(n + 1, s) = PiX(PiTimes(n, s))
<1> DEFINE u == PiTable(n + 1, s)
<1>1. n + 1 \in Nat /\ n \in 0 .. n /\ n + 1 \in 1 .. (n + 1) /\ (n + 1) - 1 = n OBVIOUS
<1>2. u[0] = s /\ \A i \in 1 .. (n + 1) : u[i] = PiX(u[i - 1]) BY <1>1, PiTableIs
<1> HIDE DEF u
<1>3. \A i \in 1 .. n : u[i] = PiX(u[i - 1]) BY <1>2
<1>4. u[n] = PiTable(n, s)[n] BY <1>1, <1>2, <1>3, PiUnique
<1>5. u[n + 1] = PiX(u[n]) BY <1>1, <1>2
<1>6. PiTable(0, s)[0] = s BY PiTableIs
<1>7. PiTable(n, s)[n] \in M31 BY <1>1, PiTableIs
<1> QED BY <1>4, <1>5, <1>6, <1>7 DEF PiTimes, u

-----------------------------------------------------------------------------
\* Doubling n times is the power 2^n.
LEMMA DoubledIs ==
  ASSUME NEW pt \in CM31, NEW n \in 0 .. LOG_DOMAIN
  PROVE  Doubled(pt, n) \in CM31 /\ Doubled(pt, n) = Power(pt, 2 ^ n)
<1> DEFINE G == [x \in CM31 |-> CmMul(x, x)]
           Is(f) == f = [i \in 0 .. n |-> IF i = 0 THEN pt ELSE CmMul(f[i - 1], f[i - 1])]
           d == CHOOSE f : Is(f)
<1>0. n \in Nat BY QueryAssumption
<1>1. \A x \in CM31 : CmMul(x, x) \in CM31 BY ComplexRing
<1>2. G \in [CM31 -> CM31] BY <1>1
<1>3. PICK f : IsIteration(f, n, CM31, pt, G)
  <2> HIDE DEF G
  <2> QED BY <1>0, <1>2, Iteration
<1>4. Is(f)
  <2>1. \A i \in 1 .. n : i - 1 \in 0 .. n BY <1>0
  <2>2. \A i \in 1 .. n : f[i] = CmMul(f[i - 1], f[i - 1]) BY <1>3, <2>1 DEF IsIteration
  <2> QED BY <1>0, <1>3, <2>2 DEF IsIteration
<1>5. Is(d) BY <1>4
<1>6. Doubled(pt, n) = d[n] BY DEF Doubled
<1> DEFINE U == {i \in 0 .. n : d[i] \in CM31 /\ d[i] = Power(pt, 2 ^ i)}
<1> HIDE DEF d
<1>7. 0 \in U
  <2>1. d[0] = pt BY <1>0, <1>5
  <2>2. Power(pt, 1) = pt
    <3>1. Power(pt, 0 + 1) = CmMul(Unit, pt) BY PowerIs
    <3>2. 0 + 1 = 1 OBVIOUS
    <3>3. CmMul(Unit, pt) = pt BY ComplexRing
    <3> QED BY <3>1, <3>2, <3>3
  <2> QED BY <1>0, <2>1, <2>2, DoublingAssumption
<1>8. ASSUME NEW i \in 1 .. n, i - 1 \in U PROVE i \in U
  <2> DEFINE j == i - 1
  <2>1. j \in 0 .. LOG_DOMAIN /\ i = j + 1 BY <1>0, QueryAssumption
  <2>2. d[j] \in CM31 /\ d[j] = Power(pt, 2 ^ j) BY <1>8
  <2>3. d[i] = CmMul(d[j], d[j]) BY <1>0, <1>5
  <2> HIDE DEF j
  <2> DEFINE b == 2 ^ j
  <2>4. b \in Nat /\ 2 ^ i = 2 * b BY <2>1, PowersOfTwo
  <2>5. 2 * b = b + b BY <2>4
  <2> HIDE DEF b
  <2>6. Power(pt, b + b) = CmMul(Power(pt, b), Power(pt, b)) BY <2>4, PowerAdd
  <2>7. d[i] = Power(pt, 2 ^ i) BY <2>2, <2>3, <2>4, <2>5, <2>6 DEF b
  <2> QED BY <1>1, <2>2, <2>3, <2>7
<1> HIDE DEF U
<1>9. n \in U BY <1>0, <1>7, <1>8, UpTo
<1> QED BY <1>6, <1>9 DEF U

\* The two domains are generated by elements of the complex extension.
LEMMA DomainClosed ==
  /\ OFF \in CM31 /\ H \in CM31 /\ TraceOff \in CM31 /\ TraceH \in CM31
  /\ HALF \in Nat /\ TraceDomain!HALF \in Nat
<1>1. OFF \in CM31 /\ H \in CM31 BY CosetAssumption DEF CM31
<1>2. LOG_DOMAIN \in Nat \ {0} /\ LOG_TRACE \in Nat \ {0} /\ LOG_TRACE < LOG_DOMAIN
  BY QueryAssumption, CairAssumption, CosetAssumption
<1>3. LOG_BLOWUP \in 0 .. LOG_DOMAIN BY <1>2 DEF LOG_BLOWUP
<1>4. TraceOff \in CM31 /\ TraceH \in CM31 BY <1>1, <1>3, DoubledIs DEF TraceOff, TraceH
<1>5. LOG_DOMAIN - 1 \in 0 .. LOG_DOMAIN /\ LOG_TRACE - 1 \in 0 .. LOG_DOMAIN BY <1>2
<1>6. HALF \in Nat BY <1>5, PowersOfTwo DEF HALF
<1>7. TraceDomain!HALF \in Nat BY <1>5, PowersOfTwo DEF TraceDomain!HALF
<1> QED BY <1>1, <1>4, <1>6, <1>7

\* Conjugation stays in the extension, and is the same for both domains.
LEMMA ConjClosed ==
  ASSUME NEW z \in CM31
  PROVE  Conj(z) \in CM31 /\ TraceDomain!Conj(z) = Conj(z)
<1>1. M31Sub(0, z.im) \in M31 BY ZeroInM31, M31Bounds, M31Closed DEF CM31
<1>2. Conj(z) \in CM31 BY <1>1 DEF Conj, Cm, CM31
<1>3. TraceDomain!Conj(z) = Conj(z)
  BY DEF Conj, Cm, M31Sub, TraceDomain!Conj, TraceDomain!Cm, TraceDomain!M31Sub
<1> QED BY <1>2, <1>3

\* The points of the two domains are of the complex extension.
LEMMA QueryPointClosed ==
  ASSUME NEW q \in Nat
  PROVE  QueryPoint(q) \in CM31 /\ TraceDomain!QueryPoint(q) \in CM31
<1>1. \A x, y : TraceDomain!CmMul(x, y) = CmMul(x, y)
  BY DEF CmMul, Cm, M31Sub, M31Add, M31Mul, TraceDomain!CmMul, TraceDomain!Cm,
         TraceDomain!M31Sub, TraceDomain!M31Add, TraceDomain!M31Mul
<1>2. BitRev(q) \in Nat /\ TraceDomain!BitRev(q) \in Nat BY BitRevIs
<1>3. ASSUME NEW i \in Nat PROVE DomainPoint(i) \in CM31
  <2>1. i < HALF \/ i - HALF \in Nat BY DomainClosed
  <2>2. ASSUME NEW j \in Nat PROVE CmMul(OFF, CmPow(H, j)) \in CM31
    BY DomainClosed, CmPowIs, ComplexRing
  <2> QED BY <2>1, <2>2, ConjClosed DEF DomainPoint
<1>4. ASSUME NEW i \in Nat PROVE TraceDomain!DomainPoint(i) \in CM31
  <2>1. i < TraceDomain!HALF \/ i - TraceDomain!HALF \in Nat BY DomainClosed
  <2>2. ASSUME NEW j \in Nat
        PROVE  TraceDomain!CmMul(TraceOff, TraceDomain!CmPow(TraceH, j)) \in CM31
    BY <1>1, DomainClosed, CmPowIs, ComplexRing
  <2> QED BY <2>1, <2>2, ConjClosed DEF TraceDomain!DomainPoint
<1> QED BY <1>2, <1>3, <1>4 DEF QueryPoint, TraceDomain!QueryPoint

-----------------------------------------------------------------------------
\* A twiddle of a line layer is PiX, one time less than the layer, of an x of the domain.
LineTable(i, s) == LET x[n \in 1 .. i] == IF n = 1 THEN s ELSE PiX(x[n - 1]) IN x

\* The table that starts at 1 is the one that starts at 0, moved by one.
LEMMA LineTableIs ==
  ASSUME NEW i \in Nat \ {0}, NEW s \in M31
  PROVE  LineTable(i, s)[i] = PiTimes(i - 1, s)
<1> DEFINE t == PiTable(i - 1, s)
           Is(f) == f = [n \in 1 .. i |-> IF n = 1 THEN s ELSE PiX(f[n - 1])]
           x == CHOOSE f : Is(f)
           f == [n \in 1 .. i |-> t[n - 1]]
           g == [n \in 0 .. (i - 1) |-> x[n + 1]]
<1>1. i - 1 \in Nat OBVIOUS
<1>2. t[0] = s /\ \A n \in 1 .. (i - 1) : t[n] = PiX(t[n - 1]) BY <1>1, PiTableIs
<1> HIDE DEF t
<1>3. Is(f)
  <2>1. \A n \in 1 .. i : n = 1 => t[n - 1] = s BY <1>2
  <2>2. ASSUME NEW n \in 1 .. i, n # 1 PROVE t[n - 1] = PiX(f[n - 1])
    <3>1. n - 1 \in 1 .. (i - 1) /\ n - 1 \in 1 .. i BY <2>2
    <3>2. f[n - 1] = t[(n - 1) - 1] BY <3>1
    <3> QED BY <1>2, <3>1, <3>2
  <2> QED BY <2>1, <2>2
<1>4. Is(x) BY <1>3
<1>5. LineTable(i, s) = x BY DEF LineTable
<1> HIDE DEF x
<1>6. g[0] = s
  <2>1. 0 \in 0 .. (i - 1) /\ 1 \in 1 .. i /\ 0 + 1 = 1 OBVIOUS
  <2>2. x[1] = s BY <1>4, <2>1
  <2> QED BY <2>1, <2>2
<1>7. ASSUME NEW n \in 1 .. (i - 1) PROVE g[n] = PiX(g[n - 1])
  <2>1. n + 1 \in 1 .. i /\ n + 1 # 1 /\ (n + 1) - 1 = n /\ n \in 0 .. (i - 1)
        /\ n - 1 \in 0 .. (i - 1) /\ (n - 1) + 1 = n
    OBVIOUS
  <2>2. x[n + 1] = PiX(x[(n + 1) - 1]) BY <1>4, <2>1
  <2>3. g[n] = x[n + 1] /\ g[n - 1] = x[n] BY <2>1
  <2> QED BY <2>1, <2>2, <2>3
<1>8. i - 1 \in 0 .. (i - 1) /\ (i - 1) + 1 = i OBVIOUS
<1>9. g[i - 1] = x[i] BY <1>8
<1> HIDE DEF g
<1>10. g[i - 1] = PiTable(i - 1, s)[i - 1] BY <1>1, <1>6, <1>7, <1>8, PiUnique
<1> QED BY <1>5, <1>9, <1>10 DEF PiTimes

\* The twiddles of the circle layer are imaginary parts of points of the domain; those of a line
\* layer, PiX of real parts.
LEMMA PairTwiddleIs ==
  ASSUME NEW i \in 0 .. LOG_DOMAIN, NEW e \in Nat
  PROVE  /\ PairTwiddle(i, e) \in M31
         /\ i = 0 => PairTwiddle(i, e) = QueryPoint(e).im
         /\ i # 0 => PairTwiddle(i, e) = PiTimes(i - 1, QueryX(e * 2 ^ i))
         /\ TraceDomain!PairTwiddle(i, e) \in M31
<1> DEFINE q == e * 2 ^ i
<1>0. i \in Nat BY QueryAssumption
<1>1. q \in Nat
  <2> DEFINE b == 2 ^ i
  <2>1. b \in Nat BY PowersOfTwo
  <2> HIDE DEF b
  <2>2. e * b \in Nat BY <2>1
  <2> QED BY <2>2 DEF b
<1>2. /\ QueryPoint(q) \in CM31 /\ TraceDomain!QueryPoint(q) \in CM31
      /\ QueryPoint(e) \in CM31 /\ TraceDomain!QueryPoint(e) \in CM31
  BY <1>1, QueryPointClosed
<1>3. QueryX(q) \in M31 /\ TraceDomain!QueryX(q) \in M31
  BY <1>2 DEF QueryX, TraceDomain!QueryX, CM31
<1>4. QueryPoint(e).im \in M31 /\ TraceDomain!QueryPoint(e).im \in M31 BY <1>2 DEF CM31
<1>5. PairTwiddle(i, e) = IF i = 0 THEN QueryPoint(e).im ELSE LineTable(i, QueryX(q))[i]
  BY Zenon DEF PairTwiddle, LineTable
<1>6. TraceDomain!PairTwiddle(i, e) =
        IF i = 0 THEN TraceDomain!QueryPoint(e).im ELSE LineTable(i, TraceDomain!QueryX(q))[i]
  BY Zenon DEF TraceDomain!PairTwiddle, LineTable, PiX, M31Sub, M31Mul,
               TraceDomain!PiX, TraceDomain!M31Sub, TraceDomain!M31Mul
<1> HIDE DEF q
<1>7. ASSUME i # 0
      PROVE  /\ LineTable(i, QueryX(q))[i] = PiTimes(i - 1, QueryX(q))
             /\ PiTimes(i - 1, QueryX(q)) \in M31
             /\ LineTable(i, TraceDomain!QueryX(q))[i] \in M31
  <2>1. i \in Nat \ {0} /\ i - 1 \in Nat BY <1>0, <1>7
  <2>2. LineTable(i, QueryX(q))[i] = PiTimes(i - 1, QueryX(q)) BY <1>3, <2>1, LineTableIs
  <2>3. LineTable(i, TraceDomain!QueryX(q))[i] = PiTimes(i - 1, TraceDomain!QueryX(q))
    BY <1>3, <2>1, LineTableIs
  <2> QED BY <1>3, <2>1, <2>2, <2>3, PiTimesIs
<1> QED BY <1>4, <1>5, <1>6, <1>7 DEF q

\* The tables of twiddles are of the base field.
LEMMA TwiddlesClosed ==
  ASSUME NEW i \in Nat, NEW n \in Nat
  PROVE  /\ i < LOG_DOMAIN /\ n < 2 ^ (LOG_DOMAIN - 1 - i) => Twiddles[i][n] \in M31
         /\ i < LOG_TRACE /\ n < 2 ^ (LOG_TRACE - 1 - i) => TraceTwiddles[i][n] \in M31
<1>0. LOG_DOMAIN \in Nat /\ LOG_TRACE \in Nat /\ LOG_TRACE < LOG_DOMAIN
  BY QueryAssumption, CairAssumption, CosetAssumption
<1>1. ASSUME i < LOG_DOMAIN, n < 2 ^ (LOG_DOMAIN - 1 - i) PROVE Twiddles[i][n] \in M31
  <2> DEFINE k == LOG_DOMAIN - 1 - i
             m == 2 ^ k
  <2>1. /\ i \in 0 .. (LOG_DOMAIN - 1) /\ i \in 0 .. LOG_DOMAIN
        /\ k \in 0 .. LOG_DOMAIN /\ 2 * n \in Nat
    BY <1>0, <1>1
  <2>2. m \in Nat /\ n < m BY <1>1, <2>1, PowersOfTwo
  <2>3. Twiddles[i] = [p \in 0 .. (m - 1) |-> PairTwiddle(i, 2 * p)] BY <2>1 DEF Twiddles
  <2> HIDE DEF m
  <2>4. n \in 0 .. (m - 1) BY <2>2
  <2>5. Twiddles[i][n] = PairTwiddle(i, 2 * n) BY <2>3, <2>4
  <2> QED BY <2>1, <2>5, PairTwiddleIs
<1>2. ASSUME i < LOG_TRACE, n < 2 ^ (LOG_TRACE - 1 - i) PROVE TraceTwiddles[i][n] \in M31
  <2> DEFINE k == LOG_TRACE - 1 - i
             m == 2 ^ k
  <2>1. /\ i \in 0 .. (LOG_TRACE - 1) /\ i \in 0 .. LOG_DOMAIN
        /\ k \in 0 .. LOG_DOMAIN /\ 2 * n \in Nat
    BY <1>0, <1>2
  <2>2. m \in Nat /\ n < m BY <1>2, <2>1, PowersOfTwo
  <2>3. TraceTwiddles[i] = [p \in 0 .. (m - 1) |-> TraceDomain!PairTwiddle(i, 2 * p)]
    BY <2>1 DEF TraceTwiddles
  <2> HIDE DEF m
  <2>4. n \in 0 .. (m - 1) BY <2>2
  <2>5. TraceTwiddles[i][n] = TraceDomain!PairTwiddle(i, 2 * n) BY <2>3, <2>4
  <2> QED BY <2>1, <2>5, PairTwiddleIs
<1> QED BY <1>1, <1>2

-----------------------------------------------------------------------------
\* The factors an evaluation splits by: y, then x, then its images under Qpi.
AtOf(log, pt) ==
  LET at[i \in 0 .. log] == IF i = 0 THEN pt.y ELSE IF i = 1 THEN pt.x ELSE Qpi(at[i - 1])
  IN  at

\* One pair's value in the layer below.
Halved(prev, x, n, tw) ==
  LET a == prev[2 * n]
      b == prev[2 * n + 1]
      odd == Qm31MulM31(Qm31Sub(a, b), M31Inv(tw))
  IN  Qm31MulM31(Qm31Add(Qm31Add(a, b), Qm31Mul(x, odd)), M31Inv(2))

\* All layers of an evaluation.
EvalLayers(col, log, twiddles, pt, at) ==
  LET layer[i \in 0 .. log] ==
        IF i = 0 THEN col
        ELSE [n \in 0 .. (2 ^ (log - i) - 1) |->
                Halved(layer[i - 1], at[i - 1], n, twiddles[i - 1][n])]
  IN  layer

\* EvalAt is the last of its layers.
LEMMA EvalAtIs ==
  ASSUME NEW col, NEW log, NEW twiddles, NEW pt
  PROVE  EvalAt(col, log, twiddles, pt) = EvalLayers(col, log, twiddles, pt, AtOf(log, pt))[log][0]
BY Zenon DEF EvalAt, EvalLayers, Halved, AtOf

\* Qpi stays in the secure field.
LEMMA QpiClosed ==
  ASSUME NEW v \in QM31
  PROVE  Qpi(v) \in QM31
<1>1. Qm31Mul(v, v) \in QM31 /\ ONE \in QM31 BY Qm31Closed, OneIsOne DEF ONE
<1>2. Qm31Add(Qm31Mul(v, v), Qm31Mul(v, v)) \in QM31 BY <1>1, Qm31Closed
<1> QED BY <1>1, <1>2, Qm31Closed DEF Qpi

\* The factors of an evaluation are of the secure field.
LEMMA AtOfClosed ==
  ASSUME NEW log \in Nat, NEW pt \in SecurePoints
  PROVE  /\ \A i \in 0 .. log : AtOf(log, pt)[i] \in QM31
         /\ AtOf(log, pt)[0] = pt.y
         /\ \A i \in 1 .. log :
              AtOf(log, pt)[i] = IF i = 1 THEN pt.x ELSE Qpi(AtOf(log, pt)[i - 1])
<1> DEFINE S == [i \in 0 .. log |-> QM31]
           F == [i \in 1 .. log |-> [v \in QM31 |-> IF i = 1 THEN pt.x ELSE Qpi(v)]]
           Is(f) == f = [i \in 0 .. log |->
                           IF i = 0 THEN pt.y ELSE IF i = 1 THEN pt.x ELSE Qpi(f[i - 1])]
           t == CHOOSE f : Is(f)
<1>1. pt.x \in QM31 /\ pt.y \in QM31 BY DEF SecurePoints
<1>2. \A v \in QM31 : Qpi(v) \in QM31 BY QpiClosed
<1>3. pt.y \in S[0] /\ Steps(log, F, S) BY <1>1, <1>2 DEF Steps
<1>4. PICK f : IsRecursion(f, log, pt.y, F) /\ Valued(f, log, S)
  <2> DEFINE y == pt.y
  <2>1. y \in S[0] BY <1>3
  <2> HIDE DEF S, F, y
  <2>2. \E f : IsRecursion(f, log, y, F) /\ Valued(f, log, S) BY <1>3, <2>1, Recursion
  <2> QED BY <2>2 DEF y
<1>5. Is(f)
  <2>1. \A i \in 0 .. log : f[i] \in QM31 BY <1>4 DEF Valued
  <2>2. \A i \in 0 .. log : f[i] = IF i = 0 THEN pt.y ELSE F[i][f[i - 1]] BY <1>4 DEF IsRecursion
  <2>3. \A i \in 1 .. log : F[i][f[i - 1]] = IF i = 1 THEN pt.x ELSE Qpi(f[i - 1]) BY <2>1
  <2>4. \A i \in 0 .. log :
          f[i] = IF i = 0 THEN pt.y ELSE IF i = 1 THEN pt.x ELSE Qpi(f[i - 1])
    <3> HIDE DEF F
    <3> QED BY <2>2, <2>3
  <2>5. f = [i \in 0 .. log |-> f[i]] BY <1>4 DEF IsRecursion
  <2> QED BY <2>4, <2>5
<1>6. Is(t) BY <1>5
<1>7. AtOf(log, pt) = t BY DEF AtOf
<1> DEFINE U == {i \in 0 .. log : t[i] \in QM31}
<1> HIDE DEF t
<1>8. 0 \in U BY <1>1, <1>6
<1>9. ASSUME NEW i \in 1 .. log, i - 1 \in U PROVE i \in U
  <2>1. t[i] = IF i = 1 THEN pt.x ELSE Qpi(t[i - 1]) BY <1>6
  <2> QED BY <1>1, <1>2, <1>9, <2>1
<1> HIDE DEF U
<1>10. \A i \in 0 .. log : i \in U BY <1>8, <1>9, UpTo
<1>11. t[0] = pt.y /\ \A i \in 1 .. log : t[i] = IF i = 1 THEN pt.x ELSE Qpi(t[i - 1])
  BY <1>6
<1> QED BY <1>7, <1>10, <1>11 DEF U

\* A pair of the secure field has its value in the layer below there.
LEMMA HalvedClosed ==
  ASSUME NEW m \in Nat, NEW prev \in [0 .. (2 * m - 1) -> QM31], NEW x \in QM31,
         NEW n \in 0 .. (m - 1), NEW tw \in M31
  PROVE  Halved(prev, x, n, tw) \in QM31
<1> DEFINE a == prev[2 * n]
           b == prev[2 * n + 1]
           odd == Qm31MulM31(Qm31Sub(a, b), M31Inv(tw))
<1>1. 2 * n \in 0 .. (2 * m - 1) /\ 2 * n + 1 \in 0 .. (2 * m - 1) OBVIOUS
<1>2. a \in QM31 /\ b \in QM31 BY <1>1
<1>3. M31Inv(tw) \in M31 /\ M31Inv(2) \in M31
  <2>1. 2 \in M31 BY FieldAssumption DEF M31
  <2> QED BY <2>1, InverseClosed
<1>4. \A v \in QM31, s \in M31 : Qm31MulM31(v, s) \in QM31 BY ScalarIsMul, Qm31Closed
<1> HIDE DEF a, b
<1>5. Qm31Sub(a, b) \in QM31 /\ Qm31Add(a, b) \in QM31 BY <1>2, Qm31Closed
<1>6. odd \in QM31 BY <1>3, <1>4, <1>5
<1> HIDE DEF odd
<1>7. Qm31Add(Qm31Add(a, b), Qm31Mul(x, odd)) \in QM31 BY <1>5, <1>6, Qm31Closed
<1>8. Qm31MulM31(Qm31Add(Qm31Add(a, b), Qm31Mul(x, odd)), M31Inv(2)) \in QM31
  BY <1>3, <1>4, <1>7
<1> QED BY <1>8 DEF Halved, a, b, odd

\* Twiddles enough for the layers of a column of 2^log values.
TwiddlesFor(twiddles, log) ==
  \A i \in 0 .. (log - 1) : \A n \in 0 .. (2 ^ (log - 1 - i) - 1) : twiddles[i][n] \in M31

\* What is evaluated, layer by layer: each is half as long, and of the secure field.
LEMMA LayersAre ==
  ASSUME NEW log \in 0 .. LOG_DOMAIN, NEW col \in [0 .. (2 ^ log - 1) -> QM31], NEW twiddles,
         TwiddlesFor(twiddles, log), NEW pt \in SecurePoints
  PROVE  LET t == EvalLayers(col, log, twiddles, pt, AtOf(log, pt))
         IN  /\ t[0] = col
             /\ \A i \in 1 .. log : \A n \in 0 .. (2 ^ (log - i) - 1) :
                  t[i][n] = Halved(t[i - 1], AtOf(log, pt)[i - 1], n, twiddles[i - 1][n])
             /\ \A i \in 0 .. log : t[i] \in [0 .. (2 ^ (log - i) - 1) -> QM31]
<1> DEFINE at == AtOf(log, pt)
           E == [i \in 0 .. log |-> 2 ^ (log - i)]
           S == [i \in 0 .. log |-> [0 .. (E[i] - 1) -> QM31]]
           Next1(i, prev) == [n \in 0 .. (2 ^ (log - i) - 1) |->
                                Halved(prev, at[i - 1], n, twiddles[i - 1][n])]
           F == [i \in 1 .. log |-> [prev \in S[i - 1] |-> Next1(i, prev)]]
           Is(f) == f = [i \in 0 .. log |-> IF i = 0 THEN col ELSE
                           [n \in 0 .. (2 ^ (log - i) - 1) |->
                              Halved(f[i - 1], at[i - 1], n, twiddles[i - 1][n])]]
           t == CHOOSE f : Is(f)
<1>1. log \in Nat /\ LOG_DOMAIN \in Nat BY QueryAssumption
<1>2. ASSUME NEW i \in 1 .. log
      PROVE  E[i] \in Nat /\ E[i - 1] = 2 * E[i] /\ E[i] = 2 ^ (log - i)
             /\ \A n \in 0 .. (E[i] - 1) : twiddles[i - 1][n] \in M31
  <2> DEFINE k == log - i
  <2>1. k \in 0 .. LOG_DOMAIN /\ log - (i - 1) = k + 1 /\ i - 1 \in 0 .. log /\ i \in 0 .. log
        /\ i - 1 \in 0 .. (log - 1) /\ log - 1 - (i - 1) = k
    BY <1>1
  <2>2. E[i - 1] = 2 ^ (log - (i - 1)) BY <2>1
  <2>3. E[i] = 2 ^ k BY <2>1
  <2>4. \A n \in 0 .. (2 ^ (log - 1 - (i - 1)) - 1) : twiddles[i - 1][n] \in M31
    BY <2>1 DEF TwiddlesFor
  <2> HIDE DEF k, E
  <2>5. E[i - 1] = 2 ^ (k + 1) BY <2>1, <2>2, Zenon
  <2>6. \A n \in 0 .. (2 ^ k - 1) : twiddles[i - 1][n] \in M31 BY <2>1, <2>4, Zenon
  <2>7. 2 ^ (k + 1) = 2 * 2 ^ k /\ 2 ^ k \in Nat BY <2>1, PowersOfTwo
  <2> QED BY <2>3, <2>5, <2>6, <2>7 DEF k
<1>3. E[0] = 2 ^ log
  <2>1. log - 0 = log /\ 0 \in 0 .. log BY <1>1
  <2>2. E[0] = 2 ^ (log - 0) BY <2>1
  <2> QED BY <2>1, <2>2, Zenon
<1>4. E[log] = 1
  <2>1. log - log = 0 /\ log \in 0 .. log BY <1>1
  <2>2. E[log] = 2 ^ (log - log) BY <2>1
  <2>3. E[log] = 2 ^ 0 BY <2>1, <2>2, Zenon
  <2> QED BY <2>3, DoublingAssumption
<1>5. \A i \in 0 .. log : at[i] \in QM31 BY <1>1, AtOfClosed
<1> HIDE DEF at, E
<1>6. ASSUME NEW i \in 1 .. log, NEW prev \in S[i - 1]
      PROVE  Next1(i, prev) \in S[i]
  <2> DEFINE m == E[i]
  <2>1. i - 1 \in 0 .. log /\ i \in 0 .. log BY <1>1
  <2>2. m \in Nat /\ prev \in [0 .. (2 * m - 1) -> QM31] /\ at[i - 1] \in QM31
    BY <1>2, <1>5, <2>1
  <2>3. \A n \in 0 .. (m - 1) : twiddles[i - 1][n] \in M31 BY <1>2
  <2>4. Next1(i, prev) = [n \in 0 .. (m - 1) |-> Halved(prev, at[i - 1], n, twiddles[i - 1][n])]
    BY <1>2
  <2>5. S[i] = [0 .. (m - 1) -> QM31] BY <2>1
  <2> HIDE DEF m, Next1, S
  <2>6. \A n \in 0 .. (m - 1) : Halved(prev, at[i - 1], n, twiddles[i - 1][n]) \in QM31
    BY <2>2, <2>3, HalvedClosed
  <2> QED BY <2>4, <2>5, <2>6
<1> HIDE DEF Next1
<1>7. col \in S[0] BY <1>1, <1>3
<1>8. PICK f : IsRecursion(f, log, col, F) /\ Valued(f, log, S)
  <2>1. Steps(log, F, S) BY <1>6 DEF Steps
  <2> HIDE DEF S, F
  <2> QED BY <1>1, <1>7, <2>1, Recursion
<1>9. Is(f)
  <2>1. \A i \in 0 .. log : f[i] \in S[i] BY <1>8 DEF Valued
  <2>2. \A i \in 0 .. log : f[i] = IF i = 0 THEN col ELSE F[i][f[i - 1]] BY <1>8 DEF IsRecursion
  <2>3. \A i \in 1 .. log : F[i][f[i - 1]] = Next1(i, f[i - 1])
    <3> HIDE DEF S
    <3> QED BY <1>1, <2>1
  <2>4. \A i \in 0 .. log : f[i] = IF i = 0 THEN col ELSE Next1(i, f[i - 1])
    <3> HIDE DEF F
    <3> QED BY <1>1, <2>2, <2>3
  <2>5. f = [i \in 0 .. log |-> f[i]] BY <1>8 DEF IsRecursion
  <2>6. f = [i \in 0 .. log |-> IF i = 0 THEN col ELSE Next1(i, f[i - 1])] BY <2>4, <2>5
  <2> QED BY <2>6 DEF Next1
<1>10. Is(t) BY <1>9
<1>11. EvalLayers(col, log, twiddles, pt, at) = t BY DEF EvalLayers
<1> DEFINE U == {i \in 0 .. log : t[i] \in S[i]}
<1> HIDE DEF t, S
<1>12. t[0] = col BY <1>1, <1>10
<1>13. \A i \in 1 .. log : t[i] = Next1(i, t[i - 1])
  <2>1. t = [i \in 0 .. log |-> IF i = 0 THEN col ELSE Next1(i, t[i - 1])] BY <1>10 DEF Next1
  <2> QED BY <1>1, <2>1
<1>14. 0 \in U BY <1>1, <1>7, <1>12
<1>15. ASSUME NEW i \in 1 .. log, i - 1 \in U PROVE i \in U BY <1>1, <1>6, <1>13, <1>15
<1> HIDE DEF U
<1>16. \A i \in 0 .. log : t[i] \in S[i] BY <1>1, <1>14, <1>15, UpTo DEF U
<1>17. \A i \in 0 .. log : t[i] \in [0 .. (2 ^ (log - i) - 1) -> QM31]
  <2>1. \A i \in 0 .. log : S[i] = [0 .. (2 ^ (log - i) - 1) -> QM31] BY DEF S, E
  <2> QED BY <1>16, <2>1
<1>18. ASSUME NEW i \in 1 .. log, NEW n \in 0 .. (2 ^ (log - i) - 1)
       PROVE  t[i][n] = Halved(t[i - 1], at[i - 1], n, twiddles[i - 1][n])
  BY <1>13, <1>18 DEF Next1
<1> QED BY <1>11, <1>12, <1>17, <1>18 DEF at

\* A column of the secure field has its values there, wherever it is evaluated.
LEMMA EvalAtClosed ==
  ASSUME NEW log \in 0 .. LOG_DOMAIN, NEW col \in [0 .. (2 ^ log - 1) -> QM31], NEW twiddles,
         TwiddlesFor(twiddles, log), NEW pt \in SecurePoints
  PROVE  EvalAt(col, log, twiddles, pt) \in QM31
<1> DEFINE t == EvalLayers(col, log, twiddles, pt, AtOf(log, pt))
<1>1. \A i \in 0 .. log : t[i] \in [0 .. (2 ^ (log - i) - 1) -> QM31] BY LayersAre
<1> HIDE DEF t
<1>2. log \in 0 .. log /\ log - log = 0 BY QueryAssumption
<1>3. 2 ^ (log - log) = 2 ^ 0 BY <1>2, Zenon
<1>4. 2 ^ (log - log) - 1 = 0 BY <1>3, DoublingAssumption
<1>5. t[log] \in [0 .. 0 -> QM31] BY <1>1, <1>2, <1>4
<1>6. t[log][0] \in QM31 BY <1>5
<1> QED BY <1>6, EvalAtIs DEF t

-----------------------------------------------------------------------------
\* The sizes of the domain and of the trace: both powers of two, the trace an even number of rows.
LEMMA SizesAre ==
  /\ LOG_DOMAIN \in 0 .. LOG_DOMAIN /\ LOG_TRACE \in 0 .. LOG_DOMAIN
  /\ LOG_DOMAIN \in Nat \ {0} /\ LOG_TRACE \in Nat \ {0}
  /\ 2 ^ LOG_TRACE \in Nat /\ 2 ^ LOG_TRACE > 0
  /\ Positions = 0 .. (2 ^ LOG_DOMAIN - 1) /\ Positions \subseteq Nat
  /\ \E h \in Nat : h > 0 /\ 2 ^ LOG_TRACE = 2 * h
<1>1. LOG_DOMAIN \in Nat \ {0} /\ LOG_TRACE \in Nat \ {0} /\ LOG_TRACE < LOG_DOMAIN
  BY QueryAssumption, CairAssumption, CosetAssumption
<1>2. LOG_DOMAIN \in 0 .. LOG_DOMAIN /\ LOG_TRACE \in 0 .. LOG_DOMAIN BY <1>1
<1>3. 2 ^ LOG_TRACE \in Nat /\ 2 ^ LOG_TRACE > 0 /\ 2 ^ LOG_DOMAIN \in Nat BY <1>2, PowersOfTwo
<1>4. 2 ^ LOG_DOMAIN = 2 * 2 ^ (LOG_DOMAIN - 1)
  <2> DEFINE k == LOG_DOMAIN - 1
  <2>1. k \in 0 .. LOG_DOMAIN /\ k + 1 = LOG_DOMAIN BY <1>1
  <2> HIDE DEF k
  <2>2. 2 ^ (k + 1) = 2 * 2 ^ k BY <2>1, PowersOfTwo
  <2> QED BY <2>1, <2>2, Zenon DEF k
<1>5. \E h \in Nat : h > 0 /\ 2 ^ LOG_TRACE = 2 * h
  <2> DEFINE k == LOG_TRACE - 1
  <2>1. k \in 0 .. LOG_DOMAIN /\ k + 1 = LOG_TRACE BY <1>1
  <2> HIDE DEF k
  <2>2. 2 ^ k \in Nat /\ 2 ^ k > 0 /\ 2 ^ (k + 1) = 2 * 2 ^ k BY <2>1, PowersOfTwo
  <2>3. 2 ^ LOG_TRACE = 2 * 2 ^ k BY <2>1, <2>2, Zenon
  <2> QED BY <2>2, <2>3
<1>6. Positions = 0 .. (2 ^ LOG_DOMAIN - 1) BY <1>4, Zenon DEF Positions, DOMAIN_SIZE, HALF
<1>7. Positions \subseteq Nat BY <1>3, <1>6
<1> QED BY <1>1, <1>2, <1>3, <1>5, <1>6, <1>7

\* The twiddles of the two domains are enough for columns over them.
LEMMA TwiddlesFit ==
  TwiddlesFor(Twiddles, LOG_DOMAIN) /\ TwiddlesFor(TraceTwiddles, LOG_TRACE)
<1>1. ASSUME NEW i \in 0 .. (LOG_DOMAIN - 1), NEW n \in 0 .. (2 ^ (LOG_DOMAIN - 1 - i) - 1)
      PROVE  Twiddles[i][n] \in M31
  <2> DEFINE k == LOG_DOMAIN - 1 - i
             m == 2 ^ k
  <2>1. k \in 0 .. LOG_DOMAIN /\ i \in Nat /\ i < LOG_DOMAIN BY SizesAre
  <2>2. m \in Nat BY <2>1, PowersOfTwo
  <2>3. n \in 0 .. (m - 1) OBVIOUS
  <2> HIDE DEF m
  <2>4. n \in Nat /\ n < m BY <2>2, <2>3
  <2> QED BY <2>1, <2>4, TwiddlesClosed DEF m
<1>2. ASSUME NEW i \in 0 .. (LOG_TRACE - 1), NEW n \in 0 .. (2 ^ (LOG_TRACE - 1 - i) - 1)
      PROVE  TraceTwiddles[i][n] \in M31
  <2> DEFINE k == LOG_TRACE - 1 - i
             m == 2 ^ k
  <2>1. k \in 0 .. LOG_DOMAIN /\ i \in Nat /\ i < LOG_TRACE BY SizesAre
  <2>2. m \in Nat BY <2>1, PowersOfTwo
  <2>3. n \in 0 .. (m - 1) OBVIOUS
  <2> HIDE DEF m
  <2>4. n \in Nat /\ n < m BY <2>2, <2>3
  <2> QED BY <2>1, <2>4, TwiddlesClosed DEF m
<1> QED BY <1>1, <1>2 DEF TwiddlesFor

\* Every position of the trace's domain holds a row.
LEMMA RowsFillDomain ==
  ASSUME NEW p \in Rows
  PROVE  \E n \in Rows : TraceDomain!BitRev(RowIndex(n)) = p
<1>1. PICK h \in Nat : h > 0 /\ 2 ^ LOG_TRACE = 2 * h BY SizesAre
<1>2. PICK q \in 0 .. (2 ^ LOG_TRACE - 1) : RevStates(LOG_TRACE, q)[LOG_TRACE].r = p
  BY SizesAre, RevSurjective DEF Rows
<1>3. q \in 0 .. (2 * h - 1) /\ q \in Nat BY <1>1, <1>2
<1>4. TraceDomain!BitRev(q) = p BY <1>2, <1>3, BitRevIs
<1>5. \E n \in 0 .. (2 * h - 1) : RowIndex(n) = q
  <2>1. CASE q < h
    <3>1. 2 * q \in 0 .. (2 * h - 1) /\ (2 * q) % 2 = 0 /\ (2 * q) \div 2 = q BY <1>1, <1>3, <2>1
    <3>2. RowIndex(2 * q) = q BY <3>1 DEF RowIndex
    <3> QED BY <3>1, <3>2
  <2>2. CASE q >= h
    <3> DEFINE n == 2 * (2 * h - q) - 1
    <3>1. /\ n \in 0 .. (2 * h - 1) /\ n = 2 * (2 * h - q - 1) + 1 /\ n + 1 = 2 * (2 * h - q)
          /\ 2 * h - q - 1 \in Int /\ 2 * h - q \in Int
      BY <1>1, <1>3, <2>2
    <3>2. n % 2 = 1
      <4> DEFINE k == 2 * h - q - 1
      <4>1. k \in Int /\ n = 2 * k + 1 BY <3>1
      <4> HIDE DEF k, n
      <4> QED BY <4>1
    <3>3. (n + 1) \div 2 = 2 * h - q
      <4> DEFINE k == 2 * h - q
      <4>1. k \in Int /\ n + 1 = 2 * k BY <3>1
      <4> HIDE DEF k, n
      <4>2. (n + 1) \div 2 = k BY <4>1
      <4> QED BY <4>2 DEF k
    <3>4. RowIndex(n) = 2 ^ LOG_TRACE - (n + 1) \div 2
      <4> HIDE DEF n
      <4> QED BY <3>2 DEF RowIndex
    <3>5. 2 * h - (2 * h - q) = q BY <1>1, <1>3
    <3>6. RowIndex(n) = q
      <4> HIDE DEF n
      <4> QED BY <1>1, <3>3, <3>4, <3>5
    <3> QED BY <3>1, <3>6
  <2> QED BY <1>3, <2>1, <2>2
<1>6. Rows = 0 .. (2 * h - 1) BY <1>1 DEF Rows
<1> QED BY <1>4, <1>5, <1>6

\* An element of the base field is one of the secure field.
LEMMA ScalarClosed == \A s \in M31 : Qm31FromM31(s) \in QM31
BY ZeroInM31 DEF Qm31FromM31, QM31

\* What the interpolated trace evaluates to is of the secure field.
LEMMA EvalTraceClosed ==
  ASSUME NEW t \in [Rows -> M31], NEW r \in Nat, NEW pt \in SecurePoints
  PROVE  EvalTrace(t, r, pt) \in QM31
<1> DEFINE col == Interpolated(t, r)
           held(p) == CHOOSE n \in Rows : TraceDomain!BitRev(RowIndex(n)) = p
<1>1. ASSUME NEW p \in Rows PROVE Qm31FromM31(t[(held(p) + r) % 2 ^ LOG_TRACE]) \in QM31
  <2>1. held(p) \in Rows BY RowsFillDomain
  <2> DEFINE m == held(p)
             N == 2 ^ LOG_TRACE
  <2>2. N \in Nat /\ N > 0 /\ Rows = 0 .. (N - 1) BY SizesAre DEF Rows
  <2> HIDE DEF m, N
  <2>3. m \in Nat /\ m + r \in Nat BY <2>1, <2>2 DEF m
  <2>4. (m + r) % N \in 0 .. (N - 1) BY <2>2, <2>3
  <2>5. t[(m + r) % N] \in M31 BY <2>2, <2>4
  <2>6. Qm31FromM31(t[(m + r) % N]) \in QM31 BY <2>5, ScalarClosed
  <2> QED BY <2>6 DEF m, N
<1>2. col = [p \in Rows |-> Qm31FromM31(t[(held(p) + r) % 2 ^ LOG_TRACE])] BY DEF Interpolated
<1> HIDE DEF held
<1>3. col \in [Rows -> QM31] BY <1>1, <1>2
<1> HIDE DEF col
<1>4. EvalAt(col, LOG_TRACE, TraceTwiddles, pt) \in QM31
  BY <1>3, SizesAre, TwiddlesFit, EvalAtClosed DEF Rows
<1> QED BY <1>4 DEF EvalTrace, col

\* The domain's points, in the complex extension and in the secure field.
LEMMA PointsClosed ==
  ASSUME NEW q \in Positions
  PROVE  Points[q] \in CM31 /\ IntoEf(Points[q]) \in SecurePoints
<1>1. q \in Nat BY SizesAre
<1>2. Points[q] \in CM31 BY <1>1, QueryPointClosed DEF Points
<1> DEFINE p == Points[q]
<1> HIDE DEF p
<1>3. p \in CM31 BY <1>2 DEF p
<1>4. p.re \in M31 /\ p.im \in M31 BY <1>3 DEF CM31
<1>5. IntoEf(p) \in SecurePoints BY <1>4, ScalarClosed DEF IntoEf, SecurePoints
<1> QED BY <1>3, <1>5 DEF p

\* A trace has its extension in the secure field.
LEMMA TraceColumnClosed ==
  ASSUME NEW t \in [Rows -> M31], NEW r \in Nat
  PROVE  TraceColumn(t, r) \in [Positions -> QM31]
BY PointsClosed, EvalTraceClosed DEF TraceColumn

\* The trace domain's vanishing polynomial has values in the base field.
LEMMA VanishClosed ==
  ASSUME NEW x \in M31
  PROVE  Vanish(x) \in M31
<1>1. Vanish(x) = PiTimes(LOG_TRACE - 1, x) BY Zenon DEF Vanish, PiTimes, PiTable
<1>2. LOG_TRACE - 1 \in Nat BY SizesAre
<1> QED BY <1>1, <1>2, PiTimesIs

\* A composition column is one of the secure field, zero denominators or not.
LEMMA CompColumnClosed ==
  ASSUME NEW t \in [Rows -> M31], NEW a \in QM31
  PROVE  CompColumn(t, a) \in [Positions -> QM31]
<1> DEFINE t0 == TraceColumn(t, 0)
           t1 == TraceColumn(t, 1)
           t2 == TraceColumn(t, 2)
           qt(q) == Qm31MulM31(EvalTransition(t0[q], t1[q], t2[q]),
                               M31Mul(LineM(SEL, Points[q]), M31Inv(Vanish(Points[q].re))))
           qb(q) == Qm31MulM31(Qm31Sub(t0[q], ONE), M31Inv(LineM(B01, Points[q])))
           at(q) == Qm31Add(qt(q), Qm31Mul(a, qb(q)))
<1>1. CompColumn(t, a) = [q \in Positions |-> at(q)] BY DEF CompColumn
<1>2. t0 \in [Positions -> QM31] /\ t1 \in [Positions -> QM31] /\ t2 \in [Positions -> QM31]
  BY TraceColumnClosed
<1> HIDE DEF t0, t1, t2
<1>3. /\ \A u, v \in M31 : M31Add(u, v) \in M31 /\ M31Mul(u, v) \in M31
      /\ \A v \in QM31, s \in M31 : Qm31MulM31(v, s) \in QM31
  BY M31Bounds, M31Closed, ScalarIsMul, Qm31Closed
<1>4. ASSUME NEW q \in Positions PROVE at(q) \in QM31
  <2> DEFINE p == Points[q]
  <2>1. p.re \in M31 /\ p.im \in M31 BY PointsClosed DEF CM31
  <2> HIDE DEF p
  <2>2. ASSUME NEW l \in [A : M31, B : M31, C : M31] PROVE LineM(l, p) \in M31
    <3>1. l.A \in M31 /\ l.B \in M31 /\ l.C \in M31 OBVIOUS
    <3>2. M31Mul(p.re, l.A) \in M31 /\ M31Mul(p.im, l.B) \in M31 BY <1>3, <2>1, <3>1
    <3>3. M31Add(M31Mul(p.re, l.A), M31Mul(p.im, l.B)) \in M31 BY <1>3, <3>2
    <3> QED BY <1>3, <3>1, <3>3 DEF LineM
  <2>3. LineM(SEL, p) \in M31 /\ LineM(B01, p) \in M31 BY <2>2, InputsAssumption
  <2>4. M31Inv(Vanish(p.re)) \in M31 /\ M31Inv(LineM(B01, p)) \in M31
    BY <2>1, <2>3, VanishClosed, InverseClosed
  <2>5. M31Mul(LineM(SEL, p), M31Inv(Vanish(p.re))) \in M31 BY <1>3, <2>3, <2>4
  <2>6. t0[q] \in QM31 /\ t1[q] \in QM31 /\ t2[q] \in QM31 /\ ONE \in QM31
    BY <1>2, OneIsOne DEF ONE
  <2>7. EvalTransition(t0[q], t1[q], t2[q]) \in QM31 /\ Qm31Sub(t0[q], ONE) \in QM31
    BY <2>6, Qm31Closed DEF EvalTransition
  <2>8. qt(q) \in QM31 BY <1>3, <2>5, <2>7 DEF p
  <2>9. qb(q) \in QM31 BY <1>3, <2>4, <2>7 DEF p
  <2> HIDE DEF qt, qb
  <2>10. Qm31Mul(a, qb(q)) \in QM31 BY <2>9, Qm31Closed
  <2> QED BY <2>8, <2>10, Qm31Closed
<1> HIDE DEF at
<1> QED BY <1>1, <1>4

\* The seven openings are of the secure field.
LEMMA OpeningsClosed ==
  ASSUME NEW t \in [Rows -> M31], NEW c \in [Positions -> QM31], NEW pt \in SecurePoints
  PROVE  Openings(t, c, pt) \in [1 .. 7 -> QM31]
<1> DEFINE z1 == PointAddBase(pt, TraceStep)
           z2 == PointAddBase(z1, TraceStep)
           coords(v) == <<v.c0, v.c1, v.c2, v.c3>>
           limb(i) ==
             EvalAt([q \in Positions |-> Qm31FromM31(coords(c[q])[i])], LOG_DOMAIN, Twiddles, pt)
<1>1. TraceStep.re \in M31 /\ TraceStep.im \in M31
  <2>1. TraceStep \in CM31 BY DomainClosed, ComplexRing DEF TraceStep
  <2> QED BY <2>1 DEF CM31
<1>2. \A v \in QM31, s \in M31 : Qm31MulM31(v, s) \in QM31 BY ScalarIsMul, Qm31Closed
<1>3. ASSUME NEW z \in SecurePoints PROVE PointAddBase(z, TraceStep) \in SecurePoints
  <2>1. z.x \in QM31 /\ z.y \in QM31 BY DEF SecurePoints
  <2>2. /\ Qm31MulM31(z.x, TraceStep.re) \in QM31 /\ Qm31MulM31(z.y, TraceStep.im) \in QM31
        /\ Qm31MulM31(z.x, TraceStep.im) \in QM31 /\ Qm31MulM31(z.y, TraceStep.re) \in QM31
    BY <1>1, <1>2, <2>1
  <2> QED BY <2>2, Qm31Closed DEF PointAddBase, SecurePoints
<1>4. z1 \in SecurePoints BY <1>3
<1>5. z2 \in SecurePoints BY <1>3, <1>4
<1> HIDE DEF z1, z2
<1>6. ASSUME NEW i \in 1 .. 4 PROVE limb(i) \in QM31
  <2> DEFINE f == [q \in Positions |-> Qm31FromM31(coords(c[q])[i])]
  <2>1. ASSUME NEW q \in Positions PROVE Qm31FromM31(coords(c[q])[i]) \in QM31
    <3>1. c[q].c0 \in M31 /\ c[q].c1 \in M31 /\ c[q].c2 \in M31 /\ c[q].c3 \in M31 BY DEF QM31
    <3>2. coords(c[q])[i] \in M31 BY <3>1
    <3> QED BY <3>2, ScalarClosed
  <2>2. f \in [Positions -> QM31] BY <2>1
  <2> HIDE DEF f
  <2>3. EvalAt(f, LOG_DOMAIN, Twiddles, pt) \in QM31
    BY <2>2, SizesAre, TwiddlesFit, EvalAtClosed
  <2> QED BY <2>3 DEF f
<1>7. Openings(t, c, pt) = << EvalTrace(t, 0, pt), EvalTrace(t, 0, z1), EvalTrace(t, 0, z2),
                              limb(1), limb(2), limb(3), limb(4) >>
  BY DEF Openings, z1, z2
<1> HIDE DEF limb
<1>8. /\ EvalTrace(t, 0, pt) \in QM31 /\ EvalTrace(t, 0, z1) \in QM31
      /\ EvalTrace(t, 0, z2) \in QM31
  BY <1>4, <1>5, EvalTraceClosed
<1>9. limb(1) \in QM31 /\ limb(2) \in QM31 /\ limb(3) \in QM31 /\ limb(4) \in QM31 BY <1>6
<1> QED BY <1>7, <1>8, <1>9

\* felt-to-point gives a point of the secure field, where it does not abort.
LEMMA FeltToPointClosed ==
  ASSUME NEW t \in QM31, FeltToPointRequires(t)
  PROVE  FeltToPoint(t) \in SecurePoints
<1> DEFINE tsq == Qm31Mul(t, t)
           d == Qm31Add(ONE, tsq)
<1>1. ONE \in QM31 BY OneIsOne DEF ONE
<1>2. tsq \in QM31 BY Qm31Closed
<1>3. d \in QM31 /\ Qm31Sub(ONE, tsq) \in QM31 /\ Qm31Add(t, t) \in QM31 BY <1>1, <1>2, Qm31Closed
<1>4. Qm31Inv(d) \in QM31
  <2>1. Qm31InvRequires(d) BY DEF FeltToPointRequires
  <2> HIDE DEF d
  <2> QED BY <1>3, <2>1, SecureField
<1> HIDE DEF d
<1>5. /\ Qm31Mul(Qm31Sub(ONE, tsq), Qm31Inv(d)) \in QM31
      /\ Qm31Mul(Qm31Add(t, t), Qm31Inv(d)) \in QM31
  BY <1>3, <1>4, Qm31Closed
<1> QED BY <1>5 DEF FeltToPoint, SecurePoints, d

-----------------------------------------------------------------------------
\* What each stage has left for the next ones, and the row made of it.
ColumnsInv ==
  /\ rows \in [Rows -> M31]
  /\ stage \in {"composed", "opened", "row"} => ccol \in [Positions -> QM31]
  /\ stage \in {"opened", "row"} => zpt \in SecurePoints /\ openings \in [1 .. 7 -> QM31]
  /\ stage = "row" =>
       /\ gamma \in QM31
       /\ \A q \in Positions : RowRequires(zpt, Points[q])
       /\ row = QuotientColumn(TraceColumn(rows, 0), ccol, openings, zpt, gamma)

\* The inputs of a run are typed.
LEMMA InputsTyped ==
  /\ Traces \subseteq [Rows -> M31]
  /\ \A v \in Alphas \cup Zs \cup Gammas \cup Lies : v \in QM31
BY InputsAssumption

\* It holds at the start ...
LEMMA InitColumns == Init => ColumnsInv
BY InputsTyped DEF Init, ColumnsInv

\* ... is kept by every step ...
LEMMA NextColumns == ColumnsInv /\ [Next]_vars => ColumnsInv'
<1> SUFFICES ASSUME ColumnsInv, [Next]_vars PROVE ColumnsInv' OBVIOUS
<1> USE DEF ColumnsInv
<1>1. ASSUME NEW a \in Alphas, Compose(a) PROVE ColumnsInv'
  <2>1. a \in QM31 BY InputsTyped
  <2>2. CompColumn(rows, a) \in [Positions -> QM31] BY <2>1, CompColumnClosed
  <2> QED BY <1>1, <2>2 DEF Compose
<1>2. ASSUME NEW t \in Zs, Sample(t) PROVE ColumnsInv'
  <2>1. t \in QM31 BY InputsTyped
  <2>2. CASE FeltToPointRequires(t)
    <3>1. FeltToPoint(t) \in SecurePoints BY <2>1, <2>2, FeltToPointClosed
    <3>2. ccol \in [Positions -> QM31] BY <1>2 DEF Sample
    <3>3. Openings(rows, ccol, FeltToPoint(t)) \in [1 .. 7 -> QM31] BY <3>1, <3>2, OpeningsClosed
    <3>4. /\ stage' = "opened" /\ zpt' = FeltToPoint(t) /\ rows' = rows /\ ccol' = ccol
          /\ openings' = Openings(rows, ccol, FeltToPoint(t))
      BY <1>2, <2>2 DEF Sample
    <3> QED BY <3>1, <3>2, <3>3, <3>4
  <2>3. CASE ~ FeltToPointRequires(t)
    <3>1. stage' = "panicked" /\ rows' = rows BY <1>2, <2>3 DEF Sample
    <3> QED BY <3>1
  <2> QED BY <2>2, <2>3
<1>3. ASSUME NEW i \in 1 .. 7, NEW d \in Lies, Misreport(i, d) PROVE ColumnsInv'
  <2>1. d \in QM31 BY InputsTyped
  <2>2. openings \in [1 .. 7 -> QM31] /\ zpt \in SecurePoints /\ ccol \in [Positions -> QM31]
    BY <1>3 DEF Misreport
  <2>3. Qm31Add(openings[i], d) \in QM31 BY <2>1, <2>2, Qm31Closed
  <2>4. /\ openings' = [openings EXCEPT ![i] = Qm31Add(openings[i], d)]
        /\ stage = "opened" /\ stage' = stage /\ rows' = rows /\ ccol' = ccol /\ zpt' = zpt
    BY <1>3 DEF Misreport
  <2>5. openings' \in [1 .. 7 -> QM31] BY <2>2, <2>3, <2>4
  <2> QED BY <2>2, <2>4, <2>5
<1>4. ASSUME NEW g \in Gammas, Quotient(g) PROVE ColumnsInv'
  <2>1. g \in QM31 BY InputsTyped
  <2>2. CASE \A q \in Positions : RowRequires(zpt, Points[q])
    <3>1. /\ stage = "opened" /\ stage' = "row" /\ gamma' = g /\ rows' = rows /\ ccol' = ccol
          /\ zpt' = zpt /\ openings' = openings
          /\ row' = QuotientColumn(TraceColumn(rows, 0), ccol, openings, zpt, g)
      BY <1>4, <2>2 DEF Quotient
    <3>2. (\A q \in Positions : RowRequires(zpt, Points[q]))' BY <2>2, <3>1
    <3>3. row' = QuotientColumn(TraceColumn(rows, 0), ccol, openings, zpt, gamma)' BY <3>1
    <3> QED BY <2>1, <3>1, <3>2, <3>3
  <2>3. CASE ~ \A q \in Positions : RowRequires(zpt, Points[q])
    <3>1. stage' = "panicked" /\ rows' = rows BY <1>4, <2>3 DEF Quotient
    <3> QED BY <3>1
  <2> QED BY <2>2, <2>3
<1>5. ASSUME NEW bs \in Betas, FoldDown(bs) PROVE ColumnsInv'
  <2>1. stage' = "folded" /\ rows' = rows BY <1>5 DEF FoldDown
  <2> QED BY <2>1
<1>6. ASSUME UNCHANGED vars PROVE ColumnsInv'
  BY <1>6 DEF vars
<1> QED BY <1>1, <1>2, <1>3, <1>4, <1>5, <1>6 DEF Next

\* ... and where there is a row, each of its values is the classic one.
LEMMA ColumnsInvClassic == ColumnsInv => RowIsClassicQuotient
<1> SUFFICES ASSUME ColumnsInv, stage = "row", NEW q \in Positions
             PROVE  row[q] = ClassicRow(TraceColumn(rows, 0)[q], ccol[q], Points[q])
  BY DEF RowIsClassicQuotient
<1> DEFINE t == TraceColumn(rows, 0)
<1>1. /\ rows \in [Rows -> M31] /\ ccol \in [Positions -> QM31] /\ zpt \in SecurePoints
      /\ openings \in [1 .. 7 -> QM31] /\ gamma \in QM31 /\ RowRequires(zpt, Points[q])
      /\ row = QuotientColumn(t, ccol, openings, zpt, gamma)
  BY DEF ColumnsInv
<1>2. t \in [Positions -> QM31] BY <1>1, TraceColumnClosed
<1> HIDE DEF t
<1>3. Points[q] \in CM31 BY PointsClosed
<1>4. t[q] \in QM31 /\ ccol[q] \in QM31 /\ \A i \in 1 .. 7 : openings[i] \in QM31 BY <1>1, <1>2
<1>5. RowValue(t[q], ccol[q], Points[q], openings, zpt, gamma)
        = ClassicRow(t[q], ccol[q], Points[q])
  BY <1>1, <1>3, <1>4, RowValueIsClassic
<1>6. row[q] = RowValue(t[q], ccol[q], Points[q], openings, zpt, gamma)
  BY <1>1 DEF QuotientColumn
<1> QED BY <1>5, <1>6 DEF t

(***************************************************************************)
(* RowIsClassicQuotient for every field, domain and input: at each         *)
(* position the row cdeep.clar computes with its shared denominators and   *)
(* batched powers is the sum of the seven textbook quotients.              *)
(***************************************************************************)
THEOREM RowClassic == Spec => []RowIsClassicQuotient
<1>1. Init => ColumnsInv BY InitColumns
<1>2. ColumnsInv /\ [Next]_vars => ColumnsInv' BY NextColumns
<1>3. ColumnsInv => RowIsClassicQuotient BY ColumnsInvClassic
<1> QED BY <1>1, <1>2, <1>3, PTL DEF Spec

-----------------------------------------------------------------------------
\* A multiple of 2^i has lost its factor after i steps, and no bit has been moved.
LEMMA RevShift ==
  ASSUME NEW n \in 0 .. LOG_DOMAIN, NEW i \in 0 .. n, NEW m \in Nat
  PROVE  RevStates(n, m * 2 ^ i)[i].q = m /\ RevStates(n, m * 2 ^ i)[i].r = 0
<1> DEFINE U == {j \in 0 .. i : \A k \in Nat : /\ RevStates(n, k * 2 ^ j)[j].q = k
                                               /\ RevStates(n, k * 2 ^ j)[j].r = 0}
           S(x) == RevStates(n, x)
<1>0. n \in Nat /\ i \in Nat /\ i <= n /\ n <= LOG_DOMAIN /\ LOG_DOMAIN \in Nat
  BY QueryAssumption
<1>1. \A x \in Nat : \A j \in 1 .. n :
        S(x)[j].q = S(x)[j - 1].q \div 2 /\ S(x)[j].r = S(x)[j - 1].r * 2 + (S(x)[j - 1].q % 2)
  BY <1>0, RevStatesAre
<1>2. 0 \in U
  <2>1. 2 ^ 0 = 1 /\ 0 \in 0 .. i BY DoublingAssumption, <1>0
  <2>2. ASSUME NEW k \in Nat PROVE S(k * 2 ^ 0)[0].q = k /\ S(k * 2 ^ 0)[0].r = 0
    <3>1. k * 2 ^ 0 = k BY <2>1
    <3>2. S(k)[0] = [q |-> k, r |-> 0] BY <1>0, RevStatesAre
    <3> HIDE DEF S
    <3> QED BY <3>1, <3>2
  <2> QED BY <2>1, <2>2
<1>3. ASSUME NEW j \in 1 .. i, j - 1 \in U PROVE j \in U
  <2> DEFINE l == j - 1
             b == 2 ^ l
             c == 2 ^ j
  <2>1. l \in 0 .. LOG_DOMAIN /\ l + 1 = j /\ l \in 0 .. i /\ j \in 1 .. n /\ j \in 0 .. i BY <1>0
  <2>2. b \in Nat /\ c = 2 * b
    <3>1. 2 ^ l \in Nat /\ 2 ^ (l + 1) = 2 * 2 ^ l
      <4> HIDE DEF l
      <4> QED BY <2>1, PowersOfTwo
    <3>2. 2 ^ (l + 1) = 2 ^ j BY <2>1, Zenon
    <3> QED BY <3>1, <3>2
  <2>3. \A k \in Nat : S(k * b)[l].q = k /\ S(k * b)[l].r = 0 BY <1>3
  <2> HIDE DEF b, c, S
  <2>4. ASSUME NEW k \in Nat PROVE S(k * c)[j].q = k /\ S(k * c)[j].r = 0
    <3> DEFINE x == k * c
               y == 2 * k
    <3>1. x = y * b /\ y \in Nat /\ x \in Nat BY <2>2
    <3>2. y \div 2 = k /\ y % 2 = 0 OBVIOUS
    <3> HIDE DEF x, y
    <3>3. S(x)[l].q = y /\ S(x)[l].r = 0 BY <2>3, <3>1
    <3>4. S(x)[j].q = S(x)[l].q \div 2 /\ S(x)[j].r = S(x)[l].r * 2 + (S(x)[l].q % 2)
      BY <1>1, <2>1, <3>1
    <3>5. S(x)[j].q = k /\ S(x)[j].r = 0 BY <3>2, <3>3, <3>4
    <3> QED BY <3>5 DEF x
  <2> QED BY <2>1, <2>4 DEF S, c
<1> HIDE DEF U
<1>4. i \in U BY <1>0, <1>2, <1>3, UpTo
<1> QED BY <1>4 DEF U

\* Runs from neighbours 2p and 2p + 1 differ by the bit they have moved first.
LEMMA RevTwin ==
  ASSUME NEW n \in 0 .. LOG_DOMAIN, NEW i \in 0 .. (n - 1), NEW p \in Nat
  PROVE  \A k \in 0 .. (n - 1 - i) :
           RevStates(n, (2 * p + 1) * 2 ^ i)[i + 1 + k].r
             = RevStates(n, (2 * p) * 2 ^ i)[i + 1 + k].r + 2 ^ k
<1> DEFINE e == (2 * p) * 2 ^ i
           o == (2 * p + 1) * 2 ^ i
           se == RevStates(n, e)
           so == RevStates(n, o)
           N == n - 1 - i
           U == {k \in 0 .. N : /\ so[i + 1 + k].q = se[i + 1 + k].q
                                /\ so[i + 1 + k].r = se[i + 1 + k].r + 2 ^ k}
<1>0. /\ n \in Nat /\ i \in Nat /\ i <= n - 1 /\ n <= LOG_DOMAIN /\ N \in Nat
      /\ i \in 0 .. n /\ i \in 0 .. LOG_DOMAIN /\ LOG_DOMAIN \in Nat
  BY QueryAssumption
<1>1. e \in Nat /\ o \in Nat
  <2>1. 2 ^ i \in Nat BY <1>0, PowersOfTwo
  <2> QED BY <2>1
<1>2. 2 * p \in Nat /\ 2 * p + 1 \in Nat OBVIOUS
<1>3. se[i].q = 2 * p /\ se[i].r = 0 /\ so[i].q = 2 * p + 1 /\ so[i].r = 0
  BY <1>0, <1>2, RevShift
<1> HIDE DEF e, o
<1>4. /\ \A j \in 1 .. n :
           se[j].q = se[j - 1].q \div 2 /\ se[j].r = se[j - 1].r * 2 + (se[j - 1].q % 2)
      /\ \A j \in 1 .. n :
           so[j].q = so[j - 1].q \div 2 /\ so[j].r = so[j - 1].r * 2 + (so[j - 1].q % 2)
      /\ \A j \in 0 .. n : se[j] \in RevState
  BY <1>0, <1>1, RevStatesAre
<1> HIDE DEF se, so
<1>5. 0 \in U
  <2>1. i + 1 \in 1 .. n /\ (i + 1) - 1 = i /\ i + 1 + 0 = i + 1 /\ 2 ^ 0 = 1
    BY <1>0, DoublingAssumption
  <2>2. (2 * p) \div 2 = p /\ (2 * p) % 2 = 0 /\ (2 * p + 1) \div 2 = p /\ (2 * p + 1) % 2 = 1
    OBVIOUS
  <2>3. /\ se[i + 1].q = se[i].q \div 2 /\ se[i + 1].r = se[i].r * 2 + (se[i].q % 2)
        /\ so[i + 1].q = so[i].q \div 2 /\ so[i + 1].r = so[i].r * 2 + (so[i].q % 2)
    BY <1>4, <2>1
  <2>4. se[i + 1].q = p /\ se[i + 1].r = 0 /\ so[i + 1].q = p /\ so[i + 1].r = 1
    BY <1>3, <2>2, <2>3
  <2>5. 0 \in 0 .. N BY <1>0
  <2> QED BY <2>1, <2>4, <2>5
<1>6. ASSUME NEW k \in 1 .. N, k - 1 \in U PROVE k \in U
  <2> DEFINE l == k - 1
             j == i + 1 + k
             h == i + 1 + l
  <2>1. /\ j \in 1 .. n /\ j - 1 = h /\ h \in 0 .. n /\ l \in 0 .. LOG_DOMAIN /\ l + 1 = k
        /\ k \in 0 .. N
    BY <1>0
  <2>2. so[h].q = se[h].q /\ so[h].r = se[h].r + 2 ^ l BY <1>6
  <2>3. 2 ^ l \in Nat /\ 2 ^ k = 2 * 2 ^ l
    <3> HIDE DEF l
    <3>1. 2 ^ l \in Nat /\ 2 ^ (l + 1) = 2 * 2 ^ l BY <2>1, PowersOfTwo
    <3>2. 2 ^ (l + 1) = 2 ^ k BY <2>1, Zenon
    <3> QED BY <3>1, <3>2
  <2> HIDE DEF l, j, h
  <2>4. /\ se[j].q = se[h].q \div 2 /\ se[j].r = se[h].r * 2 + (se[h].q % 2)
        /\ so[j].q = so[h].q \div 2 /\ so[j].r = so[h].r * 2 + (so[h].q % 2)
    BY <1>4, <2>1
  <2>5. se[h].q \in Nat /\ se[h].r \in Nat BY <1>4, <2>1 DEF RevState
  <2>6. so[j].q = se[j].q BY <2>2, <2>4
  <2>7. so[j].r = se[j].r + 2 * 2 ^ l
    <3> DEFINE x == se[h].r
               y == se[h].q % 2
               t == 2 ^ l
    <3>1. x \in Nat /\ y \in Nat /\ t \in Nat BY <2>3, <2>5
    <3>2. so[j].r = (x + t) * 2 + y /\ se[j].r = x * 2 + y BY <2>2, <2>4
    <3> HIDE DEF x, y, t
    <3>3. so[j].r = se[j].r + 2 * t BY <3>1, <3>2
    <3> QED BY <3>3 DEF t
  <2> QED BY <2>1, <2>3, <2>6, <2>7 DEF j
<1> HIDE DEF U
<1>7. \A k \in 0 .. N : k \in U BY <1>0, <1>5, <1>6, UpTo
<1> QED BY <1>7 DEF U, se, so, e, o

\* An even number's reversal stays in the lower half, ...
LEMMA RevEven ==
  ASSUME NEW n \in 1 .. LOG_DOMAIN, NEW q \in Nat, q % 2 = 0
  PROVE  RevStates(n, q)[n].r < 2 ^ (n - 1)
<1> DEFINE st == RevStates(n, q)
           m == n - 1
           U == {j \in 0 .. m : st[j + 1].r < 2 ^ j}
<1>0. n \in Nat /\ m \in Nat /\ m + 1 = n /\ n <= LOG_DOMAIN /\ LOG_DOMAIN \in Nat
  BY QueryAssumption
<1>1. /\ st[0] = [q |-> q, r |-> 0] /\ \A j \in 0 .. n : st[j] \in RevState
      /\ \A j \in 1 .. n :
           st[j].q = st[j - 1].q \div 2 /\ st[j].r = st[j - 1].r * 2 + (st[j - 1].q % 2)
  BY <1>0, RevStatesAre
<1> HIDE DEF st
<1>2. 0 \in U
  <2>1. 1 \in 1 .. n /\ 0 \in 0 .. m /\ 2 ^ 0 = 1 BY <1>0, DoublingAssumption
  <2>2. st[0].q = q /\ st[0].r = 0 BY <1>1
  <2>3. st[1].r = st[1 - 1].r * 2 + (st[1 - 1].q % 2) BY <1>1, <2>1
  <2>4. st[1].r = 0 BY <2>2, <2>3
  <2>5. st[0 + 1].r = 0 BY <2>4
  <2> QED BY <2>1, <2>5
<1>3. ASSUME NEW j \in 1 .. m, j - 1 \in U PROVE j \in U
  <2> DEFINE l == j - 1
  <2>1. /\ l \in 0 .. LOG_DOMAIN /\ l + 1 = j /\ j \in 1 .. n /\ j + 1 \in 1 .. n
        /\ (j + 1) - 1 = j /\ j \in 0 .. n /\ j \in 0 .. m
    BY <1>0
  <2>2. st[l + 1].r < 2 ^ l BY <1>3
  <2> HIDE DEF l
  <2>3. st[j].r < 2 ^ l BY <2>1, <2>2
  <2>4. 2 ^ l \in Nat /\ 2 ^ j = 2 * 2 ^ l
    <3>1. 2 ^ l \in Nat /\ 2 ^ (l + 1) = 2 * 2 ^ l BY <2>1, PowersOfTwo
    <3>2. 2 ^ (l + 1) = 2 ^ j BY <2>1, Zenon
    <3> QED BY <3>1, <3>2
  <2>5. st[j + 1].r = st[j].r * 2 + (st[j].q % 2)
    <3>1. st[j + 1].r = st[(j + 1) - 1].r * 2 + (st[(j + 1) - 1].q % 2) BY <1>1, <2>1
    <3> QED BY <2>1, <3>1
  <2>6. st[j].q \in Nat /\ st[j].r \in Nat BY <1>1, <2>1 DEF RevState
  <2>7. st[j].q % 2 \in 0 .. 1 BY <2>6
  <2> DEFINE x == st[j].r
             y == st[j].q % 2
             t == 2 ^ l
             w == 2 ^ j
  <2>8. x \in Nat /\ y \in 0 .. 1 /\ t \in Nat /\ x < t /\ w = 2 * t BY <2>3, <2>4, <2>6, <2>7
  <2>9. st[j + 1].r = x * 2 + y BY <2>5
  <2> HIDE DEF x, y, t, w
  <2>10. st[j + 1].r < w BY <2>8, <2>9
  <2> QED BY <2>1, <2>10 DEF w
<1> HIDE DEF U
<1>4. m \in U BY <1>0, <1>2, <1>3, UpTo
<1>5. st[m + 1].r < 2 ^ m BY <1>4 DEF U
<1>6. st[n].r < 2 ^ m
  <2> HIDE DEF m
  <2> QED BY <1>0, <1>5
<1> QED BY <1>6 DEF st

(***************************************************************************)
(* ... and the members of a pair of layer i are read from indices 2^(n-1-i) *)
(* apart.                                                                  *)
(***************************************************************************)
LEMMA PairIndices ==
  ASSUME NEW i \in 0 .. (LOG_DOMAIN - 1), NEW p \in Nat
  PROVE  /\ (2 * p) * 2 ^ i \in Nat /\ (2 * p + 1) * 2 ^ i \in Nat
         /\ BitRev((2 * p) * 2 ^ i) \in Nat /\ BitRev((2 * p) * 2 ^ i) < HALF
         /\ BitRev((2 * p + 1) * 2 ^ i) = BitRev((2 * p) * 2 ^ i) + 2 ^ (LOG_DOMAIN - 1 - i)
         /\ i > 0 => BitRev((2 * p + 1) * 2 ^ i) < HALF
<1> DEFINE e == (2 * p) * 2 ^ i
           o == (2 * p + 1) * 2 ^ i
           n == LOG_DOMAIN
           N == n - 1 - i
<1>0. n \in Nat /\ n \in 1 .. n /\ n \in 0 .. n /\ i \in 0 .. n /\ i \in Nat /\ N \in 0 .. N
  BY QueryAssumption
<1>1. 2 ^ i \in Nat BY <1>0, PowersOfTwo
<1>2. e \in Nat /\ o \in Nat /\ e = 2 * (p * 2 ^ i) /\ p * 2 ^ i \in Nat BY <1>1
<1>3. e % 2 = 0
  <2> DEFINE h == p * 2 ^ i
  <2>1. h \in Nat /\ e = 2 * h BY <1>2
  <2> HIDE DEF h, e
  <2> QED BY <2>1
<1>4. i > 0 => o % 2 = 0
  <2> SUFFICES ASSUME i > 0 PROVE o % 2 = 0 OBVIOUS
  <2> DEFINE j == i - 1
             b == 2 ^ j
             h == (2 * p + 1) * b
  <2>1. j \in 0 .. LOG_DOMAIN /\ j + 1 = i BY <1>0
  <2>2. b \in Nat /\ 2 ^ i = 2 * b
    <3> HIDE DEF j
    <3>1. 2 ^ j \in Nat /\ 2 ^ (j + 1) = 2 * 2 ^ j BY <2>1, PowersOfTwo
    <3>2. 2 ^ (j + 1) = 2 ^ i BY <2>1, Zenon
    <3> QED BY <3>1, <3>2
  <2> HIDE DEF b
  <2>3. h \in Nat /\ o = 2 * h BY <2>2
  <2> HIDE DEF h, o
  <2> QED BY <2>3
<1>5. BitRev(e) = RevStates(n, e)[n].r /\ BitRev(o) = RevStates(n, o)[n].r /\ BitRev(e) \in Nat
  BY <1>2, BitRevIs
<1>6. RevStates(n, o)[i + 1 + N].r = RevStates(n, e)[i + 1 + N].r + 2 ^ N BY <1>0, RevTwin
<1>7. i + 1 + N = n BY <1>0
<1> HIDE DEF e, o
<1>8. RevStates(n, e)[n].r < 2 ^ (n - 1) BY <1>0, <1>2, <1>3, RevEven
<1>9. i > 0 => RevStates(n, o)[n].r < 2 ^ (n - 1) BY <1>0, <1>2, <1>4, RevEven
<1>10. BitRev(o) = BitRev(e) + 2 ^ N
  <2> HIDE DEF N, n
  <2> QED BY <1>5, <1>6, <1>7
<1> QED BY <1>2, <1>5, <1>8, <1>9, <1>10 DEF HALF, e, o

-----------------------------------------------------------------------------
\* The circle: the elements of norm one, among them the domain's generators.
Circle == {w \in CM31 : M31Add(M31Mul(w.re, w.re), M31Mul(w.im, w.im)) = 1}

\* The norm of an element of the circle, as an integer, is one modulo P.
LEMMA CircleNorm ==
  ASSUME NEW w \in Circle
  PROVE  /\ w \in CM31 /\ w.re \in M31 /\ w.im \in M31 /\ w.re \in Int /\ w.im \in Int
         /\ Residue(w.re, w.re) /\ Residue(w.im, w.im)
         /\ Residue(1, w.re * w.re + w.im * w.im)
<1>1. w \in CM31 /\ M31Add(M31Mul(w.re, w.re), M31Mul(w.im, w.im)) = 1 BY DEF Circle
<1>2. w.re \in M31 /\ w.im \in M31 BY <1>1 DEF CM31
<1>3. Residue(w.re, w.re) /\ Residue(w.im, w.im) BY <1>2, ResidueSelf
<1>4. Residue(M31Mul(w.re, w.re), w.re * w.re) /\ Residue(M31Mul(w.im, w.im), w.im * w.im)
  BY <1>3, ResidueOps
<1>5. Residue(M31Add(M31Mul(w.re, w.re), M31Mul(w.im, w.im)), w.re * w.re + w.im * w.im)
  BY <1>4, ResidueOps
<1>6. w.re \in Int /\ w.im \in Int BY <1>3 DEF Residue
<1> QED BY <1>1, <1>2, <1>3, <1>5, <1>6

\* Products stay on it ...
LEMMA CircleMul ==
  ASSUME NEW x \in Circle, NEW y \in Circle
  PROVE  CmMul(x, y) \in Circle
<1> DEFINE z == CmMul(x, y)
           k == x.re
           l == x.im
           m == y.re
           n == y.im
           a == k * m - l * n
           b == k * n + l * m
           u == k * k + l * l
           v == m * m + n * n
<1>1. /\ x \in CM31 /\ y \in CM31 /\ k \in Int /\ l \in Int /\ m \in Int /\ n \in Int
      /\ Residue(k, k) /\ Residue(l, l) /\ Residue(m, m) /\ Residue(n, n)
      /\ Residue(1, u) /\ Residue(1, v)
  BY CircleNorm
<1>2. z \in CM31 BY <1>1, ComplexRing
<1>3. Residue(z.re, a) /\ Residue(z.im, b) BY <1>1, CmMulResidues
<1>4. a * a + b * b = u * v
  <2> HIDE DEF k, l, m, n
  <2> QED BY <1>1
<1> HIDE DEF a, b, z, u, v, k, l, m, n
<1>5. Residue(M31Mul(z.re, z.re), a * a) /\ Residue(M31Mul(z.im, z.im), b * b)
  BY <1>3, ResidueOps
<1>6. Residue(M31Add(M31Mul(z.re, z.re), M31Mul(z.im, z.im)), a * a + b * b) BY <1>5, ResidueOps
<1>7. Residue(M31Mul(1, 1), u * v) BY <1>1, ResidueOps
<1>8. M31Mul(1, 1) = 1 BY FieldAssumption DEF M31Mul
<1>9. M31Add(M31Mul(z.re, z.re), M31Mul(z.im, z.im)) = 1
  BY <1>4, <1>6, <1>7, <1>8, ResidueUnique
<1> QED BY <1>2, <1>9 DEF Circle, z

\* ... and so do powers.
LEMMA CirclePower ==
  ASSUME NEW w \in Circle, NEW n \in Nat
  PROVE  Power(w, n) \in Circle
<1> DEFINE U == {i \in 0 .. n : Power(w, i) \in Circle}
<1>1. w \in CM31 BY CircleNorm
<1>2. 0 \in U
  <2>1. M31Mul(1, 1) = 1 /\ M31Mul(0, 0) = 0 /\ M31Add(1, 0) = 1
    BY FieldAssumption DEF M31Mul, M31Add
  <2>2. Unit \in CM31 /\ Unit.re = 1 /\ Unit.im = 0 BY ZeroInM31 DEF Unit, Cm, CM31
  <2>3. Unit \in Circle BY <2>1, <2>2 DEF Circle
  <2>4. Power(w, 0) = Unit BY <1>1, PowerIs
  <2> QED BY <2>3, <2>4
<1>3. ASSUME NEW i \in 1 .. n, i - 1 \in U PROVE i \in U
  <2> DEFINE j == i - 1
  <2>1. j \in Nat /\ j + 1 = i OBVIOUS
  <2>2. Power(w, j) \in Circle BY <1>3
  <2> HIDE DEF j
  <2>3. Power(w, i) = CmMul(Power(w, j), w) BY <1>1, <2>1, PowerIs
  <2> QED BY <2>2, <2>3, CircleMul
<1> HIDE DEF U
<1>4. n \in U BY <1>2, <1>3, UpTo
<1> QED BY <1>4 DEF U

\* PiX is the doubling of the circle, seen from the real part.
LEMMA PiDoubles ==
  ASSUME NEW w \in Circle
  PROVE  CmMul(w, w).re = PiX(w.re)
<1> DEFINE k == w.re
           l == w.im
           u == k * k + l * l
           z == CmMul(w, w)
<1>1. /\ k \in Int /\ l \in Int /\ Residue(k, k) /\ Residue(l, l) /\ Residue(1, u)
  BY CircleNorm
<1>2. Residue(z.re, k * k - l * l) BY <1>1, CmMulResidues
<1>3. Residue(2, 2)
  <2>1. 2 \in M31 BY FieldAssumption DEF M31
  <2> QED BY <2>1, ResidueSelf
<1> HIDE DEF k, l, z
<1>4. Residue(M31Mul(2, M31Mul(k, k)), 2 * (k * k)) BY <1>1, <1>3, ResidueOps
<1>5. Residue(PiX(k), 2 * (k * k) - u) BY <1>1, <1>4, ResidueOps DEF PiX
<1>6. 2 * (k * k) - u = k * k - l * l BY <1>1
<1> HIDE DEF u
<1>7. z.re = PiX(k) BY <1>2, <1>5, <1>6, ResidueUnique
<1> QED BY <1>7 DEF z, k

\* Squaring a power of two's power.
LEMMA PowerDouble ==
  ASSUME NEW w \in CM31, NEW k \in 0 .. LOG_DOMAIN
  PROVE  /\ Power(w, 2 ^ k) \in CM31 /\ Power(w, 2 ^ 0) = w
         /\ Power(w, 2 ^ (k + 1)) = CmMul(Power(w, 2 ^ k), Power(w, 2 ^ k))
<1> DEFINE b == 2 ^ k
           c == 2 ^ (k + 1)
<1>1. b \in Nat /\ c = 2 * b /\ 2 ^ 0 = 1 BY PowersOfTwo
<1>2. c = b + b BY <1>1
<1> HIDE DEF b, c
<1>3. Power(w, c) = CmMul(Power(w, b), Power(w, b)) BY <1>1, <1>2, PowerAdd
<1>4. Power(w, b) \in CM31 BY <1>1, PowerIs
<1>5. Power(w, 1) = w
  <2>1. Power(w, 0 + 1) = CmMul(Unit, w) BY PowerIs
  <2>2. 0 + 1 = 1 OBVIOUS
  <2>3. CmMul(Unit, w) = w BY ComplexRing
  <2> QED BY <2>1, <2>2, <2>3
<1>6. Power(w, 2 ^ 0) = w BY <1>1, <1>5, Zenon
<1> QED BY <1>3, <1>4, <1>6 DEF b, c

\* PiX n times is n doublings.
LEMMA PiTimesDoubles ==
  ASSUME NEW w \in Circle, NEW n \in 0 .. LOG_DOMAIN
  PROVE  PiTimes(n, w.re) = Power(w, 2 ^ n).re
<1> DEFINE U == {k \in 0 .. n : PiTimes(k, w.re) = Power(w, 2 ^ k).re}
<1>0. n \in Nat /\ n <= LOG_DOMAIN /\ LOG_DOMAIN \in Nat BY QueryAssumption
<1>1. w \in CM31 /\ w.re \in M31 BY CircleNorm
<1>2. 0 \in U
  <2>1. 0 \in 0 .. LOG_DOMAIN /\ 0 \in 0 .. n BY <1>0
  <2>2. Power(w, 2 ^ 0) = w BY <1>1, <2>1, PowerDouble
  <2>3. PiTimes(0, w.re) = w.re BY <1>1, PiTimesIs
  <2> QED BY <2>1, <2>2, <2>3
<1>3. ASSUME NEW k \in 1 .. n, k - 1 \in U PROVE k \in U
  <2> DEFINE j == k - 1
             v == Power(w, 2 ^ j)
  <2>1. j \in Nat /\ j \in 0 .. LOG_DOMAIN /\ j + 1 = k /\ k \in 0 .. n BY <1>0
  <2>2. PiTimes(j, w.re) = v.re BY <1>3
  <2> HIDE DEF j
  <2>3. PiTimes(k, w.re) = PiX(PiTimes(j, w.re)) BY <1>1, <2>1, PiTimesIs
  <2>4. 2 ^ j \in Nat BY <2>1, PowersOfTwo
  <2>5. v \in Circle BY <2>4, CirclePower
  <2>6. Power(w, 2 ^ (j + 1)) = CmMul(v, v) BY <1>1, <2>1, PowerDouble
  <2>7. 2 ^ (j + 1) = 2 ^ k BY <2>1, Zenon
  <2>8. Power(w, 2 ^ k) = CmMul(v, v) BY <2>6, <2>7
  <2> HIDE DEF v
  <2>9. CmMul(v, v).re = PiX(v.re) BY <2>5, PiDoubles
  <2> QED BY <2>1, <2>2, <2>3, <2>8, <2>9
<1> HIDE DEF U
<1>4. n \in U BY <1>0, <1>2, <1>3, UpTo
<1> QED BY <1>4 DEF U

\* The exponents of iterated powers of two add up.
LEMMA PowerTower ==
  ASSUME NEW w \in CM31, NEW a \in 0 .. LOG_DOMAIN, NEW b \in 0 .. LOG_DOMAIN, a + b <= LOG_DOMAIN
  PROVE  Power(Power(w, 2 ^ a), 2 ^ b) = Power(w, 2 ^ (a + b))
<1> DEFINE v == Power(w, 2 ^ a)
           U == {k \in 0 .. b : Power(v, 2 ^ k) = Power(w, 2 ^ (a + k))}
<1>0. a \in Nat /\ b \in Nat /\ LOG_DOMAIN \in Nat /\ b <= LOG_DOMAIN BY QueryAssumption
<1>1. v \in CM31 BY PowerDouble
<1>2. 0 \in U
  <2>1. Power(v, 2 ^ 0) = v
    <3> HIDE DEF v
    <3>1. 0 \in 0 .. LOG_DOMAIN BY <1>0
    <3> QED BY <1>1, <3>1, PowerDouble
  <2>2. a + 0 = a /\ 0 \in 0 .. b BY <1>0
  <2>3. 2 ^ (a + 0) = 2 ^ a BY <2>2, Zenon
  <2> QED BY <2>1, <2>2, <2>3
<1> HIDE DEF v
<1>3. ASSUME NEW k \in 1 .. b, k - 1 \in U PROVE k \in U
  <2> DEFINE j == k - 1
             m == a + j
  <2>1. /\ j \in 0 .. LOG_DOMAIN /\ j + 1 = k /\ k \in 0 .. b
        /\ m \in 0 .. LOG_DOMAIN /\ m + 1 = a + k
    BY <1>0
  <2>2. Power(v, 2 ^ j) = Power(w, 2 ^ m) BY <1>3
  <2> HIDE DEF j, m
  <2>3. Power(v, 2 ^ (j + 1)) = CmMul(Power(v, 2 ^ j), Power(v, 2 ^ j))
    BY <1>1, <2>1, PowerDouble
  <2>4. Power(w, 2 ^ (m + 1)) = CmMul(Power(w, 2 ^ m), Power(w, 2 ^ m)) BY <2>1, PowerDouble
  <2>5. 2 ^ (j + 1) = 2 ^ k /\ 2 ^ (m + 1) = 2 ^ (a + k) BY <2>1, Zenon
  <2>6. Power(v, 2 ^ k) = Power(w, 2 ^ (a + k)) BY <2>2, <2>3, <2>4, <2>5
  <2> QED BY <2>1, <2>6
<1> HIDE DEF U
<1>4. b \in U BY <1>0, <1>2, <1>3, UpTo
<1> QED BY <1>4 DEF U, v

\* What is 1 at one power of two is 1 at the later ones.
LEMMA UnitLater ==
  ASSUME NEW w \in CM31, NEW n \in 0 .. LOG_DOMAIN, NEW k \in 0 .. n, Power(w, 2 ^ k) = Unit
  PROVE  Power(w, 2 ^ n) = Unit
<1> DEFINE m == n - k
           U == {i \in 0 .. m : Power(w, 2 ^ (k + i)) = Unit}
<1>0. /\ n \in Nat /\ k \in Nat /\ m \in Nat /\ k + m = n /\ LOG_DOMAIN \in Nat
      /\ n <= LOG_DOMAIN
  BY QueryAssumption
<1>1. 0 \in U
  <2>1. k + 0 = k /\ 0 \in 0 .. m BY <1>0
  <2>2. 2 ^ (k + 0) = 2 ^ k BY <2>1, Zenon
  <2> QED BY <2>1, <2>2
<1>2. ASSUME NEW i \in 1 .. m, i - 1 \in U PROVE i \in U
  <2> DEFINE j == k + (i - 1)
  <2>1. j \in 0 .. LOG_DOMAIN /\ j + 1 = k + i /\ i \in 0 .. m BY <1>0
  <2>2. Power(w, 2 ^ j) = Unit BY <1>2
  <2> HIDE DEF j
  <2>3. Power(w, 2 ^ (j + 1)) = CmMul(Unit, Unit) BY <2>1, <2>2, PowerDouble
  <2>4. 2 ^ (j + 1) = 2 ^ (k + i) BY <2>1, Zenon
  <2>5. CmMul(Unit, Unit) = Unit BY ComplexRing
  <2> QED BY <2>1, <2>3, <2>4, <2>5
<1>3. m \in U
  <2> HIDE DEF U, m
  <2> QED BY <1>0, <1>1, <1>2, UpTo
<1>4. Power(w, 2 ^ (k + m)) = Unit BY <1>3
<1>5. 2 ^ (k + m) = 2 ^ n
  <2> HIDE DEF m
  <2> QED BY <1>0, Zenon
<1> QED BY <1>4, <1>5

\* If base^m is 1, so is every power of the base to the m.
LEMMA UnitPower ==
  ASSUME NEW base \in CM31, NEW m \in Nat, Power(base, m) = Unit, NEW j \in Nat
  PROVE  Power(Power(base, j), m) = Unit
<1> DEFINE U == {i \in 0 .. j : Power(Power(base, i), m) = Unit}
           One(k) == Power(Unit, k) = Unit
           V == {k \in 0 .. m : One(k)}
<1>1. Unit \in CM31 /\ CmMul(Unit, Unit) = Unit BY ComplexRing
<1>2. m \in V
  <2>1. 0 \in V BY <1>1, PowerIs
  <2>2. ASSUME NEW k \in 1 .. m, k - 1 \in V PROVE k \in V
    <3> DEFINE l == k - 1
    <3>1. l \in Nat /\ l + 1 = k OBVIOUS
    <3>2. Power(Unit, l) = Unit BY <2>2
    <3> HIDE DEF l
    <3>3. Power(Unit, k) = Unit BY <1>1, <3>1, <3>2, PowerIs
    <3> QED BY <3>3
  <2> HIDE DEF V
  <2> QED BY <2>1, <2>2, UpTo
<1>3. 0 \in U
  <2>1. Power(base, 0) = Unit BY PowerIs
  <2> QED BY <1>2, <2>1
<1>4. ASSUME NEW i \in 1 .. j, i - 1 \in U PROVE i \in U
  <2> DEFINE l == i - 1
             a == Power(base, l)
  <2>1. l \in Nat /\ l + 1 = i OBVIOUS
  <2>2. Power(a, m) = Unit BY <1>4
  <2> HIDE DEF l
  <2>3. a \in CM31 /\ Power(base, i) = CmMul(a, base) BY <2>1, PowerIs
  <2> HIDE DEF a
  <2>4. Power(CmMul(a, base), m) = CmMul(Unit, Unit) BY <2>2, <2>3, PowerMul
  <2> QED BY <1>1, <2>3, <2>4
<1> HIDE DEF U
<1>5. j \in U BY <1>3, <1>4, UpTo
<1> QED BY <1>5 DEF U

-----------------------------------------------------------------------------
\* The points folded from: a layer of the line is PiX of the one above it.
SourceTable(i, s) == LET x[n \in 0 .. i] == IF n < 2 THEN s ELSE PiX(x[n - 1]) IN x

\* Its last value is one PiX fewer than its index.
LEMMA SourceTableIs ==
  ASSUME NEW i \in Nat \ {0}, NEW s \in M31
  PROVE  SourceTable(i, s)[i] = PiTimes(i - 1, s)
<1> DEFINE t == PiTable(i - 1, s)
           Is(f) == f = [n \in 0 .. i |-> IF n < 2 THEN s ELSE PiX(f[n - 1])]
           x == CHOOSE f : Is(f)
           f == [n \in 0 .. i |-> IF n = 0 THEN s ELSE t[n - 1]]
           g == [n \in 0 .. (i - 1) |-> x[n + 1]]
<1>1. i - 1 \in Nat OBVIOUS
<1>2. t[0] = s /\ \A n \in 1 .. (i - 1) : t[n] = PiX(t[n - 1]) BY <1>1, PiTableIs
<1> HIDE DEF t
<1>3. Is(f)
  <2>1. ASSUME NEW n \in 0 .. i, n < 2 PROVE f[n] = s
    <3>1. n = 0 \/ n = 1 BY <2>1
    <3>2. CASE n = 0 BY <3>2
    <3>3. CASE n = 1
      <4>1. n - 1 = 0 /\ n # 0 BY <3>3
      <4> QED BY <1>2, <4>1
    <3> QED BY <3>1, <3>2, <3>3
  <2>2. ASSUME NEW n \in 0 .. i, ~ (n < 2) PROVE f[n] = PiX(f[n - 1])
    <3>1. n - 1 \in 1 .. (i - 1) /\ n - 1 \in 0 .. i /\ n - 1 # 0 /\ n # 0 BY <2>2
    <3>2. f[n - 1] = t[(n - 1) - 1] /\ f[n] = t[n - 1] BY <3>1
    <3> QED BY <1>2, <3>1, <3>2
  <2>3. \A n \in 0 .. i : f[n] = IF n < 2 THEN s ELSE PiX(f[n - 1]) BY <2>1, <2>2
  <2>4. f = [n \in 0 .. i |-> f[n]] OBVIOUS
  <2> HIDE DEF f
  <2> QED BY <2>3, <2>4
<1>4. Is(x) BY <1>3
<1>5. SourceTable(i, s) = x BY DEF SourceTable
<1> HIDE DEF x
<1>6. g[0] = s
  <2>1. 0 \in 0 .. (i - 1) /\ 1 \in 0 .. i /\ 0 + 1 = 1 /\ 1 < 2 OBVIOUS
  <2>2. x[1] = s BY <1>4, <2>1
  <2> QED BY <2>1, <2>2
<1>7. ASSUME NEW n \in 1 .. (i - 1) PROVE g[n] = PiX(g[n - 1])
  <2>1. n + 1 \in 0 .. i /\ ~ (n + 1 < 2) /\ (n + 1) - 1 = n /\ n \in 0 .. (i - 1)
        /\ n - 1 \in 0 .. (i - 1) /\ (n - 1) + 1 = n
    OBVIOUS
  <2>2. x[n + 1] = PiX(x[(n + 1) - 1]) BY <1>4, <2>1
  <2>3. g[n] = x[n + 1] /\ g[n - 1] = x[n] BY <2>1
  <2> QED BY <2>1, <2>2, <2>3
<1>8. i - 1 \in 0 .. (i - 1) /\ (i - 1) + 1 = i OBVIOUS
<1>9. g[i - 1] = x[i] BY <1>8
<1> HIDE DEF g
<1>10. g[i - 1] = PiTable(i - 1, s)[i - 1] BY <1>1, <1>6, <1>7, <1>8, PiUnique
<1> QED BY <1>5, <1>9, <1>10 DEF PiTimes

\* -1: its square is 1, and times it the real part is negated.
LEMMA MinusIs ==
  /\ MinusUnit \in CM31 /\ MinusUnit # Unit /\ CmMul(MinusUnit, MinusUnit) = Unit
  /\ \A z \in CM31 : CmMul(z, MinusUnit).re = M31Sub(0, z.re)
<1>1. P \in Nat /\ P > 2 BY FieldAssumption
<1>2. P - 1 \in M31 /\ P - 1 # 1 BY <1>1 DEF M31
<1>3. MinusUnit \in CM31 /\ MinusUnit.re = P - 1 /\ MinusUnit.im = 0
  BY <1>2, ZeroInM31 DEF MinusUnit, Cm, CM31
<1>4. Unit \in CM31 /\ Unit.re = 1 /\ Unit.im = 0 BY ZeroInM31 DEF Unit, Cm, CM31
<1>5. Residue(P - 1, -1)
  <2>1. -1 = (P - 1) + P * (-1) /\ -1 \in Int BY <1>1
  <2> QED BY <1>2, <2>1, ResidueIntro
<1>6. CmMul(MinusUnit, MinusUnit) = Unit
  <2> DEFINE z == CmMul(MinusUnit, MinusUnit)
  <2>1. Residue(z.re, (-1) * (-1) - 0 * 0) /\ Residue(z.im, (-1) * 0 + 0 * (-1))
    BY <1>3, <1>5, ZeroInM31, CmMulResidues
  <2>2. (-1) * (-1) - 0 * 0 = 1 /\ (-1) * 0 + 0 * (-1) = 0 OBVIOUS
  <2>3. z \in CM31 BY <1>3, ComplexRing
  <2> HIDE DEF z
  <2>4. z.re = 1 /\ z.im = 0 BY <2>1, <2>2, ZeroInM31, ResidueUnique
  <2>5. z = Unit BY <1>4, <2>3, <2>4 DEF CM31
  <2> QED BY <2>5 DEF z
<1>7. ASSUME NEW z \in CM31 PROVE CmMul(z, MinusUnit).re = M31Sub(0, z.re)
  <2> DEFINE k == z.re
             l == z.im
  <2>1. k \in M31 /\ l \in M31 BY DEF CM31
  <2>2. Residue(k, k) /\ Residue(l, l) BY <2>1, ResidueSelf
  <2>3. k \in Int /\ l \in Int BY <2>2 DEF Residue
  <2>4. Residue(CmMul(z, MinusUnit).re, k * (-1) - l * 0)
    BY <1>3, <1>5, <2>2, ZeroInM31, CmMulResidues
  <2>5. Residue(M31Sub(0, k), 0 - k) BY <2>2, ZeroInM31, ResidueOps
  <2> HIDE DEF k, l
  <2>6. k * (-1) - l * 0 = 0 - k BY <2>3
  <2>7. CmMul(z, MinusUnit).re = M31Sub(0, k) BY <2>4, <2>5, <2>6, ResidueUnique
  <2> QED BY <2>7 DEF k
<1> QED BY <1>2, <1>3, <1>4, <1>6, <1>7

\* A point on an axis squares to 1 or to -1.
LEMMA AxisSquares ==
  ASSUME NEW w \in Circle
  PROVE  /\ w.im = 0 => CmMul(w, w) = Unit
         /\ w.re = 0 => CmMul(w, w) = MinusUnit
<1> DEFINE k == w.re
           l == w.im
           z == CmMul(w, w)
<1>1. /\ w \in CM31 /\ k \in Int /\ l \in Int /\ Residue(k, k) /\ Residue(l, l)
      /\ Residue(1, k * k + l * l)
  BY CircleNorm
<1>2. Residue(z.re, k * k - l * l) /\ Residue(z.im, k * l + l * k) BY <1>1, CmMulResidues
<1>3. z \in CM31 BY <1>1, ComplexRing
<1>4. Unit \in CM31 /\ Unit.re = 1 /\ Unit.im = 0 BY ZeroInM31 DEF Unit, Cm, CM31
<1>5. MinusUnit \in CM31 /\ MinusUnit.re = P - 1 /\ MinusUnit.im = 0
  BY MinusIs DEF MinusUnit, Cm
<1>6. M31Sub(0, 1) = P - 1 BY FieldAssumption DEF M31Sub
<1>7. Residue(M31Sub(0, 1), 0 - (k * k + l * l)) BY <1>1, ZeroInM31, ResidueOps
<1> HIDE DEF k, l, z
<1>8. ASSUME l = 0 PROVE z = Unit
  <2>1. k * k - l * l = k * k + l * l /\ k * l + l * k = 0 BY <1>1, <1>8
  <2>2. z.re = 1 /\ z.im = 0 BY <1>1, <1>2, <2>1, ZeroInM31, ResidueUnique
  <2> QED BY <1>3, <1>4, <2>2 DEF CM31
<1>9. ASSUME k = 0 PROVE z = MinusUnit
  <2>1. k * k - l * l = 0 - (k * k + l * l) /\ k * l + l * k = 0 BY <1>1, <1>9
  <2>2. z.re = P - 1 /\ z.im = 0 BY <1>2, <1>6, <1>7, <2>1, ZeroInM31, ResidueUnique
  <2> QED BY <1>3, <1>5, <2>2 DEF CM31
<1> QED BY <1>8, <1>9 DEF k, l, z

\* The orders of the domain's generators.
LEMMA Orders ==
  /\ OFF \in Circle /\ H \in Circle /\ OFF \in CM31 /\ H \in CM31
  /\ Power(OFF, 2 ^ LOG_DOMAIN) = MinusUnit
  /\ Power(H, 2 ^ (LOG_DOMAIN - 2)) = MinusUnit
  /\ Power(H, 2 ^ LOG_DOMAIN) = Unit
  /\ LOG_DOMAIN \in Nat /\ LOG_DOMAIN > 1
<1>1. LOG_DOMAIN \in Nat /\ LOG_DOMAIN > 1 BY QueryAssumption, CairAssumption, CosetAssumption
<1>2. OFF \in CM31 /\ H \in CM31 BY DomainClosed
<1>3. OFF \in Circle /\ H \in Circle BY <1>2, CosetAssumption DEF Circle
<1>4. LOG_DOMAIN \in 0 .. LOG_DOMAIN /\ LOG_DOMAIN - 2 \in 0 .. LOG_DOMAIN BY <1>1
<1>5. Power(OFF, 2 ^ LOG_DOMAIN) = MinusUnit BY <1>2, <1>4, DoubledIs, CosetAssumption DEF MinusUnit
<1>6. Power(H, 2 ^ (LOG_DOMAIN - 2)) = MinusUnit
  BY <1>2, <1>4, DoubledIs, CosetAssumption DEF MinusUnit
<1>7. Power(H, 2 ^ LOG_DOMAIN) = Unit
  <2> DEFINE m == LOG_DOMAIN - 2
             k == m + 1
  <2>1. m \in 0 .. LOG_DOMAIN /\ k \in 0 .. LOG_DOMAIN /\ m + 1 = k /\ k + 1 = LOG_DOMAIN BY <1>1
  <2>2. Power(H, 2 ^ m) = MinusUnit BY <1>6
  <2> HIDE DEF m
  <2>3. Power(H, 2 ^ (m + 1)) = CmMul(MinusUnit, MinusUnit) BY <1>2, <2>1, <2>2, PowerDouble
  <2>4. Power(H, 2 ^ k) = Unit BY <2>3, MinusIs
  <2> HIDE DEF k
  <2>5. Power(H, 2 ^ (k + 1)) = CmMul(Unit, Unit) BY <1>2, <2>1, <2>4, PowerDouble
  <2>6. CmMul(Unit, Unit) = Unit BY <1>2, ComplexRing
  <2>7. 2 ^ (k + 1) = 2 ^ LOG_DOMAIN BY <2>1, Zenon
  <2> QED BY <2>5, <2>6, <2>7
<1> QED BY <1>1, <1>2, <1>3, <1>5, <1>6, <1>7

\* The half-coset's points are powers, on the circle, and the rest their conjugates.
LEMMA DomainIs ==
  ASSUME NEW j \in Nat, j < HALF
  PROVE  /\ DomainPoint(j) = CmMul(OFF, Power(H, j))
         /\ DomainPoint(j) \in Circle
         /\ DomainPoint(j + HALF) = Conj(DomainPoint(j))
<1>1. H \in CM31 /\ OFF \in Circle /\ H \in Circle BY Orders
<1>2. CmPow(H, j) = Power(H, j) BY <1>1, CmPowIsPower
<1>3. DomainPoint(j) = CmMul(OFF, Power(H, j)) BY <1>2 DEF DomainPoint
<1>4. Power(H, j) \in Circle BY <1>1, CirclePower
<1>5. DomainPoint(j) \in Circle BY <1>1, <1>3, <1>4, CircleMul
<1>6. HALF \in Nat BY DomainClosed
<1>7. ~ (j + HALF < HALF) /\ (j + HALF) - HALF = j BY <1>6
<1>8. DomainPoint(j + HALF) = Conj(CmMul(OFF, CmPow(H, j))) BY <1>7 DEF DomainPoint
<1> QED BY <1>2, <1>3, <1>5, <1>8

\* No doubling of a point of the domain reaches 1: half a turn is still to come.
LEMMA NeverUnit ==
  ASSUME NEW j \in Nat, NEW k \in 0 .. LOG_DOMAIN
  PROVE  Power(CmMul(OFF, Power(H, j)), 2 ^ k) # Unit
<1> DEFINE g == Power(H, j)
           z == CmMul(OFF, g)
           n == LOG_DOMAIN
           m == 2 ^ n
<1>1. n \in 0 .. n /\ k \in 0 .. n /\ n \in 0 .. LOG_DOMAIN BY Orders
<1>2. m \in Nat
  <2> HIDE DEF n
  <2> QED BY <1>1, PowersOfTwo
<1>3. g \in CM31 /\ OFF \in CM31 /\ H \in CM31 BY Orders, PowerIs
<1>4. z \in CM31 BY <1>3, ComplexRing
<1>5. Power(H, m) = Unit /\ Power(OFF, m) = MinusUnit BY Orders
<1> HIDE DEF m
<1>6. Power(g, m) = Unit BY <1>2, <1>3, <1>5, UnitPower
<1> HIDE DEF g
<1>7. Power(z, m) = CmMul(MinusUnit, Unit) BY <1>2, <1>3, <1>5, <1>6, PowerMul
<1>8. Power(z, m) = MinusUnit BY <1>7, MinusIs, ComplexRing
<1> HIDE DEF z
<1>9. ASSUME Power(z, 2 ^ k) = Unit PROVE FALSE
  <2>1. Power(z, 2 ^ n) = Unit
    <3> HIDE DEF n
    <3> QED BY <1>1, <1>4, <1>9, UnitLater
  <2> QED BY <1>8, <2>1, MinusIs DEF m
<1> QED BY <1>9 DEF z, g

-----------------------------------------------------------------------------
\* The members of a pair: conjugates in the circle layer, and a root of -1 apart in the others.
LEMMA PairPoints ==
  ASSUME NEW i \in 0 .. (LOG_DOMAIN - 1), NEW p \in Nat
  PROVE  /\ QueryPoint((2 * p) * 2 ^ i) \in Circle
         /\ \E j \in Nat : QueryPoint((2 * p) * 2 ^ i) = CmMul(OFF, Power(H, j))
         /\ i = 0 => QueryPoint((2 * p + 1) * 2 ^ i) = Conj(QueryPoint((2 * p) * 2 ^ i))
         /\ i > 0 => QueryPoint((2 * p + 1) * 2 ^ i)
                       = CmMul(QueryPoint((2 * p) * 2 ^ i), Power(H, 2 ^ (LOG_DOMAIN - 1 - i)))
<1> DEFINE e == (2 * p) * 2 ^ i
           o == (2 * p + 1) * 2 ^ i
           j == BitRev(e)
           N == LOG_DOMAIN - 1 - i
           d == 2 ^ N
<1>1. /\ j \in Nat /\ j < HALF /\ BitRev(o) = j + d
      /\ i > 0 => BitRev(o) < HALF
  BY PairIndices
<1>2. /\ N \in 0 .. LOG_DOMAIN
      /\ i = 0 => N = LOG_DOMAIN - 1
  BY Orders
<1>3. d \in Nat
  <2> HIDE DEF N
  <2> QED BY <1>2, PowersOfTwo
<1>4. i = 0 => d = HALF BY <1>2 DEF HALF
<1>5. QueryPoint(e) = DomainPoint(j) /\ QueryPoint(o) = DomainPoint(BitRev(o)) BY DEF QueryPoint
<1> HIDE DEF e, o, j, d
<1>6. QueryPoint(e) \in Circle /\ QueryPoint(e) = CmMul(OFF, Power(H, j)) BY <1>1, <1>5, DomainIs
<1>7. ASSUME i = 0 PROVE QueryPoint(o) = Conj(QueryPoint(e))
  <2>1. BitRev(o) = j + HALF BY <1>1, <1>4, <1>7
  <2> QED BY <1>1, <1>5, <2>1, DomainIs
<1>8. ASSUME i > 0 PROVE QueryPoint(o) = CmMul(QueryPoint(e), Power(H, d))
  <2>1. j + d \in Nat /\ j + d < HALF BY <1>1, <1>3, <1>8
  <2>2. QueryPoint(o) = CmMul(OFF, Power(H, j + d)) BY <1>1, <1>5, <2>1, DomainIs
  <2>3. OFF \in CM31 /\ H \in CM31 BY Orders
  <2>4. Power(H, j) \in CM31 /\ Power(H, d) \in CM31 BY <1>1, <1>3, <2>3, PowerIs
  <2>5. Power(H, j + d) = CmMul(Power(H, j), Power(H, d)) BY <1>1, <1>3, <2>3, PowerAdd
  <2>6. CmMul(CmMul(OFF, Power(H, j)), Power(H, d)) = CmMul(OFF, CmMul(Power(H, j), Power(H, d)))
    BY <2>3, <2>4, ComplexRing
  <2> QED BY <1>6, <2>2, <2>5, <2>6
<1> QED BY <1>1, <1>6, <1>7, <1>8 DEF e, o, d

\* A pair of a line layer stands at opposite points, not at zero.
LEMMA LinePairs ==
  ASSUME NEW i \in 1 .. (LOG_DOMAIN - 1), NEW p \in Nat
  PROVE  /\ PiTimes(i - 1, QueryX((2 * p + 1) * 2 ^ i))
              = M31Sub(0, PiTimes(i - 1, QueryX((2 * p) * 2 ^ i)))
         /\ PiTimes(i - 1, QueryX((2 * p) * 2 ^ i)) # 0
<1> DEFINE e == (2 * p) * 2 ^ i
           o == (2 * p + 1) * 2 ^ i
           z == QueryPoint(e)
           k == i - 1
           N == LOG_DOMAIN - 1 - i
           m == 2 ^ k
           g == Power(H, 2 ^ N)
           w == Power(z, m)
<1>1. LOG_DOMAIN \in Nat /\ H \in CM31 /\ H \in Circle BY Orders
<1>2. /\ i \in 0 .. (LOG_DOMAIN - 1) /\ i > 0 /\ k \in 0 .. LOG_DOMAIN /\ N \in 0 .. LOG_DOMAIN
      /\ k + 1 = i /\ i + 1 \in 0 .. LOG_DOMAIN /\ i \in 0 .. LOG_DOMAIN
      /\ N + k = LOG_DOMAIN - 2 /\ N + k <= LOG_DOMAIN
  BY <1>1
<1>3. /\ z \in Circle /\ QueryPoint(o) = CmMul(z, g)
      /\ \E j \in Nat : z = CmMul(OFF, Power(H, j))
  BY <1>2, PairPoints
<1> HIDE DEF e, o, z, k, N
<1>4. m \in Nat BY <1>2, PowersOfTwo
<1>5. Power(g, m) = MinusUnit
  <2>1. Power(g, m) = Power(H, 2 ^ (N + k)) BY <1>1, <1>2, PowerTower
  <2>2. 2 ^ (N + k) = 2 ^ (LOG_DOMAIN - 2) BY <1>2, Zenon
  <2> QED BY <2>1, <2>2, Orders
<1>6. 2 ^ N \in Nat BY <1>2, PowersOfTwo
<1>7. g \in Circle BY <1>1, <1>6, CirclePower
<1> HIDE DEF g
<1>8. z \in CM31 /\ g \in CM31 /\ CmMul(z, g) \in Circle BY <1>3, <1>7, CircleNorm, CircleMul
<1>9. w \in Circle /\ w \in CM31 BY <1>3, <1>4, CirclePower, CircleNorm
<1>10. Power(CmMul(z, g), m) = CmMul(w, MinusUnit) BY <1>4, <1>5, <1>8, PowerMul
<1>11. PiTimes(k, z.re) = w.re /\ PiTimes(k, CmMul(z, g).re) = Power(CmMul(z, g), m).re
  BY <1>2, <1>3, <1>8, PiTimesDoubles
<1>12. PiTimes(k, QueryX(o)) = M31Sub(0, PiTimes(k, QueryX(e)))
  <2>1. QueryX(o) = CmMul(z, g).re /\ QueryX(e) = z.re BY <1>3 DEF QueryX, z
  <2>2. CmMul(w, MinusUnit).re = M31Sub(0, w.re) BY <1>9, MinusIs
  <2> HIDE DEF w, m
  <2> QED BY <1>10, <1>11, <2>1, <2>2
<1>13. ASSUME w.re = 0 PROVE FALSE
  <2>1. CmMul(w, w) = MinusUnit BY <1>9, <1>13, AxisSquares
  <2>2. Power(z, 2 ^ (k + 1)) = CmMul(w, w) BY <1>2, <1>8, PowerDouble
  <2>3. 2 ^ (k + 1) = 2 ^ i BY <1>2, Zenon
  <2>4. Power(z, 2 ^ i) = MinusUnit BY <2>1, <2>2, <2>3
  <2>5. Power(z, 2 ^ (i + 1)) = CmMul(MinusUnit, MinusUnit) BY <1>2, <1>8, <2>4, PowerDouble
  <2>6. Power(z, 2 ^ (i + 1)) = Unit BY <2>5, MinusIs
  <2>7. PICK j \in Nat : z = CmMul(OFF, Power(H, j)) BY <1>3
  <2> DEFINE h == i + 1
  <2>8. h \in 0 .. LOG_DOMAIN /\ Power(z, 2 ^ h) = Unit BY <1>2, <2>6
  <2> HIDE DEF h
  <2> QED BY <2>7, <2>8, NeverUnit
<1>14. QueryX(e) = z.re BY DEF QueryX, z
<1> HIDE DEF w
<1>15. PiTimes(k, QueryX(e)) # 0 BY <1>11, <1>13, <1>14
<1> QED BY <1>12, <1>15 DEF e, o, k

\* A pair of the circle layer stands at conjugate points, off the axis.
LEMMA CirclePairs ==
  ASSUME NEW p \in Nat
  PROVE  /\ QueryPoint(2 * p + 1).im = M31Sub(0, QueryPoint(2 * p).im)
         /\ QueryPoint(2 * p).im # 0
<1> DEFINE z == QueryPoint(2 * p)
<1>1. 2 ^ 0 = 1 /\ 0 \in 0 .. (LOG_DOMAIN - 1) /\ 1 \in 0 .. LOG_DOMAIN /\ 0 \in 0 .. LOG_DOMAIN
  BY Orders, DoublingAssumption
<1>2. (2 * p) * 2 ^ 0 = 2 * p /\ (2 * p + 1) * 2 ^ 0 = 2 * p + 1 BY <1>1
<1>3. /\ z \in Circle /\ QueryPoint(2 * p + 1) = Conj(z)
      /\ \E j \in Nat : z = CmMul(OFF, Power(H, j))
  BY <1>1, <1>2, PairPoints
<1> HIDE DEF z
<1>4. Conj(z).im = M31Sub(0, z.im) BY DEF Conj, Cm
<1>5. ASSUME z.im = 0 PROVE FALSE
  <2>1. CmMul(z, z) = Unit /\ z \in CM31 BY <1>3, <1>5, AxisSquares, CircleNorm
  <2>2. Power(z, 2 ^ (0 + 1)) = CmMul(Power(z, 2 ^ 0), Power(z, 2 ^ 0)) /\ Power(z, 2 ^ 0) = z
    BY <1>1, <2>1, PowerDouble
  <2>3. 0 + 1 = 1 OBVIOUS
  <2>4. 2 ^ (0 + 1) = 2 ^ 1 BY <2>3, Zenon
  <2>5. Power(z, 2 ^ 1) = Unit BY <2>1, <2>2, <2>4
  <2>6. PICK j \in Nat : z = CmMul(OFF, Power(H, j)) BY <1>3
  <2> QED BY <1>1, <2>5, <2>6, NeverUnit
<1> QED BY <1>3, <1>4, <1>5 DEF z

\* The sources of a layer, as points of the domain.
LEMMA SourceIs ==
  ASSUME NEW i \in 0 .. LOG_DOMAIN, NEW p \in Nat
  PROVE  /\ i = 0 => Source(i, p) = QueryPoint(p).im
         /\ i # 0 => Source(i, p) = PiTimes(i - 1, QueryX(p * 2 ^ i))
<1>1. Source(i, p) = IF i = 0 THEN QueryPoint(p).im ELSE SourceTable(i, QueryX(p * 2 ^ i))[i]
  BY Zenon DEF Source, SourceTable
<1>2. ASSUME i # 0 PROVE SourceTable(i, QueryX(p * 2 ^ i))[i] = PiTimes(i - 1, QueryX(p * 2 ^ i))
  <2> DEFINE q == p * 2 ^ i
  <2>1. i \in Nat \ {0} BY <1>2, QueryAssumption
  <2>2. 2 ^ i \in Nat BY PowersOfTwo
  <2>3. q \in Nat BY <2>2
  <2> HIDE DEF q
  <2>4. QueryX(q) \in M31 BY <2>3, QueryPointClosed DEF QueryX, CM31
  <2>5. SourceTable(i, QueryX(q))[i] = PiTimes(i - 1, QueryX(q)) BY <2>1, <2>4, SourceTableIs
  <2> QED BY <2>5 DEF q
<1> QED BY <1>1, <1>2

\* One pair of FoldSourcesPair, down to the layer of one.
LEMMA PairsFold ==
  ASSUME NEW i \in 0 .. (LOG_DOMAIN - 1), NEW p \in 0 .. (2 ^ (LOG_DOMAIN - 1 - i) - 1)
  PROVE  /\ Twiddles[i][p] # 0
         /\ Source(i, 2 * p) = Twiddles[i][p]
         /\ Source(i, 2 * p + 1) = M31Sub(0, Twiddles[i][p])
         /\ i > 0 => PiX(Twiddles[i][p]) = Source(i + 1, p)
         /\ i = 0 => QueryX(2 * p) = Source(1, p)
<1> DEFINE N == LOG_DOMAIN - 1 - i
           m == 2 ^ N
           c == 2 ^ i
           tw == Twiddles[i][p]
<1>1. LOG_DOMAIN \in Nat /\ LOG_DOMAIN > 1 BY Orders
<1>2. /\ i \in 0 .. (LOG_DOMAIN - 1) /\ i \in 0 .. LOG_DOMAIN /\ i + 1 \in 0 .. LOG_DOMAIN
      /\ N \in 0 .. LOG_DOMAIN /\ i \in Nat /\ 1 \in 0 .. LOG_DOMAIN
  BY <1>1
<1>3. m \in Nat /\ p \in 0 .. (m - 1)
  <2> HIDE DEF N
  <2> QED BY <1>2, PowersOfTwo DEF N
<1>4. Twiddles[i] = [n \in 0 .. (m - 1) |-> PairTwiddle(i, 2 * n)] BY <1>2 DEF Twiddles
<1> HIDE DEF m, N
<1>5. tw = PairTwiddle(i, 2 * p) BY <1>3, <1>4
<1>6. p \in Nat /\ 2 * p \in Nat /\ 2 * p + 1 \in Nat BY <1>3
<1>7. c \in Nat /\ 2 ^ (i + 1) = 2 * c BY <1>2, PowersOfTwo
<1>8. p * 2 ^ (i + 1) = (2 * p) * c BY <1>6, <1>7
<1> HIDE DEF tw
<1>9. CASE i = 0
  <2>1. tw = QueryPoint(2 * p).im BY <1>2, <1>5, <1>6, <1>9, PairTwiddleIs
  <2>2. Source(i, 2 * p) = QueryPoint(2 * p).im /\ Source(i, 2 * p + 1) = QueryPoint(2 * p + 1).im
    BY <1>2, <1>6, <1>9, SourceIs
  <2>3. QueryPoint(2 * p + 1).im = M31Sub(0, QueryPoint(2 * p).im) /\ QueryPoint(2 * p).im # 0
    BY <1>6, CirclePairs
  <2>4. Source(1, p) = QueryX(2 * p)
    <3>1. 2 ^ 1 = 2
      <4>1. 2 ^ 0 = 1 /\ 2 ^ (0 + 1) = 2 * 2 ^ 0 BY <1>1, DoublingAssumption
      <4>2. 0 + 1 = 1 OBVIOUS
      <4>3. 2 ^ (0 + 1) = 2 ^ 1 BY <4>2, Zenon
      <4> QED BY <4>1, <4>3
    <3>2. p * 2 ^ 1 = 2 * p BY <1>6, <3>1
    <3>3. Source(1, p) = PiTimes(1 - 1, QueryX(p * 2 ^ 1))
      <4>1. 1 # 0 OBVIOUS
      <4>2. \A n \in 0 .. LOG_DOMAIN : n # 0 => Source(n, p) = PiTimes(n - 1, QueryX(p * 2 ^ n))
        BY <1>6, SourceIs
      <4> QED BY <1>2, <4>1, <4>2, Zenon
    <3>4. 1 - 1 = 0 OBVIOUS
    <3>5. QueryX(2 * p) \in M31 BY <1>6, QueryPointClosed DEF QueryX, CM31
    <3>6. PiTimes(0, QueryX(2 * p)) = QueryX(2 * p) BY <3>5, PiTimesIs
    <3> QED BY <3>2, <3>3, <3>4, <3>6
  <2> QED BY <1>9, <2>1, <2>2, <2>3, <2>4 DEF tw
<1>10. CASE i # 0
  <2> DEFINE k == i - 1
             x == QueryX((2 * p) * c)
             y == QueryX((2 * p + 1) * c)
  <2>1. i \in 1 .. (LOG_DOMAIN - 1) /\ k \in Nat /\ k + 1 = i /\ (i + 1) - 1 = i /\ i + 1 # 0
    BY <1>1, <1>2, <1>10
  <2>2. tw = PiTimes(k, x) BY <1>2, <1>5, <1>6, <1>10, PairTwiddleIs
  <2>3. Source(i, 2 * p) = PiTimes(k, x) /\ Source(i, 2 * p + 1) = PiTimes(k, y)
    BY <1>2, <1>6, <1>10, SourceIs
  <2>4. PiTimes(k, y) = M31Sub(0, PiTimes(k, x)) /\ PiTimes(k, x) # 0 BY <1>6, <2>1, LinePairs
  <2>5. Source(i + 1, p) = PiTimes(i, x)
    <3>1. Source(i + 1, p) = PiTimes((i + 1) - 1, QueryX(p * 2 ^ (i + 1)))
      BY <1>2, <1>6, <2>1, SourceIs
    <3> QED BY <1>8, <2>1, <3>1
  <2>6. x \in M31
    <3>1. (2 * p) * c \in Nat BY <1>6, <1>7
    <3> QED BY <3>1, QueryPointClosed DEF QueryX, CM31
  <2> HIDE DEF x, y, k
  <2>7. PiTimes(k + 1, x) = PiX(PiTimes(k, x)) BY <2>1, <2>6, PiTimesIs
  <2>8. PiX(tw) = Source(i + 1, p) BY <2>1, <2>2, <2>5, <2>7
  <2> QED BY <1>10, <2>2, <2>3, <2>4, <2>8 DEF tw
<1> QED BY <1>9, <1>10

(***************************************************************************)
(* FoldSourcesPair for every domain: the twiddle query.clar computes for a *)
(* pair of any layer is the source of its left member and minus that of    *)
(* its right one, is not zero, and doubles to the source below, so that    *)
(* the positions p and p / 2 the driver folds between are those of one     *)
(* point and its image.                                                    *)
(***************************************************************************)
THEOREM SourcesPair == Spec => []FoldSourcesPair
<1>1. \A i \in 0 .. (LOG_DOMAIN - 2) : i \in 0 .. (LOG_DOMAIN - 1) BY Orders
<1>2. FoldSourcesPair BY <1>1, PairsFold DEF FoldSourcesPair
<1> QED BY <1>2, PTL

-----------------------------------------------------------------------------
\* The two members of a pair of the circle layer are conjugates.
LEMMA PairConjugates ==
  ASSUME NEW p \in Nat
  PROVE  QueryPoint(2 * p + 1) = Conj(QueryPoint(2 * p))
<1>1. 2 ^ 0 = 1 /\ 0 \in 0 .. (LOG_DOMAIN - 1) BY Orders, DoublingAssumption
<1>2. (2 * p) * 2 ^ 0 = 2 * p /\ (2 * p + 1) * 2 ^ 0 = 2 * p + 1 BY <1>1
<1>3. \A i \in 0 .. (LOG_DOMAIN - 1) :
        i = 0 => QueryPoint((2 * p + 1) * 2 ^ i) = Conj(QueryPoint((2 * p) * 2 ^ i))
  BY PairPoints
<1>4. QueryPoint((2 * p + 1) * 2 ^ 0) = Conj(QueryPoint((2 * p) * 2 ^ 0)) BY <1>1, <1>3, Zenon
<1> QED BY <1>2, <1>4

\* One limb of a pair, recombined at the point of either member: that member's.
LEMMA LimbTakes ==
  ASSUME NEW x \in M31, x # 0, NEW a \in M31, NEW b \in M31
  PROVE  LET half == M31Inv(2)
             o == M31Mul(M31Sub(a, b), M31Inv(x))
         IN  /\ M31Mul(M31Add(M31Add(a, b), M31Mul(o, x)), half) = a
             /\ M31Mul(M31Add(M31Add(a, b), M31Mul(o, M31Sub(0, x))), half) = b
<1> DEFINE half == M31Inv(2)
           g == M31Inv(x)
           s == M31Add(a, b)
           d == M31Sub(a, b)
           o == M31Mul(d, g)
<1>1. 2 \in M31 \ {0} BY FieldAssumption DEF M31
<1>2. /\ half \in M31 /\ M31Mul(2, half) = 1
      /\ g \in M31 /\ M31Mul(x, g) = 1
  BY <1>1, InverseAssumption
<1>3. M31Mul(g, x) = 1
  <2>1. x * g = g * x BY <1>2, M31Bounds
  <2> QED BY <1>2, <2>1 DEF M31Mul
<1>4. /\ s \in M31 /\ d \in M31
      /\ M31Add(s, d) = M31Add(a, a) /\ M31Sub(s, d) = M31Add(b, b)
  BY M31Bounds, M31Closed, M31Butterfly
<1> HIDE DEF half, g, s, d
<1>5. o \in M31 BY <1>2, <1>4, M31Bounds, M31Closed
<1>6. M31Mul(o, x) = d BY <1>2, <1>3, <1>4, M31Undone
<1>7. ASSUME NEW n \in M31 PROVE M31Mul(M31Add(n, n), half) = n
  <2>1. M31Add(n, n) = M31Mul(n, 2)
    <3>1. n \in Nat BY M31Bounds
    <3>2. n + n = n * 2 BY <3>1
    <3> QED BY <3>2 DEF M31Add, M31Mul
  <2> QED BY <1>1, <1>2, <2>1, M31Undone
<1>8. M31Add(s, M31Mul(o, M31Sub(0, x))) = M31Sub(s, d)
  <2>1. Residue(o, o) /\ Residue(x, x) /\ Residue(0, 0) /\ Residue(s, s)
    BY <1>4, <1>5, ZeroInM31, ResidueSelf
  <2>2. o \in Int /\ x \in Int /\ s \in Int BY <1>4, <1>5, M31Bounds
  <2> HIDE DEF o
  <2>3. Residue(M31Add(s, M31Mul(o, M31Sub(0, x))), s + o * (0 - x)) BY <2>1, ResidueOps
  <2>4. Residue(M31Sub(s, M31Mul(o, x)), s - o * x) BY <2>1, ResidueOps
  <2>5. s + o * (0 - x) = s - o * x BY <2>2
  <2> QED BY <1>6, <2>3, <2>4, <2>5, ResidueUnique
<1>9. M31Mul(M31Add(s, M31Mul(o, x)), half) = a BY <1>4, <1>6, <1>7
<1>10. M31Mul(M31Add(s, M31Mul(o, M31Sub(0, x))), half) = b BY <1>4, <1>7, <1>8
<1> QED BY <1>9, <1>10 DEF half, s, o, d, g

\* A pair halved at the point of one of its members: that member's value.
LEMMA HalvedTakes ==
  ASSUME NEW prev, NEW n, NEW tw \in M31, tw # 0,
         prev[2 * n] \in QM31, prev[2 * n + 1] \in QM31
  PROVE  /\ Halved(prev, Qm31FromM31(tw), n, tw) = prev[2 * n]
         /\ Halved(prev, Qm31FromM31(M31Sub(0, tw)), n, tw) = prev[2 * n + 1]
<1> DEFINE a == prev[2 * n]
           b == prev[2 * n + 1]
           half == M31Inv(2)
           odd == Qm31MulM31(Qm31Sub(a, b), M31Inv(tw))
           Put(s) == Qm31MulM31(Qm31Add(Qm31Add(a, b), Qm31MulM31(odd, s)), half)
<1>1. a \in QM31 /\ b \in QM31 OBVIOUS
<1>2. ASSUME NEW s \in M31 PROVE Halved(prev, Qm31FromM31(s), n, tw) = Put(s)
  <2>1. odd \in QM31
    <3>1. M31Inv(tw) \in M31 /\ Qm31Sub(a, b) \in QM31 BY <1>1, InverseClosed, Qm31Closed
    <3> QED BY <3>1, MulM31Closed, M31Bounds
  <2>2. Halved(prev, Qm31FromM31(s), n, tw)
          = Qm31MulM31(Qm31Add(Qm31Add(a, b), Qm31Mul(Qm31FromM31(s), odd)), half)
    BY DEF Halved
  <2> HIDE DEF a, b, half, odd
  <2>3. Qm31Mul(Qm31FromM31(s), odd) = Qm31MulM31(odd, s) BY <2>1, ScalarIsMul, SecureRing
  <2> QED BY <2>2, <2>3
<1> HIDE DEF a, b
<1>3. /\ a.c0 \in M31 /\ a.c1 \in M31 /\ a.c2 \in M31 /\ a.c3 \in M31
      /\ b.c0 \in M31 /\ b.c1 \in M31 /\ b.c2 \in M31 /\ b.c3 \in M31
      /\ a = [c0 |-> a.c0, c1 |-> a.c1, c2 |-> a.c2, c3 |-> a.c3]
      /\ b = [c0 |-> b.c0, c1 |-> b.c1, c2 |-> b.c2, c3 |-> b.c3]
  BY <1>1 DEF QM31
<1> DEFINE Limb(u, v, s) ==
             M31Mul(M31Add(M31Add(u, v), M31Mul(M31Mul(M31Sub(u, v), M31Inv(tw)), s)), half)
<1>4. \A u, v \in M31 : Limb(u, v, tw) = u /\ Limb(u, v, M31Sub(0, tw)) = v BY LimbTakes
<1>5. ASSUME NEW s
      PROVE  Put(s) = [c0 |-> Limb(a.c0, b.c0, s), c1 |-> Limb(a.c1, b.c1, s),
                       c2 |-> Limb(a.c2, b.c2, s), c3 |-> Limb(a.c3, b.c3, s)]
  BY DEF Qm31MulM31, Qm31Add, Qm31Sub
<1> HIDE DEF Limb, Put
<1>6. Put(tw) = a BY <1>3, <1>4, <1>5
<1>7. Put(M31Sub(0, tw)) = b BY <1>3, <1>4, <1>5
<1>8. M31Sub(0, tw) \in M31 BY ZeroInM31, M31Bounds, M31Closed
<1> QED BY <1>2, <1>6, <1>7, <1>8 DEF a, b

\* The doubling map is one on the base field and on its copy in the secure field, and even.
LEMMA QpiIs ==
  ASSUME NEW x \in M31
  PROVE  Qpi(Qm31FromM31(x)) = Qm31FromM31(PiX(x)) /\ PiX(M31Sub(0, x)) = PiX(x)
<1> DEFINE e == Qm31FromM31(x)
           v == M31Mul(x, x)
           w == M31Sub(M31Add(v, v), 1)
<1>1. v \in M31 /\ M31Add(v, v) \in M31 /\ x \in Int BY M31Bounds, M31Closed
<1>2. Residue(x, x) /\ Residue(0, 0) /\ Residue(1, 1) /\ Residue(2, 2)
  <2>1. 2 \in M31 BY FieldAssumption DEF M31
  <2> QED BY <2>1, ZeroInM31, ResidueSelf
<1>3. Residue(w, (x * x + x * x) - 1) BY <1>2, ResidueOps
<1>4. Residue(PiX(x), 2 * (x * x) - 1) BY <1>2, ResidueOps DEF PiX
<1>5. 2 * (x * x) - 1 = (x * x + x * x) - 1 BY <1>1
<1>6. w = PiX(x) BY <1>3, <1>4, <1>5, ResidueUnique
<1>7. PiX(M31Sub(0, x)) = PiX(x)
  <2>1. Residue(M31Sub(0, x), 0 - x) BY <1>2, ResidueOps
  <2>2. Residue(PiX(M31Sub(0, x)), 2 * ((0 - x) * (0 - x)) - 1) BY <1>2, <2>1, ResidueOps DEF PiX
  <2>3. 2 * ((0 - x) * (0 - x)) - 1 = 2 * (x * x) - 1 BY <1>1
  <2> QED BY <1>4, <2>2, <2>3, ResidueUnique
<1>8. Qm31Mul(e, e) = Qm31FromM31(v)
  <2>1. e \in QM31 /\ Qm31Mul(e, e) = Qm31MulM31(e, x)
    <3>1. Qm31FromM31(x) \in QM31 BY <1>2, ZeroInM31 DEF Qm31FromM31, QM31
    <3>2. \A a \in QM31 : Qm31MulM31(a, x) = Qm31Mul(a, Qm31FromM31(x)) BY ScalarIsMul
    <3> QED BY <3>1, <3>2
  <2>2. M31Mul(0, x) = 0
    <3>1. Residue(M31Mul(0, x), 0 * x) BY <1>2, ResidueOps
    <3>2. 0 * x = 0 BY <1>1
    <3> QED BY <1>2, <3>1, <3>2, ResidueUnique
  <2> QED BY <2>1, <2>2 DEF Qm31MulM31, Qm31FromM31
<1>9. ASSUME NEW n \in M31, NEW m \in M31
      PROVE  /\ Qm31Add(Qm31FromM31(n), Qm31FromM31(m)) = Qm31FromM31(M31Add(n, m))
             /\ Qm31Sub(Qm31FromM31(n), Qm31FromM31(m)) = Qm31FromM31(M31Sub(n, m))
  <2>1. M31Add(0, 0) = 0 /\ M31Sub(0, 0) = 0
    <3>1. Residue(M31Add(0, 0), 0 + 0) /\ Residue(M31Sub(0, 0), 0 - 0) BY <1>2, ResidueOps
    <3>2. 0 + 0 = 0 /\ 0 - 0 = 0 OBVIOUS
    <3> QED BY <1>2, <3>1, <3>2, ResidueUnique
  <2> QED BY <2>1 DEF Qm31Add, Qm31Sub, Qm31FromM31
<1>10. ONE = Qm31FromM31(1) BY DEF ONE
<1> HIDE DEF v
<1>11. Qm31Add(Qm31FromM31(v), Qm31FromM31(v)) = Qm31FromM31(M31Add(v, v)) BY <1>1, <1>9
<1>12. Qm31Sub(Qm31FromM31(M31Add(v, v)), ONE) = Qm31FromM31(w) BY <1>1, <1>9, <1>10, ZeroInM31
<1> QED BY <1>6, <1>7, <1>8, <1>11, <1>12 DEF Qpi

(***************************************************************************)
(* EvalAt interpolates: whatever the column, its evaluation over the       *)
(* domain of query.clar at the point of a position is the value there.     *)
(* (The layers of EvalAt keep, in the cell above the position, its value:  *)
(* the point's factor of a layer is the cell's source, which is the pair's *)
(* twiddle for a left member and minus it for a right one.)                *)
(***************************************************************************)
THEOREM EvaluationInterpolates ==
  ASSUME NEW col \in [Positions -> QM31], NEW q \in Positions
  PROVE  EvalAt(col, LOG_DOMAIN, Twiddles, IntoEf(Points[q])) = col[q]
<1> DEFINE N == LOG_DOMAIN
           pt == IntoEf(Points[q])
           at == AtOf(N, pt)
           t == EvalLayers(col, N, Twiddles, pt, at)
           Cell(i, k) == /\ at[i] = Qm31FromM31(Source(i, k))
                         /\ t[i][k] = col[q]
                         /\ i = 0 => k = q
           U == {i \in 0 .. N : \E k \in 0 .. (2 ^ (N - i) - 1) : Cell(i, k)}
<1>1. N \in Nat \ {0} /\ N \in 0 .. N /\ Positions = 0 .. (2 ^ N - 1) /\ q \in Nat BY SizesAre
<1>2. pt \in SecurePoints BY PointsClosed
<1>3. pt.x = Qm31FromM31(QueryX(q)) /\ pt.y = Qm31FromM31(QueryPoint(q).im)
  BY DEF IntoEf, Points, QueryX
<1>4. TwiddlesFor(Twiddles, N) BY TwiddlesFit
<1>5. /\ t[0] = col
      /\ \A i \in 1 .. N : \A n \in 0 .. (2 ^ (N - i) - 1) :
           t[i][n] = Halved(t[i - 1], at[i - 1], n, Twiddles[i - 1][n])
      /\ \A i \in 0 .. N : t[i] \in [0 .. (2 ^ (N - i) - 1) -> QM31]
  BY <1>1, <1>2, <1>4, LayersAre
<1>6. at[0] = pt.y /\ \A i \in 1 .. N : at[i] = IF i = 1 THEN pt.x ELSE Qpi(at[i - 1])
  BY <1>1, <1>2, AtOfClosed
<1> HIDE DEF t, at, pt
<1>7. 0 \in U
  <2>1. N - 0 = N /\ 0 \in 0 .. N BY <1>1
  <2>2. 2 ^ (N - 0) = 2 ^ N BY <2>1, Zenon
  <2>3. q \in 0 .. (2 ^ (N - 0) - 1) BY <1>1, <2>2
  <2>4. Source(0, q) = QueryPoint(q).im
    <3>1. \A i \in 0 .. N : i = 0 => Source(i, q) = QueryPoint(q).im BY <1>1, SourceIs
    <3> QED BY <2>1, <3>1, Zenon
  <2>5. Cell(0, q) BY <1>3, <1>5, <1>6, <2>4
  <2> HIDE DEF Cell
  <2> QED BY <2>1, <2>3, <2>5
<1>8. ASSUME NEW i \in 1 .. N, i - 1 \in U PROVE i \in U
  <2> DEFINE j == i - 1
             m == 2 ^ (N - i)
  <2>1. /\ j \in 0 .. N /\ j \in 0 .. (N - 1) /\ N - i \in 0 .. N /\ N - j = (N - i) + 1
        /\ N - 1 - j = N - i /\ i \in 0 .. N /\ j + 1 = i /\ j \in Nat
    BY <1>1
  <2>2. m \in Nat /\ 2 ^ (N - j) = 2 * m
    <3> DEFINE l == N - i
    <3>1. l \in 0 .. N /\ N - j = l + 1 BY <2>1
    <3> HIDE DEF l
    <3>2. 2 ^ l \in Nat /\ 2 ^ (l + 1) = 2 * 2 ^ l BY <3>1, PowersOfTwo
    <3>3. 2 ^ (N - j) = 2 ^ (l + 1) BY <3>1, Zenon
    <3> QED BY <3>2, <3>3 DEF l
  <2>3. PICK k \in 0 .. (2 ^ (N - j) - 1) : Cell(j, k) BY <1>8
  <2>4. 2 ^ (N - 1 - j) = m BY <2>1, Zenon
  <2> HIDE DEF m
  <2>5. k \in 0 .. (2 * m - 1) BY <2>2, <2>3
  <2>6. PICK n \in 0 .. (m - 1) : k = 2 * n \/ k = 2 * n + 1
    <3>1. k \div 2 \in 0 .. (m - 1) /\ (k = 2 * (k \div 2) \/ k = 2 * (k \div 2) + 1)
      BY <2>2, <2>5
    <3> QED BY <3>1
  <2> DEFINE tw == Twiddles[j][n]
  <2>7. n \in 0 .. (2 ^ (N - 1 - j) - 1) BY <2>4, <2>6
  <2>8. /\ tw # 0 /\ Source(j, 2 * n) = tw /\ Source(j, 2 * n + 1) = M31Sub(0, tw)
        /\ j > 0 => PiX(tw) = Source(j + 1, n)
        /\ j = 0 => QueryX(2 * n) = Source(1, n)
    BY <2>1, <2>7, PairsFold
  <2>9. tw \in M31 BY <1>4, <2>1, <2>7 DEF TwiddlesFor
  <2>10. t[j] \in [0 .. (2 * m - 1) -> QM31] BY <1>5, <2>1, <2>2
  <2>11. t[j][2 * n] \in QM31 /\ t[j][2 * n + 1] \in QM31
    <3>1. 2 * n \in 0 .. (2 * m - 1) /\ 2 * n + 1 \in 0 .. (2 * m - 1) BY <2>2, <2>6
    <3> QED BY <2>10, <3>1
  <2>12. t[i][n] = Halved(t[j], at[j], n, tw)
    <3>1. n \in 0 .. (2 ^ (N - i) - 1) BY <2>6 DEF m
    <3> QED BY <1>5, <3>1
  <2> HIDE DEF tw
  <2>13. t[i][n] = col[q]
    <3>1. /\ Halved(t[j], Qm31FromM31(tw), n, tw) = t[j][2 * n]
          /\ Halved(t[j], Qm31FromM31(M31Sub(0, tw)), n, tw) = t[j][2 * n + 1]
      BY <2>8, <2>9, <2>11, HalvedTakes
    <3> QED BY <2>3, <2>6, <2>8, <2>12, <3>1
  <2>14. at[i] = Qm31FromM31(Source(i, n))
    <3>1. CASE j = 0
      <4>1. i = 1 /\ k = q BY <2>1, <2>3, <3>1
      <4>2. QueryX(q) = QueryX(2 * n)
        <5>1. QueryX(2 * n + 1) = QueryX(2 * n)
          <6>1. n \in Nat BY <2>2, <2>6
          <6>2. QueryPoint(2 * n + 1) = Conj(QueryPoint(2 * n)) BY <6>1, PairConjugates
          <6> QED BY <6>2 DEF QueryX, Conj, Cm
        <5> QED BY <2>6, <4>1, <5>1
      <4> QED BY <1>3, <1>6, <2>8, <3>1, <4>1, <4>2
    <3>2. CASE j # 0
      <4>1. at[i] = Qpi(at[j]) BY <1>6, <2>1, <3>2
      <4>2. /\ Qpi(Qm31FromM31(tw)) = Qm31FromM31(PiX(tw))
            /\ Qpi(Qm31FromM31(M31Sub(0, tw))) = Qm31FromM31(PiX(M31Sub(0, tw)))
            /\ PiX(M31Sub(0, tw)) = PiX(tw)
        <5>1. M31Sub(0, tw) \in M31 BY <2>9, ZeroInM31, M31Bounds, M31Closed
        <5> QED BY <2>9, <5>1, QpiIs
      <4>3. at[j] = Qm31FromM31(tw) \/ at[j] = Qm31FromM31(M31Sub(0, tw)) BY <2>3, <2>6, <2>8
      <4>4. PiX(tw) = Source(i, n) BY <2>1, <2>8, <3>2
      <4> QED BY <4>1, <4>2, <4>3, <4>4
    <3> QED BY <3>1, <3>2
  <2>15. Cell(i, n) BY <2>1, <2>13, <2>14
  <2>16. n \in 0 .. (2 ^ (N - i) - 1) BY <2>6 DEF m
  <2> HIDE DEF Cell
  <2> QED BY <2>1, <2>15, <2>16
<1> HIDE DEF U
<1>9. N \in U BY <1>1, <1>7, <1>8, UpTo
<1>10. t[N][0] = col[q]
  <2>1. 2 ^ (N - N) = 1
    <3>1. N - N = 0 BY <1>1
    <3>2. 2 ^ (N - N) = 2 ^ 0 BY <3>1, Zenon
    <3> QED BY <3>2, DoublingAssumption
  <2>2. PICK k \in 0 .. (2 ^ (N - N) - 1) : t[N][k] = col[q] BY <1>9 DEF U
  <2>3. k = 0 BY <2>1, <2>2
  <2> QED BY <2>2, <2>3
<1> QED BY <1>10, EvalAtIs DEF t, at, pt

-----------------------------------------------------------------------------
\* What the wire carries for an element: four unsigned limbs, reduced or not.
Unreduced == [c0 : Nat, c1 : Nat, c2 : Nat, c3 : Nat]

\* The two operations of the row on an opening reduce it.
LEMMA UnreducedClosed ==
  ASSUME NEW v \in Unreduced, NEW a \in QM31
  PROVE  Qm31Sub(ConjU(v), v) \in QM31 /\ Qm31Mul(v, a) \in QM31
<1>1. P \in Nat /\ P > 2 BY FieldAssumption
<1>2. ASSUME NEW n \in Int PROVE n % P \in M31 BY <1>1 DEF M31
<1>3. \A m, n \in Int : M31Add(m, n) \in M31 /\ M31Sub(m, n) \in M31 /\ M31Mul(m, n) \in M31
  <2> SUFFICES ASSUME NEW m \in Int, NEW n \in Int
               PROVE  M31Add(m, n) \in M31 /\ M31Sub(m, n) \in M31 /\ M31Mul(m, n) \in M31
    OBVIOUS
  <2>1. m + n \in Int /\ m + P - n \in Int /\ m * n \in Int BY <1>1
  <2> QED BY <1>2, <2>1 DEF M31Add, M31Sub, M31Mul
<1>4. M31 \subseteq Int BY M31Bounds
<1> DEFINE Integral(x) == x.re \in Int /\ x.im \in Int
<1>5. /\ Integral(Low(v)) /\ Integral(High(v)) /\ Integral(Low(a)) /\ Integral(High(a))
      /\ v.c0 \in Int /\ v.c1 \in Int /\ v.c2 \in Int /\ v.c3 \in Int
  <2>1. v.c0 \in Int /\ v.c1 \in Int /\ v.c2 \in Int /\ v.c3 \in Int BY DEF Unreduced
  <2>2. a.c0 \in Int /\ a.c1 \in Int /\ a.c2 \in Int /\ a.c3 \in Int
    <3>1. a.c0 \in M31 /\ a.c1 \in M31 /\ a.c2 \in M31 /\ a.c3 \in M31 BY DEF QM31
    <3> QED BY <1>4, <3>1
  <2> QED BY <2>1, <2>2 DEF Low, High, Cm
<1>6. ASSUME NEW x, NEW y, Integral(x), Integral(y)
      PROVE  /\ Integral(CmMul(x, y)) /\ Integral(CmMulR(x))
             /\ CmAdd(x, y).re \in M31 /\ CmAdd(x, y).im \in M31
             /\ CmSub(x, y).re \in Int /\ CmSub(x, y).im \in Int
  <2>1. /\ M31Mul(x.re, y.re) \in Int /\ M31Mul(x.im, y.im) \in Int
        /\ M31Mul(x.re, y.im) \in Int /\ M31Mul(x.im, y.re) \in Int
        /\ M31Add(x.re, x.re) \in Int /\ M31Add(x.im, x.im) \in Int
    BY <1>3, <1>4, <1>6
  <2>2. Integral(CmMul(x, y)) BY <1>3, <1>4, <2>1 DEF CmMul, Cm
  <2>3. Integral(CmMulR(x)) BY <1>3, <1>4, <1>6, <2>1 DEF CmMulR, Cm
  <2>4. CmAdd(x, y).re \in M31 /\ CmAdd(x, y).im \in M31 BY <1>3, <1>6 DEF CmAdd, Cm
  <2>5. CmSub(x, y).re \in Int /\ CmSub(x, y).im \in Int BY <1>3, <1>4, <1>6 DEF CmSub, Cm
  <2> QED BY <2>2, <2>3, <2>4, <2>5
<1>7. Qm31Mul(v, a) \in QM31
  <2> DEFINE lo == CmAdd(CmMul(Low(v), Low(a)), CmMulR(CmMul(High(v), High(a))))
             hi == CmAdd(CmMul(Low(v), High(a)), CmMul(High(v), Low(a)))
  <2> HIDE DEF Integral
  <2>1. /\ Integral(CmMul(Low(v), Low(a))) /\ Integral(CmMul(High(v), High(a)))
        /\ Integral(CmMul(Low(v), High(a))) /\ Integral(CmMul(High(v), Low(a)))
    BY <1>5, <1>6
  <2>2. Integral(CmMulR(CmMul(High(v), High(a)))) BY <1>6, <2>1
  <2>3. lo.re \in M31 /\ lo.im \in M31 /\ hi.re \in M31 /\ hi.im \in M31 BY <1>6, <2>1, <2>2
  <2>4. Qm31Mul(v, a) = FromHalves(lo, hi) BY DEF Qm31Mul
  <2> HIDE DEF lo, hi
  <2> QED BY <2>3, <2>4 DEF FromHalves, QM31
<1>8. Qm31Sub(ConjU(v), v) \in QM31
  <2> DEFINE w == ConjU(v)
  <2>1. w.c0 = v.c0 /\ w.c1 = v.c1 /\ w.c2 = M31Sub(0, v.c2) /\ w.c3 = M31Sub(0, v.c3)
    BY DEF ConjU, FromHalves, Low, High, CmSub, Cm
  <2> HIDE DEF w
  <2>2. w.c0 \in Int /\ w.c1 \in Int /\ w.c2 \in Int /\ w.c3 \in Int
    <3>1. \A n \in Int : M31Sub(0, n) \in Int
      <4>1. 0 \in Int OBVIOUS
      <4>2. \A n \in Int : M31Sub(0, n) \in M31 BY <1>3, <4>1, Zenon
      <4> QED BY <1>4, <4>2
    <3>2. M31Sub(0, v.c2) \in Int /\ M31Sub(0, v.c3) \in Int BY <1>5, <3>1
    <3> QED BY <1>5, <2>1, <3>2
  <2>3. Qm31Sub(w, v) \in QM31 BY <1>3, <1>5, <2>2 DEF Qm31Sub, QM31
  <2> QED BY <2>3 DEF w
<1> QED BY <1>7, <1>8

\* The formula of the inverse gives an element, for those without an inverse too.
LEMMA InverseFormulaClosed ==
  ASSUME NEW a \in QM31
  PROVE  Qm31Inv(a) \in QM31
<1>1. Low(a) \in CM31 /\ High(a) \in CM31 /\ Norm(a) \in CM31 BY HalvesClosed
<1>2. \A m, n \in M31 : M31Add(m, n) \in M31 /\ M31Mul(m, n) \in M31 /\ M31Sub(m, n) \in M31
  BY M31Bounds, M31Closed
<1> DEFINE n == Norm(a)
           s == M31Add(M31Mul(n.re, n.re), M31Mul(n.im, n.im))
           c == CmInv(n)
<1>3. c \in CM31
  <2>1. n.re \in M31 /\ n.im \in M31 BY <1>1 DEF CM31
  <2> HIDE DEF n
  <2>2. s \in M31 BY <1>2, <2>1
  <2>3. M31Inv(s) \in M31 BY <2>2, InverseClosed
  <2>4. M31Sub(0, n.im) \in M31 BY <1>2, <2>1, ZeroInM31
  <2>5. c = Cm(M31Mul(n.re, M31Inv(s)), M31Mul(M31Sub(0, n.im), M31Inv(s))) BY DEF CmInv
  <2> HIDE DEF s, c
  <2> QED BY <1>2, <2>1, <2>3, <2>4, <2>5 DEF Cm, CM31
<1> DEFINE hi == CmMul(High(a), c)
           lo == CmMul(Low(a), c)
           mi == CmSub(Cm(0, 0), hi)
<1>4. Qm31Inv(a) = FromHalves(lo, mi) BY DEF Qm31Inv
<1> HIDE DEF c
<1>5. lo \in CM31 /\ hi \in CM31 BY <1>1, <1>3, EmbMul
<1>6. mi \in CM31
  <2>1. Cm(0, 0) \in CM31 BY ZeroInM31 DEF Cm, CM31
  <2> QED BY <1>5, <2>1, CmSubClosed
<1> HIDE DEF lo, mi
<1> QED BY <1>4, <1>5, <1>6 DEF FromHalves, CM31, QM31

\* One term of the row is an element, whatever is claimed of the column.
LEMMA TermClosed ==
  ASSUME NEW f \in QM31, NEW y \in M31, NEW zy \in QM31, NEW v \in Unreduced, NEW w \in QM31
  PROVE  QuotTerm(f, y, LineCoeffs(zy, v, w)) \in QM31
<1> DEFINE araw == Qm31Sub(ConjU(v), v)
           craw == Qm31Sub(ConjU(zy), zy)
           inner == Qm31Sub(Qm31Mul(v, craw), Qm31Mul(araw, zy))
           a == Qm31Mul(w, araw)
           b == Qm31Mul(w, inner)
           c == Qm31Mul(w, craw)
<1>1. ConjU(zy) \in QM31 BY ConjReduces
<1>2. craw \in QM31 BY <1>1, Qm31Closed
<1>3. araw \in QM31 BY OneIsOne, UnreducedClosed
<1> HIDE DEF araw, craw
<1>4. Qm31Mul(v, craw) \in QM31 BY <1>2, UnreducedClosed
<1>5. Qm31Mul(araw, zy) \in QM31 BY <1>3, Qm31Closed
<1>6. inner \in QM31 BY <1>4, <1>5, Qm31Closed
<1> HIDE DEF inner
<1>7. a \in QM31 /\ b \in QM31 /\ c \in QM31 BY <1>2, <1>3, <1>6, Qm31Closed
<1>8. LineCoeffs(zy, v, w) = [a |-> a, b |-> b, c |-> c] BY DEF LineCoeffs, araw, craw, inner
<1> HIDE DEF a, b, c
<1>9. Qm31MulM31(a, y) \in QM31 BY <1>7, MulM31Closed, M31Bounds
<1>10. Qm31Mul(c, f) \in QM31 /\ Qm31Add(Qm31MulM31(a, y), b) \in QM31 BY <1>7, <1>9, Qm31Closed
<1>11. Qm31Sub(Qm31Mul(c, f), Qm31Add(Qm31MulM31(a, y), b)) \in QM31 BY <1>10, Qm31Closed
<1> QED BY <1>8, <1>11 DEF QuotTerm

\* The parameterisation has values in the field, for the two elements without a point too.
LEMMA SamplesClosed ==
  ASSUME NEW t \in QM31
  PROVE  \A i \in 1 .. 3 : SamplePoints(FeltToPoint(t))[i] \in SecurePoints
<1> DEFINE tsq == Qm31Mul(t, t)
           d == Qm31Add(ONE, tsq)
           pt == FeltToPoint(t)
<1>1. ONE \in QM31 BY OneIsOne DEF ONE
<1>2. tsq \in QM31 BY Qm31Closed
<1>3. d \in QM31 /\ Qm31Sub(ONE, tsq) \in QM31 /\ Qm31Add(t, t) \in QM31 BY <1>1, <1>2, Qm31Closed
<1> HIDE DEF d
<1>4. Qm31Inv(d) \in QM31 BY <1>3, InverseFormulaClosed
<1>5. /\ Qm31Mul(Qm31Sub(ONE, tsq), Qm31Inv(d)) \in QM31
      /\ Qm31Mul(Qm31Add(t, t), Qm31Inv(d)) \in QM31
  BY <1>3, <1>4, Qm31Closed
<1>6. pt \in SecurePoints BY <1>5 DEF FeltToPoint, SecurePoints, d
<1> HIDE DEF pt
<1>7. RotS(pt) \in SecurePoints BY <1>6, RotationIs
<1>8. RotS(RotS(pt)) \in SecurePoints BY <1>7, RotationIs
<1>9. \A i \in 1 .. 3 : SamplePoints(pt)[i] \in {pt, RotS(pt), RotS(RotS(pt))}
  BY DEF SamplePoints
<1> QED BY <1>6, <1>7, <1>8, <1>9 DEF pt

\* The powers of a challenge are elements.
LEMMA PowersClosed ==
  ASSUME NEW g \in QM31
  PROVE  \A n \in 0 .. 6 : Powers(g)[n] \in QM31
<1> DEFINE S == [i \in 0 .. 6 |-> QM31]
           F == [i \in 1 .. 6 |-> [x \in QM31 |-> Qm31Mul(g, x)]]
           Is(f) == f = [n \in 0 .. 6 |-> IF n = 0 THEN ONE ELSE Qm31Mul(g, f[n - 1])]
<1>1. ONE \in QM31 BY OneIsOne DEF ONE
<1>2. \A x \in QM31 : Qm31Mul(g, x) \in QM31 BY Qm31Closed
<1>3. PICK f : IsRecursion(f, 6, ONE, F) /\ Valued(f, 6, S)
  <2>1. ONE \in S[0] /\ Steps(6, F, S) BY <1>1, <1>2 DEF Steps
  <2> HIDE DEF S, F
  <2> QED BY <2>1, Recursion
<1>4. Is(f)
  <2>1. \A i \in 0 .. 6 : f[i] \in QM31 BY <1>3 DEF Valued
  <2>2. \A i \in 0 .. 6 : f[i] = IF i = 0 THEN ONE ELSE F[i][f[i - 1]] BY <1>3 DEF IsRecursion
  <2>3. \A i \in 1 .. 6 : F[i][f[i - 1]] = Qm31Mul(g, f[i - 1]) BY <2>1
  <2>4. \A i \in 0 .. 6 : f[i] = IF i = 0 THEN ONE ELSE Qm31Mul(g, f[i - 1])
    <3> HIDE DEF F
    <3> QED BY <2>2, <2>3
  <2>5. f = [i \in 0 .. 6 |-> f[i]] BY <1>3 DEF IsRecursion
  <2> QED BY <2>4, <2>5
<1> QED BY <1>4, PowersAre

(***************************************************************************)
(* The contracts' algebra is one Driver can be run with: the twiddles of   *)
(* query.clar are not zero, so that every fold has a hint, and the row of  *)
(* cdeep.clar is an element for all leaves, challenges and openings off    *)
(* the wire.  (AlgebraAssumption of DriverInvariant and the twiddles of    *)
(* DrawsAssumption, of the operators GearDriver puts there.)               *)
(***************************************************************************)
THEOREM AlgebraStays ==
  /\ \A i \in 0 .. (LOG_DOMAIN - 1) : \A n \in 0 .. (2 ^ (LOG_DOMAIN - 1 - i) - 1) :
       Twiddles[i][n] \in M31 \ {0}
  /\ \A t, c, zz, g \in QM31 : \A q \in Positions : \A o \in [1 .. 7 -> Unreduced] :
       RowValue(t, c, Points[q], o, FeltToPoint(zz), g) \in QM31
<1>1. ASSUME NEW i \in 0 .. (LOG_DOMAIN - 1), NEW n \in 0 .. (2 ^ (LOG_DOMAIN - 1 - i) - 1)
      PROVE  Twiddles[i][n] \in M31 \ {0}
  <2>1. Twiddles[i][n] # 0 BY PairsFold
  <2>2. Twiddles[i][n] \in M31 BY TwiddlesFit DEF TwiddlesFor
  <2> QED BY <2>1, <2>2
<1>2. ASSUME NEW t \in QM31, NEW c \in QM31, NEW zz \in QM31, NEW g \in QM31,
             NEW q \in Positions, NEW o \in [1 .. 7 -> Unreduced]
      PROVE  RowValue(t, c, Points[q], o, FeltToPoint(zz), g) \in QM31
  <2> DEFINE p == Points[q]
             zs == SamplePoints(FeltToPoint(zz))
             pw == Powers(g)
             T(f, i, v, n) == QuotTerm(f, p.im, LineCoeffs(zs[i].y, v, pw[n]))
             I(i) == Qm31Inv(Denom(zs[i], p))
             c0 == Qm31FromM31(c.c0)
             c1 == Qm31FromM31(c.c1)
             c2 == Qm31FromM31(c.c2)
             c3 == Qm31FromM31(c.c3)
             num == Qm31Add(T(t, 1, o[1], 0),
                            Qm31Add(Qm31Add(T(c0, 1, o[4], 3), T(c1, 1, o[5], 4)),
                                    Qm31Add(T(c2, 1, o[6], 5), T(c3, 1, o[7], 6))))
  <2>1. p \in CM31 BY PointsClosed
  <2>2. \A i \in 1 .. 3 : zs[i] \in SecurePoints BY SamplesClosed
  <2>3. \A n \in 0 .. 6 : pw[n] \in QM31 BY PowersClosed
  <2>4. c0 \in QM31 /\ c1 \in QM31 /\ c2 \in QM31 /\ c3 \in QM31
    <3>1. c.c0 \in M31 /\ c.c1 \in M31 /\ c.c2 \in M31 /\ c.c3 \in M31 BY DEF QM31
    <3> QED BY <3>1, ScalarIsMul
  <2>5. RowValue(t, c, p, o, FeltToPoint(zz), g)
          = Qm31Add(Qm31Add(Qm31Mul(num, I(1)), Qm31Mul(T(t, 2, o[2], 1), I(2))),
                    Qm31Mul(T(t, 3, o[3], 2), I(3)))
    BY DEF RowValue
  <2> HIDE DEF p, zs, pw, c0, c1, c2, c3
  <2>6. ASSUME NEW f \in QM31, NEW i \in 1 .. 3, NEW v \in Unreduced, NEW n \in 0 .. 6
        PROVE  T(f, i, v, n) \in QM31
    <3>1. p.im \in M31 /\ zs[i].y \in QM31 /\ pw[n] \in QM31
      BY <2>1, <2>2, <2>3 DEF CM31, SecurePoints
    <3> QED BY <3>1, TermClosed
  <2>7. \A i \in 1 .. 3 : I(i) \in QM31
    <3>1. \A i \in 1 .. 3 : Denom(zs[i], p) \in QM31 BY <2>1, <2>2, VanishingIs
    <3> QED BY <3>1, InverseFormulaClosed
  <2> HIDE DEF T, I
  <2>8. /\ T(t, 1, o[1], 0) \in QM31 /\ T(t, 2, o[2], 1) \in QM31 /\ T(t, 3, o[3], 2) \in QM31
        /\ T(c0, 1, o[4], 3) \in QM31 /\ T(c1, 1, o[5], 4) \in QM31
        /\ T(c2, 1, o[6], 5) \in QM31 /\ T(c3, 1, o[7], 6) \in QM31
    BY <2>4, <2>6
  <2>9. /\ Qm31Add(T(c0, 1, o[4], 3), T(c1, 1, o[5], 4)) \in QM31
        /\ Qm31Add(T(c2, 1, o[6], 5), T(c3, 1, o[7], 6)) \in QM31
    BY <2>8, Qm31Closed
  <2>10. Qm31Add(Qm31Add(T(c0, 1, o[4], 3), T(c1, 1, o[5], 4)),
                 Qm31Add(T(c2, 1, o[6], 5), T(c3, 1, o[7], 6))) \in QM31
    BY <2>9, Qm31Closed
  <2>11. num \in QM31 BY <2>8, <2>10, Qm31Closed
  <2> HIDE DEF num
  <2>12. I(1) \in QM31 /\ I(2) \in QM31 /\ I(3) \in QM31 BY <2>7
  <2>13. /\ Qm31Mul(num, I(1)) \in QM31 /\ Qm31Mul(T(t, 2, o[2], 1), I(2)) \in QM31
         /\ Qm31Mul(T(t, 3, o[3], 2), I(3)) \in QM31
    BY <2>8, <2>11, <2>12, Qm31Closed
  <2>14. Qm31Add(Qm31Mul(num, I(1)), Qm31Mul(T(t, 2, o[2], 1), I(2))) \in QM31
    BY <2>13, Qm31Closed
  <2> QED BY <2>5, <2>13, <2>14, Qm31Closed DEF p
<1> QED BY <1>1, <1>2
=============================================================================
