----------------------------- MODULE FriProofs ------------------------------
(***************************************************************************)
(* The field operations stay in the field; the hinted fold is the fold,    *)
(* for a hint the verifier accepts acts as the inverse of its twiddle; and *)
(* the fold is the even part of a pair plus beta times its odd part.  The  *)
(* secure field is a field, and its inverse aborts for zero alone.         *)
(***************************************************************************)
EXTENDS Fri, TLAPS

\* Reduction modulo P forgets multiples of P.
LEMMA ModAddMultiple ==
  ASSUME NEW m \in Nat, NEW r \in Nat
  PROVE  (P * m + r) % P = r % P
<1> DEFINE q == r \div P
           s == r % P
<1>1. P \in Nat /\ P > 0 BY FieldAssumption
<1>2. q \in Nat /\ s \in 0 .. (P - 1) /\ r = P * q + s BY <1>1
<1>3. P * m + r = P * (m + q) + s BY <1>1, <1>2
<1>4. m + q \in Nat BY <1>2
<1> HIDE DEF q, s
<1>5. ASSUME NEW n \in Nat PROVE (P * n + s) % P = s BY <1>1, <1>2
<1>6. (P * m + r) % P = s BY <1>3, <1>4, <1>5
<1> QED BY <1>6 DEF s

\* A factor can be reduced before the product is.
LEMMA ModMul ==
  ASSUME NEW a \in Nat, NEW b \in Nat
  PROVE  (a * b) % P = ((a % P) * b) % P
<1> DEFINE q == a \div P
           s == a % P
<1>1. P \in Nat /\ P > 0 BY FieldAssumption
<1>2. q \in Nat /\ s \in Nat /\ a = P * q + s BY <1>1
<1> HIDE DEF q, s
<1>3. a * b = P * (q * b) + s * b BY <1>1, <1>2
<1>4. q * b \in Nat /\ s * b \in Nat BY <1>2
<1>5. (a * b) % P = (s * b) % P BY <1>3, <1>4, ModAddMultiple
<1> QED BY <1>5 DEF s

\* Two inverses of one element multiply alike.
LEMMA InversesAgree ==
  ASSUME NEW x \in Nat, NEW g \in Nat, NEW h \in Nat, NEW c \in Nat,
         M31Mul(x, g) = 1, M31Mul(x, h) = 1
  PROVE  M31Mul(c, g) = M31Mul(c, h)
<1>0. (x * g) % P = 1 /\ (x * h) % P = 1 BY DEF M31Mul
<1>1. ASSUME NEW u \in Nat, NEW v \in Nat, (x * u) % P = 1
      PROVE  (c * v) % P = ((x * u) * (c * v)) % P
  <2>1. x * u \in Nat /\ c * v \in Nat OBVIOUS
  <2>2. ((x * u) * (c * v)) % P = (1 * (c * v)) % P BY <2>1, <1>1, ModMul
  <2> QED BY <2>1, <2>2
<1>2. (x * h) * (c * g) = (x * g) * (c * h) OBVIOUS
<1>3. (c * g) % P = ((x * h) * (c * g)) % P BY <1>0, <1>1
<1>4. (c * h) % P = ((x * g) * (c * h)) % P BY <1>0, <1>1
<1> QED BY <1>2, <1>3, <1>4 DEF M31Mul

\* Addition, subtraction and multiplication of the base field are closed.
LEMMA M31Closed ==
  ASSUME NEW a \in Nat, NEW b \in Nat
  PROVE  /\ M31Add(a, b) \in M31
         /\ M31Mul(a, b) \in M31
         /\ b <= P => M31Sub(a, b) \in M31
<1>1. P \in Nat /\ P > 2 BY FieldAssumption
<1>2. ASSUME NEW n \in Nat PROVE n % P \in M31 BY <1>1 DEF M31
<1>3. a + b \in Nat /\ a * b \in Nat /\ (b <= P => a + P - b \in Nat) BY <1>1
<1> QED BY <1>2, <1>3 DEF M31Add, M31Mul, M31Sub

\* A base-field element is a natural no greater than P.
LEMMA M31Bounds == ASSUME NEW a \in M31 PROVE a \in Nat /\ a <= P
BY FieldAssumption DEF M31

\* The operations of the complex extension are closed.
LEMMA CmClosed ==
  ASSUME NEW x \in [re : M31, im : M31], NEW y \in [re : M31, im : M31]
  PROVE  /\ CmAdd(x, y) \in [re : M31, im : M31]
         /\ CmMul(x, y) \in [re : M31, im : M31]
         /\ CmMulR(x) \in [re : M31, im : M31]
<1>1. x.re \in M31 /\ x.im \in M31 /\ y.re \in M31 /\ y.im \in M31 OBVIOUS
<1>2. ASSUME NEW a \in M31, NEW b \in M31
      PROVE  M31Add(a, b) \in M31 /\ M31Mul(a, b) \in M31 /\ M31Sub(a, b) \in M31
  BY M31Bounds, M31Closed
<1>3. CmAdd(x, y) \in [re : M31, im : M31] BY <1>1, <1>2 DEF CmAdd, Cm
<1>4. CmMul(x, y) \in [re : M31, im : M31]
  <2>1. /\ M31Mul(x.re, y.re) \in M31 /\ M31Mul(x.im, y.im) \in M31
        /\ M31Mul(x.re, y.im) \in M31 /\ M31Mul(x.im, y.re) \in M31
    BY <1>1, <1>2
  <2> QED BY <2>1, <1>2 DEF CmMul, Cm
<1>5. CmMulR(x) \in [re : M31, im : M31]
  <2>1. M31Add(x.re, x.re) \in M31 /\ M31Add(x.im, x.im) \in M31 BY <1>1, <1>2
  <2>2. M31Add(x.re, M31Add(x.im, x.im)) \in M31 BY <2>1, <1>1, <1>2
  <2> QED BY <2>1, <2>2, <1>1, <1>2 DEF CmMulR, Cm
<1> QED BY <1>3, <1>4, <1>5

\* The operations of the secure field are closed.
LEMMA Qm31Closed ==
  ASSUME NEW a \in QM31, NEW b \in QM31
  PROVE  Qm31Add(a, b) \in QM31 /\ Qm31Sub(a, b) \in QM31 /\ Qm31Mul(a, b) \in QM31
<1>1. /\ a.c0 \in M31 /\ a.c1 \in M31 /\ a.c2 \in M31 /\ a.c3 \in M31
      /\ b.c0 \in M31 /\ b.c1 \in M31 /\ b.c2 \in M31 /\ b.c3 \in M31
  BY DEF QM31
<1>2. ASSUME NEW u \in M31, NEW v \in M31
      PROVE  M31Add(u, v) \in M31 /\ M31Sub(u, v) \in M31
  BY M31Bounds, M31Closed
<1>3. Qm31Add(a, b) \in QM31 BY <1>1, <1>2 DEF Qm31Add, QM31
<1>4. Qm31Sub(a, b) \in QM31 BY <1>1, <1>2 DEF Qm31Sub, QM31
<1>5. Qm31Mul(a, b) \in QM31
  <2> DEFINE CM31 == [re : M31, im : M31]
  <2>1. Low(a) \in CM31 /\ High(a) \in CM31 /\ Low(b) \in CM31 /\ High(b) \in CM31
    BY <1>1 DEF Low, High, Cm
  <2>2. /\ CmMul(Low(a), Low(b)) \in CM31 /\ CmMul(High(a), High(b)) \in CM31
        /\ CmMul(Low(a), High(b)) \in CM31 /\ CmMul(High(a), Low(b)) \in CM31
    BY <2>1, CmClosed
  <2>3. CmMulR(CmMul(High(a), High(b))) \in CM31 BY <2>2, CmClosed
  <2>4. /\ CmAdd(CmMul(Low(a), Low(b)), CmMulR(CmMul(High(a), High(b)))) \in CM31
        /\ CmAdd(CmMul(Low(a), High(b)), CmMul(High(a), Low(b))) \in CM31
    BY <2>2, <2>3, CmClosed
  <2>5. ASSUME NEW lo \in CM31, NEW hi \in CM31 PROVE FromHalves(lo, hi) \in QM31
    BY DEF FromHalves, QM31
  <2> QED BY <2>4, <2>5 DEF Qm31Mul
<1> QED BY <1>3, <1>4, <1>5

\* An element times a natural is an element.
LEMMA MulM31Closed ==
  ASSUME NEW a \in QM31, NEW s \in Nat
  PROVE  Qm31MulM31(a, s) \in QM31
<1>1. a.c0 \in Nat /\ a.c1 \in Nat /\ a.c2 \in Nat /\ a.c3 \in Nat BY M31Bounds DEF QM31
<1>2. ASSUME NEW c \in Nat PROVE M31Mul(c, s) \in M31 BY M31Closed
<1> QED BY <1>1, <1>2 DEF Qm31MulM31, QM31

\* A hinted fold of two elements is an element.
LEMMA HintedFoldClosed ==
  ASSUME NEW a \in QM31, NEW b \in QM31, NEW hint \in Nat, NEW beta \in QM31
  PROVE  FriFoldStepHint(a, b, hint, beta) \in QM31
<1>1. Qm31Add(a, b) \in QM31 /\ Qm31Sub(a, b) \in QM31 BY Qm31Closed
<1>2. Qm31MulM31(Qm31Sub(a, b), hint) \in QM31 BY <1>1, MulM31Closed
<1>3. Qm31Mul(beta, Qm31MulM31(Qm31Sub(a, b), hint)) \in QM31 BY <1>2, Qm31Closed
<1> QED BY <1>1, <1>3, Qm31Closed DEF FriFoldStepHint

(***************************************************************************)
(* fri-fold-step-hint agrees with fri-fold-step on every hint it accepts,  *)
(* canonical or not, and accepts none for a zero twiddle.                  *)
(***************************************************************************)
THEOREM HintedFoldIsFold ==
  ASSUME NEW x \in M31, NEW hint \in Nat, HintRequires(x, hint),
         NEW a \in QM31, NEW b \in QM31, NEW beta \in QM31
  PROVE  /\ FriFoldStepRequires(x)
         /\ FriFoldStepHint(a, b, hint, beta) = FriFoldStep(a, b, x, beta)
<1>1. P \in Nat /\ P > 2 /\ x \in Nat BY FieldAssumption DEF M31
<1>2. (x * hint) % P = 1 BY DEF HintRequires, M31Mul
<1>3. x # 0
  <2>1. 0 * hint = 0 /\ 0 % P = 0 BY <1>1
  <2> QED BY <1>2, <2>1
<1>4. M31Mul(x, M31Inv(x)) = 1 /\ M31Inv(x) \in Nat
  BY <1>3, InverseAssumption, M31Bounds
<1>5. ASSUME NEW c \in Nat PROVE M31Mul(c, hint) = M31Mul(c, M31Inv(x))
  BY <1>1, <1>4, InversesAgree DEF HintRequires
<1> DEFINE d == Qm31Sub(a, b)
<1>6. d.c0 \in Nat /\ d.c1 \in Nat /\ d.c2 \in Nat /\ d.c3 \in Nat
  BY Qm31Closed, M31Bounds DEF QM31
<1> HIDE DEF d
<1>7. Qm31MulM31(d, hint) = Qm31MulM31(d, M31Inv(x)) BY <1>5, <1>6 DEF Qm31MulM31
<1> QED BY <1>3, <1>7 DEF FriFoldStepRequires, FriFoldStepHint, FriFoldStep, d

-----------------------------------------------------------------------------
\* Sums and differences of the base field, without the division.
LEMMA M31Cases ==
  ASSUME NEW a \in M31, NEW b \in M31
  PROVE  /\ M31Add(a, b) = IF a + b < P THEN a + b ELSE a + b - P
         /\ M31Sub(a, b) = IF b <= a THEN a - b ELSE a + P - b
<1>1. P \in Nat /\ P > 2 /\ a \in 0 .. (P - 1) /\ b \in 0 .. (P - 1) BY FieldAssumption DEF M31
<1>2. ASSUME NEW n \in Nat, n < P PROVE n % P = n /\ (P + n) % P = n
  <2>1. n % P = n BY <1>1, <1>2
  <2>2. (P * 1 + n) % P = n % P BY <1>1, ModAddMultiple
  <2> QED BY <1>1, <2>1, <2>2
<1>3. M31Add(a, b) = IF a + b < P THEN a + b ELSE a + b - P
  <2>1. CASE a + b < P BY <1>1, <1>2, <2>1 DEF M31Add
  <2>2. CASE ~(a + b < P)
    <3>1. a + b - P \in Nat /\ a + b - P < P BY <1>1, <2>2
    <3>2. a + b = P + (a + b - P) BY <1>1
    <3> QED BY <1>2, <2>2, <3>1, <3>2 DEF M31Add
  <2> QED BY <2>1, <2>2
<1>4. M31Sub(a, b) = IF b <= a THEN a - b ELSE a + P - b
  <2>1. CASE b <= a
    <3>1. a - b \in Nat /\ a - b < P /\ a + P - b = P + (a - b) BY <1>1, <2>1
    <3> QED BY <1>2, <2>1, <3>1 DEF M31Sub
  <2>2. CASE ~(b <= a)
    <3>1. a + P - b \in Nat /\ a + P - b < P BY <1>1, <2>2
    <3> QED BY <1>2, <2>2, <3>1 DEF M31Sub
  <2> QED BY <2>1, <2>2
<1> QED BY <1>3, <1>4

\* What a sum and a difference give of the two terms, and back.
LEMMA M31Butterfly ==
  ASSUME NEW a \in M31, NEW b \in M31
  PROVE  /\ M31Add(M31Add(a, b), M31Sub(a, b)) = M31Add(a, a)
         /\ M31Sub(M31Add(a, b), M31Sub(a, b)) = M31Add(b, b)
         /\ M31Add(M31Sub(a, b), b) = a
         /\ M31Sub(M31Add(a, b), b) = a
<1>1. P \in Nat /\ P > 2 /\ a \in 0 .. (P - 1) /\ b \in 0 .. (P - 1) BY FieldAssumption DEF M31
<1> DEFINE s == M31Add(a, b)
           d == M31Sub(a, b)
<1>2. s \in M31 /\ d \in M31 BY M31Bounds, M31Closed
<1>3. /\ s = IF a + b < P THEN a + b ELSE a + b - P
      /\ d = IF b <= a THEN a - b ELSE a + P - b
  BY M31Cases
<1> HIDE DEF s, d
<1>4. s \in 0 .. (P - 1) /\ d \in 0 .. (P - 1) BY <1>2 DEF M31
<1>5. M31Add(s, d) = M31Add(a, a)
  <2>1. M31Add(s, d) = IF s + d < P THEN s + d ELSE s + d - P BY <1>2, M31Cases
  <2>2. M31Add(a, a) = IF a + a < P THEN a + a ELSE a + a - P BY M31Cases
  <2> QED BY <1>1, <1>3, <1>4, <2>1, <2>2
<1>6. M31Sub(s, d) = M31Add(b, b)
  <2>1. M31Sub(s, d) = IF d <= s THEN s - d ELSE s + P - d BY <1>2, M31Cases
  <2>2. M31Add(b, b) = IF b + b < P THEN b + b ELSE b + b - P BY M31Cases
  <2> QED BY <1>1, <1>3, <1>4, <2>1, <2>2
<1>7. M31Add(d, b) = a
  <2>1. M31Add(d, b) = IF d + b < P THEN d + b ELSE d + b - P BY <1>2, M31Cases
  <2> QED BY <1>1, <1>3, <1>4, <2>1
<1>8. M31Sub(s, b) = a
  <2>1. M31Sub(s, b) = IF b <= s THEN s - b ELSE s + P - b BY <1>2, M31Cases
  <2> QED BY <1>1, <1>3, <1>4, <2>1
<1> QED BY <1>5, <1>6, <1>7, <1>8 DEF s, d

\* A term can be reduced before the sum is.
LEMMA ModAdd ==
  ASSUME NEW a \in Nat, NEW b \in Nat
  PROVE  (a + b) % P = ((a % P) + b) % P
<1> DEFINE q == a \div P
           s == a % P
<1>1. P \in Nat /\ P > 0 BY FieldAssumption
<1>2. q \in Nat /\ s \in Nat /\ a = P * q + s BY <1>1
<1> HIDE DEF q, s
<1>3. a + b = P * q + (s + b) BY <1>1, <1>2
<1>4. (a + b) % P = (s + b) % P BY <1>2, <1>3, ModAddMultiple
<1> QED BY <1>4 DEF s

\* Multiplication distributes over sums and differences.
LEMMA M31Distributes ==
  ASSUME NEW a \in M31, NEW b \in M31, NEW c \in M31
  PROVE  /\ M31Mul(M31Add(a, b), c) = M31Add(M31Mul(a, c), M31Mul(b, c))
         /\ M31Mul(M31Sub(a, b), c) = M31Sub(M31Mul(a, c), M31Mul(b, c))
<1>1. ASSUME NEW u \in M31, NEW v \in M31
      PROVE  M31Mul(M31Add(u, v), c) = M31Add(M31Mul(u, c), M31Mul(v, c))
  <2>1. u \in Nat /\ v \in Nat /\ c \in Nat BY M31Bounds
  <2>2. u + v \in Nat /\ u * c \in Nat /\ v * c \in Nat BY <2>1
  <2>3. ((u + v) * c) % P = (((u + v) % P) * c) % P BY <2>1, <2>2, ModMul
  <2>4. (u + v) * c = u * c + v * c BY <2>1
  <2>5. (u * c) % P \in Nat BY <2>2, FieldAssumption
  <2>6. (u * c + v * c) % P = (((u * c) % P) + v * c) % P BY <2>2, ModAdd
  <2>7. (v * c + ((u * c) % P)) % P = (((v * c) % P) + ((u * c) % P)) % P BY <2>2, <2>5, ModAdd
  <2>8. (v * c) % P \in Nat BY <2>2, FieldAssumption
  <2>9. /\ ((u * c) % P) + v * c = v * c + ((u * c) % P)
        /\ ((v * c) % P) + ((u * c) % P) = ((u * c) % P) + ((v * c) % P)
    BY <2>2, <2>5, <2>8
  <2> QED BY <2>3, <2>4, <2>6, <2>7, <2>9 DEF M31Add, M31Mul
<1> DEFINE w == M31Sub(a, b)
<1>2. w \in M31 /\ M31Mul(w, c) \in M31 /\ M31Mul(b, c) \in M31 BY M31Bounds, M31Closed
<1>3. M31Add(w, b) = a BY M31Butterfly
<1> HIDE DEF w
<1>4. M31Mul(a, c) = M31Add(M31Mul(w, c), M31Mul(b, c)) BY <1>1, <1>2, <1>3
<1>5. M31Sub(M31Mul(a, c), M31Mul(b, c)) = M31Mul(w, c) BY <1>2, <1>4, M31Butterfly
<1> QED BY <1>1, <1>5 DEF w

\* Multiplying by an element and by its inverse gives back what was multiplied.
LEMMA M31Undone ==
  ASSUME NEW a \in M31, NEW x \in M31, NEW g \in M31, M31Mul(x, g) = 1
  PROVE  M31Mul(M31Mul(a, x), g) = a
<1>1. P \in Nat /\ P > 2 /\ a \in Nat /\ a < P /\ x \in Nat /\ g \in Nat
  BY FieldAssumption DEF M31
<1>2. a * x \in Nat /\ x * g \in Nat BY <1>1
<1>3. ((a * x) * g) % P = (((a * x) % P) * g) % P BY <1>1, <1>2, ModMul
<1>4. ((x * g) * a) % P = (((x * g) % P) * a) % P BY <1>1, <1>2, ModMul
<1>5. (a * x) * g = (x * g) * a BY <1>1
<1>6. ((x * g) % P) * a = a BY <1>1 DEF M31Mul
<1>7. a % P = a BY <1>1
<1> QED BY <1>3, <1>4, <1>5, <1>6, <1>7 DEF M31Mul

\* One limb of a pair: it splits into an even and an odd part.
LEMMA LimbSplits ==
  ASSUME NEW x \in M31, x # 0, NEW a \in M31, NEW b \in M31
  PROVE  \E e \in M31, o \in M31 :
           a = M31Add(e, M31Mul(o, x)) /\ b = M31Sub(e, M31Mul(o, x))
<1> DEFINE half == M31Inv(2)
           g == M31Inv(x)
           s == M31Add(a, b)
           d == M31Sub(a, b)
           e == M31Mul(s, half)
           u == M31Mul(d, half)
           o == M31Mul(u, g)
<1>1. 2 \in M31 \ {0} BY FieldAssumption DEF M31
<1>2. /\ half \in M31 /\ M31Mul(2, half) = 1
      /\ g \in M31 /\ M31Mul(x, g) = 1
  BY <1>1, InverseAssumption
<1>3. M31Mul(g, x) = 1
  <2>1. x * g = g * x BY <1>2, M31Bounds
  <2> QED BY <1>2, <2>1 DEF M31Mul
<1>4. /\ s \in M31 /\ d \in M31
      /\ M31Add(s, d) = M31Add(a, a) /\ M31Sub(s, d) = M31Add(b, b)
  BY M31Bounds, M31Closed, M31Butterfly
<1> HIDE DEF half, g, s, d
<1>5. e \in M31 /\ u \in M31 /\ o \in M31 BY <1>2, <1>4, M31Bounds, M31Closed
<1>6. M31Mul(o, x) = u BY <1>2, <1>3, <1>5, M31Undone
<1>7. ASSUME NEW n \in M31 PROVE M31Mul(M31Add(n, n), half) = n
  <2>1. M31Add(n, n) = M31Mul(n, 2)
    <3>1. n \in Nat BY M31Bounds
    <3>2. n + n = n * 2 BY <3>1
    <3> QED BY <3>2 DEF M31Add, M31Mul
  <2> QED BY <1>1, <1>2, <2>1, M31Undone
<1>8. M31Add(e, u) = a /\ M31Sub(e, u) = b BY <1>2, <1>4, <1>7, M31Distributes
<1> QED BY <1>5, <1>6, <1>8

\* One limb of a split pair: what is left of the two parts in sum and scaled difference.
LEMMA LimbFolds ==
  ASSUME NEW x \in M31, x # 0, NEW e \in M31, NEW o \in M31
  PROVE  LET u == M31Mul(o, x) IN
         /\ M31Add(M31Add(e, u), M31Sub(e, u)) = M31Add(e, e)
         /\ M31Mul(M31Sub(M31Add(e, u), M31Sub(e, u)), M31Inv(x)) = M31Add(o, o)
<1> DEFINE u == M31Mul(o, x)
           g == M31Inv(x)
<1>1. g \in M31 /\ M31Mul(x, g) = 1 BY InverseAssumption
<1>2. u \in M31 BY M31Bounds, M31Closed
<1>3. M31Mul(u, g) = o BY <1>1, M31Undone
<1> HIDE DEF u, g
<1>4. /\ M31Add(M31Add(e, u), M31Sub(e, u)) = M31Add(e, e)
      /\ M31Sub(M31Add(e, u), M31Sub(e, u)) = M31Add(u, u)
  BY <1>2, M31Butterfly
<1>5. M31Mul(M31Add(u, u), g) = M31Add(o, o) BY <1>1, <1>2, <1>3, M31Distributes
<1> QED BY <1>4, <1>5 DEF u, g

(***************************************************************************)
(* The two opened siblings are f(x) = e + x o and f(-x) = e - x o for an   *)
(* even part e and an odd part o, whatever they are, and the fold is       *)
(* 2 (e + beta o): fri-fold-step's "even part" and "odd part, scaled by    *)
(* the inverse source point", in the fold without the division by two.     *)
(***************************************************************************)
THEOREM FoldSplits ==
  ASSUME NEW x \in M31, FriFoldStepRequires(x),
         NEW a \in QM31, NEW b \in QM31, NEW beta \in QM31
  PROVE  LET Split(e, o) == /\ a = Qm31Add(e, Qm31MulM31(o, x))
                            /\ b = Qm31Sub(e, Qm31MulM31(o, x))
         IN  /\ \E e \in QM31, o \in QM31 : Split(e, o)
             /\ \A e \in QM31, o \in QM31 : Split(e, o) =>
                  FriFoldStep(a, b, x, beta)
                    = Qm31Add(Qm31Add(e, e), Qm31Mul(beta, Qm31Add(o, o)))
<1> DEFINE Split(e, o) == /\ a = Qm31Add(e, Qm31MulM31(o, x))
                          /\ b = Qm31Sub(e, Qm31MulM31(o, x))
<1>1. x # 0 BY DEF FriFoldStepRequires
<1>2. \E e \in QM31, o \in QM31 : Split(e, o)
  <2>1. /\ a.c0 \in M31 /\ a.c1 \in M31 /\ a.c2 \in M31 /\ a.c3 \in M31
        /\ b.c0 \in M31 /\ b.c1 \in M31 /\ b.c2 \in M31 /\ b.c3 \in M31
    BY DEF QM31
  <2>2. PICK e0 \in M31, o0 \in M31 :
          a.c0 = M31Add(e0, M31Mul(o0, x)) /\ b.c0 = M31Sub(e0, M31Mul(o0, x))
    <3>1. a.c0 \in M31 /\ b.c0 \in M31 BY <2>1
    <3> QED BY <1>1, <3>1, LimbSplits
  <2>3. PICK e1 \in M31, o1 \in M31 :
          a.c1 = M31Add(e1, M31Mul(o1, x)) /\ b.c1 = M31Sub(e1, M31Mul(o1, x))
    <3>1. a.c1 \in M31 /\ b.c1 \in M31 BY <2>1
    <3> QED BY <1>1, <3>1, LimbSplits
  <2>4. PICK e2 \in M31, o2 \in M31 :
          a.c2 = M31Add(e2, M31Mul(o2, x)) /\ b.c2 = M31Sub(e2, M31Mul(o2, x))
    <3>1. a.c2 \in M31 /\ b.c2 \in M31 BY <2>1
    <3> QED BY <1>1, <3>1, LimbSplits
  <2>5. PICK e3 \in M31, o3 \in M31 :
          a.c3 = M31Add(e3, M31Mul(o3, x)) /\ b.c3 = M31Sub(e3, M31Mul(o3, x))
    <3>1. a.c3 \in M31 /\ b.c3 \in M31 BY <2>1
    <3> QED BY <1>1, <3>1, LimbSplits
  <2> DEFINE e == [c0 |-> e0, c1 |-> e1, c2 |-> e2, c3 |-> e3]
             o == [c0 |-> o0, c1 |-> o1, c2 |-> o2, c3 |-> o3]
  <2>6. e \in QM31 /\ o \in QM31 BY DEF QM31
  <2>7. /\ a = [c0 |-> a.c0, c1 |-> a.c1, c2 |-> a.c2, c3 |-> a.c3]
        /\ b = [c0 |-> b.c0, c1 |-> b.c1, c2 |-> b.c2, c3 |-> b.c3]
    BY DEF QM31
  <2>8. a = Qm31Add(e, Qm31MulM31(o, x))
    BY <2>2, <2>3, <2>4, <2>5, <2>7 DEF Qm31Add, Qm31MulM31
  <2>9. b = Qm31Sub(e, Qm31MulM31(o, x))
    BY <2>2, <2>3, <2>4, <2>5, <2>7 DEF Qm31Sub, Qm31MulM31
  <2> HIDE DEF e, o
  <2> QED BY <2>6, <2>8, <2>9
<1>3. ASSUME NEW e \in QM31, NEW o \in QM31, Split(e, o)
      PROVE  FriFoldStep(a, b, x, beta)
               = Qm31Add(Qm31Add(e, e), Qm31Mul(beta, Qm31Add(o, o)))
  <2>1. /\ e.c0 \in M31 /\ e.c1 \in M31 /\ e.c2 \in M31 /\ e.c3 \in M31
        /\ o.c0 \in M31 /\ o.c1 \in M31 /\ o.c2 \in M31 /\ o.c3 \in M31
    BY DEF QM31
  <2>2. ASSUME NEW n \in M31, NEW m \in M31
        PROVE  /\ M31Add(M31Add(n, M31Mul(m, x)), M31Sub(n, M31Mul(m, x))) = M31Add(n, n)
               /\ M31Mul(M31Sub(M31Add(n, M31Mul(m, x)), M31Sub(n, M31Mul(m, x))), M31Inv(x))
                    = M31Add(m, m)
    BY <1>1, LimbFolds
  <2>3. Qm31Add(a, b) = Qm31Add(e, e)
    BY <1>3, <2>1, <2>2 DEF Qm31Add, Qm31Sub, Qm31MulM31
  <2>4. Qm31MulM31(Qm31Sub(a, b), M31Inv(x)) = Qm31Add(o, o)
    BY <1>3, <2>1, <2>2 DEF Qm31Add, Qm31Sub, Qm31MulM31
  <2> QED BY <2>3, <2>4 DEF FriFoldStep
<1> QED BY <1>2, <1>3

-----------------------------------------------------------------------------
(***************************************************************************)
(* The field is the ring of integers, and the secure field that of integer *)
(* quadruples, reduced limb by limb: what is an identity of polynomials    *)
(* over the integers is one of the field.                                  *)
(***************************************************************************)
Residue(m, n) == m \in M31 /\ n \in Int /\ \E q \in Int : n = m + P * q

\* A member of M31 and any integer that differs from it by a multiple of P.
LEMMA ResidueIntro ==
  ASSUME NEW m \in M31, NEW n \in Int, NEW q \in Int, n = m + P * q
  PROVE  Residue(m, n)
BY DEF Residue

\* A residue is its own, and no integer has two.
LEMMA ResidueUnique ==
  ASSUME NEW m, NEW k, NEW n, Residue(m, n), Residue(k, n)
  PROVE  m = k
<1>1. P \in Nat /\ P > 2 /\ m \in 0 .. (P - 1) /\ k \in 0 .. (P - 1) /\ n \in Int
  BY FieldAssumption DEF Residue, M31
<1>2. PICK q \in Int : n = m + P * q BY DEF Residue
<1>3. PICK r \in Int : n = k + P * r BY DEF Residue
<1>4. m - k = P * (r - q) BY <1>1, <1>2, <1>3
<1>5. ASSUME r - q >= 1 PROVE FALSE
  <2>1. P * (r - q) >= P
    <3>1. P * (r - q) = P + P * (r - q - 1) BY <1>1
    <3>2. ASSUME NEW i \in Nat PROVE P * i >= 0 BY <1>1
    <3>3. r - q - 1 \in Nat BY <1>5
    <3> QED BY <3>1, <3>2, <3>3, <1>1
  <2> QED BY <2>1, <1>1, <1>4
<1>6. ASSUME r - q <= -1 PROVE FALSE
  <2>1. P * (q - r) >= P
    <3>1. P * (q - r) = P + P * (q - r - 1) BY <1>1
    <3>2. ASSUME NEW i \in Nat PROVE P * i >= 0 BY <1>1
    <3>3. q - r - 1 \in Nat BY <1>6
    <3> QED BY <3>1, <3>2, <3>3, <1>1
  <2>2. k - m = P * (q - r) BY <1>1, <1>2, <1>3
  <2> QED BY <2>1, <2>2, <1>1
<1>7. r - q = 0 BY <1>5, <1>6
<1>8. P * (r - q) = 0 BY <1>1, <1>7
<1> QED BY <1>1, <1>4, <1>8

\* A reduced element is its own residue.
LEMMA ResidueSelf ==
  ASSUME NEW m \in M31
  PROVE  Residue(m, m)
<1>1. m \in Int /\ m = m + P * 0 BY FieldAssumption DEF M31
<1> QED BY <1>1 DEF Residue

\* Reducing an integer in Nat leaves its residue.
LEMMA ResidueMod ==
  ASSUME NEW n \in Nat
  PROVE  Residue(n % P, n)
<1>1. P \in Nat /\ P > 0 BY FieldAssumption
<1>2. n % P \in 0 .. (P - 1) /\ n \div P \in Int /\ n = (n % P) + P * (n \div P) BY <1>1
<1> QED BY <1>2 DEF Residue, M31

\* Reducing commutes with the three operations of the base field.
LEMMA ResidueOps ==
  ASSUME NEW a, NEW b, NEW m, NEW n, Residue(a, m), Residue(b, n)
  PROVE  /\ Residue(M31Add(a, b), m + n)
         /\ Residue(M31Sub(a, b), m - n)
         /\ Residue(M31Mul(a, b), m * n)
<1>1. P \in Nat /\ P > 2 /\ a \in 0 .. (P - 1) /\ b \in 0 .. (P - 1) /\ m \in Int /\ n \in Int
  BY FieldAssumption DEF Residue, M31
<1>2. PICK q \in Int : m = a + P * q BY DEF Residue
<1>3. PICK r \in Int : n = b + P * r BY DEF Residue
<1>4. ASSUME NEW k \in Nat, NEW i \in Int, NEW s \in Int, i = k + P * s
      PROVE  Residue(k % P, i)
  <2>1. PICK t \in Int : k = (k % P) + P * t BY ResidueMod DEF Residue
  <2>2. k % P \in M31 BY ResidueMod DEF Residue
  <2>3. k % P \in Int BY <1>1
  <2> DEFINE u == k % P
  <2> HIDE DEF u
  <2>4. u \in Int /\ k = u + P * t BY <2>1, <2>3 DEF u
  <2>5. i = u + P * (t + s) BY <2>4, <1>1, <1>4
  <2>6. t + s \in Int OBVIOUS
  <2>7. u \in M31 BY <2>2 DEF u
  <2> QED BY <2>5, <2>6, <2>7 DEF Residue, u
<1>5. Residue(M31Add(a, b), m + n)
  <2>1. m + n = (a + b) + P * (q + r) /\ a + b \in Nat /\ q + r \in Int /\ m + n \in Int
    BY <1>1, <1>2, <1>3
  <2> QED BY <2>1, <1>4 DEF M31Add
<1>6. Residue(M31Sub(a, b), m - n)
  <2>1. /\ m - n = (a + P - b) + P * (q - r - 1)
        /\ a + P - b \in Nat /\ q - r - 1 \in Int /\ m - n \in Int
    BY <1>1, <1>2, <1>3
  <2> QED BY <2>1, <1>4 DEF M31Sub
<1>7. Residue(M31Mul(a, b), m * n)
  <2>1. m * n = (a * b) + P * (a * r + q * b + P * (q * r))
    <3>1. (a + P * q) * (b + P * r) = (a * b) + P * (a * r + q * b + P * (q * r)) BY <1>1
    <3> QED BY <3>1, <1>2, <1>3
  <2>2. a * b \in Nat /\ a * r + q * b + P * (q * r) \in Int /\ m * n \in Int BY <1>1
  <2> QED BY <2>1, <2>2, <1>4 DEF M31Mul
<1> QED BY <1>5, <1>6, <1>7

-----------------------------------------------------------------------------
\* The quadruples, with i^2 = -1 and u^2 = 2 + i.
Quads == [c0 : Int, c1 : Int, c2 : Int, c3 : Int]

QuadMul(x, y) ==
  [ c0 |-> (x.c0 * y.c0 - x.c1 * y.c1) + 2 * (x.c2 * y.c2 - x.c3 * y.c3)
             - (x.c2 * y.c3 + x.c3 * y.c2),
    c1 |-> (x.c0 * y.c1 + x.c1 * y.c0) + (x.c2 * y.c2 - x.c3 * y.c3)
             + 2 * (x.c2 * y.c3 + x.c3 * y.c2),
    c2 |-> (x.c0 * y.c2 - x.c1 * y.c3) + (x.c2 * y.c0 - x.c3 * y.c1),
    c3 |-> (x.c0 * y.c3 + x.c1 * y.c2) + (x.c2 * y.c1 + x.c3 * y.c0) ]

QuadAdd(x, y) ==
  [c0 |-> x.c0 + y.c0, c1 |-> x.c1 + y.c1, c2 |-> x.c2 + y.c2, c3 |-> x.c3 + y.c3]

QuadSub(x, y) ==
  [c0 |-> x.c0 - y.c0, c1 |-> x.c1 - y.c1, c2 |-> x.c2 - y.c2, c3 |-> x.c3 - y.c3]

\* a is the quadruple x, limb by limb modulo P.
Reduces(a, x) ==
  /\ a \in QM31 /\ x \in Quads
  /\ Residue(a.c0, x.c0) /\ Residue(a.c1, x.c1) /\ Residue(a.c2, x.c2) /\ Residue(a.c3, x.c3)

\* An element of the secure field is a quadruple and reduces to itself.
LEMMA ReducesSelf ==
  ASSUME NEW a \in QM31
  PROVE  a \in Quads /\ Reduces(a, a)
<1>1. a.c0 \in M31 /\ a.c1 \in M31 /\ a.c2 \in M31 /\ a.c3 \in M31 BY DEF QM31
<1>2. M31 \subseteq Int BY FieldAssumption DEF M31
<1>3. a \in Quads BY <1>2 DEF QM31, Quads
<1> QED BY <1>1, <1>3, ResidueSelf DEF Reduces

\* No quadruple reduces to two elements.
LEMMA ReducesUnique ==
  ASSUME NEW a, NEW b, NEW x, Reduces(a, x), Reduces(b, x)
  PROVE  a = b
<1>1. a.c0 = b.c0 /\ a.c1 = b.c1 /\ a.c2 = b.c2 /\ a.c3 = b.c3
  BY ResidueUnique DEF Reduces
<1> QED BY <1>1 DEF Reduces, QM31

\* The operations on quadruples give quadruples.
LEMMA QuadClosed ==
  ASSUME NEW x \in Quads, NEW y \in Quads
  PROVE  QuadMul(x, y) \in Quads /\ QuadAdd(x, y) \in Quads /\ QuadSub(x, y) \in Quads
<1>1. /\ x.c0 \in Int /\ x.c1 \in Int /\ x.c2 \in Int /\ x.c3 \in Int
      /\ y.c0 \in Int /\ y.c1 \in Int /\ y.c2 \in Int /\ y.c3 \in Int
  BY DEF Quads
<1>2. ASSUME NEW m \in Int, NEW n \in Int PROVE m * n \in Int OBVIOUS
<1>3. ASSUME NEW m \in Int, NEW n \in Int, NEW k \in Int, NEW l \in Int,
             NEW s \in Int, NEW t \in Int
      PROVE  /\ (m - n) + 2 * (k - l) - (s + t) \in Int
             /\ (m + n) + (k - l) + 2 * (s + t) \in Int
             /\ (m - n) + (k - l) \in Int
             /\ (m + n) + (k + l) \in Int
  OBVIOUS
<1>4. /\ QuadMul(x, y).c0 \in Int /\ QuadMul(x, y).c1 \in Int
      /\ QuadMul(x, y).c2 \in Int /\ QuadMul(x, y).c3 \in Int
  BY <1>1, <1>2, <1>3 DEF QuadMul
<1>5. QuadMul(x, y) \in Quads BY <1>4 DEF QuadMul, Quads
<1> QED BY <1>1, <1>5 DEF QuadAdd, QuadSub, Quads

\* Reducing commutes with the three operations of the secure field.
LEMMA ReducesOps ==
  ASSUME NEW a, NEW b, NEW x, NEW y, Reduces(a, x), Reduces(b, y)
  PROVE  /\ Reduces(Qm31Add(a, b), QuadAdd(x, y))
         /\ Reduces(Qm31Sub(a, b), QuadSub(x, y))
         /\ Reduces(Qm31Mul(a, b), QuadMul(x, y))
<1>1. a \in QM31 /\ b \in QM31 /\ x \in Quads /\ y \in Quads BY DEF Reduces
<1>2. /\ x.c0 \in Int /\ x.c1 \in Int /\ x.c2 \in Int /\ x.c3 \in Int
      /\ y.c0 \in Int /\ y.c1 \in Int /\ y.c2 \in Int /\ y.c3 \in Int
  BY <1>1 DEF Quads
<1>3. Qm31Add(a, b) \in QM31 /\ Qm31Sub(a, b) \in QM31 /\ Qm31Mul(a, b) \in QM31
  BY <1>1, Qm31Closed
<1>4. Reduces(Qm31Add(a, b), QuadAdd(x, y))
  <2>1. QuadAdd(x, y) \in Quads BY <1>1, QuadClosed
  <2> QED BY <1>3, <2>1, ResidueOps DEF Reduces, Qm31Add, QuadAdd
<1>5. Reduces(Qm31Sub(a, b), QuadSub(x, y))
  <2>1. QuadSub(x, y) \in Quads BY <1>1, QuadClosed
  <2> QED BY <1>3, <2>1, ResidueOps DEF Reduces, Qm31Sub, QuadSub
<1>6. Reduces(Qm31Mul(a, b), QuadMul(x, y))
  <2>1. QuadMul(x, y) \in Quads BY <1>1, QuadClosed
  <2> DEFINE ll == CmMul(Low(a), Low(b))
             hh == CmMul(High(a), High(b))
             lh == CmMul(Low(a), High(b))
             hl == CmMul(High(a), Low(b))
  <2>2. /\ Residue(ll.re, x.c0 * y.c0 - x.c1 * y.c1) /\ Residue(ll.im, x.c0 * y.c1 + x.c1 * y.c0)
        /\ Residue(hh.re, x.c2 * y.c2 - x.c3 * y.c3) /\ Residue(hh.im, x.c2 * y.c3 + x.c3 * y.c2)
        /\ Residue(lh.re, x.c0 * y.c2 - x.c1 * y.c3) /\ Residue(lh.im, x.c0 * y.c3 + x.c1 * y.c2)
        /\ Residue(hl.re, x.c2 * y.c0 - x.c3 * y.c1) /\ Residue(hl.im, x.c2 * y.c1 + x.c3 * y.c0)
    BY ResidueOps DEF Reduces, CmMul, Cm, Low, High
  <2>3. Qm31Mul(a, b) = FromHalves(CmAdd(ll, CmMulR(hh)), CmAdd(lh, hl)) BY DEF Qm31Mul
  <2> HIDE DEF ll, hh, lh, hl
  <2> DEFINE hr == x.c2 * y.c2 - x.c3 * y.c3
             hi == x.c2 * y.c3 + x.c3 * y.c2
             lr == x.c0 * y.c0 - x.c1 * y.c1
             li == x.c0 * y.c1 + x.c1 * y.c0
             p == Qm31Mul(a, b)
  <2>4. /\ Residue(M31Sub(M31Add(hh.re, hh.re), hh.im), (hr + hr) - hi)
        /\ Residue(M31Add(hh.re, M31Add(hh.im, hh.im)), hr + (hi + hi))
    BY <2>2, ResidueOps
  <2>5. /\ Residue(p.c0, lr + ((hr + hr) - hi)) /\ Residue(p.c1, li + (hr + (hi + hi)))
    <3>1. /\ p.c0 = M31Add(ll.re, M31Sub(M31Add(hh.re, hh.re), hh.im))
          /\ p.c1 = M31Add(ll.im, M31Add(hh.re, M31Add(hh.im, hh.im)))
      BY <2>3 DEF FromHalves, CmAdd, CmMulR, Cm
    <3> HIDE DEF hr, hi, p
    <3>2. Residue(ll.re, lr) /\ Residue(ll.im, li) BY <2>2
    <3> HIDE DEF lr, li
    <3> QED BY <2>4, <3>1, <3>2, ResidueOps
  <2>6. /\ Residue(p.c2, (x.c0 * y.c2 - x.c1 * y.c3) + (x.c2 * y.c0 - x.c3 * y.c1))
        /\ Residue(p.c3, (x.c0 * y.c3 + x.c1 * y.c2) + (x.c2 * y.c1 + x.c3 * y.c0))
    <3>1. p.c2 = M31Add(lh.re, hl.re) /\ p.c3 = M31Add(lh.im, hl.im)
      BY <2>3 DEF FromHalves, CmAdd, Cm
    <3> HIDE DEF p
    <3> QED BY <2>2, <3>1, ResidueOps
  <2>7. /\ lr + ((hr + hr) - hi) = lr + 2 * hr - hi
        /\ li + (hr + (hi + hi)) = li + hr + 2 * hi
    <3>1. lr \in Int /\ li \in Int /\ hr \in Int /\ hi \in Int BY <1>2
    <3> HIDE DEF lr, li, hr, hi
    <3> QED BY <3>1
  <2>8. /\ QuadMul(x, y).c0 = lr + 2 * hr - hi /\ QuadMul(x, y).c1 = li + hr + 2 * hi
        /\ QuadMul(x, y).c2 = (x.c0 * y.c2 - x.c1 * y.c3) + (x.c2 * y.c0 - x.c3 * y.c1)
        /\ QuadMul(x, y).c3 = (x.c0 * y.c3 + x.c1 * y.c2) + (x.c2 * y.c1 + x.c3 * y.c0)
    BY DEF QuadMul
  <2> HIDE DEF lr, li, hr, hi, p
  <2>9. /\ Residue(p.c0, QuadMul(x, y).c0) /\ Residue(p.c1, QuadMul(x, y).c1)
        /\ Residue(p.c2, QuadMul(x, y).c2) /\ Residue(p.c3, QuadMul(x, y).c3)
    BY <2>5, <2>6, <2>7, <2>8
  <2> QED BY <1>3, <2>1, <2>9 DEF Reduces, p
<1> QED BY <1>4, <1>5, <1>6

-----------------------------------------------------------------------------
\* The quadruples are a commutative ring.
LEMMA QuadRing ==
  ASSUME NEW x \in Quads, NEW y \in Quads, NEW z \in Quads
  PROVE  /\ QuadMul(x, y) = QuadMul(y, x)
         /\ QuadMul(QuadMul(x, y), z) = QuadMul(x, QuadMul(y, z))
         /\ QuadMul(x, QuadAdd(y, z)) = QuadAdd(QuadMul(x, y), QuadMul(x, z))
         /\ QuadMul(x, QuadSub(y, z)) = QuadSub(QuadMul(x, y), QuadMul(x, z))
         /\ QuadAdd(x, y) = QuadAdd(y, x)
         /\ QuadAdd(QuadAdd(x, y), z) = QuadAdd(x, QuadAdd(y, z))
         /\ QuadSub(QuadSub(x, y), z) = QuadSub(x, QuadAdd(y, z))
         /\ QuadAdd(QuadSub(x, y), y) = x
<1>1. /\ x.c0 \in Int /\ x.c1 \in Int /\ x.c2 \in Int /\ x.c3 \in Int
      /\ y.c0 \in Int /\ y.c1 \in Int /\ y.c2 \in Int /\ y.c3 \in Int
      /\ z.c0 \in Int /\ z.c1 \in Int /\ z.c2 \in Int /\ z.c3 \in Int
  BY DEF Quads
<1>2. QuadMul(x, y) = QuadMul(y, x) BY <1>1 DEF QuadMul
<1>3. QuadMul(QuadMul(x, y), z) = QuadMul(x, QuadMul(y, z))
  <2>1. PICK x0 \in Int, x1 \in Int, x2 \in Int, x3 \in Int :
          x = [c0 |-> x0, c1 |-> x1, c2 |-> x2, c3 |-> x3]
    BY DEF Quads
  <2>2. PICK y0 \in Int, y1 \in Int, y2 \in Int, y3 \in Int :
          y = [c0 |-> y0, c1 |-> y1, c2 |-> y2, c3 |-> y3]
    BY DEF Quads
  <2>3. PICK z0 \in Int, z1 \in Int, z2 \in Int, z3 \in Int :
          z = [c0 |-> z0, c1 |-> z1, c2 |-> z2, c3 |-> z3]
    BY DEF Quads
  <2> DEFINE p0 == (x0 * y0 - x1 * y1) + 2 * (x2 * y2 - x3 * y3) - (x2 * y3 + x3 * y2)
             p1 == (x0 * y1 + x1 * y0) + (x2 * y2 - x3 * y3) + 2 * (x2 * y3 + x3 * y2)
             p2 == (x0 * y2 - x1 * y3) + (x2 * y0 - x3 * y1)
             p3 == (x0 * y3 + x1 * y2) + (x2 * y1 + x3 * y0)
             r0 == (y0 * z0 - y1 * z1) + 2 * (y2 * z2 - y3 * z3) - (y2 * z3 + y3 * z2)
             r1 == (y0 * z1 + y1 * z0) + (y2 * z2 - y3 * z3) + 2 * (y2 * z3 + y3 * z2)
             r2 == (y0 * z2 - y1 * z3) + (y2 * z0 - y3 * z1)
             r3 == (y0 * z3 + y1 * z2) + (y2 * z1 + y3 * z0)
  <2>4. /\ (p0 * z0 - p1 * z1) + 2 * (p2 * z2 - p3 * z3) - (p2 * z3 + p3 * z2)
             = (x0 * r0 - x1 * r1) + 2 * (x2 * r2 - x3 * r3) - (x2 * r3 + x3 * r2)
        /\ (p0 * z1 + p1 * z0) + (p2 * z2 - p3 * z3) + 2 * (p2 * z3 + p3 * z2)
             = (x0 * r1 + x1 * r0) + (x2 * r2 - x3 * r3) + 2 * (x2 * r3 + x3 * r2)
        /\ (p0 * z2 - p1 * z3) + (p2 * z0 - p3 * z1)
             = (x0 * r2 - x1 * r3) + (x2 * r0 - x3 * r1)
        /\ (p0 * z3 + p1 * z2) + (p2 * z1 + p3 * z0)
             = (x0 * r3 + x1 * r2) + (x2 * r1 + x3 * r0)
    OBVIOUS
  <2>5. /\ QuadMul(x, y) = [c0 |-> p0, c1 |-> p1, c2 |-> p2, c3 |-> p3]
        /\ QuadMul(y, z) = [c0 |-> r0, c1 |-> r1, c2 |-> r2, c3 |-> r3]
    BY <2>1, <2>2, <2>3, Zenon DEF QuadMul
  <2> HIDE DEF p0, p1, p2, p3, r0, r1, r2, r3
  <2>6. QuadMul([c0 |-> p0, c1 |-> p1, c2 |-> p2, c3 |-> p3], z) =
          [ c0 |-> (p0 * z0 - p1 * z1) + 2 * (p2 * z2 - p3 * z3) - (p2 * z3 + p3 * z2),
            c1 |-> (p0 * z1 + p1 * z0) + (p2 * z2 - p3 * z3) + 2 * (p2 * z3 + p3 * z2),
            c2 |-> (p0 * z2 - p1 * z3) + (p2 * z0 - p3 * z1),
            c3 |-> (p0 * z3 + p1 * z2) + (p2 * z1 + p3 * z0) ]
    BY <2>3, Zenon DEF QuadMul
  <2>7. QuadMul(x, [c0 |-> r0, c1 |-> r1, c2 |-> r2, c3 |-> r3]) =
          [ c0 |-> (x0 * r0 - x1 * r1) + 2 * (x2 * r2 - x3 * r3) - (x2 * r3 + x3 * r2),
            c1 |-> (x0 * r1 + x1 * r0) + (x2 * r2 - x3 * r3) + 2 * (x2 * r3 + x3 * r2),
            c2 |-> (x0 * r2 - x1 * r3) + (x2 * r0 - x3 * r1),
            c3 |-> (x0 * r3 + x1 * r2) + (x2 * r1 + x3 * r0) ]
    BY <2>1, Zenon DEF QuadMul
  <2> QED BY <2>4, <2>5, <2>6, <2>7, Zenon
<1>4. /\ QuadMul(x, QuadAdd(y, z)) = QuadAdd(QuadMul(x, y), QuadMul(x, z))
      /\ QuadMul(x, QuadSub(y, z)) = QuadSub(QuadMul(x, y), QuadMul(x, z))
  BY <1>1 DEF QuadMul, QuadAdd, QuadSub
<1>5. /\ QuadAdd(x, y) = QuadAdd(y, x)
      /\ QuadAdd(QuadAdd(x, y), z) = QuadAdd(x, QuadAdd(y, z))
      /\ QuadSub(QuadSub(x, y), z) = QuadSub(x, QuadAdd(y, z))
      /\ QuadAdd(QuadSub(x, y), y) = x
  BY <1>1 DEF QuadAdd, QuadSub, Quads
<1> QED BY <1>2, <1>3, <1>4, <1>5

\* The secure field is a commutative ring with one, over the base field.
LEMMA SecureRing ==
  ASSUME NEW a \in QM31, NEW b \in QM31, NEW c \in QM31
  PROVE  /\ Qm31Mul(a, b) = Qm31Mul(b, a)
         /\ Qm31Mul(Qm31Mul(a, b), c) = Qm31Mul(a, Qm31Mul(b, c))
         /\ Qm31Mul(a, Qm31Add(b, c)) = Qm31Add(Qm31Mul(a, b), Qm31Mul(a, c))
         /\ Qm31Mul(a, Qm31Sub(b, c)) = Qm31Sub(Qm31Mul(a, b), Qm31Mul(a, c))
         /\ Qm31Add(a, b) = Qm31Add(b, a)
         /\ Qm31Add(Qm31Add(a, b), c) = Qm31Add(a, Qm31Add(b, c))
         /\ Qm31Sub(Qm31Sub(a, b), c) = Qm31Sub(a, Qm31Add(b, c))
         /\ Qm31Add(Qm31Sub(a, b), b) = a
<1>1. /\ Reduces(a, a) /\ Reduces(b, b) /\ Reduces(c, c)
      /\ a \in Quads /\ b \in Quads /\ c \in Quads
  BY ReducesSelf
<1>2. /\ Reduces(Qm31Mul(a, b), QuadMul(a, b)) /\ Reduces(Qm31Mul(b, a), QuadMul(b, a))
      /\ Reduces(Qm31Mul(b, c), QuadMul(b, c)) /\ Reduces(Qm31Mul(a, c), QuadMul(a, c))
      /\ Reduces(Qm31Add(a, b), QuadAdd(a, b)) /\ Reduces(Qm31Add(b, a), QuadAdd(b, a))
      /\ Reduces(Qm31Add(b, c), QuadAdd(b, c)) /\ Reduces(Qm31Sub(b, c), QuadSub(b, c))
      /\ Reduces(Qm31Sub(a, b), QuadSub(a, b))
  BY <1>1, ReducesOps
<1>3. /\ Reduces(Qm31Mul(Qm31Mul(a, b), c), QuadMul(QuadMul(a, b), c))
      /\ Reduces(Qm31Mul(a, Qm31Mul(b, c)), QuadMul(a, QuadMul(b, c)))
  BY <1>1, <1>2, ReducesOps
<1>4. /\ Reduces(Qm31Mul(a, Qm31Add(b, c)), QuadMul(a, QuadAdd(b, c)))
      /\ Reduces(Qm31Mul(a, Qm31Sub(b, c)), QuadMul(a, QuadSub(b, c)))
  BY <1>1, <1>2, ReducesOps
<1>5. /\ Reduces(Qm31Add(Qm31Mul(a, b), Qm31Mul(a, c)), QuadAdd(QuadMul(a, b), QuadMul(a, c)))
      /\ Reduces(Qm31Sub(Qm31Mul(a, b), Qm31Mul(a, c)), QuadSub(QuadMul(a, b), QuadMul(a, c)))
  BY <1>2, ReducesOps
<1>6. /\ Reduces(Qm31Add(Qm31Add(a, b), c), QuadAdd(QuadAdd(a, b), c))
      /\ Reduces(Qm31Add(a, Qm31Add(b, c)), QuadAdd(a, QuadAdd(b, c)))
      /\ Reduces(Qm31Sub(Qm31Sub(a, b), c), QuadSub(QuadSub(a, b), c))
      /\ Reduces(Qm31Sub(a, Qm31Add(b, c)), QuadSub(a, QuadAdd(b, c)))
      /\ Reduces(Qm31Add(Qm31Sub(a, b), b), QuadAdd(QuadSub(a, b), b))
  BY <1>1, <1>2, ReducesOps
<1>7. /\ QuadMul(a, b) = QuadMul(b, a)
      /\ QuadMul(QuadMul(a, b), c) = QuadMul(a, QuadMul(b, c))
      /\ QuadMul(a, QuadAdd(b, c)) = QuadAdd(QuadMul(a, b), QuadMul(a, c))
      /\ QuadMul(a, QuadSub(b, c)) = QuadSub(QuadMul(a, b), QuadMul(a, c))
      /\ QuadAdd(a, b) = QuadAdd(b, a)
      /\ QuadAdd(QuadAdd(a, b), c) = QuadAdd(a, QuadAdd(b, c))
      /\ QuadSub(QuadSub(a, b), c) = QuadSub(a, QuadAdd(b, c))
      /\ QuadAdd(QuadSub(a, b), b) = a
  BY <1>1, QuadRing
<1>8. Qm31Mul(a, b) = Qm31Mul(b, a) BY <1>2, <1>7, ReducesUnique
<1>9. Qm31Mul(Qm31Mul(a, b), c) = Qm31Mul(a, Qm31Mul(b, c)) BY <1>3, <1>7, ReducesUnique
<1>10. Qm31Mul(a, Qm31Add(b, c)) = Qm31Add(Qm31Mul(a, b), Qm31Mul(a, c))
  BY <1>4, <1>5, <1>7, ReducesUnique
<1>11. Qm31Mul(a, Qm31Sub(b, c)) = Qm31Sub(Qm31Mul(a, b), Qm31Mul(a, c))
  BY <1>4, <1>5, <1>7, ReducesUnique
<1>12. Qm31Add(a, b) = Qm31Add(b, a) BY <1>2, <1>7, ReducesUnique
<1>13. Qm31Add(Qm31Add(a, b), c) = Qm31Add(a, Qm31Add(b, c)) BY <1>6, <1>7, ReducesUnique
<1>14. Qm31Sub(Qm31Sub(a, b), c) = Qm31Sub(a, Qm31Add(b, c)) BY <1>6, <1>7, ReducesUnique
<1>15. Qm31Add(Qm31Sub(a, b), b) = a BY <1>1, <1>6, <1>7, ReducesUnique
<1> QED BY <1>8, <1>9, <1>10, <1>11, <1>12, <1>13, <1>14, <1>15

\* An embedded natural reduces to itself; a scalar product is a product by one.
LEMMA ScalarIsMul ==
  ASSUME NEW a \in QM31, NEW s \in M31
  PROVE  /\ Qm31FromM31(s) \in QM31
         /\ Qm31MulM31(a, s) = Qm31Mul(a, Qm31FromM31(s))
<1>1. 0 \in M31 /\ Residue(s, s) /\ Residue(0, 0) BY FieldAssumption, ResidueSelf DEF M31
<1>2. Qm31FromM31(s) \in QM31 BY <1>1 DEF Qm31FromM31, QM31
<1>3. Qm31MulM31(a, s) \in QM31 BY MulM31Closed, M31Bounds
<1>4. /\ a \in Quads /\ Reduces(a, a)
      /\ Qm31FromM31(s) \in Quads /\ Reduces(Qm31FromM31(s), Qm31FromM31(s))
  BY <1>2, ReducesSelf
<1> DEFINE q == QuadMul(a, Qm31FromM31(s))
<1>5. q \in Quads /\ Reduces(Qm31Mul(a, Qm31FromM31(s)), q) BY <1>4, QuadClosed, ReducesOps
<1>6. /\ a.c0 \in Int /\ a.c1 \in Int /\ a.c2 \in Int /\ a.c3 \in Int /\ s \in Int
  BY <1>4, M31Bounds DEF Quads
<1>7. q.c0 = a.c0 * s /\ q.c1 = a.c1 * s /\ q.c2 = a.c2 * s /\ q.c3 = a.c3 * s
  BY <1>6 DEF QuadMul, Qm31FromM31
<1>8. /\ Residue(M31Mul(a.c0, s), a.c0 * s) /\ Residue(M31Mul(a.c1, s), a.c1 * s)
      /\ Residue(M31Mul(a.c2, s), a.c2 * s) /\ Residue(M31Mul(a.c3, s), a.c3 * s)
  BY <1>1, <1>4, ResidueOps DEF Reduces
<1>9. Reduces(Qm31MulM31(a, s), q)
  <2> HIDE DEF q
  <2>1. /\ Qm31MulM31(a, s).c0 = M31Mul(a.c0, s) /\ Qm31MulM31(a, s).c1 = M31Mul(a.c1, s)
        /\ Qm31MulM31(a, s).c2 = M31Mul(a.c2, s) /\ Qm31MulM31(a, s).c3 = M31Mul(a.c3, s)
    BY DEF Qm31MulM31
  <2> QED BY <1>3, <1>5, <1>7, <1>8, <2>1 DEF Reduces
<1> QED BY <1>2, <1>5, <1>9, ReducesUnique

\* The embedded 1 is the unit of the secure field.
LEMMA OneIsOne ==
  ASSUME NEW a \in QM31
  PROVE  /\ Qm31FromM31(1) \in QM31
         /\ Qm31Mul(a, Qm31FromM31(1)) = a
<1>1. 1 \in M31 BY FieldAssumption DEF M31
<1>2. ASSUME NEW n \in M31 PROVE M31Mul(n, 1) = n
  <2>1. P \in Nat /\ P > 2 /\ n \in 0 .. (P - 1) BY FieldAssumption DEF M31
  <2>2. n * 1 = n /\ n % P = n BY <2>1
  <2> QED BY <2>2 DEF M31Mul
<1>3. a.c0 \in M31 /\ a.c1 \in M31 /\ a.c2 \in M31 /\ a.c3 \in M31 BY DEF QM31
<1>4. Qm31MulM31(a, 1) = [c0 |-> a.c0, c1 |-> a.c1, c2 |-> a.c2, c3 |-> a.c3]
  BY <1>2, <1>3 DEF Qm31MulM31
<1>5. Qm31MulM31(a, 1) = a BY <1>4 DEF QM31
<1> QED BY <1>1, <1>5, ScalarIsMul

-----------------------------------------------------------------------------
\* The complex extension, its elements as halves of the secure field, and the conjugation
\* that negates the high half.
CM31 == [re : M31, im : M31]
Emb(c) == FromHalves(c, Cm(0, 0))
Conjugate(a) == FromHalves(Low(a), CmSub(Cm(0, 0), High(a)))

\* Zero and one are reduced.
LEMMA ZeroInM31 == 0 \in M31 /\ 1 \in M31 /\ Residue(0, 0) /\ Residue(1, 1)
<1>1. 0 \in M31 /\ 1 \in M31 BY FieldAssumption DEF M31
<1> QED BY <1>1, ResidueSelf

\* An embedded element has no high half.
LEMMA EmbClosed ==
  ASSUME NEW c \in CM31
  PROVE  /\ Emb(c) \in QM31
         /\ Emb(c) = [c0 |-> c.re, c1 |-> c.im, c2 |-> 0, c3 |-> 0]
         /\ Low(Emb(c)) = c /\ High(Emb(c)) = Cm(0, 0)
<1>1. c = [re |-> c.re, im |-> c.im] BY DEF CM31
<1> QED BY <1>1, ZeroInM31 DEF Emb, FromHalves, Low, High, Cm, CM31, QM31

\* What the operations of the complex extension reduce to.
LEMMA CmMulResidues ==
  ASSUME NEW x, NEW y, NEW k, NEW l, NEW m, NEW n,
         Residue(x.re, k), Residue(x.im, l), Residue(y.re, m), Residue(y.im, n)
  PROVE  /\ Residue(CmMul(x, y).re, k * m - l * n)
         /\ Residue(CmMul(x, y).im, k * n + l * m)
<1>1. /\ Residue(M31Mul(x.re, y.re), k * m) /\ Residue(M31Mul(x.im, y.im), l * n)
      /\ Residue(M31Mul(x.re, y.im), k * n) /\ Residue(M31Mul(x.im, y.re), l * m)
  BY ResidueOps
<1> QED BY <1>1, ResidueOps DEF CmMul, Cm

\* Subtraction in the complex extension, reduced.
LEMMA CmSubResidues ==
  ASSUME NEW x, NEW y, NEW k, NEW l, NEW m, NEW n,
         Residue(x.re, k), Residue(x.im, l), Residue(y.re, m), Residue(y.im, n)
  PROVE  Residue(CmSub(x, y).re, k - m) /\ Residue(CmSub(x, y).im, l - n)
BY ResidueOps DEF CmSub, Cm

\* Multiplication by R = 2 + i, reduced.
LEMMA CmMulRResidues ==
  ASSUME NEW x, NEW k, NEW l, Residue(x.re, k), Residue(x.im, l)
  PROVE  Residue(CmMulR(x).re, (k + k) - l) /\ Residue(CmMulR(x).im, k + (l + l))
<1>1. Residue(M31Add(x.re, x.re), k + k) /\ Residue(M31Add(x.im, x.im), l + l) BY ResidueOps
<1> QED BY <1>1, ResidueOps DEF CmMulR, Cm

\* Subtraction stays in the complex extension.
LEMMA CmSubClosed ==
  ASSUME NEW x \in CM31, NEW y \in CM31
  PROVE  CmSub(x, y) \in CM31
BY M31Bounds, M31Closed DEF CmSub, Cm, CM31

\* Multiplication of the complex extension is that of the secure field.
LEMMA EmbMul ==
  ASSUME NEW x \in CM31, NEW y \in CM31
  PROVE  /\ CmMul(x, y) \in CM31
         /\ Qm31Mul(Emb(x), Emb(y)) = Emb(CmMul(x, y))
<1>1. CmMul(x, y) \in CM31 BY CmClosed DEF CM31
<1>2. x.re \in M31 /\ x.im \in M31 /\ y.re \in M31 /\ y.im \in M31 BY DEF CM31
<1>3. x.re \in Int /\ x.im \in Int /\ y.re \in Int /\ y.im \in Int BY <1>2, M31Bounds
<1>4. /\ Emb(x) \in QM31 /\ Emb(x) = [c0 |-> x.re, c1 |-> x.im, c2 |-> 0, c3 |-> 0]
      /\ Emb(y) \in QM31 /\ Emb(y) = [c0 |-> y.re, c1 |-> y.im, c2 |-> 0, c3 |-> 0]
      /\ Emb(CmMul(x, y)) \in QM31
      /\ Emb(CmMul(x, y)) = [c0 |-> CmMul(x, y).re, c1 |-> CmMul(x, y).im, c2 |-> 0, c3 |-> 0]
  BY <1>1, EmbClosed
<1> DEFINE q == QuadMul(Emb(x), Emb(y))
<1>5. q \in Quads /\ Reduces(Qm31Mul(Emb(x), Emb(y)), q)
  BY <1>4, ReducesSelf, ReducesOps, QuadClosed
<1>6. /\ q.c0 = x.re * y.re - x.im * y.im /\ q.c1 = x.re * y.im + x.im * y.re
      /\ q.c2 = 0 /\ q.c3 = 0
  BY <1>3, <1>4 DEF QuadMul
<1>7. /\ Residue(CmMul(x, y).re, x.re * y.re - x.im * y.im)
      /\ Residue(CmMul(x, y).im, x.re * y.im + x.im * y.re)
  BY <1>2, ResidueSelf, CmMulResidues
<1> HIDE DEF q
<1>8. Reduces(Emb(CmMul(x, y)), q) BY <1>4, <1>5, <1>6, <1>7, ZeroInM31 DEF Reduces
<1> QED BY <1>1, <1>5, <1>8, ReducesUnique

\* Halves and norm are of the complex extension, and the halves make up the element.
LEMMA HalvesClosed ==
  ASSUME NEW a \in QM31
  PROVE  /\ Low(a) \in CM31 /\ High(a) \in CM31 /\ Norm(a) \in CM31
         /\ Conjugate(a) \in QM31 /\ a = FromHalves(Low(a), High(a))
<1>1. Low(a) \in CM31 /\ High(a) \in CM31 /\ Cm(0, 0) \in CM31
  BY ZeroInM31 DEF Low, High, Cm, CM31, QM31
<1>2. Norm(a) \in CM31
  <2>1. CmMul(Low(a), Low(a)) \in CM31 /\ CmMul(High(a), High(a)) \in CM31
    BY <1>1, CmClosed DEF CM31
  <2>2. CmMulR(CmMul(High(a), High(a))) \in CM31 BY <2>1, CmClosed DEF CM31
  <2> QED BY <2>1, <2>2, CmSubClosed DEF Norm
<1>3. CmSub(Cm(0, 0), High(a)) \in CM31 BY <1>1, CmSubClosed
<1>4. ASSUME NEW lo \in CM31, NEW hi \in CM31 PROVE FromHalves(lo, hi) \in QM31
  BY DEF FromHalves, CM31, QM31
<1>5. a = FromHalves(Low(a), High(a)) BY DEF FromHalves, Low, High, Cm, QM31
<1> QED BY <1>1, <1>2, <1>3, <1>4, <1>5 DEF Conjugate

\* An element times its conjugate is its norm.
LEMMA ConjugateMul ==
  ASSUME NEW a \in QM31
  PROVE  Qm31Mul(a, Conjugate(a)) = Emb(Norm(a))
<1>1. Norm(a) \in CM31 /\ Conjugate(a) \in QM31 BY HalvesClosed
<1>2. PICK a0 \in M31, a1 \in M31, a2 \in M31, a3 \in M31 :
        a = [c0 |-> a0, c1 |-> a1, c2 |-> a2, c3 |-> a3]
  BY DEF QM31
<1>3. /\ a0 \in Int /\ a1 \in Int /\ a2 \in Int /\ a3 \in Int
      /\ Residue(a0, a0) /\ Residue(a1, a1) /\ Residue(a2, a2) /\ Residue(a3, a3)
  BY M31Bounds, ResidueSelf
<1> DEFINE n2 == 0 - a2
           n3 == 0 - a3
           k == [c0 |-> a0, c1 |-> a1, c2 |-> n2, c3 |-> n3]
           q == QuadMul(a, k)
<1>4. n2 \in Int /\ n3 \in Int BY <1>3
<1>5. k \in Quads BY <1>3, <1>4 DEF Quads
<1>6. Reduces(Conjugate(a), k)
  <2>1. /\ Low(a).re = a0 /\ Low(a).im = a1 /\ High(a).re = a2 /\ High(a).im = a3
        /\ Cm(0, 0).re = 0 /\ Cm(0, 0).im = 0
    BY <1>2 DEF Low, High, Cm
  <2>2. /\ Residue(CmSub(Cm(0, 0), High(a)).re, 0 - a2)
        /\ Residue(CmSub(Cm(0, 0), High(a)).im, 0 - a3)
    BY <1>3, <2>1, ZeroInM31, CmSubResidues
  <2>3. /\ Conjugate(a).c0 = a0 /\ Conjugate(a).c1 = a1
        /\ Conjugate(a).c2 = CmSub(Cm(0, 0), High(a)).re
        /\ Conjugate(a).c3 = CmSub(Cm(0, 0), High(a)).im
    BY <2>1 DEF Conjugate, FromHalves
  <2>4. k.c0 = a0 /\ k.c1 = a1 /\ k.c2 = n2 /\ k.c3 = n3 OBVIOUS
  <2> HIDE DEF k
  <2> QED BY <1>1, <1>3, <1>5, <2>2, <2>3, <2>4 DEF Reduces
<1>7. Reduces(Qm31Mul(a, Conjugate(a)), q) BY <1>6, ReducesSelf, ReducesOps
<1>8. q \in Quads BY <1>5, ReducesSelf, QuadClosed
<1> DEFINE lr == a0 * a0 - a1 * a1
           li == a0 * a1 + a1 * a0
           hr == a2 * a2 - a3 * a3
           hi == a2 * a3 + a3 * a2
           nr == lr - ((hr + hr) - hi)
           ni == li - (hr + (hi + hi))
<1>9. q.c0 = nr /\ q.c1 = ni /\ q.c2 = 0 /\ q.c3 = 0
  <2>1. q = [ c0 |-> (a0 * a0 - a1 * a1) + 2 * (a2 * n2 - a3 * n3) - (a2 * n3 + a3 * n2),
              c1 |-> (a0 * a1 + a1 * a0) + (a2 * n2 - a3 * n3) + 2 * (a2 * n3 + a3 * n2),
              c2 |-> (a0 * n2 - a1 * n3) + (a2 * a0 - a3 * a1),
              c3 |-> (a0 * n3 + a1 * n2) + (a2 * a1 + a3 * a0) ]
    <3> HIDE DEF n2, n3
    <3> QED BY <1>2, Zenon DEF QuadMul
  <2>2. /\ (a0 * a0 - a1 * a1) + 2 * (a2 * n2 - a3 * n3) - (a2 * n3 + a3 * n2) = nr
        /\ (a0 * a1 + a1 * a0) + (a2 * n2 - a3 * n3) + 2 * (a2 * n3 + a3 * n2) = ni
        /\ (a0 * n2 - a1 * n3) + (a2 * a0 - a3 * a1) = 0
        /\ (a0 * n3 + a1 * n2) + (a2 * a1 + a3 * a0) = 0
    BY <1>3
  <2> HIDE DEF q, n2, n3, nr, ni
  <2> QED BY <2>1, <2>2, Zenon
<1> HIDE DEF q, k
<1>10. Residue(Norm(a).re, nr) /\ Residue(Norm(a).im, ni)
  <2> DEFINE ll == CmMul(Low(a), Low(a))
             hh == CmMul(High(a), High(a))
  <2>1. /\ Low(a).re = a0 /\ Low(a).im = a1 /\ High(a).re = a2 /\ High(a).im = a3
    BY <1>2 DEF Low, High, Cm
  <2>2. Residue(ll.re, lr) /\ Residue(ll.im, li) BY <1>3, <2>1, CmMulResidues
  <2>3. Residue(hh.re, hr) /\ Residue(hh.im, hi) BY <1>3, <2>1, CmMulResidues
  <2>4. Norm(a) = CmSub(ll, CmMulR(hh)) BY DEF Norm
  <2> HIDE DEF ll, hh, lr, li, hr, hi
  <2>5. Residue(CmMulR(hh).re, (hr + hr) - hi) /\ Residue(CmMulR(hh).im, hr + (hi + hi))
    BY <2>3, CmMulRResidues
  <2> QED BY <2>2, <2>4, <2>5, CmSubResidues
<1> HIDE DEF nr, ni
<1>11. /\ Emb(Norm(a)) \in QM31
       /\ Emb(Norm(a)) = [c0 |-> Norm(a).re, c1 |-> Norm(a).im, c2 |-> 0, c3 |-> 0]
  BY <1>1, EmbClosed
<1>12. Reduces(Emb(Norm(a)), q) BY <1>8, <1>9, <1>10, <1>11, ZeroInM31 DEF Reduces
<1> QED BY <1>7, <1>12, ReducesUnique

-----------------------------------------------------------------------------
\* A nonzero element of the complex extension has its inverse.
LEMMA CmInverse ==
  ASSUME NEW c \in CM31, c # Cm(0, 0)
  PROVE  CmInv(c) \in CM31 /\ CmMul(c, CmInv(c)) = Cm(1, 0)
<1>1. PICK r \in M31, i \in M31 : c = [re |-> r, im |-> i] BY DEF CM31
<1> DEFINE n == M31Add(M31Mul(r, r), M31Mul(i, i))
           v == M31Inv(n)
           d == CmInv(c)
<1>2. n \in M31 /\ n # 0
  <2>1. M31Mul(r, r) \in M31 /\ M31Mul(i, i) \in M31 BY M31Bounds, M31Closed
  <2>2. n \in M31 BY <2>1, M31Bounds, M31Closed
  <2>3. ~(r = 0 /\ i = 0) BY <1>1 DEF Cm
  <2> QED BY <2>2, <2>3, TowerAssumption
<1>3. v \in M31 /\ M31Mul(n, v) = 1 BY <1>2, InverseAssumption
<1>4. d = [re |-> M31Mul(r, v), im |-> M31Mul(M31Sub(0, i), v)] BY <1>1 DEF CmInv, Cm
<1>5. /\ r \in Int /\ i \in Int /\ v \in Int
      /\ Residue(r, r) /\ Residue(i, i) /\ Residue(v, v)
  BY <1>3, M31Bounds, ResidueSelf
<1>6. Residue(1, (r * r + i * i) * v)
  <2>1. Residue(M31Mul(r, r), r * r) /\ Residue(M31Mul(i, i), i * i) BY <1>5, ResidueOps
  <2>2. Residue(n, r * r + i * i) BY <2>1, ResidueOps
  <2>3. Residue(M31Mul(n, v), (r * r + i * i) * v)
    <3> HIDE DEF n, v
    <3> QED BY <1>5, <2>2, ResidueOps
  <2> QED BY <1>3, <2>3
<1> HIDE DEF n, v
<1>7. /\ Residue(M31Mul(r, v), r * v) /\ Residue(M31Mul(M31Sub(0, i), v), (0 - i) * v)
  <2>1. Residue(M31Sub(0, i), 0 - i) BY <1>5, ZeroInM31, ResidueOps
  <2> QED BY <1>5, <2>1, ResidueOps
<1>8. d \in CM31
  <2>1. M31Mul(r, v) \in M31 /\ M31Mul(M31Sub(0, i), v) \in M31 BY <1>7 DEF Residue
  <2> QED BY <1>4, <2>1 DEF CM31
<1> DEFINE s == r * v
           t == (0 - i) * v
<1>9. d.re = M31Mul(r, v) /\ d.im = M31Mul(M31Sub(0, i), v) BY <1>4
<1>10. r * s - i * t = (r * r + i * i) * v /\ r * t + i * s = 0 BY <1>5
<1> HIDE DEF d, s, t
<1>11. Residue(CmMul(c, d).re, r * s - i * t) /\ Residue(CmMul(c, d).im, r * t + i * s)
  <2>1. Residue(d.re, s) /\ Residue(d.im, t) BY <1>7, <1>9 DEF s, t
  <2>2. Residue(c.re, r) /\ Residue(c.im, i) BY <1>1, <1>5
  <2> QED BY <2>1, <2>2, CmMulResidues
<1>12. CmMul(c, d).re = 1 /\ CmMul(c, d).im = 0
  BY <1>6, <1>10, <1>11, ZeroInM31, ResidueUnique
<1>13. CmMul(c, d) \in CM31 BY <1>8, EmbMul
<1> QED BY <1>8, <1>12, <1>13 DEF CM31, Cm, d

SecureZero == Qm31FromM31(0)

\* Two embeddings of the base field are one.
LEMMA Embeds ==
  ASSUME NEW s \in M31
  PROVE  Cm(s, 0) \in CM31 /\ Emb(Cm(s, 0)) = Qm31FromM31(s)
BY ZeroInM31 DEF CM31, Cm, Emb, FromHalves, Qm31FromM31

\* Elements embedded alike are the same.
LEMMA EmbInjective ==
  ASSUME NEW x \in CM31, NEW y \in CM31, Emb(x) = Emb(y)
  PROVE  x = y
<1>1. Low(Emb(x)) = x /\ Low(Emb(y)) = y BY EmbClosed
<1> QED BY <1>1

\* Zero times anything is zero, and zero is neutral for the sum.
LEMMA ZeroAbsorbs ==
  ASSUME NEW a \in QM31
  PROVE  /\ SecureZero \in QM31 /\ Qm31Mul(a, SecureZero) = SecureZero /\ Qm31Mul(SecureZero, a) = SecureZero
         /\ Qm31Add(SecureZero, a) = a
<1>1. ASSUME NEW n \in M31 PROVE M31Mul(n, 0) = 0 /\ M31Add(0, n) = n
  <2>1. P \in Nat /\ P > 2 /\ n \in 0 .. (P - 1) BY FieldAssumption DEF M31
  <2>2. n * 0 = 0 /\ 0 + n = n /\ n % P = n /\ 0 % P = 0 BY <2>1
  <2> QED BY <2>2 DEF M31Mul, M31Add
<1>2. a.c0 \in M31 /\ a.c1 \in M31 /\ a.c2 \in M31 /\ a.c3 \in M31 BY DEF QM31
<1>3. SecureZero \in QM31 /\ Qm31Mul(a, SecureZero) = Qm31MulM31(a, 0) BY ZeroInM31, ScalarIsMul DEF SecureZero
<1>4. Qm31MulM31(a, 0) = SecureZero BY <1>1, <1>2 DEF Qm31MulM31, Qm31FromM31, SecureZero
<1>5. Qm31Add(SecureZero, a) = [c0 |-> a.c0, c1 |-> a.c1, c2 |-> a.c2, c3 |-> a.c3]
  BY <1>1, <1>2 DEF Qm31Add, Qm31FromM31, SecureZero
<1>6. Qm31Add(SecureZero, a) = a BY <1>5 DEF QM31
<1> QED BY <1>3, <1>4, <1>6, SecureRing

\* qm31-inv is the conjugate times the inverse of the norm.
LEMMA InvIsConjugate ==
  ASSUME NEW a \in QM31, NEW n \in CM31
  PROVE  FromHalves(CmMul(Low(a), n), CmSub(Cm(0, 0), CmMul(High(a), n)))
           = Qm31Mul(Conjugate(a), Emb(n))
<1>1. PICK a0 \in M31, a1 \in M31, a2 \in M31, a3 \in M31 :
        a = [c0 |-> a0, c1 |-> a1, c2 |-> a2, c3 |-> a3]
  BY DEF QM31
<1>2. PICK r \in M31, i \in M31 : n = [re |-> r, im |-> i] BY DEF CM31
<1>3. /\ a0 \in Int /\ a1 \in Int /\ a2 \in Int /\ a3 \in Int /\ r \in Int /\ i \in Int
      /\ Residue(a0, a0) /\ Residue(a1, a1) /\ Residue(a2, a2) /\ Residue(a3, a3)
      /\ Residue(r, r) /\ Residue(i, i)
  BY M31Bounds, ResidueSelf
<1>4. /\ Low(a).re = a0 /\ Low(a).im = a1 /\ High(a).re = a2 /\ High(a).im = a3
      /\ Cm(0, 0).re = 0 /\ Cm(0, 0).im = 0 /\ n.re = r /\ n.im = i
  BY <1>1, <1>2 DEF Low, High, Cm
<1> DEFINE n2 == 0 - a2
           n3 == 0 - a3
           k == [c0 |-> a0, c1 |-> a1, c2 |-> n2, c3 |-> n3]
           e == [c0 |-> r, c1 |-> i, c2 |-> 0, c3 |-> 0]
           q == QuadMul(k, e)
           lo == CmMul(Low(a), n)
           hi == CmMul(High(a), n)
           w == FromHalves(lo, CmSub(Cm(0, 0), hi))
           q0 == a0 * r - a1 * i
           q1 == a0 * i + a1 * r
           q2 == 0 - (a2 * r - a3 * i)
           q3 == 0 - (a2 * i + a3 * r)
<1>5. n2 \in Int /\ n3 \in Int BY <1>3
<1>6. k \in Quads /\ e \in Quads BY <1>3, <1>5 DEF Quads
<1>7. Reduces(Conjugate(a), k)
  <2>1. Conjugate(a) \in QM31 BY HalvesClosed
  <2>2. /\ Residue(CmSub(Cm(0, 0), High(a)).re, 0 - a2)
        /\ Residue(CmSub(Cm(0, 0), High(a)).im, 0 - a3)
    BY <1>3, <1>4, ZeroInM31, CmSubResidues
  <2>3. /\ Conjugate(a).c0 = a0 /\ Conjugate(a).c1 = a1
        /\ Conjugate(a).c2 = CmSub(Cm(0, 0), High(a)).re
        /\ Conjugate(a).c3 = CmSub(Cm(0, 0), High(a)).im
    BY <1>4 DEF Conjugate, FromHalves
  <2>4. k.c0 = a0 /\ k.c1 = a1 /\ k.c2 = n2 /\ k.c3 = n3 OBVIOUS
  <2> HIDE DEF k
  <2> QED BY <2>1, <1>3, <1>6, <2>2, <2>3, <2>4 DEF Reduces
<1>8. Reduces(Emb(n), e)
  <2>1. Emb(n) \in QM31 /\ Emb(n) = e BY <1>4, EmbClosed
  <2> QED BY <2>1, ReducesSelf
<1>9. Reduces(Qm31Mul(Conjugate(a), Emb(n)), q) BY <1>7, <1>8, ReducesOps
<1>10. q \in Quads BY <1>6, QuadClosed
<1>11. q.c0 = q0 /\ q.c1 = q1 /\ q.c2 = q2 /\ q.c3 = q3
  <2>1. q = [ c0 |-> (a0 * r - a1 * i) + 2 * (n2 * 0 - n3 * 0) - (n2 * 0 + n3 * 0),
              c1 |-> (a0 * i + a1 * r) + (n2 * 0 - n3 * 0) + 2 * (n2 * 0 + n3 * 0),
              c2 |-> (a0 * 0 - a1 * 0) + (n2 * r - n3 * i),
              c3 |-> (a0 * 0 + a1 * 0) + (n2 * i + n3 * r) ]
    <3> HIDE DEF n2, n3
    <3> QED BY Zenon DEF QuadMul
  <2>2. /\ (a0 * r - a1 * i) + 2 * (n2 * 0 - n3 * 0) - (n2 * 0 + n3 * 0) = q0
        /\ (a0 * i + a1 * r) + (n2 * 0 - n3 * 0) + 2 * (n2 * 0 + n3 * 0) = q1
        /\ (a0 * 0 - a1 * 0) + (n2 * r - n3 * i) = q2
        /\ (a0 * 0 + a1 * 0) + (n2 * i + n3 * r) = q3
    BY <1>3
  <2> HIDE DEF q, n2, n3, q0, q1, q2, q3
  <2> QED BY <2>1, <2>2, Zenon
<1> HIDE DEF q, k, e
<1>12. Reduces(w, q)
  <2>1. Residue(lo.re, q0) /\ Residue(lo.im, q1) BY <1>3, <1>4, CmMulResidues
  <2>2. Residue(hi.re, a2 * r - a3 * i) /\ Residue(hi.im, a2 * i + a3 * r)
    BY <1>3, <1>4, CmMulResidues
  <2> HIDE DEF hi, lo
  <2>3. /\ Residue(CmSub(Cm(0, 0), hi).re, q2) /\ Residue(CmSub(Cm(0, 0), hi).im, q3)
    BY <2>2, <1>4, ZeroInM31, CmSubResidues
  <2>4. /\ w.c0 = lo.re /\ w.c1 = lo.im
        /\ w.c2 = CmSub(Cm(0, 0), hi).re /\ w.c3 = CmSub(Cm(0, 0), hi).im
    BY DEF FromHalves
  <2> HIDE DEF q0, q1, q2, q3
  <2>5. w \in QM31 BY <2>1, <2>3 DEF FromHalves, QM31, Residue
  <2> HIDE DEF w
  <2> QED BY <1>10, <1>11, <2>1, <2>3, <2>4, <2>5 DEF Reduces
<1> QED BY <1>9, <1>12, ReducesUnique

\* Two pairs of factors, exchanged.
LEMMA MulSwap ==
  ASSUME NEW a \in QM31, NEW b \in QM31, NEW c \in QM31, NEW d \in QM31
  PROVE  Qm31Mul(Qm31Mul(a, b), Qm31Mul(c, d)) = Qm31Mul(Qm31Mul(a, c), Qm31Mul(b, d))
<1>1. /\ Qm31Mul(c, d) \in QM31 /\ Qm31Mul(b, d) \in QM31 /\ Qm31Mul(b, c) \in QM31
  BY Qm31Closed
<1>2. Qm31Mul(Qm31Mul(a, b), Qm31Mul(c, d)) = Qm31Mul(a, Qm31Mul(b, Qm31Mul(c, d)))
  BY <1>1, SecureRing
<1>3. Qm31Mul(b, Qm31Mul(c, d)) = Qm31Mul(Qm31Mul(b, c), d) BY SecureRing
<1>4. Qm31Mul(b, c) = Qm31Mul(c, b) BY SecureRing
<1>5. Qm31Mul(Qm31Mul(c, b), d) = Qm31Mul(c, Qm31Mul(b, d)) BY SecureRing
<1>6. Qm31Mul(a, Qm31Mul(c, Qm31Mul(b, d))) = Qm31Mul(Qm31Mul(a, c), Qm31Mul(b, d))
  BY <1>1, SecureRing
<1> QED BY <1>2, <1>3, <1>4, <1>5, <1>6

-----------------------------------------------------------------------------
\* What CmMulR multiplies by is R.
LEMMA CmMulRIsMul ==
  ASSUME NEW x \in CM31
  PROVE  /\ Cm(2 % P, 1) \in CM31 /\ CmMulR(x) \in CM31
         /\ CmMulR(x) = CmMul(Cm(2 % P, 1), x)
<1>1. PICK r \in M31, i \in M31 : x = [re |-> r, im |-> i] BY DEF CM31
<1>2. r \in Int /\ i \in Int /\ Residue(r, r) /\ Residue(i, i) BY M31Bounds, ResidueSelf
<1>3. Residue(2 % P, 2) BY ResidueMod
<1> DEFINE two == Cm(2 % P, 1)
<1>4. two.re = 2 % P /\ two.im = 1 /\ x.re = r /\ x.im = i BY <1>1 DEF Cm
<1>5. two \in CM31 BY <1>3, ZeroInM31 DEF Cm, CM31, Residue
<1>6. CmMulR(x) \in CM31 /\ CmMul(two, x) \in CM31 BY <1>5, CmClosed, EmbMul DEF CM31
<1> HIDE DEF two
<1>7. Residue(CmMulR(x).re, (r + r) - i) /\ Residue(CmMulR(x).im, r + (i + i))
  BY <1>2, <1>4, CmMulRResidues
<1>8. Residue(CmMul(two, x).re, 2 * r - 1 * i) /\ Residue(CmMul(two, x).im, 2 * i + 1 * r)
  <2>1. Residue(two.re, 2) /\ Residue(two.im, 1) /\ Residue(x.re, r) /\ Residue(x.im, i)
    BY <1>2, <1>3, <1>4, ZeroInM31
  <2> QED BY <2>1, CmMulResidues
<1>9. (r + r) - i = 2 * r - 1 * i /\ r + (i + i) = 2 * i + 1 * r BY <1>2
<1>10. CmMulR(x).re = CmMul(two, x).re /\ CmMulR(x).im = CmMul(two, x).im
  BY <1>7, <1>8, <1>9, ResidueUnique
<1> QED BY <1>5, <1>6, <1>10 DEF CM31, two

\* A difference is zero of equals alone.
LEMMA CmSubZero ==
  ASSUME NEW x \in CM31, NEW y \in CM31, CmSub(x, y) = Cm(0, 0)
  PROVE  x = y
<1>1. /\ M31Sub(x.re, y.re) = 0 /\ M31Sub(x.im, y.im) = 0
      /\ x.re \in M31 /\ x.im \in M31 /\ y.re \in M31 /\ y.im \in M31
  BY DEF CmSub, Cm, CM31
<1>2. ASSUME NEW m \in M31, NEW n \in M31, M31Sub(m, n) = 0 PROVE m = n
  <2>1. M31Add(0, n) = m BY <1>2, M31Butterfly
  <2>2. P \in Nat /\ P > 2 /\ n \in 0 .. (P - 1) BY FieldAssumption DEF M31
  <2>3. 0 + n = n /\ n % P = n BY <2>2
  <2> QED BY <2>1, <2>3 DEF M31Add
<1>3. x.re = y.re /\ x.im = y.im BY <1>1, <1>2
<1> QED BY <1>3 DEF CM31

\* The norm is zero of nothing but zero.
LEMMA NormZero ==
  ASSUME NEW a \in QM31, Norm(a) = Cm(0, 0)
  PROVE  a = SecureZero
<1> DEFINE lo == Low(a)
           hi == High(a)
           L == Emb(lo)
           K == Emb(hi)
           two == Cm(2 % P, 1)
           R == Emb(two)
<1>1. lo \in CM31 /\ hi \in CM31 /\ a = FromHalves(lo, hi) BY HalvesClosed
<1>2. L \in QM31 /\ K \in QM31 BY <1>1, EmbClosed
<1>3. CmMul(lo, lo) \in CM31 /\ CmMul(hi, hi) \in CM31 BY <1>1, EmbMul
<1>4. two \in CM31 /\ R \in QM31 BY ZeroInM31, CmMulRIsMul, EmbClosed, <1>1
<1>5. /\ CmMulR(CmMul(hi, hi)) \in CM31
      /\ CmMulR(CmMul(hi, hi)) = CmMul(two, CmMul(hi, hi))
  BY <1>3, CmMulRIsMul
<1>6. CmMul(lo, lo) = CmMul(two, CmMul(hi, hi)) BY <1>3, <1>5, CmSubZero DEF Norm
<1>7. Qm31Mul(L, L) = Qm31Mul(R, Qm31Mul(K, K))
  <2>1. Qm31Mul(L, L) = Emb(CmMul(lo, lo)) /\ Qm31Mul(K, K) = Emb(CmMul(hi, hi)) BY <1>1, EmbMul
  <2>2. Qm31Mul(R, Emb(CmMul(hi, hi))) = Emb(CmMul(two, CmMul(hi, hi))) BY <1>3, <1>4, EmbMul
  <2> QED BY <1>6, <2>1, <2>2
<1>8. CASE hi # Cm(0, 0)
  <2> DEFINE g == CmInv(hi)
             G == Emb(g)
  <2>1. g \in CM31 /\ CmMul(hi, g) = Cm(1, 0) BY <1>1, <1>8, CmInverse
  <2>2. G \in QM31 /\ Qm31Mul(K, G) = Qm31FromM31(1)
    BY <1>1, <2>1, EmbClosed, EmbMul, Embeds, ZeroInM31
  <2>3. CmMul(lo, g) \in CM31 /\ Qm31Mul(L, G) = Emb(CmMul(lo, g)) BY <1>1, <2>1, EmbMul
  <2> DEFINE c == CmMul(lo, g)
             C == Qm31Mul(L, G)
  <2> HIDE DEF L, K, G, R, two
  <2>4. Qm31Mul(C, C) = Qm31Mul(Qm31Mul(L, L), Qm31Mul(G, G)) BY <1>2, <2>2, MulSwap
  <2>5. /\ Qm31Mul(K, K) \in QM31 /\ Qm31Mul(G, G) \in QM31
        /\ Qm31Mul(Qm31Mul(K, K), Qm31Mul(G, G)) = Qm31Mul(Qm31Mul(K, G), Qm31Mul(K, G))
    BY <1>2, <2>2, MulSwap, Qm31Closed
  <2>6. Qm31Mul(Qm31Mul(R, Qm31Mul(K, K)), Qm31Mul(G, G))
          = Qm31Mul(R, Qm31Mul(Qm31Mul(K, K), Qm31Mul(G, G)))
    BY <1>4, <2>5, SecureRing
  <2>7. Qm31Mul(Qm31Mul(K, G), Qm31Mul(K, G)) = Qm31FromM31(1) BY <1>4, <2>2, OneIsOne
  <2>8. Qm31Mul(C, C) = R BY <1>4, <1>7, <2>4, <2>5, <2>6, <2>7, OneIsOne
  <2>9. Qm31Mul(C, C) = Emb(CmMul(c, c)) /\ CmMul(c, c) \in CM31 BY <2>3, EmbMul
  <2>10. CmMul(c, c) = two BY <1>4, <2>8, <2>9, EmbInjective DEF R
  <2>11. c.re \in M31 /\ c.im \in M31 /\ c = Cm(c.re, c.im) BY <2>3 DEF CM31, Cm
  <2> QED BY <2>10, <2>11, TowerAssumption DEF two
<1>9. CASE hi = Cm(0, 0)
  <2>1. K = SecureZero BY <1>9, Embeds, ZeroInM31 DEF SecureZero
  <2>2. Qm31Mul(L, L) = SecureZero BY <1>2, <1>4, <1>7, <2>1, ZeroAbsorbs
  <2>3. lo = Cm(0, 0)
    <3> SUFFICES ASSUME lo # Cm(0, 0) PROVE FALSE OBVIOUS
    <3> DEFINE g == CmInv(lo)
               G == Emb(g)
    <3>1. g \in CM31 /\ CmMul(lo, g) = Cm(1, 0) BY <1>1, CmInverse
    <3>2. G \in QM31 /\ Qm31Mul(L, G) = Qm31FromM31(1)
      BY <1>1, <3>1, EmbClosed, EmbMul, Embeds, ZeroInM31
    <3> HIDE DEF G, g, L
    <3>3. Qm31Mul(Qm31Mul(L, L), G) = Qm31Mul(L, Qm31Mul(L, G)) BY <1>2, <3>2, SecureRing
    <3>4. L = SecureZero BY <1>2, <2>2, <3>2, <3>3, OneIsOne, ZeroAbsorbs
    <3>5. Emb(lo) = Emb(Cm(0, 0)) BY <3>4, Embeds, ZeroInM31 DEF L, SecureZero
    <3>6. Cm(0, 0) \in CM31 BY Embeds, ZeroInM31
    <3> HIDE DEF lo
    <3> QED BY <1>1, <3>5, <3>6, EmbInjective
  <2>4. FromHalves(Cm(0, 0), Cm(0, 0)) = SecureZero BY DEF FromHalves, Cm, SecureZero, Qm31FromM31
  <2> QED BY <1>1, <1>9, <2>3, <2>4
<1> QED BY <1>8, <1>9

(***************************************************************************)
(* QM31 is a field: qm31-inv aborts for zero alone ("the norm N is 0 only  *)
(* for a = 0"), and of any other element returns the inverse.              *)
(***************************************************************************)
THEOREM SecureField ==
  ASSUME NEW a \in QM31
  PROVE  /\ Qm31InvRequires(a) <=> a # SecureZero
         /\ Qm31InvRequires(a) => /\ Qm31Inv(a) \in QM31
                                  /\ Qm31Mul(a, Qm31Inv(a)) = Qm31FromM31(1)
<1>1. Norm(a) = Cm(0, 0) => a = SecureZero BY NormZero
<1>2. ASSUME a = SecureZero PROVE Norm(a) = Cm(0, 0)
  <2>1. Conjugate(a) \in QM31 /\ Norm(a) \in CM31 BY HalvesClosed
  <2>2. Emb(Norm(a)) = SecureZero BY <1>2, <2>1, ConjugateMul, ZeroAbsorbs
  <2>3. Emb(Cm(0, 0)) = SecureZero /\ Cm(0, 0) \in CM31 BY Embeds, ZeroInM31 DEF SecureZero
  <2> QED BY <2>1, <2>2, <2>3, EmbInjective
<1>3. ASSUME Norm(a) # Cm(0, 0)
      PROVE  Qm31Inv(a) \in QM31 /\ Qm31Mul(a, Qm31Inv(a)) = Qm31FromM31(1)
  <2> DEFINE n == CmInv(Norm(a))
  <2>1. Norm(a) \in CM31 /\ Conjugate(a) \in QM31 BY HalvesClosed
  <2>2. n \in CM31 /\ CmMul(Norm(a), n) = Cm(1, 0) BY <1>3, <2>1, CmInverse
  <2>3. Qm31Inv(a) = Qm31Mul(Conjugate(a), Emb(n))
    <3>1. Qm31Inv(a) = FromHalves(CmMul(Low(a), n), CmSub(Cm(0, 0), CmMul(High(a), n)))
      BY DEF Qm31Inv
    <3> HIDE DEF n
    <3> QED BY <2>2, <3>1, InvIsConjugate
  <2> HIDE DEF n
  <2>4. Emb(n) \in QM31 BY <2>2, EmbClosed
  <2>5. Qm31Inv(a) \in QM31 BY <2>1, <2>3, <2>4, Qm31Closed
  <2>6. Qm31Mul(a, Qm31Inv(a)) = Qm31Mul(Emb(Norm(a)), Emb(n))
    BY <2>1, <2>3, <2>4, SecureRing, ConjugateMul
  <2>7. Qm31Mul(Emb(Norm(a)), Emb(n)) = Qm31FromM31(1) BY <2>1, <2>2, EmbMul, Embeds, ZeroInM31
  <2> QED BY <2>5, <2>6, <2>7
<1> QED BY <1>1, <1>2, <1>3 DEF Qm31InvRequires

\* An inverse is the inverse; and what has one has a norm.
LEMMA InverseUnique ==
  ASSUME NEW a \in QM31, NEW b \in QM31, Qm31Mul(a, b) = Qm31FromM31(1)
  PROVE  Qm31InvRequires(a) /\ Qm31Inv(a) = b
<1>1. a # SecureZero
  <2>1. ASSUME a = SecureZero PROVE FALSE
    <3>1. SecureZero = Qm31FromM31(1) BY <2>1, ZeroAbsorbs
    <3> QED BY <3>1 DEF SecureZero, Qm31FromM31
  <2> QED BY <2>1
<1>2. /\ Qm31InvRequires(a) /\ Qm31Inv(a) \in QM31
      /\ Qm31Mul(a, Qm31Inv(a)) = Qm31FromM31(1)
  BY <1>1, SecureField
<1> DEFINE g == Qm31Inv(a)
<1> HIDE DEF g
<1>3. g \in QM31 /\ Qm31Mul(a, g) = Qm31FromM31(1) BY <1>2 DEF g
<1>4. Qm31Mul(Qm31Mul(g, a), b) = Qm31Mul(g, Qm31Mul(a, b)) BY <1>3, SecureRing
<1>5. Qm31Mul(g, a) = Qm31FromM31(1) BY <1>3, SecureRing
<1>6. Qm31FromM31(1) \in QM31 /\ Qm31Mul(Qm31FromM31(1), b) = b /\ Qm31Mul(g, Qm31FromM31(1)) = g
  BY <1>3, OneIsOne, SecureRing
<1>7. g = b BY <1>4, <1>5, <1>6
<1> QED BY <1>2, <1>7 DEF g

-----------------------------------------------------------------------------
\* Sums and differences, reordered.
LEMMA SumSwap ==
  ASSUME NEW a \in QM31, NEW b \in QM31, NEW c \in QM31
  PROVE  /\ Qm31Add(a, Qm31Sub(b, c)) = Qm31Add(b, Qm31Sub(a, c))
         /\ Qm31Sub(a, Qm31Add(b, c)) = Qm31Sub(Qm31Sub(a, b), c)
<1>1. /\ Reduces(a, a) /\ Reduces(b, b) /\ Reduces(c, c)
      /\ a \in Quads /\ b \in Quads /\ c \in Quads
  BY ReducesSelf
<1>2. /\ Reduces(Qm31Sub(b, c), QuadSub(b, c)) /\ Reduces(Qm31Sub(a, c), QuadSub(a, c))
  BY <1>1, ReducesOps
<1>3. /\ Reduces(Qm31Add(a, Qm31Sub(b, c)), QuadAdd(a, QuadSub(b, c)))
      /\ Reduces(Qm31Add(b, Qm31Sub(a, c)), QuadAdd(b, QuadSub(a, c)))
  BY <1>1, <1>2, ReducesOps
<1>4. QuadAdd(a, QuadSub(b, c)) = QuadAdd(b, QuadSub(a, c))
  <2>1. /\ a.c0 \in Int /\ a.c1 \in Int /\ a.c2 \in Int /\ a.c3 \in Int
        /\ b.c0 \in Int /\ b.c1 \in Int /\ b.c2 \in Int /\ b.c3 \in Int
        /\ c.c0 \in Int /\ c.c1 \in Int /\ c.c2 \in Int /\ c.c3 \in Int
    BY <1>1 DEF Quads
  <2> QED BY <2>1 DEF QuadAdd, QuadSub
<1> QED BY <1>3, <1>4, ReducesUnique, SecureRing

\* A product is zero only if a factor is.
LEMMA NoZeroDivisors ==
  ASSUME NEW a \in QM31, NEW b \in QM31, a # SecureZero, b # SecureZero
  PROVE  Qm31Mul(a, b) # SecureZero
<1> SUFFICES ASSUME Qm31Mul(a, b) = SecureZero PROVE FALSE OBVIOUS
<1> DEFINE g == Qm31Inv(a)
<1>1. g \in QM31 /\ Qm31Mul(a, g) = Qm31FromM31(1) BY SecureField
<1> HIDE DEF g
<1>2. Qm31Mul(Qm31Mul(g, a), b) = Qm31Mul(g, SecureZero) BY <1>1, SecureRing
<1>3. Qm31Mul(g, a) = Qm31FromM31(1) BY <1>1, SecureRing
<1>4. Qm31FromM31(1) \in QM31 /\ Qm31Mul(Qm31FromM31(1), b) = b BY OneIsOne, SecureRing
<1> QED BY <1>1, <1>2, <1>3, <1>4, ZeroAbsorbs
=============================================================================
