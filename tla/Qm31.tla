-------------------------------- MODULE Qm31 --------------------------------
(***************************************************************************)
(* The secure field of contracts/qm31.clar and the canonical encoding of   *)
(* contracts/commit.clar.  An element is c0 + c1*i + (c2 + c3*i)*u with    *)
(* i^2 = -1 and u^2 = R = 2 + i.  The tower is a field for P = 3, 7, 127   *)
(* and 2^31 - 1, among others.                                             *)
(***************************************************************************)
EXTENDS Field

QM31 == [c0 : M31, c1 : M31, c2 : M31, c3 : M31]

Cm(re, im) == [re |-> re, im |-> im]

CmMul(x, y) ==
  Cm(M31Sub(M31Mul(x.re, y.re), M31Mul(x.im, y.im)),
     M31Add(M31Mul(x.re, y.im), M31Mul(x.im, y.re)))

CmMulR(e) == Cm(M31Sub(M31Add(e.re, e.re), e.im), M31Add(e.re, M31Add(e.im, e.im)))

CmSub(x, y) == Cm(M31Sub(x.re, y.re), M31Sub(x.im, y.im))

CmInv(c) ==
  LET ninv == M31Inv(M31Add(M31Mul(c.re, c.re), M31Mul(c.im, c.im)))
  IN  Cm(M31Mul(c.re, ninv), M31Mul(M31Sub(0, c.im), ninv))

\* The two CM31 halves of an element, and the element built from them.
Low(a)  == Cm(a.c0, a.c1)
High(a) == Cm(a.c2, a.c3)
FromHalves(lo, hi) == [c0 |-> lo.re, c1 |-> lo.im, c2 |-> hi.re, c3 |-> hi.im]

Qm31Add(a, b) == [c0 |-> M31Add(a.c0, b.c0), c1 |-> M31Add(a.c1, b.c1),
                  c2 |-> M31Add(a.c2, b.c2), c3 |-> M31Add(a.c3, b.c3)]

Qm31Sub(a, b) == [c0 |-> M31Sub(a.c0, b.c0), c1 |-> M31Sub(a.c1, b.c1),
                  c2 |-> M31Sub(a.c2, b.c2), c3 |-> M31Sub(a.c3, b.c3)]

Qm31MulM31(a, s) == [c0 |-> M31Mul(a.c0, s), c1 |-> M31Mul(a.c1, s),
                     c2 |-> M31Mul(a.c2, s), c3 |-> M31Mul(a.c3, s)]

Qm31FromM31(s) == [c0 |-> s, c1 |-> 0, c2 |-> 0, c3 |-> 0]

CmAdd(x, y) == Cm(M31Add(x.re, y.re), M31Add(x.im, y.im))

Qm31Mul(a, b) ==
  FromHalves(CmAdd(CmMul(Low(a), Low(b)), CmMulR(CmMul(High(a), High(b)))),
             CmAdd(CmMul(Low(a), High(b)), CmMul(High(a), Low(b))))

\* The norm of a down to CM31; qm31-inv aborts when it is zero.
Norm(a) == CmSub(CmMul(Low(a), Low(a)), CmMulR(CmMul(High(a), High(a))))

Qm31InvRequires(a) == Norm(a) # Cm(0, 0)

Qm31Inv(a) ==
  LET ninv == CmInv(Norm(a))
      hi   == CmMul(High(a), ninv)
  IN  FromHalves(CmMul(Low(a), ninv), CmSub(Cm(0, 0), hi))

\* -1 has no root in M31 and R has none in CM31: "the norm N is 0 only for a = 0
\* (QM31 is a field)", qm31.clar.
ASSUME TowerAssumption ==
  /\ \A a, b \in M31 : M31Add(M31Mul(a, a), M31Mul(b, b)) = 0 => a = 0 /\ b = 0
  /\ \A a, b \in M31 : CmMul(Cm(a, b), Cm(a, b)) # Cm(2 % P, 1)

\* Faulty variant: limbs at or above P encoded as they are.
CanonicalUnchecked(a) == TRUE

\* qm31-enc16 aborts on a limb at or above P: one encoding per element.
Canonical(a) == a.c0 < P /\ a.c1 < P /\ a.c2 < P /\ a.c3 < P

\* The driver's per-leaf check that a trace value lies in the base field.
IsBase(a) == a.c1 = 0 /\ a.c2 = 0 /\ a.c3 = 0
=============================================================================
