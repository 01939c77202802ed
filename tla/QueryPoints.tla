---------------------------- MODULE QueryPoints ----------------------------
(***************************************************************************)
(* contracts/query.clar: the evaluation domain on the circle x^2 + y^2 = 1,*)
(* whose points are the norm-one elements of CM31, and the twiddles the    *)
(* driver derives from it.  A drawn index is a bit-reversed position.  The *)
(* aborts on an index outside the domain are not reached by verify().      *)
(***************************************************************************)
EXTENDS Fri

CONSTANTS
  LOG_DOMAIN,  \* the domain has 2^LOG_DOMAIN points
  OFF, H       \* the half-coset's first point and its step

ASSUME QueryAssumption == LOG_DOMAIN \in Nat \ {0}

HALF == 2 ^ (LOG_DOMAIN - 1)
DOMAIN_SIZE == 2 * HALF
Positions == 0 .. (DOMAIN_SIZE - 1)

\* one square-and-multiply step; the exponents of the domain are below HALF
CmPowStep(st) ==
  [ r |-> IF st.e % 2 = 1 THEN CmMul(st.r, st.b) ELSE st.r,
    b |-> CmMul(st.b, st.b),
    e |-> st.e \div 2 ]

\* Faulty variant: one step fewer than the exponents have bits.
CmPowShort(base, exp) ==
  LET st[i \in 0 .. (LOG_DOMAIN - 1)] ==
        IF i = 0 THEN [r |-> Cm(1, 0), b |-> base, e |-> exp] ELSE CmPowStep(st[i - 1])
  IN  st[LOG_DOMAIN - 2].r

CmPow(base, exp) ==
  LET st[i \in 0 .. (LOG_DOMAIN - 1)] ==
        IF i = 0 THEN [r |-> Cm(1, 0), b |-> base, e |-> exp] ELSE CmPowStep(st[i - 1])
  IN  st[LOG_DOMAIN - 1].r

\* the circle inverse
Conj(pt) == Cm(pt.re, M31Sub(0, pt.im))

\* the half-coset, then its conjugate
DomainPoint(i) ==
  IF i < HALF THEN CmMul(OFF, CmPow(H, i)) ELSE Conj(CmMul(OFF, CmPow(H, i - HALF)))

\* the low LOG_DOMAIN bits in reverse
BitRev(q) ==
  LET st[i \in 0 .. LOG_DOMAIN] ==
        IF i = 0 THEN [q |-> q, r |-> 0]
        ELSE [q |-> st[i - 1].q \div 2, r |-> st[i - 1].r * 2 + (st[i - 1].q % 2)]
  IN  st[LOG_DOMAIN].r

QueryPoint(q) == DomainPoint(BitRev(q))
QueryX(q) == QueryPoint(q).re

\* Faulty variant: a pair's position looked up as a position of the domain.
PairTwiddleUnscaled(i, even) ==
  LET x[n \in 1 .. i] == IF n = 1 THEN QueryX(even) ELSE PiX(x[n - 1])
  IN  IF i = 0 THEN QueryPoint(even).im ELSE x[i]

\* Twiddle of the pair at an even position of layer i: y-twiddle, then line-x1,
\* line-x2 and so on, with one more PiX at each layer.
PairTwiddle(i, even) ==
  LET x[n \in 1 .. i] == IF n = 1 THEN QueryX(even * 2 ^ i) ELSE PiX(x[n - 1])
  IN  IF i = 0 THEN QueryPoint(even).im ELSE x[i]
=============================================================================
