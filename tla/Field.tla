------------------------------- MODULE Field -------------------------------
(***************************************************************************)
(* Base-field arithmetic of contracts/field.clar.  The contract fixes      *)
(* P = 2^31 - 1; the module is parameterised by the prime so that TLC can  *)
(* enumerate a whole field.  STEPS is the number of unrolled               *)
(* square-and-multiply steps (31 in the contract): exponents at or above   *)
(* 2^STEPS are rejected, because the unroll would silently drop their high *)
(* bits.  An operator of the contract that aborts is split into the        *)
(* condition it requires and the value it returns when the condition holds.*)
(***************************************************************************)
EXTENDS Integers

CONSTANTS
  P,      \* the field's modulus, a prime
  STEPS   \* length of the contract's unrolled square-and-multiply list

ASSUME FieldAssumption == /\ P \in Nat /\ P > 2
                          /\ STEPS \in Nat

M31 == 0 .. (P - 1)

M31Add(a, b) == (a + b) % P

\* Clarity's unsigned subtraction would abort on underflow: P is added first.
M31Sub(a, b) == (a + P - b) % P

M31Mul(a, b) == (a * b) % P

PowStep(st) ==
  [ r |-> IF st.e % 2 = 1 THEN M31Mul(st.r, st.b) ELSE st.r,
    b |-> M31Mul(st.b, st.b),
    e |-> st.e \div 2 ]

M31PowRequires(exp) == exp < 2 ^ STEPS

M31Pow(base, exp) ==
  LET st[i \in 0 .. STEPS] ==
        IF i = 0 THEN [r |-> 1, b |-> base, e |-> exp] ELSE PowStep(st[i - 1])
  IN  st[STEPS].r

\* Fermat: the inverse of a nonzero element, and 0 for 0 (never an abort).
M31Inv(a) == M31Pow(a, P - 2)

\* Fermat's little theorem, as far as the unrolled exponentiation reaches it.
ASSUME InverseAssumption ==
  \A a \in M31 \ {0} : M31Inv(a) \in M31 /\ M31Mul(a, M31Inv(a)) = 1

M31Div(a, b) == M31Mul(a, M31Inv(b))
=============================================================================
