----------------------------- MODULE GearDriver -----------------------------
(***************************************************************************)
(* The contracts' own algebra for the constant operators of Driver, and    *)
(* the tree of a column for its roots.                                     *)
(***************************************************************************)
EXTENDS Driver, Gears

GearTwiddle(i, even) == Twiddles[i][even \div 2]
GearComposeCheck(o, t, a) == CairComposeCheck(o, FeltToPoint(t), a)
GearDeepRow(t, c, q, o, zz, g) ==
  LET pt == FeltToPoint(zz) IN
  IF RowRequires(pt, Points[q]) THEN RowValue(t, c, Points[q], o, pt, g) ELSE None

TreeOf(leaves, depth) ==
  LET level[l \in 0 .. depth] ==
        IF l = 0 THEN leaves
        ELSE [i \in 0 .. (2 ^ (depth - l) - 1) |->
                Node(level[l - 1][2 * i], level[l - 1][2 * i + 1])]
  IN  level

DepthOf(w) == CHOOSE d \in 0 .. D : DOMAIN w = 0 .. (2 ^ d - 1)
GearTree(w) == TreeOf([p \in DOMAIN w |-> Leaf(w[p])], DepthOf(w))
=============================================================================
