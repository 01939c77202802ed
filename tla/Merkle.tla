------------------------------- MODULE Merkle -------------------------------
(***************************************************************************)
(* Commitments of contracts/merkle.clar and contracts/commit.clar, and the *)
(* driver's rule that the direction bits of a path are derived from the    *)
(* expected position.  Digests are free terms: SHA-256 is collision free   *)
(* and a leaf preimage (16 bytes) is never a node preimage (64 bytes).     *)
(*                                                                         *)
(* A root is seen top-down at a given depth: tree[l][i] is the digest at   *)
(* height l above the leaves and offset i, tree[depth][0] the root.  Any   *)
(* 32 bytes can be a root, so a digest above the leaves is either the node *)
(* of its two children or opaque: bytes no known pair of digests hashes    *)
(* to, or a leaf digest standing where a node should.                      *)
(***************************************************************************)
EXTENDS Integers

CONSTANTS
  D,           \* depth of the trace and composition trees
  DomainSize,  \* DomainSize[d] is the number of leaves of a tree of depth d
  Opaque       \* digests that are not the hash of two digests

ASSUME DomainAssumption ==
  /\ D \in Nat \ {0}
  /\ DomainSize \in [0 .. D -> Nat \ {0}]
  /\ DomainSize[0] = 1
  /\ \A d \in 0 .. (D - 1) : DomainSize[d + 1] = 2 * DomainSize[d]

Leaf(v) == <<"leaf", v>>
Node(l, r) == <<"node", l, r>>

ASSUME OpaqueAssumption == \A o \in Opaque : o[1] # "node"

\* path-step: the direction bit of one level, from the position at that level.
NodeIsRight(p) == p % 2 = 1

EvenOf(p) == p - (p % 2)
SiblingOf(p) == IF NodeIsRight(p) THEN p - 1 ELSE p + 1

\* Faulty variant: the direction bit ignored.
MerkleStepUndirected(sibling, acc, nodeIsRight) == Node(acc, sibling)

MerkleStep(sibling, acc, nodeIsRight) ==
  IF nodeIsRight THEN Node(sibling, acc) ELSE Node(acc, sibling)

Root(tree, depth) == tree[depth][0]

IsTree(tree, depth) ==
  \A l \in 1 .. depth : \A i \in 0 .. (DomainSize[depth - l] - 1) :
    \/ tree[l][i] = Node(tree[l - 1][2 * i], tree[l - 1][2 * i + 1])
    \/ tree[l][i] \in Opaque

\* The value committed at a position, if the leaf there is a leaf digest.
Commits(tree, p, v) == tree[0][p] = Leaf(v)
=============================================================================
