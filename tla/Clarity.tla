------------------------------ MODULE Clarity -------------------------------
(***************************************************************************)
(* Programs of the Clarity subset the contracts are written in, as the     *)
(* trees tools/flatten.py parses them into, and what a node computes for   *)
(* them.  The virtual machine is external: this is what the repository     *)
(* relies on it for.                                                       *)
(*                                                                         *)
(* A name is a pair: what stands before its first separator, "" if nothing *)
(* does, and the rest.  Values are numbers modulo 4 and tuples of one key; *)
(* (fold f x init) is a fold over the list of the one element x.  Types    *)
(* are left out.                                                           *)
(***************************************************************************)
EXTENDS Naturals, Sequences

Plain(t) == <<"", t>>

\* The three shapes of a tree: Token, Node and Tup of flatten.py.
Name(n)     == [kind |-> "atom", name |-> n]
Atom(t)     == Name(Plain(t))
Form(kids)  == [kind |-> "node", kids |-> kids]
Tup(key, e) == [kind |-> "tup", key |-> key, val |-> e]

\* one top-level definition; a gear is a sequence of them
Definition(kind, name, params, body) ==
  [kind |-> kind, name |-> Plain(name), params |-> params, body |-> body]

LiteralValue == [u0 |-> 0, u1 |-> 1, u2 |-> 2, u3 |-> 3]
IsLiteral(e) == e.kind = "atom" /\ e.name[1] = "" /\ e.name[2] \in DOMAIN LiteralValue

HeadIs(e, t) ==
  e.kind = "node" /\ e.kids # << >> /\ e.kids[1].kind = "atom" /\ e.kids[1].name = Plain(t)
IsContractCall(e) == HeadIs(e, "contract-call?")

-----------------------------------------------------------------------------
Num(v) == [num |-> v % 4]
Pair(key, v) == [key |-> key, val |-> v]
Principal(c) == [principal |-> c]
Abort == [abort |-> TRUE]

\* a world: for each contract, its definitions by name
Contract(gear) ==
  [n \in {gear[i].name : i \in DOMAIN gear} |-> gear[CHOOSE i \in DOMAIN gear : gear[i].name = n]]

Bind(locals, n, v) == [m \in DOMAIN locals \cup {n} |-> IF m = n THEN v ELSE locals[m]]

Strict(vs, v) == IF \E i \in DOMAIN vs : vs[i] = Abort THEN Abort ELSE v

RECURSIVE Eval(_, _, _, _, _)

\* Definition f of contract c, for a caller; arguments are values.
Apply(world, c, from, f, args) ==
  IF f \notin DOMAIN world[c] THEN Abort ELSE
  LET d == world[c][f] IN
  IF d.kind = "constant" \/ Len(d.params) # Len(args) THEN Abort
  ELSE Strict(args, Eval(world, c, from, d.body,
                         [n \in {d.params[i] : i \in DOMAIN d.params} |->
                            args[CHOOSE i \in DOMAIN d.params : d.params[i] = n]]))

\* A call from outside contract c reaches read-only functions only.
Call(world, c, from, f, args) ==
  IF f \in DOMAIN world[c] /\ world[c][f].kind = "read-only"
  THEN Apply(world, c, from, f, args) ELSE Abort

\* A name is a literal, a local, a constant of the contract, or unbound.
ValueOf(world, c, e, locals) ==
  IF IsLiteral(e) THEN Num(LiteralValue[e.name[2]])
  ELSE IF e.name \in DOMAIN locals THEN locals[e.name]
  ELSE IF e.name \in DOMAIN world[c] /\ world[c][e.name].kind = "constant"
       THEN Num(LiteralValue[world[c][e.name].body.name[2]])
  ELSE Abort

Eval(world, c, from, e, locals) ==
  LET ev(x) == Eval(world, c, from, x, locals)
      args(n) == [i \in 1 .. (Len(e.kids) - n + 1) |-> ev(e.kids[n + i - 1])]
  IN
  CASE e.kind = "atom" ->
         IF e.name = Plain("contract-caller") THEN Principal(from)
         ELSE ValueOf(world, c, e, locals)
    [] e.kind = "tup" -> Strict(<<ev(e.val)>>, Pair(e.key, ev(e.val)))
    [] HeadIs(e, "let") ->
         LET b == e.kids[2].kids[1]
             v == ev(b.kids[2])
         IN  Strict(<<v>>, Eval(world, c, from, e.kids[3], Bind(locals, b.kids[1].name, v)))
    [] HeadIs(e, "get") ->
         LET t == ev(e.kids[3])
         IN  IF "key" \in DOMAIN t /\ t.key = e.kids[2].name THEN t.val ELSE Abort
    [] HeadIs(e, "+") ->
         LET vs == args(2)
         IN  IF \A i \in DOMAIN vs : "num" \in DOMAIN vs[i]
             THEN Num(vs[1].num + vs[2].num) ELSE Abort
    [] HeadIs(e, "fold") -> Apply(world, c, from, e.kids[2].name, args(3))
    [] IsContractCall(e) ->
         Call(world, e.kids[2].name[2], c, e.kids[3].name, args(4))
    [] OTHER ->
         IF e.kind = "node" /\ e.kids # << >> /\ e.kids[1].kind = "atom"
         THEN Apply(world, c, from, e.kids[1].name, args(2))
         ELSE Abort
=============================================================================
