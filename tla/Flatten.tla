------------------------------ MODULE Flatten -------------------------------
(***************************************************************************)
(* tools/flatten.py, which turns the gears into one contract, and          *)
(* tools/flatten_check.py, which turns that contract back.  Text is the    *)
(* tree it parses into; comments, layout and the provenance header are     *)
(* left out, and the pinned census of calls is taken to be re-pinned with  *)
(* every deliberate edit.                                                  *)
(***************************************************************************)
EXTENDS Clarity, FiniteSets, SequencesExt

CONSTANTS
  GearOrder,        \* the gears, in order of definition
  Natives,          \* names the language defines
  ForbiddenAtoms,   \* natives that read the environment
  WrapForbidden,    \* natives that unwrap a response
  ProductionDemote  \* definitions not to be called from outside once deployed

Gears == {GearOrder[i] : i \in DOMAIN GearOrder}
IndexOf(g) == CHOOSE i \in DOMAIN GearOrder : GearOrder[i] = g

ASSUME FlattenAssumption ==
  /\ ForbiddenAtoms \subseteq Natives /\ WrapForbidden \subseteq Natives
  /\ \A d \in ProductionDemote : d[1] \in Gears
  /\ Cardinality(Gears) = Len(GearOrder)

TopLevel(gear) == {gear[i].name : i \in DOMAIN gear}
ParamsOf(d) == {d.params[i] : i \in DOMAIN d.params}
Find(gear, n) == gear[CHOOSE i \in DOMAIN gear : gear[i].name = n]

-----------------------------------------------------------------------------
\* Every atom is a literal, a local, a definition of the gear or a native it may use.
ClassifiedAtom(top, e, locals) ==
  \/ IsLiteral(e)
  \/ e.name \in locals \cup top
  \/ e.name[1] = "" /\ e.name[2] \in Natives \ ForbiddenAtoms

IsGet(e) == HeadIs(e, "get") /\ Len(e.kids) = 3

RECURSIVE Classified(_, _, _)
Classified(top, e, locals) ==
  CASE e.kind = "atom" -> ClassifiedAtom(top, e, locals)
    [] e.kind = "tup" -> Classified(top, e.val, locals)
    [] e.kind = "node" ->
         /\ ~(\E t \in WrapForbidden : HeadIs(e, t) /\ Len(e.kids) > 1 /\ IsContractCall(e.kids[2]))
         /\ IF IsContractCall(e) THEN \A i \in 4 .. Len(e.kids) : Classified(top, e.kids[i], locals)
            ELSE IF IsGet(e) THEN Classified(top, e.kids[3], locals)
            ELSE IF HeadIs(e, "let")
            THEN LET b == e.kids[2].kids[1]
                 IN  /\ Classified(top, b.kids[2], locals)
                     /\ Classified(top, e.kids[3], locals \cup {b.kids[1].name})
            ELSE \A i \in DOMAIN e.kids : Classified(top, e.kids[i], locals)

\* Rule 2: a definition's name gets the gear's prefix, unless a local hides it.
RenamedName(g, top, n, locals) == IF n \in top \ locals THEN <<g, n[2]>> ELSE n

\* Rule 1: a call of another gear becomes a direct call of its definition.
DirectName(g, e) == <<e.kids[2].name[2], e.kids[3].name[2]>>

\* Both rules; keys of tuples and of get are never renamed.
RECURSIVE Renamed(_, _, _, _)
Renamed(g, top, e, locals) ==
  LET re(x) == Renamed(g, top, x, locals)
      rest(n) == [i \in 1 .. (Len(e.kids) - n + 1) |-> re(e.kids[n + i - 1])]
  IN
  CASE e.kind = "atom" ->
         IF IsLiteral(e) THEN e ELSE Name(RenamedName(g, top, e.name, locals))
    [] e.kind = "tup" -> Tup(e.key, re(e.val))
    [] IsContractCall(e) -> Form(<<Name(DirectName(g, e))>> \o rest(4))
    [] IsGet(e) -> Form(<<e.kids[1], e.kids[2], re(e.kids[3])>>)
    [] HeadIs(e, "let") ->
         LET b == e.kids[2].kids[1]
         IN  Form(<<e.kids[1],
                    Form(<<Form(<<b.kids[1], re(b.kids[2])>>)>>),
                    Renamed(g, top, e.kids[3], locals \cup {b.kids[1].name})>>)
    [] OTHER -> Form(rest(1))

\* The calls of other gears in a tree, as records of callee, function and arity.
RECURSIVE CallSites(_)
CallSites(e) ==
  CASE e.kind = "atom" -> {}
    [] e.kind = "tup" -> CallSites(e.val)
    [] e.kind = "node" ->
         UNION {CallSites(e.kids[i]) : i \in DOMAIN e.kids} \cup
         IF IsContractCall(e)
         THEN {[callee |-> e.kids[2].name[2], fn |-> e.kids[3].name, arity |-> Len(e.kids) - 3]}
         ELSE {}

\* Local binders and tuple keys of a tree.
RECURSIVE Unprefixed(_)
Unprefixed(e) ==
  CASE e.kind = "atom" -> {}
    [] e.kind = "tup" -> {e.key} \cup Unprefixed(e.val)
    [] e.kind = "node" ->
         UNION {Unprefixed(e.kids[i]) : i \in DOMAIN e.kids}
         \cup (IF IsGet(e) THEN {e.kids[2].name} ELSE {})
         \cup (IF HeadIs(e, "let") THEN {e.kids[2].kids[1].kids[1].name} ELSE {})

-----------------------------------------------------------------------------
(***************************************************************************)
(* The gates of build().                                                   *)
(***************************************************************************)
WellFormed(gear) ==
  /\ Cardinality(TopLevel(gear)) = Len(gear)
  /\ \A i \in DOMAIN gear :
       /\ gear[i].kind \in {"read-only", "private", "constant"}
       /\ IF gear[i].kind = "constant" THEN IsLiteral(gear[i].body)
          ELSE Classified(TopLevel(gear), gear[i].body, ParamsOf(gear[i]))

\* Faulty variant: the kind of the callee not looked at.
CallSitesAnyKind(gears) ==
  \A g \in Gears : \A i \in DOMAIN gears[g] : \A s \in CallSites(gears[g][i].body) :
    /\ s.callee \in Gears /\ s.fn \in TopLevel(gears[s.callee])
    /\ LET d == Find(gears[s.callee], s.fn)
       IN  d.kind # "constant" /\ Len(d.params) = s.arity
    /\ IndexOf(s.callee) < IndexOf(g)

CheckCallSites(gears) ==
  \A g \in Gears : \A i \in DOMAIN gears[g] : \A s \in CallSites(gears[g][i].body) :
    /\ s.callee \in Gears /\ s.fn \in TopLevel(gears[s.callee])
    /\ LET d == Find(gears[s.callee], s.fn)
       IN  d.kind = "read-only" /\ Len(d.params) = s.arity
    /\ IndexOf(s.callee) < IndexOf(g)

\* no local and no key of a gear has the name of one of its definitions
CheckCollisions(gears) ==
  \A g \in Gears : \A i \in DOMAIN gears[g] :
    (ParamsOf(gears[g][i]) \cup Unprefixed(gears[g][i].body)) \cap TopLevel(gears[g]) = {}

\* The checks across gears are made only when all gears are built.
Builds(gears, names) ==
  /\ \A g \in names : WellFormed(gears[g])
  /\ names = Gears => CheckCallSites(gears) /\ CheckCollisions(gears)

-----------------------------------------------------------------------------
FlatDefinition(g, gear, d) ==
  [d EXCEPT !.name = <<g, d.name[2]>>,
            !.body = IF d.kind = "constant" THEN d.body
                     ELSE Renamed(g, TopLevel(gear), d.body, ParamsOf(d))]

EmitFlat(gears, names) ==
  [g \in names |-> [i \in DOMAIN gears[g] |-> FlatDefinition(g, gears[g], gears[g][i])]]

\* --mutate: another literal for one constant, after every gate
Mutated(flat, g, n, literal) ==
  [flat EXCEPT ![g] = [i \in DOMAIN flat[g] |->
     IF flat[g][i].name = <<g, n[2]>> THEN [flat[g][i] EXCEPT !.body = literal] ELSE flat[g][i]]]

\* Faulty variant: nothing demoted.
NothingDemoted(flat) == flat

\* --production: the entry points that are only there for tests become private
Demoted(flat) ==
  [g \in DOMAIN flat |-> [i \in DOMAIN flat[g] |->
     IF flat[g][i].name \in ProductionDemote
     THEN [flat[g][i] EXCEPT !.kind = "private"] ELSE flat[g][i]]]

\* what the test adapter looks functions up in
Manifest(gears) ==
  [g \in Gears |->
     {[flat |-> <<g, d.name[2]>>, name |-> d.name, kind |-> d.kind, arity |-> Len(d.params)] :
        d \in {gears[g][i] : i \in {n \in DOMAIN gears[g] : gears[g][n].kind # "constant"}}}]

-----------------------------------------------------------------------------
(***************************************************************************)
(* flatten_check.py, on the tokens of both sides.                          *)
(***************************************************************************)
RECURSIVE Tokens(_)
Tokens(e) ==
  CASE e.kind = "atom" -> <<e.name>>
    [] e.kind = "tup" -> <<Plain("{"), e.key>> \o Tokens(e.val) \o <<Plain("}")>>
    [] e.kind = "node" ->
         <<Plain("(")>> \o FlattenSeq([i \in DOMAIN e.kids |-> Tokens(e.kids[i])])
           \o <<Plain(")")>>

CodeTokens(gear) ==
  FlattenSeq([i \in DOMAIN gear |->
    <<Plain(gear[i].kind), gear[i].name>> \o gear[i].params \o Tokens(gear[i].body)])

\* Faulty variant: names of other gears left as they are.
InvertOwn(t, g) == IF t[1] = g THEN <<Plain(t[2])>> ELSE <<t>>

\* one token of the artifact: a name of the gear's own, a call of another gear, any other
InvertToken(t, g) ==
  IF t[1] = g THEN <<Plain(t[2])>>
  ELSE IF t[1] \in Gears
  THEN <<Plain("contract-call?"), <<".", t[1]>>, Plain(t[2])>>
  ELSE <<t>>

Invert(tokens, g) == FlattenSeq([i \in DOMAIN tokens |-> InvertToken(tokens[i], g)])

\* Faulty variant: compared as far as the shorter of the two goes.
SectionOkShort(flat, gears, g) ==
  LET want == CodeTokens(gears[g])
      got == Invert(CodeTokens(flat[g]), g)
  IN  \A i \in DOMAIN want \cap DOMAIN got : want[i] = got[i]

SectionOk(flat, gears, g) == CodeTokens(gears[g]) = Invert(CodeTokens(flat[g]), g)

Compare(flat, gears) ==
  DOMAIN flat = Gears /\ \A g \in Gears : SectionOk(flat, gears, g)
=============================================================================
