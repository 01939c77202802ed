---------------------------- MODULE MCArtifacts -----------------------------
(***************************************************************************)
(* Two gears, in each of which people write well-formed definitions and    *)
(* every kind of definition a gate is there for.                           *)
(***************************************************************************)
EXTENDS Artifacts

MCGearOrder == <<"lib", "drv">>
MCNatives == {"+", "let", "get", "fold", "try!", "contract-call?", "contract-caller"}
MCForbidden == {"contract-caller"}
MCWrap == {"try!"}
MCDemote == {<<"drv", "query">>}

Read(n, ps, body) == Definition("read-only", n, [i \in DOMAIN ps |-> Plain(ps[i])], body)
Private(n, ps, body) == Definition("private", n, [i \in DOMAIN ps |-> Plain(ps[i])], body)
Constant(n, lit) == Definition("constant", n, << >>, Atom(lit))

App(f, args) == Form(<<Atom(f)>> \o args)
GearCallOf(c, f, args) == Form(<<Atom("contract-call?"), Name(<<".", c>>), Atom(f)>> \o args)
LibCall(f, args) == GearCallOf("lib", f, args)
Let(x, e, body) == Form(<<Atom("let"), Form(<<Form(<<Atom(x), e>>)>>), body>>)
Get(key, e) == Form(<<Atom("get"), Atom(key), e>>)
x == Atom("x")

LibTexts == {
  \* a constant; below, a private helper used twice
  <<Constant("P", "u1"), Read("f", <<"x">>, App("+", <<x, Atom("P")>>))>>,
  \* the same, and one definition more
  <<Constant("P", "u1"), Read("f", <<"x">>, App("+", <<x, Atom("P")>>)), Read("k", <<"x">>, x)>>,
  <<Constant("P", "u2"), Private("g", <<"x">>, App("+", <<x, Atom("P")>>)),
    Read("f", <<"x">>, Let("y", App("g", <<x>>), App("+", <<Atom("y"), App("g", <<Atom("y")>>)>>)))>>,
  \* tuple results; one key has the name of a definition of the other gear
  <<Read("f", <<"x">>, Tup(Plain("query"), x))>>,
  <<Read("f", <<"x">>, Tup(Plain("val"), x))>>,
  \* two arguments
  <<Read("f", <<"x", "y">>, App("+", <<x, Atom("y")>>))>>,
  \* refused: a private callee, a key and a local with the name of a definition, the
  \* environment, a definition that is not there, a gear that comes later
  <<Private("f", <<"x">>, x)>>,
  <<Read("k", <<"x">>, x), Read("f", <<"x">>, Get("k", Tup(Plain("k"), App("k", <<x>>))))>>,
  <<Read("f", <<"x">>, Let("f", x, App("+", <<Atom("f"), x>>)))>>,
  <<Read("f", <<"x">>, Atom("contract-caller"))>>,
  <<Read("f", <<"x">>, App("h", <<x>>))>>,
  <<Read("f", <<"x">>, GearCallOf("drv", "query", <<x>>))>> }

DrvTexts == {
  \* nested calls, and the test entry point called from inside
  <<Read("query", <<"x">>, LibCall("f", <<LibCall("f", <<x>>)>>)),
    Read("verify", <<"x">>, App("+", <<App("query", <<x>>), Atom("u1")>>))>>,
  \* a key and a local with the name of the other gear's function
  <<Read("query", <<"x">>, Get("f", Tup(Plain("f"), LibCall("f", <<x>>)))),
    Read("verify", <<"x">>, Let("f", x, App("query", <<Atom("f")>>)))>>,
  \* a function handed to a fold
  <<Constant("P", "u3"), Read("query", <<"x", "y">>, App("+", <<LibCall("f", <<x>>), Atom("P")>>)),
    Read("verify", <<"x">>, App("fold", <<Atom("query"), x, Atom("u1")>>))>>,
  \* a tuple taken apart
  <<Read("query", <<"x">>, Get("val", LibCall("f", <<x>>))),
    Read("verify", <<"x">>, App("+", <<App("query", <<x>>), Atom("u1")>>))>>,
  \* a call of two arguments
  <<Read("query", <<"x">>, x), Read("verify", <<"x">>, LibCall("f", <<x, App("query", <<x>>)>>))>>,
  \* refused: a key with the name of a definition, an unwrapped call
  <<Read("query", <<"x">>, Get("query", LibCall("f", <<x>>))), Read("verify", <<"x">>, x)>>,
  <<Read("query", <<"x">>, x), Read("verify", <<"x">>, App("try!", <<LibCall("f", <<x>>)>>))>> }

MCTexts(g) == IF g = "lib" THEN LibTexts ELSE DrvTexts

MCMutations == {[gear |-> "lib", const |-> Plain("P"), literal |-> Atom("u2")]}
MCArguments == {Num(0), Num(1)}
=============================================================================
