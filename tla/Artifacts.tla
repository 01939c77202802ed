----------------------------- MODULE Artifacts ------------------------------
(***************************************************************************)
(* The files around tools/flatten.py: the gears, which people edit, and    *)
(* what its runs write, which nobody edits: the flat contract, its         *)
(* manifest and the contract to be deployed.  Edits, runs and checks come  *)
(* in any order; a run that a gate refuses writes nothing.                 *)
(***************************************************************************)
EXTENDS Flatten

CONSTANTS
  Texts(_),    \* Texts(g) is what people may write for gear g
  Mutations,   \* what --mutate may be given: gear, constant and literal
  Arguments,   \* values to call functions with
  None,
  MaxEdits, MaxRuns   \* bounds of the instance

VARIABLES
  gears,      \* the sources
  flat, prod, \* the contracts written, each gear a section; None before the first run
  manifest,
  verdict,    \* of the latest check, None once a file it read has changed
  built,      \* history: the sources flat was written from, None if mutated or not all
  deployed,   \* history: the same for prod
  edits, runs

vars == <<gears, flat, prod, manifest, verdict, built, deployed, edits, runs>>

Init ==
  /\ gears \in [Gears -> UNION {Texts(g) : g \in Gears}]
  /\ \A g \in Gears : gears[g] \in Texts(g)
  /\ flat = None /\ prod = None /\ manifest = None /\ verdict = None
  /\ built = None /\ deployed = None /\ edits = 0 /\ runs = 0

-----------------------------------------------------------------------------
Edit(g, text) ==
  /\ edits < MaxEdits /\ edits' = edits + 1
  /\ text # gears[g] /\ gears' = [gears EXCEPT ![g] = text] /\ verdict' = None
  /\ UNCHANGED <<flat, prod, manifest, built, deployed, runs>>

\* --mutate names a constant of a gear of the run
Mutable(m, names) ==
  m.gear \in names /\ m.const \in TopLevel(gears[m.gear])
    /\ Find(gears[m.gear], m.const).kind = "constant"

Emitted(names, m) ==
  IF m = None THEN EmitFlat(gears, names)
  ELSE Mutated(EmitFlat(gears, names), m.gear, m.const, m.literal)

Origin(names, m) == IF names = Gears /\ m = None THEN gears ELSE None

Refuse == UNCHANGED <<gears, flat, prod, manifest, verdict, built, deployed, edits>>

\* Faulty variant: a manifest that is there is not written again.
RunKeepsManifest(names, m) ==
  /\ runs < MaxRuns /\ runs' = runs + 1
  /\ IF Builds(gears, names) /\ (m # None => Mutable(m, names))
     THEN /\ flat' = Emitted(names, m) /\ built' = Origin(names, m) /\ verdict' = None
          /\ manifest' = IF names = Gears /\ manifest = None THEN Manifest(gears) ELSE manifest
          /\ UNCHANGED <<gears, prod, deployed, edits>>
     ELSE Refuse

\* The equivalence artifact; its manifest when all gears are in it.
Run(names, m) ==
  /\ runs < MaxRuns /\ runs' = runs + 1
  /\ IF Builds(gears, names) /\ (m # None => Mutable(m, names))
     THEN /\ flat' = Emitted(names, m) /\ built' = Origin(names, m) /\ verdict' = None
          /\ manifest' = IF names = Gears THEN Manifest(gears) ELSE manifest
          /\ UNCHANGED <<gears, prod, deployed, edits>>
     ELSE Refuse

\* --production: the contract to deploy, and nothing else
RunProduction(names, m) ==
  /\ runs < MaxRuns /\ runs' = runs + 1
  /\ IF /\ Builds(gears, names) /\ (m # None => Mutable(m, names))
        /\ \A d \in ProductionDemote : d[1] \in names /\ Plain(d[2]) \in TopLevel(gears[d[1]])
     THEN /\ prod' = Demoted(Emitted(names, m)) /\ deployed' = Origin(names, m)
          /\ UNCHANGED <<gears, flat, manifest, verdict, built, edits>>
     ELSE Refuse

\* flatten_check.py
Check ==
  /\ flat # None /\ verdict = None
  /\ verdict' = IF Compare(flat, gears) THEN "ok" ELSE "fail"
  /\ UNCHANGED <<gears, flat, prod, manifest, built, deployed, edits, runs>>

Next ==
  \/ \E g \in Gears : \E text \in Texts(g) : Edit(g, text)
  \/ \E names \in SUBSET Gears \ {{}} : \E m \in Mutations \cup {None} :
       Run(names, m) \/ RunProduction(names, m)
  \/ Check

Spec == Init /\ [][Next]_vars

-----------------------------------------------------------------------------
\* What a call from outside computes: of the gears as contracts of their own, and
\* of the one contract a flat artifact is.
Inputs(d) == [DOMAIN d.params -> Arguments]

GearCall(src, g, n, args) == Call([h \in Gears |-> Contract(src[h])], g, "user", n, args)

OneContract(artifact) == Contract(FlattenSeq([i \in DOMAIN GearOrder |-> artifact[GearOrder[i]]]))

FlatCall(artifact, g, n, args) ==
  Call([c \in {"flat"} |-> OneContract(artifact)], "flat", "user", <<g, n[2]>>, args)

SameCalls(artifact, src, public(_, _)) ==
  \A g \in Gears : \A i \in DOMAIN src[g] :
    LET d == src[g][i] IN
    d.kind # "constant" =>
      \A args \in Inputs(d) :
        FlatCall(artifact, g, d.name, args) =
          IF public(g, d.name) THEN GearCall(src, g, d.name, args) ELSE Abort

(***************************************************************************)
(* The flat contract computes, for every function and every argument, what *)
(* the gears it was built from compute, aborts included ("The flattener    *)
(* degrades loudly, never wrongly"): whatever names, keys, locals and      *)
(* calls the gears use, they are refused or kept apart.                    *)
(***************************************************************************)
FlatComputesGears ==
  built # None => SameCalls(flat, built, LAMBDA g, n : TRUE)

(***************************************************************************)
(* The contract deployed does the same, but for the entry points that are  *)
(* not sound alone, which abort from outside and still work from inside.   *)
(***************************************************************************)
ProductionComputesGears ==
  deployed # None => SameCalls(prod, deployed, LAMBDA g, n : <<g, n[2]>> \notin ProductionDemote)

(***************************************************************************)
(* Layer 0 accepts what the flattener writes from the present sources, and *)
(* what it accepts computes what the present sources do: after edits,      *)
(* partial runs and mutated ones.                                          *)
(***************************************************************************)
CheckAcceptsFlat == verdict = "fail" => built # gears

CheckIsSound == verdict = "ok" => SameCalls(flat, gears, LAMBDA g, n : TRUE)

(***************************************************************************)
(* When Layer 0 passes, the manifest the tests look names up in is the     *)
(* present one ("generator and harness cannot drift").                     *)
(***************************************************************************)
CheckedManifestIsCurrent == verdict = "ok" => manifest = Manifest(gears)
=============================================================================
