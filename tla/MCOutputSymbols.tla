--------------------------- MODULE MCOutputSymbols ---------------------------
(* Small instances of OutputSymbols.                                       *)
EXTENDS OutputSymbols

CONSTANTS a, b, c, text, stub, j1

I(desc, bind, dyn, vis) ==
  [desc |-> desc, bind |-> bind, dyn |-> dyn, vis |-> vis, size |-> 0,
   inDyn |-> dyn]

In(infos, frags) == {[info |-> i, frag |-> f] : i \in infos, f \in frags}

Vis == {Default, Hidden}

\* What resolution leaves: an entry known from shared objects only has no
\* output symbol, every other one has.
ResolvedInputs ==
  In({NoInfo}, {"None"})
    \cup In({I("Undefined", "Global", FALSE, v) : v \in Vis}, {"Null"})
    \cup In({I("Undefined", "Weak", FALSE, Default)}, {"Null"})
    \cup In({I("Define", "Weak", FALSE, Default)}, {"kept"})
    \cup In({I("Define", "Global", FALSE, v) : v \in Vis},
            {"kept", "dropped"})
    \cup In({I("Common", "Global", FALSE, v) : v \in Vis}, {"Null"})
    \cup In({I("Define", "Absolute", FALSE, Default)}, {"Null"})
    \cup In({I("Define", "Global", TRUE, Default)}, {"None", "Null"})
    \cup In({I("Define", "Global", TRUE, Hidden)}, {"Null"})
    \cup In({I("Undefined", "Global", TRUE, Default)}, {"None"})

LocalInputs ==
  In({I("Define", "Local", FALSE, Default)}, {"kept", "dropped"})

AllInputs == ResolvedInputs \cup LocalInputs

Def(bind, vis) == I("Define", bind, FALSE, vis)

NoSyms == [n \in {} |-> n]
EText == [n \in {a} |-> Def("Absolute", Default)]
GotSymbol == [n \in {a} |-> Def("Local", Hidden)]
Assign(kind) == [n \in {b} |-> kind]
OneBranch == [j \in {j1} |-> stub]

Config(codeGen, static, standard, script) ==
  [codeGen |-> codeGen, codeStatic |-> static, defineCommon |-> FALSE,
   strip |-> "Keep", standard |-> standard, script |-> script]

Links ==
  { Config("DynObj", FALSE, EText, Assign("HIDDEN")),
    Config("Exec", FALSE, GotSymbol, Assign("PROVIDE_HIDDEN")),
    Config("Exec", TRUE, EText, Assign("PROVIDE")),
    Config("Object", FALSE, NoSyms, Assign("DEFAULT")) }

\* The hypotheses of the theorems hold of these links.
ASSUME TheoremsApply == StandardStaysVisible /\ LinkerNamesStay /\ StubsCounted
=============================================================================
