---------------------------- MODULE MCDataStripping ----------------------------
(* Small inputs for DataStripping.  Symbol i is the function or object that *)
(* section i defines; symbol 0 is defined nowhere.                          *)
EXTENDS DataStripping

Content(k, o, keep, code) ==
  [kind |-> k, obj |-> o, lnk |-> 0, keep |-> keep, code |-> code, relocs |-> <<>>]
Exidx(o, text) ==
  [kind |-> "Target", obj |-> o, lnk |-> text, keep |-> FALSE, code |-> 0, relocs |-> <<>>]
Relocs(o, s, refs) ==
  [kind |-> "Relocation", obj |-> o, lnk |-> s, keep |-> FALSE, code |-> 0, relocs |-> refs]

Call(y) == [sym |-> y, ptr |-> FALSE]
Point(y) == [sym |-> y, ptr |-> TRUE]

Sym(s, text, local, hidden, inDyn) ==
  [sect |-> s, local |-> local, hidden |-> hidden, inDyn |-> inDyn,
   func |-> text, ctor |-> FALSE]

\* The symbols of the sections in defs, of which those in locals are local and
\* so on.
Syms(defs, texts, locals, hiddens, inDyns) ==
  [y \in {0} \cup defs |-> Sym(y, y \in texts, y \in locals, y \in hiddens, y \in inDyns)]

Opt(output, gc, export, icf, iterations) ==
  [output |-> output, gc |-> gc, exportDynamic |-> export, icf |-> icf,
   iterations |-> iterations]

Link(sects, syms, undefs, opt) ==
  [sect |-> sects, sym |-> syms, entry |-> 1, undefs |-> undefs, opt |-> opt]

CallsTo(S) == SetToSeq({Call(y) : y \in S})

-----------------------------------------------------------------------------
\* Garbage collection: two texts, data, bss and a kept exception table, with
\* any references from the texts and one from the data.
Outputs == {Opt(o, TRUE, FALSE, "none", 2) : o \in {"exec", "shared", "pie"}}
           \cup {Opt("exec", TRUE, TRUE, "none", 2)}

GCLinks ==
  {Link(<<Content("Text", 1, FALSE, 1), Content("Text", 1, FALSE, 2),
          Content("Data", 1, FALSE, 3), Content("BSS", 2, FALSE, 4),
          Content("Except", 2, keep, 5),
          Relocs(1, 1, CallsTo(a)), Relocs(1, 2, CallsTo(b)),
          Relocs(1, 3, CallsTo(c)), Relocs(2, 5, CallsTo({2}))>>,
        Syms(1..5, {1, 2}, {5}, h, d), u, o) :
     keep \in BOOLEAN, a \in {{}, {0, 3}, {4, 5}}, b \in {{1}, {4, 5}},
     c \in {{}, {2}, {2, 3}}, h \in {{}, {2, 3}}, d \in {{}, {3, 4}}, u \in {{}, {0, 3}},
     o \in Outputs}

\* Unwind tables: two functions, each with its .ARM.exidx; the second one's
\* refers to an .ARM.extab, which is data.
ArmLinks ==
  {Link(<<Content("Text", 1, FALSE, 1), Exidx(1, 1), Relocs(1, 2, CallsTo({1})),
          Relocs(1, 1, CallsTo(a)),
          Content("Text", 2, FALSE, c), Exidx(2, 5), Relocs(2, 6, CallsTo({5, 8})),
          Content("Data", 2, FALSE, 2), Relocs(2, 8, CallsTo(b))>>,
        Syms({1, 5, 8}, {1, 5}, {8}, {5}, {}), {}, o) :
     a \in SUBSET {0, 5}, b \in SUBSET {0, 5}, c \in {1, 2},
     o \in {Opt("exec", gc, FALSE, icf, 3) : gc \in BOOLEAN, icf \in {"none", "all"}}}

\* Folding: four functions in three objects, each of which may call one of the
\* functions, and data that points to the last.
Calls == {<<>>} \cup {<<Call(y)>> : y \in {1, 3, 4}}
FewCalls == {<<>>, <<Call(1)>>}
MoreCalls == Calls \cup {<<Call(2)>>, <<Point(2)>>}

AllFolds ==
  {Link(<<Content("Text", 1, FALSE, 1), Content("Text", 1, FALSE, 1),
          Content("Text", 2, FALSE, 1), Content("Text", 3, FALSE, o[2]),
          Relocs(1, 1, r1), Relocs(1, 2, r2), Relocs(2, 3, r3), Relocs(3, 4, r4),
          Content("Data", 3, FALSE, 3), Relocs(3, 9, <<Point(4)>>)>>,
        Syms(1..4, 1..4, {}, {}, {}), {}, o[1]) :
     r1 \in MoreCalls, r2 \in MoreCalls, r3 \in Calls, r4 \in FewCalls,
     o \in {<<Opt("exec", FALSE, FALSE, "all", 3), 1>>,
            <<Opt("shared", FALSE, FALSE, "safe", 3), 2>>}}

ICFLinks == {l \in AllFolds : SelfCallsBind(l)}

PassLinks == GCLinks \cup ArmLinks \cup ICFLinks

\* The hypotheses of the theorems hold of these links.
ASSUME TheoremsApply ==
  \A l \in Links : /\ FewTexts(l) /\ TablesUnnamed(l) /\ TablesComeFirst(l)
                   /\ TablesReach(l) /\ OnlyFunctions(l)
                   /\ SingleDigits(l) /\ SelfCallsBind(l) /\ SelfCallsAgree(l)
=============================================================================
