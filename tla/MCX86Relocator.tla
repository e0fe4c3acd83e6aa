---------------------------- MODULE MCX86Relocator ----------------------------
(* Small links for X86Relocator: symbols foo and bar, or foo alone.         *)
EXTENDS X86Relocator, TLC

CONSTANTS foo, bar

Out(codeGen, pie, libs, bsymbolic, nocopyreloc) ==
  [codeGen |-> codeGen, pie |-> pie, libs |-> libs, bsymbolic |-> bsymbolic,
   nocopyreloc |-> nocopyreloc, noUndefined |-> FALSE]

Static == Out("Exec", FALSE, FALSE, FALSE, FALSE)
Dynamic(nocopyreloc) == Out("Exec", FALSE, TRUE, FALSE, nocopyreloc)
Shared(bsymbolic) == Out("DynObj", FALSE, TRUE, bsymbolic, FALSE)
Pie == Out("DynObj", TRUE, TRUE, FALSE, FALSE)

Info(desc, dyn, bind, type, vis) ==
  [desc |-> desc, dyn |-> dyn, bind |-> bind, type |-> type, vis |-> vis, empty |-> FALSE]

\* Symbols of the output, of a shared object, and of neither.  An undefined
\* symbol of a relocatable object has no type.
Own(type) ==
  {Info("Define", FALSE, b, type, "Default") : b \in {"Local", "Global"}}
  \cup {Info("Define", FALSE, "Global", type,
            IF type = "Object" THEN "Protected" ELSE "Hidden")}
Imported(type) == {Info("Define", TRUE, b, type, "Default") : b \in {"Global", "Weak"}}
Missing == {Info("Undefined", FALSE, b, "NoType", "Default") : b \in {"Global", "Weak"}}

Infos ==
  (UNION {Own(t) \cup Imported(t) : t \in {"Object", "Function"}})
  \cup Missing
  \cup {[i EXCEPT !.empty = TRUE] : i \in Imported("Object")}
  \cup {Info("Define", FALSE, "Absolute", "NoType", "Default")}

\* Nothing is imported without a shared object, and an absolute symbol of a
\* position-independent output is left out (README, hazards).
Possible(o, i) == (i.dyn => o.libs) /\ (i.bind = "Absolute" => isExecutable(o))

Reloc(n, k, s) == [sym |-> n, kind |-> k, sect |-> s]

Few == {Reloc(foo, "abs", "data")} \cup {Reloc(foo, k, "text") : k \in {"abs", "rel", "got", "plt"}}
Many ==
  Few \cup {Reloc(foo, "rel", "data"), Reloc(foo, "gotoff", "text")}
  \cup {Reloc(foo, k, s) : k \in {"narrow", "signed"}, s \in {"data", "text"}}
  \cup {Reloc(foo, k, "debug") : k \in {"abs", "narrow", "rel"}}

\* What compilers emit: a call is of a function, or of something undefined in an
\* executable; an offset from the GOT is to a symbol of this output.  A dynamic
\* relocation less than a word wide names its symbol, which is one of .dynsym.
Emitted(bits, o, i, r) ==
  /\ r.kind = "plt" => i.type = "Function" \/ (Undef(i) /\ o.codeGen = "Exec")
  /\ r.kind = "signed" => bits = 64
  /\ r.kind = "gotoff" => bits = 32 /\ ~Foreign(o, i)
  /\ r.kind \in {"narrow", "signed"} /\ r.sect # "debug" /\ isCodeIndep(o) =>
       isDynamicSymbol(o, i)

Link(bits, o, rels, infos, aliases) ==
  [bits |-> bits, out |-> o, rels |-> rels, syms |-> infos, aliases |-> aliases]

Outs == {Static, Dynamic(FALSE), Dynamic(TRUE), Shared(FALSE), Shared(TRUE), Pie}

\* Relocations of foo alone; bar is a symbol that nothing refers to.  A third one
\* matters to a symbol whose state the first two can change.
Pairs == {<<a, b>> : a \in Few, b \in Many} \cup {<<a, b>> : a \in Many, b \in Few}
Triples == {<<a, b, c>> : a \in Few, b \in Few, c \in Few}

XLinks ==
  {l \in {Link(bits, o, rels, [n \in {foo, bar} |-> i], {}) :
             bits \in {32, 64}, o \in Outs, i \in Infos,
             rels \in Pairs \cup Triples} :
     /\ Possible(l.out, l.syms[foo])
     /\ Len(l.rels) = 3 => Foreign(l.out, l.syms[foo])
     /\ \A j \in DOMAIN l.rels : Emitted(l.bits, l.out, l.syms[foo], l.rels[j])}

\* foo and bar are two names of a variable of a shared object.
AliasRelocs == {Reloc(n, k, s) : n \in {foo, bar}, k \in {"abs", "rel"}, s \in {"data", "text"}}

AliasLinks ==
  {Link(bits, Dynamic(FALSE), <<a, b, c>>,
        foo :> Info("Define", TRUE, bx, "Object", "Default") @@
        bar :> Info("Define", TRUE, "Weak", "Object", "Default"), {foo, bar}) :
     bits \in {32, 64}, bx \in {"Global", "Weak"},
     a \in AliasRelocs, b \in AliasRelocs, c \in AliasRelocs}

PassLinks == AliasLinks \cup XLinks

\* The links of the runs are among those that the theorem is about.
ASSUME TheoremsApply == AllOrdinary
=============================================================================
