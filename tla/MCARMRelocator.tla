---------------------------- MODULE MCARMRelocator ----------------------------
(* Small links for ARMRelocator.  Nothing but m_bHasTextRel is shared between *)
(* symbols, so all relocations are of one.                                    *)
EXTENDS ARMRelocator

CONSTANT foo

Out(codeGen, pie, libs, bsymbolic, nocopyreloc) ==
    [codeGen |-> codeGen, pie |-> pie, libs |-> libs, bsymbolic |-> bsymbolic,
     nocopyreloc |-> nocopyreloc, noUndefined |-> FALSE]
Outs == {Out("Exec", FALSE, FALSE, FALSE, FALSE), Out("DynObj", TRUE, TRUE, FALSE, FALSE)}
        \cup {Out("Exec", FALSE, TRUE, FALSE, nocopyreloc) : nocopyreloc \in BOOLEAN}
        \cup {Out("DynObj", FALSE, TRUE, bsymbolic, FALSE) : bsymbolic \in BOOLEAN}

Info(desc, dyn, bind, type, vis) ==
    [desc |-> desc, dyn |-> dyn, bind |-> bind, type |-> type, vis |-> vis, empty |-> FALSE]
Own(type) == {Info("Define", FALSE, b, type, "Default") : b \in {"Local", "Global"}}
             \cup {Info("Define", FALSE, "Global", type, "Hidden")}
Infos ==
    UNION {Own(type) : type \in {"Object", "Function"}}
    \cup {Info("Define", TRUE, "Global", type, "Default") : type \in {"Object", "Function", "NoType"}}
    \cup {Info("Define", TRUE, "Weak", "Object", "Default")}
    \cup {Info("Undefined", FALSE, b, "NoType", "Default") : b \in {"Global", "Weak"}}

Reloc(k, s) == [sym |-> foo, kind |-> k, sect |-> s]
Few == {Reloc("abs", "data")}
       \cup {Reloc(k, "text") : k \in {"abs", "rel", "got", "call", "jump", "thm_jump", "page", "lo12"}}
Many == Few
        \cup {Reloc(k, "data") : k \in {"narrow", "rel"}}
        \cup {Reloc(k, "debug") : k \in {"abs", "narrow", "rel", "mov"}}
        \cup {Reloc(k, "text") : k \in {"mov", "movrel", "gotoff", "gotbrel", "prel31", "cond",
                                        "thm_call", "thm_cond"}}

\* What compilers emit, of symbols there are: branches to code, offsets and split addresses where the
\* symbol is of this output, narrow dynamic relocations with a name in .dynsym.
Emitted(bits, o, i, r) ==
    /\ r.kind \notin (IF bits = 64 THEN OnlyARM ELSE OnlyAArch64)
    /\ bits = 32 /\ r.sect = "debug" => r.kind \in {"abs", "mov"}
    /\ bits = 64 => r.kind # "mov"
    /\ i.dyn => o.libs
    /\ r.kind \in Branches \cup {"prel31"} => i.type \in {"Function", "NoType"}
    /\ r.kind \in {"movrel", "gotoff"} => ~Foreign(o, i)
    /\ r.kind \in {"page", "lo12"} => isExecutable(o) \/ ~Foreign(o, i)
    /\ r.kind = "narrow" /\ bits = 64 /\ r.sect # "debug" /\ isCodeIndep(o) => isDynamicSymbol(o, i)

\* A third relocation matters to a symbol whose state the first two can change.
Pairs == {<<a, b>> : a \in Few, b \in Many} \cup {<<a, b>> : a \in Many, b \in Few}
Triples == {<<a, b, c>> : a, b, c \in {r \in Few : r.kind \in {"abs", "rel", "got", "page", "call"}}}

Link(bits, o, rels, i, thumb) ==
    [bits |-> bits, out |-> o, rels |-> rels, syms |-> [n \in {foo} |-> i], thumb |-> thumb]

PassLinks ==
    {l \in {Link(bits, o, rels, i, thumb) :
               bits \in {32, 64}, o \in Outs, i \in Infos, rels \in Pairs \cup Triples,
               thumb \in {{}, {foo}}} :
       LET i == l.syms[foo]
       IN  /\ l.thumb # {} => l.bits = 32 /\ i.type = "Function" /\ ~i.dyn
           /\ Len(l.rels) = 3 => Foreign(l.out, i)
           /\ \A j \in DOMAIN l.rels : Emitted(l.bits, l.out, i, l.rels[j])}

\* The links of the run are among those that the theorems are about.
ASSUME TheoremsApply == AllOrdinary
=============================================================================
