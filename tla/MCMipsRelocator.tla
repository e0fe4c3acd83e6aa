---------------------------- MODULE MCMipsRelocator ----------------------------
(* Small links for MipsRelocator.                                             *)
EXTENDS MipsRelocator, TLC

LOCAL INSTANCE SequencesExt

CONSTANTS section, other, static, own, hidden, called, variable, alias, thread, missing

Out(codeGen, libs) ==
    [codeGen |-> codeGen, pie |-> FALSE, libs |-> libs, bsymbolic |-> TRUE,
     nocopyreloc |-> FALSE, noUndefined |-> FALSE]
StaticExec == Out("Exec", FALSE)
DynamicExec == Out("Exec", TRUE)
SharedLib == Out("DynObj", TRUE)

Info(desc, dyn, bind, type, vis) ==
    [desc |-> desc, dyn |-> dyn, bind |-> bind, type |-> type, vis |-> vis, empty |-> FALSE]

Infos(o) ==
    GpDisp :> Info("Define", FALSE, "Absolute", "NoType", "Default")
 @@ section :> Info("Define", FALSE, "Local", "NoType", "Default")
 @@ other :> Info("Define", FALSE, "Local", "NoType", "Default")
 @@ static :> Info("Define", FALSE, "Local", "Object", "Default")
 @@ own :> Info("Define", FALSE, "Global", "Function", "Default")
 @@ hidden :> Info("Define", FALSE, "Global", "Object", "Hidden")
 @@ called :> Info("Define", o.libs, "Global", "Function", "Default")
 @@ variable :> Info("Define", o.libs, "Weak", "Object", "Default")
 @@ alias :> Info("Define", o.libs, "Global", "Object", "Default")
 @@ thread :> Info("Define", o.libs, "Global", "Object", "Default")
 @@ missing :> Info("Undefined", FALSE, "Weak", "NoType", "Default")

\* Low halves of either sign; an undefined weak symbol is at 0 unless a shared
\* object may be given it later.
Where(o) ==
    GpDisp :> 0 @@ section :> 55 @@ other :> 200 @@ static :> 40 @@ own :> 71 @@ hidden :> 90
 @@ called :> 300 @@ variable :> 333 @@ alias :> 333 @@ thread :> 5
 @@ missing :> (IF o.codeGen = "DynObj" THEN 400 ELSE 0)

Link(bits, o, inputs) ==
    [bits |-> bits, out |-> o, inputs |-> inputs, syms |-> Infos(o), where |-> Where(o),
     gp0 |-> [i \in DOMAIN inputs |-> 4 * i], sections |-> {section, other}, aliases |-> {variable, alias}]
-----------------------------------------------------------------------------
R(type, y, a, insn) == [type |-> type, sym |-> y, a |-> a, insn |-> insn, sect |-> "text"]
W(y, a) == [type |-> "word", sym |-> y, a |-> a, insn |-> 0, sect |-> "data"]

\* What compilers emit, one piece of code each.
LoadGp == <<R("HI16", GpDisp, 0, 1), R("LO16", GpDisp, 0, 1)>>
Pair(high, low, y, hi, lo) == <<R(high, y, hi, 1), R(low, y, lo, 2)>>
LocalPair(y, hi, lo) == Pair("GOT16", "LO16", y, hi, lo)
AbsPair(y, hi, lo) == Pair("HI16", "LO16", y, hi, lo)
\* The loads of two fields in one page, one high half after the other; with one
\* low half for two.
TwoLows == LocalPair(section, 1, 2) \o <<R("LO16", section, 3, 1)>>
TwoHighs(type, y) == <<R(type, y, 2, 1), R(type, y, 2, 2), R("LO16", y, -5, 1)>>
Mixed == <<R("GOT16", section, 0, 1), R("GOT16", static, 0, 1), R("LO16", static, 0, 1), R("LO16", section, 7, 1)>>
One(type, y) == <<R(type, y, 0, 1)>>

Pic32 ==
    {LocalPair(section, 0, 5), LocalPair(other, 0, -8), LocalPair(static, 0, 0), TwoLows, Mixed,
     TwoHighs("GOT16", section), One("GOT16", hidden), One("GPREL16", static), One("GPREL16", own), One("GPREL32", section), One("GPREL32", missing),
     Pair("PCHI16", "PCLO16", own, 0, 3)}
    \cup {One("GOT16", y) : y \in {own, variable}}
    \cup {One("CALL16", y) : y \in {own, called, hidden, missing}}
    \cup {Pair("GOT_HI16", "GOT_LO16", y, 0, 0) : y \in {own, called}}
    \cup {One("pc", own), LoadGp}
Words == {<<W(y, a)>> : y \in {section, own, called, variable, missing}, a \in {4}}
         \cup {<<[W(own, 3) EXCEPT !.sect = "debug"]>>, <<[W(variable, 0) EXCEPT !.sect = "text"]>>}
Threads == {One("GD", thread), One("LDM", static), One("TPREL", thread)}
Absolute ==
    {AbsPair(section, 0, 5), AbsPair(section, 1, -8), AbsPair(hidden, 0, 0), AbsPair(variable, 0, 2),
     AbsPair(alias, 1, 3), TwoHighs("HI16", own), One("26", section), One("26", own), One("26", called), One("26", missing)}
Pic64 ==
    {<<R("GOT_PAGE", y, 0, 0), R("GOT_OFST", y, 0, 0)>> : y \in {section, hidden}}
    \cup {<<R("GOT_PAGE", section, 24, 0)>>}
    \cup {One(t, y) : t \in {"GOT_DISP", "CALL16"}, y \in {static, own, called, missing}}

\* What the code gets wrong is left out (README, relocation on Mips): of one
\* foreign symbol, copies or calls beside what reads its address; thread-local
\* entries of two kinds; a local symbol belongs to one input.
Mentions(code, types) == {code[k].sym : k \in {j \in DOMAIN code : code[j].type \in types}}
Variables == {variable, alias}
Locals == {section, other, static}
Mix(code) ==
    \/ /\ Mentions(code, {"HI16"}) \cap Variables # {}
       /\ Mentions(code, GotTypes) \cap Variables # {}
    \/ Mentions(code, {"26"}) \cap Mentions(code, Types \ {"26"}) \cap {called} # {}
    \/ Cardinality({code[k].type : k \in DOMAIN code} \cap TLSTypes) > 1
Shares(codes) == \E c, d \in DOMAIN codes :
    c # d /\ Mentions(codes[c], Types) \cap Mentions(codes[d], Types) \cap Locals # {}

Snippets(bits, o) ==
    Words \cup (IF o.libs THEN Threads ELSE {})
    \cup (IF bits = 64 THEN Pic64 ELSE Pic32)
    \cup (IF bits = 32 /\ o.codeGen = "Exec" THEN Absolute ELSE {})

\* One part: two pieces of code, in one input or in two.
SmallLinks ==
    UNION {LET code == Snippets(bits, o)
               pairs == {p \in code \X code : ~Mix(p[1] \o p[2])}
           IN  {Link(bits, o, <<p[1] \o p[2]>>) : p \in pairs}
               \cup {Link(bits, o, p) : p \in {q \in pairs : ~Shares(q)}} :
           bits \in {32, 64}, o \in {StaticExec, DynamicExec, SharedLib}}

\* Several parts: every piece takes one entry of its own; what an input starts
\* with no input before it has.
Pieces ==
    {LocalPair(y, 0, 5) : y \in Locals}
    \cup {One("CALL16", y) : y \in {called, missing}} \cup {One("GOT16", y) : y \in Variables}
Body(a, b, c) == LoadGp \o a \o b \o c
Firsts == {Body(LocalPair(section, 0, 5), One("CALL16", called), One("GOT16", variable)),
           Body(One("CALL16", missing), One("GOT16", variable), One("CALL16", called))}
Seconds == {Body(a, b, c) : <<a, b, c>> \in {t \in Pieces \X Pieces \X Pieces : Cardinality({t[1], t[2], t[3]}) = 3}}
Thirds == {Body(One("GOT16", alias), One("CALL16", called), t) : t \in Threads \cup {<<W(variable, 4)>>}}
          \cup {LoadGp \o LocalPair(static, 0, 5) \o One("CALL16", missing) \o One("GOT16", variable)}
StartOf(body) == body[3].sym
Fresh(inputs) == \A i \in DOMAIN inputs : \A j \in 1..(i - 1) :
    StartOf(inputs[i]) \notin Mentions(inputs[j], GotTypes)
LargeLinks ==
    {Link(bits, SharedLib, inputs) : bits \in {32},
        inputs \in {i \in (Firsts \X Seconds) \cup (Firsts \X Seconds \X Thirds) : Fresh(i) /\ ~Shares(i)}}

PassLinks == SmallLinks \cup LargeLinks
=============================================================================
