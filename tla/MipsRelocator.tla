----------------------------- MODULE MipsRelocator -----------------------------
(* Relocations of Mips (MipsRelocator, MipsGNULDBackend): the scan reserves   *)
(* GOT entries, PLT entries, dynamic relocations and copies, input by input;  *)
(* the apply walks the same inputs, hands out what has been reserved and      *)
(* writes the places.  High halves wait for the low half that completes       *)
(* their addend.                                                              *)
(*                                                                            *)
(* Addresses are counted in words of the target: an instruction is one, an    *)
(* entry of the GOT is EntrySize.  All are below the 2^24 bytes at which      *)
(* R_MIPS_26 begins to tell regions apart.                                    *)
EXTENDS DynamicLinkage, MipsGOT

LOCAL INSTANCE SequencesExt
LOCAL INSTANCE FiniteSetsExt

CONSTANTS
    Symbols, GpDisp,        \* GpDisp is the symbol _gp_disp
    Page,                   \* 2^16: the low half of a value is in -Page/2 .. Page/2 - 1
    Base, GotAddress, PltAddress, TextAddress,
    Links

\* R_MIPS_32 and R_MIPS_64 are "word"; "pc" stands for R_MIPS_PC16 and the like.
GotTypes == {"GOT16", "CALL16", "GOT_HI16", "GOT_LO16", "GOT_DISP", "GOT_PAGE", "GOT_OFST"}
TLSTypes == {"GD", "LDM", "TPREL"}
Types == GotTypes \cup TLSTypes
         \cup {"word", "HI16", "LO16", "26", "pc", "PCHI16", "PCLO16", "GPREL16", "GPREL32"}

\* a is the addend: on Mips32 the one at the place, next to insn, the rest of
\* the instruction; of HI16, PCHI16 and local GOT16 it is the high half only.
RelocType == [type : Types, sym : Symbols, a : Int, insn : Nat, sect : {"text", "data", "debug"}]

LinkType ==
    [bits : {32, 64}, out : Outputs, inputs : Seq(Seq(RelocType)),
     syms : [Symbols -> SymbolInfos],
     where : [Symbols -> Nat],      \* addresses; of foreign symbols those at run time
     gp0 : Seq(Int),                \* of each input: the gp it was made with
     sections : SUBSET Symbols,     \* the section symbols
     aliases : SUBSET Symbols]      \* names of one variable of a shared object

ASSUME MipsAssumption == Page \in Nat /\ Page % 2 = 0 /\ MaxEntries > Header /\ Base % Page = 0

VARIABLES
    link, phase, at,   \* at: the input and the relocation in it, 0 before the first
    sym, reserved,     \* the ResolveInfo and the Reserve bits of each symbol
    got, relDyn,       \* m_pGOT; the number of entries of .rel.dyn
    dynRels,               \* the entries of .rel.dyn that have been consumed
    postponed,         \* m_PostponedRelocs
    place, content,    \* what is at the places and in the entries of the GOT
    textRel, errors

tables == <<sym, reserved, got, relDyn, textRel, errors>>
image == <<dynRels, place, content>>
vars == <<link, phase, at, tables, image, postponed>>

out == link.out
is64 == link.bits = 64
Inputs == DOMAIN link.inputs
Rels == UNION {{<<i, j>> : j \in DOMAIN link.inputs[i]} : i \in Inputs}
Rel(r) == link.inputs[r[1]][r[2]]
Alloc(r) == Rel(r).sect # "debug"
Type(r) == Rel(r).type
Sym(r) == Rel(r).sym
Shared == out.codeGen = "DynObj"

isLocalReloc(y) ==
    /\ ~Undef(sym[y])
    /\ \/ sym[y].bind = "Local"
       \/ ~isDynamicSymbol(out, sym[y])
       \/ ~sym[y].dyn

symValue(y) == IF Undef(sym[y]) \/ sym[y].dyn THEN 0 ELSE link.where[y]

Init ==
    /\ link \in Links
    /\ phase = "scan" /\ at = <<1, 0>>
    /\ sym = link.syms
    /\ reserved = [y \in Symbols |-> {}]
    /\ got = NoGOT
    /\ relDyn = 0 /\ dynRels = <<>>
    /\ postponed = [y \in Symbols |-> {}]
    /\ place = [r \in Rels |-> 0]
    /\ content = <<>>
    /\ textRel = FALSE /\ errors = {}

\* The loops over the inputs and over the relocations of one.
Advance ==
    at' = IF at[2] < Len(link.inputs[at[1]]) THEN <<at[1], at[2] + 1>> ELSE <<at[1] + 1, 0>>
InLoop(p) == phase = p /\ at[1] \in Inputs
-----------------------------------------------------------------------------
(* Scanning. *)

OpenInput ==
    /\ InLoop("scan") /\ at[2] = 0
    /\ got' = InitializeScan(got, at[1])
    /\ Advance
    /\ UNCHANGED <<link, phase, sym, reserved, relDyn, textRel, errors, image, postponed>>

Skipped(r) == Sym(r) = GpDisp \/ ~Alloc(r)

ScanSkipped ==
    /\ InLoop("scan") /\ at[2] > 0 /\ Skipped(at)
    /\ Advance
    /\ UNCHANGED <<link, phase, tables, image, postponed>>

Scanning(types) ==
    /\ InLoop("scan") /\ at[2] > 0 /\ ~Skipped(at)
    /\ Type(at) \in types

\* What scanRelocation does behind the switches.
Scanned ==
    /\ errors' = IF UndefinedIsError(out, sym'[Sym(at)]) THEN errors \cup {at} ELSE errors
    /\ Advance
    /\ UNCHANGED <<link, phase, place, content, postponed>>

NoteTextRel(noted) == textRel' = (textRel \/ (noted /\ Rel(at).sect = "text"))
Reserve(bits) == reserved' = [reserved EXCEPT ![Sym(at)] = @ \cup bits]

\* A dynamic relocation on the place, and an entry of the GOT for a symbol of
\* which the dynamic linker must find the value.
ScanWord ==
    LET y == Sym(at)
        needsRel == IF isLocalReloc(y) THEN Shared
                    ELSE symbolNeedsDynRel(out, sym[y], "PLT" \in reserved[y], TRUE)
    IN  /\ Scanning({"word"})
        /\ relDyn' = relDyn + (IF needsRel THEN 1 ELSE 0)
        /\ Reserve(IF needsRel THEN {"Rel"} ELSE {})
        /\ NoteTextRel(needsRel)
        /\ got' = IF needsRel /\ ~isLocalReloc(y) /\ ~symbolFinalValueIsKnown(out, sym[y])
                  THEN ReserveGlobalEntry(got, at[1], y) ELSE got
        /\ UNCHANGED <<sym, dynRels>>
        /\ Scanned

\* Code that is not position independent reaches a foreign variable in a copy;
\* its dynamic relocation is used up at once.
ScanHiLo ==
    LET y == Sym(at)
        copies == /\ ~isLocalReloc(y)
                  /\ \/ symbolNeedsDynRel(out, sym[y], "PLT" \in reserved[y], TRUE)
                     \/ symbolNeedsCopyReloc(out, sym[y], Rel(at).sect = "data")
        defined == {y} \cup {z \in link.aliases : y \in link.aliases /\ sym[z].dyn}
    IN  /\ Scanning({"HI16", "LO16"})
        /\ IF copies
           THEN /\ relDyn' = relDyn + 1
                /\ dynRels' = Append(dynRels, [type |-> "COPY", on |-> <<"symbol", y>>, sym |-> y])
                /\ sym' = [z \in Symbols |-> IF z \notin defined THEN sym[z]
                             ELSE [sym[z] EXCEPT !.desc = "Define", !.dyn = FALSE,
                                      !.bind = IF sym[y].bind = "Weak" THEN "Global" ELSE sym[y].bind]]
           ELSE UNCHANGED <<relDyn, dynRels, sym>>
        /\ UNCHANGED <<reserved, got, textRel>>
        /\ Scanned

\* The addend of a reservation is the whole word at the place on Mips32.
ScanGot ==
    LET y == Sym(at)
        entry == <<y, Rel(at).a, Rel(at).insn, Type(at) = "GOT16">>
    IN  /\ Scanning(GotTypes)
        /\ got' = IF isLocalReloc(y) THEN ReserveLocalEntry(got, at[1], entry)
                  ELSE ReserveGlobalEntry(got, at[1], y)
        /\ NoteTextRel(got'.parts # got.parts /\ Len(got'.parts) > 1)
        /\ UNCHANGED <<sym, reserved, relDyn, dynRels>>
        /\ Scanned

\* helper_PLT_init, and the symbols that get an LA25 stub.
ScanJump ==
    LET y == Sym(at)
        plt == ~isLocalReloc(y) /\ symbolNeedsPLT(out, sym[y])
        la25 == ~isCodeIndep(out) /\ sym[y].bind # "Local"
    IN  /\ Scanning({"26"})
        /\ Reserve((IF plt THEN {"PLT"} ELSE {}) \cup (IF la25 THEN {"NonPICBranch"} ELSE {}))
        /\ UNCHANGED <<sym, got, relDyn, dynRels, textRel>>
        /\ Scanned

ScanTLS ==
    /\ Scanning(TLSTypes)
    /\ got' = CASE Type(at) = "GD" -> ReserveTLSGdEntry(got, Sym(at))
                [] Type(at) = "LDM" -> ReserveTLSLdmEntry(got)
                [] Type(at) = "TPREL" -> ReserveTLSGotEntry(got, Sym(at))
    /\ NoteTextRel(TRUE)
    /\ UNCHANGED <<sym, reserved, relDyn, dynRels>>
    /\ Scanned

ScanNothing ==
    /\ Scanning({"pc", "PCHI16", "PCLO16", "GPREL16", "GPREL32"})
    /\ Type(at) = "GPREL32" => isLocalReloc(Sym(at))
    /\ UNCHANGED <<sym, reserved, got, relDyn, dynRels, textRel>>
    /\ Scanned

\* invalid_global_relocation
ScanInvalid ==
    /\ Scanning({"GPREL32"})
    /\ ~isLocalReloc(Sym(at))
    /\ phase' = "fatal"
    /\ UNCHANGED <<link, at, tables, image, postponed>>

\* doPreLayout makes the entries and asserts that a static link has no dynamic
\* relocation.
EndScan ==
    LET reldyn == relDyn + RelDynOf(got)
        dynamic == reldyn > 0 \/ \E y \in Symbols : "PLT" \in reserved[y]
    IN  /\ phase = "scan" /\ at[1] \notin Inputs
        /\ relDyn' = reldyn
        /\ content' = [n \in 0..(Size(got) - 1) |-> 0]
        /\ phase' = IF isCodeStatic(out) /\ dynamic THEN "failed" ELSE "apply"
        /\ at' = <<1, 0>>
        /\ UNCHANGED <<link, sym, reserved, got, dynRels, postponed, place, textRel, errors>>
-----------------------------------------------------------------------------
(* Applying.  The functions work on w, the state they change: [got, dynRels,     *)
(* place, content, ok]; ok is FALSE when an assertion has failed.            *)

Lo(v) == ((v + Page \div 2) % Page) - (Page \div 2)
Hi(v) == (v - Lo(v)) \div Page

EntrySize == link.bits \div 32
P(r) == TextAddress + r[2] + 100 * r[1]
GP(w, r) == GotAddress + EntrySize * GPEntry(w.got, r[1])
PLTAddress(y) == PltAddress + Cardinality({z \in Symbols : link.where[z] < link.where[y]})

Put(w, r, v) == [w EXCEPT !.place[r] = v]

\* setupRelDynEntry; consumeEntry asserts that there is one.
SetupRel(w, type, on, y) ==
    IF Len(w.dynRels) < relDyn THEN [w EXCEPT !.dynRels = Append(@, [type |-> type, on |-> on, sym |-> y])]
    ELSE [w EXCEPT !.ok = FALSE]

\* Find an entry, or consume one and fill it; the result is w and the entry.
Entry(w, kind, y, value, consumed, Fill(_, _)) ==
    LET found == Lookup(w.got, kind, y, value)
        n == consumed.entry
        filled == Fill([w EXCEPT !.got = consumed.got], n)
    IN  IF found # {} THEN <<w, CHOOSE e \in found : TRUE>>
        ELSE IF n = -1 THEN <<[w EXCEPT !.ok = FALSE], 0>>
        ELSE <<[filled EXCEPT !.got = Record(@, kind, y, value, n)], n>>

\* Entries of the first part hold their value, the others a dynamic relocation.
Primary(w) == w.got.current = 1

GetLocalGOTEntry(w, y, value) ==
    LET Fill(v, n) == IF Primary(v) THEN [v EXCEPT !.content[n] = value]
                      ELSE SetupRel(v, "REL32", <<"entry", n>>, "none")
    IN  Entry(w, "local", y, value, ConsumeLocal(w.got), Fill)

GetGlobalGOTEntry(w, y) ==
    LET Fill(v, n) == IF Primary(v) THEN [v EXCEPT !.content[n] = symValue(y)]
                      ELSE SetupRel(v, "REL32", <<"entry", n>>, y)
    IN  Entry(w, "global", y, 0, ConsumeGlobal(w.got), Fill)

GetTLSGOTEntry(w, y, type) ==
    LET z == IF sym[y].bind = "Local" THEN "none" ELSE y
        Fill(v, n) ==
            CASE type = "GD" -> SetupRel(SetupRel(v, "DTPMOD", <<"entry", n>>, z), "DTPREL", <<"entry", n + 1>>, z)
              [] type = "LDM" -> SetupRel(v, "DTPMOD", <<"entry", n>>, z)
              [] type = "TPREL" -> SetupRel(v, "TPREL", <<"entry", n>>, z)
    IN  Entry(w, type, y, 0, ConsumeTLS(w.got, type), Fill)

\* getGPRelOffset, in entries from what gp of the input reaches first.
PutOffset(r, found) == Put(found[1], r, found[2] - GPEntry(found[1].got, r[1]))

\* abs32, abs64 and createDynRel.
Word(w, r) ==
    LET y == Sym(r)
        named == isDynamicSymbol(out, sym[y])
        v == SetupRel(Put(w, r, Rel(r).a + (IF named THEN 0 ELSE symValue(y))),
                      "REL32", <<"place", r>>, IF named THEN y ELSE "none")
    IN  IF ~Alloc(r) \/ "Rel" \notin reserved[y] THEN Put(w, r, symValue(y) + Rel(r).a)
        ELSE IF isLocalReloc(y) \/ symbolFinalValueIsKnown(out, sym[y]) THEN v
        ELSE GetGlobalGOTEntry(v, y)[1]

Jump(w, r) ==
    Put(w, r, Rel(r).a + (IF "PLT" \in reserved[Sym(r)] THEN PLTAddress(Sym(r)) ELSE symValue(Sym(r))))

\* calcAHL: on Mips32 the low half comes from the relocation lo that completes it.
AHL(r, lo) == IF is64 THEN Rel(r).a ELSE Rel(r).a * Page + Rel(lo).a

\* The addend against a local symbol counts from the gp its input was made with.
MadeWith(r) ==
    IF sym[Sym(r)].bind = "Local" \/ Type(r) = "GPREL32" THEN link.gp0[r[1]] ELSE 0

\* S + A, for _gp_disp the distance to gp, for PC relative ones that to the
\* symbol, for gp relative ones that from gp to it.
Target(w, r) ==
    CASE Sym(r) = GpDisp -> GP(w, r) - P(r)
      [] Type(r) \in {"pc", "PCHI16", "PCLO16"} -> symValue(Sym(r)) - P(r)
      [] Sym(r) # GpDisp /\ Type(r) \in {"GPREL16", "GPREL32"} ->
             symValue(Sym(r)) + MadeWith(r) - GP(w, r)
      [] OTHER -> symValue(Sym(r))

High(w, r, lo) == Put(w, r, Hi(AHL(r, lo) + Target(w, r)))

\* The low half of _gp_disp is that of an instruction further on.
Low(w, r) == Put(w, r, (Rel(r).a + Target(w, r) + (IF Sym(r) = GpDisp THEN 1 ELSE 0)) % Page)

\* got16 against a symbol of the input takes the page, call16 and the others the
\* address.
Got(w, r, lo) ==
    LET y == Sym(r)
    IN  PutOffset(r,
            IF Type(r) = "GOT16" /\ sym[y].bind = "Local"
            THEN GetLocalGOTEntry(w, y, Hi(AHL(r, lo) + symValue(y)) * Page)
            ELSE IF ~isLocalReloc(y) THEN GetGlobalGOTEntry(w, y)
            ELSE GetLocalGOTEntry(w, y, symValue(y) + (IF y \in link.sections THEN Rel(r).a ELSE 0)))

\* The table of functions; R_MIPS_GOT_OFST is not implemented.
ApplyFunction(w, r, lo) ==
    CASE ~w.ok -> w
      [] Type(r) = "word" -> Word(w, r)
      [] Type(r) = "26" -> Jump(w, r)
      [] Type(r) \in {"HI16", "PCHI16"} -> High(w, r, lo)
      [] Type(r) \in {"LO16", "PCLO16"} -> Low(w, r)
      [] Type(r) \in {"pc", "GPREL16", "GPREL32"} -> Put(w, r, Rel(r).a + Target(w, r))
      [] Type(r) \in GotTypes \ {"GOT_OFST"} -> Got(w, r, lo)
      [] Type(r) \in TLSTypes -> PutOffset(r, GetTLSGOTEntry(w, Sym(r), Type(r)))
      [] OTHER -> w

Applying(p) == InLoop("apply") /\ at[2] > 0 /\ p
Become(w) ==
    /\ got' = w.got /\ dynRels' = w.dynRels /\ place' = w.place /\ content' = w.content
    /\ phase' = IF w.ok THEN "apply" ELSE "failed"
    /\ Advance
    /\ UNCHANGED <<link, sym, reserved, relDyn, textRel, errors>>
Now == [got |-> got, dynRels |-> dynRels, place |-> place, content |-> content, ok |-> TRUE]

\* A slip: a page is looked for before its low half is known.
isPostponedHigh(r) == ~is64 /\ Type(r) \in {"HI16", "PCHI16"}

isPostponed(r) ==
    /\ ~is64
    /\ \/ Type(r) \in {"HI16", "PCHI16"}
       \/ Type(r) = "GOT16" /\ sym[Sym(r)].bind = "Local"
Lows == {"LO16", "PCLO16"}

BeginInput ==
    /\ InLoop("apply") /\ at[2] = 0
    /\ Advance
    /\ UNCHANGED <<link, phase, tables, image, postponed>>

Postpone ==
    /\ Applying(isPostponed(at))
    /\ postponed' = [postponed EXCEPT ![Sym(at)] = @ \cup {at}]
    /\ Advance
    /\ UNCHANGED <<link, phase, tables, image>>

\* The relocations of its symbol that wait, in the order of a set of pointers,
\* take the addend of the low half.
ApplyLow ==
    LET w == ApplyFunction(Now, at, at)
    IN  /\ Applying(Type(at) \in Lows)
        /\ \E order \in SetToSeqs(postponed[Sym(at)]) :
               Become(FoldLeft(LAMBDA v, r : ApplyFunction(v, r, at), w, order))
        /\ postponed' = [postponed EXCEPT ![Sym(at)] = {}]

ApplyOther ==
    /\ Applying(~isPostponed(at) /\ Type(at) \notin Lows)
    /\ Become(ApplyFunction(Now, at, at))
    /\ UNCHANGED postponed

EndApply ==
    /\ phase = "apply" /\ at[1] \notin Inputs
    /\ phase' = "done"
    /\ UNCHANGED <<link, at, tables, image, postponed>>

Scan ==
    \/ OpenInput \/ ScanSkipped \/ ScanWord \/ ScanHiLo \/ ScanGot \/ ScanJump
    \/ ScanTLS \/ ScanNothing \/ ScanInvalid \/ EndScan
Apply == BeginInput \/ Postpone \/ ApplyLow \/ ApplyOther \/ EndApply
Next == Scan \/ Apply

Spec == Init /\ [][Next]_vars
-----------------------------------------------------------------------------
(* Loading.  The dynamic linker adds the load base to the entries of the     *)
(* first part that belong to local symbols, finds the symbols of the others  *)
(* that follow, and performs the dynamic relocations.                        *)

Dynamic == ~isCodeStatic(out)
LoadBase == IF Shared THEN Base ELSE 0

\* The code binds the symbols of the output to themselves (-Bsymbolic).
AddressOf(y) == link.where[y] + (IF Undef(sym[y]) \/ sym[y].dyn THEN 0 ELSE LoadBase)

RelsOn(target) == {k \in DOMAIN dynRels : dynRels[k].on = target}
Loaded(v, target) ==
    v + MapThenSumSet(LAMBDA k : IF dynRels[k].type # "REL32" THEN 0
                               ELSE IF dynRels[k].sym = "none" THEN LoadBase ELSE AddressOf(dynRels[k].sym),
                      RelsOn(target))

EntryAtRunTime(n) ==
    IF ~Dynamic THEN content[n]
    ELSE IF n < LocalNum(got) THEN content[n] + LoadBase
    ELSE IF n < LocalNum(got) + GlobalNum(got) THEN AddressOf(got.order[n - LocalNum(got) + 1])
    ELSE Loaded(content[n], <<"entry", n>>)
PlaceAtRunTime(r) == Loaded(place[r], <<"place", r>>)
-----------------------------------------------------------------------------
Bits == {"Rel", "PLT", "NonPICBranch"}
TypeOK ==
    /\ phase \in {"scan", "apply", "done", "fatal", "failed"}
    /\ at[1] \in 1..(Len(link.inputs) + 1) /\ at[2] \in Nat
    /\ sym \in [Symbols -> SymbolInfos]
    /\ reserved \in [Symbols -> SUBSET Bits]
    /\ got.current \in 1..(Len(got.parts) + 1)
    /\ \A p \in DOMAIN got.parts :
           LET q == got.parts[p]
           IN  q.usedLocal \in 0..q.local /\ q.usedGlobal \in 0..q.global /\ q.usedTLS \in 0..q.tls
    /\ relDyn \in Nat /\ Len(dynRels) <= relDyn
    /\ \A y \in Symbols : postponed[y] \subseteq {r \in Rels : Sym(r) = y}
    /\ DOMAIN place = Rels /\ \A r \in Rels : place[r] \in Int
    /\ \A n \in DOMAIN content : content[n] \in Int
    /\ textRel \in BOOLEAN /\ errors \subseteq Rels

(* The assertions of MipsGOT.cpp:52-65 ("Consumed too many ... GOT entries"), *)
(* OutputRelocSection.cpp:52-64 ("No empty relocation entry for the incoming  *)
(* symbol") and MipsLDBackend.cpp:214-223: what the scan counts, over inputs, *)
(* parts and merged symbols, is never less than what the apply hands out.     *)
NothingRunsOut == phase # "failed"

Linked == phase = "done" /\ errors = {}
Loads == {r \in Rels : Alloc(r)}

\* The low half that completes r: the next one of its symbol.
Completing(r) ==
    <<r[1], CHOOSE j \in DOMAIN link.inputs[r[1]] :
        /\ j > r[2] /\ Sym(<<r[1], j>>) = Sym(r) /\ Type(<<r[1], j>>) \in Lows
        /\ \A k \in (r[2] + 1)..(j - 1) : ~(Sym(<<r[1], k>>) = Sym(r) /\ Type(<<r[1], k>>) \in Lows)>>

\* The entry that a place of a GOT relocation leads to.
EntryOf(r) == GPEntry(got, r[1]) + place[r]
InReach(r) == place[r] \in 0..(MaxEntries - 1)

(* What gp leads to: the entry lies within 16 bits of gp and holds the        *)
(* address of the symbol, or the page that the low half completes.  Local    *)
(* entries outside the first part never get their value (README).            *)
GotPlaceRight(r) ==
    LET y == Sym(r)
        value == EntryAtRunTime(EntryOf(r))
    IN  /\ InReach(r)
        /\ \/ GPEntry(got, r[1]) > 0 /\ isLocalReloc(y)
           \/ IF Type(r) = "GOT16" /\ link.syms[y].bind = "Local"
              THEN value + Lo(place[Completing(r)]) = AddressOf(y) + AHL(r, Completing(r))
              ELSE value = AddressOf(y) + (IF y \in link.sections THEN Rel(r).a ELSE 0)

(* The dynamic linker fills the entries of a thread-local symbol and nothing *)
(* else does.                                                                *)
TLSPlaceRight(r) ==
    LET n == EntryOf(r)
        On(m) == {<<dynRels[k].type, dynRels[k].sym>> : k \in RelsOn(<<"entry", m>>)}
    IN  /\ n >= LocalNum(got) + GlobalNum(got)
        /\ CASE Type(r) = "GD" -> On(n) = {<<"DTPMOD", Sym(r)>>} /\ On(n + 1) = {<<"DTPREL", Sym(r)>>}
             [] Type(r) = "LDM" -> {d[1] : d \in On(n)} = {"DTPMOD"} /\ On(n + 1) = {}
             [] Type(r) = "TPREL" -> On(n) = {<<"TPREL", Sym(r)>>}

PairRight(r) ==
    LET lo == Completing(r)
        sum == place[r] * Page + Lo(place[lo])
    IN  CASE Sym(r) = GpDisp -> sum + P(r) = GotAddress + EntrySize * GPEntry(got, r[1])
          [] Type(r) = "PCHI16" -> sum + P(r) = symValue(Sym(r)) + AHL(r, lo) - (P(lo) - P(r))
          [] OTHER -> sum = AddressOf(Sym(r)) + AHL(r, lo)

\* gp, at run time that of the part of the place's input, and the place lead to
\* the symbol; the addend of a local one is counted from the input's own gp.
GpPlaceRight(r) ==
    LET gp == GotAddress + EntrySize * GPEntry(got, r[1]) + LoadBase
        was == IF sym[Sym(r)].bind = "Local" THEN link.gp0[r[1]] ELSE 0
    IN  gp + place[r] = AddressOf(Sym(r)) + Rel(r).a + was

(* When the program runs a loaded place leads to the symbol it was           *)
(* written for: through the entry of the GOT that its input's gp reaches,    *)
(* through a high and a low half that agree about the addend, from gp,       *)
(* directly, or with a dynamic relocation.  The scan counts entries by the   *)
(* word at the place, the apply finds them by value and by part.  Low halves *)
(* are judged with the high half they complete; GOT_OFST is not implemented. *)
PlacesRelocated ==
    Linked => \A r \in Loads :
        CASE Type(r) \in GotTypes \ {"GOT_OFST"} -> GotPlaceRight(r)
          [] Type(r) \in TLSTypes -> TLSPlaceRight(r)
          [] Type(r) \in {"HI16", "PCHI16"} -> PairRight(r)
          [] Type(r) = "word" -> PlaceAtRunTime(r) = AddressOf(Sym(r)) + Rel(r).a
          [] Type(r) = "26" -> place[r] - Rel(r).a \in
                 {AddressOf(Sym(r))} \cup (IF "PLT" \in reserved[Sym(r)] THEN {PLTAddress(Sym(r))} ELSE {})
          [] Type(r) \in {"GPREL16", "GPREL32"} -> GpPlaceRight(r)
          [] Type(r) = "pc" -> place[r] + P(r) = symValue(Sym(r)) + Rel(r).a
          [] OTHER -> TRUE
=============================================================================
