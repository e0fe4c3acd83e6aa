---------------------------- MODULE X86Relocator ----------------------------
(***************************************************************************)
(* Relocations of x86-32 and x86-64: ObjectLinker::scanRelocations visits  *)
(* every relocation once and reserves what it needs (entries of .got and   *)
(* .plt, dynamic and copy relocations); after layout,                      *)
(* ObjectLinker::relocation visits them again in the same order and writes *)
(* the places.  Both phases decide from the ResolveInfo of the symbol,     *)
(* which copy relocations change in between.                               *)
(*                                                                         *)
(* The last part of the module is the dynamic linker: what each place and  *)
(* each GOT entry holds when the program runs.                             *)
(***************************************************************************)
EXTENDS DynamicLinkage, AddressSums, Sequences

CONSTANTS
  Symbols,
  Links   (* the links: a set of records, see LinkType                     *)

(* The kinds of relocation:       R_386_            R_X86_64_              *)
(*   abs     the width of a word  32                64                     *)
(*   narrow  less than a word     16, 8             32, 16, 8              *)
(*   signed                                         32S                    *)
(*   rel                          PC32, PC16, PC8   PC32, PC16, PC8        *)
(*   plt                          PLT32             PLT32                  *)
(*   got                          GOT32             GOTPCREL               *)
(*   gotoff                       GOTOFF                                   *)
Kinds == {"abs", "narrow", "signed", "rel", "plt", "got", "gotoff"}

\* The section of a place: writable data, read-only text, or not allocated.
Relocations == [sym : Symbols, kind : Kinds, sect : {"data", "text", "debug"}]

LinkType ==
  [bits : {32, 64}, out : Outputs, rels : Seq(Relocations),
   syms : [Symbols -> SymbolInfos],   (* after resolution                  *)
   aliases : SUBSET Symbols]          (* dynamic symbols of one address    *)

ASSUME LinkAssumption == Links \subseteq LinkType

\* Without a shared object no symbol is a dynamic one.
ASSUME ImportAssumption ==
  \A l \in Links : ~l.out.libs => \A y \in Symbols : ~l.syms[y].dyn

VARIABLES
  link,
  sym,       (* the ResolveInfo of each symbol                             *)
  reserved,  (* the Reserve bits of each symbol: Rel, GOT, PLT             *)
  got,       (* the value of the GOT entry of each symbol                  *)
  dynrel,    (* the dynamic relocation that the scan of relocation i made  *)
  copied,    (* symbols defined in .bss for a copy relocation              *)
  place,     (* what the output holds at the place of relocation i         *)
  textRel,   (* m_bHasTextRel                                              *)
  phase,     (* "scan", "apply", "done"; "fatal"                           *)
  at,        (* the next relocation                                        *)
  errors,    (* what was reported: pairs <<diagnostic, relocation>>        *)
  seen       (* history: [plt, sym] of the symbol after the scan of i      *)

tables == <<reserved, got, dynrel, copied, textRel>>
vars == <<link, sym, reserved, got, dynrel, copied, place, textRel, phase, at,
          errors, seen>>

out == link.out
is64 == link.bits = 64
Rels == DOMAIN link.rels
Kind(i) == link.rels[i].kind
SymOf(i) == link.rels[i].sym
Writable(i) == link.rels[i].sect = "data"
Alloc(i) == link.rels[i].sect # "debug"

-----------------------------------------------------------------------------
\* Relocation::symValue: 0 for what the output does not define.
symValue(y) == IF Undef(sym[y]) \/ sym[y].dyn THEN Zero ELSE The("S")

\* The addend is at the place on x86-32 and in the relocation on x86-64.
Unrelocated == IF is64 THEN Zero ELSE The("A")

NoDynRel == [kind |-> "none", addend |-> Zero]
DynRel(k) == [kind |-> k, addend |-> Zero]
\* RelRelMap of x86-64
Recorded(i) == is64 /\ dynrel[i].kind \in {"RELATIVE", "own"}

Has(y, bit) == bit \in reserved[y]
Reserve(y, bits) == reserved' = [reserved EXCEPT ![y] = @ \cup bits]

TypeOK ==
  /\ link \in LinkType
  /\ sym \in [Symbols -> SymbolInfos]
  /\ reserved \in [Symbols -> SUBSET {"Rel", "GOT", "PLT"}]
  /\ got \in [Symbols -> Values]
  /\ dynrel \in [Rels -> [kind : {"none", "RELATIVE", "GLOB_DAT", "COPY", "own"},
                          addend : Values]]
  /\ copied \subseteq Symbols
  /\ place \in [Rels -> Values]
  /\ textRel \in BOOLEAN
  /\ phase \in {"scan", "apply", "done", "fatal"}
  /\ at \in 1..(Len(link.rels) + 1)
  /\ errors \subseteq {"undefined", "overflow", "badreloc"} \X Rels
  /\ seen \in [Rels -> [plt : BOOLEAN, sym : SymbolInfos]]

Init ==
  /\ link \in Links
  /\ sym = link.syms
  /\ reserved = [y \in Symbols |-> {}]
  /\ got = [y \in Symbols |-> Zero]
  /\ dynrel = [i \in Rels |-> NoDynRel]
  /\ copied = {}
  /\ place = [i \in Rels |-> Unrelocated]
  /\ textRel = FALSE
  /\ phase = "scan"
  /\ at = 1
  /\ errors = {}
  /\ seen = [i \in Rels |-> [plt |-> FALSE, sym |-> link.syms[SymOf(i)]]]

-----------------------------------------------------------------------------
(* Scanning *)

\* What scanRelocation does after the handler: report an undefined reference.
Scanned ==
  LET y == SymOf(at)
  IN  /\ seen' = [seen EXCEPT ![at] = [plt |-> "PLT" \in reserved'[y], sym |-> sym'[y]]]
      /\ errors' = IF UndefinedIsError(out, sym'[y])
                   THEN errors \cup {<<"undefined", at>>} ELSE errors
      /\ at' = at + 1
      /\ UNCHANGED <<link, place, phase>>

Scanning(kinds, local) ==
  /\ phase = "scan"
  /\ at \in Rels
  /\ Alloc(at)
  /\ Kind(at) \in kinds
  /\ (sym[SymOf(at)].bind = "Local") = local

\* checkAndSetHasTextRel
NoteTextRel == textRel' = (textRel \/ ~Writable(at))

\* A dynamic relocation of kind k on the place itself.
DynRelOnPlace(k) ==
  /\ dynrel' = [dynrel EXCEPT ![at] = DynRel(k)]
  /\ NoteTextRel
  /\ UNCHANGED <<sym, got, copied>>

\* Mutant: the relocation after it is skipped too.
ScanDebug_Skips ==
  /\ phase = "scan"
  /\ at \in Rels
  /\ ~Alloc(at)
  /\ at' = at + 2
  /\ UNCHANGED <<tables, link, sym, place, phase, errors, seen>>

\* scanRelocation returns at once when the target section is not allocated.
ScanDebug ==
  /\ phase = "scan"
  /\ at \in Rels
  /\ ~Alloc(at)
  /\ at' = at + 1
  /\ UNCHANGED <<tables, link, sym, place, phase, errors, seen>>

ScanNothing ==
  /\ \/ Scanning({"rel", "gotoff"}, TRUE)
     \/ Scanning({"gotoff"}, FALSE)
     \/ Scanning({"plt"}, TRUE) /\ ~is64
  /\ UNCHANGED <<tables, sym>>
  /\ Scanned

\* x86-64 has no case for PLT32 against a local symbol.
ScanUnsupported ==
  /\ is64
  /\ Scanning({"plt"}, TRUE)
  /\ phase' = "fatal"
  /\ UNCHANGED <<tables, link, sym, place, at, errors, seen>>

ScanLocalAbs ==
  /\ Scanning({"abs", "narrow", "signed"}, TRUE)
  /\ IF isCodeIndep(out)
     THEN /\ DynRelOnPlace(IF Kind(at) = "abs" THEN "RELATIVE" ELSE "own")
          /\ Reserve(SymOf(at), {"Rel"})
     ELSE UNCHANGED <<tables, sym>>
  /\ Scanned

\* helper_GOT_init
GOT_init(y, hasRel) ==
  LET relative == helper_use_relative_reloc(out, sym[y])
  IN  /\ Reserve(y, {"GOT"})
      /\ got' = [got EXCEPT ![y] = IF hasRel /\ (is64 \/ ~relative)
                                   THEN Zero ELSE SymVal]
      /\ dynrel' = [dynrel EXCEPT ![at] =
                      IF ~hasRel THEN NoDynRel
                      ELSE IF ~relative THEN DynRel("GLOB_DAT")
                      ELSE [kind |-> "RELATIVE",
                            addend |-> IF is64 THEN SymVal ELSE Zero]]
      /\ UNCHANGED <<sym, copied, textRel>>

\* Mutant: a local symbol gets an entry in position-independent code only.
ScanGot_Independent ==
  LET y == SymOf(at)
  IN  /\ \E local \in BOOLEAN : Scanning({"got"}, local)
      /\ IF Has(y, "GOT") \/ (sym[y].bind = "Local" /\ ~isCodeIndep(out))
         THEN UNCHANGED <<tables, sym>>
         ELSE GOT_init(y, ~symbolFinalValueIsKnown(out, sym[y]))
      /\ Scanned

ScanGot ==
  LET y == SymOf(at)
  IN  /\ \E local \in BOOLEAN : Scanning({"got"}, local)
      /\ IF Has(y, "GOT") THEN UNCHANGED <<tables, sym>>
         ELSE GOT_init(y, IF sym[y].bind = "Local" THEN isCodeIndep(out)
                          ELSE ~symbolFinalValueIsKnown(out, sym[y]))
      /\ Scanned

ScanGlobalPlt ==
  LET y == SymOf(at)
  IN  /\ Scanning({"plt"}, FALSE)
      /\ IF \/ Has(y, "PLT")
            \/ symbolFinalValueIsKnown(out, sym[y])
            \/ helper_use_relative_reloc(out, sym[y])
         THEN UNCHANGED reserved ELSE Reserve(y, {"PLT"})
      /\ UNCHANGED <<sym, got, dynrel, copied, textRel>>
      /\ Scanned

\* Mutant: the aliases are left alone.
CopyReloc_NoAlias(y) ==
  /\ sym' = [sym EXCEPT ![y].desc = "Define", ![y].dyn = FALSE, ![y].bind = "Global"]
  /\ copied' = copied \cup {y}
  /\ dynrel' = [dynrel EXCEPT ![at] = DynRel("COPY")]
  /\ UNCHANGED <<got, textRel>>

\* defineSymbolforCopyReloc and addCopyReloc: y and its dynamic aliases become
\* symbols of this output, with the binding of y.
CopyReloc(y) ==
  LET bind == IF sym[y].bind = "Weak" THEN "Global" ELSE sym[y].bind
      defined == {y} \cup {z \in link.aliases : y \in link.aliases /\ sym[z].dyn}
  IN  /\ sym' = [z \in Symbols |->
                   IF z \notin defined THEN sym[z]
                   ELSE [sym[z] EXCEPT !.desc = "Define", !.dyn = FALSE, !.bind = bind]]
      /\ copied' = copied \cup defined
      /\ dynrel' = [dynrel EXCEPT ![at] = DynRel("COPY")]
      /\ UNCHANGED <<got, textRel>>

\* The common part of the absolute and the PC-relative cases: an entry of the
\* PLT, then a copy relocation, a dynamic relocation on the place, or neither.
ReserveFor(y, entry, needsDynRel, k) ==
  \/ /\ needsDynRel
     /\ symbolNeedsCopyReloc(out, sym[y], Writable(at))
     /\ Reserve(y, entry)
     /\ CopyReloc(y)
  \/ /\ needsDynRel
     /\ ~symbolNeedsCopyReloc(out, sym[y], Writable(at))
     /\ Reserve(y, entry \cup {"Rel"})
     /\ DynRelOnPlace(k)
  \/ /\ ~needsDynRel
     /\ Reserve(y, entry)
     /\ UNCHANGED <<sym, got, dynrel, copied, textRel>>

ScanGlobalAbs ==
  LET y == SymOf(at)
      entry == IF symbolNeedsPLT(out, sym[y]) THEN {"PLT"} ELSE {}
      hasPLT == "PLT" \in reserved[y] \cup entry
  IN  /\ Scanning({"abs", "narrow", "signed"}, FALSE)
      /\ ReserveFor(y, entry, symbolNeedsDynRel(out, sym[y], hasPLT, TRUE),
                    IF Kind(at) = "abs" /\ helper_use_relative_reloc(out, sym[y])
                    THEN "RELATIVE" ELSE "own")
      /\ Scanned

\* On x86-64 a copy relocation is the only one a PC-relative place can have.
ScanGlobalRel ==
  LET y == SymOf(at)
      entry == IF symbolNeedsPLT(out, sym[y]) /\ out.codeGen # "DynObj"
               THEN {"PLT"} ELSE {}
      hasPLT == "PLT" \in reserved[y] \cup entry
      needsDynRel ==
        /\ symbolNeedsDynRel(out, sym[y], hasPLT, FALSE)
        /\ is64 => /\ isDynamicSymbol(out, sym[y])
                   /\ symbolNeedsCopyReloc(out, sym[y], Writable(at))
  IN  /\ Scanning({"rel"}, FALSE)
      /\ ReserveFor(y, entry, needsDynRel, "own")
      /\ Scanned

\* Layout comes between the phases and leaves what is modelled here alone.
EndScan ==
  /\ phase = "scan"
  /\ at \notin Rels
  /\ phase' = "apply"
  /\ at' = 1
  /\ UNCHANGED <<tables, link, sym, place, errors, seen>>

-----------------------------------------------------------------------------
(* Applying *)

Applying(kinds) ==
  /\ phase = "apply"
  /\ at \in Rels
  /\ Kind(at) \in kinds

Applied == at' = at + 1 /\ UNCHANGED <<link, sym, reserved, copied, textRel, phase, seen>>

Report(diagnostic) ==
  errors' = errors \cup {<<diagnostic, at>>} /\ UNCHANGED <<place, got, dynrel>>

Write(v) == place' = [place EXCEPT ![at] = v]

\* S: the symbol, or its PLT entry when an external symbol has one.
Target(y) ==
  IF sym[y].bind # "Local" /\ Has(y, "PLT") THEN The("PLT") ELSE symValue(y)

SetAddend(v) == dynrel' = [dynrel EXCEPT ![at].addend = v]

ApplyDebug ==
  /\ Applying({"abs", "narrow", "signed", "rel"})
  /\ ~Alloc(at)
  /\ LET v == symValue(SymOf(at)) ++ The("A")
     IN  Write(IF Kind(at) = "rel" THEN v -- The("P") ELSE v)
  /\ UNCHANGED <<got, dynrel, errors>>
  /\ Applied

\* x86-32 decides again whether the place has a dynamic relocation.
ApplyAbs32 ==
  LET y == SymOf(at)
  IN  /\ ~is64
      /\ Applying({"abs", "narrow"})
      /\ Alloc(at)
      /\ IF /\ sym[y].bind # "Local"
            /\ symbolNeedsDynRel(out, sym[y], Has(y, "PLT"), TRUE)
            /\ Kind(at) = "abs" => ~helper_use_relative_reloc(out, sym[y])
         THEN UNCHANGED place
         ELSE Write(Target(y) ++ The("A"))
      /\ UNCHANGED <<got, dynrel, errors>>
      /\ Applied

\* x86-64 knows from RelRelMap that there is one, and asks again which.
ApplyAbs64 ==
  LET y == SymOf(at)
      relative == Kind(at) = "abs" /\ helper_use_relative_reloc(out, sym[y])
      v == Target(y) ++ The("A")
  IN  /\ is64
      /\ Applying({"abs", "narrow"})
      /\ Alloc(at)
      /\ \/ ~Recorded(at) /\ Write(v) /\ UNCHANGED dynrel
         \/ /\ Recorded(at)
            /\ sym[y].bind = "Local"
            /\ SetAddend(v) /\ UNCHANGED place
         \/ /\ Recorded(at)
            /\ sym[y].bind # "Local"
            /\ IF relative THEN SetAddend(v) /\ Write(v)
               ELSE SetAddend(The("A")) /\ UNCHANGED place
      /\ UNCHANGED <<got, errors>>
      /\ Applied

ApplySigned ==
  /\ Applying({"signed"})
  /\ Alloc(at)
  /\ IF Recorded(at) THEN Report("badreloc")
     ELSE /\ Write(Target(SymOf(at)) ++ The("A"))
          /\ UNCHANGED <<got, dynrel, errors>>
  /\ Applied

\* With an entry of the PLT the place is written before the question.
ApplyRel32 ==
  LET y == SymOf(at)
  IN  /\ ~is64
      /\ Applying({"rel"})
      /\ Alloc(at)
      /\ IF /\ sym[y].bind # "Local"
            /\ symbolNeedsDynRel(out, sym[y], Has(y, "PLT"), TRUE)
            /\ ~helper_use_relative_reloc(out, sym[y])
            /\ ~Has(y, "PLT")
         THEN UNCHANGED place
         ELSE Write((Target(y) ++ The("A")) -- The("P"))
      /\ UNCHANGED <<got, dynrel, errors>>
      /\ Applied

ApplyRel64 ==
  LET y == SymOf(at)
  IN  /\ is64
      /\ Applying({"rel"})
      /\ Alloc(at)
      /\ IF /\ sym[y].bind # "Local"
            /\ symbolNeedsDynRel(out, sym[y], Has(y, "PLT"), FALSE)
         THEN Report("overflow")
         ELSE /\ Write((Target(y) ++ The("A")) -- The("P"))
              /\ UNCHANGED <<got, dynrel, errors>>
      /\ Applied

ApplyPlt ==
  LET y == SymOf(at)
  IN  /\ Applying({"plt"})
      /\ Write(((IF Has(y, "PLT") THEN The("PLT") ELSE symValue(y)) ++ The("A")) -- The("P"))
      /\ UNCHANGED <<got, dynrel, errors>>
      /\ Applied

\* The first application fills what the scan left open: the entry, or the
\* addend of the relocation on it.
ApplyGot ==
  LET y == SymOf(at)
      entry == The("GOT") ++ The("A")
  IN  /\ Applying({"got"})
      /\ IF ~Has(y, "GOT") THEN Report("badreloc")
         ELSE /\ got' = [got EXCEPT ![y] = IF @ = SymVal THEN symValue(y) ELSE @]
              /\ IF Recorded(at) /\ dynrel[at].addend = SymVal
                 THEN SetAddend(symValue(y)) ELSE UNCHANGED dynrel
              /\ Write(entry -- (IF is64 THEN The("P") ELSE The("ORG")))
              /\ UNCHANGED errors
      /\ Applied

ApplyGotoff ==
  /\ Applying({"gotoff"})
  /\ Write((symValue(SymOf(at)) ++ The("A")) -- The("ORG"))
  /\ UNCHANGED <<got, dynrel, errors>>
  /\ Applied

EndApply ==
  /\ phase = "apply"
  /\ at \notin Rels
  /\ phase' = "done"
  /\ UNCHANGED <<tables, link, sym, place, at, errors, seen>>

Scan ==
  \/ ScanDebug \/ ScanNothing \/ ScanUnsupported \/ ScanLocalAbs
  \/ ScanGot \/ ScanGlobalPlt \/ ScanGlobalAbs \/ ScanGlobalRel \/ EndScan

Apply ==
  \/ ApplyDebug \/ ApplyAbs32 \/ ApplyAbs64 \/ ApplySigned \/ ApplyRel32
  \/ ApplyRel64 \/ ApplyPlt \/ ApplyGot \/ ApplyGotoff \/ EndApply

Next == Scan \/ Apply

Spec == Init /\ [][Next]_vars

-----------------------------------------------------------------------------
(* Loading *)

LoadBase == IF isCodeIndep(out) THEN The("Base") ELSE Zero

\* The address the dynamic linker finds for the name of y: the definition of
\* this output unless another link unit may come first.
FoundFor(y) == IF Foreign(out, sym[y]) THEN The("Found") ELSE The("S") ++ LoadBase

\* What a reference to y may mean at run time.  An undefined symbol of an
\* executable is 0, unless the dynamic linker looks it up and finds it.
Denotes(y) ==
  {FoundFor(y)} \cup
  (IF Undef(sym[y]) /\ ~sym[y].dyn /\ isExecutable(out) THEN {Zero} ELSE {})

\* A function may be reached through its entry of the PLT, and so may a symbol
\* without a type that is called and defined nowhere.
Reaches(y) ==
  Denotes(y) \cup
  (IF Has(y, "PLT") /\ (sym[y].type = "Function" \/ Undef(sym[y]))
   THEN {The("PLT") ++ LoadBase} ELSE {})

\* A value on which the dynamic linker performs r, a relocation for y.
Load(stored, r, y) ==
  CASE r.kind = "RELATIVE" -> (IF is64 THEN r.addend ELSE stored) ++ LoadBase
    [] r.kind = "own" -> (IF is64 THEN r.addend ELSE stored) ++ FoundFor(y)
    [] r.kind = "GLOB_DAT" -> FoundFor(y)
    [] OTHER -> stored

\* What the place of i is relative to.
Origin(i) ==
  CASE Kind(i) \in {"rel", "plt"} -> The("P") ++ LoadBase
    [] Kind(i) = "gotoff" -> The("ORG") ++ LoadBase
    [] OTHER -> Zero

PlaceAtRunTime(i) ==
  LET v == Load(place[i], dynrel[i], SymOf(i))
  IN  IF Kind(i) = "rel" /\ dynrel[i].kind = "own" THEN v -- Origin(i) ELSE v

\* The relocation whose scan made the GOT entry of y.
Creator(y) ==
  CHOOSE i \in Rels :
    /\ SymOf(i) = y /\ Kind(i) = "got" /\ Alloc(i)
    /\ \A j \in 1..(i - 1) : ~(SymOf(j) = y /\ Kind(j) = "got" /\ Alloc(j))

EntryAtRunTime(y) == Load(got[y], dynrel[Creator(y)], y)

-----------------------------------------------------------------------------
Linked == phase = "done" /\ errors = {}

\* The symbol of relocation i has not changed since its scan: neither got its
\* first PLT entry nor was replaced by a copy.
Settled(i) == seen[i] = [plt |-> Has(SymOf(i), "PLT"), sym |-> sym[SymOf(i)]]

Relocated(i) ==
  \E a \in Reaches(SymOf(i)) :
    PlaceAtRunTime(i) = (a ++ The("A")) -- Origin(i)

(* At run time the place of every loaded relocation holds its addend plus  *)
(* the address its symbol stands for, less the place itself when it is     *)
(* PC-relative: what the static relocation wrote and what the dynamic      *)
(* linker adds count the symbol, the addend and the base exactly once.     *)
(* The scan decides the one half and the apply, from the symbol as it is   *)
(* then, the other.                                                        *)
PlacesRelocated ==
  Linked => \A i \in Rels :
              Alloc(i) /\ Kind(i) # "got" /\ Settled(i) => Relocated(i)

(* The same for a relocation whose symbol has changed since its scan: "If  *)
(* we generate a dynamic relocation (except R_386_RELATIVE) for a place,   *)
(* we should not perform static relocation on it in order to keep the      *)
(* addend store in the place correct."                                     *)
ChangedPlacesRelocated ==
  Linked => \A i \in Rels :
              Alloc(i) /\ Kind(i) # "got" /\ ~Settled(i) => Relocated(i)

(* At run time the GOT entry of a symbol holds the address of the symbol,  *)
(* also when it was made before a copy relocation moved the symbol, and    *)
(* whichever of the relocations that share it made it.                     *)
GotHoldsSymbol ==
  Linked => \A y \in Symbols :
              Has(y, "GOT") => EntryAtRunTime(y) \in Denotes(y)

(* What scanning reserves and applying writes add up at run time.          *)
RuntimeAddresses ==
  /\ PlacesRelocated
  /\ GotHoldsSymbol

(* Apply finds the entry it needs: what applies to a GOT entry has been    *)
(* scanned before, so the only relocations reported as bad are those of a  *)
(* section that is not allocated and the 32S that need a dynamic one.      *)
EntriesFound ==
  \A e \in errors : e[1] = "badreloc" => Kind(e[2]) = "signed" \/ ~Alloc(e[2])

(* A variable of a shared object is copied into the output at most once,   *)
(* under whichever of its names it is referred to: two copies would be two *)
(* variables.                                                              *)
CopiedOnce ==
  \A i, j \in Rels :
    i # j /\ dynrel[i].kind = "COPY" /\ dynrel[j].kind = "COPY" =>
      /\ SymOf(i) # SymOf(j)
      /\ ~({SymOf(i), SymOf(j)} \subseteq link.aliases)

(* "static linkage should not result in a dynamic relocation section", the *)
(* assertion of X86GNULDBackend::doPreLayout on .rel.dyn and .rel.plt.     *)
StaticStaysStatic ==
  isCodeStatic(out) =>
    /\ \A i \in Rels : dynrel[i].kind = "none"
    /\ \A y \in Symbols : ~Has(y, "PLT")

-----------------------------------------------------------------------------
(* What the places hold has a meaning for the links of the programs that   *)
(* the targets support: no indirect function, no absolute symbol in a      *)
(* position-independent output; a call is of a function or of something    *)
(* undefined in an executable, an offset from the GOT is to a symbol of    *)
(* the output, and a dynamic relocation less than a word wide names a      *)
(* symbol of .dynsym.                                                      *)
Ordinary(l) ==
  /\ \A y \in Symbols :
       /\ l.syms[y].type # "IndirectFunc"
       /\ l.syms[y].bind = "Local" => ~Undef(l.syms[y]) /\ ~l.syms[y].dyn
       /\ l.syms[y].bind = "Absolute" => ~isCodeIndep(l.out)
  /\ \A i \in DOMAIN l.rels :
       LET r == l.rels[i]
           y == l.syms[r.sym]
       IN  /\ r.kind = "plt" =>
                y.type = "Function" \/ (Undef(y) /\ ~y.dyn /\ isExecutable(l.out))
           /\ r.kind = "signed" => l.bits = 64
           /\ r.kind = "gotoff" => ~Foreign(l.out, y)
           /\ r.kind \in {"narrow", "signed"} /\ r.sect # "debug" /\ isCodeIndep(l.out) =>
                isDynamicSymbol(l.out, y)

AllOrdinary == \A l \in Links : Ordinary(l)

=============================================================================
