----------------------------- MODULE ARMRelocator -----------------------------
(* Relocations of ARM (32 bits) and AArch64 (64): the scan reserves entries   *)
(* of .got and .plt, dynamic and copy relocations; relaxation sends branches  *)
(* through stubs; the apply writes the places and after them those of the     *)
(* stubs.  ARM and Thumb code call each other: a branch that changes between  *)
(* them is rewritten to BLX, or goes through a stub that changes.             *)
(*                                                                            *)
(* The end of the module is the dynamic linker: what a place, a GOT entry and *)
(* a branch come to when the program runs.                                    *)
EXTENDS DynamicLinkage, AddressSums, Sequences

CONSTANTS Symbols, Links

(* The kinds of relocation:  R_ARM_                        R_AARCH64_         *)
(*   abs              ABS32, TARGET1                       ABS64              *)
(*   narrow           ABS16, ABS12, ABS8, THM_ABS5         ABS32, ABS16       *)
(*   mov              (THM_)MOVW_ABS_NC, (THM_)MOVT_ABS                       *)
(*   rel              REL32                                PREL64, 32 and 16  *)
(*   movrel           (THM_)MOVW_PREL_NC, (THM_)MOVT_PREL                     *)
(*   page                                                  ADR_PREL_PG_HI21   *)
(*   lo12                                                  ADD_ABS_LO12_NC,   *)
(*                                                         LDST8_ABS_LO12_NC  *)
(*   gotoff, gotbrel  GOTOFF32, GOT_BREL                                      *)
(*   got              GOT_PREL, TARGET2                    ADR_GOT_PAGE,      *)
(*                                                         LD64_GOT_LO12_NC   *)
(*   prel31           PREL31                                                  *)
(*   call             CALL                                 CALL26, JUMP26     *)
(*   cond                                                  CONDBR19           *)
(*   jump             JUMP24, PC24                                            *)
(*   thm_call, thm_jump, thm_cond   THM_CALL, THM_JUMP24, THM_JUMP19          *)
(* A value of which a place holds one half or the low bits is in full here.   *)
(* The addend of a branch is the bias of the program counter, 0 on AArch64.   *)
Relaxable == {"call", "jump", "thm_call", "thm_jump"}
Branches == Relaxable \cup {"cond", "thm_cond"}
Got == {"got", "gotbrel"}
Kinds == {"abs", "narrow", "mov", "rel", "movrel", "page", "lo12", "gotoff", "prel31"}
         \cup Got \cup Branches
Relocations == [sym : Symbols, kind : Kinds, sect : {"data", "text", "debug"}]

LinkType ==
    [bits : {32, 64}, out : Outputs, rels : Seq(Relocations),
     syms : [Symbols -> SymbolInfos],    \* after resolution
     thumb : SUBSET Symbols]             \* the functions in Thumb code

ASSUME ARMLinkAssumption == Links \subseteq LinkType

VARIABLES
    link, phase, at,   \* phase: "scan", "relax", "apply", "stubs", "done"; "fatal"
    sym, reserved,     \* the ResolveInfo and the Reserve bits of each symbol
    got,               \* the value of the GOT entry of each symbol
    dynrel,            \* the dynamic relocation that the scan of relocation i made
    stub,              \* the stub that relaxation gave to branch i
    place, instr,      \* what is at the place of relocation i, and its opcode
    veneer,            \* what is at the places of the stub's fixups
    textRel, errors,   \* m_bHasTextRel; pairs <<diagnostic, relocation>>
    seen               \* history: [plt, sym] of the symbol after the scan of i

tables == <<sym, reserved, got, dynrel, textRel>>
image == <<place, instr, veneer>>
vars == <<link, phase, at, tables, stub, image, errors, seen>>

out == link.out
is64 == link.bits = 64
Rels == DOMAIN link.rels
Kind(i) == link.rels[i].kind
SymOf(i) == link.rels[i].sym
Writable(i) == link.rels[i].sect = "data"
Alloc(i) == link.rels[i].sect # "debug"
Has(y, bit) == bit \in reserved[y]

\* LDSymbol::value: 0 for what the output does not define.
Defined(y) == ~Undef(sym[y]) /\ ~sym[y].dyn
symValue(y) == IF Defined(y) THEN The("S") ELSE Zero

\* The addend is at the place on ARM and in the relocation on AArch64.
Unrelocated == IF is64 THEN Zero ELSE The("A")

DynRel(k) == [kind |-> k, addend |-> Zero]

\* Mutant: AArch64 writes the addend of RELATIVE relocations only.
Recorded_Relative(i) == is64 /\ dynrel[i].kind = "RELATIVE"

\* RelRelMap of AArch64
Recorded(i) == is64 /\ dynrel[i].kind \in {"RELATIVE", "own"}

TypeOK ==
    /\ link \in LinkType
    /\ phase \in {"scan", "relax", "apply", "stubs", "done", "fatal"}
    /\ at \in 1..(Len(link.rels) + 1)
    /\ sym \in [Symbols -> SymbolInfos]
    /\ reserved \in [Symbols -> SUBSET {"Rel", "GOT", "PLT"}]
    /\ got \in [Symbols -> Values]
    /\ dynrel \in [Rels -> [kind : {"none", "RELATIVE", "GLOB_DAT", "COPY", "own"}, addend : Values]]
    /\ stub \in [Rels -> {"none", "literal", "adrp"}]
    /\ place \in [Rels -> Values]
    /\ instr \in [Rels -> {"as is", "BL", "BLX", "NOP"}]
    /\ veneer \in [Rels -> Seq(Values)]
    /\ textRel \in BOOLEAN
    /\ errors \subseteq {"undefined", "nonpic", "badreloc", "unsupported"} \X Rels
    /\ seen \in [Rels -> [plt : BOOLEAN, sym : SymbolInfos]]

Init ==
    /\ link \in Links
    /\ phase = "scan" /\ at = 1
    /\ sym = link.syms
    /\ reserved = [y \in Symbols |-> {}]
    /\ got = [y \in Symbols |-> Zero]
    /\ dynrel = [i \in Rels |-> DynRel("none")]
    /\ stub = [i \in Rels |-> "none"]
    /\ place = [i \in Rels |-> Unrelocated]
    /\ instr = [i \in Rels |-> "as is"]
    /\ veneer = [i \in Rels |-> <<>>]
    /\ textRel = FALSE /\ errors = {}
    /\ seen = [i \in Rels |-> [plt |-> FALSE, sym |-> link.syms[SymOf(i)]]]
-----------------------------------------------------------------------------
(* Scanning, in the order of the inputs.                                     *)
Scanning(kinds, local) ==
    /\ phase = "scan" /\ at \in Rels
    /\ Alloc(at)
    /\ Kind(at) \in kinds
    /\ (sym[SymOf(at)].bind = "Local") = local

\* What the handler reports, and the undefined reference scanRelocation reports.
Scanned(reports) ==
    LET y == SymOf(at)
        undefined == IF UndefinedIsError(out, sym'[y]) THEN {"undefined"} ELSE {}
    IN  /\ seen' = [seen EXCEPT ![at] = [plt |-> "PLT" \in reserved'[y], sym |-> sym'[y]]]
        /\ errors' = errors \cup {<<d, at>> : d \in reports \cup undefined}
        /\ at' = at + 1
        /\ UNCHANGED <<link, phase, stub, image>>

Reserve(y, bits) == reserved' = [reserved EXCEPT ![y] = @ \cup bits]
DynRelOnPlace(k) ==
    /\ dynrel' = [dynrel EXCEPT ![at] = DynRel(k)]
    /\ textRel' = (textRel \/ ~Writable(at))
    /\ UNCHANGED <<sym, got>>

ScanDebug ==
    /\ phase = "scan" /\ at \in Rels
    /\ ~Alloc(at)
    /\ at' = at + 1
    /\ UNCHANGED <<tables, link, phase, stub, image, errors, seen>>

ScanNothing ==
    /\ \/ Scanning(Kinds \ ({"abs", "narrow", "mov"} \cup Got), TRUE)
       \/ Scanning({"gotoff", "lo12"}, FALSE)
    /\ UNCHANGED tables
    /\ Scanned({})

\* Position-independent code of ARM has no narrow or split absolute values.
ScanLocalAbs ==
    LET has == isCodeIndep(out) /\ (is64 \/ Kind(at) = "abs")
    IN  /\ Scanning({"abs", "narrow", "mov"}, TRUE)
        /\ IF has THEN /\ DynRelOnPlace(IF Kind(at) = "abs" THEN "RELATIVE" ELSE "own")
                       /\ Reserve(SymOf(at), {"Rel"})
           ELSE UNCHANGED tables
        /\ Scanned(IF isCodeIndep(out) /\ ~has THEN {"nonpic"} ELSE {})

\* Mutant: the entry of a RELATIVE relocation is left empty, as for GLOB_DAT.
GOT_init_Zero(y, hasRel) ==
    LET relative == helper_use_relative_reloc(out, sym[y])
    IN  /\ Reserve(y, {"GOT"})
        /\ got' = [got EXCEPT ![y] = IF hasRel THEN Zero ELSE SymVal]
        /\ dynrel' = [dynrel EXCEPT ![at] =
               IF ~hasRel THEN DynRel("none")
               ELSE IF ~relative THEN DynRel("GLOB_DAT")
               ELSE [kind |-> "RELATIVE", addend |-> IF is64 THEN SymVal ELSE Zero]]
        /\ UNCHANGED <<sym, textRel>>

GOT_init(y, hasRel) ==
    LET relative == helper_use_relative_reloc(out, sym[y])
    IN  /\ Reserve(y, {"GOT"})
        /\ got' = [got EXCEPT ![y] = IF hasRel /\ ~relative THEN Zero ELSE SymVal]
        /\ dynrel' = [dynrel EXCEPT ![at] =
               IF ~hasRel THEN DynRel("none")
               ELSE IF ~relative THEN DynRel("GLOB_DAT")
               ELSE [kind |-> "RELATIVE", addend |-> IF is64 THEN SymVal ELSE Zero]]
        /\ UNCHANGED <<sym, textRel>>

ScanGot ==
    LET y == SymOf(at)
    IN  /\ \E local \in BOOLEAN : Scanning(Got, local)
        /\ IF Has(y, "GOT") THEN UNCHANGED tables
           ELSE GOT_init(y, IF sym[y].bind = "Local" THEN isCodeIndep(out)
                            ELSE ~symbolFinalValueIsKnown(out, sym[y]))
        /\ Scanned({})

\* Other names of the variable of a shared object are not looked for.
CopyReloc(y) ==
    /\ sym' = [sym EXCEPT ![y].desc = "Define", ![y].dyn = FALSE,
                          ![y].bind = IF @ = "Weak" THEN "Global" ELSE @]
    /\ dynrel' = [dynrel EXCEPT ![at] = DynRel("COPY")]
    /\ UNCHANGED <<got, textRel>>

\* An entry of the PLT, and a copy, a dynamic relocation on the place, or neither.
ReserveFor(y, entry, needsDynRel, k) ==
    LET copy == symbolNeedsCopyReloc(out, sym[y], Writable(at))
    IN  \/ /\ needsDynRel /\ copy
           /\ Reserve(y, entry) /\ CopyReloc(y)
        \/ /\ needsDynRel /\ ~copy
           /\ Reserve(y, entry \cup {"Rel"}) /\ DynRelOnPlace(k)
        \/ /\ ~needsDynRel
           /\ Reserve(y, entry) /\ UNCHANGED <<sym, got, dynrel, textRel>>

\* checkValidReloc
NotPic == ~is64 /\ isCodeIndep(out) /\ Kind(at) # "abs" /\ dynrel'[at].kind # "none"
CheckValid == IF NotPic THEN {"nonpic"} ELSE {}

ScanGlobalAbs ==
    LET y == SymOf(at)
        entry == IF symbolNeedsPLT(out, sym[y]) THEN {"PLT"} ELSE {}
        hasPLT == "PLT" \in reserved[y] \cup entry
        relative == helper_use_relative_reloc(out, sym[y]) /\ (is64 => Kind(at) = "abs")
    IN  /\ Scanning({"abs", "narrow", "mov"}, FALSE)
        /\ ReserveFor(y, entry, symbolNeedsDynRel(out, sym[y], hasPLT, TRUE),
                      IF relative THEN "RELATIVE" ELSE "own")
        /\ Scanned(CheckValid)

\* On AArch64 a place relative to itself gets no dynamic relocation but a copy.
ScanGlobalRel ==
    LET y == SymOf(at)
        entry == IF is64 /\ symbolNeedsPLT(out, sym[y]) /\ out.codeGen # "DynObj"
                 THEN {"PLT"} ELSE {}
        hasPLT == "PLT" \in reserved[y] \cup entry
        needsDynRel ==
            /\ symbolNeedsDynRel(out, sym[y], hasPLT, FALSE)
            /\ is64 => /\ isDynamicSymbol(out, sym[y])
                       /\ symbolNeedsCopyReloc(out, sym[y], Writable(at))
    IN  /\ Scanning({"rel", "movrel"}, FALSE)
        /\ ReserveFor(y, entry, needsDynRel, "own")
        /\ Scanned(CheckValid)

ScanGlobalPage ==
    LET y == SymOf(at)
    IN  /\ Scanning({"page"}, FALSE)
        /\ IF /\ symbolNeedsDynRel(out, sym[y], Has(y, "PLT"), FALSE)
              /\ symbolNeedsCopyReloc(out, sym[y], Writable(at))
           THEN CopyReloc(y) ELSE UNCHANGED <<sym, got, dynrel, textRel>>
        /\ Reserve(y, IF symbolNeedsPLT(out, sym'[y]) THEN {"PLT"} ELSE {})
        /\ Scanned({})

ScanGlobalBranch ==
    LET y == SymOf(at)
    IN  /\ Scanning(Branches \cup {"prel31"}, FALSE)
        /\ IF \/ symbolFinalValueIsKnown(out, sym[y])
              \/ helper_use_relative_reloc(out, sym[y])
           THEN UNCHANGED reserved ELSE Reserve(y, {"PLT"})
        /\ UNCHANGED <<sym, got, dynrel, textRel>>
        /\ Scanned({})

EndScan ==
    /\ phase = "scan" /\ at \notin Rels
    /\ phase' = "relax" /\ at' = 1
    /\ UNCHANGED <<tables, link, stub, image, errors, seen>>
-----------------------------------------------------------------------------
(* Relaxation: the branches of doRelax.  How far a target is and on which    *)
(* island the stub lies is the subject of BranchIslands; here any target may *)
(* be too far.                                                               *)
ThumbCode(i) == Kind(i) \in {"thm_call", "thm_jump", "thm_cond"}

\* The state in which the symbol is entered: an entry of the PLT is ARM code.
Thumb(y) == /\ y \in link.thumb /\ sym[y].type = "Function"
            /\ Defined(y) /\ ~Has(y, "PLT")

\* Mutant: ARMToTHMStub is for far targets only.
ChangesState_Far(i) == Kind(i) = "thm_jump" /\ ~Thumb(SymOf(i))

\* isMyDuty of ARMToTHMStub and THMToARMStub: a jump cannot become BLX.
ChangesState(i) ==
    \/ Kind(i) = "jump" /\ Thumb(SymOf(i))
    \/ Kind(i) = "thm_jump" /\ ~Thumb(SymOf(i))

Relaxing == phase = "relax" /\ at \in Rels
\* Mutant: the stub that was inserted is passed over as if it were a branch.
Relaxed_Twice == at' = at + 2 /\ UNCHANGED <<tables, link, image, errors, seen>>

Relaxed == at' = at + 1 /\ UNCHANGED <<tables, link, image, errors, seen>>

KeepBranch ==
    /\ Relaxing
    /\ ~(Kind(at) \in Relaxable /\ ChangesState(at))
    /\ UNCHANGED <<phase, stub>>
    /\ Relaxed

\* AArch64LongBranchStub::applyFixup looks for the target's fragment.
Redirect ==
    /\ Relaxing
    /\ Kind(at) \in Relaxable
    /\ is64 => Defined(SymOf(at))
    /\ \E k \in {"literal"} \cup (IF is64 THEN {"adrp"} ELSE {}) :
           stub' = [stub EXCEPT ![at] = k]
    /\ UNCHANGED phase
    /\ Relaxed

RedirectFails ==
    /\ Relaxing
    /\ is64 /\ Kind(at) \in Relaxable
    /\ ~Defined(SymOf(at))
    /\ phase' = "fatal"
    /\ UNCHANGED <<tables, link, at, stub, image, errors, seen>>

EndRelax ==
    /\ phase = "relax" /\ at \notin Rels
    /\ phase' = "apply" /\ at' = 1
    /\ UNCHANGED <<tables, link, stub, image, errors, seen>>
-----------------------------------------------------------------------------
(* Applying.                                                                 *)
Applying(kinds) == phase = "apply" /\ at \in Rels /\ Kind(at) \in kinds

Applied == /\ at' = at + 1
           /\ UNCHANGED <<link, phase, sym, reserved, textRel, stub, veneer, seen>>
Write(v) == place' = [place EXCEPT ![at] = v]
Written(v) == Write(v) /\ UNCHANGED <<instr, got, dynrel, errors>>
Report(d) == errors' = errors \cup {<<d, at>>} /\ UNCHANGED <<place, instr, got, dynrel>>
SetAddend(v) == dynrel' = [dynrel EXCEPT ![at].addend = v]

\* Mutant: the entry of the PLT is asked for, whoever the symbol belongs to.
Target_Value(y) == symValue(y)

\* S: the symbol, or its entry of the PLT.
Target(y) == IF Has(y, "PLT") THEN The("PLT") ELSE symValue(y)

ApplyDebug ==
    /\ Applying(IF is64 THEN {"abs", "narrow", "rel"} ELSE {"abs", "mov"})
    /\ ~Alloc(at)
    /\ LET v == symValue(SymOf(at)) ++ The("A")
       IN  Written(IF Kind(at) = "rel" THEN v -- The("P") ELSE v)
    /\ Applied

ApplyUnsupported ==
    /\ ~is64 /\ Applying({"narrow"})
    /\ Report("unsupported")
    /\ Applied

\* A place is taken to have a dynamic relocation when its symbol has one.
Skipped(y) ==
    sym[y].bind # "Local" /\ Has(y, "Rel") /\ ~helper_use_relative_reloc(out, sym[y])

ApplyAbs32 ==
    LET y == SymOf(at)
    IN  /\ ~is64 /\ Applying({"abs"}) /\ Alloc(at)
        /\ Written(IF Skipped(y) THEN place[at] ELSE Target(y) ++ The("A"))
        /\ Applied

ApplyMov ==
    /\ ~is64 /\ Applying({"mov"}) /\ Alloc(at)
    /\ Written(Target(SymOf(at)) ++ The("A"))
    /\ Applied

\* AArch64 asks the dynamic relocation of the place itself.
ApplyAbs64 ==
    LET v == Target(SymOf(at)) ++ The("A")
        own == sym[SymOf(at)].bind # "Local" /\ dynrel[at].kind = "own"
    IN  /\ is64 /\ Applying({"abs", "narrow"}) /\ Alloc(at)
        /\ IF Recorded(at) THEN SetAddend(IF own THEN The("A") ELSE v) ELSE UNCHANGED dynrel
        /\ IF Recorded(at) /\ own THEN UNCHANGED place ELSE Write(v)
        /\ UNCHANGED <<instr, got, errors>>
        /\ Applied

\* PC-relative places are written, whether they have a dynamic relocation or not.
ApplyRel ==
    /\ Applying({"rel", "page", "prel31"})
    /\ Alloc(at) \/ ~is64
    /\ Written((Target(SymOf(at)) ++ The("A")) -- The("P"))
    /\ Applied

ApplyMovRel ==
    /\ Applying({"movrel"})
    /\ Written((symValue(SymOf(at)) ++ The("A")) -- The("P"))
    /\ Applied

\* The low half asks for no entry of the PLT.
ApplyLo12 ==
    /\ Applying({"lo12"})
    /\ Written(symValue(SymOf(at)) ++ The("A"))
    /\ Applied

ApplyGotoff ==
    /\ Applying({"gotoff"})
    /\ Written((symValue(SymOf(at)) ++ The("A")) -- The("ORG"))
    /\ Applied

\* The first application fills what the scan left open.
ApplyGot ==
    LET y == SymOf(at)
    IN  /\ Applying(Got)
        /\ IF ~Has(y, "GOT") THEN Report("badreloc")
           ELSE /\ got' = [got EXCEPT ![y] = IF @ = SymVal THEN symValue(y) ELSE @]
                /\ IF Recorded(at) /\ dynrel[at].addend = SymVal
                   THEN SetAddend(symValue(y)) ELSE UNCHANGED dynrel
                /\ Write((The("GOT") ++ The("A"))
                         -- (IF Kind(at) = "got" THEN The("P") ELSE The("ORG")))
                /\ UNCHANGED <<instr, errors>>
        /\ Applied

(* A branch through a stub has the symbol of the stub, which is entered in   *)
(* the state of the branch.                                                  *)
Nowhere(y) == sym[y].bind = "Weak" /\ Undef(sym[y]) /\ ~sym[y].dyn /\ ~Has(y, "PLT")
Switches(i) == /\ ~is64 /\ stub[i] = "none"
               /\ ThumbCode(i) # Thumb(SymOf(i))
BranchValue(i) == ((IF stub[i] = "none" THEN Target(SymOf(i)) ELSE The("STUB")) ++ The("A")) -- The("P")

\* Mutant: a weak symbol of any kind.
ApplyNop_Weak ==
    /\ Applying({"call", "jump", "cond", "thm_call", "thm_jump"})
    /\ stub[at] = "none" /\ sym[SymOf(at)].bind = "Weak"
    /\ instr' = [instr EXCEPT ![at] = "NOP"]
    /\ UNCHANGED <<place, got, dynrel, errors>>
    /\ Applied

ApplyNop ==
    /\ Applying(Branches \ {"thm_cond"})
    /\ stub[at] = "none" /\ Nowhere(SymOf(at))
    /\ instr' = [instr EXCEPT ![at] = "NOP"]
    /\ UNCHANGED <<place, got, dynrel, errors>>
    /\ Applied

ApplyBranch ==
    /\ Applying(Branches)
    /\ Kind(at) = "thm_cond" \/ stub[at] # "none" \/ ~Nowhere(SymOf(at))
    /\ IF Kind(at) \in {"jump", "thm_jump", "thm_cond"} /\ Switches(at)
       THEN Report("badreloc")
       ELSE /\ Write(BranchValue(at))
            /\ instr' = [instr EXCEPT ![at] = IF Switches(at) THEN "BLX" ELSE "BL"]
            /\ UNCHANGED <<got, dynrel, errors>>
    /\ Applied

EndApply ==
    /\ phase = "apply" /\ at \notin Rels
    /\ phase' = "stubs" /\ at' = 1
    /\ UNCHANGED <<tables, link, stub, image, errors, seen>>

(* ObjectLinker::relocation applies the fixups of the stubs last.  They have *)
(* not been scanned, and they are against the symbol of the branch: ABS32 or *)
(* in position-independent code REL32, PREL64, or the two halves.            *)
Fixups(i) ==
    LET y == SymOf(i)
    IN  IF stub[i] = "adrp" THEN <<Target(y) -- The("P"), symValue(y)>>
        ELSE IF is64 \/ isCodeIndep(out) THEN <<Target(y) -- The("P")>>
        ELSE <<IF Skipped(y) THEN Zero ELSE Target(y)>>

ApplyStub ==
    /\ phase = "stubs" /\ at \in Rels
    /\ veneer' = [veneer EXCEPT ![at] = IF stub[at] = "none" THEN <<>> ELSE Fixups(at)]
    /\ at' = at + 1
    /\ UNCHANGED <<tables, link, phase, stub, place, instr, errors, seen>>

EndStubs ==
    /\ phase = "stubs" /\ at \notin Rels
    /\ phase' = "done"
    /\ UNCHANGED <<tables, link, at, stub, image, errors, seen>>

Scan == \/ ScanDebug \/ ScanNothing \/ ScanLocalAbs \/ ScanGot \/ ScanGlobalAbs
        \/ ScanGlobalRel \/ ScanGlobalPage \/ ScanGlobalBranch \/ EndScan

Relax == KeepBranch \/ Redirect \/ RedirectFails \/ EndRelax

Apply == \/ ApplyDebug \/ ApplyUnsupported \/ ApplyAbs32 \/ ApplyMov \/ ApplyAbs64
         \/ ApplyRel \/ ApplyMovRel \/ ApplyLo12 \/ ApplyGotoff \/ ApplyGot
         \/ ApplyNop \/ ApplyBranch \/ EndApply \/ ApplyStub \/ EndStubs

Next == Scan \/ Relax \/ Apply

Spec == Init /\ [][Next]_vars
-----------------------------------------------------------------------------
(* Loading.                                                                  *)
LoadBase == IF isCodeIndep(out) THEN The("Base") ELSE Zero

\* The address the dynamic linker finds for the name of y.
FoundFor(y) == IF Foreign(out, sym[y]) THEN The("Found") ELSE The("S") ++ LoadBase

\* An undefined symbol of an executable is 0 unless it is found.
Missing(y) == Undef(sym[y]) /\ ~sym[y].dyn /\ isExecutable(out)
Denotes(y) == {FoundFor(y)} \cup (IF Missing(y) THEN {Zero} ELSE {})

\* A function may be reached through its entry of the PLT, as may a symbol
\* without a type that is called.
Reaches(y) ==
    Denotes(y) \cup
    (IF Has(y, "PLT") /\ sym[y].type # "Object" THEN {The("PLT") ++ LoadBase} ELSE {})

\* A value on which the dynamic linker performs r, a relocation for y.
Load(stored, r, y) ==
    CASE r.kind = "RELATIVE" -> (IF is64 THEN r.addend ELSE stored) ++ LoadBase
      [] r.kind = "own" -> (IF is64 THEN r.addend ELSE stored) ++ FoundFor(y)
      [] r.kind = "GLOB_DAT" -> FoundFor(y)
      [] OTHER -> stored

\* What the place of i is relative to.  The base is a multiple of the page, so
\* the low half of an address does not depend on it.
Origin(i) ==
    CASE Kind(i) \in {"rel", "movrel", "page", "prel31"} -> The("P") ++ LoadBase
      [] Kind(i) = "gotoff" -> The("ORG") ++ LoadBase
      [] Kind(i) = "lo12" -> LoadBase
      [] OTHER -> Zero

Relocated(i) ==
    \E a \in Reaches(SymOf(i)) :
        Load(place[i], dynrel[i], SymOf(i)) = (a ++ The("A")) -- Origin(i)

\* The relocation whose scan made the GOT entry of y.
IsGot(i, y) == SymOf(i) = y /\ Kind(i) \in Got /\ Alloc(i)
Creator(y) == CHOOSE i \in Rels : IsGot(i, y) /\ \A j \in 1..(i - 1) : ~IsGot(j, y)
EntryAtRunTime(y) == Load(got[y], dynrel[Creator(y)], y)

\* Where branch i ends, for every value that the code on its way uses.
Ends(i) ==
    IF stub[i] = "none" THEN {(place[i] ++ The("P")) -- The("A")}
    ELSE IF stub[i] = "adrp" THEN {veneer[i][1] ++ The("P"), veneer[i][2]}
    ELSE {IF isCodeIndep(out) THEN veneer[i][1] ++ The("P") ELSE veneer[i][1]}
-----------------------------------------------------------------------------
Linked == phase = "done" /\ errors = {}

\* The symbol of relocation i has not changed since its scan.
Settled(i) == seen[i] = [plt |-> Has(SymOf(i), "PLT"), sym |-> sym[SymOf(i)]]

(* The places that are accepted and wrong, which README describes.           *)
Misplaced(i) ==
    LET y == SymOf(i)
        foreign == Foreign(out, sym[y]) /\ ~Missing(y)
    IN  \/ ~is64 /\ Kind(i) # "abs" /\ dynrel[i].kind = "own"
        \/ ~is64 /\ Kind(i) = "abs" /\ dynrel[i].kind = "none" /\ Skipped(y)
        \/ is64 /\ Kind(i) \in {"rel", "page", "lo12"} /\ foreign /\ ~Has(y, "PLT")
        \/ Kind(i) = "lo12" /\ Has(y, "PLT")

(* At run time a loaded place holds its addend plus the address its symbol   *)
(* stands for, less what it is relative to: the scan decided the one half of *)
(* the sum, the apply from the symbol and its Reserve bits the other.  On    *)
(* AArch64 a word stays right when its symbol gets an entry of the PLT or is *)
(* copied after its scan (AArch64Relocator.cpp:490 asks its relocation); ARM *)
(* asks the bits of the symbol, which must not have changed.                 *)
PlacesRelocated ==
    Linked => \A i \in Rels :
        /\ Alloc(i) /\ Kind(i) \notin Got \cup Branches
        /\ Settled(i) \/ (is64 /\ Kind(i) = "abs")
        /\ ~Misplaced(i)
        => Relocated(i)

(* At run time the GOT entry of a symbol holds its address, whichever of the *)
(* relocations that share it made it, and though it was made before a copy   *)
(* relocation moved the symbol.                                              *)
GotHoldsSymbol ==
    Linked => \A y \in Symbols : Has(y, "GOT") => EntryAtRunTime(y) \in Denotes(y)

(* What scanning reserves and applying writes add up at run time.            *)
RuntimeAddresses == PlacesRelocated /\ GotHoldsSymbol

(* The stubs whose fixups are wrong, which README describes.                 *)
WrongStub(i) ==
    \/ is64 /\ stub[i] = "literal" /\ ~isCodeIndep(out)
    \/ stub[i] = "adrp" /\ Has(SymOf(i), "PLT")
    \/ stub[i] # "none" /\ Nowhere(SymOf(i))
    \/ ~is64 /\ stub[i] # "none" /\ ~isCodeIndep(out) /\ Skipped(SymOf(i))

(* A branch ends where its symbol may be reached, directly or through a      *)
(* stub, with the state of the processor changed on the way when it has to   *)
(* be; one to nowhere falls through (ARMRelocator.cpp:1041 "we only need to  *)
(* jump to the next instruction unless it has PLT entry").  Of the branches  *)
(* that cannot become BLX only the conditional ones, for which there is no   *)
(* stub, are refused.                                                        *)
Refused(i) == <<"badreloc", i>> \in errors
BranchesArrive ==
    phase = "done" => \A i \in Rels : Kind(i) \in Branches /\ Settled(i) =>
        \/ WrongStub(i)
        \/ Refused(i) /\ Kind(i) = "thm_cond"
        \/ ~Refused(i) /\ Nowhere(SymOf(i)) /\ instr[i] = "NOP"
        \/ /\ ~Refused(i) /\ ~Nowhere(SymOf(i))
           /\ instr[i] = (IF Switches(i) THEN "BLX" ELSE "BL")
           /\ \A d \in Ends(i) : d ++ LoadBase \in Reaches(SymOf(i))
-----------------------------------------------------------------------------
(* What places hold and where branches end has a meaning for the links of     *)
(* the programs that the targets support: the kinds of relocation are those   *)
(* of the target, and code is loaded; no indirect function, no absolute       *)
(* symbol in a position-independent output, and nothing imported without a    *)
(* shared object; branches are to code, what is relative without the help of  *)
(* the dynamic linker is to a symbol of the output, and a dynamic relocation  *)
(* less than a word wide names a symbol of .dynsym.                           *)
OnlyARM == {"mov", "movrel", "gotoff", "gotbrel", "prel31", "jump", "thm_call", "thm_jump", "thm_cond"}
OnlyAArch64 == {"page", "lo12", "cond"}

Ordinary(l) ==
    /\ \A y \in Symbols :
         /\ l.syms[y].type # "IndirectFunc"
         /\ l.syms[y].bind = "Local" => ~Undef(l.syms[y]) /\ ~l.syms[y].dyn
         /\ l.syms[y].bind = "Absolute" => ~isCodeIndep(l.out)
         /\ l.syms[y].dyn => l.out.libs
    /\ \A i \in DOMAIN l.rels :
         LET r == l.rels[i]
             y == l.syms[r.sym]
         IN  /\ r.kind \notin (IF l.bits = 64 THEN OnlyARM ELSE OnlyAArch64)
             /\ r.kind \in Branches => r.sect # "debug"
             /\ r.kind \in Branches \cup {"prel31"} => y.type # "Object"
             /\ r.kind \in {"movrel", "gotoff"} => ~Foreign(l.out, y)
             /\ r.kind = "narrow" /\ l.bits = 64 /\ r.sect # "debug" /\ isCodeIndep(l.out) =>
                  isDynamicSymbol(l.out, y)

AllOrdinary == \A l \in Links : Ordinary(l)
=============================================================================
