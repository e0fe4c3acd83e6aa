----------------------------- MODULE BranchIslands -----------------------------
(* Relaxation of branches (GNULDBackend::relax, ARMGNULDBackend::doRelax,     *)
(* BranchIslandFactory, BranchIsland, StubFactory, Stub): branches that cannot *)
(* reach their targets, or that change between ARM and Thumb code, go through  *)
(* stubs, which are put on islands between the fragments of the code sections. *)
EXTENDS Fragments, SequencesExt

CONSTANTS
    ArmFwd, ArmBwd,    \* ARM_MAX_FWD_BRANCH_OFFSET, -ARM_MAX_BWD_BRANCH_OFFSET
    ThmFwd, ThmBwd,    \* THM_MAX_... or THM2_MAX_..., as the attributes of the inputs say
    StubGroupSize,     \* how many bytes of stubs an island may hold
    StubAlign,         \* Stub::alignment()
    ShortStub, LongStub,   \* the sizes of the stubs entered in ARM and in Thumb state
    TextBase, PLT,     \* where the first code section and .plt start
    Programs           \* the programs to relax

FirstStub == 100       \* the fragments of a program have smaller ids
InputFragment == [k : {"data"}, id : 1..FirstStub, n : Nat, at : {0}]
                 \cup [k : {"align"}, id : 1..FirstStub, n : Nat \ {0}, at : {0}]
ArmKinds == {"CALL", "JUMP24"}      \* JUMP24 stands for PC24 and PLT32 too
ThumbKinds == {"THM_CALL", "THM_JUMP24"}

(* What the readers and the layout before relaxation can produce.            *)
Wellformed(program) ==
    /\ program.sections \in Seq(Seq(InputFragment) \ {<<>>})
    /\ \A s, t \in DOMAIN program.sections :
           \A p \in DOMAIN program.sections[s], q \in DOMAIN program.sections[t] :
               program.sections[s][p].id = program.sections[t][q].id => s = t /\ p = q
    /\ \A sym \in DOMAIN program.symbols :
           program.symbols[sym] \in [frag : 0..FirstStub, at : Nat, plt : Nat]
    /\ program.branches \in Seq([frag : 1..FirstStub, at : Nat, kind : ArmKinds \cup ThumbKinds,
                                 symbol : DOMAIN program.symbols, addend : Int])

ASSUME IslandAssumption ==
    /\ {ArmFwd, ArmBwd, ThmFwd, ThmBwd, TextBase, PLT, StubGroupSize} \subseteq Nat
    /\ {StubAlign, ShortStub, LongStub} \subseteq Nat \ {0}
    /\ \A program \in Programs : Wellformed(program)

VARIABLES
    phase,       \* what relax does next: "group", "branches", "islands", "done"
    next,        \* the branch doRelax looks at next
    isRelaxed,   \* a branch has been given a stub in this pass
    failed,      \* an island has run out of space
    sections,    \* the code sections: address, size and fragments
    islands,     \* the islands, in the order of their creation
    symbols,     \* the symbols, those of stubs included
    branches,    \* the relocations of the branches
    syms         \* entries added to .symtab, and to its sh_info

vars == <<phase, next, isRelaxed, failed, sections, islands, symbols, branches, syms>>

(* A fragment is known by its id, a symbol by its name and object (0 for a   *)
(* stub's).  A symbol without a fragment has frag = 0.                       *)
HasFragment(sym) == symbols[sym].frag # 0
SectionWith(frag) == CHOOSE s \in DOMAIN sections : \E i \in DOMAIN sections[s].frags : sections[s].frags[i].id = frag
Position(frags, frag) == SelectInSeq(frags, LAMBDA f : f.id = frag)
Fragment(frag) == LET frags == sections[SectionWith(frag)].frags IN frags[Position(frags, frag)]
-----------------------------------------------------------------------------
(* BranchIslandFactory::group.  An island is entered from the fragment       *)
(* `entry' and left to the fragment `exit', 0 at the end of the section.     *)
WholeFwd == ThmFwd
MaxFwd == ThmFwd - StubGroupSize
MaxBwd == StubGroupSize - ThmBwd

Produce(s, p) ==
    LET frags == sections[s].frags
    IN  [section |-> s, entry |-> frags[p].id, exit |-> IF p < Len(frags) THEN frags[p + 1].id ELSE 0,
         stubs |-> <<>>]

(* A fragment that would end behind the group is parted from the one before. *)
GroupSection(s) ==
    LET frags == sections[s].frags
        Entry(i) == SelectLastInSubSeq(frags, 1, i - 1, LAMBDA f : f.k # "align")
        parted[i \in 0..Len(frags)] ==
            IF i = 0 THEN [made |-> <<>>, end |-> MaxFwd]
            ELSE IF EndOfFragment(frags[i]) <= parted[i - 1].end \/ Entry(i) = 0 THEN parted[i - 1]
            ELSE [made |-> Append(parted[i - 1].made, Produce(s, Entry(i))), end |-> frags[i].at + MaxFwd]
    IN  Append(parted[Len(frags)].made, Produce(s, Len(frags)))

Group ==
    /\ phase = "group"
    /\ islands' = FlattenSeq([s \in DOMAIN sections |-> GroupSection(s)])
    /\ phase' = "branches" /\ next' = 1 /\ isRelaxed' = FALSE
    /\ UNCHANGED <<failed, sections, symbols, branches, syms>>
-----------------------------------------------------------------------------
(* BranchIsland: where it starts, and how many bytes its stubs take.         *)
Offset(island) == EndOfFragment(Fragment(island.entry))
Size(island) ==
    IF island.stubs = <<>> THEN 0
    ELSE LET frags == sections[island.section].frags
             first == frags[Position(frags, island.entry) + 1]
         IN  EndOfFragment(Fragment(island.stubs[Len(island.stubs)].id)) - first.at

(* getIslands: the next island ahead, if it is near enough, and the one      *)
(* before that; 0 where there is none.                                       *)
Ahead(frag) ==
    LET s == SectionWith(frag)
        at == Fragment(frag).at
    IN  SelectInSeq(islands, LAMBDA i : i.section = s /\ at < Offset(i) /\ at + MaxFwd >= Offset(i))
Behind(frag) ==
    LET i == Ahead(frag)
        at == Fragment(frag).at
    IN  IF i > 1 /\ islands[i - 1].section = islands[i].section
           /\ at > Offset(islands[i - 1]) /\ at + MaxBwd <= Offset(islands[i - 1])
        THEN i - 1 ELSE 0

(* The value of a symbol has bit 0 set for Thumb code.  For a symbol with a  *)
(* PLT entry the start of .plt is taken, not the entry.                      *)
Address(frag) == sections[SectionWith(frag)].addr + Fragment(frag).at
SymValue(sym) ==
    IF symbols[sym].plt # 0 THEN PLT
    ELSE IF HasFragment(sym) THEN Address(symbols[sym].frag) + symbols[sym].at ELSE 0
Place(b) == Address(b.frag) + b.at

(* findPrototype: the isMyDuty of the four stubs.  They add the bias of the  *)
(* program counter, 8 or 4, to the distance, and an addend that is 0 for REL *)
(* inputs, since it stays in the instruction; the bias, one number for all   *)
(* the branches of ARM or of Thumb code, is part of the four reaches here.   *)
TooFar(b, value) ==
    LET offset == value + b.addend - Place(b)
    IN  IF b.kind \in ArmKinds THEN offset > ArmFwd \/ offset < -ArmBwd
        ELSE offset > ThmFwd \/ offset < -ThmBwd
Prototype(b, value) ==
    LET thumb == value % 2 = 1
        changes == (b.kind = "JUMP24" /\ thumb) \/ (b.kind = "THM_JUMP24" /\ ~thumb)
    IN  IF ~changes /\ ~TooFar(b, value) THEN "none"
        ELSE IF b.kind \in ArmKinds THEN (IF thumb THEN "A2T" ELSE "A2A")
        ELSE IF thumb THEN "T2T" ELSE "T2A"

(* BranchIsland::Key.  The hash of a key is made from the name, so symbols   *)
(* of other names are never compared.                                        *)
SamePrototype(stub, proto, b) == stub.proto = proto
SameKey(stub, proto, b) ==
    /\ stub.proto = proto /\ stub.addend = b.addend
    /\ stub.symbol.name = b.symbol.name
    /\ \/ stub.symbol = b.symbol
       \/ /\ HasFragment(stub.symbol) /\ HasFragment(b.symbol)
          /\ symbols[stub.symbol].at = symbols[b.symbol].at
          /\ Fragment(symbols[stub.symbol].frag).at = Fragment(symbols[b.symbol].frag).at
FindStub(i, proto, b) ==
    IF i = 0 THEN 0 ELSE SelectInSeq(islands[i].stubs, LAMBDA stub : SameKey(stub, proto, b))

(* Stub::applyFixup names the symbol of a stub after the symbol, the stub    *)
(* and the island; AddSymbol<Force> overrides a symbol of that name.         *)
StubSymbol(b, proto, i) == [name |-> <<b.symbol.name, proto, i>>, object |-> 0]

(* BranchIsland::addStub: an align fragment and the stub, before the exit.   *)
AddStub(island, id, proto) ==
    LET frags == sections[island.section].frags
        p == IF island.exit = 0 THEN Len(frags) + 1 ELSE Position(frags, island.exit)
        align == [k |-> "align", id |-> id - 1, n |-> StubAlign, at |-> 0]
        stub == [k |-> "stub", id |-> id, n |-> IF proto \in {"A2A", "A2T"} THEN ShortStub ELSE LongStub, at |-> 0]
        new == Chain(<<align, stub>>, EndOfFragment(frags[p - 1]))
    IN  SubSeq(frags, 1, p - 1) \o new \o SubSeq(frags, p, Len(frags))

Stubs == UNION {ToSet(islands[i].stubs) : i \in DOMAIN islands}
StubIds == {stub.id : stub \in Stubs}
NewId == FirstStub + 2 * Cardinality(StubIds) + 2

(* The body of doRelax's loop for a branch that needs no stub, for one that   *)
(* needs a stub an island has, and for one that gets a new stub.              *)
Branch == branches[next]
Proto == Prototype(Branch, SymValue(Branch.symbol))
GoThrough(i) ==
    /\ branches' = [branches EXCEPT ![next].symbol = i]
    /\ syms' = syms + 1
    /\ isRelaxed' = TRUE

KeepBranch ==
    /\ phase = "branches" /\ next <= Len(branches)
    /\ Proto = "none" \/ Ahead(Branch.frag) = 0
    /\ next' = next + 1
    /\ UNCHANGED <<phase, isRelaxed, failed, sections, islands, symbols, branches, syms>>

Found(i) == FindStub(i, Proto, Branch)
ReuseStub ==
    /\ phase = "branches" /\ next <= Len(branches)
    /\ Proto # "none" /\ Ahead(Branch.frag) # 0
    /\ LET i == IF Found(Behind(Branch.frag)) # 0 THEN Behind(Branch.frag) ELSE Ahead(Branch.frag)
       IN  Found(i) # 0 /\ GoThrough(islands[i].stubs[Found(i)].info)
    /\ next' = next + 1
    /\ UNCHANGED <<phase, failed, sections, islands, symbols>>

CreateStub ==
    /\ phase = "branches" /\ next <= Len(branches)
    /\ Proto # "none" /\ Ahead(Branch.frag) # 0
    /\ Found(Behind(Branch.frag)) = 0 /\ Found(Ahead(Branch.frag)) = 0
    /\ LET i == Ahead(Branch.frag)
           id == NewId
           info == StubSymbol(Branch, Proto, i)
           entry == IF Proto \in {"A2A", "A2T"} THEN 0 ELSE 1
           value == [frag |-> id, at |-> entry, plt |-> 0]
           stub == [id |-> id, proto |-> Proto, symbol |-> Branch.symbol, addend |-> Branch.addend, info |-> info]
       IN  /\ sections' = [sections EXCEPT ![islands[i].section].frags = AddStub(islands[i], id, Proto)]
           /\ islands' = [islands EXCEPT ![i].stubs = Append(@, stub)]
           /\ symbols' = [sym \in DOMAIN symbols \cup {info} |-> IF sym = info THEN value ELSE symbols[sym]]
           /\ GoThrough(info)
    /\ next' = next + 1
    /\ UNCHANGED <<phase, failed>>
-----------------------------------------------------------------------------
(* The rest of doRelax.  Islands are looked at until one is too large; those *)
(* that now reach over their exit make the offsets behind them invalid.      *)
TooMany(i) == Len(islands[i].stubs) > StubGroupSize
TooLarge(i) == Size(islands[i]) > StubGroupSize
Touches(i) ==
    LET island == islands[i] IN
    island.stubs # <<>> /\ island.exit # 0 /\ Offset(island) + Size(island) >= Fragment(island.exit).at
Overruns(i) ==
    LET island == islands[i] IN
    island.stubs # <<>> /\ island.exit # 0 /\ Offset(island) + Size(island) > Fragment(island.exit).at

Looked == IF \E i \in DOMAIN islands : TooLarge(i)
          THEN SelectInSeq([i \in DOMAIN islands |-> i], LAMBDA i : TooLarge(i)) - 1
          ELSE Len(islands)

(* Every offset from the first invalid fragment of a section on.             *)
ResetFirst(s, invalid) ==
    LET frags == sections[s].frags
        p == Position(frags, islands[Min(invalid)].exit)
    IN  IF invalid = {} THEN frags ELSE [frags EXCEPT ![p].at = EndOfFragment(frags[p - 1])]
ResetOffsets(s, invalid) ==
    LET frags == sections[s].frags
        p == Position(frags, islands[Min(invalid)].exit)
    IN  IF invalid = {} THEN frags
        ELSE SubSeq(frags, 1, p - 1) \o Chain(SubSeq(frags, p, Len(frags)), EndOfFragment(frags[p - 1]))

(* The size of a section is reset for its first island only.                 *)
ResetSize(s, frags) ==
    LET first == islands[SelectInSeq(islands, LAMBDA i : i.section = s)]
    IN  IF isRelaxed /\ first.stubs # <<>> THEN EndOfFragment(frags[Len(frags)]) ELSE sections[s].size

(* setOutputSectionAddress, for the code sections: see Layout.               *)
Aligned(a) == ((a + StubAlign - 1) \div StubAlign) * StubAlign
SetAddresses(sects) ==
    LET Addr[s \in DOMAIN sects] ==
            IF s = 1 THEN TextBase ELSE Aligned(Addr[s - 1] + sects[s - 1].size)
    IN  [s \in DOMAIN sects |-> [sects[s] EXCEPT !.addr = Addr[s]]]

CheckIslands ==
    /\ phase = "branches" /\ next > Len(branches)
    /\ LET invalid == {i \in 1..Looked : Overruns(i)}
           Reset(s) ==
               LET frags == ResetOffsets(s, {i \in invalid : islands[i].section = s})
               IN  [sections[s] EXCEPT !.frags = frags, !.size = ResetSize(s, frags)]
           reset == [s \in DOMAIN sections |-> Reset(s)]
       IN  /\ IF Looked < Len(islands)
              THEN failed' = TRUE /\ UNCHANGED sections
              ELSE sections' = (IF isRelaxed THEN SetAddresses(reset) ELSE reset) /\ UNCHANGED failed
           /\ phase' = IF invalid = {} THEN "done" ELSE "branches"
    /\ next' = 1 /\ isRelaxed' = FALSE
    /\ UNCHANGED <<islands, symbols, branches, syms>>

Init ==
    /\ \E program \in Programs :
         LET Of(s) == LET frags == Chain(program.sections[s], 0)
                      IN  [addr |-> 0, size |-> EndOfFragment(frags[Len(frags)]), frags |-> frags]
         IN  /\ sections = SetAddresses([s \in DOMAIN program.sections |-> Of(s)])
             /\ symbols = program.symbols
             /\ branches = [b \in DOMAIN program.branches |->
                               LET written == program.branches[b]
                               IN  [frag |-> written.frag, at |-> written.at, kind |-> written.kind,
                                    symbol |-> written.symbol, addend |-> written.addend,
                                    origin |-> written.symbol]]
    /\ phase = "group" /\ next = 1 /\ isRelaxed = FALSE /\ failed = FALSE
    /\ islands = <<>> /\ syms = 0

Done == phase = "done" /\ UNCHANGED vars

Next == Group \/ KeepBranch \/ ReuseStub \/ CreateStub \/ CheckIslands \/ Done

(* relax is a loop of the linker's only thread: it goes on when it can.  Each *)
(* action but Done moves its position, and one of them can until it is done.  *)
Advance ==
    /\ phase # "done"
    /\ phase' \in {"group", "branches", "done"} /\ next' \in 1..(Len(branches) + 1)
    /\ <<phase', next'>> # <<phase, next>>

Spec == Init /\ [][Next]_vars /\ WF_<<phase, next>>(Advance)
-----------------------------------------------------------------------------
StubOf(id) == CHOOSE stub \in Stubs : stub.id = id

TypeOK ==
    /\ phase \in {"group", "branches", "done"} /\ isRelaxed \in BOOLEAN /\ failed \in BOOLEAN
    /\ next \in 1..(Len(branches) + 1)
    /\ syms \in Nat
    /\ \A b \in DOMAIN branches : branches[b].symbol \in DOMAIN symbols
    /\ phase = "done" /\ ~failed => \A i \in DOMAIN islands : Size(islands[i]) \in 0..StubGroupSize

(* A branch still arrives at the symbol it was written for, through the      *)
(* stubs it and other branches have been given (ARMLDBackend.cpp:866 "reset   *)
(* the branch target of the reloc to this stub instead").                    *)
Follow(sym) == IF symbols[sym].frag \in StubIds THEN StubOf(symbols[sym].frag).symbol ELSE sym
Arrives(sym) ==
    LET way[n \in 0..Cardinality(StubIds)] == IF n = 0 THEN sym ELSE Follow(way[n - 1])
    IN  way[Cardinality(StubIds)]
BranchesArrive ==
    phase # "group" => \A b \in DOMAIN branches : Arrives(branches[b].symbol) = branches[b].origin

(* After relaxation no fragment overlaps the one behind it and there is no   *)
(* gap between them.                                                         *)
FragmentsChained ==
    phase = "done" /\ ~failed => \A s \in DOMAIN sections :
        LET frags == sections[s].frags IN frags = Chain(frags, 0)

(* A branch whose way out ends in its own section, at the symbol or at a     *)
(* stub, reaches it: distances within a section are looked at again as long  *)
(* as they change.                                                           *)
Near(b) == /\ HasFragment(b.symbol) /\ symbols[b.symbol].plt = 0
           /\ SectionWith(symbols[b.symbol].frag) = SectionWith(b.frag)
SectionBranchesReach ==
    phase = "done" /\ ~failed => \A n \in DOMAIN branches :
        LET b == branches[n] IN Near(b) => ~TooFar(b, SymValue(b.symbol))

(* No two symbols of a program have the same name.  The name of a stub has   *)
(* three parts.                                                              *)
OwnNames(program) ==
    \A x, y \in DOMAIN program.symbols : Len(x.name) = 1 /\ (x.name = y.name => x = y)

(* Paddings and the fragment behind them are in reach, so that a section is  *)
(* not parted twice at the same fragment.                                    *)
PaddingInReach(program) ==
    \A s \in DOMAIN program.sections :
        LET frags == Chain(program.sections[s], 0)
        IN  \A p, q \in DOMAIN frags :
                p < q /\ (\A r \in p..(q - 1) : frags[r].k = "align")
                    => EndOfFragment(frags[q]) <= frags[p].at + MaxFwd

(* Unless it has run out of space for stubs, relaxation comes to its end.    *)
RelaxationEnds == <>(phase = "done" \/ failed)

(* GNULDBackend.cpp:2926 loops until doRelax has finished; the error is one  *)
(* that the user is told how to mend (DiagLayouts.inc:38 "Use                *)
(* --stub-group-size option to increase the group size").                    *)
RelaxationStops == <>(phase = "done")
=============================================================================
