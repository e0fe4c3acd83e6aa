# Specification of MCLinker

MCLinker is a linker for ELF objects, archives, shared libraries and linker
scripts. It is a sequential C++ program that runs once over its inputs. What
makes it hard is not threads but order: the order of the inputs, of hash tables
and of sets of pointers; tables that several passes fill, change, measure and
write; decisions that one pass takes and a later pass relies on; loops that
must come to an end; and long sequences of legal calls.

This directory holds TLA+ models of the parts that carry the linker's own
logic, TLC configurations that check them on small instances, and theorems
about them that TLAPS checks. `PROJECT.json` lists the runs, the
correspondence of definitions and source lines, the mutations each property
must detect, the hazards of the code and the findings.

## 1. The system

The driver is `lib/Core/Linker.cpp`. A link goes through these phases, and
each phase sees what the one before has left:

1. `normalize`: create the standard sections, add the `-u` symbols, read every
   input (`ObjectLinker::normalize`, `GroupReader`, the archive, object and
   shared object readers, linker scripts). Every symbol read is resolved
   against the name pool (`IRBuilder::AddSymbol`, `NamePool::insertSymbol`,
   `StaticResolver::resolve`).
2. `resolve`: read the relocations, strip data (`GarbageCollection`,
   `IdenticalCodeFolding`), merge input sections into output sections, put the
   symbols into the output symbol table, allocate the common symbols.
3. `layout`: define the standard, target and script symbols, scan the
   relocations (which reserves GOT and PLT entries, dynamic relocations and
   copies), size the symbol tables, assign addresses, relax branches with
   stubs, compute the values of symbols, apply the relocations.
4. `emit`: write the file and its headers.

### Inventory

| component | its state | its operations | what is hard | what makes it correct |
|---|---|---|---|---|
| name pool and resolver (`lib/LD/NamePool`, `StaticResolver`, `ResolveInfo`) | a `ResolveInfo` per name, its output symbol | `insertSymbol`, `resolve`, `override...` | a table of pairs decides what must not depend on the order of many | the strongest symbol wins, the strictest visibility stays, duplicates are diagnosed |
| IR builder (`lib/Core/IRBuilder`) | the same, and marks on inputs | `AddSymbol` for inputs and for the linker's own symbols | `--wrap`, `--exclude-libs`, the four policies of definition | every name that is mentioned has an output symbol that follows the winner |
| symbol table (`lib/MC/SymbolCategory`) | one vector, six ranges | `add`, `forceLocal`, `arrange`, `changeCommonsToGlobal`, `changeToDynamic` | swaps across the borders of ranges | ranges are exact, no symbol is lost or twice there |
| output symbols (`ObjectLinker`, `Module`, `GNULDBackend`) | symbol table, sizes of `.symtab`, `.dynsym` | add, allocate commons, define, count, emit | tables are measured by one pass, changed by another, written by a third | what is written fits what was reserved; `sh_info` parts locals from globals; hidden symbols not exported |
| input reading (`ObjectLinker::normalize`, `GroupReader`, `lib/Core/InputTree`) | object and library lists, counters | read a file, a group, rescan | the end of a group is found by counting | members are read exactly when needed, each once, and the loops end |
| archives (`lib/LD/GNUArchiveReader`, `Archive`) | status of each map entry, included members | scan, include a member or all | decisions are kept over scans while the pool changes | decisions stay right |
| garbage collection (`lib/LD/GarbageCollection`) | reached sets, work list, referenced sections | set up, mark, strip | sets of pointers, cycles, unwind tables | exactly what is not needed is stripped |
| code folding (`lib/LD/IdenticalCodeFolding`) | candidates, the index each is folded into, checksums | find candidates, iterate, fold | indices change while contents are computed from them; a limit on the iterations | only code that does the same is folded, nothing refers to a dropped section |
| merging of sections (`ObjectLinker::mergeSections`, `ObjectBuilder`) | kind of each section, output sections | merge | sections that depend on one another | a section and its relocations and unwind table go together |
| dynamic linkage (`GNULDBackend::symbolNeeds...`, `isSymbolPreemptible`) | none | decide about PLT, dynamic relocations, copies | asked by two passes with different arguments | both passes get the same answer |
| relocators (`lib/Target/*/*Relocator`, GOT, PLT, `OutputRelocSection`) | reserved entries, `.rel.dyn`, `.rel.plt` | scan, apply | what is scanned before a symbol is copied | every place has its value once the dynamic linker has run |
| Mips GOT (`lib/Target/Mips/MipsGOT`) | GOT parts per group of inputs | reserve, merge, consume | reserved must equal consumed | each input finds its entries in one part |
| branch islands and stubs (`BranchIsland`, `BranchIslandFactory`, `StubFactory`) | islands, stubs keyed by target | group, find or add a stub, relax | a fixed point, reuse of stubs | every branch is in reach of its stub |
| layout (`GNULDBackend`, `ELFSegmentFactory`, `SectionMap`) | output sections, segments, addresses | order, assign, relayout | orders of sections, scripts | no overlap, congruent offsets |
| linker scripts (`lib/Script`) | commands, expressions, operand stack | parse, activate, evaluate | order of assignments, `INPUT` in a group | the value of an expression |
| exception tables (`EhFrame*`) | CIEs, FDEs | read, merge, make the header | which CIE an FDE belongs to after merging | each FDE keeps its CIE |
| dynamic section (`ELFDynamic`) | entries | reserve, apply | reserved must equal applied | |
| attributes (`ELFAttribute`, `ARMELFAttributeData`) | values per tag | merge | depends on order | |
| objects' readers (`ELFObjectReader`, `ELFReader`) | sections, group signatures | read header, sections, symbols | COMDAT groups | the first group wins |
| writer, memory, containers (`ELFObjectWriter`, `lib/Support`, `ADT`) | | | | plain and sequential |

The name pool is shared by all phases; the symbol table by all phases from
`resolve` on. A component hands work on by a change of kind (`LDSection`), of
fragment (`LDSymbol`) or of range (`SymbolCategory`), never by a message.

## 2. The modules

| module | models | extends or instantiates |
|---|---|---|
| `StaticResolver` | attributes of a name, overriding, the table and the actions of the resolver, as operators | |
| `SymbolResolution` | the name pool and all inputs' symbols in any order | `StaticResolver` |
| `SymbolCategory` | the vector with six ranges and the five operations on it | |
| `OutputSymbols` | the passes from the resolved pool to the emitted symbol tables; implements `SymbolCategory` | `StaticResolver`, instance of `SymbolCategory` |
| `ArchiveLinking` | abstract: what linking against archives and groups promises | `StaticResolver` |
| `InputReading` | the readers of a command line; implements `ArchiveLinking` | instance of `ArchiveLinking` |
| `InputSections` | the sections and symbols that the strippers work on | |
| `GarbageCollection` | `--gc-sections` | `InputSections` |
| `IdenticalCodeFolding` | `--icf` | `InputSections` |
| `DataStripping` | both, one after the other, and `mergeSections` after them | both |
| `DynamicLinkage` | what `GNULDBackend` decides about a reference, as operators on a symbol and the output | |
| `AddressSums` | the values of relocations as sums of symbolic terms | |
| `X86Relocator` | the scan and the apply of x86-32 and x86-64, and the dynamic linker | `DynamicLinkage`, `AddressSums` |
| `ARMRelocator` | the scan, the stubs of branches, and the apply of ARM, Thumb and AArch64, and the dynamic linker | `DynamicLinkage`, `AddressSums` |
| `MipsGOT` | the multi-part GOT of Mips, as operators on its state | |
| `MipsRelocator` | the scan and the apply of Mips o32 and N64 over that table, and the dynamic linker | `DynamicLinkage`, `MipsGOT` |
| `Fragments` | the fragments of an output section and the passes that move them | |
| `ScriptExpressions` | the tokens and the stack machine of linker script expressions | |
| `LinkerScript` | the commands of a script, the section map they fill, and the merging of input sections through it | `Fragments`, `ScriptExpressions` |
| `Layout` | order, program headers, addresses and offsets, relaxation rounds, script symbols | `LinkerScript` |
| `BranchIslands` | the relaxation of branches with islands and stubs | `Fragments` |
| `SymbolResolutionProofs`, `SymbolCategoryProofs`, `OutputSymbolsProofs`, `InputReadingProofs`, `DataStrippingProofs`, `X86RelocatorProofs`, `ARMRelocatorProofs`, `BranchIslandsProofs` | theorems about the module each is named after (section 4) | that module, and `TLAPS` |
| `MC...` | values for the constants | |

### How state and actions correspond to the code

**Symbol resolution.** `pool` is the name pool, `outSym` the output symbol
that a `ResolveInfo` points to, `needed` the marks of `Input::setNeeded`. An
action is one call of `IRBuilder::AddSymbol` by a reader, with everything it
calls. The inputs are read symbol by symbol in an arbitrary order. `given`
and `read` are history: what the inputs said of a name, which the properties
compare with what the pool says. Local symbols never enter the pool.
A new symbol and an old one are classified by `Ordinate`, the table is one
operator per row, and `Resolve` has one case per action of the switch. Symbols of
bindings and section indices for which the readers have no answer (`NoneBinding`,
`NoneDesc`: `ELFReaderIf.cpp:91` and `:70`) are left out.

**Symbol table.** `table` holds the vector and the borders of the six
ranges; the doubly linked ranges of the code are numbered. An operation is one
call; its loop over the ranges is unrolled. `home` is history: the range into
which a symbol was last put. `cat` stands for `Category::categorize`, which
reads the symbol's attributes: the code changes them before it calls
`arrange`, and so does the action. `changeCommonsToGlobal` is the one
operation whose iterations are steps, since its assertion is about each.

**Output symbols.** A stage is a pass: `adding` (`addSymbolsToOutput`),
`changing` (the allocation of commons), `standard`, `script`, `scanning`,
`prelayout` (section symbols, `sizeNamePools`), `relaxing` (stubs), `emitted`.
Inside a stage the order of symbols is left open: it is the order of a hash
table, of sections or of relocations. `Symtab`, `Dynsym` and `Bind` are what
emission writes. A static link (`codeStatic`) has no input seen in a shared
object and no `.dynsym` (`HasDynsym`).

**Input reading.** `at` is the loop that runs and its position, `rd` the
archive that is scanned, `cnt` the counters of `readGroup`. One map entry is
one step. A file's symbols enter the pool in one step, by `StaticResolver`.
The symbol map of an archive is data of the link (`link.map`), of which
`InputAssumption` says that it lists what the members define.
The refinement maps the readers to `ArchiveLinking` by forgetting the scans,
the statuses and the counters; a step of the abstract specification reads a
file, extracts a member that is needed, or leaves a node of the command line
when it is closed.

**Stripping.** `kind` is `LDSection::kind`, by which the passes communicate,
`symSect` the section of a symbol's fragment. The sets of the code are ordered
by pointers, so the work list and the order of an object's candidates are
arbitrary. Checksums are taken to be equal exactly when the contents are; the
contents are what the code feeds to the checksum, with the digits of the
indices as they are concatenated.

**Relocation on x86.** A link is an output, a sequence of relocations in the
order of the inputs, and the `ResolveInfo` of each symbol after resolution.
`scanRelocations` and `relocation` both walk that sequence: `at` is their
position, `phase` says which of them runs. An action is one call of
`scanRelocation` (one action per group of cases of the two switches) or of
`applyRelocation` (one per apply function). The two targets are one module:
where they differ, the action asks `is64`; the map of each action names the
code of one of the two, and the other stands in the same file under the same
name. The state is what the scan leaves for the apply: the `Reserve` bits, the GOT
entry, the dynamic relocation (`dynrel[i]` is the one that the scan of `i`
created, on the place or on a GOT entry), the copies, and `sym`, which copies
change. `RelRelMap` of x86-64 is `Recorded`. A value is a sum of
symbolic terms (addend, symbol, PLT entry, place, load base...), so that
"counted twice" and "not counted" are visible. `Load` and what follows is the
dynamic linker as the ABI has it, the only external part. `seen` is
history: the symbol as it was after the scan of a relocation.

The x86 instances leave out four kinds of relocation for which the properties
would speak of something else: an absolute symbol in a position-independent
output, which `symbolNeedsDynRel` gives a `RELATIVE` relocation; a relocation
narrower than a word against a symbol that is not in `.dynsym`, which emission
cannot express; an untyped symbol called through the PLT in a shared object (on
x86-32 a call makes an entry and a PC-relative place of the same symbol has a
dynamic relocation as well); and symbols of type `STT_GNU_IFUNC`, whose PLT entry
trips the assertion of `doPreLayout` in a static link.

**Relocation on ARM and AArch64.** The shape is that of `X86Relocator`; the
two targets are one module, and `is64` says which. Between the scan and the
apply there is the phase `relax`: each branch of `doRelax` stays or is sent
through a stub (`Redirect`), whatever its distance, which `BranchIslands` is
about; a jump between ARM and Thumb must (`ChangesState`). After the apply the
phase `stubs` writes the fixups of the stubs, as `ObjectLinker::relocation`
does, from the `Reserve` bits of the symbol that the branch had. `instr` is
what `call` and `thm_call` make of the opcode: as it is (`BL`), `BLX`, or a
`NOP` for a branch to nowhere. A stub enters its target by the address with
its Thumb bit, so a branch through it need not become `BLX`. `phase` is
`fatal` when `AArch64LongBranchStub::applyFixup` follows the missing fragment
of an imported symbol. `Misplaced` and `WrongStub` name the places
and the stubs that are accepted and wrong (section 5); everything else is
checked.

**Relocation on Mips.** `got` is the one `MipsGOT`, a record of its members;
each method that changes it is an operator from one record to the next. The
entries themselves are numbers, their contents `content`. A link is a sequence of
inputs, each a sequence of relocations in the order of its relocation
sections; `at` is the input and the relocation that `scanRelocations` and
then `relocation` have come to, 0 standing for `initializeScan` and
`initializeApply`. The scan has one action per group of cases of the two
switches (`scanLocalReloc`, `scanGlobalReloc`); the apply has `Postpone`,
`ApplyLow` (a low half, and with it the high halves that wait in
`m_PostponedRelocs`, in any order, since it is a set of pointers) and
`ApplyOther`. The apply functions are operators on a record of what they
change, one case each of `ApplyFunction`. A failed assertion ends in phase `failed`.
Values are numbers, since the pages that high halves name are what the
code computes; `Page` (16 in the instance) stands for 2^16, and addresses are
counted in words. `R_MIPS_GOT_HI16` and `_LO16` put the same offset, whose
shift and mask are left out.

What the instances of Mips leave out, because the code does not do there what
the properties say, is listed with the disagreements below.

**Layout.** `phase` is the pass of the linker. In `script` the commands of
the script are activated one by one (`awaiting` is the rest): an assignment is
kept until an output description follows (`HoldAssignment`), a description
enters the section map with its input descriptions. `merge` takes one
section of one input per step, in the order of the inputs: `MergeInput` is
`SectionMap::find` by file, section name and `EXCLUDE_FILE`, the discarding, and the two moves of the data
(`ObjectBuilder::MoveSectionData`, to the input description and from there to
the output section, `UpdateSectionAlign` at each). `LayOut` is one step for
the whole of `prelayout`'s address passes, as the code runs them without
interruption: the sort by `getSectionOrder`, the program headers, the two or
more rounds of `setOutputSectionAddress`, the RELRO moves, the extents of the
segments, the header segment that is merged or dropped. `Grow` is a pass of
`relax` in which a fragment of `.text` grew; `FinalizeSymbolValue` gives the
script's symbols their values. A section is a sequence of fragments with
alignments and sizes; content is left out. A word of the target has the width
`Word`, so that a wrapped address is visible. Of the target hooks the order of
the target's own sections is that of x86 and of ARM, which has nothing in `.got.plt`; the others
are those of the generic backend.

**Branch islands.** `Group` is `BranchIslandFactory::group` over both code
sections. A pass of `doRelax` takes the branches in order (`next`): a branch
stays as it is (`KeepBranch`), is given to a stub that its island already
holds (`ReuseStub`), or gets a new one (`CreateStub`); `CheckIslands` is the
end of the pass, with `pFinished`, the moved fragments and the full islands.
A branch remembers where it was written for (`target`, as the program has it)
beside the symbol that the relocation names now. `BranchesArrive` follows a
branch through its stub to that place, across ARM and Thumb. The bias of
the program counter, which `isMyDuty` adds to each distance, is part of the
constants `ArmFwd`, `ArmBwd`, `ThmFwd` and `ThmBwd`; the addend of a `REL` input
stays in the instruction and counts as 0 there, one of the addends of the model.

## 3. The runs

All runs are small enough to be exhaustive. Deadlock is not checked where the
program ends after its work; the liveness properties say that it gets there.

| run | instance | what it asks |
|---|---|---|
| `symbol_resolution` | a name and its `--wrap` wrapper, two objects (one under `--exclude-libs`), two libraries, all classes, three visibilities, two values | does the outcome for a name depend on the order of the inputs, where it must not? |
| `symbol_category` | three symbols, every sequence of operations | are the ranges exact after any sequence? |
| `output_symbols` | three input symbols of any kind, a shared object, a dynamic and a static executable and a partial link, a standard, a script, a section and a stub symbol | do the tables fit, does `sh_info` part them, and are only visible symbols dynamic? |
| `input_reading` | command lines with objects, libraries, groups, an archive given twice; three names | are members extracted exactly when needed, and do the loops end? |
| `data_stripping` | five content sections with many reference graphs; two functions with unwind tables; four functions to be folded | is exactly the right code stripped and folded? |
| `x86_relocations` | one or two relocations of any kind and three of the frequent ones against a symbol of any kind; three against two names of an imported variable; six kinds of output; both targets | does the place, at run time, hold the address exactly once, and is what the apply needs reserved by the scan? |
| `x86_copied_after_scan` | the same links | finding: a place scanned before its symbol was copied is relocated twice |
| `arm_relocations` | two relocations of any kind and three of those that change a symbol against a symbol of any kind, in ARM or Thumb code or on AArch64; six kinds of output; any branch through a stub | do places and GOT entries hold the address exactly once, and do branches end at their symbol in its state? |
| `mips_relocations` | two pieces of compiler output of some sixty kinds, in one input or two, o32 and N64, three kinds of output; two or three inputs whose GOT takes two or three parts | is everything that the apply hands out reserved by the scan, and does each place lead to its symbol? |
| `layout` | some five hundred links: with and without a script, static, position independent, relro, now, `-N`, `-n`, `-r`, `-Ttext`, `-Tbss`, x86 and ARM; up to two growths of `.text` | do sections, segments, addresses, offsets and script symbols fit together? |
| `branch_islands` | two code sections, every triple of twelve branches (near, far, ARM, Thumb, to `.plt`, to an undefined symbol), crowded islands | do branches arrive, and does relaxation end? |
| `relaxation_without_end` | an island that overruns its exit before a full one | finding: `relax` calls `doRelax` for ever |

### Why the bounds are enough

* Resolution looks at one name and one pair of symbols at a time; four inputs
  give every sequence of four, and every cell of the table depends on two. Two
  names are there for `--wrap`, which turns one into the other. A size and a
  value of zero or one tell a larger from a smaller and an equal from a
  different one.
* A move across ranges concerns the first and the last symbol of a range;
  three symbols give ranges with none, one and several, and every range
  between source and target may be empty or not.
* A group needs two archives that need each other and a third pass to see a
  counter go wrong; three archives of up to two members do.
* Folding of a chain needs one iteration per link of the chain; four
  functions and three iterations let every chain settle, so that
  `IndicesSettled` holds whenever they are folded. The links are those in
  which a function that calls itself cannot be replaced at run time
  (`SelfCallsBind`).
* Where a theorem has a hypothesis on the inputs, the `MC` module states it
  of the links of its run (`TheoremsApply`), so that TLC evaluates it: the
  instances that are checked are among those the theorem is about.
* What is reserved for a symbol depends on the symbol's attributes, its
  `Reserve` bits and the relocation. A first relocation can set a bit or copy
  the symbol, a second find it so, and a third find both; only symbols that may
  come from elsewhere can change, so triples are of those. Aliases need two
  names and three references: two to copy under either name, one in between.
  On ARM nothing but `m_bHasTextRel` is shared between symbols, since
  copies have no aliases there, so that one symbol is enough. Triples are of
  the kinds that change a symbol or its `Reserve` bits: `abs`, `rel`, `page`, `got`
  and `call`.
* `MaxCandidates` (256) bounds the two digits of the model's hexadecimal
  indices.
* On Mips one relocation reserves and another uses, or the second finds what
  the first has reserved, in the same input or in the next: pairs of pieces, in
  both arrangements. `MaxEntries` is 6, so that a part holds four entries beside its
  header and the second or third piece of an input fills it; two inputs with
  three entries each make a split in the middle of an input, three a second split, and the pieces
  are chosen so that an input finds entries of the part before it. `Page` is even and
  the addresses have low halves of either sign.
* An address pass depends on where a section begins within a page and on
  whether the flags of its neighbour differ: a page of 16 units with sections
  of 1 to 20 units gives sections that end on, before and behind a page border;
  the links hold every section class of `getSectionOrder` that the address
  pass distinguishes. `MaxGrowth` allows two rounds of relaxation, the second
  of which starts from the addresses of the first, and pushes a section across a
  page border. `Word` (15 bits) is more than any address of the instances but
  small enough for TLC.
* An island's stub is looked for, reused or created; a branch that is too far
  may come to be so by another's stub, and in the other section. Three branches are
  the cause, the effect and a bystander. The reaches (64 and 48), the group
  size (16) and the sizes of stubs (4 and 8) are such that a section has several islands,
  that one stub puts a branch out of reach, and that an island can be full.

### Fairness

MCLinker is one thread: a loop whose guard holds takes its next iteration.
That justifies weak fairness of the whole next-state relation in
`InputReading` and `DataStripping`, and of the loop of `changeCommonsToGlobal`
in `SymbolCategory`, whose other operations are called from outside and are
given no fairness. In `BranchIslands` the condition is weak fairness of
every step that advances the loops: every action but the final stutter
changes `phase` or `next`, so that it says no more than that the thread runs.
The counterexample of `relaxation_without_end` is one under that fairness.

## 4. Theorems

Each theorem holds for all values of the constants that meet the module's
assumptions and the hypotheses that the theorem names. A hypothesis is about the
inputs of a link, never about a reachable state; each but `FewTexts`, a bound of
the model, is there because the code breaks the property without it, and the
line is named. `TheoremsApply` in the `MC` modules shows that the links of the
runs meet them.

Every proof has the same shape: an inductive invariant, the conjunction of named
parts, that initial states have, that each action keeps (one step per action),
and that implies the property. The parts below say why the property itself would
not do.

### Symbols

* `SymbolResolutionProofs`, on `ResolutionAssumption` alone. `TypeCorrect` is
  inductive as it stands; the lemmas say that the table is total and that
  overriding keeps an entry an entry. `StrongestAlwaysWins`: the pool holds a
  symbol of the strongest class read, whatever the inputs and their order. An
  undefined entry may have its attribute of a shared object set by `DUND` while
  it has a definition, and an absolute symbol must be a definition for its class
  to say anything; `RankInv` adds that entries are legal, that a name without an
  entry has no contributions, and that the rank of an entry bounds and is
  attained by the ranks of the contributions. `TableRank` says, cell by cell,
  that an overriding action never lowers the rank and a non-overriding one never
  loses a higher rank. `InputsAlwaysSettled`: each error, each needed library
  and each output symbol is what the history of the name asks for; `SettledInv`
  gives every part of an entry its source among the contributions.
  `VisibilityOnlyTightens`: no call makes a visibility less strict (an action
  property, from the same invariant).
* `SymbolCategoryProofs`, for any set of symbols and any sequence of calls.
  `TypeCorrect`; `RangesStayExact`: the ranges adjoin, and each symbol is in the
  vector once, in the range it was last put into. The property follows a symbol
  by its range, the swaps by their indices: `Inv` says that the borders form a
  chain (`Chained`), that the vector is an injection (`Distinct`), and where
  each symbol is. While a symbol is moved across the ranges it is in none:
  `Waiting` says how far it has come.
* `OutputSymbolsProofs`. `TypeCorrect` and `PassesImplementSymbolCategory`, the
  refinement: each pass does a sequence of operations of `SymbolCategory`. They
  assume `StandardStaysVisible`: a reference that a standard symbol makes hidden
  is added to the table a second time (`IRBuilder.cpp:792`). `TablesAlwaysRight`
  says that what is emitted fits what was measured, that the entries below
  `sh_info` are the local ones, that `.dynsym` has the visible symbols, and that
  no common symbol is left. Local entries behind `sh_info` are those that only
  their visibility makes local (`LocalByVisibility`: hidden undefined and
  absolute symbols, section 5), and there are no others. It assumes two more: `LinkerNamesStay`, that the linker does not
  define a symbol whose section it discards (`SymbolCategory.cpp:145`), and
  `StubsCounted`, that no stub is reused and that there are none under `-x`
  (`ARMLDBackend.cpp:868`). `OutInv` says what each stage may still find to do
  (`EntriesInv`, `TableInv`, `TodoInv`, `InputsInv`), and `SymbolCategoryProofs`
  gives it the ranges after each operation. `TablesInv` adds which symbols are
  in the table and in which range (`NamesInv`, `KeptInv`, `HomeInv`), that
  commons and undefined symbols have become definitions where they must
  (`CommonInv`, `DefinedInv`), and `RoomInv`, which bounds what is written by
  what was counted.

### Inputs

* `InputReadingProofs`, for every command line whose whole archives share no
  member with another one (`WholeApart`: it would be read twice) and whose
  groups notice the members that a scan extracts (`GroupsCounted`,
  `GroupReader.cpp:114`). `TypeCorrect`; `MembersAlwaysReadOnce`: no file is
  read twice, and each decision about an entry of an archive map stays right
  over later scans; `ScansImplementArchiveLinking`: the loops, which end by
  comparing counts, implement linking to a closure. The hard step is that a node
  may be left: the last rescan extracted nothing, so no entry of any map of the
  group defines what is undefined. `ReadInv` therefore says what each loop has
  seen (`ScanInv`, `FirstPassInv`, `RescanInv`: the archives before the position
  have nothing to give unless something was extracted since) and what the
  counters count (`CountInv`), beside what is read (`PoolInv`, `FilesInv`,
  `OnceInv`), where the loop is (`PlaceInv`, `ArchivesInv`), and which entries
  of a map are decided (`DefinedInv`, `DecisionInv`).

### Stripping

All are in `DataStrippingProofs`, on `LinksAssumption`, that the inputs are
those the readers can produce.

* `NeededSectionsStay` and `KeptSectionsAreNeeded` are about garbage collection
  by itself: nothing that is needed is stripped, and nothing is kept that some
  closed set with the roots does without. `GCInv` says during the marking that
  every section reached from a referenced one is referenced or pending, that all
  roots are, and that whatever is referenced or pending lies in every closed set
  that holds the roots. When nothing is pending the first two give closure. The
  code forgets some roots, and the theorems about what is needed leave out just
  these: `Overlooked` names the hidden definitions that a shared library has
  seen, in an executable linked with `--export-dynamic` (section 5); a hidden entry and
  a hidden `-u` symbol are not among them.
* `NothingNeededIsDropped` and `NothingIsKeptInVain` say the same of the passes
  together, folding and merging included. The first assumes `TablesUnnamed`: the
  merge drops an `.ARM.exidx` with its text, whoever refers to it.
* `TypeCorrect` assumes `FewTexts`, the bound of the model's indices. The
  invariant `BaseInv` (`KindInv`, `MarkInv`, `CandsInv`, `KeptInv`) says what
  the kinds, candidates and indices are in each phase.
* `UnwindGoesWithText`: a function has its unwind table in the output exactly
  when it is there itself, and no dropped section is relocated. It assumes
  `TablesComeFirst`: `mergeSections` goes through a file once
  (`ObjectLinker.cpp:357`).
* `OnlyTheSameAreFolded`: two functions are folded only if no round of a
  partition refinement tells them apart. The code compares contents that it has
  written with the indices of different moments. `SoundInv` relates all of them
  to `Largest`, the greatest relation on the candidates that is closed under
  "same content, and calls related": an equivalence; every index leads to a
  related candidate; every content recorded in the iteration was written with an
  earlier table that was sound too, so that two equal contents, read digit by
  digit, give related calls. That `Largest` is what the refinement arrives at is
  shown by a smallest counterexample (`SmallestNat`, from the well-foundedness
  of the subset order, since the induction rules of the library take an
  operator). Its hypotheses: `SingleDigits`, that an index is one digit
  (`IdenticalCodeFolding.cpp:289`), `SelfCallsBind` and `SelfCallsAgree`, since
  the content is silent about recursion (`IdenticalCodeFolding.cpp:250`).
* `SafeOnceSettled`: if no function is left folded into a folded one when the
  iterations end (`IndicesSettled`, `IdenticalCodeFolding.cpp:110`), folding is
  right and what stays refers only to what stays. The invariant `TargetsStay`
  keeps for the unwind table of a function that stays what it refers to;
  `FoldedInv` follows the symbols while they move. It assumes all of the above,
  `TablesReach`, that what an unwind table refers to is no exception table
  (`ARMLDBackend.cpp:597`), and `OnlyFunctions`, that texts are referred to by
  symbols of functions (`IdenticalCodeFolding.cpp:104`). `IndicesSettled` is
  about a state, and the one such condition: TLC finds it true whenever the run
  folds.

### Relocation

* `X86RelocatorProofs`, for every set of links: `TypeCorrect`;
  `EntriesAlwaysFound`, the apply of a GOT relocation finds its entry (`GotInv`:
  all GOT relocations of loaded sections before `at` have set the bit of their
  symbol, and bits are never cleared); `VariablesCopiedOnce`, a symbol with a
  `COPY` relocation, and every alias of one, is not dynamic any more, and only a
  dynamic symbol is copied. `StaticNeedsNothing`: with no shared object linked
  no symbol is a dynamic one (`ImportAssumption`), so every decision is to
  reserve nothing, unless a symbol is an `STT_GNU_IFUNC`.
* `X86RelocatorProofs!PlacesHoldAddresses`: what the scan reserves and the apply
  writes add up at run time. It assumes `AllOrdinary`: no indirect function, no
  absolute symbol in a position-independent output; a call is of a function or
  of something undefined in an executable; an offset from the GOT is to a symbol
  of the output; a dynamic relocation less than a word wide names a symbol of
  `.dynsym`. Section 5 says what the code does otherwise. The invariant
  (`LinkInv`, `SymbolsInv`, `ScanInv`, `ApplyInv`, `EntryInv`, `GotInv`) says,
  for each relocation that has been scanned, which entries and dynamic
  relocation it has, as a function of the symbol at that time, and, for each
  that has been applied, what the place holds.
* `ARMRelocatorProofs`: `TypeCorrect` for every set of links;
  `PlacesHoldAddresses` and `BranchesAlwaysArrive` for those that are
  `AllOrdinary`: what the x86 proofs ask of symbols, and only kinds of the
  target; branches lie in loaded code and are not to objects; nothing is
  imported without a shared object; what is relative is to a symbol of the
  output. The symbol may be copied, and others may add PLT entries, after a
  decision about it: the decisions of `ScanInv` are stated so that they outlive
  both (`Grows`, `DecisionStays`). `RelaxInv` says that a branch left without a
  stub needs none to change between ARM and Thumb, `BranchInv` what the apply
  and the fixups have made of each branch.
* `BranchIslandsProofs!BranchesAlwaysArrive`: through every pass a branch goes
  where it was written for, straight or through stubs one after another. A stub
  may be reused for a branch whose symbol has the same name, and a branch that
  has a stub may get another for the stub's own symbol. `NameInv` gives each
  symbol a rank, the number of stubs between it and a symbol of the program, and
  a home, that symbol: a way through stubs goes down in rank and keeps its home.
  Two symbols of one name have one home, if two symbols of the program have two
  names (`OwnNames`, `Stub.cpp:36`).
* `BranchIslandsProofs!FragmentsAlwaysChained` and `TypeCorrect`: relaxation
  ends with every fragment where the one before it ends, and no island outgrows
  its space unless relaxation failed. Between the passes that is false: stubs
  are put into islands whose sections are moved at the end of the pass, from the
  first island on. `LayoutInv` says where each island begins, that its stubs
  follow there in order (`PlacedAt`), that islands do not overlap (`Ordered`),
  that the chain of offsets is broken only at the exit of an island with stubs
  (`Breaks`), and, when relaxation is done, nowhere, and that the stubs fit
  (`Fits`). Two islands at one fragment would overlap: `PaddingInReach` excludes
  them (`BranchIslandFactory.cpp:47`).

### What is only model-checked

* All liveness: `CommonsAreChanged`, `AllInputsRead`, `StrippingEnds`,
  `RelaxationEnds`. It is beyond the prover used.
* `StrippingIsSafe` without `IndicesSettled`: that the iterations let the
  indices settle is an induction over their number.
* The properties of `Layout`: a layout is the result of folds over sections and
  of evaluating expressions, and what they give for every link is an induction
  over data, for which the library's rules cannot be instantiated.
* `SectionBranchesReach`: it depends on distances after the paddings behind an
  island have grown, and the backward window of an island is measured from the
  start of a fragment, so that it holds for the distances of the instance and
  not for all.
* The properties of `MipsRelocator`: what is reserved and what is taken agree
  only for the pairs of pieces that its instances hold (section 5).

## 5. Findings

Each of these is a run with one violated property; the texts that the code
contradicts are quoted in `PROJECT.json`.

1. `X86Relocator.cpp:884`: the apply asks again whether a place has a dynamic
   relocation; when the symbol has been copied after the scan of the place, the
   answer has changed, and the address is added by the linker and by the
   dynamic linker. On x86-64 the dynamic relocation stays as well, with an
   addend computed as if it were `RELATIVE`.
2. `ARMLDBackend.cpp:909`: a full island behind one that overran its exit makes
   `relax` call `doRelax` for ever instead of ending the link with its error.

### Disagreements that are not runs

Met while modelling, and kept out of the instances of the passing runs by the
preconditions that the text names:

* Resolution. `StaticResolver.cpp:116`: when a definition has been read before
  a common symbol, the common symbol's visibility is dropped; in the other
  order it is not. `IRBuilder.cpp:792`: a referenced symbol that a
  standard symbol makes hidden is added to the symbol table a second time.
  `SymbolCategory.cpp:145`: a script may assign a symbol that was never added
  because its section has been discarded.
* Symbol tables. The comment at `GNULDBackend.cpp:853` makes `sh_info` "one
  greater than the symbol table index of the last local symbol", but
  `getSymbolInfo` (`GNULDBackend.cpp:1427`) writes every hidden symbol as a
  local one, also those that `shouldForceLocal` has left among the regular ones:
  an undefined reference of hidden visibility, and an absolute symbol, such as a
  script defines with `PROVIDE_HIDDEN`. They are local entries behind `sh_info`. The
  instances of `output_symbols` have them; `LocalsBeforeShInfo` says that no other
  entry is on the wrong side.
* Inputs. `GroupReader.cpp:115`: the members of a whole archive are counted
  once, so that a rescan that extracts as many members ends the loop; and a
  group without an object, whose shared object needs a member of an archive before
  it, is not rescanned when its first pass has extracted nothing
  (`GroupReader.cpp:114`: both counts are 0).
  `GroupReader.cpp:63`: an input whose type is known before its group is
  read enters the list of objects twice. `ObjectLinker.cpp:357`: a relocation
  section that precedes its `.ARM.exidx` in the file is merged before the table is
  dropped.
* Stripping. The comment at `GarbageCollection.cpp:237` has the sections of
  symbols seen in dynamic objects "already been added" under `--export-dynamic`;
  but the loop that adds them (`GarbageCollection.cpp:205`) skips what
  `shouldForceLocal` accepts. A hidden definition that a shared library refers to is
  then no root, and its section may be stripped. The instances of `data_stripping`
  have such links; `NeededIsKept` leaves out these symbols (`Overlooked`) and no
  others. `IdenticalCodeFolding.cpp:110` moves the symbol of a folded function
  one hop along `m_KeptSections`, which is not reset between iterations: when
  the limit (two by default) ends the iterations before the indices settle, as
  for `w` calls `a`, `x` calls `b`, four functions call `x`, the symbol ends in
  a section that is folded itself and left out. `IdenticalCodeFolding.cpp:289`: indices are appended without a
  separator, so that calls of different functions may have the same content
  (with more than sixteen candidates). `IdenticalCodeFolding.cpp:122`: the set
  of accessed function pointers is local to one object. `IdenticalCodeFolding.cpp:250`:
  a recursive call leaves no mark in the content, so that `f`, which calls itself and
  then `c`, and `g`, which calls `c` and then itself, are folded; nor does the
  content say which function a recursive call is to, and in a shared object the call of a
  preemptible function may go elsewhere at run time. `IdenticalCodeFolding.cpp:104`: a
  symbol of a folded text that is not a function stays behind. `ARMLDBackend.cpp:597`: what an unwind table
  refers to is reached when it is text, data or `.bss`, not when it is an
  exception table. `GarbageCollection.cpp:235`:
  an undefined entry symbol that is referred to has no fragment.
* Relocation. The comment at `GNULDBackend.cpp:2731` says that an undefined
  reference of an executable is resolved to 0; a weak undefined symbol that is also
  called gets a PLT entry in a dynamic executable, and references to its
  address take that of the entry. `GNULDBackend.cpp:2746`: in a
  position-independent executable an absolute symbol gets a `RELATIVE`
  relocation. `GNULDBackend.cpp:1466`: a narrow dynamic relocation against a
  local or hidden symbol names a symbol that is not in `.dynsym`.
* ARM. `ReserveRel` is the symbol's (`ARMRelocator.cpp:813`): a word without a
  dynamic relocation of its own is not written when another relocation of
  its imported symbol has one, and a word that has one is written
  as well when the symbol is copied later (`Settled`). `rel32` writes a place that
  has an `R_ARM_REL32` for the dynamic linker, which subtracts the place again; a
  dynamic executable gets dynamic relocations of types that no dynamic linker knows
  (`MOVW`, `ABS16`). Copies ignore the other names of the variable.
  `movw_prel_nc` reports an overflow that its type excludes, and `thm_movt_abs`
  checks after the shift.
* AArch64. `add_abs_lo12` and `ldst_abs_lo12` do not ask for the PLT entry
  that `adr_prel_pg_hi21` uses, so that an address of an imported function, and the
  `ADRP` stub of a preemptible one, mix two targets. A `PREL` or page relocation
  against an imported symbol that is not copied is written
  without the symbol. The literal of the stub for non-PIC output is branched to as it is, but
  its fixup is `PREL64` (`AArch64LongBranchStub.cpp:61`). A branch to an
  imported function that is too far follows a null pointer (`AArch64LongBranchStub.cpp:108`).
* Stubs of both. A branch to a weak undefined symbol becomes a `NOP`, but not
  when it goes through a stub, which a `THM_JUMP24` always does since 0 is an
  ARM address: the stub jumps to 0. A redirected branch keeps its addend, which
  the stub has as well (`Stub.cpp:32`).
* Hexagon, as far as read. Static links are not scanned, so that GOT relocations
  fail and undefined symbols are not reported; `R_HEX_32` against an imported symbol
  gets a `RELATIVE` relocation.
* Mips. The scan counts the entries of the GOT by the word at the place and the
  apply looks for them by value and by part, and the two differ:
  two `GOT16` with the same word whose low halves lead to different pages
  reserve one entry and take two (the assertion of `MipsGOT.cpp:52`); the same
  reference through different registers, or through `CALL16` beside `GOT16`,
  reserves two and takes one, after which the part is never used up and
  the next one never begun. The split takes the entries
  that an input shares with earlier ones away from these (`MipsGOT.cpp:217`). The
  part changes only when it is used up (`MipsGOT.cpp:329`), so that the first
  reference of the next input is looked up in the part before it. A symbol copied
  after it has been given a global entry takes a local one. `ReserveRel` is a
  property of the symbol: a word that was scanned after a call had made a PLT
  entry takes a dynamic relocation that was not reserved.
  Local entries of the later parts never get their value (`MipsRelocator.cpp:616`).
* Mips, thread-local. `consumeTLS` moves one entry forward where `GD` and `LDM`
  take two (`MipsGOT.cpp:64`), so that the next one overlaps; the entries
  are reserved once but handed out once for each part; they are counted neither
  by `isGOTFull` nor by `getGPAddr`, and lie between the first part and the symbols
  that continue it. `GD` against a local symbol has neither symbol nor addend.
* Mips, relative to gp. `gprel32` adds the input's own gp (`GP0`) for any symbol,
  `gprel16` for local ones only; the instances have `GPREL32` against local
  symbols.
* Mips, static and shared. A static link with thread-local symbols or several parts
  trips the assertion of `doPreLayout`. In a shared object `HI16` against a foreign
  symbol makes a copy, as it does against a function. An address taken of a
  function that has a PLT entry is 0. A `HI16` without a `LO16` is
  never applied. `rel26` masks with `0x3F000000`, so that jumps
  of text above 16 MB lose bits. `GOT_PAGE` and `GOT_DISP` drop the addend of symbols that are
  not section symbols, `GOT_OFST` is not implemented, `gothi16` shifts
  by the addend, and `PCHI16` measures from itself with the addend of a low half that
  is measured from the low half.
* Layout. When the `PT_LOAD` of the headers is merged with a segment that has a
  `NOBITS` section, as in a link with `-N` and a script that starts at
  `SIZEOF_HEADERS`, `setupProgramHdrs` steps back twice from that section
  (`GNULDBackend.cpp:1955`, `GNULDBackend.cpp:1963`): the file image of the segment ends before the data
  section in front of it, or has length 0, and the data are not loaded. The
  instances of `layout` reach both cases; `SegmentsFit` does not ask the length of the
  image there (`CutShort`), and asks everything else. If the `NOBITS` section is the first
  of its segment, the code steps in front of the list: no instance has that. After any `NOBITS` section the address is not advanced, so that `.bss`,
  `.sbss` and `.lbss` share an address (`GNULDBackend.cpp:2167`; the comment there
  is about `.tbss`), and the last `PT_LOAD` can be too short. The
  comment at `GNULDBackend.cpp:2196` about the end of RELRO is false unless
  `.got` is its last section; with a script that lets relro sections lie in several
  places `.got` is moved again at each crossing. `createProgramHdrs` stops at the
  first section without `ALLOC`. When the `PT_LOAD` of the headers is
  dropped, `SIZEOF_HEADERS` changes after it has been used. A section
  alignment above the page size, or a script's gap inside one `PT_LOAD`,
  breaks the congruence of offset and address; `-Tbss` with `.tbss` first
  makes segments overlap; a script that starts at 0 without
  `SIZEOF_HEADERS` wraps the address of the first segment.
* Scripts. `Assignment::operator=` (`Assignment.cpp:44`) assigns nothing, so that
  the insertion of a helper assignment in front of an explicit one
  (`SectionMap.cpp:345`) loses the helper when the vector has room, as with three
  assignments to `.` in a row; the explicit one is then evaluated from its own old value. Assignments behind the last output description are dropped. The
  symbols in an expression for `.` are still 0 during layout. An operand that
  names an input description without content of its own is 0. An assignment in a description that
  matches nothing attaches to the output before it. The
  kind of an output section is that of its first input. An unmet
  `ONLY_IF_RO` or `ONLY_IF_RW` description leaves a section in the map that breaks
  the program headers. `DATA_SEGMENT_ALIGN` does not do what its comment says.
* Branch islands. The size of a section is reset only for its first island
  (`ARMLDBackend.cpp:942`). `pFinished` stays true when only the last island of
  a section got stubs, so that branches from and to a section that moves behind it
  are not measured again; `SectionBranchesReach` therefore speaks of the
  branches inside a section. The backward window of an island is measured from the
  start of a fragment. The symbols of two stubs for local functions
  of one name are the same (`Stub.cpp:36`). The fold of keys announced by
  `Folded symbols may use the existing stub` never has an effect. `.symtab` is
  grown for a reused stub, too, but never under `-x`, where the symbols of stubs are written all the
  same (`ARMLDBackend.cpp:868`); Hexagon and Mips never grow `sh_info`. When a padding and the fragment behind it are
  larger than a branch reaches, two islands may be put at the same
  fragment (`BranchIslandFactory.cpp:47`).
  `THM_JUMP19` and the like never get a stub.

## 6. Not modelled, and the plan

In this order:

1. Relocation, continued: thread-local storage on x86 (the GOT entries shared
   by its models, `X86Relocator.cpp:438`) and ARM, then the scan and the apply of
   Hexagon, with the shape and the properties of `X86Relocator`.
2. `InputReading` with the tree, linker scripts and COMDAT groups; the reader
   of sections.
3. `EhFrame`, `DynamicSection`, `Attributes`, `HashTable`.
4. `ASSERT` and the string operators of scripts; the target hooks of layout.

Theorems worth proving next: `NothingRunsOut` of `MipsRelocator`, whose
invariant would pair what each input has reserved in its part with what the
apply may still take; `SectionBranchesReach` of `BranchIslands`; that as many
iterations as candidates make the indices of `IdenticalCodeFolding` settle;
the address pass of `Layout` for a single output section.

Left out for good: the layout of bytes in ELF files and archives, parsing of
options and scripts (the grammar is generated), diagnostics' texts, memory
allocation, file I/O, the generated encodings and vendored code. They are
plain sequential code whose tests compare outputs.
