-------------------------------- MODULE Layout --------------------------------
(* Layout of the output (GNULDBackend): the order of the output sections, the *)
(* program headers, the file offsets and the addresses, the passes repeated   *)
(* by relaxation, and the values of the symbols a script defines.             *)
EXTENDS LinkerScript

LOCAL INSTANCE SequencesExt
LOCAL INSTANCE FiniteSetsExt

CONSTANTS
    EhdrSize, PhdrSize,   \* the sizes of the ELF header and of one program header
    TextStart,            \* defaultTextSegmentAddr() of the target
    Links,                \* the links to study: their script, input sections and options
    Growth, MaxGrowth     \* stubs add Growth bytes at a time to .text, MaxGrowth in all

VARIABLES
    phase,       \* what the linker does next
    opt,         \* the options of the link
    values,      \* SymOperand::m_Value of the symbol of each assignment
    symbols,     \* the values of the symbols of the link that scripts name
    segments,    \* the segment table
    grown        \* the bytes relaxation has added to .text

layoutVars == <<phase, opt, values, symbols, segments, grown>>
vars == <<commands, awaiting, sectionMap, assignments, created, inputs, module,
          phase, opt, values, symbols, segments, grown>>

Script == opt.script       \* the list of scripts (-T) is not empty
-----------------------------------------------------------------------------
(* getSectionOrder and getTargetSectionOrder; the order in which the output  *)
(* is laid out when no script fixes it.                                      *)
OrderNames == <<"NULL", "INTERP", "RO_NOTE", "NAMEPOOL", "RELOCATION", "REL_PLT", "INIT", "PLT",
                "TEXT", "FINI", "RO", "EXCEPTION", "TLS_DATA", "TLS_BSS", "RELRO_LOCAL", "RELRO",
                "RELRO_LAST", "NON_RELRO_FIRST", "DATA", "LARGE_DATA", "RW_NOTE", "SMALL_DATA",
                "SMALL_BSS", "BSS", "LARGE_BSS", "UNDEFINED", "STRTAB">>
SHO(name) == SelectInSeq(OrderNames, LAMBDA n : n = name) - 1

RelroSections == {".preinit_array", ".init_array", ".fini_array", ".ctors", ".dtors", ".jcr",
                  ".data.rel.ro"}
EndsWith(name, suffix) ==
    /\ Len(name) >= Len(suffix)
    /\ SubSeq(name, Len(name) - Len(suffix) + 1, Len(name)) = suffix

TargetOrder(s) ==
    CASE s.name = ".got" ->
             IF opt.target = "ARM" THEN (IF opt.now THEN "RELRO_LAST" ELSE "DATA")
             ELSE (IF opt.now THEN "RELRO" ELSE "RELRO_LAST")
      [] s.name = ".got.plt" /\ opt.target # "ARM" ->
             IF opt.now /\ opt.target = "X86" THEN "RELRO" ELSE "NON_RELRO_FIRST"
      [] s.name = ".plt" -> "PLT"
      [] s.name \in {".ARM.exidx", ".ARM.extab"} /\ opt.target = "ARM" -> "EXCEPTION"
      [] OTHER -> "UNDEFINED"

DataOrder(s) ==
    CASE "X" \in s.flags ->
             (CASE s.name = ".init" -> "INIT" [] s.name = ".fini" -> "FINI" [] OTHER -> "TEXT")
      [] "X" \notin s.flags /\ "W" \notin s.flags -> "RO"
      [] OTHER ->
             (CASE opt.relro /\ s.name \in RelroSections -> "RELRO"
                [] opt.relro /\ s.name = ".data.rel.ro.local" -> "RELRO_LOCAL"
                [] opt.relro /\ EndsWith(s.name, ".rel.ro") -> "RELRO"
                [] OTHER -> IF "T" \in s.flags THEN "TLS_DATA" ELSE "DATA")

SectionOrder(s) ==
    SHO(CASE s.kind = "Null" -> "NULL"
          [] s.name = ".strtab" -> "STRTAB"
          [] s.kind # "Null" /\ s.name # ".strtab" /\ "A" \notin s.flags -> "UNDEFINED"
          [] OTHER ->
             CASE s.kind \in {"TEXT", "DATA"} -> DataOrder(s)
               [] s.kind = "BSS" -> IF "T" \in s.flags THEN "TLS_BSS" ELSE "BSS"
               [] s.kind = "NamePool" -> IF s.name = ".dynamic" THEN "RELRO" ELSE "NAMEPOOL"
               [] s.kind = "Relocation" ->
                      IF s.name \in {".rel.plt", ".rela.plt"} THEN "REL_PLT" ELSE "RELOCATION"
               [] s.kind = "Target" -> TargetOrder(s)
               [] s.kind = "Note" ->
                      IF s.name = ".interp" THEN "INTERP"
                      ELSE IF "W" \in s.flags THEN "RW_NOTE" ELSE "RO_NOTE"
               [] s.kind = "EhFrame" -> IF "W" \in s.flags THEN "RELRO" ELSE "EXCEPTION"
               [] s.kind \in {"EhFrameHdr", "GCCExceptTable"} -> "EXCEPTION"
               [] OTHER -> "UNDEFINED")
-----------------------------------------------------------------------------
(* placeOutputSections.  A description with its section; whether anything of *)
(* it reaches the file.                                                      *)
Special(s) == s.kind \in {"Null", "StackNote"}
HasContent(out) == out.section.size # 0
Emitted(out) == HasContent(out) \/ Special(out.section)

Wanted(s) == Special(s) \/ s.size # 0

ConstraintMet(out, s) ==
    CASE out.prolog.constraint = "NONE" -> TRUE
      [] out.prolog.constraint = "ONLY_IF_RO" -> "W" \notin s.flags
      [] out.prolog.constraint = "ONLY_IF_RW" -> "W" \in s.flags

(* The sections of the module go to the first description of their name that *)
(* accepts them, the others are orphans.                                     *)
PlaceKnown(map, table) ==
    LET Step(st, s) ==
            LET at == SelectInSeq(st.map, LAMBDA out : out.name = s.name /\ ConstraintMet(out, s))
            IN  IF ~Wanted(s) THEN st
                ELSE IF at = 0 THEN [st EXCEPT !.orphans = Append(@, s)]
                ELSE [st EXCEPT !.map[at].section = s, !.map[at].order = SectionOrder(s)]
    IN  FoldLeft(Step, [map |-> map, orphans |-> <<>>], table)

(* A description without a section takes flags, order and type from the next *)
(* one that has.                                                             *)
InheritNothing(map) == map
InheritOrder(map) ==
    LET Step(st, out) ==
            IF Emitted(out)
            THEN [map |-> <<out>> \o st.map, flags |-> out.section.flags, order |-> out.order,
                  type |-> out.prolog.type]
            ELSE [st EXCEPT !.map = <<[out EXCEPT !.section.flags = st.flags, !.order = st.order,
                                                  !.prolog.type = st.type]>> \o @]
        start == [map |-> <<>>, flags |-> {}, order |-> SHO("UNDEFINED"), type |-> "LOAD"]
    IN  FoldRight(LAMBDA out, st : Step(st, out), map, start).map

(* An orphan goes before the first description of a later order.             *)
InsertOrphan(map, s) ==
    LET order == SectionOrder(s)
        k == Len(map) + 1000
        later == {i \in DOMAIN map : map[i].order > order}
        at == IF s.kind = "Null" THEN 1 ELSE IF later = {} THEN Len(map) + 1 ELSE Min(later)
        takesOwn == [files |-> {}, excluded |-> {}, sections |-> {s.name}]
        out == [NewOutput([name |-> s.name, prolog |-> NoProlog], k) EXCEPT !.section = s, !.order = order,
                                                       !.inputs = <<NewInput(takesOwn, <<k, 1>>)>>]
    IN  InsertAt(map, at, out)

(* std::stable_sort by order.                                                *)
Sorted(map) ==
    LET Of(order) == SelectSeq(map, LAMBDA out : out.order = order)
    IN  FoldLeft(LAMBDA done, o : done \o Of(o), <<>>, [i \in 1..27 |-> i - 1])

(* std::vector::insert on a list of assignments, before position p.  With    *)
(* room to spare the vector moves its elements up with Assignment's          *)
(* operator=, which assigns nothing: only a copy of the last one is made.    *)
Spare(n) == \A i \in 0..10 : n # 2^i
InsertDot(dots, p, a) ==
    IF p <= Len(dots) /\ Spare(Len(dots)) THEN Append(dots, dots[Len(dots)])
    ELSE InsertAt(dots, p, a)

(* SectionMap::fixupDotSymbols, for the description at i: the first explicit *)
(* assignment to `.' that still reads `.' gets one before it that computes   *)
(* the end of the section before; so does an address that reads `.'.         *)
DotBefore(map, i) == EndOf(map[i].id)
EndBefore(map, i) == EndOf(map[i - 1].id)
FixupDot(map, i, k) ==
    LET dots == map[i].dots
        p == SelectInSeq(dots, LAMBDA a : a.type = "DEFAULT")
        helper == Dot("DEFAULT", EndBefore(map, i), k)
        new == InsertDot(dots, p, helper)
        ref == new[p].id
        Fix(a) == IF a.id = dots[p].id THEN [a EXCEPT !.expr = Substitute(@, ref)] ELSE a
    IN  IF p # 0 /\ HasDot(dots[p].expr)
        THEN [map EXCEPT ![i].dots = [j \in DOMAIN new |-> Fix(new[j])]]
        ELSE map
FixupAddress(map, i, k) ==
    LET dots == map[i].dots
        p == SelectLastInSeq(dots, LAMBDA a : a.type = "DEFAULT")
        helper == Dot("DEFAULT", EndBefore(map, i), k)
        new == IF p = 0 THEN Append(dots, helper) ELSE dots
        ref == IF p = 0 THEN k ELSE dots[p].id
    IN  IF HasDot(map[i].prolog.vma)
        THEN [map EXCEPT ![i].dots = new, ![i].prolog.vma = Substitute(@, ref)]
        ELSE map
FixupDotSymbols(map, n) ==
    LET Step(m, i) == FixupAddress(FixupDot(m, i, n + 2 * i), i, n + 2 * i + 1)
    IN  FoldLeft(Step, map, [i \in 1..(Len(map) - 1) |-> i + 1])

PlaceOutputSections(map, table, n) ==
    LET known == PlaceKnown(map, table)
        placed == FoldLeft(InsertOrphan, InheritOrder(known.map), known.orphans)
    IN  FixupDotSymbols(IF Script THEN placed ELSE Sorted(placed), n)
-----------------------------------------------------------------------------
(* createProgramHdrs.  A segment lists the descriptions whose sections it    *)
(* holds; At finds the description of an id.                                 *)
At(map, id) == SelectInSeq(map, LAMBDA out : out.id = id)
SectionOf(map, id) == map[At(map, id)].section
OfName(map, name) == SelectInSeq(map, LAMBDA out : out.section.name = name /\ Emitted(out))

SegmentFlags(flags) == {f \in {"R", "W", "X"} : \/ f = "R" /\ "A" \in flags
                                                \/ f # "R" /\ f \in flags}
Segment(type, flags, ids) == [type |-> type, flags |-> flags, sects |-> ids, align |-> 0,
                              offset |-> 0, vaddr |-> 0, filesz |-> 0, memsz |-> 0]
IsData(seg) == seg.type = "LOAD" /\ "W" \in seg.flags
IsBss(map, seg) == IsData(seg) /\ \A i \in DOMAIN seg.sects : SectionOf(map, seg.sects[i]).kind = "BSS"

(* The loop over the output sections, up to the first one that takes no      *)
(* memory; a new PT_LOAD starts where one of five conditions asks for it.    *)
LoadSegments(map) ==
    LET Loaded(out) == "A" \in out.section.flags \/ out.section.kind = "Null"
        unloaded == {i \in DOMAIN map : ~Loaded(map[i])}
        last == IF unloaded = {} THEN Len(map) ELSE Min(unloaded) - 1
        Starts(st, i) ==
            LET s == map[i].section
                flags == SegmentFlags(s.flags)
            IN  \/ s.kind = "Null"
                \/ ~opt.omagic /\ ("W" \in st.flags) # ("W" \in flags)
                \/ s.kind = "BSS" /\ IsData(st.segs[Len(st.segs)]) /\ ".bss" \in DOMAIN opt.addressMap
                \/ s.name \notin {".text", ".data", ".bss"} /\ s.name \in DOMAIN opt.addressMap
                \/ map[i - 1].section.kind = "Null" /\ Script
        New(flags) == [Segment("LOAD", flags, <<>>) EXCEPT !.align =
                           IF opt.nmagic \/ opt.omagic THEN 0 ELSE PageSize]
        Step(st, i) ==
            LET flags == SegmentFlags(map[i].section.flags)
                segs == IF Starts(st, i) THEN Append(st.segs, New(flags)) ELSE st.segs
                n == Len(segs)
            IN  IF ~HasContent(map[i]) /\ map[i].section.kind # "Null" THEN st
                ELSE [flags |-> flags,
                      segs |-> [segs EXCEPT ![n].sects = Append(@, map[i].id),
                                            ![n].flags = IF flags # st.flags THEN @ \cup flags ELSE @]]
    IN  FoldLeft(Step, [flags |-> {}, segs |-> <<>>], [i \in 1..last |-> i]).segs

(* The segments for the loader and the dynamic linker.                       *)
IdsOf(map, names) == LET there == SelectSeq(map, LAMBDA out : HasContent(out) /\ out.section.name \in names)
                     IN  [i \in DOMAIN there |-> there[i].id]
IfAny(seg) == IF seg.sects = <<>> THEN <<>> ELSE <<seg>>

RelroIds(map, loads) ==
    LET ids == FlattenSeq([i \in DOMAIN loads |-> loads[i].sects])
        Is(id) == SectionOrder(SectionOf(map, id)) \in SHO("RELRO_LOCAL")..SHO("RELRO_LAST")
    IN  SelectSeq(ids, Is)

(* PT_NOTE: one segment for each run of notes of the same writability.       *)
NoteSegments(map) ==
    LET notes == SelectSeq(map, LAMBDA out : /\ HasContent(out)
                                             /\ out.section.kind = "Note" /\ out.section.name # ".interp"
                                             /\ "A" \in out.section.flags)
        Step(segs, out) ==
            LET flags == SegmentFlags(out.section.flags)
                n == Len(segs)
            IN  IF n = 0 \/ ("W" \in flags) # ("W" \in segs[n].flags)
                THEN Append(segs, Segment("NOTE", flags, <<out.id>>))
                ELSE [segs EXCEPT ![n].sects = Append(@, out.id)]
    IN  FoldLeft(Step, <<>>, notes)

CreateProgramHdrs(map) ==
    LET Of(names) == IdsOf(map, names)
        loads == LoadSegments(map)
        stack == SelectInSeq(map, LAMBDA out : out.section.kind = "StackNote")
    IN  (IF Of({".interp"}) = <<>> THEN <<>>
         ELSE <<Segment("PHDR", {"R"}, <<>>), Segment("INTERP", {"R"}, Of({".interp"}))>>)
        \o loads
        \o IfAny(Segment("DYNAMIC", {"R", "W"}, Of({".dynamic"})))
        \o (IF opt.relro THEN <<Segment("GNU_RELRO", {"R"}, RelroIds(map, loads))>> ELSE <<>>)
        \o IfAny(Segment("GNU_EH_FRAME", {"R"}, Of({".eh_frame_hdr"})))
        \o IfAny(Segment("TLS", {"R"}, Of({".tdata"}) \o Of({".tbss"})))
        \o (IF stack = 0 THEN <<>>
            ELSE <<Segment("GNU_STACK", {"R", "W"} \cup SegmentFlags(map[stack].section.flags), <<>>)>>)
        \o NoteSegments(map)
        \o (IF opt.target = "ARM" THEN IfAny(Segment("ARM_EXIDX", {"R"}, Of({".ARM.exidx"}))) ELSE <<>>)

SectionStartOffset(segs) == EhdrSize + Len(segs) * PhdrSize

SegmentStartAddr ==
    IF ".text" \in DOMAIN opt.addressMap THEN opt.addressMap[".text"]
    ELSE IF opt.pic THEN 0 ELSE TextStart
-----------------------------------------------------------------------------
(* What an expression can read when it is evaluated.  A fragment that is in  *)
(* no section of the output any more has the offset and the address 0.       *)
Env(map, vals, segs) ==
    LET FragmentAddress(tag) ==
            LET holders == {i \in DOMAIN map : \E j \in DOMAIN map[i].section.frags :
                                map[i].section.frags[j].k = "first" /\ map[i].section.frags[j].of = tag}
                s == map[Min(holders)].section
                j == SelectInSeq(s.frags, LAMBDA f : f.k = "first" /\ f.of = tag)
            IN  IF holders = {} THEN 0 ELSE (s.addr + s.frags[j].at) % Word
        tags == UNION {{<<map[i].id, j>> : j \in DOMAIN map[i].inputs} : i \in DOMAIN map}
    IN  [values |-> vals, symbols |-> symbols, headers |-> SectionStartOffset(segs),
         addressMap |-> opt.addressMap,
         descs |-> [id \in {map[i].id : i \in DOMAIN map} |-> SectionOf(map, id)],
         named |-> [name \in {map[i].section.name : i \in {j \in DOMAIN map : Emitted(map[j])}}
                        |-> map[OfName(map, name)].section],
         frags |-> [tag \in tags |-> FragmentAddress(tag)]]

(* Assignment::assign.                                                       *)
AssignDot(st, segs, a) ==
    [st EXCEPT !.values[a.id] = Eval(Env(st.map, st.values, segs), a.expr)]

(* setOutputSectionAddress, the address of the section at i: an option, the  *)
(* description, the script's `.', or the end of the section before.          *)
StartsLoad(st, segs, i) ==
    \E n \in DOMAIN segs : segs[n].type = "LOAD" /\ segs[n].sects[1] = st.map[i].id
LoadOf(st, segs, i) ==
    segs[SelectInSeq(segs, LAMBDA seg : seg.type = "LOAD" /\ seg.sects[1] = st.map[i].id)]

OptionKey(st, segs, i) ==
    LET seg == LoadOf(st, segs, i) IN
    IF IsBss(st.map, seg) THEN ".bss" ELSE IF IsData(seg) THEN ".data"
    ELSE st.map[i].section.name

(* After a NOBITS section the address does not advance: that is meant for    *)
(* .tbss.                                                                    *)
NextAddress(st, segs, i) ==
    LET cur  == st.map[i].section
        prev == st.map[i - 1].section
        plain == IF prev.kind = "Null"
                 THEN IF Script THEN 0 ELSE SegmentStartAddr + SectionStartOffset(segs)
                 ELSE IF prev.kind = "BSS" THEN prev.addr ELSE prev.addr + prev.size
        aligned == Align(plain % Word, cur.align)
    IN  IF Script \/ ~StartsLoad(st, segs, i) THEN aligned
        ELSE IF ~opt.relro THEN Align(aligned, LoadOf(st, segs, i).align)
        ELSE IF aligned % PageSize # 0 THEN (aligned + PageSize) % Word ELSE aligned

LastDot(out) == SelectLastInSeq(out.dots, LAMBDA a : a.type = "DEFAULT")

AddressOf(st, segs, i) ==
    LET out == st.map[i]
        prev == st.map[i - 1].section
        fromOption == StartsLoad(st, segs, i) /\ OptionKey(st, segs, i) \in DOMAIN opt.addressMap
    IN  CASE fromOption -> opt.addressMap[OptionKey(st, segs, i)]
          [] ~fromOption /\ out.prolog.vma # <<>> ->
                 Eval(Env(st.map, st.values, segs), out.prolog.vma)
          [] ~fromOption /\ out.prolog.vma = <<>> /\ LastDot(out) # 0 ->
                 Align(st.values[out.dots[LastDot(out)].id], out.section.align)
          [] OTHER ->
                 IF out.prolog.type = "NOLOAD" THEN (prev.addr + prev.size) % Word
                 ELSE IF "A" \in out.section.flags THEN NextAddress(st, segs, i) ELSE 0

(* With -z relro the first section behind the relro ones starts a page, and  *)
(* .got is moved up to it.                                                   *)
AfterRelro(st, i) ==
    opt.relro /\ st.map[i - 1].order <= SHO("RELRO_LAST") /\ st.map[i].order > SHO("RELRO_LAST")
MoveGotToEnd(map, vma) ==
    LET g == OfName(map, ".got")
    IN  IF g # 0 THEN [map EXCEPT ![g].section.addr = vma] ELSE map
MoveGot(map, vma) ==
    LET g == OfName(map, ".got")
        got == map[g].section
        end == got.addr + got.size
    IN  IF g # 0 /\ SectionOrder(got) = SHO("RELRO_LAST") /\ end < vma
        THEN [map EXCEPT ![g].section.addr = vma - got.size,
                         ![g].section.offset = (got.offset + vma - end) % Word]
        ELSE map

(* The file offset, congruent to the address modulo the page size.           *)
OffsetPacked(map, segs, i, vma) ==
    Align(map[i - 1].section.offset + map[i - 1].section.size, map[i].section.align)
OffsetOf(map, segs, i, vma) ==
    LET cur  == map[i].section
        prev == map[i - 1].section
        next == CASE prev.kind = "Null" -> SectionStartOffset(segs)
                  [] prev.kind = "BSS"  -> prev.offset
                  [] OTHER -> prev.offset + prev.size
        offset == Align(next, cur.align)
    IN  IF "A" \in cur.flags /\ vma % PageSize # offset % PageSize
        THEN (offset + PageSize + (vma % PageSize)) - (offset % PageSize)
        ELSE offset

(* The size of a section whose fragments have moved.                         *)
Resized(s, frags) ==
    IF frags = s.frags THEN s
    ELSE [s EXCEPT !.frags = frags, !.size = EndOfFragment(frags[Len(frags)]) % Word]

(* The assignments to `.' inside the section: the second null fragment of    *)
(* the input description moves to the position, what follows it is put       *)
(* behind it, and the size of the section follows.                           *)
InputDots(st, segs, i) ==
    LET Move(frags, tag, at) ==
            LET p == SelectInSeq(frags, LAMBDA f : f.k = "second" /\ f.of = tag)
            IN  IF p = 0 \/ frags[p].at = at THEN frags
                ELSE SubSeq(frags, 1, p - 1) \o Chain(SubSeq(frags, p, Len(frags)), at)
        Moved(now, s, dot) ==
            [now EXCEPT !.map[i].section =
                 Resized(s, Move(s.frags, dot.tag, (now.values[dot.a.id] - s.addr) % Word))]
        After(now, dot) == IF dot.a.moves THEN Moved(now, now.map[i].section, dot) ELSE now
        Step(now, dot) == After(AssignDot(now, segs, dot.a), dot)
        out == st.map[i]
        Of(j) == [d \in DOMAIN out.inputs[j].dots |-> [a |-> out.inputs[j].dots[d], tag |-> <<out.id, j>>]]
    IN  FoldLeft(Step, st, FlattenSeq([j \in DOMAIN out.inputs |-> Of(j)]))

(* setOutputSectionAddress.                                                  *)
SetOutputSectionAddress(map, vals, segs) ==
    LET Placed(m, i, vma) == [m EXCEPT ![i].section.addr = vma,
                                       ![i].section.offset = OffsetOf(m, segs, i, vma)]
        PlacedAt(st, i, vma) ==
            [st EXCEPT !.map = Placed(IF AfterRelro(st, i) THEN MoveGot(@, vma) ELSE @, i, vma)]
        Address(st, i, plain) == IF AfterRelro(st, i) THEN Align(plain, PageSize) ELSE plain
        Place(st, i) == InputDots(PlacedAt(st, i, Address(st, i, AddressOf(st, segs, i))), segs, i)
        Dots(st, i) == FoldLeft(LAMBDA now, a : AssignDot(now, segs, a), st, st.map[i].dots)
        Step(st, i) == IF st.map[i].section.kind = "Null" THEN st ELSE Place(Dots(st, i), i)
    IN  FoldLeft(Step, [map |-> map, values |-> vals], [i \in DOMAIN map |-> i])

(* setOutputSectionOffset, for a relocatable output.                         *)
SetOutputSectionOffset(map) ==
    LET Behind(prev) == CASE prev.kind = "Null" -> EhdrSize
                        [] prev.kind = "BSS"  -> prev.offset
                        [] OTHER -> prev.offset + prev.size
        Step(m, i) == IF m[i].section.kind = "Null" THEN m
                      ELSE [m EXCEPT ![i].section.offset =
                                Align(Behind(m[i - 1].section), m[i].section.align)]
    IN  FoldLeft(Step, map, [i \in DOMAIN map |-> i])
-----------------------------------------------------------------------------
(* setupProgramHdrs: the extent of each segment that has sections.           *)
OnlyNull(map, seg) ==
    seg.type = "LOAD" /\ Len(seg.sects) = 1 /\ SectionOf(map, seg.sects[1]).kind = "Null"
FileEnd(s) == s.offset + s.size
MemoryEnd(s) == s.addr + s.size

Extent(map, seg) ==
    LET Of(n) == SectionOf(map, seg.sects[n])
        inFile == SelectLastInSeq(seg.sects, LAMBDA id : SectionOf(map, id).kind # "BSS")
        vaddr == IF seg.type = "LOAD" /\ Of(1).kind = "Null" THEN (Of(2).addr - Of(2).offset) % Word
                 ELSE Of(1).addr
    IN  IF seg.sects = <<>> \/ OnlyNull(map, seg) THEN seg
        ELSE [seg EXCEPT !.offset = Of(1).offset, !.vaddr = vaddr,
                         !.filesz = IF inFile = 0 THEN 0 ELSE FileEnd(Of(inFile)) - Of(1).offset,
                         !.memsz = (MemoryEnd(Of(Len(seg.sects))) - vaddr) % Word]

(* A PT_LOAD that holds nothing but the headers is merged with the next one, *)
(* is given their size, or is dropped.  In a merged segment with a NOBITS    *)
(* section the file image ends one section too early; if that section is the *)
(* first, the code steps in front of the list, and no value is given here.   *)
MergeNull(map, segs) ==
    LET null == SelectInSeq(segs, LAMBDA seg : OnlyNull(map, seg))
        loads == {n \in (null + 1)..Len(segs) : segs[n].type = "LOAD"}
        n == Min(loads)
        Of(m) == SectionOf(map, segs[n].sects[m])
        addr == (Of(1).addr - Of(1).offset) % Word
        size == SectionStartOffset(segs)
        bss == SelectInSeq(segs[n].sects, LAMBDA id : SectionOf(map, id).kind = "BSS")
        filesz == CASE bss = 0 -> FileEnd(Of(Len(segs[n].sects)))
                    [] bss = 2 -> 0
                    [] OTHER -> FileEnd(Of(bss - 2))
        merged == [segs EXCEPT ![n].offset = 0, ![n].vaddr = addr, ![n].filesz = filesz,
                               ![n].memsz = (MemoryEnd(Of(Len(segs[n].sects))) - addr) % Word,
                               ![n].sects = segs[null].sects \o @]
    IN  IF null = 0 \/ loads = {} THEN segs
        ELSE IF (addr + size) % Word = Of(1).addr THEN RemoveAt(merged, null)
        ELSE IF (addr + size) % Word < segs[n].vaddr
        THEN [segs EXCEPT ![null].offset = 0, ![null].vaddr = addr,
                          ![null].filesz = size, ![null].memsz = size]
        ELSE RemoveAt(segs, null)

(* PT_PHDR needs a segment that holds the headers.                           *)
PlacePhdr(map, segs) ==
    LET phdr == SelectInSeq(segs, LAMBDA seg : seg.type = "PHDR")
        IsNull(id) == SectionOf(map, id).kind = "Null"
        null == SelectInSeq(segs, LAMBDA seg : seg.type = "LOAD" /\ \E n \in DOMAIN seg.sects : IsNull(seg.sects[n]))
        size == Len(segs) * PhdrSize
    IN  IF phdr = 0 THEN segs
        ELSE IF null = 0 THEN RemoveAt(segs, phdr)
        ELSE [segs EXCEPT ![phdr].offset = EhdrSize, ![phdr].vaddr = (segs[null].vaddr + EhdrSize) % Word,
                          ![phdr].filesz = size, ![phdr].memsz = size]

SetupProgramHdrs(map, segs) ==
    PlacePhdr(map, MergeNull(map, [n \in DOMAIN segs |-> Extent(map, segs[n])]))
-----------------------------------------------------------------------------
(* ObjectLinker::mergeSections, begin and end.                               *)
ForceAligns ==
    /\ phase = "script" /\ commands = <<>>
    /\ sectionMap' = ForcedAligns(sectionMap, Env(sectionMap, values, segments))
    /\ phase' = "merge"
    /\ UNCHANGED <<commands, awaiting, assignments, created, inputs, module>>
    /\ UNCHANGED <<opt, values, symbols, segments, grown>>

GatherSections ==
    /\ phase = "merge" /\ inputs = <<>>
    /\ LET done == GatherInputs(sectionMap, module)
       IN  sectionMap' = done.map /\ module' = done.table
    /\ phase' = "layout"
    /\ UNCHANGED <<commands, awaiting, assignments, created, inputs>>
    /\ UNCHANGED <<opt, values, symbols, segments, grown>>

(* The section table after sortSectionHdrs: what the map still shows of it.  *)
TableOf(map) ==
    LET table == SelectSeq(map, LAMBDA out : opt.object \/ Emitted(out))
    IN  [i \in DOMAIN table |-> table[i].section]

(* What the addresses, or the offsets, have been given to.                   *)
Settle(done) ==
    /\ sectionMap' = done.map
    /\ module' = TableOf(done.map)
    /\ values' = done.values

(* GNULDBackend::layout.                                                     *)
LayOutMap(map, segs, n) ==
    /\ Settle(IF opt.object
              THEN [map |-> SetOutputSectionOffset(map), values |-> [k \in 1..n |-> 0]]
              ELSE SetOutputSectionAddress(map, [k \in 1..n |-> 0], segs))
    /\ segments' = segs
    /\ created' = n
LayOutPlaced(map) ==
    LayOutMap(map, IF opt.object THEN <<>> ELSE CreateProgramHdrs(map), created + 2 * Len(map) + 2)
LayOut ==
    /\ phase = "layout"
    /\ LayOutPlaced(PlaceOutputSections(sectionMap, module, created))
    /\ phase' = IF opt.object THEN "symbols" ELSE "relax"
    /\ UNCHANGED <<commands, awaiting, assignments, inputs, opt, symbols, grown>>

(* GNULDBackend::relax: an island behind some fragment of .text grows, and   *)
(* all addresses are computed again.                                         *)
MayRelax == opt.target \in {"ARM"}
WithIsland(frags, p) ==
    LET stub == [k |-> "stub", of |-> <<0, 0>>, n |-> Growth, at |-> 0]
    IN  SubSeq(frags, 1, p)
        \o Chain(<<stub>> \o SubSeq(frags, p + 1, Len(frags)), EndOfFragment(frags[p]))
Grown(i, frags) == [sectionMap EXCEPT ![i].section.frags = frags,
                                      ![i].section.size = EndOfFragment(frags[Len(frags)])]
Grow ==
    /\ phase = "relax" /\ MayRelax /\ grown < MaxGrowth
    /\ \E i \in DOMAIN sectionMap :
         LET s == sectionMap[i].section IN
         /\ s.kind = "TEXT" /\ HasContent(sectionMap[i])
         /\ \E p \in DOMAIN s.frags :
              /\ s.frags[p].k = "data" \/ p = Len(s.frags)
              /\ Settle(SetOutputSectionAddress(Grown(i, WithIsland(s.frags, p)), values, segments))
    /\ grown' = grown + Growth
    /\ UNCHANGED <<phase, commands, awaiting, assignments, created, inputs>>
    /\ UNCHANGED <<opt, symbols, segments>>

(* The end of postLayout.                                                    *)
FinishSegments ==
    /\ phase = "relax"
    /\ segments' = SetupProgramHdrs(sectionMap, segments)
    /\ phase' = "symbols"
    /\ UNCHANGED <<commands, awaiting, sectionMap, assignments, created, inputs, module>>
    /\ UNCHANGED <<opt, values, symbols, grown>>

(* addScriptSymbols: which assignments define a symbol.  PROVIDE does for a  *)
(* name that is referred to and not defined.                                 *)
DefinesSymbol(a) == a.type \in {"PROVIDE", "PROVIDE_HIDDEN"} => a.name \in opt.undefined

(* ObjectLinker::finalizeSymbolValue, the symbols of the script.             *)
FinalizeSymbolValue ==
    /\ phase = "symbols"
    /\ LET Step(st, a) ==
               LET value == Eval([Env(sectionMap, st.values, segments) EXCEPT !.symbols = st.symbols], a.expr)
               IN  IF ~DefinesSymbol(a) THEN st
                   ELSE [values  |-> [st.values EXCEPT ![a.id] = value],
                         symbols |-> [st.symbols EXCEPT ![a.name] = value]]
           done == FoldLeft(Step, [values |-> values, symbols |-> symbols], assignments)
       IN  values' = done.values /\ symbols' = done.symbols
    /\ phase' = "done"
    /\ UNCHANGED <<commands, awaiting, sectionMap, assignments, created, inputs, module>>
    /\ UNCHANGED <<opt, segments, grown>>
-----------------------------------------------------------------------------
(* MCLDEmulateELF: the map without a script; with one, or with -r, a single  *)
(* output without a name, which the NULL section takes.                      *)
DefaultRules ==
    <<<<".text", {".text", ".text.hot"}>>, <<".rodata", {".rodata"}>>, <<".data.rel.ro", {".data.rel.ro"}>>,
      <<".data", {".data", ".data.far"}>>, <<".bss", {".bss"}>>, <<".tdata", {".tdata"}>>, <<".tbss", {".tbss"}>>,
      <<".init_array", {".init_array"}>>, <<".sdata", {".sdata"}>>, <<".sbss", {".sbss"}>>>>
AllFiles == {link.inputs[i].file : <<link, i>> \in UNION {{l} \X DOMAIN l.inputs : l \in Links}}
DefaultMap ==
    LET Out(k) == LET rule == DefaultRules[k]
                      out == NewOutput([name |-> rule[1], prolog |-> NoProlog], k)
                      takes == [files |-> AllFiles, excluded |-> {}, sections |-> rule[2]]
                  IN  [out EXCEPT !.inputs = <<NewInput(takes, <<k, 1>>)>>]
    IN  [k \in DOMAIN DefaultRules |-> Out(k)]
NamelessOutput == [NewOutput([name |-> "", prolog |-> NoProlog], 0) EXCEPT
                      !.inputs = <<NewInput(TakesNothing, <<0, 1>>)>>]

AssignedNames(cmds) ==
    LET bodies == {cmds[i].body : i \in {j \in DOMAIN cmds : cmds[j].c = "desc"}}
        written == ToSet(cmds) \cup UNION {ToSet(body) : body \in bodies}
    IN  {c.name : c \in {w \in written : w.c \in {"assign", "outside"}}} \ {"."}

Init ==
    /\ \E link \in Links :
         /\ opt = link.opt /\ commands = link.commands /\ inputs = link.inputs /\ module = link.module
         /\ sectionMap = IF link.opt.script \/ link.opt.object THEN <<NamelessOutput>> ELSE DefaultMap
         /\ symbols = [name \in AssignedNames(link.commands) |-> 0]
    /\ awaiting = <<>> /\ assignments = <<>> /\ created = 0
    /\ phase = "script" /\ values = <<>> /\ segments = <<>> /\ grown = 0

ReadScript == phase = "script" /\ (ActivateOutside \/ HoldAssignment \/ ActivateDescription \/ LeaveSections)
              /\ UNCHANGED layoutVars
MergeInput == phase = "merge" /\ MergeSection /\ UNCHANGED layoutVars

Done == phase = "done" /\ UNCHANGED vars

Next == \/ ReadScript \/ ForceAligns \/ MergeInput \/ GatherSections \/ LayOut
        \/ Grow \/ FinishSegments \/ FinalizeSymbolValue \/ Done

Spec == Init /\ [][Next]_vars
-----------------------------------------------------------------------------
Final == phase = "done" /\ ~opt.object
Loads == {n \in DOMAIN segments : segments[n].type = "LOAD"}
Sections == {i \in DOMAIN sectionMap : HasContent(sectionMap[i])}
S(i) == sectionMap[i].section
InMemory(i) == "A" \in S(i).flags
InFile(i) == S(i).kind # "BSS"
Held(n) == {SectionOf(sectionMap, segments[n].sects[m]) : m \in DOMAIN segments[n].sects}

Phases == {"script", "merge", "layout", "relax", "symbols", "done"}
TypeOK ==
    /\ phase \in Phases
    /\ grown \in 0..MaxGrowth
    /\ \A i \in DOMAIN sectionMap :
         /\ S(i).addr \in 0..(Word - 1) /\ S(i).size \in 0..(Word - 1) /\ S(i).offset \in 0..(Word - 1)
         /\ phase \in {"script", "merge", "layout"} \/ sectionMap[i].order \in 0..26
    /\ \A k \in DOMAIN values : values[k] \in 0..(Word - 1)
    /\ \A n \in DOMAIN segments : ToSet(segments[n].sects) \subseteq {sectionMap[i].id : i \in DOMAIN sectionMap}

(* The loader maps a PT_LOAD page by page: the file image of every section   *)
(* it holds must come to lie at the address of the section.  With a script,  *)
(* gaps between the sections of a segment may break this, and the image of a *)
(* segment that has been merged with the headers is cut short if it has a    *)
(* NOBITS section: setupProgramHdrs steps back twice (GNULDBackend.cpp:1955  *)
(* and 1963), and the data before that section are not loaded.               *)
CutShort(n) ==
    /\ Script
    /\ \E s \in Held(n) : s.kind = "Null"
    /\ \E s \in Held(n) : s.kind = "BSS"
LoadsSections(n) ==
    LET seg == segments[n] IN
    /\ (seg.vaddr - seg.offset) % PageSize = 0
    /\ \A s \in Held(n) : s.kind \notin {"Null", "BSS"} =>
         /\ FileEnd(s) <= seg.offset + seg.filesz \/ CutShort(n)
         /\ Script \/ s.addr - seg.vaddr = s.offset - seg.offset
         /\ Script \/ MemoryEnd(s) <= seg.vaddr + seg.memsz

(* What the dynamic linker write-protects after relocation, the pages of     *)
(* PT_GNU_RELRO, holds no other writable data.                               *)
ProtectsNothingElse(n) ==
    LET seg == segments[n]
        end == seg.vaddr + seg.memsz
    IN  seg.sects # <<>> => \A i \in Sections :
          \/ sectionMap[i].id \in ToSet(seg.sects)
          \/ "W" \notin S(i).flags \/ "T" \in S(i).flags
          \/ Script
          \/ S(i).addr \div PageSize > (end - 1) \div PageSize

(* The segments say of the sections what the loader and the dynamic linker   *)
(* rely on (createProgramHdrs and setupProgramHdrs read what                 *)
(* setOutputSectionAddress computed).                                        *)
SegmentsFit ==
    Final => /\ \A n \in Loads : LoadsSections(n)
             /\ \A n \in DOMAIN segments : segments[n].type = "GNU_RELRO" => ProtectsNothingElse(n)

(* No two sections share bytes of the file, and none that the file holds     *)
(* share bytes of the memory.  (A section behind a NOBITS one does start at  *)
(* the address of that one: NextAddress.)                                    *)
Apart(a, sizeA, b, sizeB) == a + sizeA <= b \/ b + sizeB <= a
NothingOverlaps ==
    Final => \A i, j \in Sections : i < j /\ InFile(i) /\ InFile(j) =>
        /\ Apart(S(i).offset, S(i).size, S(j).offset, S(j).size)
        /\ InMemory(i) /\ InMemory(j) => Apart(S(i).addr, S(i).size, S(j).addr, S(j).size)

(* Once an address pass is over, a second one changes nothing: no expression *)
(* has read an address, a size or a position that was computed after it.     *)
AddressesSettled ==
    phase = "relax" =>
        SetOutputSectionAddress(sectionMap, values, segments) = [map |-> sectionMap, values |-> values]

(* A symbol assigned `.' right behind an output description is the end of    *)
(* its section; one assigned `.' right before an input description separates *)
(* the data taken before from the data taken by it and after it.  The values *)
(* are computed after relaxation, through assignments to `.' made before it. *)
BehindSection ==
    {<<i, j>> \in (DOMAIN opt.commands) \X (DOMAIN opt.commands) :
        /\ i < j /\ opt.commands[i].c = "desc" /\ opt.commands[j].c = "assign"
        /\ opt.commands[j].name # "." /\ opt.commands[j].expr = <<<<"dot">>>>
        /\ DefinesSymbol(opt.commands[j])
        /\ \A k \in (i + 1)..(j - 1) : opt.commands[k].c = "assign" /\ opt.commands[k].name # "."
        /\ \E k \in (j + 1)..Len(opt.commands) : opt.commands[k].c = "desc"}
BeforeInput ==
    {<<i, b>> \in (DOMAIN opt.commands) \X (1..10) :
        /\ opt.commands[i].c = "desc" /\ b < Len(opt.commands[i].body)
        /\ LET body == opt.commands[i].body IN
           /\ body[b].c = "assign" /\ body[b].name # "." /\ body[b].expr = <<<<"dot">>>>
           /\ body[b + 1].c = "input"}
Separates(value, desc, j) ==
    LET s == SectionOf(sectionMap, desc.id)
        second == SelectInSeq(s.frags, LAMBDA f : f.k = "second" /\ f.of = <<desc.id, j>>)
    IN  \A f \in DOMAIN s.frags : s.frags[f].k = "data" =>
            IF f < second THEN s.addr + s.frags[f].at + s.frags[f].n <= value
            ELSE value <= s.addr + s.frags[f].at
PositionSymbols ==
    Final =>
        /\ \A p \in BehindSection :
             symbols[opt.commands[p[2]].name] = MemoryEnd(SectionOf(sectionMap, opt.commands[p[1]].id))
        /\ \A p \in BeforeInput :
             LET desc == opt.commands[p[1]]
                 j == Len(SelectSeq(SubSeq(desc.body, 1, p[2] + 1), LAMBDA c : c.c = "input"))
             IN  SectionOf(sectionMap, desc.id).size # 0 => Separates(symbols[desc.body[p[2]].name], desc, j)

(* The data of every input section that is not discarded are in the output,  *)
(* once, in a section of the file if they are data, at an address of the     *)
(* alignment they ask for.                                                   *)
Copies(id) == {<<i, f>> \in Sections \X (1..40) :
                  f \in DOMAIN S(i).frags /\ S(i).frags[f].k = "data" /\ S(i).frags[f].of = <<id, 0>>}
InputsInPlace ==
    Final => \A n \in DOMAIN opt.inputs :
        LET in == opt.inputs[n]
            copies == Copies(in.id)
            discarded == \E i \in DOMAIN sectionMap : sectionMap[i].name = "/DISCARD/" /\
                             \E j \in DOMAIN sectionMap[i].inputs :
                                 Matched(sectionMap[i].inputs[j], in.file, in.section.name)
        IN  \/ copies = {} /\ discarded
            \/ \E c \in copies :
                 LET out == sectionMap[c[1]] IN
                 /\ copies = {c}
                 /\ out.section.kind = "BSS" => in.section.kind = "BSS"
                 /\ \/ out.prolog.vma # <<>> \/ out.prolog.subalign # <<>>
                    \/ (out.section.addr + out.section.frags[c[2]].at) % in.section.align = 0

(* The output is laid out as the script and the inputs ask: the data of the  *)
(* inputs are there, aligned, and the symbols of the script lie between them.*)
InputsAsAsked == PositionSymbols /\ InputsInPlace
=============================================================================
