----------------------------- MODULE LinkerScript -----------------------------
(* The commands of a linker script given with -T and the section map they    *)
(* fill (ScriptFile, SectionsCmd, OutputSectDesc, Assignment, SectionMap),   *)
(* and the merging of the input sections through that map (ObjectBuilder,    *)
(* ObjectLinker::mergeSections).  Without a script the map is the one of     *)
(* MCLDEmulateELF.                                                           *)
EXTENDS ScriptExpressions, Fragments

LOCAL INSTANCE SequencesExt
LOCAL INSTANCE FiniteSetsExt

VARIABLES
    commands,      \* the commands of the script that are still to be activated
    awaiting,      \* SectionsCmd::activate's assignments, held for the next output description
    sectionMap,    \* m_OutputDescList: the output descriptions, in order
    assignments,   \* LinkerScript::assignments(): what defines symbols
    created,       \* how many symbols of assignments exist: their names are 1..created
    inputs,        \* the input sections still to be merged
    module         \* the section table of the module

-----------------------------------------------------------------------------
(* Sections and fragments.  An input description i of description k starts   *)
(* with two null fragments tagged <<k, i>>, between which `.' moves things.  *)
NoSection == [name |-> "", kind |-> "TEXT", flags |-> {}, align |-> 0, size |-> 0,
              addr |-> 0, offset |-> 0, frags |-> <<>>]
NullFragments(tag) == <<[k |-> "first", of |-> tag, n |-> 0, at |-> 0],
                        [k |-> "second", of |-> tag, n |-> 0, at |-> 0]>>

(* ObjectBuilder::MoveSectionData, UpdateSectionAlign and updateSectionFlags:  *)
(* the fragments of `from' are spliced behind those of `to', an align fragment *)
(* first when `from' is aligned.                                               *)
MovePacked(from, to) ==
    LET moved == Chain(from.frags, to.size)
    IN  IF moved = <<>> THEN to
        ELSE [to EXCEPT !.frags = @ \o moved,
                        !.size = EndOfFragment(moved[Len(moved)])]
MoveSectionData(from, to) ==
    LET align == IF from.align > 1 THEN <<[k |-> "align", of |-> <<0, 0>>, n |-> from.align, at |-> 0]>> ELSE <<>>
        moved == Chain(align \o from.frags, to.size)
        size  == IF moved = <<>> THEN to.size
                 ELSE EndOfFragment(moved[Len(moved)])
    IN  [to EXCEPT !.frags = @ \o moved, !.size = size]
UpdateAlign(to, from) == [to EXCEPT !.align = IF from.align > @ THEN from.align ELSE @]
UpdateFlags(to, from) == [to EXCEPT !.flags = @ \cup (from.flags \cap {"W", "A", "X"})]
Merge(from, to) == UpdateFlags(UpdateAlign(MoveSectionData(from, to), from), from)

Named(table, name) == SelectInSeq(table, LAMBDA s : s.name = name)
-----------------------------------------------------------------------------
(* Outputs of the section map.  An Input keeps what it takes (files and      *)
(* sections stand for the sets its wildcards match) and gathers the data of  *)
(* the sections it took.                                                     *)
NoProlog == [vma |-> <<>>, type |-> "LOAD", align |-> <<>>, subalign |-> <<>>, constraint |-> "NONE"]

NewInput(desc, tag) == [files |-> desc.files, excluded |-> desc.excluded, sections |-> desc.sections,
                   section |-> [NoSection EXCEPT !.frags = NullFragments(tag)], dots |-> <<>>]

NewOutput(desc, k) == [id |-> k, name |-> desc.name, prolog |-> desc.prolog, order |-> 99,
                       section |-> [NoSection EXCEPT !.name = desc.name],
                       inputs |-> <<>>, dots |-> <<>>]

(* SectionMap::insert: the description's own Output is the last one once it  *)
(* has one.  (Two descriptions are never equal: their lists of phdrs differ.) *)
InsertInput(map, desc, input) ==
    LET last == Len(map)
        k == IF map # <<>> /\ map[last].id = desc.id THEN last ELSE last + 1
        base == IF k = last THEN map ELSE Append(map, NewOutput(desc, desc.id))
    IN  [base EXCEPT ![k].inputs = Append(@, NewInput(input, <<desc.id, Len(@) + 1>>))]

(* SectionMap::matched and find: the first Input, of the first Output, that  *)
(* takes the section of the file; <<0, 0>> when none does.                   *)
Matched(input, file, name) ==
    /\ file \in input.files
    /\ file \notin input.excluded
    /\ name \in input.sections

FindInMap(map, file, name) ==
    LET Takes(i) == {j \in DOMAIN map[i].inputs : Matched(map[i].inputs[j], file, name)}
        outs == {i \in DOMAIN map : Takes(i) # {}}
    IN  IF outs = {} THEN <<0, 0>> ELSE <<Min(outs), Min(Takes(Min(outs)))>>
-----------------------------------------------------------------------------
(* Assignment::activate.  A `.' of the right hand side is replaced by the    *)
(* symbol of the assignment to `.' that precedes it: the position is what    *)
(* that assignment will have computed.  The result has the new map, the new  *)
(* list of symbol assignments and the number of assignments created.         *)
Assigned(a, expr, k) == [id |-> k, name |-> a.name, type |-> a.type, expr |-> expr, moves |-> FALSE]
Dot(type, expr, k) == [id |-> k, name |-> ".", type |-> type, expr |-> expr, moves |-> FALSE]

(* The output section before the last one: what a position between the two   *)
(* is counted from.                                                          *)
LastSection(map) == map[Len(map)].id
SectionBefore(map) == map[Len(map) - 1].id

(* Between two output sections.  Without a preceding assignment to `.' a     *)
(* symbol gets ADDR + SIZEOF of the section before; the first assignment to  *)
(* `.' itself waits for fixupDotSymbols, as orphans may still be inserted.   *)
ActivateInSections(map, list, n, a) ==
    LET last == Len(map)
        dots == map[last].dots
        helper == IF HasDot(a.expr) /\ a.name # "." /\ dots = <<>>
                  THEN <<Dot("HIDDEN", EndOf(SectionBefore(map)), n + 1)>> ELSE <<>>
        known == dots \o helper
        k == n + Len(helper) + 1
        expr == IF known # <<>> /\ (a.name # "." \/ known[Len(known)].type = "DEFAULT")
                THEN Substitute(a.expr, known[Len(known)].id) ELSE a.expr
    IN  IF a.name = "."
        THEN [map |-> [map EXCEPT ![last].dots = Append(known, Assigned(a, expr, k))],
              list |-> list, created |-> k]
        ELSE [map |-> [map EXCEPT ![last].dots = known],
              list |-> Append(list, Assigned(a, expr, k)), created |-> k]

(* Inside an output section: the position is that of the first fragment of   *)
(* the last input description, and an assignment to `.' moves the second.    *)
ActivateInOutput(map, list, n, a) ==
    LET last == Len(map)
        i == Len(map[last].inputs)
        dots == map[last].inputs[i].dots
        helper == IF HasDot(a.expr) /\ dots = <<>>
                  THEN <<Dot("HIDDEN", <<<<"frag", map[last].id, i>>>>, n + 1)>> ELSE <<>>
        known == dots \o helper
        k == n + Len(helper) + 1
        expr == IF HasDot(a.expr) THEN Substitute(a.expr, known[Len(known)].id) ELSE a.expr
        moving == [Assigned(a, expr, k) EXCEPT !.moves = TRUE]
    IN  IF a.name = "."
        THEN [map |-> [map EXCEPT ![last].inputs[i].dots = Append(known, moving)],
              list |-> list, created |-> k]
        ELSE [map |-> [map EXCEPT ![last].inputs[i].dots = known],
              list |-> Append(list, Assigned(a, expr, k)), created |-> k]

(* OutputSectDesc::activate: an input description is inserted first and then *)
(* the assignments written before it are activated, so that they concern it; *)
(* trailing ones get an input description that takes nothing.                *)
TakesNothing == [files |-> {}, excluded |-> {}, sections |-> {}]
ActivateOutput(map, list, n, desc) ==
    LET Batch(st, pending) ==
            FoldLeft(LAMBDA s, a : ActivateInOutput(s.map, s.list, s.created, a), st, pending)
        Step(st, c) ==
            IF c.c = "assign" THEN [st EXCEPT !.pending = Append(@, c)]
            ELSE LET done == Batch([map |-> InsertInput(st.map, desc, c), list |-> st.list,
                                    created |-> st.created], st.pending)
                 IN  [map |-> done.map, list |-> done.list, created |-> done.created, pending |-> <<>>]
        end == FoldLeft(Step, [map |-> map, list |-> list, created |-> n, pending |-> <<>>], desc.body)
    IN  IF end.pending = <<>> THEN [map |-> end.map, list |-> end.list, created |-> end.created]
        ELSE Batch([map |-> InsertInput(end.map, desc, TakesNothing), list |-> end.list,
                    created |-> end.created], end.pending)
-----------------------------------------------------------------------------
(* The commands, in order.  A symbol assigned outside SECTIONS.              *)
ActivateOutside ==
    /\ commands # <<>> /\ Head(commands).c = "outside"
    /\ LET a == Head(commands) IN
       /\ assignments' = Append(assignments, Assigned(a, a.expr, created + 1))
       /\ created' = created + 1
    /\ commands' = Tail(commands)
    /\ UNCHANGED <<awaiting, sectionMap, inputs, module>>

(* An assignment in SECTIONS is held until the next output description has   *)
(* been activated, and then concerns that one.                               *)
HoldAssignment ==
    /\ commands # <<>> /\ Head(commands).c = "assign"
    /\ awaiting' = Append(awaiting, Head(commands))
    /\ commands' = Tail(commands)
    /\ UNCHANGED <<sectionMap, assignments, created, inputs, module>>

ActivateDescription ==
    /\ commands # <<>> /\ Head(commands).c = "desc"
    /\ LET first == ActivateOutput(sectionMap, assignments, created, Head(commands))
           done == FoldLeft(LAMBDA s, a : ActivateInSections(s.map, s.list, s.created, a),
                            first, awaiting)
       IN  /\ sectionMap' = done.map
           /\ assignments' = done.list
           /\ created' = done.created
    /\ awaiting' = <<>>
    /\ commands' = Tail(commands)
    /\ UNCHANGED <<inputs, module>>

(* The end of SECTIONS: what is still held is forgotten.                     *)
LeaveSections ==
    /\ commands # <<>> /\ Head(commands).c = "end"
    /\ commands' = Tail(commands)
    /\ awaiting' = <<>>
    /\ UNCHANGED <<sectionMap, assignments, created, inputs, module>>

(* ObjectLinker::mergeSections, its first loop: SUBALIGN and ALIGN.          *)
ForcedAligns(map, env) ==
    [i \in DOMAIN map |->
        LET out == map[i]
            In(in) == IF out.prolog.subalign = <<>> THEN in
                      ELSE [in EXCEPT !.section.align = Eval(env, out.prolog.subalign)]
        IN  [out EXCEPT !.inputs = [j \in DOMAIN out.inputs |-> In(out.inputs[j])],
                        !.section.align = IF out.prolog.align = <<>> THEN @
                                          ELSE Eval(env, out.prolog.align)]]

(* ObjectBuilder::MergeSection for one input section.  The output section is *)
(* made after the first section it receives; the data go to the input        *)
(* description that takes the section, or for an orphan to the output.       *)
MergeSection ==
    /\ commands = <<>> /\ inputs # <<>>
    /\ LET from == Head(inputs)
           where == FindInMap(sectionMap, from.file, from.section.name)
           orphan == where = <<0, 0>>
           out == sectionMap[where[1]]
           in == out.inputs[where[2]]
           name == IF orphan THEN from.section.name ELSE out.name
           at == Named(module, name)
           table == IF at # 0 THEN module
                    ELSE Append(module, [from.section EXCEPT !.name = name, !.frags = <<>>, !.size = 0])
           t == IF at # 0 THEN at ELSE Len(module) + 1
           forced == ~orphan /\ out.prolog.subalign # <<>>
           section == IF forced THEN [from.section EXCEPT !.align = in.section.align] ELSE from.section
       IN  IF ~orphan /\ out.name = "/DISCARD/"
           THEN UNCHANGED <<module, sectionMap>>
           ELSE IF orphan
           THEN /\ module' = [table EXCEPT ![t] = Merge(section, @)]
                /\ UNCHANGED sectionMap
           ELSE /\ module' = [table EXCEPT ![t] = UpdateFlags(UpdateAlign(@, section), section)]
                /\ sectionMap' = [sectionMap EXCEPT ![where[1]].inputs[where[2]].section =
                                      MoveSectionData(section, @)]
    /\ inputs' = Tail(inputs)
    /\ UNCHANGED <<commands, awaiting, assignments, created>>

(* mergeSections, its last loop: the data of the input descriptions move to  *)
(* the section of the description, and from there to the output section.     *)
GatherInputs(map, table) ==
    LET Gather(out) ==
            [out EXCEPT !.section = FoldLeft(LAMBDA to, in : Merge(in.section, to), @, out.inputs)]
        Step(st, i) ==
            LET out == Gather(map[i])
                t == Named(st.table, out.name)
            IN  IF out.section.size = 0
                THEN [map |-> Append(st.map, out), table |-> st.table]
                ELSE [map |-> Append(st.map, [out EXCEPT !.section.frags = <<>>]),
                      table |-> [st.table EXCEPT ![t] = Merge(out.section, @)]]
    IN  FoldLeft(Step, [map |-> <<>>, table |-> table], [i \in DOMAIN map |-> i])
=============================================================================
