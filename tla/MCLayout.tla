------------------------------- MODULE MCLayout -------------------------------
(* Small links for Layout: without a script, and with one.                   *)
EXTENDS Layout, FiniteSets, TLC

LOCAL INSTANCE SequencesExt

Sect(name, kind, flags, align, size) ==
    [name |-> name, kind |-> kind, flags |-> flags, align |-> align, size |-> size,
     addr |-> 0, offset |-> 0, frags |-> <<>>]
Input(file, id, s) ==
    [file |-> file, id |-> id, section |-> [s EXCEPT !.frags = <<[k |-> "data", of |-> <<id, 0>>, n |-> s.size, at |-> 0]>>]]

(* The sections every output has from the start; what preLayout has sized.   *)
Standard == <<Sect(".text", "TEXT", {"A", "X"}, 1, 0), Sect("", "Null", {}, 0, 0),
              Sect(".rodata", "TEXT", {"A"}, 1, 0), Sect(".bss", "BSS", {"A", "W"}, 1, 0),
              Sect(".data", "DATA", {"A", "W"}, 1, 0), Sect(".tbss", "BSS", {"A", "W", "T"}, 1, 0),
              Sect(".tdata", "DATA", {"A", "W", "T"}, 1, 0), Sect(".symtab", "NamePool", {}, 4, 8),
              Sect(".note.GNU-stack", "StackNote", {}, 1, 0)>>
Dynamic == <<Sect(".interp", "Note", {"A"}, 1, 3), Sect(".dynamic", "NamePool", {"A", "W"}, 4, 8),
             Sect(".got", "Target", {"A", "W"}, 4, 8), Sect(".got.plt", "Target", {"A", "W"}, 4, 4),
             Sect(".plt", "Target", {"A", "X"}, 4, 8), Sect(".eh_frame_hdr", "EhFrameHdr", {"A"}, 4, 4)>>
(* An ARM output has nothing in .got.plt.                                    *)
DynamicOf(target) == SelectSeq(Dynamic, LAMBDA s : target = "X86" \/ s.name # ".got.plt")

Options == [script |-> FALSE, object |-> FALSE, target |-> "X86", now |-> FALSE, relro |-> FALSE,
            omagic |-> FALSE, nmagic |-> FALSE, pic |-> FALSE, addressMap |-> <<>>,
            undefined |-> {"provided"}, commands |-> <<>>, inputs |-> <<>>]

Text     == Input("a", 1, Sect(".text", "TEXT", {"A", "X"}, 4, 10))
TextHot  == Input("b", 2, Sect(".text.hot", "TEXT", {"A", "X"}, 8, 5))
Rodata   == Input("a", 3, Sect(".rodata", "TEXT", {"A"}, 4, 6))
RelRo    == Input("a", 4, Sect(".data.rel.ro", "DATA", {"A", "W"}, 8, 5))
InitArr  == Input("b", 5, Sect(".init_array", "DATA", {"A", "W"}, 4, 4))
Data     == Input("a", 6, Sect(".data", "DATA", {"A", "W"}, 4, 7))
DataFar  == Input("b", 7, Sect(".data.far", "DATA", {"A", "W"}, 16, 9))
Bss      == Input("a", 8, Sect(".bss", "BSS", {"A", "W"}, 8, 12))
SBss     == Input("b", 9, Sect(".sbss", "BSS", {"A", "W"}, 4, 6))
TData    == Input("b", 10, Sect(".tdata", "DATA", {"A", "W", "T"}, 4, 6))
TBss     == Input("b", 11, Sect(".tbss", "BSS", {"A", "W", "T"}, 4, 20))
Own      == Input("b", 12, Sect("own", "DATA", {"A", "W"}, 2, 5))
NoteRO   == Input("a", 13, Sect(".note", "Note", {"A"}, 4, 8))
OwnRelRo == Input("b", 15, Sect("own.rel.ro", "DATA", {"A", "W"}, 4, 5))
Exidx    == Input("a", 14, Sect(".ARM.exidx", "Target", {"A"}, 4, 8))

(* Links without a script.                                                   *)
Pick(parts) == {SetToSeq(chosen) : chosen \in SUBSET parts}
PlainInputs == {<<Text>> \o more \o <<Bss>> : more \in Pick({Rodata, RelRo, DataFar, TData, TBss, Own})}
               \cup {<<Text, Exidx, NoteRO, InitArr, Data, OwnRelRo, Bss>>, <<Rodata, Data, Bss, SBss>>,
                     <<Text, Data, TBss, InitArr, Own, SBss>>, <<TextHot, Text>>}
PlainOptions ==
    {[Options EXCEPT !.relro = TRUE], [Options EXCEPT !.relro = TRUE, !.pic = TRUE],
     [Options EXCEPT !.relro = TRUE, !.now = TRUE, !.target = "ARM"],
     [Options EXCEPT !.omagic = TRUE], [Options EXCEPT !.object = TRUE],
     [Options EXCEPT !.addressMap = ".text" :> 256 @@ ".data" :> 1024, !.nmagic = TRUE],
     [Options EXCEPT !.addressMap = ".bss" :> 2048 @@ "own" :> 1536, !.target = "ARM"]}
PlainLinks ==
    {[commands |-> <<>>, inputs |-> i, opt |-> [o EXCEPT !.inputs = i],
      module |-> Standard \o (IF o.pic \/ o.now THEN DynamicOf(o.target) ELSE <<>>)] : i \in PlainInputs, o \in PlainOptions}
-----------------------------------------------------------------------------
(* Scripts.  D is the position; an output description takes sections by name *)
(* from both files.                                                          *)
D == <<"dot">>
N(n) == <<"int", n>>
Here == <<D>>
Assign(name, expr) == [c |-> "assign", name |-> name, type |-> "DEFAULT", expr |-> expr]
Provide(name, expr) == [Assign(name, expr) EXCEPT !.type = "PROVIDE"]
Takes(names) == [c |-> "input", files |-> {"a", "b"}, excluded |-> {}, sections |-> names]
Desc(id, name, body) == [c |-> "desc", id |-> id, name |-> name, prolog |-> NoProlog, body |-> body]
End == [c |-> "end"]
Align16 == <<D, N(16), <<"ALIGN">>>>

HeadersFirst == Assign(".", <<N(256), <<"SIZEOF_HEADERS">>, <<"ADD">>>>)
TextDesc == Desc(1, ".text", <<Takes({".text"}), Assign("hot", Here), Takes({".text.hot"})>>)
DataDesc == Desc(2, ".data", <<Assign("data", Here), Takes({".data"}), Assign(".", <<D, N(8), <<"ALIGN">>>>),
                               Assign("far", Here), Takes({".data.far"})>>)
BssDesc == Desc(3, ".bss", <<Assign("bss", Here), Takes({".bss", ".sbss"}), Assign("end", Here)>>)

Outside(name, expr) == [Assign(name, expr) EXCEPT !.c = "outside"]
With(desc, prolog) == [desc EXCEPT !.prolog = prolog @@ @]
Discard == Desc(9, "/DISCARD/", <<Takes({"own"})>>)
Page == <<"MAXPAGESIZE">>
EndOf1 == <<<<"desc", 1>>, <<"ADDR">>, <<"desc", 1>>, <<"SIZEOF">>, <<"ADD">>>>

(* Positions moved by alignment, by gaps, inside sections and between them.  *)
Moving ==
    {<<HeadersFirst, TextDesc, Assign("etext", Here), Assign(".", Align16), DataDesc, Assign("edata", Here), BssDesc, End>>,
     <<TextDesc, Assign("etext", Here), DataDesc, Assign("edata", Here), Assign("_end", Here), End>>,
     <<HeadersFirst, TextDesc, Assign(".", <<D, N(20), <<"ADD">>>>), Assign("gap", Here), DataDesc, BssDesc, End>>}

(* Addresses, alignments, types and constraints of descriptions; symbols     *)
(* provided, made from others, or assigned outside SECTIONS.                 *)
Prologs ==
    {<<Outside("base", <<<<"sect", ".text">>, <<"ADDR">>, N(1), <<"BITWISE_OR">>>>),
       With(TextDesc, [vma |-> <<N(96), Page, <<"MAX">>>>, align |-> <<N(8)>>]),
       Provide("provided", Here), Provide("absent", Here),
       With(DataDesc, [vma |-> <<D, Page, <<"COMMONPAGESIZE">>, <<"DATA_SEGMENT_ALIGN">>>>, subalign |-> <<N(2)>>]),
       Assign("size", <<<<"desc", 2>>, <<"SIZEOF">>, N(0), <<"GT">>, <<"sym", "provided">>, N(0), <<"TERNARY_IF">>>>),
       With(BssDesc, [type |-> "NOLOAD"]), Discard, End>>,
     <<With(Desc(4, ".data", <<Takes({".data.ro"})>>), [constraint |-> "ONLY_IF_RO"]),
       TextDesc, Assign("page", <<D, Page, <<"UNARY_MINUS">>, <<"BITWISE_AND">>>>), Discard,
       Assign(".", <<<<"sect", ".text-segment">>, N(512), <<"SEGMENT_START">>>>),
       With(DataDesc, [constraint |-> "ONLY_IF_RW"]), Assign("after", EndOf1), End>>}

ScriptInputs == {<<Text, Data, Bss>>, <<Text, TextHot, Rodata, DataFar, Data>>, <<TextHot, Own, Data, Bss, SBss>>}
Scripted(scripts, contents) ==
    {[commands |-> c, inputs |-> i, module |-> Standard,
      opt |-> [Options EXCEPT !.script = TRUE, !.commands = c, !.inputs = i, !.target = t, !.relro = r]] :
        c \in scripts, i \in contents, t \in {"X86", "ARM"}, r \in BOOLEAN}
(* The first segment with a NOBITS section: of writable text, or of data.    *)
BssMerged == {[link EXCEPT !.opt.omagic = TRUE] : link \in Scripted(Moving, {<<Text, Data, Bss>>})}
             \cup Scripted(Moving, {<<Data, Bss>>})
ScriptLinks == Scripted(Moving \cup Prologs, ScriptInputs) \cup BssMerged
AllLinks == PlainLinks \cup ScriptLinks
=============================================================================
