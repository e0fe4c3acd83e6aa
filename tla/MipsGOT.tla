-------------------------------- MODULE MipsGOT --------------------------------
(* The global offset table of Mips (MipsGOT).  Code reaches it with 16-bit    *)
(* offsets from gp, so that a table that is too large is made in parts, one   *)
(* for every few inputs, each with a gp of its own.  While relocations are    *)
(* scanned entries are only counted; while they are applied the entries are   *)
(* handed out one after the other.                                            *)
(*                                                                            *)
(* The operators work on g, the state of the one MipsGOT object:              *)
(*   parts      m_MultipartList                                               *)
(*   order      the keys of m_SymbolOrderMap in the order of their numbers,   *)
(*              which is also the set of the symbols with ReserveGot          *)
(*   local, global, mergedLocal, mergedGlobal, unique                         *)
(*              m_InputLocalSymbols, m_InputGlobalSymbols (its keys, and      *)
(*              those with the value true) and the merged sets                *)
(*   gd, ie, ldm   what has been seen of thread-local symbols                 *)
(*   current    m_CurrentGOTPart                                              *)
(*   entries    the maps from keys to the entries handed out                  *)
EXTENDS Integers, Sequences, FiniteSets

LOCAL INSTANCE SequencesExt
LOCAL INSTANCE FiniteSetsExt

CONSTANT MaxEntries   \* MipsGOTSize / getEntrySize(): what gp reaches

Header == 2           \* MipsGOT0Num

Part(local, global, input) ==
    [local |-> local, global |-> global, tls |-> 0, tlsDyn |-> 0,
     usedLocal |-> 0, usedGlobal |-> 0, usedTLS |-> 0, lastTLS |-> 0, inputs |-> {input}]

NoGOT == [parts |-> <<>>, order |-> <<>>, local |-> {}, global |-> {}, unique |-> {},
          mergedLocal |-> {}, mergedGlobal |-> {}, gd |-> {}, ie |-> {}, ldm |-> FALSE,
          current |-> 1, entries |-> {}]

LastPart(g) == g.parts[Len(g.parts)]
Count(g, field, n) == [g EXCEPT !.parts[Len(g.parts)][field] = @ + n]
-----------------------------------------------------------------------------
(* initializeScan: a new input joins the last part; what the input before it  *)
(* referred to now belongs to that part.                                      *)
InitializeScan(g, input) ==
    IF g.parts = <<>> THEN [g EXCEPT !.parts = <<Part(0, 0, input)>>]
    ELSE [g EXCEPT !.parts[Len(g.parts)].inputs = @ \cup {input},
                   !.mergedLocal = @ \cup g.local, !.local = {},
                   !.mergedGlobal = @ \cup g.global, !.global = {}, !.unique = {}]

IsFull(g) == Header + LastPart(g).local + LastPart(g).global + 1 > MaxEntries

(* A slip: the entries of the part before are still taken for entries that    *)
(* the input finds.                                                           *)
SplitKeepingMerged(g, input) ==
    LET n == Len(g.parts)
    IN  [g EXCEPT !.parts = Append([g.parts EXCEPT
                      ![n].local = @ - Cardinality(g.local),
                      ![n].global = @ - Cardinality(g.unique),
                      ![n].inputs = @ \ {input}],
                    Part(Cardinality(g.local), Cardinality(g.global), input))]

(* The input takes its entries to a new part: all its local ones, and the    *)
(* global ones that no input before it has asked for.                        *)
Split(g, input) ==
    LET n == Len(g.parts)
    IN  [g EXCEPT !.mergedLocal = {}, !.mergedGlobal = {},
                  !.parts = Append([g.parts EXCEPT
                      ![n].local = @ - Cardinality(g.local),
                      ![n].global = @ - Cardinality(g.unique),
                      ![n].inputs = @ \ {input}],
                    Part(Cardinality(g.local), Cardinality(g.global), input))]
SplitIfFull(g, input) == IF IsFull(g) THEN Split(g, input) ELSE g

(* A local entry is asked for by <<symbol, addend, whether by GOT16>>.       *)
ReserveLocalEntry(g, input, entry) ==
    IF entry \in g.local THEN g
    ELSE IF entry \in g.mergedLocal THEN [g EXCEPT !.local = @ \cup {entry}]
    ELSE Count([SplitIfFull(g, input) EXCEPT !.local = @ \cup {entry}], "local", 1)

ReserveGlobalEntry(g, input, sym) ==
    IF sym \in g.global THEN g
    ELSE IF sym \in g.mergedGlobal THEN [g EXCEPT !.global = @ \cup {sym}]
    ELSE LET h == [SplitIfFull(g, input) EXCEPT !.global = @ \cup {sym}, !.unique = @ \cup {sym},
                       !.order = IF sym \in ToSet(g.order) THEN @ ELSE Append(@, sym)]
         IN  Count(h, "global", 1)

\* A slip: one entry for the pair.
ReserveTLSGdOnce(g, sym) ==
    IF sym \in g.gd THEN g ELSE Count(Count([g EXCEPT !.gd = @ \cup {sym}], "tls", 1), "tlsDyn", 2)

ReserveTLSGdEntry(g, sym) ==
    IF sym \in g.gd THEN g ELSE Count(Count([g EXCEPT !.gd = @ \cup {sym}], "tls", 2), "tlsDyn", 2)
ReserveTLSLdmEntry(g) ==
    IF g.ldm THEN g ELSE Count(Count([g EXCEPT !.ldm = TRUE], "tls", 2), "tlsDyn", 1)
ReserveTLSGotEntry(g, sym) ==
    IF sym \in g.ie THEN g ELSE Count(Count([g EXCEPT !.ie = @ \cup {sym}], "tls", 1), "tlsDyn", 1)
-----------------------------------------------------------------------------
(* finalizeScanning makes the entries: of each part the header, the local,   *)
(* the global and the thread-local ones; the first part ends with the global *)
(* symbols of the others.  Entries are numbered from 0.                      *)
GlobalNum(g) == Len(g.order)
LocalNum(g) == g.parts[1].local + Header
Others(g, p) == IF p = 1 THEN GlobalNum(g) - g.parts[1].global ELSE 0
PartSize(g, p) == Header + g.parts[p].local + g.parts[p].global + g.parts[p].tls + Others(g, p)
Start(g, p) == FoldLeft(LAMBDA n, q : n + PartSize(g, q), 0, [q \in 1..(p - 1) |-> q])
Size(g) == Start(g, Len(g.parts) + 1)

(* The dynamic relocations it reserves.                                      *)
RelDynOf(g) ==
    FoldLeft(LAMBDA n, p : n + p.tlsDyn + p.local + p.global, 0, g.parts)
        - g.parts[1].local - g.parts[1].global

\* A slip: the first part without the symbols of the others.
GPEntryBeforeOthers(g, input) ==
    LET home == SelectInSeq(g.parts, LAMBDA part : input \in part.inputs)
        before == IF home = 0 THEN g.parts ELSE SubSeq(g.parts, 1, home - 1)
    IN  FoldLeft(LAMBDA n, part : n + Header + part.local + part.global, 0, before)

(* getGPAddr, in entries from the start of the table.                        *)
GPEntry(g, input) ==
    LET home == SelectInSeq(g.parts, LAMBDA part : input \in part.inputs)
        before == IF home = 0 THEN g.parts ELSE SubSeq(g.parts, 1, home - 1)
    IN  FoldLeft(LAMBDA n, part : n + Header + part.local + part.global, 0, before)
            + (IF before = <<>> THEN 0 ELSE Others(g, 1))
-----------------------------------------------------------------------------
(* Entries are handed out from the current part until all that it has are.   *)
IsConsumed(part) == part.usedLocal = part.local /\ part.usedGlobal = part.global /\ part.usedTLS = part.tls
PartToUse(g) == IF IsConsumed(g.parts[g.current]) THEN g.current + 1 ELSE g.current

(* The result of consuming an entry: the table and the entry, or the number  *)
(* -1 when an assertion fails or there is no further part.                   *)
Failed(g) == [got |-> g, entry |-> -1]
Handed(g, p, field, n, entry) ==
    [got |-> [g EXCEPT !.current = p, !.parts[p][field] = @ + n], entry |-> entry]

ConsumeLocal(g) ==
    LET p == PartToUse(g) IN
    IF p > Len(g.parts) THEN Failed(g)
    ELSE IF g.parts[p].usedLocal >= g.parts[p].local THEN Failed(g)
    ELSE Handed(g, p, "usedLocal", 1, Start(g, p) + Header + g.parts[p].usedLocal)

ConsumeGlobal(g) ==
    LET p == PartToUse(g) IN
    IF p > Len(g.parts) THEN Failed(g)
    ELSE IF g.parts[p].usedGlobal >= g.parts[p].global THEN Failed(g)
    ELSE Handed(g, p, "usedGlobal", 1, Start(g, p) + Header + g.parts[p].local + g.parts[p].usedGlobal)

(* An entry of a GD or LDM relocation takes two numbers, but the next one is *)
(* handed out one further on.                                                *)
ConsumeTLS(g, type) ==
    LET p == PartToUse(g)
        h == [g EXCEPT !.parts[p].lastTLS = @ + 1]
    IN  IF p > Len(g.parts) THEN Failed(g)
        ELSE IF g.parts[p].usedTLS >= g.parts[p].tls THEN Failed(g)
        ELSE Handed(h, p, "usedTLS", IF type = "TPREL" THEN 1 ELSE 2,
                    Start(g, p) + Header + g.parts[p].local + g.parts[p].global + g.parts[p].lastTLS)

(* The maps from keys to entries.  Of LDM there is one entry for all parts.  *)
Key(g, kind, sym, value) ==
    IF kind = "LDM" THEN <<kind>> ELSE <<kind, sym, value, g.current>>
Record(g, kind, sym, value, entry) ==
    [g EXCEPT !.entries = @ \cup {<<Key(g, kind, sym, value), entry>>}]
Lookup(g, kind, sym, value) == {e[2] : e \in {f \in g.entries : f[1] = Key(g, kind, sym, value)}}
=============================================================================
