-------------------------- MODULE X86RelocatorProofs --------------------------
(***************************************************************************)
(* Theorems about X86Relocator for any links, symbols and relocations.     *)
(***************************************************************************)
EXTENDS X86Relocator, TLAPS

DynRels == [kind : {"none", "RELATIVE", "GLOB_DAT", "COPY", "own"}, addend : Values]

\* What a scan may change.
TablesOK ==
  /\ sym \in [Symbols -> SymbolInfos]
  /\ reserved \in [Symbols -> SUBSET {"Rel", "GOT", "PLT"}]
  /\ got \in [Symbols -> Values]
  /\ dynrel \in [Rels -> DynRels]
  /\ copied \subseteq Symbols
  /\ textRel \in BOOLEAN

LEMMA ValueSum ==
  ASSUME NEW u \in Values, NEW v \in Values
  PROVE  u ++ v \in Values /\ u -- v \in Values
BY SMT DEF Values, ++, --

LEMMA ValueConstants ==
  /\ Zero \in Values
  /\ \A t \in Terms : The(t) \in Values
  /\ SymVal \in Values
  /\ Unrelocated \in Values
BY SMT DEF Values, Zero, The, SymVal, Unrelocated, Terms

LEMMA DynRelType ==
  /\ NoDynRel \in DynRels
  /\ \A k \in {"none", "RELATIVE", "GLOB_DAT", "COPY", "own"} : DynRel(k) \in DynRels
BY ValueConstants DEF DynRels, NoDynRel, DynRel

\* Relocations of the link are relocations.
LEMMA RelsType ==
  ASSUME TypeOK
  PROVE  /\ Rels = 1..Len(link.rels)
         /\ Len(link.rels) \in Nat
         /\ \A i \in Rels : SymOf(i) \in Symbols /\ Kind(i) \in Kinds
         /\ link.aliases \subseteq Symbols
<1>1. link.rels \in Seq(Relocations) /\ link.aliases \subseteq Symbols
  BY DEF TypeOK, LinkType
<1>2. Rels = 1..Len(link.rels) /\ Len(link.rels) \in Nat
  BY <1>1 DEF Rels
<1>3. \A i \in Rels : link.rels[i] \in Relocations
  BY <1>1, <1>2
<1> QED BY <1>1, <1>2, <1>3 DEF SymOf, Kind, Relocations

\* A symbol that the linker defines is a symbol.
LEMMA DefinedType ==
  ASSUME NEW i \in SymbolInfos, NEW b \in {"Global", "Weak", "Local", "Absolute"}
  PROVE  [i EXCEPT !.desc = "Define", !.dyn = FALSE, !.bind = b] \in SymbolInfos
<1>1. /\ [i EXCEPT !.desc = "Define"] \in SymbolInfos
      /\ \A d \in SymbolInfos : [d EXCEPT !.dyn = FALSE] \in SymbolInfos
      /\ \A d \in SymbolInfos : [d EXCEPT !.bind = b] \in SymbolInfos
  BY DEF SymbolInfos
<1>2. [i EXCEPT !.desc = "Define", !.dyn = FALSE, !.bind = b] =
      [[[i EXCEPT !.desc = "Define"] EXCEPT !.dyn = FALSE] EXCEPT !.bind = b]
  OBVIOUS
<1> QED BY <1>1, <1>2

LEMMA SymValueType ==
  ASSUME NEW y PROVE symValue(y) \in Values /\ Target(y) \in Values
BY ValueConstants DEF symValue, Target, Terms

LEMMA InitType == Init => TypeOK
<1> SUFFICES ASSUME Init PROVE TypeOK OBVIOUS
<1>1. link \in LinkType /\ link.syms \in [Symbols -> SymbolInfos] /\ link.rels \in Seq(Relocations)
  BY LinkAssumption DEF Init, LinkType
<1>2. Rels = 1..Len(link.rels) /\ Len(link.rels) \in Nat
  BY <1>1 DEF Rels
<1>3. \A i \in Rels : SymOf(i) \in Symbols
  <2>1. \A i \in Rels : link.rels[i] \in Relocations
    BY <1>1, <1>2
  <2> QED BY <2>1 DEF SymOf, Relocations
<1>4. dynrel \in [Rels -> DynRels]
  BY DynRelType DEF Init
<1>5. seen \in [Rels -> [plt : BOOLEAN, sym : SymbolInfos]]
  BY <1>1, <1>3 DEF Init
<1>6. at \in 1..(Len(link.rels) + 1)
  BY <1>2 DEF Init
<1>7. got \in [Symbols -> Values] /\ place \in [Rels -> Values]
  BY ValueConstants DEF Init
<1> QED BY <1>1, <1>4, <1>5, <1>6, <1>7 DEF Init, TypeOK, DynRels

-----------------------------------------------------------------------------
(* Type correctness, one lemma for what ends a scan and one for what ends  *)
(* an application.                                                         *)

LEMMA ScannedType ==
  ASSUME TypeOK, at \in Rels, Scanned, TablesOK', link' = link
  PROVE  TypeOK'
<1>1. Rels' = Rels /\ at' \in 1..(Len(link'.rels) + 1)
  BY RelsType, SMT DEF Scanned, Rels
<1>2. errors' \subseteq {"undefined", "overflow", "badreloc"} \X Rels
  BY DEF Scanned, TypeOK
<1>3. SymOf(at) \in Symbols
  BY RelsType
<1>4. seen' \in [Rels -> [plt : BOOLEAN, sym : SymbolInfos]]
  <2>1. sym'[SymOf(at)] \in SymbolInfos
    BY <1>3 DEF TablesOK
  <2> QED BY <2>1 DEF Scanned, TypeOK
<1> QED BY <1>1, <1>2, <1>4 DEF Scanned, TypeOK, TablesOK, DynRels

LEMMA AppliedType ==
  ASSUME TypeOK, at \in Rels, Applied,
         place' \in [Rels -> Values],
         got' \in [Symbols -> Values],
         dynrel' \in [Rels -> DynRels],
         errors' \subseteq {"undefined", "overflow", "badreloc"} \X Rels
  PROVE  TypeOK'
<1>1. Rels' = Rels /\ at' \in 1..(Len(link'.rels) + 1)
  BY RelsType, SMT DEF Applied, Rels
<1> QED BY <1>1 DEF Applied, TypeOK, DynRels

LEMMA ScanStepType ==
  ASSUME TypeOK, Scan
  PROVE  TypeOK'
<1> USE DEF Scanning
<1>0. TablesOK /\ (at \in Rels => SymOf(at) \in Symbols) /\ Len(link.rels) \in Nat
      /\ Rels = 1..Len(link.rels)
  BY RelsType DEF TablesOK, TypeOK, DynRels
<1>1. ASSUME ScanDebug PROVE TypeOK'
  <2>1. at' \in 1..(Len(link'.rels) + 1)
    BY <1>0, <1>1, SMT DEF ScanDebug
  <2> QED BY <1>1, <2>1 DEF ScanDebug, TypeOK, tables, Rels
<1>2. ASSUME ScanNothing PROVE TypeOK'
  <2>1. TablesOK'
    BY <1>0, <1>2 DEF ScanNothing, tables, TablesOK, Rels, Scanned
  <2> QED BY <1>2, <2>1, ScannedType DEF ScanNothing, Scanned
<1>3. ASSUME ScanUnsupported PROVE TypeOK'
  BY <1>3 DEF ScanUnsupported, TypeOK, tables, Rels
<1>4. ASSUME ScanLocalAbs PROVE TypeOK'
  <2>1. CASE isCodeIndep(out)
    <3>1. dynrel' \in [Rels -> DynRels]
      BY <1>0, <1>4, <2>1, DynRelType DEF ScanLocalAbs, DynRelOnPlace, TablesOK
    <3>2. reserved' \in [Symbols -> SUBSET {"Rel", "GOT", "PLT"}]
      BY <1>0, <1>4, <2>1 DEF ScanLocalAbs, Reserve, TablesOK
    <3>3. TablesOK'
      BY <1>0, <1>4, <2>1, <3>1, <3>2
         DEF ScanLocalAbs, DynRelOnPlace, NoteTextRel, TablesOK, Rels, Scanned, Writable
    <3> QED BY <1>4, <3>3, ScannedType DEF ScanLocalAbs, Scanned
  <2>2. CASE ~isCodeIndep(out)
    <3>1. TablesOK'
      BY <1>0, <1>4, <2>2 DEF ScanLocalAbs, tables, TablesOK, Rels, Scanned
    <3> QED BY <1>4, <3>1, ScannedType DEF ScanLocalAbs, Scanned
  <2> QED BY <2>1, <2>2
<1>5. ASSUME ScanGot PROVE TypeOK'
  <2>1. ASSUME NEW hasRel, GOT_init(SymOf(at), hasRel), link' = link, at \in Rels
        PROVE  TablesOK'
    <3>1. got' \in [Symbols -> Values]
      BY <1>0, <2>1, ValueConstants DEF GOT_init, TablesOK
    <3>2. dynrel' \in [Rels -> DynRels]
      <4>1. [kind |-> "RELATIVE", addend |-> IF is64 THEN SymVal ELSE Zero] \in DynRels
        BY ValueConstants DEF DynRels
      <4> QED BY <1>0, <2>1, <4>1, DynRelType DEF GOT_init, TablesOK
    <3>3. reserved' \in [Symbols -> SUBSET {"Rel", "GOT", "PLT"}]
      BY <1>0, <2>1 DEF GOT_init, Reserve, TablesOK
    <3> QED BY <1>0, <2>1, <3>1, <3>2, <3>3 DEF GOT_init, TablesOK, Rels
  <2>2. TablesOK'
    <3>1. CASE Has(SymOf(at), "GOT")
      BY <1>0, <1>5, <3>1 DEF ScanGot, tables, TablesOK, Rels, Scanned
    <3>2. CASE ~Has(SymOf(at), "GOT")
      BY <1>5, <2>1, <3>2 DEF ScanGot, Scanned
    <3> QED BY <3>1, <3>2
  <2> QED BY <1>5, <2>2, ScannedType DEF ScanGot, Scanned
<1>6. ASSUME ScanGlobalPlt PROVE TypeOK'
  <2>1. reserved' \in [Symbols -> SUBSET {"Rel", "GOT", "PLT"}]
    BY <1>0, <1>6 DEF ScanGlobalPlt, Reserve, TablesOK
  <2>2. TablesOK'
    BY <1>0, <1>6, <2>1 DEF ScanGlobalPlt, TablesOK, Rels, Scanned
  <2> QED BY <1>6, <2>2, ScannedType DEF ScanGlobalPlt, Scanned
<1>7. ASSUME NEW entry \in SUBSET {"PLT"}, NEW needs, NEW k \in {"RELATIVE", "own"},
             ReserveFor(SymOf(at), entry, needs, k), at \in Rels, link' = link
      PROVE  TablesOK'
  <2>1. reserved' \in [Symbols -> SUBSET {"Rel", "GOT", "PLT"}]
    BY <1>0, <1>7 DEF ReserveFor, Reserve, TablesOK
  <2>2. dynrel' \in [Rels -> DynRels]
    BY <1>0, <1>7, DynRelType DEF ReserveFor, CopyReloc, DynRelOnPlace, TablesOK
  <2>3. sym' \in [Symbols -> SymbolInfos] /\ copied' \subseteq Symbols
    <3>1. ASSUME CopyReloc(SymOf(at)) PROVE sym' \in [Symbols -> SymbolInfos]
      <4>1. sym[SymOf(at)].bind \in {"Global", "Weak", "Local", "Absolute"}
        BY <1>0, <1>7 DEF TablesOK, SymbolInfos
      <4>2. ASSUME NEW z \in Symbols, NEW b \in {"Global", "Weak", "Local", "Absolute"}
            PROVE  [sym[z] EXCEPT !.desc = "Define", !.dyn = FALSE, !.bind = b] \in SymbolInfos
        BY <1>0, <4>2, DefinedType DEF TablesOK
      <4> DEFINE y == SymOf(at)
                 bind == IF sym[y].bind = "Weak" THEN "Global" ELSE sym[y].bind
                 defined == {y} \cup {z \in link.aliases : y \in link.aliases /\ sym[z].dyn}
                 new(z) == IF z \notin defined THEN sym[z]
                           ELSE [sym[z] EXCEPT !.desc = "Define", !.dyn = FALSE, !.bind = bind]
      <4>3. bind \in {"Global", "Weak", "Local", "Absolute"}
        BY <4>1
      <4>4. ASSUME NEW z \in Symbols PROVE new(z) \in SymbolInfos
        <5> HIDE DEF bind
        <5> QED BY <1>0, <4>2, <4>3 DEF TablesOK
      <4>5. sym' = [z \in Symbols |-> new(z)]
        BY <3>1 DEF CopyReloc
      <4> HIDE DEF new
      <4> QED BY <4>4, <4>5
    <3>2. ASSUME CopyReloc(SymOf(at)) PROVE copied' \subseteq Symbols
      BY <1>0, <1>7, <3>2, RelsType DEF CopyReloc, TablesOK
    <3> QED BY <1>0, <1>7, <3>1, <3>2 DEF ReserveFor, DynRelOnPlace, TablesOK
  <2> QED BY <1>0, <1>7, <2>1, <2>2, <2>3
          DEF ReserveFor, CopyReloc, DynRelOnPlace, NoteTextRel, TablesOK, Rels, Writable
<1>8. ASSUME ScanGlobalAbs PROVE TypeOK'
  <2>1. TablesOK'
    BY <1>8, <1>7 DEF ScanGlobalAbs, Scanned
  <2> QED BY <1>8, <2>1, ScannedType DEF ScanGlobalAbs, Scanned
<1>9. ASSUME ScanGlobalRel PROVE TypeOK'
  <2>1. TablesOK'
    BY <1>9, <1>7 DEF ScanGlobalRel, Scanned
  <2> QED BY <1>9, <2>1, ScannedType DEF ScanGlobalRel, Scanned
<1>10. ASSUME EndScan PROVE TypeOK'
  <2>1. at' \in 1..(Len(link'.rels) + 1)
    BY <1>0, <1>10, SMT DEF EndScan
  <2> QED BY <1>10, <2>1 DEF EndScan, TypeOK, tables, Rels
<1> QED BY <1>1, <1>2, <1>3, <1>4, <1>5, <1>6, <1>8, <1>9, <1>10 DEF Scan

LEMMA ApplyStepType ==
  ASSUME TypeOK, Apply
  PROVE  TypeOK'
<1> USE DEF Applying
<1>0. /\ place \in [Rels -> Values] /\ got \in [Symbols -> Values]
      /\ dynrel \in [Rels -> DynRels]
      /\ errors \subseteq {"undefined", "overflow", "badreloc"} \X Rels
      /\ Len(link.rels) \in Nat /\ Rels = 1..Len(link.rels)
  BY RelsType DEF TypeOK, DynRels
<1>1. /\ \A t \in Terms : The(t) \in Values
      /\ \A u, v \in Values : u ++ v \in Values /\ u -- v \in Values
      /\ \A y : symValue(y) \in Values /\ Target(y) \in Values
      /\ {"A", "PLT", "GOT", "ORG", "P"} \subseteq Terms
  BY ValueConstants, ValueSum, SymValueType DEF Terms
<1>2. \A v \in Values : Write(v) => place' \in [Rels -> Values]
  BY <1>0 DEF Write
<1>3. \A v \in Values : SetAddend(v) => dynrel' \in [Rels -> DynRels]
  <2>1. \A d \in DynRels, v \in Values : [d EXCEPT !.addend = v] \in DynRels
    BY DEF DynRels
  <2>2. ASSUME NEW v \in Values, SetAddend(v), NEW i \in Rels
        PROVE  dynrel'[i] \in DynRels
    <3>1. dynrel'[i] = IF i = at THEN [dynrel[i] EXCEPT !.addend = v] ELSE dynrel[i]
      BY <1>0, <2>2 DEF SetAddend
    <3>2. dynrel[i] \in DynRels
      BY <1>0
    <3> QED BY <2>1, <3>1, <3>2
  <2>3. ASSUME NEW v \in Values, SetAddend(v)
        PROVE  dynrel' = [i \in Rels |-> dynrel'[i]]
    BY <1>0, <2>3 DEF SetAddend
  <2> QED BY <2>2, <2>3
<1>4. \A d \in {"overflow", "badreloc"} :
        at \in Rels /\ Report(d) =>
          /\ place' \in [Rels -> Values] /\ got' \in [Symbols -> Values]
          /\ dynrel' \in [Rels -> DynRels]
          /\ errors' \subseteq {"undefined", "overflow", "badreloc"} \X Rels
  BY <1>0 DEF Report
<1>5. ASSUME ApplyDebug PROVE TypeOK'
  <2>1. place' \in [Rels -> Values]
    BY <1>1, <1>2, <1>5 DEF ApplyDebug
  <2> QED BY <1>0, <1>5, <2>1, AppliedType DEF ApplyDebug
<1>6. ASSUME ApplyAbs32 PROVE TypeOK'
  <2>1. place' \in [Rels -> Values]
    BY <1>0, <1>1, <1>2, <1>6 DEF ApplyAbs32
  <2> QED BY <1>0, <1>6, <2>1, AppliedType DEF ApplyAbs32
<1>7. ASSUME ApplyAbs64 PROVE TypeOK'
  <2>1. place' \in [Rels -> Values] /\ dynrel' \in [Rels -> DynRels]
    BY <1>0, <1>1, <1>2, <1>3, <1>7 DEF ApplyAbs64
  <2> QED BY <1>0, <1>7, <2>1, AppliedType DEF ApplyAbs64
<1>8. ASSUME ApplySigned PROVE TypeOK'
  <2>1. CASE Recorded(at)
    BY <1>4, <1>8, <2>1, AppliedType DEF ApplySigned
  <2>2. CASE ~Recorded(at)
    BY <1>0, <1>1, <1>2, <1>8, <2>2, AppliedType DEF ApplySigned
  <2> QED BY <2>1, <2>2
<1>9. ASSUME ApplyRel32 PROVE TypeOK'
  <2>1. place' \in [Rels -> Values]
    BY <1>0, <1>1, <1>2, <1>9 DEF ApplyRel32
  <2> QED BY <1>0, <1>9, <2>1, AppliedType DEF ApplyRel32
<1>10. ASSUME ApplyRel64 PROVE TypeOK'
  <2>1. \/ Report("overflow")
        \/ place' \in [Rels -> Values] /\ UNCHANGED <<got, dynrel, errors>>
    BY <1>1, <1>2, <1>10 DEF ApplyRel64
  <2> QED BY <1>0, <1>4, <1>10, <2>1, AppliedType DEF ApplyRel64
<1>11. ASSUME ApplyPlt PROVE TypeOK'
  <2>1. place' \in [Rels -> Values]
    BY <1>1, <1>2, <1>11 DEF ApplyPlt
  <2> QED BY <1>0, <1>11, <2>1, AppliedType DEF ApplyPlt
<1>12. ASSUME ApplyGot PROVE TypeOK'
  <2>1. CASE ~Has(SymOf(at), "GOT")
    BY <1>4, <1>12, <2>1, AppliedType DEF ApplyGot
  <2>2. CASE Has(SymOf(at), "GOT")
    <3>1. got' \in [Symbols -> Values]
      BY <1>0, <1>1, <1>12, <2>2 DEF ApplyGot
    <3>2. dynrel' \in [Rels -> DynRels]
      BY <1>0, <1>1, <1>3, <1>12, <2>2 DEF ApplyGot
    <3>3. place' \in [Rels -> Values]
      BY <1>1, <1>2, <1>12, <2>2 DEF ApplyGot
    <3> QED BY <1>0, <1>12, <2>2, <3>1, <3>2, <3>3, AppliedType DEF ApplyGot
  <2> QED BY <2>1, <2>2
<1>13. ASSUME ApplyGotoff PROVE TypeOK'
  <2>1. place' \in [Rels -> Values]
    BY <1>1, <1>2, <1>13 DEF ApplyGotoff
  <2> QED BY <1>0, <1>13, <2>1, AppliedType DEF ApplyGotoff
<1>14. ASSUME EndApply PROVE TypeOK'
  BY <1>14 DEF EndApply, TypeOK, tables, Rels
<1> QED BY <1>5, <1>6, <1>7, <1>8, <1>9, <1>10, <1>11, <1>12, <1>13, <1>14 DEF Apply

LEMMA NextType == TypeOK /\ [Next]_vars => TypeOK'
<1>1. ASSUME TypeOK, UNCHANGED vars PROVE TypeOK'
  BY <1>1 DEF TypeOK, vars, Rels
<1> QED BY <1>1, ScanStepType, ApplyStepType DEF Next

(* Type correctness: every variable of both phases keeps its type, for any *)
(* set of links.                                                           *)
THEOREM TypeCorrect == Spec => []TypeOK
BY InitType, NextType, PTL DEF Spec

-----------------------------------------------------------------------------
(* Nothing that is reserved is given back, and only a symbol of a shared   *)
(* object is copied.                                                       *)

LEMMA ScanKeeps ==
  ASSUME TypeOK, Scan
  PROVE  /\ link' = link
         /\ \A y \in Symbols : reserved[y] \subseteq reserved'[y]
         /\ \/ /\ sym' = sym
               /\ \A i \in Rels : dynrel'[i].kind = "COPY" => dynrel[i].kind = "COPY"
            \/ at \in Rels /\ sym[SymOf(at)].dyn /\ CopyReloc(SymOf(at))
<1> DEFINE Kept == \A y \in Symbols : reserved[y] \subseteq reserved'[y]
           NoCopy == /\ sym' = sym
                     /\ \A i \in Rels : dynrel'[i].kind = "COPY" => dynrel[i].kind = "COPY"
<1> USE DEF Scanning
<1>0. /\ reserved \in [Symbols -> SUBSET {"Rel", "GOT", "PLT"}]
      /\ dynrel \in [Rels -> DynRels]
  BY DEF TypeOK, DynRels
<1>1. ASSUME NEW y, NEW bits, Reserve(y, bits) PROVE Kept
  BY <1>0, <1>1 DEF Reserve
<1>2. ASSUME NEW k \in {"RELATIVE", "own"}, DynRelOnPlace(k) PROVE NoCopy
  BY <1>0, <1>2 DEF DynRelOnPlace, DynRel
<1>3. ASSUME NEW y, NEW hasRel, GOT_init(y, hasRel) PROVE NoCopy
  BY <1>0, <1>3 DEF GOT_init, DynRel, NoDynRel
<1>4. ASSUME NEW y, NEW entry, NEW needs, NEW k \in {"RELATIVE", "own"},
             ReserveFor(y, entry, needs, k)
      PROVE  Kept /\ (NoCopy \/ (sym[y].dyn /\ CopyReloc(y)))
  <2>1. Kept
    BY <1>4, <1>1 DEF ReserveFor
  <2>2. DynRelOnPlace(k) => NoCopy
    BY <1>2
  <2>3. UNCHANGED <<sym, got, dynrel, copied, textRel>> => NoCopy
    OBVIOUS
  <2> QED BY <1>4, <2>1, <2>2, <2>3 DEF ReserveFor, symbolNeedsCopyReloc
<1>5. UNCHANGED <<tables, sym>> => Kept /\ NoCopy
  BY DEF tables
<1> HIDE DEF Kept, NoCopy
<1>6. ASSUME ScanDebug \/ ScanUnsupported \/ EndScan PROVE Kept /\ NoCopy /\ link' = link
  BY <1>5, <1>6 DEF ScanDebug, ScanUnsupported, EndScan
<1>7. ASSUME ScanNothing PROVE Kept /\ NoCopy /\ link' = link
  BY <1>5, <1>7 DEF ScanNothing, Scanned
<1>8. ASSUME ScanLocalAbs PROVE Kept /\ NoCopy /\ link' = link
  BY <1>1, <1>2, <1>5, <1>8 DEF ScanLocalAbs, Scanned
<1>9. ASSUME ScanGot PROVE Kept /\ NoCopy /\ link' = link
  <2>1. ASSUME NEW hasRel, GOT_init(SymOf(at), hasRel) PROVE Kept /\ NoCopy
    BY <1>1, <1>3, <2>1 DEF GOT_init
  <2> QED BY <1>5, <1>9, <2>1 DEF ScanGot, Scanned
<1>10. ASSUME ScanGlobalPlt PROVE Kept /\ NoCopy /\ link' = link
  <2>1. Kept
    BY <1>1, <1>10 DEF ScanGlobalPlt, Kept
  <2> QED BY <1>10, <2>1 DEF ScanGlobalPlt, Scanned, NoCopy
<1>11. ASSUME ScanGlobalAbs \/ ScanGlobalRel
       PROVE  /\ Kept /\ link' = link /\ at \in Rels
              /\ NoCopy \/ (sym[SymOf(at)].dyn /\ CopyReloc(SymOf(at)))
  BY <1>4, <1>11 DEF ScanGlobalAbs, ScanGlobalRel, Scanned
<1> QED BY <1>6, <1>7, <1>8, <1>9, <1>10, <1>11 DEF Scan, Kept, NoCopy

LEMMA ApplyKeeps ==
  ASSUME TypeOK, Apply
  PROVE  /\ UNCHANGED <<link, sym, reserved>>
         /\ \A i \in Rels : dynrel'[i].kind = dynrel[i].kind
<1>0. dynrel \in [Rels -> DynRels]
  BY DEF TypeOK, DynRels
<1>1. ASSUME NEW v, SetAddend(v) PROVE \A i \in Rels : dynrel'[i].kind = dynrel[i].kind
  BY <1>0, <1>1 DEF SetAddend, DynRels
<1>2. dynrel' = dynrel \/ \E v : SetAddend(v)
  BY DEF Apply, ApplyDebug, ApplyAbs32, ApplyAbs64, ApplySigned, ApplyRel32, ApplyRel64,
         ApplyPlt, ApplyGot, ApplyGotoff, EndApply, Report, tables
<1>3. UNCHANGED <<link, sym, reserved>>
  BY DEF Apply, ApplyDebug, ApplyAbs32, ApplyAbs64, ApplySigned, ApplyRel32, ApplyRel64,
         ApplyPlt, ApplyGot, ApplyGotoff, EndApply, Applied, tables
<1> QED BY <1>1, <1>2, <1>3

-----------------------------------------------------------------------------
(* A variable is copied once.  The invariant is that neither the symbol of *)
(* a copy relocation nor one of its aliases is dynamic any longer.         *)

CopyInv ==
  \A i \in Rels :
    dynrel[i].kind = "COPY" =>
      /\ ~sym[SymOf(i)].dyn
      /\ SymOf(i) \in link.aliases => \A z \in link.aliases : ~sym[z].dyn

LEMMA CopyStep == TypeOK /\ CopyInv /\ CopiedOnce /\ [Next]_vars => CopyInv' /\ CopiedOnce'
<1> SUFFICES ASSUME TypeOK, CopyInv, CopiedOnce, [Next]_vars PROVE CopyInv' /\ CopiedOnce'
  OBVIOUS
<1> DEFINE NoCopy == /\ sym' = sym /\ link' = link
                     /\ \A i \in Rels : dynrel'[i].kind = "COPY" => dynrel[i].kind = "COPY"
<1>1. ASSUME NoCopy PROVE CopyInv' /\ CopiedOnce'
  BY <1>1 DEF CopyInv, CopiedOnce, Rels, SymOf
<1>2. ASSUME link' = link, at \in Rels, sym[SymOf(at)].dyn, CopyReloc(SymOf(at))
      PROVE  CopyInv' /\ CopiedOnce'
  <2> DEFINE y == SymOf(at)
             defined == {y} \cup {z \in link.aliases : y \in link.aliases /\ sym[z].dyn}
  <2>0. sym \in [Symbols -> SymbolInfos] /\ dynrel \in [Rels -> DynRels]
        /\ y \in Symbols /\ link.aliases \subseteq Symbols
        /\ \A i \in Rels : SymOf(i) \in Symbols
    BY <1>2, RelsType DEF TypeOK, DynRels
  <2>1. \A z \in Symbols : sym'[z].dyn => z \notin defined /\ sym[z].dyn
    BY <1>2, <2>0 DEF CopyReloc, SymbolInfos
  <2>2. \A i \in Rels : i # at => dynrel'[i] = dynrel[i]
    BY <1>2, <2>0 DEF CopyReloc
  <2>3. y \in Symbols /\ ~sym'[y].dyn
        /\ (y \in link.aliases => \A z \in link.aliases : ~sym'[z].dyn)
    BY <2>0, <2>1
  <2>4. CopyInv'
    <3>1. ASSUME NEW i \in Rels, dynrel'[i].kind = "COPY"
          PROVE  /\ ~sym'[SymOf(i)].dyn
                 /\ SymOf(i) \in link.aliases => \A z \in link.aliases : ~sym'[z].dyn
      <4>1. CASE i = at
        BY <2>3, <4>1
      <4>2. CASE i # at
        BY <2>0, <2>1, <2>2, <3>1, <4>2 DEF CopyInv
      <4> QED BY <4>1, <4>2
    <3> QED BY <1>2, <3>1 DEF CopyInv, Rels, SymOf
  <2>5. \A i \in Rels : i # at /\ dynrel'[i].kind = "COPY" =>
          SymOf(i) # y /\ ~({SymOf(i), y} \subseteq link.aliases)
    BY <1>2, <2>2 DEF CopyInv
  <2>6. CopiedOnce'
    <3>1. ASSUME NEW i \in Rels, NEW j \in Rels, i # j,
                 dynrel'[i].kind = "COPY", dynrel'[j].kind = "COPY"
          PROVE  SymOf(i) # SymOf(j) /\ ~({SymOf(i), SymOf(j)} \subseteq link.aliases)
      <4>1. CASE i # at /\ j # at
        BY <2>2, <3>1, <4>1 DEF CopiedOnce
      <4>2. CASE i = at \/ j = at
        BY <2>5, <3>1, <4>2
      <4> QED BY <4>1, <4>2
    <3> QED BY <1>2, <3>1 DEF CopiedOnce, Rels, SymOf
  <2> QED BY <2>4, <2>6
<1>3. CASE UNCHANGED vars
  BY <1>1, <1>3 DEF vars
<1>4. CASE Scan
  BY <1>1, <1>2, <1>4, ScanKeeps
<1>5. CASE Apply
  BY <1>1, <1>5, ApplyKeeps
<1> QED BY <1>3, <1>4, <1>5 DEF Next

(* Whatever the order of the relocations and of the names they use, a      *)
(* variable of a shared object gets at most one copy relocation.           *)
THEOREM VariablesCopiedOnce == Spec => []CopiedOnce
<1>1. Init => CopyInv /\ CopiedOnce
  BY DEF Init, CopyInv, CopiedOnce, NoDynRel
<1> QED BY <1>1, TypeCorrect, CopyStep, PTL DEF Spec

-----------------------------------------------------------------------------
(* Apply finds its GOT entries.  The invariant: every GOT relocation of a  *)
(* loaded section that the scan has passed has its entry.                  *)

GotInv ==
  \A i \in Rels :
    /\ Kind(i) = "got" /\ Alloc(i)
    /\ i < at \/ phase \in {"apply", "done"}
    => Has(SymOf(i), "GOT")

LEMMA GotScan ==
  ASSUME TypeOK, Scan, at \in Rels, Kind(at) = "got", Alloc(at)
  PROVE  "GOT" \in reserved'[SymOf(at)]
<1>1. ScanGot
  BY DEF Scan, ScanDebug, ScanNothing, ScanUnsupported, ScanLocalAbs, ScanGlobalPlt,
         ScanGlobalAbs, ScanGlobalRel, EndScan, Scanning
<1>2. reserved \in [Symbols -> SUBSET {"Rel", "GOT", "PLT"}] /\ SymOf(at) \in Symbols
  BY RelsType DEF TypeOK
<1> QED BY <1>1, <1>2 DEF ScanGot, GOT_init, Reserve, Has, tables

LEMMA GotStep == TypeOK /\ GotInv /\ EntriesFound /\ [Next]_vars => GotInv' /\ EntriesFound'
<1> SUFFICES ASSUME TypeOK, GotInv, EntriesFound, [Next]_vars PROVE GotInv' /\ EntriesFound'
  OBVIOUS
<1>0. /\ Rels = 1..Len(link.rels) /\ Len(link.rels) \in Nat
      /\ at \in 1..(Len(link.rels) + 1)
      /\ \A i \in Rels : SymOf(i) \in Symbols
  BY RelsType DEF TypeOK
<1>1. CASE UNCHANGED vars
  BY <1>1 DEF vars, GotInv, EntriesFound, Rels, Kind, Alloc, SymOf, Has
<1>2. CASE Scan
  <2>1. link' = link /\ \A y \in Symbols : reserved[y] \subseteq reserved'[y]
    BY <1>2, ScanKeeps
  <2>2. \/ /\ at \in Rels
           /\ phase = "scan"
           /\ phase' # "apply" /\ phase' # "done"
           /\ at' \in {at, at + 1}
           /\ at' = at => Kind(at) # "got"
        \/ at \notin Rels /\ phase = "scan"
    <3>1. CASE EndScan
      BY <3>1 DEF EndScan
    <3>2. CASE ScanDebug
      BY <3>2 DEF ScanDebug
    <3>3. CASE ScanUnsupported
      BY <3>3 DEF ScanUnsupported, Scanning
    <3>4. ASSUME Scanned, at \in Rels, phase = "scan"
          PROVE  phase' = "scan" /\ at' = at + 1
      BY <3>4 DEF Scanned
    <3>5. CASE ScanNothing \/ ScanLocalAbs \/ ScanGot \/ ScanGlobalPlt
               \/ ScanGlobalAbs \/ ScanGlobalRel
      <4>1. Scanned /\ at \in Rels /\ phase = "scan"
        BY <3>5 DEF ScanNothing, ScanLocalAbs, ScanGot, ScanGlobalPlt, ScanGlobalAbs,
           ScanGlobalRel, Scanning
      <4> QED BY <1>0, <3>4, <4>1, SMT
    <3> QED BY <1>2, <3>1, <3>2, <3>3, <3>5 DEF Scan
  <2>3. ASSUME NEW i \in Rels, Kind(i) = "got", Alloc(i),
               i < at' \/ phase' \in {"apply", "done"}
        PROVE  "GOT" \in reserved'[SymOf(i)]
    <3>1. i < at \/ i = at
      <4>1. CASE at \notin Rels
        BY <1>0, <4>1, SMT
      <4>2. CASE at \in Rels
        <5>0. phase' # "apply" /\ phase' # "done" /\ at' \in {at, at + 1}
          BY <2>2, <4>2
        <5>1. i < at' /\ at' \in {at, at + 1}
          <6>1. ~(phase' \in {"apply", "done"})
            BY <5>0
          <6> QED BY <2>3, <5>0, <6>1
        <5>2. i \in Int /\ at \in Int
          BY <1>0, SMT
        <5> HIDE DEF Rels
        <5> QED BY <5>1, <5>2, SMT
      <4> QED BY <4>1, <4>2
    <3>2. CASE i < at
      BY <1>0, <2>1, <2>3, <3>2 DEF GotInv, Has
    <3>3. CASE i = at
      BY <1>2, <2>3, <3>3, GotScan
    <3> QED BY <3>1, <3>2, <3>3
  <2>4. GotInv'
    BY <2>1, <2>3 DEF GotInv, Rels, Kind, Alloc, SymOf, Has
  <2>5. \A e \in errors' : e \in errors \/ e[1] = "undefined"
    <3>1. UNCHANGED errors \/ Scanned
      BY <1>2 DEF Scan, ScanDebug, ScanNothing, ScanUnsupported, ScanLocalAbs, ScanGot,
         ScanGlobalPlt, ScanGlobalAbs, ScanGlobalRel, EndScan
    <3>2. Scanned => errors' \subseteq errors \cup {<<"undefined", at>>}
      BY DEF Scanned
    <3> QED BY <3>1, <3>2
  <2> QED BY <2>1, <2>4, <2>5 DEF EntriesFound, Kind, Alloc
<1>3. CASE Apply
  <2>1. UNCHANGED <<link, reserved>>
    BY <1>3, ApplyKeeps
  <2>2. phase = "apply"
    BY <1>3 DEF Apply, ApplyDebug, ApplyAbs32, ApplyAbs64, ApplySigned, ApplyRel32, ApplyRel64,
       ApplyPlt, ApplyGot, ApplyGotoff, EndApply, Applying
  <2>3. GotInv'
    BY <2>1, <2>2 DEF GotInv, Rels, Kind, Alloc, SymOf, Has
  <2>4. ASSUME NEW e \in errors', e \notin errors, e[1] = "badreloc"
        PROVE  Kind(e[2]) = "signed" \/ ~Alloc(e[2])
    <3>1. \/ ApplySigned /\ Report("badreloc")
          \/ ApplyGot /\ ~Has(SymOf(at), "GOT") /\ Report("badreloc")
      <4>1. \/ UNCHANGED errors
            \/ ApplySigned /\ Report("badreloc")
            \/ ApplyRel64 /\ Report("overflow")
            \/ ApplyGot /\ ~Has(SymOf(at), "GOT") /\ Report("badreloc")
        BY <1>3 DEF Apply, ApplyDebug, ApplyAbs32, ApplyAbs64, ApplySigned, ApplyRel32,
           ApplyRel64, ApplyPlt, ApplyGot, ApplyGotoff, EndApply
      <4>2. Report("overflow") => errors' = errors \cup {<<"overflow", at>>}
        BY DEF Report
      <4>3. ~Report("overflow")
        BY <2>4, <4>2
      <4> QED BY <2>4, <4>1, <4>3
    <3>2. e = <<"badreloc", at>>
      BY <2>4, <3>1 DEF Report
    <3>3. CASE ApplySigned
      BY <3>2, <3>3 DEF ApplySigned, Applying
    <3>4. CASE ApplyGot /\ ~Has(SymOf(at), "GOT")
      BY <2>2, <3>2, <3>4 DEF ApplyGot, Applying, GotInv
    <3> QED BY <3>1, <3>3, <3>4
  <2> QED BY <2>1, <2>3, <2>4 DEF EntriesFound, Kind, Alloc
<1> QED BY <1>1, <1>2, <1>3 DEF Next

(* For any links, the apply phase finds every GOT entry it needs: the scan *)
(* has made it, whichever relocation of the symbol came first.             *)
THEOREM EntriesAlwaysFound == Spec => []EntriesFound
<1>1. Init => GotInv /\ EntriesFound
  <2> SUFFICES ASSUME Init PROVE GotInv /\ EntriesFound
    OBVIOUS
  <2>1. Rels = 1..Len(link.rels) /\ Len(link.rels) \in Nat
    BY InitType, RelsType
  <2> QED BY <2>1 DEF Init, GotInv, EntriesFound
<1> QED BY <1>1, TypeCorrect, GotStep, PTL DEF Spec

-----------------------------------------------------------------------------
(* A static link needs nothing from the dynamic linker.                    *)

StaticInv ==
  isCodeStatic(out) =>
    \A y \in Symbols : ~sym[y].dyn /\ sym[y].type # "IndirectFunc"

\* No decision of a static link asks for an entry or a dynamic relocation.
LEMMA StaticDecisions ==
  ASSUME NEW o \in Outputs, isCodeStatic(o),
         NEW y \in SymbolInfos, ~y.dyn, y.type # "IndirectFunc"
  PROVE  /\ ~isCodeIndep(o)
         /\ \A plt, abs : ~symbolNeedsDynRel(o, y, plt, abs)
         /\ ~symbolNeedsPLT(o, y)
         /\ symbolFinalValueIsKnown(o, y)
<1>1. ~isCodeIndep(o) /\ o.codeGen # "DynObj" /\ isExecutable(o)
  BY DEF isCodeStatic, isCodeIndep, CodePosition, Outputs, isExecutable
<1>2. Foreign(o, y) => Undef(y)
  BY <1>1 DEF Foreign, isSymbolPreemptible
<1>3. \A plt, abs : ~symbolNeedsDynRel(o, y, plt, abs)
  BY <1>1, <1>2 DEF symbolNeedsDynRel
<1>4. ~symbolNeedsPLT(o, y)
  BY DEF symbolNeedsPLT
<1>5. symbolFinalValueIsKnown(o, y)
  BY <1>1 DEF symbolFinalValueIsKnown
<1> QED BY <1>1, <1>3, <1>4, <1>5

LEMMA StaticStep ==
  TypeOK /\ StaticInv /\ StaticStaysStatic /\ [Next]_vars => StaticInv' /\ StaticStaysStatic'
<1> SUFFICES ASSUME TypeOK, StaticInv, StaticStaysStatic, [Next]_vars
             PROVE  StaticInv' /\ StaticStaysStatic'
  OBVIOUS
<1>0. /\ link' = link /\ Rels' = Rels /\ out' = out
      /\ link.out \in Outputs
      /\ sym \in [Symbols -> SymbolInfos]
      /\ reserved \in [Symbols -> SUBSET {"Rel", "GOT", "PLT"}]
      /\ dynrel \in [Rels -> DynRels]
      /\ \A i \in Rels : SymOf(i) \in Symbols
  <2>1. link' = link
    BY ScanKeeps, ApplyKeeps DEF Next, vars
  <2> QED BY <2>1, RelsType DEF TypeOK, LinkType, DynRels, Rels, out
<1>1. CASE ~isCodeStatic(out)
  BY <1>0, <1>1 DEF StaticInv, StaticStaysStatic
<1>2. CASE isCodeStatic(out)
  <2> DEFINE NoChange == /\ sym' = sym
                         /\ \A i \in Rels : dynrel'[i].kind \in {dynrel[i].kind, "none"}
                         /\ \A y \in Symbols : "PLT" \in reserved'[y] => "PLT" \in reserved[y]
  <2>1. ASSUME NoChange PROVE StaticInv' /\ StaticStaysStatic'
    BY <1>0, <1>2, <2>1 DEF StaticInv, StaticStaysStatic, Has
  <2>2. \A i \in Rels :
          LET y == sym[SymOf(i)]
          IN  /\ ~isCodeIndep(out)
              /\ \A plt, abs : ~symbolNeedsDynRel(out, y, plt, abs)
              /\ ~symbolNeedsPLT(out, y)
              /\ symbolFinalValueIsKnown(out, y)
    BY <1>0, <1>2, StaticDecisions DEF StaticInv, out
  <2>3. UNCHANGED <<tables, sym>> => NoChange
    BY DEF tables
  <2>4. ASSUME Scanning({"abs", "narrow", "signed", "rel"}, FALSE),
               NEW needs, ~needs, NEW k, ReserveFor(SymOf(at), {}, needs, k)
        PROVE  NoChange
    BY <1>0, <2>4 DEF ReserveFor, Reserve
  <2>5. CASE UNCHANGED vars
    BY <2>1, <2>5 DEF vars
  <2>6. CASE Scan
    <3>1. CASE ScanDebug \/ ScanNothing \/ ScanUnsupported \/ EndScan
      BY <2>1, <2>3, <3>1 DEF ScanDebug, ScanNothing, ScanUnsupported, EndScan
    <3>2. CASE ScanLocalAbs
      BY <2>1, <2>2, <2>3, <3>2 DEF ScanLocalAbs, Scanning
    <3>3. CASE ScanGot
      <4>1. at \in Rels
        BY <3>3 DEF ScanGot, Scanning
      <4>2. GOT_init(SymOf(at), FALSE) => NoChange
        BY <1>0, <4>1 DEF GOT_init, Reserve, NoDynRel
      <4>3. UNCHANGED <<tables, sym>> \/ GOT_init(SymOf(at), FALSE)
        <5> DEFINE local == sym[SymOf(at)].bind = "Local"
                   hasRel == IF local THEN isCodeIndep(out)
                             ELSE ~symbolFinalValueIsKnown(out, sym[SymOf(at)])
        <5>1. hasRel = FALSE
          BY <2>2, <4>1 DEF isCodeIndep
        <5>2. UNCHANGED <<tables, sym>> \/ GOT_init(SymOf(at), hasRel)
          BY <3>3 DEF ScanGot
        <5> HIDE DEF hasRel
        <5> QED BY <5>1, <5>2
      <4> QED BY <2>1, <2>3, <4>2, <4>3
    <3>4. CASE ScanGlobalPlt
      BY <2>1, <2>2, <3>4 DEF ScanGlobalPlt, Scanning
    <3>5. CASE ScanGlobalAbs
      <4>1. at \in Rels /\ Scanning({"abs", "narrow", "signed", "rel"}, FALSE)
        BY <3>5 DEF ScanGlobalAbs, Scanning
      <4> DEFINE needs == symbolNeedsDynRel(out, sym[SymOf(at)],
                                            "PLT" \in reserved[SymOf(at)] \cup {}, TRUE)
      <4>2. \E k : ReserveFor(SymOf(at), {}, needs, k)
        BY <2>2, <3>5, <4>1 DEF ScanGlobalAbs
      <4>3. ~needs
        BY <2>2, <4>1
      <4> HIDE DEF needs
      <4> QED BY <2>1, <2>4, <4>1, <4>2, <4>3
    <3>6. CASE ScanGlobalRel
      <4>1. at \in Rels /\ Scanning({"abs", "narrow", "signed", "rel"}, FALSE)
        BY <3>6 DEF ScanGlobalRel, Scanning
      <4> DEFINE needs == /\ symbolNeedsDynRel(out, sym[SymOf(at)],
                                               "PLT" \in reserved[SymOf(at)] \cup {}, FALSE)
                          /\ is64 => /\ isDynamicSymbol(out, sym[SymOf(at)])
                                     /\ symbolNeedsCopyReloc(out, sym[SymOf(at)], Writable(at))
      <4>2. ReserveFor(SymOf(at), {}, needs, "own")
        BY <2>2, <3>6, <4>1 DEF ScanGlobalRel
      <4>3. ~needs
        BY <2>2, <4>1
      <4> HIDE DEF needs
      <4> QED BY <2>1, <2>4, <4>1, <4>2, <4>3
    <3> QED BY <2>6, <3>1, <3>2, <3>3, <3>4, <3>5, <3>6 DEF Scan
  <2>7. CASE Apply
    BY <2>1, <2>7, ApplyKeeps
  <2> QED BY <2>5, <2>6, <2>7 DEF Next
<1> QED BY <1>1, <1>2

(* Where no input has a symbol of type STT_GNU_IFUNC, which gets an entry  *)
(* of the PLT in every link, the assertion of doPreLayout holds: a static  *)
(* link reserves neither dynamic relocations nor PLT entries.              *)
THEOREM StaticNeedsNothing ==
  ASSUME \A l \in Links, y \in Symbols : l.syms[y].type # "IndirectFunc"
  PROVE  Spec => []StaticStaysStatic
<1>1. Init => StaticInv /\ StaticStaysStatic
  <2> SUFFICES ASSUME Init PROVE StaticInv /\ StaticStaysStatic
    OBVIOUS
  <2>1. isCodeStatic(out) => ~link.out.libs
    BY DEF isCodeStatic, CodePosition, out
  <2>2. StaticInv
    BY <2>1, ImportAssumption DEF Init, StaticInv
  <2> QED BY <2>2 DEF Init, StaticStaysStatic, NoDynRel, Has
<1> QED BY <1>1, TypeCorrect, StaticStep, PTL DEF Spec

-----------------------------------------------------------------------------
(* What the places hold at run time.  The scan decides from the symbol as  *)
(* it is, the apply from the symbol as it has become: Decision and Writing *)
(* say what each makes of a symbol y with or without an entry of the PLT,  *)
(* in a link of b bits with output o; where the symbol has not changed     *)
(* the two fit together, whatever the symbol is.                           *)

Value(y) == IF Undef(y) \/ y.dyn THEN Zero ELSE The("S")
TargetFor(y, plt) == IF y.bind # "Local" /\ plt THEN The("PLT") ELSE Value(y)
Base(o) == IF isCodeIndep(o) THEN The("Base") ELSE Zero
Finds(o, y) == IF Foreign(o, y) THEN The("Found") ELSE The("S") ++ Base(o)

ReachedBy(o, y, plt) ==
  {Finds(o, y)} \cup
  (IF Undef(y) /\ ~y.dyn /\ isExecutable(o) THEN {Zero} ELSE {}) \cup
  (IF plt /\ (y.type = "Function" \/ Undef(y)) THEN {The("PLT") ++ Base(o)} ELSE {})

Performed(b, o, stored, r, y) ==
  CASE r.kind = "RELATIVE" -> (IF b = 64 THEN r.addend ELSE stored) ++ Base(o)
    [] r.kind = "own" -> (IF b = 64 THEN r.addend ELSE stored) ++ Finds(o, y)
    [] r.kind = "GLOB_DAT" -> Finds(o, y)
    [] OTHER -> stored

OriginFor(o, kind) ==
  CASE kind \in {"rel", "plt"} -> The("P") ++ Base(o)
    [] kind = "gotoff" -> The("ORG") ++ Base(o)
    [] OTHER -> Zero

Holds(b, o, kind, stored, r, y) ==
  LET v == Performed(b, o, stored, r, y)
  IN  IF kind = "rel" /\ r.kind = "own" THEN v -- OriginFor(o, kind) ELSE v

AbsKinds == {"abs", "narrow", "signed"}

\* The dynamic relocation of an absolute place.
AbsDecision(o, kind, y, plt) ==
  IF IF y.bind = "Local" THEN isCodeIndep(o) ELSE symbolNeedsDynRel(o, y, plt, TRUE)
  THEN IF kind = "abs" /\ (y.bind = "Local" \/ helper_use_relative_reloc(o, y))
       THEN "RELATIVE" ELSE "own"
  ELSE "none"

\* The dynamic relocation of a PC-relative place.
RelDecision(b, o, y, plt) ==
  IF y.bind # "Local" /\ b # 64 /\ symbolNeedsDynRel(o, y, plt, FALSE) THEN "own" ELSE "none"

Copies(o, y) ==
  ~isCodeIndep(o) /\ ~y.dyn /\ ~Undef(y) /\ y.bind # "Local" /\ y.type # "Function"

Decision(b, o, kind, k, y, plt) ==
  \/ kind \in AbsKinds \cup {"rel"} /\ k = "COPY" /\ Copies(o, y)
  \/ kind \in AbsKinds /\ k = AbsDecision(o, kind, y, plt)
  \/ kind = "rel" /\ k = RelDecision(b, o, y, plt)
  \/ /\ kind = "plt" /\ k = "none"
     /\ \/ y.bind = "Local" \/ plt
        \/ symbolFinalValueIsKnown(o, y) \/ helper_use_relative_reloc(o, y)
  \/ kind = "gotoff" /\ k = "none"

\* What the apply of an absolute place writes, on x86-32 into the place and
\* on x86-64 into the place or into the dynamic relocation.
AbsWriting(b, o, kind, stored, r, y, plt) ==
  IF b # 64
  THEN stored = IF /\ y.bind # "Local"
                   /\ symbolNeedsDynRel(o, y, plt, TRUE)
                   /\ kind = "abs" => ~helper_use_relative_reloc(o, y)
                THEN The("A") ELSE TargetFor(y, plt) ++ The("A")
  ELSE IF r.kind \notin {"RELATIVE", "own"} THEN stored = TargetFor(y, plt) ++ The("A")
  ELSE r.addend = IF y.bind = "Local" \/ (kind = "abs" /\ helper_use_relative_reloc(o, y))
                  THEN TargetFor(y, plt) ++ The("A") ELSE The("A")

RelWriting(b, o, stored, y, plt) ==
  /\ stored = IF /\ b # 64
                 /\ y.bind # "Local"
                 /\ symbolNeedsDynRel(o, y, plt, TRUE)
                 /\ ~helper_use_relative_reloc(o, y)
                 /\ ~plt
              THEN The("A") ELSE (TargetFor(y, plt) ++ The("A")) -- The("P")
  /\ b = 64 /\ y.bind # "Local" => ~symbolNeedsDynRel(o, y, plt, FALSE)

Writing(b, o, kind, stored, r, y, plt) ==
  \/ kind \in {"abs", "narrow"} /\ AbsWriting(b, o, kind, stored, r, y, plt)
  \/ /\ kind = "signed" /\ ~(b = 64 /\ r.kind \in {"RELATIVE", "own"})
     /\ stored = TargetFor(y, plt) ++ The("A")
  \/ kind = "rel" /\ RelWriting(b, o, stored, y, plt)
  \/ /\ kind = "plt"
     /\ stored = ((IF plt THEN The("PLT") ELSE Value(y)) ++ The("A")) -- The("P")
  \/ kind = "gotoff" /\ stored = (Value(y) ++ The("A")) -- The("ORG")

\* What resolution and the scan make of a symbol.
Sound(o, y, plt) ==
  /\ y.bind = "Local" => ~Undef(y) /\ ~y.dyn
  /\ isCodeStatic(o) => ~y.dyn
  /\ plt => y.type = "Function" \/ (Undef(y) /\ ~y.dyn /\ isExecutable(o))

Suits(b, o, kind, y) ==
  /\ kind = "signed" => b = 64
  /\ kind = "gotoff" => ~Foreign(o, y)
  /\ kind \in {"narrow", "signed"} /\ isCodeIndep(o) => y.bind # "Local"

LEMMA SumLaws ==
  /\ \A u, v \in Values : u ++ v = v ++ u
  /\ \A u \in Values : u ++ Zero = u /\ u -- Zero = u
  /\ \A u, v, w \in Values : (u ++ v) ++ w = (u ++ w) ++ v
  /\ \A u, v, w, x \in Values : (u ++ v) -- w = ((u ++ x) ++ v) -- (w ++ x)
<1>1. ASSUME NEW u \in Values, NEW v \in Values PROVE u ++ v = v ++ u
  BY DEF Values, ++
<1>2. ASSUME NEW u \in Values PROVE u ++ Zero = u /\ u -- Zero = u
  BY DEF Values, ++, --, Zero
<1>3. ASSUME NEW u \in Values, NEW v \in Values, NEW w \in Values
      PROVE  (u ++ v) ++ w = (u ++ w) ++ v
  BY DEF Values, ++
<1>4. ASSUME NEW u \in Values, NEW v \in Values, NEW w \in Values, NEW x \in Values
      PROVE  (u ++ v) -- w = ((u ++ x) ++ v) -- (w ++ x)
  BY DEF Values, ++, --
<1> QED BY <1>1, <1>2, <1>3, <1>4

LEMMA TermValues ==
  /\ Zero \in Values
  /\ {The("A"), The("S"), The("PLT"), The("GOT"), The("ORG"), The("P"), The("Base"),
      The("Found")} \subseteq Values
  /\ \A o : Base(o) \in Values
  /\ \A y : Value(y) \in Values
  /\ \A y, plt : TargetFor(y, plt) \in Values
<1>1. /\ Zero \in Values
      /\ {The("A"), The("S"), The("PLT"), The("GOT"), The("ORG"), The("P"), The("Base"),
          The("Found")} \subseteq Values
  BY ValueConstants DEF Terms
<1> QED BY <1>1 DEF Base, Value, TargetFor

\* What is not left to the dynamic linker is reached by its value in the
\* output: another unit may only provide what is undefined in an executable.
LEMMA TargetReached ==
  ASSUME NEW o \in Outputs, NEW y \in SymbolInfos, NEW plt \in BOOLEAN, Sound(o, y, plt),
         y.bind = "Local" \/ ~symbolNeedsDynRel(o, y, plt, FALSE)
  PROVE  TargetFor(y, plt) ++ Base(o) \in ReachedBy(o, y, plt)
<1>1. CASE y.bind # "Local" /\ plt
  BY <1>1 DEF Sound, TargetFor, ReachedBy
<1>2. CASE ~(y.bind # "Local" /\ plt) /\ ~Foreign(o, y)
  BY <1>2 DEF TargetFor, Value, Foreign, Finds, ReachedBy
<1>3. CASE y.bind # "Local" /\ ~plt /\ Foreign(o, y)
  <2>1. \/ Undef(y) /\ ~y.dyn /\ isExecutable(o)
        \/ y.bind = "Absolute" /\ isCodeStatic(o)
    BY <1>3 DEF symbolNeedsDynRel
  <2>2. isCodeStatic(o) => o.codeGen # "DynObj" /\ isExecutable(o)
    BY DEF isCodeStatic, CodePosition, isExecutable, Outputs
  <2>3. isCodeStatic(o) => Undef(y) /\ ~y.dyn
    BY <1>3, <2>2 DEF Sound, Foreign, isSymbolPreemptible
  <2>4. Undef(y) /\ ~y.dyn /\ isExecutable(o)
    BY <2>1, <2>2, <2>3
  <2>5. ~isCodeIndep(o)
    BY <2>4 DEF isExecutable, isCodeIndep, CodePosition, Outputs
  <2>6. TargetFor(y, plt) ++ Base(o) = Zero ++ Zero
    BY <1>3, <2>4, <2>5 DEF TargetFor, Value, Base
  <2>7. Zero ++ Zero = Zero
    BY SumLaws, TermValues
  <2> QED BY <2>4, <2>6, <2>7 DEF ReachedBy
<1>4. CASE y.bind = "Local" /\ Foreign(o, y)
  BY <1>4 DEF Sound, Foreign, isSymbolPreemptible, Undef, SymbolInfos
<1> QED BY <1>1, <1>2, <1>3, <1>4

\* Where a place has no dynamic relocation its static value is final.
LEMMA AbsoluteHolds ==
  ASSUME NEW b \in {32, 64}, NEW o \in Outputs, NEW kind \in AbsKinds, NEW stored \in Values,
         NEW r \in DynRels, NEW y \in SymbolInfos, NEW plt \in BOOLEAN,
         Sound(o, y, plt), Suits(b, o, kind, y),
         Decision(b, o, kind, r.kind, y, plt), Writing(b, o, kind, stored, r, y, plt)
  PROVE  \E a \in ReachedBy(o, y, plt) :
           Holds(b, o, kind, stored, r, y) = (a ++ The("A")) -- OriginFor(o, kind)
<1> DEFINE T == TargetFor(y, plt)
           A == The("A")
           B == Base(o)
           F == Finds(o, y)
<1>0. /\ T \in Values /\ A \in Values /\ B \in Values /\ F \in Values /\ Zero \in Values
      /\ r.addend \in Values
  <2>1. F \in Values
    BY TermValues, ValueSum DEF Finds
  <2> QED BY <2>1, TermValues DEF DynRels
<1>1. OriginFor(o, kind) = Zero /\ kind # "rel" /\ kind \in AbsKinds
  BY DEF OriginFor, AbsKinds
<1>2. Holds(b, o, kind, stored, r, y) = Performed(b, o, stored, r, y)
  BY <1>1 DEF Holds
<1>3. \A a \in Values : (a ++ A) -- Zero = a ++ A
  BY <1>0, ValueSum, SumLaws
<1>4. SUFFICES \E a \in ReachedBy(o, y, plt) : a \in Values /\ Performed(b, o, stored, r, y) = a ++ A
  BY <1>1, <1>2, <1>3
<1>5. F \in ReachedBy(o, y, plt)
  BY DEF ReachedBy
<1>6. \/ r.kind = "COPY" /\ Copies(o, y)
      \/ r.kind = AbsDecision(o, kind, y, plt)
  BY <1>1 DEF Decision, AbsKinds
<1>7. /\ symbolNeedsDynRel(o, y, plt, FALSE) => symbolNeedsDynRel(o, y, plt, TRUE)
      /\ isCodeIndep(o) => symbolNeedsDynRel(o, y, plt, TRUE)
      /\ symbolNeedsDynRel(o, y, plt, FALSE) => Foreign(o, y)
  BY DEF symbolNeedsDynRel, isCodeIndep, isCodeStatic, CodePosition, isExecutable, Outputs
<1>8. \A u \in Values : T ++ B \in ReachedBy(o, y, plt) =>
        \E a \in ReachedBy(o, y, plt) : a \in Values /\ (T ++ A) ++ B = a ++ A
  <2>1. (T ++ A) ++ B = (T ++ B) ++ A /\ T ++ B \in Values
    BY <1>0, SumLaws, ValueSum
  <2> QED BY <2>1
<1>9. y.bind = "Local" => ~Foreign(o, y)
  BY DEF Sound, Foreign, isSymbolPreemptible, Undef, SymbolInfos
\* The value that is written or left to the dynamic linker to add to.
<1>10. CASE r.kind \in {"none", "COPY"}
  <2>1. ~isCodeIndep(o) /\ (y.bind = "Local" \/ ~symbolNeedsDynRel(o, y, plt, TRUE))
    <3>1. CASE r.kind = "COPY"
      <4>1. AbsDecision(o, kind, y, plt) # "COPY"
        BY DEF AbsDecision
      <4>2. Copies(o, y)
        BY <1>6, <3>1, <4>1
      <4>3. ~isCodeIndep(o) /\ ~Foreign(o, y)
        BY <4>2 DEF Copies, Foreign, isSymbolPreemptible, isCodeIndep, CodePosition
      <4> QED BY <4>3 DEF symbolNeedsDynRel
    <3>2. CASE r.kind = "none"
      BY <1>6, <1>7, <3>2 DEF AbsDecision
    <3> QED BY <1>10, <3>1, <3>2
  <2>2. T ++ B \in ReachedBy(o, y, plt)
    BY <1>7, <2>1, TargetReached
  <2>3. B = Zero
    BY <2>1 DEF Base
  <2>4. stored = T ++ A
    BY <1>1, <1>10, <2>1 DEF Writing, AbsWriting, AbsKinds
  <2>5. Performed(b, o, stored, r, y) = stored
    BY <1>10 DEF Performed
  <2>6. T ++ B = T
    BY <1>0, <2>3, SumLaws
  <2> HIDE DEF T, A, B, F
  <2> QED BY <1>0, <2>2, <2>4, <2>5, <2>6
<1>11. CASE r.kind = "RELATIVE"
  <2>1. kind = "abs" /\ ~Foreign(o, y)
    BY <1>6, <1>9, <1>11 DEF AbsDecision, helper_use_relative_reloc
  <2>2. T ++ B \in ReachedBy(o, y, plt)
    BY <1>7, <2>1, TargetReached
  <2>3. IF b = 64 THEN r.addend = T ++ A ELSE stored = T ++ A
    BY <1>11, <2>1 DEF Writing, AbsWriting, helper_use_relative_reloc
  <2>4. Performed(b, o, stored, r, y) = (T ++ A) ++ B
    BY <1>11, <2>3 DEF Performed
  <2> QED BY <1>0, <1>8, <2>2, <2>4
<1>12. CASE r.kind = "own"
  <2>1. y.bind # "Local" /\ symbolNeedsDynRel(o, y, plt, TRUE)
        /\ ~(kind = "abs" /\ helper_use_relative_reloc(o, y))
    BY <1>1, <1>6, <1>12 DEF AbsDecision, AbsKinds, Suits
  <2>2. (IF b = 64 THEN r.addend ELSE stored) = A
    BY <1>1, <1>12, <2>1 DEF Writing, AbsWriting, AbsKinds, Suits
  <2>3. Performed(b, o, stored, r, y) = A ++ F
    BY <1>12, <2>2 DEF Performed
  <2>4. A ++ F = F ++ A
    BY <1>0, SumLaws
  <2> QED BY <1>0, <1>5, <2>3, <2>4
<1> QED
  <2>1. r.kind \in {"none", "COPY", "RELATIVE", "own"}
    BY <1>6 DEF AbsDecision
  <2> QED BY <1>10, <1>11, <1>12, <2>1

LEMMA OthersHold ==
  ASSUME NEW b \in {32, 64}, NEW o \in Outputs, NEW kind \in {"rel", "plt", "gotoff"},
         NEW stored \in Values, NEW r \in DynRels, NEW y \in SymbolInfos, NEW plt \in BOOLEAN,
         Sound(o, y, plt), Suits(b, o, kind, y),
         Decision(b, o, kind, r.kind, y, plt), Writing(b, o, kind, stored, r, y, plt)
  PROVE  \E a \in ReachedBy(o, y, plt) :
           Holds(b, o, kind, stored, r, y) = (a ++ The("A")) -- OriginFor(o, kind)
<1> DEFINE T == TargetFor(y, plt)
           A == The("A")
           B == Base(o)
           F == Finds(o, y)
           P == IF kind = "gotoff" THEN The("ORG") ELSE The("P")
<1>0. T \in Values /\ A \in Values /\ B \in Values /\ F \in Values /\ P \in Values
  <2>1. F \in Values
    BY TermValues, ValueSum DEF Finds
  <2> QED BY <2>1, TermValues
<1>1. OriginFor(o, kind) = P ++ B
  BY DEF OriginFor
<1>2. ASSUME T ++ B \in ReachedBy(o, y, plt),
             stored = (T ++ A) -- P, r.kind \in {"none", "COPY"}
      PROVE  \E a \in ReachedBy(o, y, plt) :
               Holds(b, o, kind, stored, r, y) = (a ++ The("A")) -- OriginFor(o, kind)
  <2>1. Holds(b, o, kind, stored, r, y) = stored
    BY <1>2 DEF Holds, Performed
  <2>2. (T ++ A) -- P = ((T ++ B) ++ A) -- (P ++ B)
    BY <1>0, SumLaws
  <2> QED BY <1>1, <1>2, <2>1, <2>2
<1>3. y.bind = "Local" => ~Foreign(o, y)
  BY DEF Sound, Foreign, isSymbolPreemptible, Undef, SymbolInfos
<1>4. ~Foreign(o, y) => ~symbolNeedsDynRel(o, y, plt, FALSE)
  BY DEF symbolNeedsDynRel, isCodeIndep
<1>5. CASE kind = "gotoff"
  <2>1. ~Foreign(o, y) /\ r.kind = "none" /\ stored = (Value(y) ++ A) -- P
    BY <1>5 DEF Suits, Decision, Writing, AbsKinds
  <2>2. Value(y) ++ B = F
    BY <2>1 DEF Finds, Value, Foreign
  <2>3. Holds(b, o, kind, stored, r, y) = stored
    BY <2>1 DEF Holds, Performed
  <2>4. (Value(y) ++ A) -- P = ((Value(y) ++ B) ++ A) -- (P ++ B)
    BY <1>0, SumLaws, TermValues
  <2>5. F \in ReachedBy(o, y, plt)
    BY DEF ReachedBy
  <2> QED BY <1>1, <2>1, <2>2, <2>3, <2>4, <2>5
<1>6. CASE kind = "plt"
  <2>1. /\ r.kind = "none"
        /\ stored = ((IF plt THEN The("PLT") ELSE Value(y)) ++ A) -- P
        /\ \/ y.bind = "Local" \/ plt
           \/ symbolFinalValueIsKnown(o, y) \/ helper_use_relative_reloc(o, y)
    BY <1>6 DEF Decision, Writing, AbsKinds
  <2>2. CASE plt
    <3>1. The("PLT") ++ B \in ReachedBy(o, y, plt)
      BY <2>2 DEF Sound, ReachedBy
    <3>2. stored = (The("PLT") ++ A) -- P
      BY <2>1, <2>2
    <3>3. Holds(b, o, kind, stored, r, y) = stored
      BY <2>1 DEF Holds, Performed
    <3>4. (The("PLT") ++ A) -- P = ((The("PLT") ++ B) ++ A) -- (P ++ B)
      BY <1>0, SumLaws, TermValues
    <3> QED BY <1>1, <3>1, <3>2, <3>3, <3>4
  <2>3. CASE ~plt
    <3>1. TargetFor(y, plt) = Value(y)
      BY <2>3 DEF TargetFor
    <3>2. symbolFinalValueIsKnown(o, y) => ~symbolNeedsDynRel(o, y, plt, FALSE)
      <4>1. ASSUME symbolFinalValueIsKnown(o, y), ~Undef(y) PROVE ~Foreign(o, y)
        BY <4>1 DEF symbolFinalValueIsKnown, Foreign, isSymbolPreemptible, isExecutable
      <4>2. ASSUME symbolFinalValueIsKnown(o, y), Undef(y)
            PROVE  ~symbolNeedsDynRel(o, y, plt, FALSE)
        BY <4>2 DEF symbolFinalValueIsKnown, symbolNeedsDynRel
      <4> QED BY <1>4, <4>1, <4>2
    <3>3. y.bind = "Local" \/ ~symbolNeedsDynRel(o, y, plt, FALSE)
      BY <1>4, <2>1, <2>3, <3>2 DEF helper_use_relative_reloc
    <3>4. T ++ B \in ReachedBy(o, y, plt)
      BY <3>3, TargetReached
    <3> QED BY <1>2, <2>1, <2>3, <3>1, <3>4
  <2> QED BY <2>2, <2>3
<1>7. CASE kind = "rel"
  <2>1. RelWriting(b, o, stored, y, plt)
    BY <1>7 DEF Writing, AbsKinds
  <2>2. \/ r.kind = "COPY" /\ Copies(o, y)
        \/ r.kind = RelDecision(b, o, y, plt)
    BY <1>7 DEF Decision, AbsKinds
  <2>3. CASE r.kind \in {"none", "COPY"}
    <3>1. y.bind = "Local" \/ ~symbolNeedsDynRel(o, y, plt, FALSE)
      <4>1. CASE r.kind = "COPY"
        <5>1. Copies(o, y)
          BY <2>2, <4>1 DEF RelDecision
        <5>2. ~Foreign(o, y)
          BY <5>1 DEF Copies, Foreign, isSymbolPreemptible, isCodeIndep, CodePosition
        <5> QED BY <1>4, <5>2
      <4>2. CASE r.kind = "none"
        BY <2>1, <2>2, <4>2 DEF RelDecision, RelWriting
      <4> QED BY <2>3, <4>1, <4>2
    <3>2. T ++ B \in ReachedBy(o, y, plt)
      BY <3>1, TargetReached
    <3>3. ~(/\ y.bind # "Local"
            /\ symbolNeedsDynRel(o, y, plt, TRUE)
            /\ ~helper_use_relative_reloc(o, y)
            /\ ~plt)
      BY <3>1 DEF symbolNeedsDynRel, helper_use_relative_reloc
    <3>4. stored = (T ++ A) -- P
      BY <1>7, <2>1, <3>3 DEF RelWriting
    <3> QED BY <1>2, <2>3, <3>2, <3>4
  <2>4. CASE r.kind = "own"
    <3>1. b # 64 /\ y.bind # "Local" /\ symbolNeedsDynRel(o, y, plt, FALSE)
      BY <2>2, <2>4 DEF RelDecision
    <3>2. ~plt
      <4>1. plt => ~isCodeIndep(o)
        BY <3>1 DEF Sound, symbolNeedsDynRel, isExecutable, isCodeIndep, CodePosition, Outputs
      <4> QED BY <3>1, <4>1 DEF symbolNeedsDynRel
    <3>3. symbolNeedsDynRel(o, y, plt, TRUE) /\ ~helper_use_relative_reloc(o, y)
      BY <3>1, <1>4 DEF symbolNeedsDynRel, helper_use_relative_reloc
    <3>4. stored = A
      BY <2>1, <3>1, <3>2, <3>3 DEF RelWriting
    <3>5. Holds(b, o, kind, stored, r, y) = (A ++ F) -- OriginFor(o, kind)
      BY <1>7, <2>4, <3>1, <3>4 DEF Holds, Performed
    <3>6. A ++ F = F ++ A
      BY <1>0, SumLaws
    <3>7. F \in ReachedBy(o, y, plt)
      BY DEF ReachedBy
    <3> QED BY <3>5, <3>6, <3>7
  <2> QED BY <2>2, <2>3, <2>4 DEF RelDecision
<1> QED BY <1>5, <1>6, <1>7
-----------------------------------------------------------------------------
(* The invariant of both phases.                                           *)

\* What is true of every symbol, also after copies.
SymbolsInv ==
  \A y \in Symbols :
    /\ Sound(out, sym[y], Has(y, "PLT"))
    /\ sym[y].type = link.syms[y].type
    /\ sym[y] = link.syms[y] \/ (link.syms[y].dyn /\ sym[y].bind # "Local")

\* What the scan of i has decided fits the symbol as it was when it was over.
Decided(i) ==
  Decision(link.bits, out, Kind(i), dynrel[i].kind, seen[i].sym, seen[i].plt)

\* What the apply of i has written fits the symbol as it is.
Written(i) ==
  Writing(link.bits, out, Kind(i), place[i], dynrel[i], sym[SymOf(i)], Has(SymOf(i), "PLT"))

IsScanned(i) == i < at \/ phase \in {"apply", "done"}
IsApplied(i) == phase = "done" \/ (phase = "apply" /\ i < at)

ScanInv ==
  /\ phase = "scan" => \A i \in Rels : i >= at => dynrel[i] = NoDynRel
  /\ \A i \in Rels : IsScanned(i) /\ Alloc(i) /\ Kind(i) # "got" => Decided(i)

ApplyInv ==
  /\ \A i \in Rels :
       phase = "scan" \/ (phase = "apply" /\ i >= at) => place[i] = Unrelocated
  /\ errors = {} =>
       \A i \in Rels : IsApplied(i) /\ Alloc(i) /\ Kind(i) # "got" => Written(i)

\* i is the first GOT relocation of y.
IsCreator(i, y) ==
  /\ SymOf(i) = y /\ Kind(i) = "got" /\ Alloc(i)
  /\ \A j \in 1..(i - 1) : ~(SymOf(j) = y /\ Kind(j) = "got" /\ Alloc(j))

\* v is what the scan left open, until i is applied, or the symbol.
Filled(v, i, y) == v = symValue(y) \/ (v = SymVal /\ ~IsApplied(i))

EntryHolds(i, y) ==
  \/ dynrel[i].kind = "GLOB_DAT"
  \/ /\ dynrel[i].kind = "RELATIVE"
     /\ isCodeIndep(out) /\ ~Foreign(out, sym[y])
     /\ Filled(IF is64 THEN dynrel[i].addend ELSE got[y], i, y)
  \/ /\ dynrel[i].kind = "none"
     /\ ~sym[y].dyn
     /\ \/ ~isCodeIndep(out) /\ ~Foreign(out, sym[y])
        \/ Undef(sym[y]) /\ isExecutable(out)
     /\ Filled(got[y], i, y)

EntryInv ==
  \A y \in Symbols : Has(y, "GOT") =>
    \E i \in Rels : IsScanned(i) /\ IsCreator(i, y) /\ EntryHolds(i, y)

LinkInv == link \in Links /\ Ordinary(link)

\* What an ordinary link and its symbols are.
LEMMA LinkFacts ==
  ASSUME TypeOK, LinkInv
  PROVE  /\ link.bits \in {32, 64} /\ out \in Outputs
         /\ sym \in [Symbols -> SymbolInfos]
         /\ link.syms \in [Symbols -> SymbolInfos]
         /\ reserved \in [Symbols -> SUBSET {"Rel", "GOT", "PLT"}]
         /\ dynrel \in [Rels -> DynRels]
         /\ \A i \in Rels : SymOf(i) \in Symbols
BY RelsType DEF TypeOK, LinkType, DynRels, out

LEMMA OrdinaryRel ==
  ASSUME TypeOK, LinkInv, SymbolsInv, NEW i \in Rels
  PROVE  /\ Alloc(i) => Suits(link.bits, out, Kind(i), sym[SymOf(i)])
         /\ Kind(i) = "plt" =>
              \/ sym[SymOf(i)].type = "Function"
              \/ Undef(sym[SymOf(i)]) /\ ~sym[SymOf(i)].dyn /\ isExecutable(out)
         /\ sym[SymOf(i)].type # "IndirectFunc"
<1> DEFINE s == sym[SymOf(i)]
           y == link.syms[SymOf(i)]
<1>1. SymOf(i) \in Symbols
  BY LinkFacts
<1>2. /\ Kind(i) = "plt" =>
           y.type = "Function" \/ (Undef(y) /\ ~y.dyn /\ isExecutable(out))
      /\ Kind(i) = "signed" => link.bits = 64
      /\ Kind(i) = "gotoff" => ~Foreign(out, y)
      /\ Kind(i) \in {"narrow", "signed"} /\ Alloc(i) /\ isCodeIndep(out) =>
           isDynamicSymbol(out, y)
      /\ y.type # "IndirectFunc"
  BY <1>1 DEF LinkInv, Ordinary, Rels, Kind, SymOf, Alloc, out
<1>3. s.type = y.type /\ (s = y \/ (y.dyn /\ s.bind # "Local"))
  BY <1>1 DEF SymbolsInv
<1>4. isDynamicSymbol(out, y) => s.bind # "Local"
  BY <1>3 DEF isDynamicSymbol
<1>5. y.dyn => Foreign(out, y)
  BY DEF Foreign
<1> HIDE DEF s, y
<1>6. Alloc(i) => Suits(link.bits, out, Kind(i), s)
  BY <1>2, <1>3, <1>4, <1>5 DEF Suits
<1>7. Kind(i) = "plt" => s.type = "Function" \/ (Undef(s) /\ ~s.dyn /\ isExecutable(out))
  BY <1>2, <1>3
<1> QED BY <1>2, <1>3, <1>6, <1>7 DEF s

-----------------------------------------------------------------------------
(* The scan *)

\* What a scan leaves alone and where it goes on.
LEMMA ScanFrame ==
  ASSUME TypeOK, Scan
  PROVE  /\ UNCHANGED <<link, place>>
         /\ errors \subseteq errors'
         /\ \A i \in Rels : i # at => dynrel'[i] = dynrel[i] /\ seen'[i] = seen[i]
         /\ phase = "scan"
         /\ \/ /\ at \notin Rels /\ phase' = "apply" /\ at' = 1
               /\ UNCHANGED <<tables, sym, seen>>
            \/ /\ at \in Rels /\ phase' = "scan" /\ at' = at + 1
               /\ Alloc(at) =>
                    seen'[at] = [plt |-> "PLT" \in reserved'[SymOf(at)], sym |-> sym'[SymOf(at)]]
            \/ /\ at \in Rels /\ phase' = "fatal" /\ at' = at
               /\ UNCHANGED <<tables, sym, seen>>
<1> DEFINE Same == \A i \in Rels : i # at => dynrel'[i] = dynrel[i]
<1>0. dynrel \in [Rels -> DynRels] /\ DOMAIN seen = Rels
  BY DEF TypeOK, DynRels
<1>1. ASSUME Scanned, at \in Rels
      PROVE  /\ UNCHANGED <<link, place, phase>> /\ errors \subseteq errors' /\ at' = at + 1
             /\ \A i \in Rels : i # at => seen'[i] = seen[i]
             /\ seen'[at] = [plt |-> "PLT" \in reserved'[SymOf(at)], sym |-> sym'[SymOf(at)]]
  <2>1. UNCHANGED <<link, place, phase>> /\ errors \subseteq errors' /\ at' = at + 1
    BY <1>1 DEF Scanned
  <2>2. seen' = [seen EXCEPT ![at] = [plt |-> "PLT" \in reserved'[SymOf(at)],
                                      sym |-> sym'[SymOf(at)]]]
    BY <1>1 DEF Scanned
  <2> QED BY <1>0, <1>1, <2>1, <2>2
<1>2. UNCHANGED <<tables, sym>> => Same
  BY DEF tables
<1>3. \A k : DynRelOnPlace(k) => Same
  BY <1>0 DEF DynRelOnPlace
<1>4. \A y, h : GOT_init(y, h) => Same
  BY <1>0 DEF GOT_init
<1>5. \A y : CopyReloc(y) => Same
  BY <1>0 DEF CopyReloc
<1>6. \A y, e, n, k : ReserveFor(y, e, n, k) => Same
  BY <1>3, <1>5 DEF ReserveFor
<1> HIDE DEF Same
<1>7. CASE ScanDebug
  BY <1>2, <1>7 DEF ScanDebug, Same
<1>8. CASE ScanUnsupported
  BY <1>2, <1>8 DEF ScanUnsupported, Scanning, Same
<1>9. CASE EndScan
  BY <1>2, <1>9 DEF EndScan, Same, tables
<1>10. CASE ScanNothing \/ ScanLocalAbs \/ ScanGot \/ ScanGlobalPlt \/ ScanGlobalAbs
            \/ ScanGlobalRel
  <2>1. Scanned /\ at \in Rels /\ phase = "scan"
    BY <1>10 DEF ScanNothing, ScanLocalAbs, ScanGot, ScanGlobalPlt, ScanGlobalAbs,
       ScanGlobalRel, Scanning
  <2>2. Same
    <3>1. CASE ScanNothing \/ ScanLocalAbs \/ ScanGot
      BY <1>2, <1>3, <1>4, <3>1 DEF ScanNothing, ScanLocalAbs, ScanGot
    <3>2. CASE ScanGlobalPlt
      BY <3>2 DEF ScanGlobalPlt, Same
    <3>3. CASE ScanGlobalAbs \/ ScanGlobalRel
      BY <1>6, <3>3 DEF ScanGlobalAbs, ScanGlobalRel
    <3> QED BY <1>10, <3>1, <3>2, <3>3
  <2> QED BY <1>1, <2>1, <2>2 DEF Same
<1> QED BY <1>7, <1>8, <1>9, <1>10 DEF Scan

\* The three ways of ReserveFor.
LEMMA ReserveDecides ==
  ASSUME TypeOK, LinkInv, at \in Rels, dynrel[at] = NoDynRel,
         sym[SymOf(at)].bind # "Local",
         NEW entry \in SUBSET {"PLT"}, NEW needs \in BOOLEAN, NEW k \in {"RELATIVE", "own"},
         ReserveFor(SymOf(at), entry, needs, k)
  PROVE  LET y == SymOf(at)
         IN  \/ dynrel'[at].kind = "COPY" /\ Copies(out, sym'[y])
             \/ /\ sym'[y] = sym[y]
                /\ ("PLT" \in reserved'[y]) <=> ("PLT" \in reserved[y] \cup entry)
                /\ dynrel'[at].kind = IF needs THEN k ELSE "none"
                /\ needs => ~symbolNeedsCopyReloc(out, sym[y], Writable(at))
<1> DEFINE y == SymOf(at)
<1>0. y \in Symbols /\ sym[y] \in SymbolInfos
      /\ reserved \in [Symbols -> SUBSET {"Rel", "GOT", "PLT"}]
      /\ dynrel \in [Rels -> DynRels]
  BY LinkFacts
<1>1. CASE /\ symbolNeedsCopyReloc(out, sym[y], Writable(at))
           /\ CopyReloc(y)
  <2>1. dynrel'[at].kind = "COPY"
    BY <1>0, <1>1 DEF CopyReloc, DynRel
  <2>2. /\ sym'[y].desc = "Define" /\ ~sym'[y].dyn /\ sym'[y].type = sym[y].type
        /\ sym'[y].bind # "Local"
    BY <1>0, <1>1 DEF CopyReloc, SymbolInfos
  <2>3. ~isCodeIndep(out) /\ sym[y].type # "Function"
    BY <1>1 DEF symbolNeedsCopyReloc
  <2> QED BY <2>1, <2>2, <2>3 DEF Copies, Undef
<1>2. CASE /\ needs /\ ~symbolNeedsCopyReloc(out, sym[y], Writable(at))
           /\ Reserve(y, entry \cup {"Rel"}) /\ DynRelOnPlace(k)
  <2>1. dynrel'[at].kind = k /\ sym' = sym
    BY <1>0, <1>2 DEF DynRelOnPlace, DynRel
  <2>2. ("PLT" \in reserved'[y]) <=> ("PLT" \in reserved[y] \cup entry)
    BY <1>0, <1>2 DEF Reserve
  <2> QED BY <1>2, <2>1, <2>2
<1>3. CASE ~needs /\ Reserve(y, entry) /\ UNCHANGED <<sym, dynrel>>
  <2>1. dynrel'[at].kind = "none" /\ sym' = sym
    BY <1>3 DEF NoDynRel
  <2>2. ("PLT" \in reserved'[y]) <=> ("PLT" \in reserved[y] \cup entry)
    BY <1>0, <1>3 DEF Reserve
  <2> QED BY <1>3, <2>1, <2>2
<1> QED BY <1>1, <1>2, <1>3 DEF ReserveFor

\* The decision of a scan is the one for the symbol it leaves.
LEMMA ScanDecides ==
  ASSUME TypeOK, LinkInv, SymbolsInv, Scan, phase' = "scan",
         at \in Rels, Alloc(at), Kind(at) # "got", dynrel[at] = NoDynRel
  PROVE  Decision(link.bits, out, Kind(at), dynrel'[at].kind,
                  sym'[SymOf(at)], "PLT" \in reserved'[SymOf(at)])
<1> DEFINE y == SymOf(at)
           D(i, p) == Decision(link.bits, out, Kind(at), dynrel'[at].kind, i, p)
<1>0. /\ y \in Symbols /\ sym[y] \in SymbolInfos
      /\ reserved \in [Symbols -> SUBSET {"Rel", "GOT", "PLT"}]
      /\ dynrel \in [Rels -> DynRels]
  BY LinkFacts
<1>1. ASSUME UNCHANGED <<tables, sym>>
      PROVE  dynrel'[at].kind = "none"
  BY <1>1 DEF tables, NoDynRel
<1>2. CASE ScanNothing
  <2>1. dynrel'[at].kind = "none" /\ sym' = sym
    BY <1>1, <1>2 DEF ScanNothing
  <2>2. Kind(at) = "gotoff" \/ (Kind(at) \in {"rel", "plt"} /\ sym'[y].bind = "Local")
    BY <1>2, <2>1 DEF ScanNothing, Scanning
  <2> QED BY <2>1, <2>2 DEF Decision, RelDecision
<1>3. CASE ScanLocalAbs
  <2>1. Kind(at) \in AbsKinds /\ sym' = sym /\ sym[y].bind = "Local"
    BY <1>3 DEF ScanLocalAbs, Scanning, DynRelOnPlace, AbsKinds
  <2>2. dynrel'[at].kind = IF isCodeIndep(out)
                           THEN IF Kind(at) = "abs" THEN "RELATIVE" ELSE "own" ELSE "none"
    BY <1>0, <1>1, <1>3 DEF ScanLocalAbs, DynRelOnPlace, DynRel
  <2> QED BY <2>1, <2>2 DEF Decision, AbsDecision
<1>4. CASE ScanGlobalPlt
  <2>1. /\ dynrel'[at].kind = "none" /\ sym' = sym /\ Kind(at) = "plt"
        /\ \/ "PLT" \in reserved'[y]
           \/ symbolFinalValueIsKnown(out, sym[y]) \/ helper_use_relative_reloc(out, sym[y])
    BY <1>0, <1>4 DEF ScanGlobalPlt, Scanning, Reserve, Has, NoDynRel
  <2> QED BY <2>1 DEF Decision
<1>5. CASE ScanGlobalAbs
  <2> DEFINE entry == IF symbolNeedsPLT(out, sym[y]) THEN {"PLT"} ELSE {}
             plt == "PLT" \in reserved[y] \cup entry
             needs == symbolNeedsDynRel(out, sym[y], plt, TRUE)
             k == IF Kind(at) = "abs" /\ helper_use_relative_reloc(out, sym[y])
                  THEN "RELATIVE" ELSE "own"
  <2>1. ReserveFor(y, entry, needs, k) /\ Kind(at) \in AbsKinds /\ sym[y].bind # "Local"
    BY <1>5 DEF ScanGlobalAbs, Scanning, AbsKinds
  <2>2. entry \in SUBSET {"PLT"} /\ k \in {"RELATIVE", "own"}
    OBVIOUS
  <2>3. needs \in BOOLEAN
    BY DEF symbolNeedsDynRel
  <2>4. k = IF Kind(at) = "abs" /\ (sym[y].bind = "Local" \/ helper_use_relative_reloc(out, sym[y]))
            THEN "RELATIVE" ELSE "own"
    BY <2>1
  <2>5. \/ dynrel'[at].kind = "COPY" /\ Copies(out, sym'[y])
        \/ /\ sym'[y] = sym[y]
           /\ ("PLT" \in reserved'[y]) <=> plt
           /\ dynrel'[at].kind = IF needs THEN k ELSE "none"
    <3> HIDE DEF entry, needs, k
    <3> QED BY <2>1, <2>2, <2>3, ReserveDecides
  <2>6. ASSUME sym'[y] = sym[y], ("PLT" \in reserved'[y]) <=> plt,
               dynrel'[at].kind = IF needs THEN k ELSE "none"
        PROVE  dynrel'[at].kind = AbsDecision(out, Kind(at), sym'[y], "PLT" \in reserved'[y])
    <3>1. needs <=> symbolNeedsDynRel(out, sym'[y], "PLT" \in reserved'[y], TRUE)
      <4>1. ("PLT" \in reserved'[y]) = plt
        BY <2>6
      <4> QED BY <2>6, <4>1
    <3>2. sym'[y].bind # "Local"
      BY <2>1, <2>6
    <3> HIDE DEF plt, needs, k
    <3> QED BY <2>4, <2>6, <3>1, <3>2 DEF AbsDecision
  <2> HIDE DEF plt, needs, k, entry
  <2> QED BY <2>1, <2>5, <2>6 DEF Decision
<1>6. CASE ScanGlobalRel
  <2> DEFINE entry == IF symbolNeedsPLT(out, sym[y]) /\ out.codeGen # "DynObj"
                      THEN {"PLT"} ELSE {}
             plt == "PLT" \in reserved[y] \cup entry
             needs == /\ symbolNeedsDynRel(out, sym[y], plt, FALSE)
                      /\ is64 => /\ isDynamicSymbol(out, sym[y])
                                 /\ symbolNeedsCopyReloc(out, sym[y], Writable(at))
  <2>1. ReserveFor(y, entry, needs, "own") /\ Kind(at) = "rel" /\ sym[y].bind # "Local"
    BY <1>6 DEF ScanGlobalRel, Scanning
  <2>2. entry \in SUBSET {"PLT"}
    OBVIOUS
  <2>3. needs \in BOOLEAN
    OBVIOUS
  <2>4. \/ dynrel'[at].kind = "COPY" /\ Copies(out, sym'[y])
        \/ /\ sym'[y] = sym[y]
           /\ ("PLT" \in reserved'[y]) <=> plt
           /\ dynrel'[at].kind = IF needs THEN "own" ELSE "none"
           /\ needs => ~symbolNeedsCopyReloc(out, sym[y], Writable(at))
    <3> HIDE DEF entry, needs
    <3> QED BY <2>1, <2>2, <2>3, ReserveDecides
  <2>5. ASSUME sym'[y] = sym[y], ("PLT" \in reserved'[y]) <=> plt,
               dynrel'[at].kind = IF needs THEN "own" ELSE "none",
               needs => ~symbolNeedsCopyReloc(out, sym[y], Writable(at))
        PROVE  dynrel'[at].kind = RelDecision(link.bits, out, sym'[y], "PLT" \in reserved'[y])
    <3>1. ("PLT" \in reserved'[y]) = plt
      BY <2>5
    <3>2. symbolNeedsDynRel(out, sym'[y], "PLT" \in reserved'[y], FALSE)
            <=> symbolNeedsDynRel(out, sym[y], plt, FALSE)
      BY <2>5, <3>1
    <3>3. needs <=> (link.bits # 64 /\ symbolNeedsDynRel(out, sym[y], plt, FALSE))
      BY <2>5 DEF is64
    <3>4. sym'[y].bind # "Local"
      BY <2>1, <2>5
    <3> HIDE DEF plt, needs
    <3> QED BY <2>5, <3>2, <3>3, <3>4 DEF RelDecision
  <2> HIDE DEF plt, needs, entry
  <2> QED BY <2>1, <2>4, <2>5 DEF Decision
<1>7. ScanNothing \/ ScanLocalAbs \/ ScanGlobalPlt \/ ScanGlobalAbs \/ ScanGlobalRel
  BY DEF Scan, ScanDebug, ScanUnsupported, ScanGot, EndScan, Scanning
<1> QED BY <1>2, <1>3, <1>4, <1>5, <1>6, <1>7

\* An entry of the PLT is made for a function, or for a call of something
\* that an executable leaves undefined.
LEMMA EntriesFit ==
  ASSUME TypeOK, LinkInv, SymbolsInv, Scan,
         NEW y \in Symbols, "PLT" \in reserved'[y], ~Has(y, "PLT")
  PROVE  /\ y = SymOf(at) /\ at \in Rels
         /\ \/ sym[y].type = "Function"
            \/ Undef(sym[y]) /\ ~sym[y].dyn /\ isExecutable(out) /\ sym' = sym
<1>0. reserved \in [Symbols -> SUBSET {"Rel", "GOT", "PLT"}]
  BY LinkFacts
<1>1. reserved' # reserved
  BY DEF Has
<1>2. \A z, bits : Reserve(z, bits) => z = y /\ "PLT" \in bits
  BY <1>0 DEF Reserve, Has
<1>3. \A i \in Rels : /\ sym[SymOf(i)].type # "IndirectFunc"
                      /\ Kind(i) = "plt" =>
                           \/ sym[SymOf(i)].type = "Function"
                           \/ /\ Undef(sym[SymOf(i)]) /\ ~sym[SymOf(i)].dyn
                              /\ isExecutable(out)
  BY OrdinaryRel
<1>4. ASSUME NEW entry \in SUBSET {"PLT"}, NEW needs, NEW k, NEW z,
             ReserveFor(z, entry, needs, k)
      PROVE  z = y /\ "PLT" \in entry
  BY <1>2, <1>4 DEF ReserveFor
<1>5. CASE ScanGlobalAbs \/ ScanGlobalRel
  <2>1. at \in Rels
    BY <1>5 DEF ScanGlobalAbs, ScanGlobalRel, Scanning
  <2>2. SymOf(at) = y /\ symbolNeedsPLT(out, sym[y])
    <3>1. CASE ScanGlobalAbs
      <4> DEFINE entry == IF symbolNeedsPLT(out, sym[SymOf(at)]) THEN {"PLT"} ELSE {}
      <4>1. \E needs, k : ReserveFor(SymOf(at), entry, needs, k)
        BY <3>1 DEF ScanGlobalAbs
      <4>2. entry \in SUBSET {"PLT"}
        OBVIOUS
      <4>3. SymOf(at) = y /\ "PLT" \in entry
        <5> HIDE DEF entry
        <5> QED BY <1>4, <4>1, <4>2
      <4> QED BY <4>3
    <3>2. CASE ScanGlobalRel
      <4> DEFINE entry == IF symbolNeedsPLT(out, sym[SymOf(at)]) /\ out.codeGen # "DynObj"
                          THEN {"PLT"} ELSE {}
      <4>1. \E needs, k : ReserveFor(SymOf(at), entry, needs, k)
        BY <3>2 DEF ScanGlobalRel
      <4>2. entry \in SUBSET {"PLT"}
        OBVIOUS
      <4>3. SymOf(at) = y /\ "PLT" \in entry
        <5> HIDE DEF entry
        <5> QED BY <1>4, <4>1, <4>2
      <4> QED BY <4>3
    <3> QED BY <1>5, <3>1, <3>2
  <2> QED BY <1>3, <2>1, <2>2 DEF symbolNeedsPLT
<1>6. CASE ScanGlobalPlt
  <2>1. at \in Rels /\ Kind(at) = "plt" /\ SymOf(at) = y /\ sym' = sym
    BY <1>1, <1>2, <1>6 DEF ScanGlobalPlt, Scanning
  <2> QED BY <1>3, <2>1
<1>7. CASE ScanLocalAbs
  BY <1>1, <1>2, <1>7 DEF ScanLocalAbs, tables
<1>8. CASE ScanGot
  BY <1>1, <1>2, <1>8 DEF ScanGot, GOT_init, tables
<1> QED BY <1>1, <1>5, <1>6, <1>7, <1>8
        DEF Scan, ScanDebug, ScanNothing, ScanUnsupported, EndScan, tables

LEMMA ScanSymbols ==
  ASSUME TypeOK, LinkInv, SymbolsInv, Scan
  PROVE  SymbolsInv'
<1>0. /\ sym \in [Symbols -> SymbolInfos]
      /\ link.syms \in [Symbols -> SymbolInfos]
      /\ link' = link /\ out' = out
      /\ \A i \in Rels : SymOf(i) \in Symbols
  BY LinkFacts, ScanKeeps DEF out
<1>1. ASSUME NEW y \in Symbols
      PROVE  /\ sym'[y] = sym[y] \/ (/\ sym[y].dyn /\ ~sym'[y].dyn /\ sym'[y].desc = "Define"
                                     /\ sym'[y].type = sym[y].type /\ sym'[y].bind # "Local")
  <2>1. CASE sym' = sym
    BY <2>1
  <2>2. CASE at \in Rels /\ sym[SymOf(at)].dyn /\ CopyReloc(SymOf(at))
    <3> DEFINE x == SymOf(at)
               bind == IF sym[x].bind = "Weak" THEN "Global" ELSE sym[x].bind
               defined == {x} \cup {z \in link.aliases : x \in link.aliases /\ sym[z].dyn}
    <3>1. sym'[y] = IF y \notin defined THEN sym[y]
                    ELSE [sym[y] EXCEPT !.desc = "Define", !.dyn = FALSE, !.bind = bind]
      BY <2>2 DEF CopyReloc
    <3>2. bind # "Local"
      BY <1>0, <2>2 DEF SymbolsInv, Sound
    <3>3. y \in defined => sym[y].dyn
      BY <2>2
    <3>4. sym[y] \in SymbolInfos
      BY <1>0
    <3> HIDE DEF defined, bind
    <3> QED BY <3>1, <3>2, <3>3, <3>4 DEF SymbolInfos
  <2> QED BY <2>1, <2>2, ScanKeeps
<1>2. ASSUME NEW y \in Symbols
      PROVE  Sound(out, sym'[y], "PLT" \in reserved'[y])
  <2>1. Sound(out, sym[y], Has(y, "PLT"))
    BY DEF SymbolsInv
  <2>2. /\ sym'[y].bind = "Local" => ~Undef(sym'[y]) /\ ~sym'[y].dyn
        /\ isCodeStatic(out) => ~sym'[y].dyn
    BY <1>1, <2>1 DEF Sound, Undef
  <2>3. ASSUME "PLT" \in reserved'[y]
        PROVE  \/ sym'[y].type = "Function"
               \/ Undef(sym'[y]) /\ ~sym'[y].dyn /\ isExecutable(out)
    <3>1. CASE Has(y, "PLT")
      BY <1>1, <2>1, <3>1 DEF Sound
    <3>2. CASE ~Has(y, "PLT")
      BY <1>1, <2>3, <3>2, EntriesFit
    <3> QED BY <3>1, <3>2
  <2> QED BY <2>2, <2>3 DEF Sound
<1>3. ASSUME NEW y \in Symbols
      PROVE  /\ sym'[y].type = link.syms[y].type
             /\ sym'[y] = link.syms[y] \/ (link.syms[y].dyn /\ sym'[y].bind # "Local")
  BY <1>1 DEF SymbolsInv
<1> QED BY <1>0, <1>2, <1>3 DEF SymbolsInv, Has

LEMMA ScanStep ==
  ASSUME TypeOK, LinkInv, SymbolsInv, ScanInv, ApplyInv, Scan
  PROVE  ScanInv' /\ ApplyInv'
<1>0. /\ Rels = 1..Len(link.rels) /\ Len(link.rels) \in Nat
      /\ at \in 1..(Len(link.rels) + 1)
  BY RelsType DEF TypeOK
<1>1. /\ UNCHANGED <<link, place>> /\ phase = "scan"
      /\ \A i \in Rels : i # at => dynrel'[i] = dynrel[i] /\ seen'[i] = seen[i]
      /\ \/ /\ at \notin Rels /\ phase' = "apply" /\ at' = 1
            /\ UNCHANGED <<tables, sym, seen>>
         \/ /\ at \in Rels /\ phase' = "scan" /\ at' = at + 1
            /\ Alloc(at) =>
                 seen'[at] = [plt |-> "PLT" \in reserved'[SymOf(at)], sym |-> sym'[SymOf(at)]]
         \/ /\ at \in Rels /\ phase' = "fatal" /\ at' = at
            /\ UNCHANGED <<tables, sym, seen>>
  BY ScanFrame
<1>2. Rels' = Rels /\ out' = out /\ Unrelocated' = Unrelocated
  BY <1>1 DEF Rels, out, Unrelocated, is64
<1>3. ASSUME NEW i \in Rels
      PROVE  /\ i \in Int /\ at \in Int
             /\ IsScanned(i)' => i < at \/ (i = at /\ phase' = "scan")
             /\ (phase' = "scan" /\ i >= at') => i >= at /\ i # at
             /\ ~IsApplied(i)'
  <2>0. i \in Int /\ at \in Int /\ 1 <= i
    BY <1>0
  <2>1. CASE at \notin Rels /\ phase' = "apply" /\ at' = 1
    <3>1. i < at
      BY <1>0, <2>1, SMT
    <3>2. ~(i < at')
      BY <2>0, <2>1
    <3> QED BY <2>0, <2>1, <3>1, <3>2 DEF IsApplied
  <2>2. CASE at \in Rels /\ phase' = "scan" /\ at' = at + 1
    BY <2>0, <2>2 DEF IsScanned, IsApplied
  <2>3. CASE at \in Rels /\ phase' = "fatal" /\ at' = at
    BY <2>0, <2>3 DEF IsScanned, IsApplied
  <2> QED BY <1>1, <2>1, <2>2, <2>3
<1>4. \A i \in Rels : i >= at => dynrel[i] = NoDynRel
  BY <1>1 DEF ScanInv
<1>5. phase' = "scan" => \A i \in Rels : i >= at' => dynrel'[i] = NoDynRel
  BY <1>1, <1>3, <1>4
<1>6. ASSUME NEW i \in Rels, IsScanned(i)', Alloc(i), Kind(i) # "got"
      PROVE  Decision(link.bits, out, Kind(i), dynrel'[i].kind, seen'[i].sym, seen'[i].plt)
  <2>1. CASE i < at
    <3>1. Decision(link.bits, out, Kind(i), dynrel[i].kind, seen[i].sym, seen[i].plt)
      BY <1>6, <2>1 DEF ScanInv, IsScanned, Decided
    <3>2. i # at
      BY <1>3, <2>1
    <3> QED BY <1>1, <3>1, <3>2
  <2>2. CASE i = at /\ phase' = "scan"
    <3>1. dynrel[at] = NoDynRel
      BY <1>3, <1>4, <2>2
    <3>2. Decision(link.bits, out, Kind(at), dynrel'[at].kind,
                   sym'[SymOf(at)], "PLT" \in reserved'[SymOf(at)])
      BY <1>6, <2>2, <3>1, ScanDecides
    <3>3. seen'[at] = [plt |-> "PLT" \in reserved'[SymOf(at)], sym |-> sym'[SymOf(at)]]
      BY <1>1, <1>6, <2>2
    <3> QED BY <2>2, <3>2, <3>3
  <2> QED BY <1>3, <1>6, <2>1, <2>2
<1>7. ScanInv'
  <2>1. ASSUME NEW i \in Rels', IsScanned(i)', Alloc(i)', Kind(i)' # "got"
        PROVE  Decided(i)'
    <3>1. i \in Rels /\ Alloc(i) /\ Kind(i) # "got" /\ Kind(i)' = Kind(i)
      BY <1>1, <1>2, <2>1 DEF Alloc, Kind
    <3>2. Decision(link.bits, out, Kind(i), dynrel'[i].kind, seen'[i].sym, seen'[i].plt)
      BY <1>6, <2>1, <3>1
    <3> QED BY <1>1, <1>2, <3>1, <3>2 DEF Decided
  <2> QED BY <1>2, <1>5, <2>1 DEF ScanInv
<1>8. ApplyInv'
  <2>1. \A i \in Rels : place'[i] = Unrelocated
    BY <1>1 DEF ApplyInv
  <2> QED BY <1>2, <1>3, <2>1 DEF ApplyInv
<1> QED BY <1>7, <1>8

-----------------------------------------------------------------------------
(* The apply *)

LEMMA ApplyFrame ==
  ASSUME TypeOK, Apply
  PROVE  /\ UNCHANGED <<link, sym, reserved, seen>>
         /\ errors \subseteq errors'
         /\ \A i \in Rels : i # at => dynrel'[i] = dynrel[i] /\ place'[i] = place[i]
         /\ \A i \in Rels : dynrel'[i].kind = dynrel[i].kind
         /\ phase = "apply"
         /\ \/ /\ at \notin Rels /\ phase' = "done" /\ UNCHANGED <<place, got, dynrel, errors>>
            \/ at \in Rels /\ phase' = "apply" /\ at' = at + 1
<1>0. dynrel \in [Rels -> DynRels] /\ place \in [Rels -> Values]
  BY DEF TypeOK, DynRels
<1>1. /\ UNCHANGED <<link, sym, reserved>>
      /\ \A i \in Rels : dynrel'[i].kind = dynrel[i].kind
  BY ApplyKeeps
<1>2. CASE EndApply
  BY <1>1, <1>2 DEF EndApply, tables
<1>3. CASE \/ ApplyDebug \/ ApplyAbs32 \/ ApplyAbs64 \/ ApplySigned \/ ApplyRel32
           \/ ApplyRel64 \/ ApplyPlt \/ ApplyGot \/ ApplyGotoff
  <2>1. Applied /\ phase = "apply" /\ at \in Rels
    BY <1>3 DEF ApplyDebug, ApplyAbs32, ApplyAbs64, ApplySigned, ApplyRel32, ApplyRel64,
       ApplyPlt, ApplyGot, ApplyGotoff, Applying
  <2>2. errors' = errors \/ \E d : Report(d)
    BY <1>3 DEF ApplyDebug, ApplyAbs32, ApplyAbs64, ApplySigned, ApplyRel32, ApplyRel64,
       ApplyPlt, ApplyGot, ApplyGotoff
  <2>3. place' = place \/ \E v : Write(v)
    BY <1>3 DEF ApplyDebug, ApplyAbs32, ApplyAbs64, ApplySigned, ApplyRel32, ApplyRel64,
       ApplyPlt, ApplyGot, ApplyGotoff, Report
  <2>4. dynrel' = dynrel \/ \E v : SetAddend(v)
    BY <1>3 DEF ApplyDebug, ApplyAbs32, ApplyAbs64, ApplySigned, ApplyRel32, ApplyRel64,
       ApplyPlt, ApplyGot, ApplyGotoff, Report
  <2>5. \A i \in Rels : i # at => place'[i] = place[i]
    BY <1>0, <2>3 DEF Write
  <2>6. \A i \in Rels : i # at => dynrel'[i] = dynrel[i]
    BY <1>0, <2>4 DEF SetAddend
  <2>7. errors \subseteq errors'
    BY <2>2 DEF Report
  <2> QED BY <1>1, <2>1, <2>5, <2>6, <2>7 DEF Applied
<1> QED BY <1>2, <1>3 DEF Apply

\* What an apply writes is for the symbol as it is, or an error is reported.
LEMMA ApplyWrites ==
  ASSUME TypeOK, LinkInv, Apply, errors' = {},
         at \in Rels, Alloc(at), Kind(at) # "got", place[at] = Unrelocated
  PROVE  Writing(link.bits, out, Kind(at), place'[at], dynrel'[at],
                 sym[SymOf(at)], Has(SymOf(at), "PLT"))
<1> DEFINE y == SymOf(at)
           plt == Has(y, "PLT")
           s == sym[y]
<1>0. dynrel \in [Rels -> DynRels] /\ place \in [Rels -> Values] /\ link.bits \in {32, 64}
  BY LinkFacts DEF TypeOK
<1>1. symValue(y) = Value(s) /\ Target(y) = TargetFor(s, plt)
  BY DEF symValue, Value, Target, TargetFor
<1>2. \A d : ~Report(d)
  BY DEF Report
<1>3. \A v : Write(v) => place'[at] = v
  BY <1>0 DEF Write
<1>4. \A v : SetAddend(v) => dynrel'[at].addend = v
  BY <1>0 DEF SetAddend, DynRels
<1>5. dynrel'[at].kind = dynrel[at].kind
  BY ApplyKeeps
<1>6. CASE ApplyAbs32
  <2>1. /\ link.bits # 64 /\ Kind(at) \in {"abs", "narrow"}
        /\ IF /\ s.bind # "Local"
              /\ symbolNeedsDynRel(out, s, plt, TRUE)
              /\ Kind(at) = "abs" => ~helper_use_relative_reloc(out, s)
           THEN place'[at] = place[at] ELSE place'[at] = Target(y) ++ The("A")
    BY <1>3, <1>6 DEF ApplyAbs32, Applying, is64
  <2>2. place[at] = The("A")
    BY <2>1 DEF Unrelocated, is64
  <2>3. AbsWriting(link.bits, out, Kind(at), place'[at], dynrel'[at], s, plt)
    <3> HIDE DEF s, plt, y
    <3> QED BY <1>1, <2>1, <2>2 DEF AbsWriting
  <2> QED BY <2>1, <2>3 DEF Writing
<1>7. CASE ApplyAbs64
  <2> DEFINE relative == Kind(at) = "abs" /\ helper_use_relative_reloc(out, s)
             v == Target(y) ++ The("A")
  <2>1. /\ link.bits = 64 /\ Kind(at) \in {"abs", "narrow"}
        /\ Recorded(at) <=> dynrel'[at].kind \in {"RELATIVE", "own"}
    BY <1>5, <1>7 DEF ApplyAbs64, Applying, is64, Recorded
  <2>2. \/ ~Recorded(at) /\ place'[at] = v
        \/ Recorded(at) /\ s.bind = "Local" /\ dynrel'[at].addend = v
        \/ /\ Recorded(at) /\ s.bind # "Local"
           /\ dynrel'[at].addend = IF relative THEN v ELSE The("A")
    BY <1>3, <1>4, <1>7 DEF ApplyAbs64
  <2>3. AbsWriting(link.bits, out, Kind(at), place'[at], dynrel'[at], s, plt)
    <3> HIDE DEF s, plt, y
    <3> QED BY <1>1, <2>1, <2>2 DEF AbsWriting
  <2> QED BY <2>1, <2>3 DEF Writing
<1>8. CASE ApplySigned
  <2>1. ~Recorded(at) /\ place'[at] = Target(y) ++ The("A") /\ Kind(at) = "signed"
    BY <1>2, <1>3, <1>8 DEF ApplySigned, Applying
  <2>2. ~(link.bits = 64 /\ dynrel'[at].kind \in {"RELATIVE", "own"})
    BY <1>5, <2>1 DEF Recorded, is64
  <2> QED BY <1>1, <2>1, <2>2 DEF Writing
<1>9. CASE ApplyRel32
  <2>1. /\ link.bits # 64 /\ Kind(at) = "rel"
        /\ IF /\ s.bind # "Local"
              /\ symbolNeedsDynRel(out, s, plt, TRUE)
              /\ ~helper_use_relative_reloc(out, s)
              /\ ~plt
           THEN place'[at] = place[at]
           ELSE place'[at] = (Target(y) ++ The("A")) -- The("P")
    BY <1>3, <1>9 DEF ApplyRel32, Applying, is64
  <2>2. place[at] = The("A")
    BY <2>1 DEF Unrelocated, is64
  <2>3. RelWriting(link.bits, out, place'[at], s, plt)
    <3> HIDE DEF s, plt, y
    <3> QED BY <1>1, <2>1, <2>2 DEF RelWriting
  <2> QED BY <2>1, <2>3 DEF Writing
<1>10. CASE ApplyRel64
  <2>1. /\ link.bits = 64 /\ Kind(at) = "rel"
        /\ ~(s.bind # "Local" /\ symbolNeedsDynRel(out, s, plt, FALSE))
        /\ place'[at] = (Target(y) ++ The("A")) -- The("P")
    BY <1>2, <1>3, <1>10 DEF ApplyRel64, Applying, is64
  <2>2. RelWriting(link.bits, out, place'[at], s, plt)
    <3> HIDE DEF s, plt, y
    <3> QED BY <1>1, <2>1 DEF RelWriting
  <2> QED BY <2>1, <2>2 DEF Writing
<1>11. CASE ApplyPlt
  <2>1. /\ Kind(at) = "plt"
        /\ place'[at] = ((IF plt THEN The("PLT") ELSE symValue(y)) ++ The("A")) -- The("P")
    BY <1>3, <1>11 DEF ApplyPlt, Applying
  <2> QED BY <1>1, <2>1 DEF Writing
<1>12. CASE ApplyGotoff
  <2>1. Kind(at) = "gotoff" /\ place'[at] = (symValue(y) ++ The("A")) -- The("ORG")
    BY <1>3, <1>12 DEF ApplyGotoff, Applying
  <2> QED BY <1>1, <2>1 DEF Writing
<1>13. ~ApplyDebug /\ ~ApplyGot /\ ~EndApply
  BY DEF ApplyDebug, ApplyGot, EndApply, Applying
<1> QED BY <1>6, <1>7, <1>8, <1>9, <1>10, <1>11, <1>12, <1>13 DEF Apply

LEMMA ApplyStep ==
  ASSUME TypeOK, LinkInv, SymbolsInv, ScanInv, ApplyInv, Apply
  PROVE  SymbolsInv' /\ ScanInv' /\ ApplyInv'
<1>0. /\ Rels = 1..Len(link.rels) /\ Len(link.rels) \in Nat
      /\ at \in 1..(Len(link.rels) + 1)
  BY RelsType DEF TypeOK
<1>1. /\ UNCHANGED <<link, sym, reserved, seen>>
      /\ errors \subseteq errors'
      /\ \A i \in Rels : i # at => dynrel'[i] = dynrel[i] /\ place'[i] = place[i]
      /\ \A i \in Rels : dynrel'[i].kind = dynrel[i].kind
      /\ phase = "apply"
      /\ \/ /\ at \notin Rels /\ phase' = "done" /\ UNCHANGED <<place, got, dynrel, errors>>
         \/ at \in Rels /\ phase' = "apply" /\ at' = at + 1
  BY ApplyFrame
<1>2. Rels' = Rels /\ out' = out /\ Unrelocated' = Unrelocated
  BY <1>1 DEF Rels, out, Unrelocated, is64
<1>3. SymbolsInv'
  BY <1>1, <1>2 DEF SymbolsInv, Has
<1>4. ASSUME NEW i \in Rels
      PROVE  /\ i \in Int /\ at \in Int
             /\ IsApplied(i)' => i < at \/ (i = at /\ phase' = "apply")
             /\ (phase' = "apply" /\ i >= at') => i >= at /\ i # at
             /\ i < at => IsApplied(i)
             /\ i = at => at \in Rels
  <2>0. i \in Int /\ at \in Int
    BY <1>0
  <2>1. CASE at \notin Rels /\ phase' = "done"
    <3>1. i < at
      BY <1>0, <2>1, SMT
    <3> QED BY <1>1, <2>0, <2>1, <3>1 DEF IsApplied
  <2>2. CASE at \in Rels /\ phase' = "apply" /\ at' = at + 1
    BY <1>1, <2>0, <2>2 DEF IsApplied
  <2> QED BY <1>1, <2>1, <2>2
<1>5. ScanInv'
  <2>1. ASSUME NEW i \in Rels', Alloc(i)', Kind(i)' # "got"
        PROVE  Decided(i)'
    <3>1. i \in Rels /\ Alloc(i) /\ Kind(i) # "got" /\ Kind(i)' = Kind(i)
      BY <1>1, <1>2, <2>1 DEF Alloc, Kind
    <3>2. Decided(i)
      BY <1>1, <3>1 DEF ScanInv, IsScanned
    <3>3. dynrel'[i].kind = dynrel[i].kind
      BY <1>1, <3>1
    <3> QED BY <1>1, <1>2, <3>1, <3>2, <3>3 DEF Decided
  <2>2. phase' # "scan"
    BY <1>1
  <2> QED BY <2>1, <2>2 DEF ScanInv
<1>6. \A i \in Rels :
        phase' = "scan" \/ (phase' = "apply" /\ i >= at') => place'[i] = Unrelocated
  BY <1>1, <1>4 DEF ApplyInv
<1>7. ASSUME errors' = {}, NEW i \in Rels, IsApplied(i)', Alloc(i), Kind(i) # "got"
      PROVE  Writing(link.bits, out, Kind(i), place'[i], dynrel'[i],
                     sym[SymOf(i)], Has(SymOf(i), "PLT"))
  <2>1. CASE i < at
    <3>1. Written(i)
      BY <1>1, <1>4, <1>7, <2>1 DEF ApplyInv
    <3>2. i # at
      BY <1>4, <2>1
    <3> QED BY <1>1, <1>7, <3>1, <3>2 DEF Written
  <2>2. CASE i = at
    <3>1. place[at] = Unrelocated
      BY <1>1, <1>4, <1>7, <2>2 DEF ApplyInv
    <3> QED BY <1>7, <2>2, <3>1, ApplyWrites
  <2> QED BY <1>4, <1>7, <2>1, <2>2
<1>8. ApplyInv'
  <2>1. ASSUME errors' = {}, NEW i \in Rels', IsApplied(i)', Alloc(i)', Kind(i)' # "got"
        PROVE  Written(i)'
    <3>1. /\ i \in Rels /\ Alloc(i) /\ Kind(i) # "got" /\ Kind(i)' = Kind(i)
          /\ SymOf(i)' = SymOf(i)
      BY <1>1, <1>2, <2>1 DEF Alloc, Kind, SymOf
    <3>2. Writing(link.bits, out, Kind(i), place'[i], dynrel'[i],
                  sym[SymOf(i)], Has(SymOf(i), "PLT"))
      BY <1>7, <2>1, <3>1
    <3>3. Has(SymOf(i), "PLT")' = Has(SymOf(i), "PLT")
      BY <1>1, <3>1 DEF Has
    <3>4. sym'[SymOf(i)'] = sym[SymOf(i)] /\ link'.bits = link.bits
      BY <1>1, <3>1
    <3> QED BY <1>2, <3>1, <3>2, <3>3, <3>4 DEF Written
  <2> QED BY <1>2, <1>6, <2>1 DEF ApplyInv
<1> QED BY <1>3, <1>5, <1>8

-----------------------------------------------------------------------------
(* The GOT *)

\* The entry a scan makes, before anything is filled.
LEMMA EntryMade ==
  ASSUME TypeOK, LinkInv, SymbolsInv, NEW y \in Symbols, at \in Rels,
         NEW hasRel, GOT_init(y, hasRel),
         hasRel = IF sym[y].bind = "Local" THEN isCodeIndep(out)
                  ELSE ~symbolFinalValueIsKnown(out, sym[y])
  PROVE  /\ UNCHANGED sym
         /\ \/ dynrel'[at].kind = "GLOB_DAT"
            \/ /\ dynrel'[at].kind = "RELATIVE"
               /\ isCodeIndep(out) /\ ~Foreign(out, sym[y])
               /\ (IF is64 THEN dynrel'[at].addend ELSE got'[y]) = SymVal
            \/ /\ dynrel'[at].kind = "none"
               /\ ~sym[y].dyn
               /\ \/ ~isCodeIndep(out) /\ ~Foreign(out, sym[y])
                  \/ Undef(sym[y]) /\ isExecutable(out)
               /\ got'[y] = SymVal
<1>0. /\ sym[y] \in SymbolInfos /\ out \in Outputs /\ Sound(out, sym[y], Has(y, "PLT"))
      /\ dynrel \in [Rels -> DynRels] /\ got \in [Symbols -> Values]
  BY LinkFacts DEF SymbolsInv, TypeOK
<1> DEFINE relative == helper_use_relative_reloc(out, sym[y])
<1>1. /\ UNCHANGED sym
      /\ got'[y] = IF hasRel /\ (is64 \/ ~relative) THEN Zero ELSE SymVal
      /\ dynrel'[at] = IF ~hasRel THEN NoDynRel
                       ELSE IF ~relative THEN DynRel("GLOB_DAT")
                       ELSE [kind |-> "RELATIVE", addend |-> IF is64 THEN SymVal ELSE Zero]
  BY <1>0 DEF GOT_init
<1>2. relative <=> ~Foreign(out, sym[y])
  BY DEF helper_use_relative_reloc
<1>3. sym[y].bind = "Local" => ~Foreign(out, sym[y]) /\ ~sym[y].dyn
  BY <1>0 DEF Sound, Foreign, isSymbolPreemptible, Undef, SymbolInfos
<1>4. hasRel /\ ~Foreign(out, sym[y]) => isCodeIndep(out)
  BY <1>0 DEF symbolFinalValueIsKnown, Foreign, isExecutable, isCodeIndep, CodePosition, Outputs
<1>5. ~hasRel =>
        /\ ~sym[y].dyn
        /\ \/ ~isCodeIndep(out) /\ ~Foreign(out, sym[y])
           \/ Undef(sym[y]) /\ isExecutable(out)
  BY <1>3 DEF symbolFinalValueIsKnown, Foreign, isExecutable, isSymbolPreemptible
<1> HIDE DEF relative
<1>6. CASE ~hasRel
  BY <1>1, <1>5, <1>6 DEF NoDynRel
<1>7. CASE hasRel /\ relative
  <2>1. dynrel'[at] = [kind |-> "RELATIVE", addend |-> IF is64 THEN SymVal ELSE Zero]
    BY <1>1, <1>7
  <2>2. ~is64 => got'[y] = SymVal
    BY <1>1, <1>7
  <2>3. isCodeIndep(out) /\ ~Foreign(out, sym[y])
    BY <1>2, <1>4, <1>7
  <2>4. dynrel'[at].kind = "RELATIVE" /\ (is64 => dynrel'[at].addend = SymVal)
    BY <2>1
  <2> QED BY <1>1, <2>2, <2>3, <2>4
<1>8. CASE hasRel /\ ~relative
  <2>1. dynrel'[at] = DynRel("GLOB_DAT")
    BY <1>1, <1>8
  <2> QED BY <1>1, <2>1 DEF DynRel
<1> QED BY <1>6, <1>7, <1>8

\* A copy changes neither a symbol of this output nor the entry of any symbol.
LEMMA ScanGotFrame ==
  ASSUME TypeOK, Scan, NEW y \in Symbols
  PROVE  /\ ~sym[y].dyn => sym'[y] = sym[y]
         /\ Has(y, "GOT") => got'[y] = got[y]
         /\ "GOT" \in reserved'[y] /\ ~Has(y, "GOT") =>
              /\ at \in Rels /\ SymOf(at) = y /\ Kind(at) = "got" /\ Alloc(at)
              /\ \E hasRel :
                   /\ GOT_init(y, hasRel)
                   /\ hasRel = IF sym[y].bind = "Local" THEN isCodeIndep(out)
                               ELSE ~symbolFinalValueIsKnown(out, sym[y])
<1>0. /\ reserved \in [Symbols -> SUBSET {"Rel", "GOT", "PLT"}]
      /\ sym \in [Symbols -> SymbolInfos] /\ got \in [Symbols -> Values]
      /\ link.aliases \subseteq Symbols
  BY RelsType DEF TypeOK
<1>1. ASSUME ~sym[y].dyn PROVE sym'[y] = sym[y]
  <2>1. CASE sym' = sym
    BY <2>1
  <2>2. CASE sym[SymOf(at)].dyn /\ CopyReloc(SymOf(at))
    BY <1>0, <1>1, <2>2 DEF CopyReloc
  <2> QED BY <2>1, <2>2, ScanKeeps
<1>2. ASSUME "GOT" \in reserved'[y], ~Has(y, "GOT")
      PROVE  ScanGot /\ SymOf(at) = y
  <2>1. reserved' # reserved
    BY <1>2 DEF Has
  <2>2. \A z, bits : Reserve(z, bits) => z = y /\ "GOT" \in bits
    BY <1>0, <1>2 DEF Reserve, Has
  <2>3. ASSUME NEW z, NEW e, NEW n, NEW k, ReserveFor(z, e, n, k) PROVE "GOT" \in e
    BY <2>2, <2>3 DEF ReserveFor
  <2>0. \A z : ~Reserve(z, {"PLT"}) /\ ~Reserve(z, {"Rel"})
    <3>1. "GOT" \notin {"PLT"} /\ "GOT" \notin {"Rel"}
      OBVIOUS
    <3> QED BY <2>2, <3>1, Zenon
  <2>4. ~ScanGlobalAbs
    <3> SUFFICES ASSUME ScanGlobalAbs PROVE FALSE
      OBVIOUS
    <3> DEFINE entry == IF symbolNeedsPLT(out, sym[SymOf(at)]) THEN {"PLT"} ELSE {}
    <3>1. \E n, k : ReserveFor(SymOf(at), entry, n, k)
      BY DEF ScanGlobalAbs
    <3>2. "GOT" \notin entry
      OBVIOUS
    <3> HIDE DEF entry
    <3> QED BY <2>3, <3>1, <3>2
  <2>5. ~ScanGlobalRel
    <3> SUFFICES ASSUME ScanGlobalRel PROVE FALSE
      OBVIOUS
    <3> DEFINE entry == IF symbolNeedsPLT(out, sym[SymOf(at)]) /\ out.codeGen # "DynObj"
                        THEN {"PLT"} ELSE {}
    <3>1. \E n, k : ReserveFor(SymOf(at), entry, n, k)
      BY DEF ScanGlobalRel
    <3>2. "GOT" \notin entry
      OBVIOUS
    <3> HIDE DEF entry
    <3> QED BY <2>3, <3>1, <3>2
  <2>6. ~ScanGlobalPlt
    BY <2>0, <2>1, Zenon DEF ScanGlobalPlt
  <2>7. ~ScanLocalAbs
    BY <2>0, <2>1 DEF ScanLocalAbs, tables
  <2>8. ScanGot
    BY <2>1, <2>4, <2>5, <2>6, <2>7
       DEF Scan, ScanDebug, ScanNothing, ScanUnsupported, EndScan, tables
  <2> QED BY <2>1, <2>2, <2>8 DEF ScanGot, GOT_init, tables
<1>3. ASSUME Has(y, "GOT") PROVE got'[y] = got[y]
  <2>1. CASE ScanGot
    BY <1>0, <1>3, <2>1 DEF ScanGot, GOT_init, tables
  <2>2. CASE ~ScanGot
    <3>1. UNCHANGED got
      BY <2>2 DEF Scan, ScanDebug, ScanNothing, ScanUnsupported, ScanLocalAbs, ScanGlobalPlt,
         ScanGlobalAbs, ScanGlobalRel, EndScan, tables, DynRelOnPlace, ReserveFor, CopyReloc
    <3> QED BY <3>1
  <2> QED BY <2>1, <2>2
<1>4. ASSUME "GOT" \in reserved'[y], ~Has(y, "GOT")
      PROVE  /\ at \in Rels /\ SymOf(at) = y /\ Kind(at) = "got" /\ Alloc(at)
             /\ \E hasRel :
                  /\ GOT_init(y, hasRel)
                  /\ hasRel = IF sym[y].bind = "Local" THEN isCodeIndep(out)
                              ELSE ~symbolFinalValueIsKnown(out, sym[y])
  BY <1>2, <1>4 DEF ScanGot, Scanning
<1> QED BY <1>1, <1>3, <1>4

LEMMA ScanEntries ==
  ASSUME TypeOK, LinkInv, SymbolsInv, GotInv, EntryInv, Scan
  PROVE  EntryInv'
<1>0. /\ Rels = 1..Len(link.rels) /\ Len(link.rels) \in Nat
      /\ at \in 1..(Len(link.rels) + 1)
  BY RelsType DEF TypeOK
<1>1. /\ UNCHANGED link /\ phase = "scan"
      /\ \A i \in Rels : i # at => dynrel'[i] = dynrel[i]
      /\ \/ at \notin Rels /\ phase' = "apply" /\ UNCHANGED <<tables, sym>>
         \/ at \in Rels /\ phase' = "scan" /\ at' = at + 1
         \/ at \in Rels /\ phase' = "fatal" /\ at' = at /\ UNCHANGED <<tables, sym>>
      /\ phase' = "apply" => at' = 1
  BY ScanFrame
<1>2. Rels' = Rels /\ out' = out /\ is64' = is64
      /\ \A i, y : IsCreator(i, y)' <=> IsCreator(i, y)
  BY <1>1 DEF Rels, out, is64, IsCreator, SymOf, Kind, Alloc
<1>3. ASSUME NEW i \in Rels
      PROVE  /\ IsScanned(i) => i < at /\ i # at /\ IsScanned(i)'
             /\ i = at /\ phase' = "scan" => IsScanned(i)'
             /\ ~IsApplied(i)'
  <2>0. i \in Int /\ at \in Int /\ 1 <= i
    BY <1>0
  <2>1. IsScanned(i) <=> i < at
    BY <1>1 DEF IsScanned
  <2>2. CASE phase' = "apply"
    BY <1>1, <2>0, <2>1, <2>2 DEF IsScanned, IsApplied
  <2>3. CASE at' = at + 1 /\ phase' = "scan"
    BY <2>0, <2>1, <2>3 DEF IsScanned, IsApplied
  <2>4. CASE at' = at /\ phase' = "fatal"
    BY <2>0, <2>1, <2>4 DEF IsScanned, IsApplied
  <2> QED BY <1>1, <2>2, <2>3, <2>4
<1>4. ASSUME NEW y \in Symbols, "GOT" \in reserved'[y]
      PROVE  \E i \in Rels : IsScanned(i)' /\ IsCreator(i, y) /\ EntryHolds(i, y)'
  <2>0. ~sym[y].dyn => sym'[y] = sym[y]
    BY ScanGotFrame
  <2>1. CASE Has(y, "GOT")
    <3>1. PICK i \in Rels : IsScanned(i) /\ IsCreator(i, y) /\ EntryHolds(i, y)
      BY <2>1 DEF EntryInv
    <3>2. i # at /\ IsScanned(i)' /\ ~IsApplied(i)' /\ ~IsApplied(i)
      BY <1>1, <1>3, <3>1 DEF IsApplied
    <3>3. dynrel'[i] = dynrel[i] /\ got'[y] = got[y]
      BY <1>1, <2>1, <3>2, ScanGotFrame
    <3>4. ~Foreign(out, sym[y]) => ~sym[y].dyn
      BY DEF Foreign
    <3>5. \A v : ~sym[y].dyn /\ Filled(v, i, y) =>
            v = SymVal \/ v = IF Undef(sym'[y]) \/ sym'[y].dyn THEN Zero ELSE The("S")
      BY <2>0 DEF Filled, symValue
    <3>6. EntryHolds(i, y)'
      <4>1. CASE dynrel[i].kind = "GLOB_DAT"
        BY <3>3, <4>1 DEF EntryHolds
      <4>2. CASE /\ dynrel[i].kind = "RELATIVE"
                 /\ isCodeIndep(out) /\ ~Foreign(out, sym[y])
                 /\ Filled(IF is64 THEN dynrel[i].addend ELSE got[y], i, y)
        <5>1. sym'[y] = sym[y]
          BY <2>0, <3>4, <4>2
        <5>2. Filled(IF is64 THEN dynrel[i].addend ELSE got[y], i, y)'
          BY <1>2, <3>2, <3>3, <4>2, <5>1 DEF Filled, symValue
        <5> QED BY <1>2, <3>3, <4>2, <5>1, <5>2 DEF EntryHolds
      <4>3. CASE /\ dynrel[i].kind = "none"
                 /\ ~sym[y].dyn
                 /\ \/ ~isCodeIndep(out) /\ ~Foreign(out, sym[y])
                    \/ Undef(sym[y]) /\ isExecutable(out)
                 /\ Filled(got[y], i, y)
        <5>1. sym'[y] = sym[y]
          BY <2>0, <4>3
        <5>2. Filled(got[y], i, y)'
          BY <3>2, <3>3, <4>3, <5>1 DEF Filled, symValue
        <5> QED BY <1>2, <3>3, <4>3, <5>1, <5>2 DEF EntryHolds
      <4> QED BY <3>1, <4>1, <4>2, <4>3 DEF EntryHolds
    <3> QED BY <3>1, <3>2, <3>6
  <2>2. CASE ~Has(y, "GOT")
    <3>1. /\ at \in Rels /\ SymOf(at) = y /\ Kind(at) = "got" /\ Alloc(at)
          /\ \E hasRel :
               /\ GOT_init(y, hasRel)
               /\ hasRel = IF sym[y].bind = "Local" THEN isCodeIndep(out)
                           ELSE ~symbolFinalValueIsKnown(out, sym[y])
      BY <1>4, <2>2, ScanGotFrame
    <3>2. /\ sym' = sym
          /\ \/ dynrel'[at].kind = "GLOB_DAT"
             \/ /\ dynrel'[at].kind = "RELATIVE"
                /\ isCodeIndep(out) /\ ~Foreign(out, sym[y])
                /\ (IF is64 THEN dynrel'[at].addend ELSE got'[y]) = SymVal
             \/ /\ dynrel'[at].kind = "none"
                /\ ~sym[y].dyn
                /\ \/ ~isCodeIndep(out) /\ ~Foreign(out, sym[y])
                   \/ Undef(sym[y]) /\ isExecutable(out)
                /\ got'[y] = SymVal
      BY <3>1, EntryMade
    <3>3. IsCreator(at, y)
      <4>1. ASSUME NEW j \in 1..(at - 1), SymOf(j) = y, Kind(j) = "got", Alloc(j)
            PROVE  FALSE
        <5>1. j \in Rels /\ j < at
          BY <1>0, <3>1
        <5> QED BY <2>2, <4>1, <5>1 DEF GotInv
      <4> QED BY <3>1, <4>1 DEF IsCreator
    <3>4. phase' = "scan"
      <4>1. reserved' # reserved
        BY <1>4, <2>2 DEF Has
      <4> QED BY <1>1, <4>1 DEF tables
    <3>5. PICK i \in Rels : i = at
      BY <3>1
    <3>6. IsScanned(i)' /\ ~IsApplied(i)'
      BY <1>3, <3>4, <3>5
    <3>7. EntryHolds(i, y)'
      BY <1>2, <3>2, <3>5, <3>6 DEF EntryHolds, Filled
    <3> QED BY <3>3, <3>5, <3>6, <3>7
  <2> QED BY <2>1, <2>2
<1> QED BY <1>2, <1>4 DEF EntryInv, Has

\* What an application of a GOT relocation fills.
LEMMA ApplyFills ==
  ASSUME TypeOK, Apply, NEW y \in Symbols
  PROVE  /\ got'[y] = got[y] \/ (got[y] = SymVal /\ got'[y] = symValue(y))
         /\ at \in Rels /\ SymOf(at) = y /\ Kind(at) = "got" /\ Has(y, "GOT") =>
              /\ got'[y] = IF got[y] = SymVal THEN symValue(y) ELSE got[y]
              /\ dynrel'[at].addend = IF Recorded(at) /\ dynrel[at].addend = SymVal
                                      THEN symValue(y) ELSE dynrel[at].addend
<1>0. got \in [Symbols -> Values] /\ dynrel \in [Rels -> DynRels]
  BY DEF TypeOK, DynRels
<1>1. CASE ApplyGot
  <2>1. CASE ~Has(SymOf(at), "GOT")
    BY <1>1, <2>1 DEF ApplyGot, Report
  <2>2. CASE Has(SymOf(at), "GOT")
    <3>1. /\ got' = [got EXCEPT ![SymOf(at)] = IF @ = SymVal THEN symValue(SymOf(at)) ELSE @]
          /\ IF Recorded(at) /\ dynrel[at].addend = SymVal
             THEN SetAddend(symValue(SymOf(at))) ELSE UNCHANGED dynrel
      BY <1>1, <2>2 DEF ApplyGot
    <3>2. at \in Rels => \A v : SetAddend(v) => dynrel'[at].addend = v
      BY <1>0 DEF SetAddend, DynRels
    <3>3. got'[y] = IF y = SymOf(at) /\ got[y] = SymVal THEN symValue(y) ELSE got[y]
      BY <1>0, <3>1
    <3>4. at \in Rels => dynrel'[at].addend = IF Recorded(at) /\ dynrel[at].addend = SymVal
                                              THEN symValue(SymOf(at)) ELSE dynrel[at].addend
      BY <3>1, <3>2
    <3> QED BY <3>3, <3>4
  <2> QED BY <2>1, <2>2
<1>2. CASE ~ApplyGot
  <2>1. UNCHANGED got
    BY <1>2 DEF Apply, ApplyDebug, ApplyAbs32, ApplyAbs64, ApplySigned, ApplyRel32,
       ApplyRel64, ApplyPlt, ApplyGotoff, EndApply, Report, tables
  <2>2. ~(at \in Rels /\ Kind(at) = "got")
    BY <1>2 DEF Apply, ApplyDebug, ApplyAbs32, ApplyAbs64, ApplySigned, ApplyRel32,
       ApplyRel64, ApplyPlt, ApplyGotoff, EndApply, Applying
  <2> QED BY <2>1, <2>2
<1> QED BY <1>1, <1>2

LEMMA ApplyEntries ==
  ASSUME TypeOK, LinkInv, SymbolsInv, EntryInv, Apply
  PROVE  EntryInv'
<1>0. /\ Rels = 1..Len(link.rels) /\ Len(link.rels) \in Nat
      /\ at \in 1..(Len(link.rels) + 1)
  BY RelsType DEF TypeOK
<1>1. /\ UNCHANGED <<link, sym, reserved>> /\ phase = "apply"
      /\ \A i \in Rels : i # at => dynrel'[i] = dynrel[i]
      /\ \A i \in Rels : dynrel'[i].kind = dynrel[i].kind
      /\ \/ at \notin Rels /\ phase' = "done"
         \/ at \in Rels /\ phase' = "apply" /\ at' = at + 1
  BY ApplyFrame
<1>2. /\ Rels' = Rels /\ out' = out /\ is64' = is64
      /\ \A i, y : IsCreator(i, y)' <=> IsCreator(i, y)
      /\ \A y : symValue(y)' = symValue(y)
  BY <1>1 DEF Rels, out, is64, IsCreator, SymOf, Kind, Alloc, symValue
<1>3. ASSUME NEW i \in Rels
      PROVE  /\ IsScanned(i)'
             /\ i # at /\ IsApplied(i)' => IsApplied(i)
  <2>0. i \in Int /\ at \in Int
    BY <1>0
  <2>1. CASE at \notin Rels /\ phase' = "done"
    <3>1. i < at
      BY <1>0, <2>1, SMT
    <3> QED BY <1>1, <2>1, <3>1 DEF IsScanned, IsApplied
  <2>2. CASE at \in Rels /\ phase' = "apply" /\ at' = at + 1
    BY <1>1, <2>0, <2>2 DEF IsScanned, IsApplied
  <2> QED BY <1>1, <2>1, <2>2
<1>4. ASSUME NEW y \in Symbols, Has(y, "GOT")
      PROVE  \E i \in Rels : IsScanned(i)' /\ IsCreator(i, y) /\ EntryHolds(i, y)'
  <2>1. PICK i \in Rels : IsScanned(i) /\ IsCreator(i, y) /\ EntryHolds(i, y)
    BY <1>4 DEF EntryInv
  <2>2. /\ SymOf(i) = y /\ Kind(i) = "got"
        /\ dynrel'[i].kind = dynrel[i].kind
    BY <1>1, <2>1 DEF IsCreator
  <2>3. /\ got'[y] = got[y] \/ (got[y] = SymVal /\ got'[y] = symValue(y))
        /\ i = at =>
             /\ got'[y] = IF got[y] = SymVal THEN symValue(y) ELSE got[y]
             /\ dynrel'[i].addend = IF Recorded(i) /\ dynrel[i].addend = SymVal
                                    THEN symValue(y) ELSE dynrel[i].addend
    BY <1>4, <2>2, ApplyFills
  <2>4. i # at => dynrel'[i] = dynrel[i]
    BY <1>1
  <2>5. Filled(got[y], i, y) => Filled(got[y], i, y)'
    BY <1>2, <1>3, <2>3 DEF Filled
  <2>6. is64 /\ dynrel[i].kind = "RELATIVE" /\ Filled(dynrel[i].addend, i, y) =>
          Filled(dynrel[i].addend, i, y)'
    BY <1>2, <1>3, <2>3, <2>4 DEF Filled, Recorded
  <2>7. (IF is64 THEN dynrel[i].addend ELSE got[y])'
          = IF is64 THEN dynrel'[i].addend ELSE got'[y]
    BY <1>2
  <2>8. EntryHolds(i, y)'
    <3>1. CASE dynrel[i].kind = "GLOB_DAT"
      BY <2>2, <3>1 DEF EntryHolds
    <3>2. CASE /\ dynrel[i].kind = "RELATIVE"
               /\ isCodeIndep(out) /\ ~Foreign(out, sym[y])
               /\ Filled(IF is64 THEN dynrel[i].addend ELSE got[y], i, y)
      <4>1. Filled(IF is64 THEN dynrel[i].addend ELSE got[y], i, y)'
        <5>1. CASE is64
          <6>1. Filled(dynrel[i].addend, i, y)'
            BY <2>6, <3>2, <5>1
          <6> QED BY <1>2, <5>1, <6>1 DEF Filled
        <5>2. CASE ~is64
          <6>1. Filled(got[y], i, y)'
            BY <2>5, <3>2, <5>2
          <6> QED BY <1>2, <5>2, <6>1 DEF Filled
        <5> QED BY <5>1, <5>2
      <4> QED BY <1>1, <1>2, <2>2, <3>2, <4>1 DEF EntryHolds
    <3>3. CASE /\ dynrel[i].kind = "none"
               /\ ~sym[y].dyn
               /\ \/ ~isCodeIndep(out) /\ ~Foreign(out, sym[y])
                  \/ Undef(sym[y]) /\ isExecutable(out)
               /\ Filled(got[y], i, y)
      BY <1>1, <1>2, <2>2, <2>5, <3>3 DEF EntryHolds
    <3> QED BY <2>1, <3>1, <3>2, <3>3 DEF EntryHolds
  <2> QED BY <1>3, <2>1, <2>8
<1> QED BY <1>1, <1>2, <1>4 DEF EntryInv, Has

-----------------------------------------------------------------------------
(* What is written and what is performed add up.                           *)

LEMMA PlacesHold ==
  ASSUME TypeOK, LinkInv, SymbolsInv, ScanInv, ApplyInv
  PROVE  PlacesRelocated
<1> SUFFICES ASSUME Linked, NEW i \in Rels, Alloc(i), Kind(i) # "got", Settled(i)
             PROVE  Relocated(i)
  BY DEF PlacesRelocated
<1> DEFINE y == sym[SymOf(i)]
           plt == Has(SymOf(i), "PLT")
<1>1. /\ link.bits \in {32, 64} /\ out \in Outputs /\ y \in SymbolInfos
      /\ dynrel[i] \in DynRels /\ place[i] \in Values /\ plt \in BOOLEAN
      /\ Kind(i) \in Kinds
  BY LinkFacts, RelsType DEF TypeOK, Has
<1>2. Sound(out, y, plt)
  BY LinkFacts DEF SymbolsInv
<1>3. Suits(link.bits, out, Kind(i), y)
  BY OrdinaryRel
<1>4. Decision(link.bits, out, Kind(i), dynrel[i].kind, y, plt)
  BY DEF Linked, ScanInv, IsScanned, Decided, Settled
<1>5. Writing(link.bits, out, Kind(i), place[i], dynrel[i], y, plt)
  BY DEF Linked, ApplyInv, IsApplied, Written
<1>6. ReachedBy(out, y, plt) = Reaches(SymOf(i))
  BY DEF ReachedBy, Reaches, Denotes, Finds, FoundFor, Base, LoadBase
<1>7. OriginFor(out, Kind(i)) = Origin(i)
  BY DEF OriginFor, Origin, Base, LoadBase
<1>8. Holds(link.bits, out, Kind(i), place[i], dynrel[i], y) = PlaceAtRunTime(i)
  <2>1. Performed(link.bits, out, place[i], dynrel[i], y) = Load(place[i], dynrel[i], SymOf(i))
    BY DEF Performed, Load, Finds, FoundFor, Base, LoadBase, is64
  <2> QED BY <1>7, <2>1 DEF Holds, PlaceAtRunTime
<1> HIDE DEF y, plt
<1>9. \E a \in ReachedBy(out, y, plt) :
        Holds(link.bits, out, Kind(i), place[i], dynrel[i], y)
          = (a ++ The("A")) -- OriginFor(out, Kind(i))
  <2>1. CASE Kind(i) \in AbsKinds
    BY <1>1, <1>2, <1>3, <1>4, <1>5, <2>1, AbsoluteHolds
  <2>2. CASE Kind(i) \in {"rel", "plt", "gotoff"}
    BY <1>1, <1>2, <1>3, <1>4, <1>5, <2>2, OthersHold
  <2> QED BY <1>1, <2>1, <2>2 DEF Kinds, AbsKinds
<1> QED BY <1>6, <1>7, <1>8, <1>9 DEF Relocated

LEMMA EntriesHold ==
  ASSUME TypeOK, LinkInv, SymbolsInv, EntryInv
  PROVE  GotHoldsSymbol
<1> SUFFICES ASSUME Linked, NEW y \in Symbols, Has(y, "GOT")
             PROVE  EntryAtRunTime(y) \in Denotes(y)
  BY DEF GotHoldsSymbol
<1>0. Rels = 1..Len(link.rels) /\ Len(link.rels) \in Nat
  BY RelsType
<1>1. PICK i \in Rels : IsCreator(i, y) /\ EntryHolds(i, y)
  BY DEF EntryInv
<1>2. Creator(y) = i
  <2>1. ASSUME NEW j \in Rels, IsCreator(j, y) PROVE j = i
    <3>1. i \in Int /\ j \in Int /\ 1 <= i /\ 1 <= j
      BY <1>0
    <3>2. i < j => i \in 1..(j - 1)
      BY <3>1
    <3>3. j < i => j \in 1..(i - 1)
      BY <3>1
    <3>4. ~(i < j) /\ ~(j < i)
      BY <1>1, <2>1, <3>2, <3>3 DEF IsCreator
    <3> QED BY <3>1, <3>4
  <2>2. Creator(y) = CHOOSE j \in Rels : IsCreator(j, y)
    BY DEF Creator, IsCreator
  <2> QED BY <1>1, <2>1, <2>2
<1>3. IsApplied(i)
  BY DEF IsApplied, Linked
<1>4. EntryAtRunTime(y) = Load(got[y], dynrel[i], y)
  BY <1>2 DEF EntryAtRunTime
<1>5. FoundFor(y) \in Denotes(y)
  BY DEF Denotes
<1>6. CASE dynrel[i].kind = "GLOB_DAT"
  BY <1>4, <1>5, <1>6 DEF Load
<1>7. CASE /\ dynrel[i].kind = "RELATIVE"
           /\ isCodeIndep(out) /\ ~Foreign(out, sym[y])
           /\ Filled(IF is64 THEN dynrel[i].addend ELSE got[y], i, y)
  <2>1. (IF is64 THEN dynrel[i].addend ELSE got[y]) = The("S")
    BY <1>3, <1>7 DEF Filled, symValue, Foreign
  <2>2. EntryAtRunTime(y) = The("S") ++ LoadBase
    BY <1>4, <1>7, <2>1 DEF Load
  <2> QED BY <1>5, <1>7, <2>2 DEF FoundFor
<1>8. CASE dynrel[i].kind = "none" /\ ~sym[y].dyn /\ Filled(got[y], i, y)
           /\ ~isCodeIndep(out) /\ ~Foreign(out, sym[y])
  <2>1. EntryAtRunTime(y) = The("S")
    BY <1>3, <1>4, <1>8 DEF Filled, symValue, Foreign, Load
  <2>2. FoundFor(y) = The("S") ++ Zero
    BY <1>8 DEF FoundFor, LoadBase
  <2>3. The("S") ++ Zero = The("S")
    BY SumLaws, TermValues
  <2> QED BY <1>5, <2>1, <2>2, <2>3
<1>9. CASE dynrel[i].kind = "none" /\ ~sym[y].dyn /\ Filled(got[y], i, y)
           /\ Undef(sym[y]) /\ isExecutable(out)
  <2>1. EntryAtRunTime(y) = Zero
    BY <1>3, <1>4, <1>9 DEF Filled, symValue, Load
  <2> QED BY <1>9, <2>1 DEF Denotes
<1> QED BY <1>1, <1>6, <1>7, <1>8, <1>9 DEF EntryHolds

PlacesInv == LinkInv /\ SymbolsInv /\ ScanInv /\ ApplyInv /\ EntryInv

LEMMA PlacesStep == TypeOK /\ GotInv /\ PlacesInv /\ [Next]_vars => PlacesInv'
<1> SUFFICES ASSUME TypeOK, GotInv, PlacesInv, [Next]_vars PROVE PlacesInv'
  OBVIOUS
<1> USE DEF PlacesInv
<1>1. CASE Scan
  <2>1. LinkInv'
    BY <1>1, ScanKeeps DEF LinkInv
  <2> QED BY <1>1, <2>1, ScanSymbols, ScanStep, ScanEntries
<1>2. CASE Apply
  <2>1. LinkInv'
    BY <1>2, ApplyKeeps DEF LinkInv
  <2> QED BY <1>2, <2>1, ApplyStep, ApplyEntries
<1>3. CASE UNCHANGED vars
  <2>1. LinkInv' /\ SymbolsInv'
    BY <1>3 DEF vars, LinkInv, SymbolsInv, Has, out
  <2>2. ScanInv'
    BY <1>3 DEF vars, ScanInv, IsScanned, Decided, Rels, Alloc, Kind, out
  <2>3. ApplyInv'
    BY <1>3 DEF vars, ApplyInv, IsApplied, Written, Rels, Alloc, Kind, SymOf, Has, out,
       Unrelocated, is64
  <2>4. EntryInv'
    BY <1>3 DEF vars, EntryInv, IsScanned, IsCreator, EntryHolds, Filled, IsApplied, Rels,
       Alloc, Kind, SymOf, Has, out, is64, symValue
  <2> QED BY <2>1, <2>2, <2>3, <2>4
<1> QED BY <1>1, <1>2, <1>3 DEF Next

(* For any ordinary links, what the scan has reserved and what the apply   *)
(* has written add up: at run time every loaded place whose symbol has not *)
(* changed since its scan, and every entry of the GOT, holds an address    *)
(* that its symbol may mean.                                               *)
THEOREM PlacesHoldAddresses ==
  ASSUME AllOrdinary
  PROVE  Spec => []RuntimeAddresses
<1>1. Init => GotInv /\ PlacesInv
  <2> SUFFICES ASSUME Init PROVE GotInv /\ PlacesInv
    OBVIOUS
  <2>0. Rels = 1..Len(link.rels) /\ Len(link.rels) \in Nat /\ LinkInv
    BY InitType, RelsType DEF Init, LinkInv, AllOrdinary
  <2>1. GotInv
    BY <2>0 DEF Init, GotInv
  <2>2. SymbolsInv
    <3>1. ASSUME NEW y \in Symbols PROVE Sound(out, sym[y], Has(y, "PLT"))
      <4>1. sym[y].bind = "Local" => ~Undef(sym[y]) /\ ~sym[y].dyn
        BY <2>0 DEF Init, LinkInv, Ordinary
      <4>2. isCodeStatic(out) => ~sym[y].dyn
        <5>1. isCodeStatic(out) => ~link.out.libs
          BY DEF isCodeStatic, CodePosition, out
        <5> QED BY <5>1, ImportAssumption DEF Init
      <4> QED BY <4>1, <4>2 DEF Sound, Has, Init
    <3> QED BY <3>1 DEF SymbolsInv, Init
  <2>3. ScanInv /\ ApplyInv
    BY <2>0 DEF Init, ScanInv, ApplyInv, IsScanned, IsApplied
  <2>4. EntryInv
    BY DEF Init, EntryInv, Has
  <2> QED BY <2>0, <2>1, <2>2, <2>3, <2>4 DEF PlacesInv
<1>2. TypeOK /\ PlacesInv => RuntimeAddresses
  BY PlacesHold, EntriesHold DEF PlacesInv, RuntimeAddresses
<1>3. TypeOK /\ GotInv /\ EntriesFound /\ PlacesInv /\ [Next]_vars => GotInv' /\ EntriesFound'
  BY GotStep
<1>4. Init => EntriesFound
  BY DEF Init, EntriesFound
<1> QED BY <1>1, <1>2, <1>3, <1>4, TypeCorrect, PlacesStep, PTL DEF Spec
=============================================================================
