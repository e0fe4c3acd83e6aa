-------------------------- MODULE ARMRelocatorProofs --------------------------
(* Theorems about ARMRelocator for any links, symbols and relocations.        *)
EXTENDS ARMRelocator, TLAPS

DynRels == [kind : {"none", "RELATIVE", "GLOB_DAT", "COPY", "own"}, addend : Values]
Diagnostics == {"undefined", "nonpic", "badreloc", "unsupported"}
Instructions == {"as is", "BL", "BLX", "NOP"}

\* What a scan may change.
TablesOK ==
  /\ sym \in [Symbols -> SymbolInfos]
  /\ reserved \in [Symbols -> SUBSET {"Rel", "GOT", "PLT"}]
  /\ got \in [Symbols -> Values]
  /\ dynrel \in [Rels -> DynRels]
  /\ textRel \in BOOLEAN

LEMMA ValueSum ==
  ASSUME NEW u \in Values, NEW v \in Values
  PROVE  u ++ v \in Values /\ u -- v \in Values
BY SMT DEF Values, ++, --

LEMMA ValueConstants ==
  /\ Zero \in Values
  /\ \A t \in Terms : The(t) \in Values
  /\ {The("A"), The("S"), The("PLT"), The("GOT"), The("ORG"), The("STUB"), The("P"),
      The("Base"), The("Found")} \subseteq Values
  /\ SymVal \in Values
  /\ Unrelocated \in Values
BY SMT DEF Values, Zero, The, SymVal, Unrelocated, Terms

LEMMA DynRelType ==
  \A k \in {"none", "RELATIVE", "GLOB_DAT", "COPY", "own"} : DynRel(k) \in DynRels
BY ValueConstants DEF DynRels, DynRel

\* Relocations of the link are relocations.
LEMMA RelsType ==
  ASSUME TypeOK
  PROVE  /\ Rels = 1..Len(link.rels)
         /\ Len(link.rels) \in Nat
         /\ \A i \in Rels : SymOf(i) \in Symbols /\ Kind(i) \in Kinds
<1>1. link.rels \in Seq(Relocations)
  BY DEF TypeOK, LinkType
<1>2. Rels = 1..Len(link.rels) /\ Len(link.rels) \in Nat
  BY <1>1 DEF Rels
<1>3. \A i \in Rels : link.rels[i] \in Relocations
  BY <1>1, <1>2
<1> QED BY <1>2, <1>3 DEF SymOf, Kind, Relocations

LEMMA TargetType ==
  ASSUME NEW y PROVE symValue(y) \in Values /\ Target(y) \in Values
BY ValueConstants DEF symValue, Target, Terms

LEMMA InitType == Init => TypeOK
<1> SUFFICES ASSUME Init PROVE TypeOK OBVIOUS
<1>1. link \in LinkType /\ link.syms \in [Symbols -> SymbolInfos] /\ link.rels \in Seq(Relocations)
  BY ARMLinkAssumption DEF Init, LinkType
<1>2. Rels = 1..Len(link.rels) /\ Len(link.rels) \in Nat
  BY <1>1 DEF Rels
<1>3. \A i \in Rels : SymOf(i) \in Symbols
  <2>1. \A i \in Rels : link.rels[i] \in Relocations
    BY <1>1, <1>2
  <2> QED BY <2>1 DEF SymOf, Relocations
<1>4. dynrel \in [Rels -> DynRels]
  BY DynRelType DEF Init
<1>5. seen \in [Rels -> [plt : BOOLEAN, sym : SymbolInfos]]
  BY <1>1, <1>3 DEF Init
<1>6. at \in 1..(Len(link.rels) + 1)
  <2>1. at = 1
    BY DEF Init
  <2> QED BY <1>2, <2>1
<1>7. got \in [Symbols -> Values] /\ place \in [Rels -> Values]
  BY ValueConstants DEF Init
<1>8. veneer \in [Rels -> Seq(Values)]
  <2>1. veneer = [i \in Rels |-> <<>>]
    BY DEF Init
  <2>2. <<>> \in Seq(Values)
    OBVIOUS
  <2> QED BY <2>1, <2>2
<1> QED BY <1>1, <1>4, <1>5, <1>6, <1>7, <1>8 DEF Init, TypeOK, DynRels

-----------------------------------------------------------------------------
(* Type correctness, one lemma for what ends a scan and one for what ends  *)
(* an application.                                                         *)

LEMMA ScannedType ==
  ASSUME TypeOK, at \in Rels, NEW reports \in SUBSET Diagnostics, Scanned(reports), TablesOK'
  PROVE  TypeOK'
<1>1. Rels' = Rels /\ at' \in 1..(Len(link'.rels) + 1)
  BY RelsType, SMT DEF Scanned, Rels
<1>2. errors' \subseteq Diagnostics \X Rels
  <2>1. PICK undefined \in SUBSET {"undefined"} :
          errors' = errors \cup {<<d, at>> : d \in reports \cup undefined}
    BY DEF Scanned
  <2>2. \A d \in reports \cup undefined : d \in Diagnostics
    BY DEF Diagnostics
  <2>3. errors \subseteq Diagnostics \X Rels
    BY DEF TypeOK, Diagnostics
  <2> QED BY <2>1, <2>2, <2>3
<1>3. SymOf(at) \in Symbols
  BY RelsType
<1>4. seen' \in [Rels -> [plt : BOOLEAN, sym : SymbolInfos]]
  <2>1. sym'[SymOf(at)] \in SymbolInfos
    BY <1>3 DEF TablesOK
  <2>2. seen' = [seen EXCEPT ![at] = [plt |-> "PLT" \in reserved'[SymOf(at)],
                                      sym |-> sym'[SymOf(at)]]]
    BY DEF Scanned
  <2>3. seen \in [Rels -> [plt : BOOLEAN, sym : SymbolInfos]]
    BY DEF TypeOK
  <2> QED BY <2>1, <2>2, <2>3
<1> QED BY <1>1, <1>2, <1>4 DEF Scanned, TypeOK, TablesOK, DynRels, Diagnostics, image

LEMMA AppliedType ==
  ASSUME TypeOK, at \in Rels, Applied,
         place' \in [Rels -> Values],
         instr' \in [Rels -> Instructions],
         got' \in [Symbols -> Values],
         dynrel' \in [Rels -> DynRels],
         errors' \subseteq Diagnostics \X Rels
  PROVE  TypeOK'
<1>1. Rels' = Rels /\ at' \in 1..(Len(link'.rels) + 1)
  BY RelsType, SMT DEF Applied, Rels
<1> QED BY <1>1 DEF Applied, TypeOK, DynRels, Diagnostics, Instructions

\* A copy makes the symbol one of this output and leaves the others alone.
LEMMA CopyChanges ==
  ASSUME TypeOK, NEW y \in Symbols, CopyReloc(y)
  PROVE  /\ sym' \in [Symbols -> SymbolInfos]
         /\ \A z \in Symbols : z # y => sym'[z] = sym[z]
         /\ sym'[y].desc = "Define" /\ ~sym'[y].dyn /\ sym'[y].type = sym[y].type
         /\ sym'[y].bind = IF sym[y].bind = "Weak" THEN "Global" ELSE sym[y].bind
         /\ sym'[y].vis = sym[y].vis
<1>1. sym \in [Symbols -> SymbolInfos] /\ sym[y] \in SymbolInfos
  BY DEF TypeOK
<1> DEFINE bind == IF sym[y].bind = "Weak" THEN "Global" ELSE sym[y].bind
           new == [sym[y] EXCEPT !.desc = "Define", !.dyn = FALSE, !.bind = bind]
<1>2. sym' = [sym EXCEPT ![y] = new]
  BY <1>1 DEF CopyReloc, SymbolInfos
<1>3. bind \in {"Global", "Weak", "Local", "Absolute"}
  BY <1>1 DEF SymbolInfos
<1>4. /\ new \in SymbolInfos /\ new.desc = "Define" /\ ~new.dyn /\ new.type = sym[y].type
      /\ new.bind = bind /\ new.vis = sym[y].vis
  <2> HIDE DEF bind
  <2> QED BY <1>1, <1>3 DEF SymbolInfos
<1>5. sym'[y] = new /\ \A z \in Symbols : z # y => sym'[z] = sym[z]
  BY <1>1, <1>2
<1>6. sym' \in [Symbols -> SymbolInfos]
  BY <1>1, <1>2, <1>4
<1> QED BY <1>4, <1>5, <1>6

\* The three ways of ReserveFor keep the tables.
LEMMA ReserveType ==
  ASSUME TypeOK, at \in Rels, link' = link,
         NEW entry \in SUBSET {"PLT"}, NEW needs, NEW k \in {"RELATIVE", "own"},
         ReserveFor(SymOf(at), entry, needs, k)
  PROVE  TablesOK'
<1>0. /\ SymOf(at) \in Symbols /\ Rels' = Rels
      /\ sym \in [Symbols -> SymbolInfos] /\ dynrel \in [Rels -> DynRels]
      /\ reserved \in [Symbols -> SUBSET {"Rel", "GOT", "PLT"}]
      /\ got \in [Symbols -> Values] /\ textRel \in BOOLEAN
  BY RelsType DEF TypeOK, DynRels, Rels
<1>1. reserved' \in [Symbols -> SUBSET {"Rel", "GOT", "PLT"}]
  BY <1>0 DEF ReserveFor, Reserve
<1>2. dynrel' \in [Rels -> DynRels]
  BY <1>0, DynRelType DEF ReserveFor, CopyReloc, DynRelOnPlace
<1>3. sym' \in [Symbols -> SymbolInfos]
  BY <1>0, CopyChanges DEF ReserveFor, DynRelOnPlace
<1> QED BY <1>0, <1>1, <1>2, <1>3 DEF ReserveFor, CopyReloc, DynRelOnPlace, TablesOK, Writable

LEMMA ScanStepType ==
  ASSUME TypeOK, Scan
  PROVE  TypeOK'
<1>0. /\ at \in Rels => SymOf(at) \in Symbols
      /\ Len(link.rels) \in Nat /\ Rels = 1..Len(link.rels)
      /\ sym \in [Symbols -> SymbolInfos] /\ dynrel \in [Rels -> DynRels]
      /\ reserved \in [Symbols -> SUBSET {"Rel", "GOT", "PLT"}]
      /\ got \in [Symbols -> Values] /\ textRel \in BOOLEAN
  BY RelsType DEF TypeOK, DynRels
<1>1. ASSUME UNCHANGED tables, link' = link PROVE TablesOK'
  BY <1>0, <1>1 DEF tables, TablesOK, Rels
<1>2. ASSUME NEW r \in SUBSET Diagnostics, Scanned(r) PROVE link' = link
  BY <1>2 DEF Scanned
<1>3. {} \in SUBSET Diagnostics /\ {"nonpic"} \in SUBSET Diagnostics
      /\ CheckValid \in SUBSET Diagnostics
  BY DEF Diagnostics, CheckValid
<1>4. ASSUME NEW y \in Symbols, NEW bits \in SUBSET {"Rel", "GOT", "PLT"}, Reserve(y, bits)
      PROVE  reserved' \in [Symbols -> SUBSET {"Rel", "GOT", "PLT"}]
  BY <1>0, <1>4 DEF Reserve
<1>5. ASSUME ScanDebug PROVE TypeOK'
  <2>1. at' \in 1..(Len(link'.rels) + 1)
    BY <1>0, <1>5, SMT DEF ScanDebug
  <2> QED BY <1>5, <2>1 DEF ScanDebug, TypeOK, tables, image, Rels
<1>6. ASSUME ScanNothing PROVE TypeOK'
  <2>1. at \in Rels /\ Scanned({}) /\ UNCHANGED tables
    BY <1>6 DEF ScanNothing, Scanning
  <2> QED BY <1>1, <1>2, <1>3, <2>1, ScannedType
<1>7. ASSUME ScanLocalAbs PROVE TypeOK'
  <2>1. PICK has \in BOOLEAN, k \in {"RELATIVE", "own"}, r \in {{}, {"nonpic"}} :
          /\ IF has THEN DynRelOnPlace(k) /\ Reserve(SymOf(at), {"Rel"}) ELSE UNCHANGED tables
          /\ Scanned(r) /\ at \in Rels
    BY <1>7 DEF ScanLocalAbs, Scanning
  <2>2. TablesOK'
    <3>1. CASE has
      <4>1. dynrel' \in [Rels -> DynRels]
        BY <1>0, <2>1, <3>1, DynRelType DEF DynRelOnPlace
      <4>2. reserved' \in [Symbols -> SUBSET {"Rel", "GOT", "PLT"}]
        BY <1>0, <1>4, <2>1, <3>1
      <4> QED BY <1>0, <1>2, <1>3, <2>1, <3>1, <4>1, <4>2
              DEF DynRelOnPlace, TablesOK, Rels, Writable
    <3>2. CASE ~has
      BY <1>1, <1>2, <1>3, <2>1, <3>2
    <3> QED BY <3>1, <3>2
  <2> QED BY <1>3, <2>1, <2>2, ScannedType
<1>8. ASSUME ScanGot PROVE TypeOK'
  <2>0. at \in Rels /\ Scanned({})
    BY <1>8 DEF ScanGot, Scanning
  <2>1. ASSUME NEW hasRel, GOT_init(SymOf(at), hasRel)
        PROVE  TablesOK'
    <3>1. got' \in [Symbols -> Values]
      BY <1>0, <2>1, ValueConstants DEF GOT_init
    <3>2. dynrel' \in [Rels -> DynRels]
      <4>1. [kind |-> "RELATIVE", addend |-> IF is64 THEN SymVal ELSE Zero] \in DynRels
        BY ValueConstants DEF DynRels
      <4> QED BY <1>0, <2>1, <4>1, DynRelType DEF GOT_init
    <3>3. reserved' \in [Symbols -> SUBSET {"Rel", "GOT", "PLT"}]
      BY <1>0, <1>4, <2>0, <2>1 DEF GOT_init
    <3> QED BY <1>0, <1>2, <1>3, <2>0, <2>1, <3>1, <3>2, <3>3 DEF GOT_init, TablesOK, Rels
  <2>2. TablesOK'
    <3>1. UNCHANGED tables \/ \E hasRel : GOT_init(SymOf(at), hasRel)
      BY <1>8 DEF ScanGot
    <3> QED BY <1>1, <1>2, <1>3, <2>0, <2>1, <3>1
  <2> QED BY <1>3, <2>0, <2>2, ScannedType
<1>9. ASSUME ScanGlobalAbs \/ ScanGlobalRel PROVE TypeOK'
  <2>1. \E entry \in SUBSET {"PLT"} : \E needs : \E k \in {"RELATIVE", "own"} :
          ReserveFor(SymOf(at), entry, needs, k) /\ Scanned(CheckValid) /\ at \in Rels
    <3>1. CASE ScanGlobalAbs
      <4> DEFINE entry == IF symbolNeedsPLT(out, sym[SymOf(at)]) THEN {"PLT"} ELSE {}
      <4>1. \E needs : \E k \in {"RELATIVE", "own"} : ReserveFor(SymOf(at), entry, needs, k)
        BY <3>1 DEF ScanGlobalAbs
      <4>2. Scanned(CheckValid) /\ at \in Rels
        BY <3>1 DEF ScanGlobalAbs, Scanning
      <4>3. entry \in SUBSET {"PLT"}
        OBVIOUS
      <4> HIDE DEF entry
      <4> QED BY <4>1, <4>2, <4>3
    <3>2. CASE ScanGlobalRel
      <4> DEFINE entry == IF is64 /\ symbolNeedsPLT(out, sym[SymOf(at)]) /\ out.codeGen # "DynObj"
                          THEN {"PLT"} ELSE {}
      <4>1. \E needs : ReserveFor(SymOf(at), entry, needs, "own")
        BY <3>2 DEF ScanGlobalRel
      <4>2. Scanned(CheckValid) /\ at \in Rels
        BY <3>2 DEF ScanGlobalRel, Scanning
      <4>3. entry \in SUBSET {"PLT"}
        OBVIOUS
      <4> HIDE DEF entry
      <4> QED BY <4>1, <4>2, <4>3
    <3> QED BY <1>9, <3>1, <3>2
  <2>2. TablesOK'
    BY <1>2, <1>3, <2>1, ReserveType
  <2> QED BY <1>3, <2>1, <2>2, ScannedType
<1>10. ASSUME ScanGlobalPage PROVE TypeOK'
  <2>1. /\ at \in Rels /\ Scanned({})
        /\ CopyReloc(SymOf(at)) \/ UNCHANGED <<sym, got, dynrel, textRel>>
        /\ \E bits \in SUBSET {"PLT"} : Reserve(SymOf(at), bits)
    BY <1>10 DEF ScanGlobalPage, Scanning
  <2>2. reserved' \in [Symbols -> SUBSET {"Rel", "GOT", "PLT"}]
    BY <1>0, <1>4, <2>1
  <2>3. sym' \in [Symbols -> SymbolInfos]
    BY <1>0, <2>1, CopyChanges
  <2>4. dynrel' \in [Rels -> DynRels] /\ UNCHANGED <<got, textRel>>
    <3>1. dynrel' = [dynrel EXCEPT ![at] = DynRel("COPY")] \/ UNCHANGED dynrel
      BY <2>1 DEF CopyReloc
    <3>2. UNCHANGED <<got, textRel>>
      BY <2>1 DEF CopyReloc
    <3> QED BY <1>0, <3>1, <3>2, DynRelType
  <2>5. TablesOK'
    BY <1>0, <1>2, <1>3, <2>1, <2>2, <2>3, <2>4 DEF TablesOK, Rels
  <2> QED BY <1>3, <2>1, <2>5, ScannedType
<1>11. ASSUME ScanGlobalBranch PROVE TypeOK'
  <2>1. /\ at \in Rels /\ Scanned({}) /\ UNCHANGED <<sym, got, dynrel, textRel>>
        /\ UNCHANGED reserved \/ Reserve(SymOf(at), {"PLT"})
    BY <1>11 DEF ScanGlobalBranch, Scanning
  <2>2. reserved' \in [Symbols -> SUBSET {"Rel", "GOT", "PLT"}]
    BY <1>0, <1>4, <2>1
  <2>3. TablesOK'
    BY <1>0, <1>2, <1>3, <2>1, <2>2 DEF TablesOK, Rels
  <2> QED BY <1>3, <2>1, <2>3, ScannedType
<1>12. ASSUME EndScan PROVE TypeOK'
  <2>1. at' \in 1..(Len(link'.rels) + 1)
    BY <1>0, <1>12, SMT DEF EndScan
  <2> QED BY <1>12, <2>1 DEF EndScan, TypeOK, tables, image, Rels
<1> QED BY <1>5, <1>6, <1>7, <1>8, <1>9, <1>10, <1>11, <1>12 DEF Scan

LEMMA RelaxStepType ==
  ASSUME TypeOK, Relax
  PROVE  TypeOK'
<1>0. Len(link.rels) \in Nat /\ Rels = 1..Len(link.rels)
  BY RelsType
<1>1. ASSUME at \in Rels, Relaxed, UNCHANGED phase, stub' \in [Rels -> {"none", "literal", "adrp"}]
      PROVE  TypeOK'
  <2>1. at' \in 1..(Len(link'.rels) + 1)
    BY <1>0, <1>1, SMT DEF Relaxed
  <2> QED BY <1>1, <2>1 DEF Relaxed, TypeOK, tables, image, Rels
<1>2. CASE KeepBranch
  BY <1>1, <1>2 DEF KeepBranch, Relaxing, TypeOK
<1>3. CASE Redirect
  <2>1. PICK k \in {"literal", "adrp"} : stub' = [stub EXCEPT ![at] = k]
    BY <1>3 DEF Redirect
  <2>2. stub' \in [Rels -> {"none", "literal", "adrp"}]
    BY <2>1 DEF TypeOK
  <2> QED BY <1>1, <1>3, <2>2 DEF Redirect, Relaxing
<1>4. CASE RedirectFails
  BY <1>4 DEF RedirectFails, TypeOK, tables, image, Rels
<1>5. CASE EndRelax
  <2>1. at' \in 1..(Len(link'.rels) + 1)
    BY <1>0, <1>5, SMT DEF EndRelax
  <2> QED BY <1>5, <2>1 DEF EndRelax, TypeOK, tables, image, Rels
<1> QED BY <1>2, <1>3, <1>4, <1>5 DEF Relax

LEMMA FixupsType == ASSUME NEW i PROVE Fixups(i) \in Seq(Values)
<1>1. ASSUME NEW u \in Values PROVE <<u>> \in Seq(Values)
  OBVIOUS
<1>2. ASSUME NEW u \in Values, NEW v \in Values PROVE <<u, v>> \in Seq(Values)
  OBVIOUS
<1> DEFINE t == Target(SymOf(i))
           s == symValue(SymOf(i))
           k == IF Skipped(SymOf(i)) THEN Zero ELSE t
<1>3. t \in Values /\ s \in Values /\ t -- The("P") \in Values /\ k \in Values
  BY TargetType, ValueConstants, ValueSum
<1>4. Fixups(i) = IF stub[i] = "adrp" THEN <<t -- The("P"), s>>
                  ELSE IF is64 \/ isCodeIndep(out) THEN <<t -- The("P")>> ELSE <<k>>
  BY DEF Fixups
<1> HIDE DEF t, s, k
<1>5. <<t -- The("P"), s>> \in Seq(Values)
  BY <1>2, <1>3
<1>6. <<t -- The("P")>> \in Seq(Values) /\ <<k>> \in Seq(Values)
  BY <1>1, <1>3
<1> QED BY <1>4, <1>5, <1>6

LEMMA ApplyStepType ==
  ASSUME TypeOK, Apply
  PROVE  TypeOK'
<1>0. /\ place \in [Rels -> Values] /\ got \in [Symbols -> Values]
      /\ dynrel \in [Rels -> DynRels] /\ instr \in [Rels -> Instructions]
      /\ errors \subseteq Diagnostics \X Rels
      /\ Len(link.rels) \in Nat /\ Rels = 1..Len(link.rels)
  BY RelsType DEF TypeOK, DynRels, Diagnostics, Instructions
<1>1. /\ {The("A"), The("GOT"), The("ORG"), The("P"), The("STUB")} \subseteq Values
      /\ \A u, v \in Values : u ++ v \in Values /\ u -- v \in Values
      /\ \A y : symValue(y) \in Values /\ Target(y) \in Values
  BY ValueConstants, ValueSum, TargetType
<1>2. \A v \in Values : Write(v) => place' \in [Rels -> Values]
  BY <1>0 DEF Write
<1>3. \A v \in Values : SetAddend(v) => dynrel' \in [Rels -> DynRels]
  <2>1. \A d \in DynRels, v \in Values : [d EXCEPT !.addend = v] \in DynRels
    BY DEF DynRels
  <2>2. ASSUME NEW v \in Values, SetAddend(v), NEW i \in Rels
        PROVE  dynrel'[i] \in DynRels
    <3>1. dynrel'[i] = IF i = at THEN [dynrel[i] EXCEPT !.addend = v] ELSE dynrel[i]
      BY <1>0, <2>2 DEF SetAddend
    <3>2. dynrel[i] \in DynRels
      BY <1>0
    <3> QED BY <2>1, <3>1, <3>2
  <2>3. ASSUME NEW v \in Values, SetAddend(v)
        PROVE  dynrel' = [i \in Rels |-> dynrel'[i]]
    BY <1>0, <2>3 DEF SetAddend
  <2> QED BY <2>2, <2>3
<1>4. ASSUME NEW d \in {"unsupported", "badreloc"}, Report(d), Applied, at \in Rels
      PROVE  TypeOK'
  <2>1. errors' \subseteq Diagnostics \X Rels
    BY <1>0, <1>4 DEF Report, Diagnostics
  <2> QED BY <1>0, <1>4, <2>1, AppliedType DEF Report
<1>5. ASSUME NEW v \in Values, Written(v), Applied, at \in Rels
      PROVE  TypeOK'
  BY <1>0, <1>2, <1>5, AppliedType DEF Written
<1>6. CASE ApplyDebug
  <2>1. \E v \in Values : Written(v) /\ Applied /\ at \in Rels
    BY <1>1, <1>6 DEF ApplyDebug, Applying
  <2> QED BY <1>5, <2>1
<1>7. CASE ApplyUnsupported
  BY <1>4, <1>7 DEF ApplyUnsupported, Applying
<1>8. CASE ApplyAbs32
  <2>1. \E v \in Values : Written(v) /\ Applied /\ at \in Rels
    BY <1>0, <1>1, <1>8 DEF ApplyAbs32, Applying
  <2> QED BY <1>5, <2>1
<1>9. CASE ApplyMov \/ ApplyRel \/ ApplyMovRel \/ ApplyLo12 \/ ApplyGotoff
  <2>1. \E v \in Values : Written(v) /\ Applied /\ at \in Rels
    BY <1>1, <1>9 DEF ApplyMov, ApplyRel, ApplyMovRel, ApplyLo12, ApplyGotoff, Applying
  <2> QED BY <1>5, <2>1
<1>10. CASE ApplyAbs64
  <2>1. place' \in [Rels -> Values] /\ dynrel' \in [Rels -> DynRels]
    BY <1>0, <1>1, <1>2, <1>3, <1>10 DEF ApplyAbs64
  <2> QED BY <1>0, <1>10, <2>1, AppliedType DEF ApplyAbs64, Applying
<1>11. CASE ApplyGot
  <2>1. CASE ~Has(SymOf(at), "GOT")
    BY <1>4, <1>11, <2>1 DEF ApplyGot, Applying
  <2>2. CASE Has(SymOf(at), "GOT")
    <3>1. got' \in [Symbols -> Values]
      BY <1>0, <1>1, <1>11, <2>2 DEF ApplyGot
    <3>2. dynrel' \in [Rels -> DynRels]
      BY <1>0, <1>1, <1>3, <1>11, <2>2 DEF ApplyGot
    <3>3. place' \in [Rels -> Values]
      BY <1>1, <1>2, <1>11, <2>2 DEF ApplyGot
    <3> QED BY <1>0, <1>11, <2>2, <3>1, <3>2, <3>3, AppliedType DEF ApplyGot, Applying
  <2> QED BY <2>1, <2>2
<1>12. CASE ApplyNop
  <2>1. instr' \in [Rels -> Instructions]
    BY <1>0, <1>12 DEF ApplyNop, Instructions
  <2> QED BY <1>0, <1>12, <2>1, AppliedType DEF ApplyNop, Applying
<1>13. CASE ApplyBranch
  <2>1. Applied /\ at \in Rels
    BY <1>13 DEF ApplyBranch, Applying
  <2>2. CASE Report("badreloc")
    BY <1>4, <2>1, <2>2
  <2>3. CASE /\ Write(BranchValue(at))
             /\ instr' = [instr EXCEPT ![at] = IF Switches(at) THEN "BLX" ELSE "BL"]
             /\ UNCHANGED <<got, dynrel, errors>>
    <3>1. BranchValue(at) \in Values
      BY <1>1 DEF BranchValue
    <3>2. instr' \in [Rels -> Instructions]
      BY <1>0, <2>3 DEF Instructions
    <3>3. place' \in [Rels -> Values]
      BY <1>2, <2>3, <3>1
    <3> QED BY <1>0, <2>1, <2>3, <3>2, <3>3, AppliedType
  <2> QED BY <1>13, <2>2, <2>3 DEF ApplyBranch
<1>14. CASE EndApply
  <2>1. at' \in 1..(Len(link'.rels) + 1)
    BY <1>0, <1>14, SMT DEF EndApply
  <2> QED BY <1>14, <2>1 DEF EndApply, TypeOK, tables, image, Rels
<1>15. CASE ApplyStub
  <2>1. veneer' \in [Rels -> Seq(Values)]
    <3>1. \A i : Fixups(i) \in Seq(Values)
      BY FixupsType
    <3>2. <<>> \in Seq(Values)
      OBVIOUS
    <3> DEFINE new == IF stub[at] = "none" THEN <<>> ELSE Fixups(at)
               S == Seq(Values)
    <3>3. new \in S
      BY <3>1, <3>2
    <3>4. veneer \in [Rels -> S] /\ veneer' = [veneer EXCEPT ![at] = new]
      BY <1>15 DEF ApplyStub, TypeOK
    <3> HIDE DEF new, S
    <3>5. veneer' \in [Rels -> S]
      BY <3>3, <3>4
    <3> QED BY <3>5 DEF S
  <2>2. at' \in 1..(Len(link'.rels) + 1)
    BY <1>0, <1>15, SMT DEF ApplyStub
  <2> QED BY <1>15, <2>1, <2>2 DEF ApplyStub, TypeOK, tables, Rels
<1>16. CASE EndStubs
  BY <1>16 DEF EndStubs, TypeOK, tables, image, Rels
<1> QED BY <1>6, <1>7, <1>8, <1>9, <1>10, <1>11, <1>12, <1>13, <1>14, <1>15, <1>16 DEF Apply

LEMMA NextType == TypeOK /\ [Next]_vars => TypeOK'
<1>1. ASSUME TypeOK, UNCHANGED vars PROVE TypeOK'
  BY <1>1 DEF TypeOK, vars, tables, image, Rels
<1> QED BY <1>1, ScanStepType, RelaxStepType, ApplyStepType DEF Next

(* Type correctness: every variable of the scan, of relaxation, of the     *)
(* apply and of the stubs keeps its type, for any links.                   *)
THEOREM TypeCorrect == Spec => []TypeOK
BY InitType, NextType, PTL DEF Spec

-----------------------------------------------------------------------------
(* What the phases have decided and written, for a symbol y with or without *)
(* an entry of the PLT, in a link of b bits with output o.  A decision is   *)
(* stated so that it outlives what later scans make of its symbol: a copy   *)
(* makes the symbol one of this output, and entries are only added.         *)

Value(y) == IF Undef(y) \/ y.dyn THEN Zero ELSE The("S")
TargetFor(y, plt) == IF plt THEN The("PLT") ELSE Value(y)
Base(o) == IF isCodeIndep(o) THEN The("Base") ELSE Zero
Finds(o, y) == IF Foreign(o, y) THEN The("Found") ELSE The("S") ++ Base(o)
Absent(o, y) == Undef(y) /\ ~y.dyn /\ isExecutable(o)

ReachedBy(o, y, plt) ==
  {Finds(o, y)} \cup (IF Absent(o, y) THEN {Zero} ELSE {}) \cup
  (IF plt /\ y.type # "Object" THEN {The("PLT") ++ Base(o)} ELSE {})

Performed(b, o, stored, r, y) ==
  CASE r.kind = "RELATIVE" -> (IF b = 64 THEN r.addend ELSE stored) ++ Base(o)
    [] r.kind = "own" -> (IF b = 64 THEN r.addend ELSE stored) ++ Finds(o, y)
    [] r.kind = "GLOB_DAT" -> Finds(o, y)
    [] OTHER -> stored

OriginFor(o, kind) ==
  CASE kind \in {"rel", "movrel", "page", "prel31"} -> The("P") ++ Base(o)
    [] kind = "gotoff" -> The("ORG") ++ Base(o)
    [] kind = "lo12" -> Base(o)
    [] OTHER -> Zero

AbsKinds == {"abs", "narrow", "mov"}

\* The value that the output has for the symbol, or its entry, is right.
Reachable(o, y, plt) == plt \/ ~Foreign(o, y) \/ Absent(o, y)

AbsDecision(o, kind, k, y, plt) ==
  \/ k = "none" /\ ~isCodeIndep(o) /\ Reachable(o, y, plt)
  \/ k = "COPY" /\ ~isCodeIndep(o) /\ ~Foreign(o, y)
  \/ k = "RELATIVE" /\ kind = "abs" /\ isCodeIndep(o) /\ ~Foreign(o, y)
  \/ k = "own" /\ y.bind # "Local"

RelDecision(b, o, k, y, plt) ==
  \/ k \in {"none", "COPY"} /\ (b = 64 \/ Reachable(o, y, plt))
  \/ k = "own" /\ b # 64

Decision(b, o, kind, k, y, plt) ==
  \/ kind \in AbsKinds /\ AbsDecision(o, kind, k, y, plt)
  \/ kind = "rel" /\ RelDecision(b, o, k, y, plt)
  \/ kind = "page" /\ k \in {"none", "COPY"}
  \/ kind \in {"movrel", "lo12", "gotoff"} /\ k = "none"
  \/ kind \in Branches \cup {"prel31"} /\ k = "none" /\ Reachable(o, y, plt)

\* What the apply of a place writes; rel says whether the symbol has a dynamic
\* relocation.
AbsWriting(b, o, stored, r, y, plt, rel) ==
  IF b # 64
  THEN stored = IF y.bind # "Local" /\ rel /\ Foreign(o, y)
                THEN The("A") ELSE TargetFor(y, plt) ++ The("A")
  ELSE IF r.kind \notin {"RELATIVE", "own"} THEN stored = TargetFor(y, plt) ++ The("A")
  ELSE r.addend = IF y.bind # "Local" /\ r.kind = "own"
                  THEN The("A") ELSE TargetFor(y, plt) ++ The("A")

Writing(b, o, kind, stored, r, y, plt, rel) ==
  \/ kind = "abs" /\ AbsWriting(b, o, stored, r, y, plt, rel)
  \/ kind = "narrow" /\ b = 64 /\ AbsWriting(b, o, stored, r, y, plt, rel)
  \/ kind = "mov" /\ b # 64 /\ stored = TargetFor(y, plt) ++ The("A")
  \/ kind \in {"rel", "page", "prel31"} /\ stored = (TargetFor(y, plt) ++ The("A")) -- The("P")
  \/ kind = "movrel" /\ stored = (Value(y) ++ The("A")) -- The("P")
  \/ kind = "lo12" /\ stored = Value(y) ++ The("A")
  \/ kind = "gotoff" /\ stored = (Value(y) ++ The("A")) -- The("ORG")

\* What resolution and the scan make of a symbol.
Sound(o, y, plt) ==
  /\ y.bind = "Local" => ~Undef(y) /\ ~y.dyn
  /\ isCodeStatic(o) => ~y.dyn
  /\ plt => y.type # "Object"

Suits(b, o, kind, y) ==
  /\ kind \notin (IF b = 64 THEN OnlyARM ELSE OnlyAArch64)
  /\ kind \in {"movrel", "gotoff"} => ~Foreign(o, y)
  /\ kind \in Branches \cup {"prel31"} => y.type # "Object"

-----------------------------------------------------------------------------
(* The invariant of the phases.                                            *)

IsScanned(i) == phase # "scan" \/ i < at
IsRelaxed(i) == phase \in {"apply", "stubs", "done"} \/ (phase = "relax" /\ i < at)
IsApplied(i) == phase \in {"stubs", "done"} \/ (phase = "apply" /\ i < at)
IsStubbed(i) == phase = "done" \/ (phase = "stubs" /\ i < at)

LinkInv == link \in Links /\ Ordinary(link)

SymbolsInv ==
  \A y \in Symbols :
    /\ Sound(out, sym[y], Has(y, "PLT"))
    /\ sym[y].type = link.syms[y].type
    /\ sym[y] = link.syms[y] \/ (link.syms[y].dyn /\ sym[y].bind # "Local")

\* What the scan of i has decided fits the symbol as it is.
Decided(i) ==
  Decision(link.bits, out, Kind(i), dynrel[i].kind, sym[SymOf(i)], Has(SymOf(i), "PLT"))

\* A word of ARM with a dynamic relocation of its own for its symbol is left
\* alone by the apply.
LeftAlone(i) ==
  ~is64 /\ Kind(i) = "abs" /\ dynrel[i].kind = "own" =>
    Has(SymOf(i), "Rel") /\ Foreign(out, seen[i].sym)

\* Places outside the GOT: a scan that errs may have decided anything but for
\* a branch.
ScanInv ==
  \A i \in Rels :
    /\ ~IsScanned(i) => dynrel[i] = DynRel("none")
    /\ IsScanned(i) /\ Alloc(i) /\ Kind(i) \notin Got =>
         /\ errors = {} \/ Kind(i) \in Branches => Decided(i)
         /\ LeftAlone(i)

\* What the apply of i has written fits the symbol as it is.
Wrote(i) ==
  Writing(link.bits, out, Kind(i), place[i], dynrel[i], sym[SymOf(i)],
          Has(SymOf(i), "PLT"), Has(SymOf(i), "Rel"))

ApplyInv ==
  \A i \in Rels :
    /\ ~IsApplied(i) => place[i] = Unrelocated
    /\ IsApplied(i) /\ errors = {} /\ Alloc(i) /\ Kind(i) \notin Got \cup Branches => Wrote(i)

\* A branch that was left without a stub needs none to change the state.
RelaxInv ==
  \A i \in Rels :
    IsRelaxed(i) /\ Kind(i) \in Relaxable /\ stub[i] = "none" => ~ChangesState(i)

CannotSwitch(i) == Kind(i) \in {"jump", "thm_jump", "thm_cond"} /\ Switches(i)
FallsThrough(i) == Kind(i) # "thm_cond" /\ stub[i] = "none" /\ Nowhere(SymOf(i))

BranchDone(i) ==
  \/ FallsThrough(i) /\ ~Refused(i) /\ instr[i] = "NOP"
  \/ ~FallsThrough(i) /\ CannotSwitch(i) /\ Refused(i)
  \/ /\ ~FallsThrough(i) /\ ~CannotSwitch(i) /\ ~Refused(i)
     /\ place[i] = BranchValue(i)
     /\ instr[i] = IF Switches(i) THEN "BLX" ELSE "BL"

BranchInv ==
  \A i \in Rels : Kind(i) \in Branches =>
    /\ ~IsApplied(i) => ~Refused(i)
    /\ IsApplied(i) => BranchDone(i)
    /\ IsStubbed(i) => veneer[i] = IF stub[i] = "none" THEN <<>> ELSE Fixups(i)

\* The GOT relocations that are scanned have their entries, which the first of
\* them made.
GotInv ==
  \A i \in Rels : IsScanned(i) /\ Kind(i) \in Got /\ Alloc(i) => Has(SymOf(i), "GOT")

IsCreator(i, y) == IsGot(i, y) /\ \A j \in 1..(i - 1) : ~IsGot(j, y)

\* v is what the scan left open, until i is applied, or the symbol.
Filled(v, i, y) == v = symValue(y) \/ (v = SymVal /\ ~IsApplied(i))

EntryHolds(i, y) ==
  \/ dynrel[i].kind = "GLOB_DAT"
  \/ /\ dynrel[i].kind = "RELATIVE"
     /\ isCodeIndep(out) /\ ~Foreign(out, sym[y])
     /\ Filled(IF is64 THEN dynrel[i].addend ELSE got[y], i, y)
  \/ /\ dynrel[i].kind = "none"
     /\ ~sym[y].dyn
     /\ \/ ~isCodeIndep(out) /\ ~Foreign(out, sym[y])
        \/ Undef(sym[y]) /\ isExecutable(out)
     /\ Filled(got[y], i, y)

EntryInv ==
  \A y \in Symbols : Has(y, "GOT") =>
    \E i \in Rels : IsScanned(i) /\ IsCreator(i, y) /\ EntryHolds(i, y)

-----------------------------------------------------------------------------
(* What is decided and what is written add up, for any symbol.             *)

LEMMA SumLaws ==
  /\ \A u \in Values : u ++ Zero = u /\ u -- Zero = u
  /\ \A u, v \in Values : u ++ v = v ++ u
  /\ \A u, v, w \in Values : (u ++ v) ++ w = (u ++ w) ++ v
  /\ \A u, v, w, x \in Values : (u ++ v) -- w = ((u ++ x) ++ v) -- (w ++ x)
  /\ \A u, v, x \in Values : ((u ++ x) ++ v) -- x = u ++ v
  /\ \A u, v \in Values : (u -- v) ++ v = u
  /\ \A u, v, w \in Values : (((u ++ v) -- w) ++ w) -- v = u
<1>1. ASSUME NEW u \in Values, NEW v \in Values
      PROVE  u ++ Zero = u /\ u -- Zero = u /\ u ++ v = v ++ u /\ (u -- v) ++ v = u
  BY DEF Values, ++, --, Zero
<1>2. ASSUME NEW u \in Values, NEW v \in Values, NEW w \in Values
      PROVE  (u ++ v) ++ w = (u ++ w) ++ v
  BY DEF Values, ++
<1>3. ASSUME NEW u \in Values, NEW v \in Values, NEW w \in Values
      PROVE  ((u ++ w) ++ v) -- w = u ++ v
  BY DEF Values, ++, --
<1>4. ASSUME NEW u \in Values, NEW v \in Values, NEW w \in Values
      PROVE  (((u ++ v) -- w) ++ w) -- v = u
  BY DEF Values, ++, --
<1>5. ASSUME NEW u \in Values, NEW v \in Values, NEW w \in Values, NEW x \in Values
      PROVE  (u ++ v) -- w = ((u ++ x) ++ v) -- (w ++ x)
  BY DEF Values, ++, --
<1> QED BY <1>1, <1>2, <1>3, <1>4, <1>5

LEMMA TermValues ==
  /\ Zero \in Values
  /\ {The("A"), The("S"), The("PLT"), The("GOT"), The("ORG"), The("STUB"), The("P"),
      The("Base"), The("Found")} \subseteq Values
  /\ \A o : Base(o) \in Values
  /\ \A y : Value(y) \in Values
  /\ \A y, plt : TargetFor(y, plt) \in Values
  /\ \A o, y : Finds(o, y) \in Values
<1>1. /\ Zero \in Values
      /\ {The("A"), The("S"), The("PLT"), The("GOT"), The("ORG"), The("STUB"), The("P"),
          The("Base"), The("Found")} \subseteq Values
  BY ValueConstants
<1>2. /\ \A o : Base(o) \in Values
      /\ \A y : Value(y) \in Values
      /\ \A y, plt : TargetFor(y, plt) \in Values
  BY <1>1 DEF Base, Value, TargetFor
<1>3. \A o, y : Finds(o, y) \in Values
  <2>1. \A o : The("S") ++ Base(o) \in Values
    BY <1>1, <1>2, ValueSum
  <2> QED BY <1>1, <2>1 DEF Finds
<1> QED BY <1>1, <1>2, <1>3

\* How a symbol may change after one of its relocations was scanned.
Grows(o, y, plt, z, entry) ==
  /\ plt => entry
  /\ z = y \/ (y.dyn /\ ~z.dyn /\ z.desc = "Define" /\ z.bind # "Local" /\ ~isCodeIndep(o))

LEMMA ReachableStays ==
  ASSUME NEW o, NEW y, NEW plt, NEW z, NEW entry, Grows(o, y, plt, z, entry)
  PROVE  /\ Reachable(o, y, plt) => Reachable(o, z, entry)
         /\ ~Foreign(o, y) => ~Foreign(o, z)
         /\ y.bind # "Local" => z.bind # "Local"
<1>1. z # y => ~Foreign(o, z)
  <2>1. ~isCodeIndep(o) => o.codeGen # "DynObj"
    BY DEF isCodeIndep, CodePosition
  <2> QED BY <2>1 DEF Grows, Foreign, Undef, isSymbolPreemptible
<1> QED BY <1>1 DEF Grows, Reachable

LEMMA DecisionStays ==
  ASSUME NEW b, NEW o, NEW kind, NEW k, NEW y, NEW plt, NEW z, NEW entry,
         Grows(o, y, plt, z, entry), Decision(b, o, kind, k, y, plt)
  PROVE  Decision(b, o, kind, k, z, entry)
<1>1. /\ Reachable(o, y, plt) => Reachable(o, z, entry)
      /\ ~Foreign(o, y) => ~Foreign(o, z)
      /\ y.bind # "Local" => z.bind # "Local"
  BY ReachableStays
<1>2. AbsDecision(o, kind, k, y, plt) => AbsDecision(o, kind, k, z, entry)
  BY <1>1 DEF AbsDecision
<1>3. RelDecision(b, o, k, y, plt) => RelDecision(b, o, k, z, entry)
  BY <1>1 DEF RelDecision
<1> QED BY <1>1, <1>2, <1>3 DEF Decision

LEMMA TargetReached ==
  ASSUME NEW o \in Outputs, NEW y, NEW plt \in BOOLEAN, Sound(o, y, plt), Reachable(o, y, plt)
  PROVE  TargetFor(y, plt) ++ Base(o) \in ReachedBy(o, y, plt)
<1>1. CASE plt
  BY <1>1 DEF Sound, TargetFor, ReachedBy
<1>2. CASE ~plt /\ ~Foreign(o, y)
  BY <1>2 DEF TargetFor, Value, Foreign, Finds, ReachedBy
<1>3. CASE ~plt /\ Absent(o, y)
  <2>1. ~isCodeIndep(o)
    BY <1>3 DEF Absent, isExecutable, isCodeIndep, CodePosition, Outputs
  <2>2. TargetFor(y, plt) ++ Base(o) = Zero ++ Zero
    BY <1>3, <2>1 DEF TargetFor, Value, Absent, Base
  <2>3. Zero ++ Zero = Zero
    BY SumLaws, TermValues
  <2> QED BY <1>3, <2>2, <2>3 DEF ReachedBy
<1> QED BY <1>1, <1>2, <1>3 DEF Reachable

\* What Misplaced leaves.
Accepted(b, o, kind, k, y, plt, rel) ==
  /\ b # 64 /\ kind # "abs" => k # "own"
  /\ b # 64 /\ kind = "abs" /\ k = "none" => ~(y.bind # "Local" /\ rel /\ Foreign(o, y))
  /\ b # 64 /\ kind = "abs" /\ k = "own" => rel /\ Foreign(o, y)
  /\ b = 64 /\ kind \in {"rel", "page", "lo12"} => Reachable(o, y, plt)
  /\ kind = "lo12" => ~plt

LEMMA AbsoluteHolds ==
  ASSUME NEW b \in {32, 64}, NEW o \in Outputs, NEW kind \in AbsKinds, NEW stored \in Values,
         NEW r \in DynRels, NEW y, NEW plt \in BOOLEAN, NEW rel \in BOOLEAN,
         Sound(o, y, plt), Accepted(b, o, kind, r.kind, y, plt, rel),
         Decision(b, o, kind, r.kind, y, plt), Writing(b, o, kind, stored, r, y, plt, rel)
  PROVE  \E a \in ReachedBy(o, y, plt) :
           Performed(b, o, stored, r, y) = (a ++ The("A")) -- OriginFor(o, kind)
<1> DEFINE T == TargetFor(y, plt)
           A == The("A")
           B == Base(o)
           F == Finds(o, y)
<1>0. T \in Values /\ A \in Values /\ B \in Values /\ F \in Values /\ Zero \in Values
  BY TermValues
<1>1. OriginFor(o, kind) = Zero /\ kind \in {"abs", "narrow", "mov"}
  BY DEF OriginFor, AbsKinds
<1>2. \A a \in Values : (a ++ A) -- Zero = a ++ A
  BY <1>0, ValueSum, SumLaws
<1>3. SUFFICES \E a \in ReachedBy(o, y, plt) :
                 a \in Values /\ Performed(b, o, stored, r, y) = a ++ A
  BY <1>1, <1>2
<1>4. F \in ReachedBy(o, y, plt)
  BY DEF ReachedBy
<1>5. AbsDecision(o, kind, r.kind, y, plt)
  BY <1>1 DEF Decision, Branches, Relaxable
<1>6. \/ kind \in {"abs", "narrow"} /\ AbsWriting(b, o, stored, r, y, plt, rel)
      \/ kind = "mov" /\ b # 64 /\ stored = T ++ A
  BY <1>1 DEF Writing
<1>7. /\ (T ++ A) ++ B = (T ++ B) ++ A /\ T ++ B \in Values
      /\ A ++ F = F ++ A
  BY <1>0, SumLaws, ValueSum
<1>8. Reachable(o, y, plt) => T ++ B \in ReachedBy(o, y, plt)
  BY TargetReached
<1>9. CASE r.kind \in {"none", "COPY"}
  <2>1. ~isCodeIndep(o) /\ Reachable(o, y, plt) /\ (r.kind = "COPY" => ~Foreign(o, y))
    BY <1>5, <1>9 DEF AbsDecision, Reachable
  <2>2. stored = T ++ A
    <3>1. CASE kind = "mov"
      BY <1>6, <3>1
    <3>2. CASE b = 64 /\ kind # "mov"
      BY <1>6, <1>9, <3>2 DEF AbsWriting
    <3>3. CASE b # 64 /\ kind # "mov"
      <4>1. AbsWriting(b, o, stored, r, y, plt, rel) /\ kind = "abs"
        BY <1>1, <1>6, <3>3 DEF Writing
      <4>2. ~(y.bind # "Local" /\ rel /\ Foreign(o, y))
        BY <1>9, <2>1, <3>3, <4>1 DEF Accepted
      <4> QED BY <3>3, <4>1, <4>2 DEF AbsWriting
    <3> QED BY <3>1, <3>2, <3>3
  <2>3. B = Zero
    BY <2>1 DEF Base
  <2>4. Performed(b, o, stored, r, y) = stored
    BY <1>9 DEF Performed
  <2>5. T ++ B = T
    BY <1>0, <2>3, SumLaws
  <2> HIDE DEF T, A, B, F
  <2> QED BY <1>0, <1>8, <2>1, <2>2, <2>4, <2>5
<1>10. CASE r.kind = "RELATIVE"
  <2>1. kind = "abs" /\ ~Foreign(o, y)
    BY <1>5, <1>10 DEF AbsDecision
  <2>2. IF b = 64 THEN r.addend = T ++ A ELSE stored = T ++ A
    BY <1>6, <1>10, <2>1 DEF AbsWriting
  <2>3. Performed(b, o, stored, r, y) = (T ++ A) ++ B
    BY <1>10, <2>2 DEF Performed
  <2>4. Reachable(o, y, plt)
    BY <2>1 DEF Reachable
  <2> HIDE DEF T, A, B, F
  <2> QED BY <1>0, <1>7, <1>8, <2>3, <2>4
<1>11. CASE r.kind = "own"
  <2>1. y.bind # "Local" /\ (b # 64 => kind = "abs" /\ rel /\ Foreign(o, y))
    BY <1>5, <1>11 DEF AbsDecision, Accepted
  <2>2. (IF b = 64 THEN r.addend ELSE stored) = A
    BY <1>6, <1>11, <2>1 DEF AbsWriting
  <2>3. Performed(b, o, stored, r, y) = A ++ F
    BY <1>11, <2>2 DEF Performed
  <2> HIDE DEF T, A, B, F
  <2> QED BY <1>0, <1>4, <1>7, <2>3
<1> QED BY <1>5, <1>9, <1>10, <1>11 DEF AbsDecision

PlainKinds == {"rel", "movrel", "page", "lo12", "gotoff", "prel31"}

LEMMA OthersHold ==
  ASSUME NEW b \in {32, 64}, NEW o \in Outputs, NEW kind \in PlainKinds, NEW stored \in Values,
         NEW r \in DynRels, NEW y, NEW plt \in BOOLEAN, NEW rel \in BOOLEAN,
         Sound(o, y, plt), Suits(b, o, kind, y), Accepted(b, o, kind, r.kind, y, plt, rel),
         Decision(b, o, kind, r.kind, y, plt), Writing(b, o, kind, stored, r, y, plt, rel)
  PROVE  \E a \in ReachedBy(o, y, plt) :
           Performed(b, o, stored, r, y) = (a ++ The("A")) -- OriginFor(o, kind)
<1> DEFINE T == TargetFor(y, plt)
           V == Value(y)
           A == The("A")
           B == Base(o)
           P == IF kind = "gotoff" THEN The("ORG") ELSE The("P")
<1>0. T \in Values /\ V \in Values /\ A \in Values /\ B \in Values /\ P \in Values
  BY TermValues
<1>1. kind \in PlainKinds /\ kind \notin AbsKinds /\ kind \notin Branches /\ kind # "abs"
  BY DEF AbsKinds, Branches, Relaxable, PlainKinds
<1>2. r.kind \in {"none", "COPY"}
  BY <1>1 DEF Decision, RelDecision, Accepted
<1>3. Performed(b, o, stored, r, y) = stored
  BY <1>2 DEF Performed
<1>4. kind \in {"rel", "page", "prel31"} => Reachable(o, y, plt)
  <2>1. CASE kind = "rel"
    BY <1>1, <1>2, <2>1 DEF Decision, RelDecision, Accepted
  <2>2. CASE kind = "page"
    <3>1. b = 64
      BY <2>2 DEF Suits, OnlyAArch64
    <3> QED BY <2>2, <3>1 DEF Accepted
  <2>3. CASE kind = "prel31"
    BY <1>1, <2>3 DEF Decision
  <2> QED BY <2>1, <2>2, <2>3
<1>5. \A u \in Values : (u ++ A) -- P = ((u ++ B) ++ A) -- (P ++ B)
  BY <1>0, SumLaws
<1>6. ~Foreign(o, y) => V ++ B \in ReachedBy(o, y, plt)
  BY DEF Value, Foreign, Finds, ReachedBy
<1>7. CASE kind \in {"rel", "page", "prel31"}
  <2>1. stored = (T ++ A) -- P
    BY <1>1, <1>7 DEF Writing, AbsKinds
  <2>2. OriginFor(o, kind) = P ++ B
    BY <1>7 DEF OriginFor
  <2>3. T ++ B \in ReachedBy(o, y, plt)
    BY <1>4, <1>7, TargetReached
  <2> HIDE DEF T, V, A, B, P
  <2>4. (T ++ A) -- P = ((T ++ B) ++ A) -- (P ++ B)
    BY <1>0, <1>5
  <2> QED BY <1>3, <2>1, <2>2, <2>3, <2>4 DEF A
<1>8. CASE kind \in {"movrel", "gotoff"}
  <2>1. stored = (V ++ A) -- P
    BY <1>1, <1>8 DEF Writing, AbsKinds
  <2>2. OriginFor(o, kind) = P ++ B
    BY <1>8 DEF OriginFor
  <2>3. V ++ B \in ReachedBy(o, y, plt)
    BY <1>6, <1>8 DEF Suits
  <2> HIDE DEF T, V, A, B, P
  <2>4. (V ++ A) -- P = ((V ++ B) ++ A) -- (P ++ B)
    BY <1>0, <1>5
  <2> QED BY <1>3, <2>1, <2>2, <2>3, <2>4 DEF A
<1>9. CASE kind = "lo12"
  <2>1. stored = V ++ A
    BY <1>1, <1>9 DEF Writing, AbsKinds
  <2>2. OriginFor(o, kind) = B
    BY <1>9 DEF OriginFor
  <2>3. b = 64
    BY <1>9 DEF Suits, OnlyAArch64
  <2>4. ~plt /\ Reachable(o, y, plt)
    BY <1>9, <2>3 DEF Accepted
  <2>5. V ++ B \in ReachedBy(o, y, plt)
    <3>1. V = T
      BY <2>4 DEF TargetFor
    <3> HIDE DEF V, T, B
    <3>2. T ++ B \in ReachedBy(o, y, plt)
      BY <2>4, TargetReached DEF T, B
    <3> QED BY <3>1, <3>2
  <2>6. ((V ++ B) ++ A) -- B = V ++ A
    BY <1>0, SumLaws
  <2> HIDE DEF T, V, A, B, P
  <2> QED BY <1>3, <2>1, <2>2, <2>5, <2>6 DEF A
<1> QED BY <1>1, <1>7, <1>8, <1>9 DEF PlainKinds

-----------------------------------------------------------------------------
(* What each phase leaves alone, and where it goes on.                     *)

LEMMA ScanFrame ==
  ASSUME TypeOK, Scan
  PROVE  /\ phase = "scan" /\ UNCHANGED <<link, stub, image>>
         /\ errors \subseteq errors' /\ \A i : <<"badreloc", i>> \in errors' => Refused(i)
         /\ \A i \in Rels : i # at => dynrel'[i] = dynrel[i] /\ seen'[i] = seen[i]
         /\ \/ /\ at \notin Rels /\ phase' = "relax" /\ at' = 1
               /\ UNCHANGED <<tables, errors, seen>>
            \/ /\ at \in Rels /\ phase' = "scan" /\ at' = at + 1
               /\ Alloc(at) =>
                    seen'[at] = [plt |-> "PLT" \in reserved'[SymOf(at)], sym |-> sym'[SymOf(at)]]
<1> DEFINE Same == \A i \in Rels : i # at => dynrel'[i] = dynrel[i]
<1>0. dynrel \in [Rels -> DynRels] /\ DOMAIN seen = Rels
  BY DEF TypeOK, DynRels
<1>1. ASSUME NEW r \in SUBSET {"nonpic"}, Scanned(r), at \in Rels
      PROVE  /\ UNCHANGED <<link, stub, image, phase>> /\ at' = at + 1
             /\ errors \subseteq errors' /\ \A i : <<"badreloc", i>> \in errors' => Refused(i)
             /\ \A i \in Rels : i # at => seen'[i] = seen[i]
             /\ seen'[at] = [plt |-> "PLT" \in reserved'[SymOf(at)], sym |-> sym'[SymOf(at)]]
  <2>1. UNCHANGED <<link, stub, image, phase>> /\ at' = at + 1
    BY <1>1 DEF Scanned
  <2>2. seen' = [seen EXCEPT ![at] = [plt |-> "PLT" \in reserved'[SymOf(at)],
                                      sym |-> sym'[SymOf(at)]]]
    BY <1>1 DEF Scanned
  <2>3. \E u \in SUBSET {"undefined"} : errors' = errors \cup {<<d, at>> : d \in r \cup u}
    BY <1>1 DEF Scanned
  <2>4. errors \subseteq errors' /\ \A i : <<"badreloc", i>> \in errors' => Refused(i)
    BY <2>3 DEF Refused
  <2> QED BY <1>0, <1>1, <2>1, <2>2, <2>4
<1>2. UNCHANGED tables => Same
  BY DEF tables
<1>3. \A k : DynRelOnPlace(k) => Same
  BY <1>0 DEF DynRelOnPlace
<1>4. \A y, h : GOT_init(y, h) => Same
  BY <1>0 DEF GOT_init
<1>5. \A y : CopyReloc(y) => Same
  BY <1>0 DEF CopyReloc
<1>6. \A y, e, n, k : ReserveFor(y, e, n, k) => Same
  BY <1>3, <1>5 DEF ReserveFor
<1> HIDE DEF Same
<1>7. CASE ScanDebug
  <2>1. /\ phase = "scan" /\ UNCHANGED <<link, stub, image, phase, errors, seen>>
        /\ at \in Rels /\ at' = at + 1 /\ ~Alloc(at) /\ Same
    BY <1>2, <1>7 DEF ScanDebug
  <2> QED BY <2>1 DEF Same, Refused
<1>8. CASE EndScan
  <2>1. /\ phase = "scan" /\ UNCHANGED <<link, stub, image, tables, errors, seen>>
        /\ at \notin Rels /\ at' = 1 /\ phase' = "relax" /\ Same
    BY <1>2, <1>8 DEF EndScan
  <2> QED BY <2>1 DEF Same, Refused
<1>9. CASE ScanNothing \/ ScanLocalAbs \/ ScanGot \/ ScanGlobalAbs \/ ScanGlobalRel
           \/ ScanGlobalPage \/ ScanGlobalBranch
  <2>1. at \in Rels /\ phase = "scan"
    BY <1>9 DEF ScanNothing, ScanLocalAbs, ScanGot, ScanGlobalAbs, ScanGlobalRel,
       ScanGlobalPage, ScanGlobalBranch, Scanning
  <2>2. \E r \in SUBSET {"nonpic"} : Scanned(r)
    <3>1. CheckValid \in SUBSET {"nonpic"}
      BY DEF CheckValid
    <3> QED BY <1>9, <3>1 DEF ScanNothing, ScanLocalAbs, ScanGot, ScanGlobalAbs, ScanGlobalRel,
            ScanGlobalPage, ScanGlobalBranch
  <2>3. Same
    <3>1. CASE ScanNothing \/ ScanLocalAbs \/ ScanGot
      BY <1>2, <1>3, <1>4, <3>1 DEF ScanNothing, ScanLocalAbs, ScanGot
    <3>2. CASE ScanGlobalPage \/ ScanGlobalBranch
      <4>1. UNCHANGED dynrel => Same
        BY DEF Same
      <4> QED BY <1>5, <3>2, <4>1 DEF ScanGlobalPage, ScanGlobalBranch
    <3>3. CASE ScanGlobalAbs \/ ScanGlobalRel
      BY <1>6, <3>3 DEF ScanGlobalAbs, ScanGlobalRel
    <3> QED BY <1>9, <3>1, <3>2, <3>3
  <2> QED BY <1>1, <2>1, <2>2, <2>3 DEF Same
<1> QED BY <1>7, <1>8, <1>9 DEF Scan

LEMMA RelaxFrame ==
  ASSUME TypeOK, Relax
  PROVE  /\ phase = "relax" /\ UNCHANGED <<tables, link, image, errors, seen>>
         /\ \A i \in Rels : i # at => stub'[i] = stub[i]
         /\ \/ at \notin Rels /\ phase' = "apply" /\ at' = 1
            \/ /\ at \in Rels /\ phase' = "relax" /\ at' = at + 1
               /\ Kind(at) \in Relaxable /\ stub'[at] = "none" => ~ChangesState(at)
            \/ at \in Rels /\ phase' = "fatal" /\ at' = at
<1>0. stub \in [Rels -> {"none", "literal", "adrp"}]
  BY DEF TypeOK
<1>1. CASE KeepBranch
  BY <1>1 DEF KeepBranch, Relaxing, Relaxed
<1>2. CASE Redirect
  <2>1. PICK k \in {"literal", "adrp"} : stub' = [stub EXCEPT ![at] = k]
    BY <1>2 DEF Redirect
  <2>2. at \in Rels => stub'[at] # "none"
    BY <1>0, <2>1
  <2>3. \A i \in Rels : i # at => stub'[i] = stub[i]
    BY <1>0, <2>1
  <2> QED BY <1>2, <2>2, <2>3 DEF Redirect, Relaxing, Relaxed
<1>3. CASE RedirectFails
  BY <1>3 DEF RedirectFails, Relaxing
<1>4. CASE EndRelax
  BY <1>4 DEF EndRelax
<1> QED BY <1>1, <1>2, <1>3, <1>4 DEF Relax

Filling == ApplyDebug \/ ApplyUnsupported \/ ApplyAbs32 \/ ApplyMov \/ ApplyAbs64
           \/ ApplyRel \/ ApplyMovRel \/ ApplyLo12 \/ ApplyGotoff \/ ApplyGot
           \/ ApplyNop \/ ApplyBranch

LEMMA FillingFrame ==
  ASSUME TypeOK, Filling
  PROVE  /\ phase = "apply" /\ at \in Rels /\ Applied
         /\ errors \subseteq errors'
         /\ \A i \in Rels : i # at =>
              /\ dynrel'[i] = dynrel[i] /\ place'[i] = place[i] /\ instr'[i] = instr[i]
              /\ <<"badreloc", i>> \in errors' => Refused(i)
         /\ \A i \in Rels : dynrel'[i].kind = dynrel[i].kind
<1> USE DEF Filling
<1>0. /\ dynrel \in [Rels -> DynRels] /\ place \in [Rels -> Values]
      /\ instr \in [Rels -> Instructions]
  BY DEF TypeOK, DynRels, Instructions
<1>1. Applied /\ phase = "apply" /\ at \in Rels
  BY DEF ApplyDebug, ApplyUnsupported, ApplyAbs32, ApplyMov, ApplyAbs64, ApplyRel, ApplyMovRel,
     ApplyLo12, ApplyGotoff, ApplyGot, ApplyNop, ApplyBranch, Applying
<1>2. errors' = errors \/ \E d : Report(d)
  BY DEF ApplyDebug, ApplyUnsupported, ApplyAbs32, ApplyMov, ApplyAbs64, ApplyRel, ApplyMovRel,
     ApplyLo12, ApplyGotoff, ApplyGot, ApplyNop, ApplyBranch, Written
<1>3. place' = place \/ \E v : Write(v)
  BY DEF ApplyDebug, ApplyUnsupported, ApplyAbs32, ApplyMov, ApplyAbs64, ApplyRel, ApplyMovRel,
     ApplyLo12, ApplyGotoff, ApplyGot, ApplyNop, ApplyBranch, Written, Report
<1>4. dynrel' = dynrel \/ \E v : SetAddend(v)
  BY DEF ApplyDebug, ApplyUnsupported, ApplyAbs32, ApplyMov, ApplyAbs64, ApplyRel, ApplyMovRel,
     ApplyLo12, ApplyGotoff, ApplyGot, ApplyNop, ApplyBranch, Written, Report
<1>5. instr' = instr \/ \E op : instr' = [instr EXCEPT ![at] = op]
  BY DEF ApplyDebug, ApplyUnsupported, ApplyAbs32, ApplyMov, ApplyAbs64, ApplyRel, ApplyMovRel,
     ApplyLo12, ApplyGotoff, ApplyGot, ApplyNop, ApplyBranch, Written, Report
<1>6. \A i \in Rels : i # at => place'[i] = place[i]
  BY <1>0, <1>3 DEF Write
<1>7. \A i \in Rels : i # at => dynrel'[i] = dynrel[i]
  BY <1>0, <1>4 DEF SetAddend
<1>8. \A i \in Rels : i # at => instr'[i] = instr[i]
  BY <1>0, <1>5
<1>9. errors \subseteq errors' /\ \A i : i # at /\ <<"badreloc", i>> \in errors' => Refused(i)
  BY <1>2 DEF Report, Refused
<1>10. \A i \in Rels : dynrel'[i].kind = dynrel[i].kind
  <2>1. ASSUME NEW v, SetAddend(v) PROVE \A i \in Rels : dynrel'[i].kind = dynrel[i].kind
    BY <1>0, <2>1 DEF SetAddend, DynRels
  <2> QED BY <1>4, <2>1
<1> QED BY <1>1, <1>6, <1>7, <1>8, <1>9, <1>10

LEMMA ApplyFrame ==
  ASSUME TypeOK, Apply
  PROVE  /\ UNCHANGED <<link, sym, reserved, stub, seen>>
         /\ errors \subseteq errors'
         /\ \A i \in Rels : i # at =>
              /\ dynrel'[i] = dynrel[i] /\ place'[i] = place[i] /\ instr'[i] = instr[i]
              /\ veneer'[i] = veneer[i]
              /\ <<"badreloc", i>> \in errors' => Refused(i)
         /\ \A i \in Rels : dynrel'[i].kind = dynrel[i].kind
         /\ \/ /\ at \in Rels /\ phase = "apply" /\ phase' = "apply" /\ at' = at + 1
               /\ Filling /\ veneer' = veneer
            \/ /\ UNCHANGED <<place, instr, got, dynrel, errors>>
               /\ \/ /\ at \notin Rels /\ phase = "apply" /\ phase' = "stubs" /\ at' = 1
                     /\ veneer' = veneer
                  \/ /\ at \in Rels /\ phase = "stubs" /\ phase' = "stubs" /\ at' = at + 1
                     /\ veneer'[at] = IF stub[at] = "none" THEN <<>> ELSE Fixups(at)
                  \/ /\ at \notin Rels /\ phase = "stubs" /\ phase' = "done" /\ at' = at
                     /\ veneer' = veneer
<1>1. CASE Filling
  BY <1>1, FillingFrame DEF Applied
<1>2. CASE EndApply
  BY <1>2 DEF EndApply, tables, image, Refused
<1>3. CASE EndStubs
  BY <1>3 DEF EndStubs, tables, image, Refused
<1>4. CASE ApplyStub
  <2>1. DOMAIN veneer = Rels
    BY DEF TypeOK
  <2> DEFINE new == IF stub[at] = "none" THEN <<>> ELSE Fixups(at)
  <2>2. /\ veneer' = [veneer EXCEPT ![at] = new] /\ at \in Rels
    BY <1>4 DEF ApplyStub
  <2> HIDE DEF new
  <2>3. veneer'[at] = new /\ \A i \in Rels : i # at => veneer'[i] = veneer[i]
    BY <2>1, <2>2
  <2> QED BY <1>4, <2>3 DEF ApplyStub, tables, Refused, new
<1> QED BY <1>1, <1>2, <1>3, <1>4 DEF Apply, Filling

\* What is done of relocation i.
LEMMA Progress ==
  ASSUME TypeOK, Next, NEW i \in Rels
  PROVE  /\ link' = link /\ i \in Int
         /\ IsScanned(i)' <=> IsScanned(i) \/ (phase = "scan" /\ i = at)
         /\ IsRelaxed(i)' => IsRelaxed(i) \/ (phase = "relax" /\ phase' = "relax" /\ i = at)
         /\ IsApplied(i)' <=> IsApplied(i) \/ (phase = "apply" /\ i = at)
         /\ IsStubbed(i)' <=> IsStubbed(i) \/ (phase = "stubs" /\ i = at)
         /\ phase = "scan" => (IsScanned(i) <=> i < at) /\ ~IsRelaxed(i)
         /\ phase = "relax" => (IsRelaxed(i) <=> i < at)
         /\ phase = "apply" => (IsApplied(i) <=> i < at)
         /\ phase = "stubs" => (IsStubbed(i) <=> i < at)
         /\ phase \in {"scan", "relax"} => ~IsApplied(i) /\ ~IsApplied(i)'
         /\ phase \in {"scan", "relax", "apply"} => ~IsStubbed(i) /\ ~IsStubbed(i)'
         /\ phase # "scan" => IsScanned(i)
         /\ phase \in {"apply", "stubs"} => IsRelaxed(i)
<1>0. Rels = 1..Len(link.rels) /\ Len(link.rels) \in Nat /\ at \in 1..(Len(link.rels) + 1)
  BY RelsType DEF TypeOK
<1>1. /\ link' = link
      /\ \/ /\ at \in Rels /\ phase' = phase /\ at' = at + 1
            /\ phase \in {"scan", "relax", "apply", "stubs"}
         \/ /\ at \notin Rels /\ at' = 1
            /\ <<phase, phase'>> \in {<<"scan", "relax">>, <<"relax", "apply">>, <<"apply", "stubs">>}
         \/ at \notin Rels /\ phase = "stubs" /\ phase' = "done"
         \/ at \in Rels /\ phase = "relax" /\ phase' = "fatal"
  <2>1. CASE Scan
    BY <2>1, ScanFrame
  <2>2. CASE Relax
    BY <2>2, RelaxFrame
  <2>3. CASE Apply
    BY <2>3, ApplyFrame
  <2> QED BY <2>1, <2>2, <2>3 DEF Next
<1>2. i \in Int /\ at \in Int /\ 1 <= i /\ ~(i < 1)
  BY <1>0
<1>3. at \notin Rels => i < at /\ i # at
  BY <1>0, SMT
<1>4. i = at => ~(i < at)
  BY <1>2
<1> USE DEF IsScanned, IsRelaxed, IsApplied, IsStubbed
<1>5. CASE /\ at \in Rels /\ phase' = phase /\ at' = at + 1
           /\ phase \in {"scan", "relax", "apply", "stubs"}
  <2>1. i < at' <=> i < at \/ i = at
    BY <1>2, <1>5
  <2> QED BY <1>1, <1>2, <1>4, <1>5, <2>1
<1>6. CASE /\ at \notin Rels /\ at' = 1
           /\ <<phase, phase'>> \in {<<"scan", "relax">>, <<"relax", "apply">>, <<"apply", "stubs">>}
  <2>1. ~(i < at')
    BY <1>2, <1>6
  <2> QED BY <1>1, <1>2, <1>3, <1>6, <2>1
<1>7. CASE at \notin Rels /\ phase = "stubs" /\ phase' = "done"
  BY <1>1, <1>2, <1>3, <1>7
<1>8. CASE at \in Rels /\ phase = "relax" /\ phase' = "fatal"
  BY <1>1, <1>2, <1>4, <1>8
<1> QED BY <1>1, <1>5, <1>6, <1>7, <1>8

-----------------------------------------------------------------------------
(* The scan: what it makes of symbols.                                     *)

\* What an ordinary link and its symbols are.
LEMMA LinkFacts ==
  ASSUME TypeOK
  PROVE  /\ link.bits \in {32, 64} /\ out \in Outputs
         /\ sym \in [Symbols -> SymbolInfos]
         /\ link.syms \in [Symbols -> SymbolInfos]
         /\ reserved \in [Symbols -> SUBSET {"Rel", "GOT", "PLT"}]
         /\ dynrel \in [Rels -> DynRels]
         /\ \A i \in Rels : SymOf(i) \in Symbols /\ Kind(i) \in Kinds
BY RelsType DEF TypeOK, LinkType, DynRels, out

LEMMA OrdinaryRel ==
  ASSUME TypeOK, LinkInv, SymbolsInv, NEW i \in Rels
  PROVE  /\ Suits(link.bits, out, Kind(i), sym[SymOf(i)])
         /\ Kind(i) \in Branches => Alloc(i)
         /\ /\ Kind(i) = "narrow" /\ is64 /\ Alloc(i) /\ isCodeIndep(out)
            => sym[SymOf(i)].bind # "Local"
         /\ sym[SymOf(i)].type # "IndirectFunc"
<1> DEFINE s == sym[SymOf(i)]
           y == link.syms[SymOf(i)]
<1>1. SymOf(i) \in Symbols
  BY LinkFacts
<1>2. /\ Kind(i) \notin (IF link.bits = 64 THEN OnlyARM ELSE OnlyAArch64)
      /\ Kind(i) \in Branches => Alloc(i)
      /\ Kind(i) \in Branches \cup {"prel31"} => y.type # "Object"
      /\ Kind(i) \in {"movrel", "gotoff"} => ~Foreign(out, y)
      /\ Kind(i) = "narrow" /\ is64 /\ Alloc(i) /\ isCodeIndep(out) => isDynamicSymbol(out, y)
      /\ y.type # "IndirectFunc"
  BY <1>1 DEF LinkInv, Ordinary, Rels, Kind, SymOf, Alloc, out, is64
<1>3. s.type = y.type /\ (s = y \/ (y.dyn /\ s.bind # "Local"))
  BY <1>1 DEF SymbolsInv
<1>4. isDynamicSymbol(out, y) => s.bind # "Local"
  BY <1>3 DEF isDynamicSymbol
<1>5. y.dyn => Foreign(out, y)
  BY DEF Foreign
<1> HIDE DEF s, y
<1>6. Suits(link.bits, out, Kind(i), s)
  BY <1>2, <1>3, <1>5 DEF Suits
<1> QED BY <1>2, <1>3, <1>4, <1>6 DEF s

LEMMA ScanKeeps ==
  ASSUME TypeOK, Scan
  PROVE  /\ \A y \in Symbols : reserved[y] \subseteq reserved'[y]
         /\ \/ sym' = sym
            \/ /\ at \in Rels /\ CopyReloc(SymOf(at))
               /\ symbolNeedsCopyReloc(out, sym[SymOf(at)], Writable(at))
<1> DEFINE Kept == \A y \in Symbols : reserved[y] \subseteq reserved'[y]
           Copied == /\ CopyReloc(SymOf(at))
                     /\ symbolNeedsCopyReloc(out, sym[SymOf(at)], Writable(at))
<1>0. reserved \in [Symbols -> SUBSET {"Rel", "GOT", "PLT"}]
  BY LinkFacts
<1>1. \A y, bits : Reserve(y, bits) => Kept
  BY <1>0 DEF Reserve
<1>2. UNCHANGED reserved => Kept
  OBVIOUS
<1>3. UNCHANGED tables => Kept /\ sym' = sym
  BY DEF tables
<1>4. \A y, entry, needs, k : ReserveFor(y, entry, needs, k) => Kept
  BY <1>1 DEF ReserveFor
<1>5. \A entry, needs, k : ReserveFor(SymOf(at), entry, needs, k) => sym' = sym \/ Copied
  BY DEF ReserveFor, DynRelOnPlace
<1> HIDE DEF Kept
<1>6. CASE ScanDebug \/ ScanNothing \/ EndScan
  BY <1>3, <1>6 DEF ScanDebug, ScanNothing, EndScan, Kept
<1>7. CASE ScanLocalAbs
  BY <1>1, <1>3, <1>7 DEF ScanLocalAbs, DynRelOnPlace, Kept
<1>8. CASE ScanGot
  BY <1>1, <1>3, <1>8 DEF ScanGot, GOT_init, Kept
<1>9. CASE ScanGlobalAbs \/ ScanGlobalRel
  <2>1. at \in Rels
    BY <1>9 DEF ScanGlobalAbs, ScanGlobalRel, Scanning
  <2>2. \E entry, needs, k : ReserveFor(SymOf(at), entry, needs, k)
    BY <1>9 DEF ScanGlobalAbs, ScanGlobalRel
  <2> QED BY <1>4, <1>5, <2>1, <2>2 DEF Kept
<1>10. CASE ScanGlobalPage
  BY <1>1, <1>10 DEF ScanGlobalPage, Scanning, Kept
<1>11. CASE ScanGlobalBranch
  BY <1>1, <1>2, <1>11 DEF ScanGlobalBranch, Kept
<1> QED BY <1>6, <1>7, <1>8, <1>9, <1>10, <1>11 DEF Scan

\* Symbols grow.
LEMMA ScanGrows ==
  ASSUME TypeOK, LinkInv, SymbolsInv, Scan, NEW y \in Symbols
  PROVE  /\ Grows(out, sym[y], Has(y, "PLT"), sym'[y], "PLT" \in reserved'[y])
         /\ sym'[y].type = sym[y].type
         /\ Has(y, "Rel") => "Rel" \in reserved'[y]
<1>1. \A z \in Symbols : reserved[z] \subseteq reserved'[z]
  BY ScanKeeps
<1>2. CASE sym' = sym
  BY <1>1, <1>2 DEF Grows, Has
<1>3. CASE /\ at \in Rels /\ CopyReloc(SymOf(at))
           /\ symbolNeedsCopyReloc(out, sym[SymOf(at)], Writable(at))
  <2>1. SymOf(at) \in Symbols
    BY <1>3, LinkFacts
  <2>2. /\ \A z \in Symbols : z # SymOf(at) => sym'[z] = sym[z]
        /\ sym'[SymOf(at)].desc = "Define" /\ ~sym'[SymOf(at)].dyn
        /\ sym'[SymOf(at)].type = sym[SymOf(at)].type
        /\ sym'[SymOf(at)].bind
             = IF sym[SymOf(at)].bind = "Weak" THEN "Global" ELSE sym[SymOf(at)].bind
    BY <1>3, <2>1, CopyChanges
  <2>3. sym[SymOf(at)].dyn /\ ~isCodeIndep(out)
    BY <1>3 DEF symbolNeedsCopyReloc
  <2>4. sym[SymOf(at)].bind # "Local"
    BY <2>1, <2>3 DEF SymbolsInv, Sound
  <2>5. CASE y = SymOf(at)
    <3>1. sym'[y].bind # "Local"
      BY <2>2, <2>4, <2>5
    <3> QED BY <1>1, <2>2, <2>3, <2>5, <3>1 DEF Grows, Has
  <2>6. CASE y # SymOf(at)
    BY <1>1, <2>2, <2>6 DEF Grows, Has
  <2> QED BY <2>5, <2>6
<1> QED BY <1>2, <1>3, ScanKeeps

\* An entry of the PLT is made for a function, or for the target of a branch.
LEMMA EntriesFit ==
  ASSUME TypeOK, LinkInv, SymbolsInv, Scan,
         NEW y \in Symbols, "PLT" \in reserved'[y], ~Has(y, "PLT")
  PROVE  sym[y].type # "Object"
<1>0. reserved \in [Symbols -> SUBSET {"Rel", "GOT", "PLT"}]
  BY LinkFacts
<1>1. reserved' # reserved
  BY DEF Has
<1>2. \A z, bits : Reserve(z, bits) => z = y /\ "PLT" \in bits
  BY <1>0 DEF Reserve, Has
<1>3. \A i \in Rels : Kind(i) \in Branches \cup {"prel31"} => sym[SymOf(i)].type # "Object"
  BY OrdinaryRel DEF Suits
<1>4. ASSUME NEW entry \in SUBSET {"PLT"}, NEW needs, NEW k, NEW z,
             ReserveFor(z, entry, needs, k)
      PROVE  z = y /\ "PLT" \in entry
  BY <1>2, <1>4 DEF ReserveFor
<1>5. CASE ScanGlobalAbs \/ ScanGlobalRel
  <2>1. y = SymOf(at) /\ symbolNeedsPLT(out, sym[y])
    <3>1. CASE ScanGlobalAbs
      <4> DEFINE entry == IF symbolNeedsPLT(out, sym[SymOf(at)]) THEN {"PLT"} ELSE {}
      <4>1. \E needs, k : ReserveFor(SymOf(at), entry, needs, k)
        BY <3>1 DEF ScanGlobalAbs
      <4>2. entry \in SUBSET {"PLT"}
        OBVIOUS
      <4>3. SymOf(at) = y /\ "PLT" \in entry
        <5> HIDE DEF entry
        <5> QED BY <1>4, <4>1, <4>2
      <4> QED BY <4>3
    <3>2. CASE ScanGlobalRel
      <4> DEFINE entry == IF is64 /\ symbolNeedsPLT(out, sym[SymOf(at)]) /\ out.codeGen # "DynObj"
                          THEN {"PLT"} ELSE {}
      <4>1. \E needs, k : ReserveFor(SymOf(at), entry, needs, k)
        BY <3>2 DEF ScanGlobalRel
      <4>2. entry \in SUBSET {"PLT"}
        OBVIOUS
      <4>3. SymOf(at) = y /\ "PLT" \in entry
        <5> HIDE DEF entry
        <5> QED BY <1>4, <4>1, <4>2
      <4> QED BY <4>3
    <3> QED BY <1>5, <3>1, <3>2
  <2> QED BY <2>1 DEF symbolNeedsPLT
<1>6. CASE ScanGlobalPage
  <2>1. Reserve(SymOf(at), IF symbolNeedsPLT(out, sym'[SymOf(at)]) THEN {"PLT"} ELSE {})
    BY <1>6 DEF ScanGlobalPage
  <2>2. y = SymOf(at) /\ symbolNeedsPLT(out, sym'[y])
    BY <1>2, <2>1
  <2>3. sym'[y].type # "Object"
    BY <2>2 DEF symbolNeedsPLT
  <2> QED BY <2>3, ScanGrows
<1>7. CASE ScanGlobalBranch
  <2>1. at \in Rels /\ Kind(at) \in Branches \cup {"prel31"} /\ SymOf(at) = y
    BY <1>1, <1>2, <1>7 DEF ScanGlobalBranch, Scanning
  <2> QED BY <1>3, <2>1
<1>8. CASE ScanLocalAbs
  BY <1>1, <1>2, <1>8 DEF ScanLocalAbs, tables
<1>9. CASE ScanGot
  BY <1>1, <1>2, <1>9 DEF ScanGot, GOT_init, tables
<1> QED BY <1>1, <1>5, <1>6, <1>7, <1>8, <1>9
        DEF Scan, ScanDebug, ScanNothing, EndScan, tables

LEMMA ScanSymbols ==
  ASSUME TypeOK, LinkInv, SymbolsInv, Scan
  PROVE  SymbolsInv'
<1>0. link' = link /\ out' = out
  BY ScanFrame DEF out
<1>1. ASSUME NEW y \in Symbols
      PROVE  /\ Grows(out, sym[y], Has(y, "PLT"), sym'[y], "PLT" \in reserved'[y])
             /\ sym'[y].type = sym[y].type
  BY ScanGrows
<1>2. ASSUME NEW y \in Symbols
      PROVE  Sound(out, sym'[y], "PLT" \in reserved'[y])
  <2>1. Sound(out, sym[y], Has(y, "PLT"))
    BY DEF SymbolsInv
  <2>2. /\ sym'[y].bind = "Local" => ~Undef(sym'[y]) /\ ~sym'[y].dyn
        /\ isCodeStatic(out) => ~sym'[y].dyn
    BY <1>1, <2>1 DEF Sound, Undef, Grows
  <2>3. ASSUME "PLT" \in reserved'[y]
        PROVE  sym'[y].type # "Object"
    <3>1. CASE Has(y, "PLT")
      BY <1>1, <2>1, <3>1 DEF Sound
    <3>2. CASE ~Has(y, "PLT")
      BY <1>1, <2>3, <3>2, EntriesFit
    <3> QED BY <3>1, <3>2
  <2> QED BY <2>2, <2>3 DEF Sound
<1>3. ASSUME NEW y \in Symbols
      PROVE  /\ sym'[y].type = link.syms[y].type
             /\ sym'[y] = link.syms[y] \/ (link.syms[y].dyn /\ sym'[y].bind # "Local")
  <2>1. /\ sym[y].type = link.syms[y].type
        /\ sym[y] = link.syms[y] \/ (link.syms[y].dyn /\ sym[y].bind # "Local")
    BY DEF SymbolsInv
  <2> QED BY <1>1, <2>1 DEF Grows
<1> QED BY <1>0, <1>2, <1>3 DEF SymbolsInv, Has

-----------------------------------------------------------------------------
(* The scan: what it decides.                                              *)

LEMMA LocalIsOwn ==
  ASSUME NEW o, NEW y, NEW plt, Sound(o, y, plt), y.bind = "Local", y \in SymbolInfos
  PROVE  ~Foreign(o, y)
BY DEF Sound, Foreign, isSymbolPreemptible, Undef, SymbolInfos

\* Without a dynamic relocation the value in the output is right; with one
\* for a symbol of the output, it is because code may be loaded anywhere.
LEMMA WithoutDynRel ==
  ASSUME NEW o \in Outputs, NEW y, NEW plt, NEW abs \in BOOLEAN, Sound(o, y, plt)
  PROVE  /\ ~symbolNeedsDynRel(o, y, plt, abs) => Reachable(o, y, plt)
         /\ ~symbolNeedsDynRel(o, y, plt, TRUE) => ~isCodeIndep(o)
         /\ symbolNeedsDynRel(o, y, plt, TRUE) /\ ~Foreign(o, y) => isCodeIndep(o)
         /\ symbolNeedsDynRel(o, y, plt, FALSE) => Foreign(o, y)
<1>1. isExecutable(o) => ~isCodeIndep(o)
  BY DEF isExecutable, isCodeIndep, CodePosition, Outputs
<1>2. isCodeStatic(o) => isExecutable(o) /\ o.codeGen # "DynObj" /\ ~isCodeIndep(o)
  BY DEF isCodeStatic, isExecutable, isCodeIndep, CodePosition, Outputs
<1>3. isCodeStatic(o) => Reachable(o, y, plt)
  BY <1>2 DEF Sound, Reachable, Foreign, Absent, isSymbolPreemptible
<1>4. Absent(o, y) => Reachable(o, y, plt) /\ ~isCodeIndep(o)
  BY <1>1 DEF Reachable, Absent
<1>5. ~symbolNeedsDynRel(o, y, plt, abs) => Reachable(o, y, plt)
  BY <1>3, <1>4 DEF symbolNeedsDynRel, Absent, Reachable
<1>6. ~symbolNeedsDynRel(o, y, plt, TRUE) => ~isCodeIndep(o)
  BY <1>2, <1>4 DEF symbolNeedsDynRel, Absent
<1> QED BY <1>5, <1>6 DEF symbolNeedsDynRel

\* The three ways of ReserveFor.
LEMMA ReserveDecides ==
  ASSUME TypeOK, at \in Rels, dynrel[at] = DynRel("none"),
         NEW entry \in SUBSET {"PLT"}, NEW needs \in BOOLEAN, NEW k \in {"RELATIVE", "own"},
         ReserveFor(SymOf(at), entry, needs, k)
  PROVE  LET y == SymOf(at)
         IN  \/ /\ needs /\ dynrel'[at].kind = "COPY"
                /\ ~isCodeIndep(out) /\ ~Foreign(out, sym'[y])
             \/ /\ sym'[y] = sym[y]
                /\ ("PLT" \in reserved'[y]) <=> ("PLT" \in reserved[y] \cup entry)
                /\ dynrel'[at].kind = IF needs THEN k ELSE "none"
                /\ needs => /\ "Rel" \in reserved'[y]
                            /\ ~symbolNeedsCopyReloc(out, sym[y], Writable(at))
<1> DEFINE y == SymOf(at)
<1>0. y \in Symbols /\ reserved \in [Symbols -> SUBSET {"Rel", "GOT", "PLT"}]
      /\ dynrel \in [Rels -> DynRels]
  BY LinkFacts
<1>1. CASE /\ needs /\ symbolNeedsCopyReloc(out, sym[y], Writable(at))
           /\ CopyReloc(y)
  <2>1. dynrel'[at].kind = "COPY"
    BY <1>0, <1>1 DEF CopyReloc, DynRel
  <2>2. sym'[y].desc = "Define" /\ ~sym'[y].dyn
    BY <1>0, <1>1, CopyChanges
  <2>3. ~isCodeIndep(out) /\ out.codeGen # "DynObj"
    BY <1>1 DEF symbolNeedsCopyReloc, isCodeIndep, CodePosition
  <2> QED BY <1>1, <2>1, <2>2, <2>3 DEF Foreign, Undef, isSymbolPreemptible
<1>2. CASE /\ needs /\ ~symbolNeedsCopyReloc(out, sym[y], Writable(at))
           /\ Reserve(y, entry \cup {"Rel"}) /\ DynRelOnPlace(k)
  <2>1. dynrel'[at].kind = k /\ sym' = sym
    BY <1>0, <1>2 DEF DynRelOnPlace, DynRel
  <2>2. /\ ("PLT" \in reserved'[y]) <=> ("PLT" \in reserved[y] \cup entry)
        /\ "Rel" \in reserved'[y]
    BY <1>0, <1>2 DEF Reserve
  <2> QED BY <1>2, <2>1, <2>2
<1>3. CASE ~needs /\ Reserve(y, entry) /\ UNCHANGED <<sym, dynrel>>
  <2>1. dynrel'[at].kind = "none" /\ sym' = sym
    BY <1>3 DEF DynRel
  <2>2. ("PLT" \in reserved'[y]) <=> ("PLT" \in reserved[y] \cup entry)
    BY <1>0, <1>3 DEF Reserve
  <2> QED BY <1>3, <2>1, <2>2
<1> QED BY <1>1, <1>2, <1>3 DEF ReserveFor

DecidesRight ==
  LET y == SymOf(at)
  IN  /\ errors' = {} \/ Kind(at) \in Branches =>
           Decision(link.bits, out, Kind(at), dynrel'[at].kind, sym'[y], "PLT" \in reserved'[y])
      /\ ~is64 /\ Kind(at) = "abs" /\ dynrel'[at].kind = "own" =>
           "Rel" \in reserved'[y] /\ Foreign(out, sym'[y])

\* The decision of a scan is one for the symbol it leaves.
LEMMA ScanDecides ==
  ASSUME TypeOK, LinkInv, SymbolsInv, Scan,
         at \in Rels, Alloc(at), Kind(at) \notin Got, dynrel[at] = DynRel("none")
  PROVE  DecidesRight
<1> DEFINE y == SymOf(at)
<1>0. /\ y \in Symbols /\ sym[y] \in SymbolInfos /\ Kind(at) \in Kinds
      /\ reserved \in [Symbols -> SUBSET {"Rel", "GOT", "PLT"}]
      /\ dynrel \in [Rels -> DynRels] /\ out \in Outputs /\ link.bits \in {32, 64}
  BY LinkFacts
<1>1. UNCHANGED dynrel => dynrel'[at].kind = "none"
  BY DEF DynRel
<1>2. Sound(out, sym[y], Has(y, "PLT")) /\ SymbolsInv'
  BY <1>0, ScanSymbols DEF SymbolsInv
<1>3. Sound(out, sym'[y], "PLT" \in reserved'[y])
  <2>1. out' = out
    BY ScanFrame DEF out
  <2> QED BY <1>0, <1>2, <2>1 DEF SymbolsInv, Has
<1>4. Suits(link.bits, out, Kind(at), sym[y])
  BY OrdinaryRel
<1>5. CASE ScanNothing
  <2>1. dynrel'[at].kind = "none" /\ sym' = sym
    BY <1>1, <1>5 DEF ScanNothing, tables
  <2>2. \/ Kind(at) \in {"gotoff", "lo12"}
        \/ Kind(at) \notin AbsKinds /\ sym[y].bind = "Local"
    BY <1>5 DEF ScanNothing, Scanning, AbsKinds
  <2>3. sym[y].bind = "Local" => Reachable(out, sym'[y], "PLT" \in reserved'[y])
    BY <1>0, <1>2, <2>1, LocalIsOwn DEF Reachable
  <2>4. Kind(at) \in {"rel", "movrel", "page", "lo12", "gotoff", "prel31"} \cup Branches
    BY <1>0, <2>2 DEF Kinds, AbsKinds
  <2>5. Decision(link.bits, out, Kind(at), dynrel'[at].kind, sym'[y], "PLT" \in reserved'[y])
    BY <2>1, <2>2, <2>3, <2>4 DEF Decision, RelDecision
  <2> QED BY <2>1, <2>5 DEF DecidesRight
<1>6. CASE ScanLocalAbs
  <2> DEFINE has == isCodeIndep(out) /\ (is64 \/ Kind(at) = "abs")
  <2>1. /\ Kind(at) \in AbsKinds /\ sym' = sym /\ sym[y].bind = "Local"
        /\ has => DynRelOnPlace(IF Kind(at) = "abs" THEN "RELATIVE" ELSE "own")
        /\ ~has => UNCHANGED dynrel
        /\ isCodeIndep(out) /\ ~has => Scanned({"nonpic"})
    BY <1>6 DEF ScanLocalAbs, Scanning, DynRelOnPlace, AbsKinds, tables
  <2>2. Scanned({"nonpic"}) => errors' # {}
    BY DEF Scanned
  <2>3. ~Foreign(out, sym'[y])
    BY <1>0, <1>2, <2>1, LocalIsOwn
  <2>4. CASE has
    <3>1. Kind(at) = "abs"
      <4>1. CASE is64
        <5>1. Kind(at) # "narrow"
          BY <2>1, <2>4, <4>1, OrdinaryRel
        <5>2. Kind(at) # "mov"
          BY <1>4, <4>1 DEF Suits, OnlyARM, is64
        <5> QED BY <2>1, <5>1, <5>2 DEF AbsKinds
      <4> QED BY <2>4, <4>1
    <3>2. dynrel'[at].kind = "RELATIVE"
      BY <1>0, <2>1, <2>4, <3>1 DEF DynRelOnPlace, DynRel
    <3> QED BY <2>3, <2>4, <3>1, <3>2 DEF DecidesRight, Decision, AbsDecision, AbsKinds
  <2>5. CASE ~has /\ ~isCodeIndep(out)
    <3>1. dynrel'[at].kind = "none"
      BY <1>1, <2>1, <2>5
    <3> QED BY <2>1, <2>3, <2>5, <3>1 DEF DecidesRight, Decision, AbsDecision, Reachable
  <2>6. CASE ~has /\ isCodeIndep(out)
    <3>1. dynrel'[at].kind = "none" /\ errors' # {}
      BY <1>1, <2>1, <2>2, <2>6
    <3>2. Kind(at) \notin Branches
      BY <2>1 DEF AbsKinds, Branches, Relaxable
    <3> QED BY <3>1, <3>2 DEF DecidesRight
  <2> QED BY <2>4, <2>5, <2>6
<1>7. CASE ScanGlobalAbs
  <2> DEFINE entry == IF symbolNeedsPLT(out, sym[y]) THEN {"PLT"} ELSE {}
             plt == "PLT" \in reserved[y] \cup entry
             needs == symbolNeedsDynRel(out, sym[y], plt, TRUE)
             relative == helper_use_relative_reloc(out, sym[y]) /\ (is64 => Kind(at) = "abs")
             k == IF relative THEN "RELATIVE" ELSE "own"
  <2>1. /\ ReserveFor(y, entry, needs, k) /\ Kind(at) \in AbsKinds /\ sym[y].bind # "Local"
        /\ Scanned(CheckValid)
    BY <1>7 DEF ScanGlobalAbs, Scanning, AbsKinds
  <2>2. entry \in SUBSET {"PLT"} /\ k \in {"RELATIVE", "own"}
    OBVIOUS
  <2>3. needs \in BOOLEAN
    BY DEF symbolNeedsDynRel
  <2>4. \/ /\ needs /\ dynrel'[at].kind = "COPY"
           /\ ~isCodeIndep(out) /\ ~Foreign(out, sym'[y])
        \/ /\ sym'[y] = sym[y]
           /\ ("PLT" \in reserved'[y]) <=> plt
           /\ dynrel'[at].kind = IF needs THEN k ELSE "none"
           /\ needs => "Rel" \in reserved'[y]
    <3> HIDE DEF entry, needs, k
    <3> QED BY <2>1, <2>2, <2>3, ReserveDecides
  <2>5. CASE dynrel'[at].kind = "COPY" /\ ~isCodeIndep(out) /\ ~Foreign(out, sym'[y])
    <3>1. AbsDecision(out, Kind(at), dynrel'[at].kind, sym'[y], "PLT" \in reserved'[y])
      BY <2>5 DEF AbsDecision
    <3> QED BY <2>1, <2>5, <3>1 DEF DecidesRight, Decision
  <2>6. CASE /\ sym'[y] = sym[y]
             /\ ("PLT" \in reserved'[y]) <=> plt
             /\ dynrel'[at].kind = IF needs THEN k ELSE "none"
             /\ needs => "Rel" \in reserved'[y]
    <3>1. needs <=> symbolNeedsDynRel(out, sym'[y], "PLT" \in reserved'[y], TRUE)
      <4>1. ("PLT" \in reserved'[y]) = plt
        BY <2>6
      <4> QED BY <2>6, <4>1
    <3> HIDE DEF plt, needs, entry
    <3>2. /\ ~needs => Reachable(out, sym'[y], "PLT" \in reserved'[y]) /\ ~isCodeIndep(out)
          /\ needs /\ ~Foreign(out, sym'[y]) => isCodeIndep(out)
      BY <1>0, <1>3, <3>1, WithoutDynRel
    <3>3. CASE ~needs
      <4>1. AbsDecision(out, Kind(at), dynrel'[at].kind, sym'[y], "PLT" \in reserved'[y])
        BY <2>6, <3>2, <3>3 DEF AbsDecision
      <4> QED BY <2>1, <2>6, <3>3, <4>1 DEF DecidesRight, Decision
    <3>4. CASE needs /\ ~relative
      <4>1. AbsDecision(out, Kind(at), dynrel'[at].kind, sym'[y], "PLT" \in reserved'[y])
        BY <2>1, <2>6, <3>4 DEF AbsDecision
      <4>2. ~is64 => Foreign(out, sym'[y])
        BY <2>6, <3>4 DEF helper_use_relative_reloc
      <4> QED BY <2>1, <2>6, <3>4, <4>1, <4>2 DEF DecidesRight, Decision
    <3>5. CASE needs /\ relative
      <4>1. ~Foreign(out, sym'[y]) /\ isCodeIndep(out) /\ dynrel'[at].kind = "RELATIVE"
        BY <2>6, <3>2, <3>5 DEF helper_use_relative_reloc
      <4>2. CASE Kind(at) = "abs"
        BY <4>1, <4>2 DEF DecidesRight, Decision, AbsDecision, AbsKinds
      <4>3. CASE Kind(at) # "abs"
        <5>1. CheckValid = {"nonpic"}
          BY <3>5, <4>1, <4>3 DEF CheckValid, NotPic
        <5>2. errors' # {}
          BY <2>1, <5>1 DEF Scanned
        <5>3. Kind(at) \notin Branches
          BY <2>1 DEF AbsKinds, Branches, Relaxable
        <5> QED BY <4>1, <5>2, <5>3 DEF DecidesRight
      <4> QED BY <4>2, <4>3
    <3> QED BY <3>3, <3>4, <3>5
  <2> HIDE DEF plt, needs, k, entry
  <2> QED BY <2>4, <2>5, <2>6
<1>8. CASE ScanGlobalRel
  <2> DEFINE entry == IF is64 /\ symbolNeedsPLT(out, sym[y]) /\ out.codeGen # "DynObj"
                      THEN {"PLT"} ELSE {}
             plt == "PLT" \in reserved[y] \cup entry
             dyn == symbolNeedsDynRel(out, sym[y], plt, FALSE)
             needs == /\ dyn
                      /\ is64 => /\ isDynamicSymbol(out, sym[y])
                                 /\ symbolNeedsCopyReloc(out, sym[y], Writable(at))
  <2>1. ReserveFor(y, entry, needs, "own") /\ Kind(at) \in {"rel", "movrel"}
    BY <1>8 DEF ScanGlobalRel, Scanning
  <2>2. entry \in SUBSET {"PLT"} /\ needs \in BOOLEAN
    OBVIOUS
  <2>3. \/ /\ needs /\ dynrel'[at].kind = "COPY"
           /\ ~isCodeIndep(out) /\ ~Foreign(out, sym'[y])
        \/ /\ sym'[y] = sym[y]
           /\ ("PLT" \in reserved'[y]) <=> plt
           /\ dynrel'[at].kind = IF needs THEN "own" ELSE "none"
           /\ needs => ~symbolNeedsCopyReloc(out, sym[y], Writable(at))
    <3> HIDE DEF entry, needs
    <3> QED BY <2>1, <2>2, ReserveDecides
  <2>4. needs => Foreign(out, sym[y]) /\ Kind(at) = "rel"
    <3>1. dyn => Foreign(out, sym[y])
      BY DEF symbolNeedsDynRel, isCodeIndep
    <3> QED BY <1>4, <2>1, <3>1 DEF Suits
  <2>5. CASE needs /\ dynrel'[at].kind = "COPY" /\ ~Foreign(out, sym'[y])
    <3>1. RelDecision(link.bits, out, dynrel'[at].kind, sym'[y], "PLT" \in reserved'[y])
      BY <2>5 DEF RelDecision, Reachable
    <3>2. Kind(at) = "rel"
      BY <2>4, <2>5
    <3> HIDE DEF needs
    <3> QED BY <3>1, <3>2 DEF DecidesRight, Decision
  <2>6. CASE /\ sym'[y] = sym[y]
             /\ ("PLT" \in reserved'[y]) <=> plt
             /\ dynrel'[at].kind = IF needs THEN "own" ELSE "none"
             /\ needs => ~symbolNeedsCopyReloc(out, sym[y], Writable(at))
    <3>1. dyn <=> symbolNeedsDynRel(out, sym'[y], "PLT" \in reserved'[y], FALSE)
      <4>1. ("PLT" \in reserved'[y]) = plt
        BY <2>6
      <4> QED BY <2>6, <4>1
    <3>2. needs <=> (link.bits # 64 /\ dyn)
      BY <2>6 DEF is64
    <3> HIDE DEF plt, needs, entry, dyn
    <3>3. ~dyn => Reachable(out, sym'[y], "PLT" \in reserved'[y])
      BY <1>0, <1>3, <3>1, WithoutDynRel
    <3>4. CASE needs
      BY <2>4, <2>6, <3>2, <3>4 DEF DecidesRight, Decision, RelDecision
    <3>5. CASE ~needs
      <4>1. RelDecision(link.bits, out, dynrel'[at].kind, sym'[y], "PLT" \in reserved'[y])
        BY <2>6, <3>2, <3>3, <3>5 DEF RelDecision
      <4> QED BY <2>1, <2>6, <3>5, <4>1 DEF DecidesRight, Decision
    <3> QED BY <3>4, <3>5
  <2> HIDE DEF plt, needs, entry
  <2> QED BY <2>3, <2>5, <2>6
<1>9. CASE ScanGlobalPage
  <2>1. Kind(at) = "page" /\ (CopyReloc(y) \/ UNCHANGED dynrel)
    BY <1>9 DEF ScanGlobalPage, Scanning
  <2>2. dynrel'[at].kind \in {"none", "COPY"}
    BY <1>0, <1>1, <2>1 DEF CopyReloc, DynRel
  <2> QED BY <2>1, <2>2 DEF DecidesRight, Decision
<1>10. CASE ScanGlobalBranch
  <2>1. /\ dynrel'[at].kind = "none" /\ sym' = sym
        /\ Kind(at) \in Branches \cup {"prel31"}
        /\ \/ "PLT" \in reserved'[y]
           \/ symbolFinalValueIsKnown(out, sym[y]) \/ helper_use_relative_reloc(out, sym[y])
    BY <1>0, <1>1, <1>10 DEF ScanGlobalBranch, Scanning, Reserve
  <2>2. symbolFinalValueIsKnown(out, sym[y]) => ~Foreign(out, sym[y]) \/ Absent(out, sym[y])
    BY DEF symbolFinalValueIsKnown, Foreign, Absent, isSymbolPreemptible, isExecutable
  <2>3. Reachable(out, sym'[y], "PLT" \in reserved'[y])
    BY <2>1, <2>2 DEF Reachable, helper_use_relative_reloc
  <2>4. Kind(at) # "abs"
    BY <2>1 DEF Branches, Relaxable
  <2> QED BY <2>1, <2>3, <2>4 DEF DecidesRight, Decision
<1>11. ScanNothing \/ ScanLocalAbs \/ ScanGlobalAbs \/ ScanGlobalRel \/ ScanGlobalPage
       \/ ScanGlobalBranch
  BY DEF Scan, ScanDebug, ScanGot, EndScan, Scanning
<1> QED BY <1>5, <1>6, <1>7, <1>8, <1>9, <1>10, <1>11

LEMMA ScanStep ==
  ASSUME TypeOK, LinkInv, SymbolsInv, ScanInv, Scan
  PROVE  ScanInv'
<1>0. \A i \in Rels : SymOf(i) \in Symbols
  BY LinkFacts
<1>1. /\ UNCHANGED <<link>> /\ phase = "scan"
      /\ errors \subseteq errors'
      /\ \A i \in Rels : i # at => dynrel'[i] = dynrel[i] /\ seen'[i] = seen[i]
      /\ at \in Rels /\ Alloc(at) =>
           seen'[at] = [plt |-> "PLT" \in reserved'[SymOf(at)], sym |-> sym'[SymOf(at)]]
  BY ScanFrame
<1>2. Rels' = Rels /\ out' = out /\ is64' = is64
  BY <1>1 DEF Rels, out, is64
<1>3. ASSUME NEW i \in Rels
      PROVE  /\ IsScanned(i)' <=> i < at \/ i = at
             /\ IsScanned(i) <=> i < at
             /\ i = at => ~(i < at)
  <2>1. Next /\ phase = "scan"
    BY <1>1 DEF Next
  <2>2. at \in 1..(Len(link.rels) + 1) /\ Len(link.rels) \in Nat
    BY RelsType DEF TypeOK
  <2>3. i = at => ~(i < at)
    BY <2>2
  <2> QED BY <2>1, <2>3, Progress
<1>4. ASSUME NEW i \in Rels, ~IsScanned(i)'
      PROVE  dynrel'[i] = DynRel("none")
  <2>1. i # at /\ ~IsScanned(i)
    BY <1>3, <1>4
  <2> QED BY <1>1, <2>1 DEF ScanInv
<1>5. ASSUME NEW i \in Rels, IsScanned(i)', Alloc(i), Kind(i) \notin Got
      PROVE  /\ errors' = {} \/ Kind(i) \in Branches =>
                  Decision(link.bits, out, Kind(i), dynrel'[i].kind, sym'[SymOf(i)],
                           "PLT" \in reserved'[SymOf(i)])
             /\ ~is64 /\ Kind(i) = "abs" /\ dynrel'[i].kind = "own" =>
                  "Rel" \in reserved'[SymOf(i)] /\ Foreign(out, seen'[i].sym)
  <2>1. CASE i < at
    <3>1. /\ errors = {} \/ Kind(i) \in Branches => Decided(i)
          /\ LeftAlone(i)
      BY <1>3, <1>5, <2>1 DEF ScanInv
    <3>2. i # at /\ dynrel'[i] = dynrel[i] /\ seen'[i] = seen[i]
      BY <1>1, <1>3, <2>1
    <3>3. /\ Grows(out, sym[SymOf(i)], Has(SymOf(i), "PLT"),
                   sym'[SymOf(i)], "PLT" \in reserved'[SymOf(i)])
          /\ Has(SymOf(i), "Rel") => "Rel" \in reserved'[SymOf(i)]
      BY <1>0, ScanGrows
    <3>4. Decided(i) => Decision(link.bits, out, Kind(i), dynrel'[i].kind, sym'[SymOf(i)],
                                 "PLT" \in reserved'[SymOf(i)])
      BY <3>2, <3>3, DecisionStays DEF Decided
    <3>5. errors' = {} => errors = {}
      BY <1>1
    <3> QED BY <3>1, <3>2, <3>3, <3>4, <3>5 DEF LeftAlone
  <2>2. CASE i = at
    <3>1. dynrel[at] = DynRel("none")
      BY <1>3, <2>2 DEF ScanInv
    <3>2. at \in Rels /\ Alloc(at) /\ Kind(at) \notin Got
      BY <1>5, <2>2
    <3>3. DecidesRight
      BY <3>1, <3>2, ScanDecides
    <3>4. seen'[at].sym = sym'[SymOf(at)]
      BY <1>1, <3>2
    <3> QED BY <2>2, <3>3, <3>4 DEF DecidesRight
  <2> QED BY <1>3, <1>5, <2>1, <2>2
<1>6. ASSUME NEW i \in Rels', IsScanned(i)', Alloc(i)', Kind(i)' \notin Got
      PROVE  /\ errors' = {} \/ Kind(i)' \in Branches => Decided(i)'
             /\ LeftAlone(i)'
  <2>1. i \in Rels /\ Alloc(i) /\ Kind(i) \notin Got /\ Kind(i)' = Kind(i) /\ SymOf(i)' = SymOf(i)
    BY <1>1, <1>2, <1>6 DEF Alloc, Kind, SymOf
  <2>2. /\ errors' = {} \/ Kind(i) \in Branches =>
             Decision(link.bits, out, Kind(i), dynrel'[i].kind, sym'[SymOf(i)],
                      "PLT" \in reserved'[SymOf(i)])
        /\ ~is64 /\ Kind(i) = "abs" /\ dynrel'[i].kind = "own" =>
             "Rel" \in reserved'[SymOf(i)] /\ Foreign(out, seen'[i].sym)
    BY <1>5, <1>6, <2>1
  <2> QED BY <1>1, <1>2, <2>1, <2>2 DEF Decided, LeftAlone, Has
<1> QED BY <1>2, <1>4, <1>6 DEF ScanInv

-----------------------------------------------------------------------------
(* Relaxation and the apply leave what the scan has decided.               *)

LEMMA Settles ==
  ASSUME TypeOK, LinkInv, SymbolsInv, ScanInv, Relax \/ Apply
  PROVE  /\ UNCHANGED <<link, sym, reserved>>
         /\ LinkInv' /\ SymbolsInv' /\ ScanInv'
<1>1. /\ UNCHANGED <<link, sym, reserved, seen>> /\ errors \subseteq errors'
      /\ \A i \in Rels : dynrel'[i].kind = dynrel[i].kind
      /\ phase # "scan"
  <2>1. CASE Relax
    BY <2>1, RelaxFrame DEF tables
  <2>2. CASE Apply
    BY <2>2, ApplyFrame
  <2> QED BY <2>1, <2>2
<1>2. Rels' = Rels /\ out' = out /\ is64' = is64
  BY <1>1 DEF Rels, out, is64
<1>3. ASSUME NEW i \in Rels PROVE IsScanned(i) /\ IsScanned(i)'
  BY <1>1, <1>3, Progress DEF Next
<1>4. ASSUME NEW i \in Rels', Alloc(i)', Kind(i)' \notin Got
      PROVE  /\ errors' = {} \/ Kind(i)' \in Branches => Decided(i)'
             /\ LeftAlone(i)'
  <2>1. i \in Rels /\ Alloc(i) /\ Kind(i) \notin Got /\ Kind(i)' = Kind(i) /\ SymOf(i)' = SymOf(i)
    BY <1>1, <1>2, <1>4 DEF Alloc, Kind, SymOf
  <2>2. /\ errors = {} \/ Kind(i) \in Branches => Decided(i)
        /\ LeftAlone(i)
    BY <1>3, <2>1 DEF ScanInv
  <2>3. errors' = {} => errors = {}
    BY <1>1
  <2>4. Decided(i) => Decided(i)'
    BY <1>1, <1>2, <2>1 DEF Decided, Has
  <2>5. LeftAlone(i) => LeftAlone(i)'
    BY <1>1, <1>2, <2>1 DEF LeftAlone, Has
  <2> QED BY <2>1, <2>2, <2>3, <2>4, <2>5
<1>5. ScanInv'
  BY <1>2, <1>3, <1>4 DEF ScanInv
<1>6. SymbolsInv'
  BY <1>1, <1>2 DEF SymbolsInv, Has
<1> QED BY <1>1, <1>5, <1>6 DEF LinkInv

\* A stub is missing only where none is needed.
LEMMA RelaxStep ==
  ASSUME TypeOK, LinkInv, SymbolsInv, RelaxInv, Next
  PROVE  RelaxInv'
<1>1. link' = link /\ Rels' = Rels
  <2>1. link' = link
    BY ScanFrame, RelaxFrame, ApplyFrame DEF Next
  <2> QED BY <2>1 DEF Rels
<1>2. CASE Scan
  <2>1. \A i \in Rels : ~IsRelaxed(i)'
    BY <1>2, Progress, ScanFrame
  <2> QED BY <1>1, <2>1 DEF RelaxInv
<1>3. ASSUME UNCHANGED <<sym, reserved, link>>, NEW i
      PROVE  ChangesState(i)' <=> ChangesState(i)
  BY <1>3 DEF ChangesState, Kind, SymOf, Thumb, Defined, Has
<1>4. CASE Relax
  <2>1. UNCHANGED <<sym, reserved, link>>
    BY <1>4, RelaxFrame DEF tables
  <2>2. ASSUME NEW i \in Rels, IsRelaxed(i)', Kind(i) \in Relaxable, stub'[i] = "none"
        PROVE  ~ChangesState(i)
    <3>1. CASE IsRelaxed(i)
      <4>1. i # at
        <5>1. phase = "relax" /\ i < at
          BY <1>4, <3>1, Progress, RelaxFrame
        <5>2. at \in 1..(Len(link.rels) + 1) /\ Len(link.rels) \in Nat
          BY RelsType DEF TypeOK
        <5> QED BY <5>1, <5>2
      <4>2. stub'[i] = stub[i]
        BY <1>4, <4>1, RelaxFrame
      <4> QED BY <2>2, <3>1, <4>2 DEF RelaxInv
    <3>2. CASE i = at /\ phase' = "relax"
      BY <1>4, <2>2, <3>2, RelaxFrame
    <3> QED BY <2>2, <3>1, <3>2, Progress
  <2> QED BY <1>1, <1>3, <2>1, <2>2 DEF RelaxInv, Kind
<1>5. CASE Apply
  <2>1. UNCHANGED <<sym, reserved, link, stub>> /\ phase \in {"apply", "stubs"}
    BY <1>5, ApplyFrame
  <2>2. \A i \in Rels : IsRelaxed(i)
    BY <2>1, Progress
  <2> QED BY <1>1, <1>3, <2>1, <2>2 DEF RelaxInv, Kind
<1> QED BY <1>2, <1>4, <1>5 DEF Next

-----------------------------------------------------------------------------
(* The apply: what it writes.                                              *)

\* What an apply writes is for the symbol as it is, or an error is reported.
LEMMA ApplyWrites ==
  ASSUME TypeOK, LinkInv, Filling, errors' = {},
         Alloc(at), Kind(at) \notin Got \cup Branches, place[at] = Unrelocated
  PROVE  Writing(link.bits, out, Kind(at), place'[at], dynrel'[at],
                 sym[SymOf(at)], Has(SymOf(at), "PLT"), Has(SymOf(at), "Rel"))
<1> DEFINE y == SymOf(at)
           plt == Has(y, "PLT")
           rel == Has(y, "Rel")
           s == sym[y]
<1>0. /\ dynrel \in [Rels -> DynRels] /\ place \in [Rels -> Values] /\ link.bits \in {32, 64}
      /\ at \in Rels
  BY LinkFacts, FillingFrame DEF TypeOK
<1>1. symValue(y) = Value(s) /\ Target(y) = TargetFor(s, plt)
  BY DEF symValue, Value, Target, TargetFor, Defined
<1>2. \A d : ~Report(d)
  BY DEF Report
<1>3. \A v : Write(v) => place'[at] = v
  BY <1>0 DEF Write
<1>4. \A v : SetAddend(v) => dynrel'[at].addend = v
  BY <1>0 DEF SetAddend, DynRels
<1>5. dynrel'[at].kind = dynrel[at].kind
  BY <1>0, FillingFrame
<1>6. CASE ApplyAbs32
  <2>1. /\ link.bits # 64 /\ Kind(at) = "abs"
        /\ place'[at] = IF s.bind # "Local" /\ rel /\ Foreign(out, s)
                        THEN place[at] ELSE Target(y) ++ The("A")
    BY <1>3, <1>6 DEF ApplyAbs32, Applying, is64, Written, Skipped, helper_use_relative_reloc
  <2>2. place[at] = The("A")
    BY <2>1 DEF Unrelocated, is64
  <2>3. AbsWriting(link.bits, out, place'[at], dynrel'[at], s, plt, rel)
    <3> HIDE DEF s, plt, y, rel
    <3> QED BY <1>1, <2>1, <2>2 DEF AbsWriting
  <2> QED BY <2>1, <2>3 DEF Writing
<1>7. CASE ApplyAbs64
  <2> DEFINE v == Target(y) ++ The("A")
             own == s.bind # "Local" /\ dynrel[at].kind = "own"
  <2>1. /\ link.bits = 64 /\ Kind(at) \in {"abs", "narrow"}
        /\ Recorded(at) <=> dynrel'[at].kind \in {"RELATIVE", "own"}
    BY <1>5, <1>7 DEF ApplyAbs64, Applying, is64, Recorded
  <2>2. \/ ~Recorded(at) /\ place'[at] = v
        \/ Recorded(at) /\ dynrel'[at].addend = IF own THEN The("A") ELSE v
    BY <1>3, <1>4, <1>7 DEF ApplyAbs64
  <2>3. AbsWriting(link.bits, out, place'[at], dynrel'[at], s, plt, rel)
    <3> HIDE DEF s, plt, y, rel
    <3> QED BY <1>1, <1>5, <2>1, <2>2 DEF AbsWriting
  <2> QED BY <2>1, <2>3 DEF Writing
<1>8. CASE ApplyMov
  <2>1. link.bits # 64 /\ Kind(at) = "mov" /\ place'[at] = Target(y) ++ The("A")
    BY <1>3, <1>8 DEF ApplyMov, Applying, is64, Written
  <2> QED BY <1>1, <2>1 DEF Writing
<1>9. CASE ApplyRel
  <2>1. /\ Kind(at) \in {"rel", "page", "prel31"}
        /\ place'[at] = (Target(y) ++ The("A")) -- The("P")
    BY <1>3, <1>9 DEF ApplyRel, Applying, Written
  <2> QED BY <1>1, <2>1 DEF Writing
<1>10. CASE ApplyMovRel
  <2>1. Kind(at) = "movrel" /\ place'[at] = (symValue(y) ++ The("A")) -- The("P")
    BY <1>3, <1>10 DEF ApplyMovRel, Applying, Written
  <2> QED BY <1>1, <2>1 DEF Writing
<1>11. CASE ApplyLo12
  <2>1. Kind(at) = "lo12" /\ place'[at] = symValue(y) ++ The("A")
    BY <1>3, <1>11 DEF ApplyLo12, Applying, Written
  <2> QED BY <1>1, <2>1 DEF Writing
<1>12. CASE ApplyGotoff
  <2>1. Kind(at) = "gotoff" /\ place'[at] = (symValue(y) ++ The("A")) -- The("ORG")
    BY <1>3, <1>12 DEF ApplyGotoff, Applying, Written
  <2> QED BY <1>1, <2>1 DEF Writing
<1>13. ~ApplyDebug /\ ~ApplyGot /\ ~ApplyNop /\ ~ApplyBranch /\ ~ApplyUnsupported
  BY <1>2 DEF ApplyDebug, ApplyGot, ApplyNop, ApplyBranch, ApplyUnsupported, Applying
<1> QED BY <1>6, <1>7, <1>8, <1>9, <1>10, <1>11, <1>12, <1>13 DEF Filling

\* The apply of a branch.
LEMMA BranchWrites ==
  ASSUME TypeOK, Filling, Kind(at) \in Branches, ~Refused(at)
  PROVE  \/ /\ FallsThrough(at)
            /\ <<"badreloc", at>> \notin errors' /\ instr'[at] = "NOP"
         \/ ~FallsThrough(at) /\ CannotSwitch(at) /\ <<"badreloc", at>> \in errors'
         \/ /\ ~FallsThrough(at) /\ ~CannotSwitch(at) /\ <<"badreloc", at>> \notin errors'
            /\ place'[at] = BranchValue(at)
            /\ instr'[at] = IF Switches(at) THEN "BLX" ELSE "BL"
<1>0. /\ instr \in [Rels -> Instructions] /\ place \in [Rels -> Values] /\ at \in Rels
  BY FillingFrame DEF TypeOK, Instructions
<1>1. ApplyNop \/ ApplyBranch
  <2>1. Kind(at) \in {"call", "jump", "thm_call", "thm_jump", "cond", "thm_cond"}
    BY DEF Branches, Relaxable
  <2> QED BY <2>1 DEF Filling, ApplyDebug, ApplyUnsupported, ApplyAbs32, ApplyMov, ApplyAbs64,
          ApplyRel, ApplyMovRel, ApplyLo12, ApplyGotoff, ApplyGot, Applying, Got
<1>2. CASE ApplyNop
  <2>1. FallsThrough(at) /\ errors' = errors
    BY <1>2 DEF ApplyNop, Applying, FallsThrough
  <2>2. instr'[at] = "NOP"
    BY <1>0, <1>2 DEF ApplyNop
  <2> QED BY <2>1, <2>2 DEF Refused
<1>3. CASE ApplyBranch
  <2>1. ~FallsThrough(at)
    BY <1>3 DEF ApplyBranch, FallsThrough
  <2>2. CASE CannotSwitch(at)
    <3>1. Report("badreloc")
      BY <1>3, <2>2 DEF ApplyBranch, CannotSwitch
    <3> QED BY <2>1, <2>2, <3>1 DEF Report
  <2>3. CASE ~CannotSwitch(at)
    <3>1. /\ Write(BranchValue(at))
          /\ instr' = [instr EXCEPT ![at] = IF Switches(at) THEN "BLX" ELSE "BL"]
          /\ errors' = errors
      BY <1>3, <2>3 DEF ApplyBranch, CannotSwitch
    <3>2. place'[at] = BranchValue(at)
      BY <1>0, <3>1 DEF Write
    <3>3. instr'[at] = IF Switches(at) THEN "BLX" ELSE "BL"
      BY <1>0, <3>1
    <3> QED BY <2>1, <2>3, <3>1, <3>2, <3>3 DEF Refused
  <2> QED BY <2>2, <2>3
<1> QED BY <1>1, <1>2, <1>3

LEMMA ApplyStep ==
  ASSUME TypeOK, LinkInv, SymbolsInv, ApplyInv, Next
  PROVE  ApplyInv'
<1>1. /\ link' = link /\ Rels' = Rels /\ out' = out /\ is64' = is64
      /\ Unrelocated' = Unrelocated /\ errors \subseteq errors'
  <2>1. link' = link /\ errors \subseteq errors'
    BY ScanFrame, RelaxFrame, ApplyFrame DEF Next
  <2> QED BY <2>1 DEF Rels, out, is64, Unrelocated
<1>2. ASSUME NEW i \in Rels, ~IsApplied(i)'
      PROVE  place'[i] = Unrelocated
  <2>1. place[i] = Unrelocated /\ ~(phase = "apply" /\ i = at)
    BY <1>2, Progress DEF ApplyInv
  <2>2. place'[i] = place[i]
    <3>1. CASE Scan \/ Relax
      BY <3>1, ScanFrame, RelaxFrame DEF image
    <3>2. CASE Apply
      BY <2>1, <3>2, ApplyFrame
    <3> QED BY <3>1, <3>2 DEF Next
  <2> QED BY <2>1, <2>2
<1>3. ASSUME NEW i \in Rels, IsApplied(i)', errors' = {}, Alloc(i), Kind(i) \notin Got \cup Branches
      PROVE  /\ UNCHANGED <<sym, reserved>>
             /\ Writing(link.bits, out, Kind(i), place'[i], dynrel'[i], sym[SymOf(i)],
                        Has(SymOf(i), "PLT"), Has(SymOf(i), "Rel"))
  <2>1. Apply
    <3>1. phase \notin {"scan", "relax"}
      BY <1>3, Progress
    <3> QED BY <3>1, ScanFrame, RelaxFrame DEF Next
  <2>2. UNCHANGED <<sym, reserved>>
    BY <2>1, ApplyFrame
  <2>3. CASE phase = "apply" /\ i = at
    <3>1. Filling
      BY <2>1, <2>3, ApplyFrame
    <3>2. ~IsApplied(i)
      <4>1. IsApplied(i) <=> i < at
        BY <2>3, Progress
      <4>2. at \in 1..(Len(link.rels) + 1) /\ Len(link.rels) \in Nat
        BY RelsType DEF TypeOK
      <4> QED BY <2>3, <4>1, <4>2
    <3>3. place[at] = Unrelocated
      BY <2>3, <3>2 DEF ApplyInv
    <3>4. Alloc(at) /\ Kind(at) \notin Got \cup Branches
      BY <1>3, <2>3
    <3> QED BY <1>3, <2>2, <2>3, <3>1, <3>3, <3>4, ApplyWrites
  <2>4. CASE ~(phase = "apply" /\ i = at)
    <3>1. IsApplied(i)
      BY <1>3, <2>4, Progress
    <3>2. errors = {}
      BY <1>1, <1>3
    <3>3. Wrote(i)
      BY <1>3, <3>1, <3>2 DEF ApplyInv
    <3>4. place'[i] = place[i] /\ dynrel'[i] = dynrel[i]
      BY <2>1, <2>4, ApplyFrame
    <3> QED BY <2>2, <3>3, <3>4 DEF Wrote
  <2> QED BY <2>3, <2>4
<1>4. ASSUME NEW i \in Rels, IsApplied(i)', errors' = {}, Alloc(i)', Kind(i)' \notin Got \cup Branches
      PROVE  Wrote(i)'
  <2>1. Alloc(i) /\ Kind(i)' = Kind(i) /\ SymOf(i)' = SymOf(i)
    BY <1>1, <1>4 DEF Alloc, Kind, SymOf
  <2>2. /\ UNCHANGED <<sym, reserved>>
        /\ Writing(link.bits, out, Kind(i), place'[i], dynrel'[i], sym[SymOf(i)],
                   Has(SymOf(i), "PLT"), Has(SymOf(i), "Rel"))
    BY <1>3, <1>4, <2>1
  <2> QED BY <1>1, <2>1, <2>2 DEF Wrote, Has
<1> QED BY <1>1, <1>2, <1>4 DEF ApplyInv

LEMMA BranchStep ==
  ASSUME TypeOK, BranchInv, Next
  PROVE  BranchInv'
<1>0. link' = link /\ Rels' = Rels
  <2>1. link' = link
    BY ScanFrame, RelaxFrame, ApplyFrame DEF Next
  <2> QED BY <2>1 DEF Rels
<1>1. CASE Scan \/ Relax
  <2>1. /\ \A i \in Rels : <<"badreloc", i>> \in errors' => Refused(i)
        /\ phase \in {"scan", "relax"}
    BY <1>1, ScanFrame, RelaxFrame DEF Refused
  <2>2. \A i \in Rels : ~IsApplied(i) /\ ~IsApplied(i)' /\ ~IsStubbed(i)'
    BY <2>1, Progress
  <2> QED BY <1>0, <2>1, <2>2 DEF BranchInv, Kind, Refused
<1>2. CASE Apply
  <2>1. UNCHANGED <<link, sym, reserved, stub>>
    BY <1>2, ApplyFrame
  <2>2. ASSUME NEW i
        PROVE  /\ Kind(i)' = Kind(i) /\ FallsThrough(i)' = FallsThrough(i)
               /\ CannotSwitch(i)' = CannotSwitch(i) /\ Switches(i)' = Switches(i)
               /\ BranchValue(i)' = BranchValue(i) /\ Fixups(i)' = Fixups(i)
    <3>1. /\ Kind(i)' = Kind(i) /\ SymOf(i)' = SymOf(i) /\ is64' = is64 /\ out' = out
          /\ \A y, bit : Has(y, bit)' = Has(y, bit)
          /\ \A y : symValue(y)' = symValue(y)
      BY <2>1 DEF Kind, SymOf, is64, out, Has, symValue, Defined
    <3>2. \A y : Target(y)' = Target(y) /\ Skipped(y)' = Skipped(y) /\ Nowhere(y)' = Nowhere(y)
      BY <2>1, <3>1 DEF Target, Skipped, Nowhere
    <3>3. Switches(i)' = Switches(i)
      BY <2>1, <3>1 DEF Switches, ThumbCode, Thumb, Defined
    <3>4. FallsThrough(i)' = FallsThrough(i) /\ CannotSwitch(i)' = CannotSwitch(i)
      BY <2>1, <3>1, <3>2, <3>3 DEF FallsThrough, CannotSwitch
    <3>5. BranchValue(i)' = BranchValue(i) /\ Fixups(i)' = Fixups(i)
      BY <2>1, <3>1, <3>2 DEF BranchValue, Fixups
    <3> QED BY <3>1, <3>3, <3>4, <3>5
  <2>3. ASSUME NEW i \in Rels, Kind(i) \in Branches, ~IsApplied(i)'
        PROVE  <<"badreloc", i>> \notin errors'
    <3>1. ~Refused(i) /\ ~(phase = "apply" /\ i = at)
      BY <2>3, Progress DEF BranchInv
    <3> QED BY <1>2, <3>1, ApplyFrame DEF Refused
  <2>4. ASSUME NEW i \in Rels, Kind(i) \in Branches, IsApplied(i)'
        PROVE  BranchDone(i)'
    <3>1. CASE phase = "apply" /\ i = at
      <4>1. ~IsApplied(i)
        <5>1. IsApplied(i) <=> i < at
          BY <3>1, Progress
        <5>2. at \in 1..(Len(link.rels) + 1) /\ Len(link.rels) \in Nat
          BY RelsType DEF TypeOK
        <5> QED BY <3>1, <5>1, <5>2
      <4>2. ~Refused(at) /\ Filling /\ Kind(at) \in Branches
        BY <1>2, <2>4, <3>1, <4>1, ApplyFrame DEF BranchInv
      <4>3. \/ /\ FallsThrough(i)
               /\ <<"badreloc", i>> \notin errors' /\ instr'[i] = "NOP"
            \/ ~FallsThrough(i) /\ CannotSwitch(i) /\ <<"badreloc", i>> \in errors'
            \/ /\ ~FallsThrough(i) /\ ~CannotSwitch(i) /\ <<"badreloc", i>> \notin errors'
               /\ place'[i] = BranchValue(i)
               /\ instr'[i] = IF Switches(i) THEN "BLX" ELSE "BL"
        BY <3>1, <4>2, BranchWrites
      <4> QED BY <2>2, <4>3 DEF BranchDone, Refused
    <3>2. CASE ~(phase = "apply" /\ i = at)
      <4>1. BranchDone(i)
        BY <2>4, <3>2, Progress DEF BranchInv
      <4>2. /\ place'[i] = place[i] /\ instr'[i] = instr[i]
            /\ <<"badreloc", i>> \in errors' <=> Refused(i)
        BY <1>2, <3>2, ApplyFrame DEF Refused
      <4> QED BY <2>2, <4>1, <4>2 DEF BranchDone, Refused
    <3> QED BY <3>1, <3>2
  <2>5. ASSUME NEW i \in Rels, Kind(i) \in Branches, IsStubbed(i)'
        PROVE  veneer'[i] = IF stub[i] = "none" THEN <<>> ELSE Fixups(i)
    <3>1. CASE phase = "stubs" /\ i = at
      BY <1>2, <3>1, ApplyFrame
    <3>2. CASE ~(phase = "stubs" /\ i = at)
      <4>1. IsStubbed(i)
        BY <2>5, <3>2, Progress
      <4>2. veneer'[i] = veneer[i]
        BY <1>2, <3>2, ApplyFrame
      <4> QED BY <2>5, <4>1, <4>2 DEF BranchInv
    <3> QED BY <3>1, <3>2
  <2> QED BY <1>0, <2>1, <2>2, <2>3, <2>4, <2>5 DEF BranchInv, Refused
<1> QED BY <1>1, <1>2 DEF Next

-----------------------------------------------------------------------------
(* The GOT.                                                                *)

\* The entry a scan makes, before anything is filled.
LEMMA EntryMade ==
  ASSUME TypeOK, SymbolsInv, NEW y \in Symbols, at \in Rels,
         NEW hasRel, GOT_init(y, hasRel),
         hasRel = IF sym[y].bind = "Local" THEN isCodeIndep(out)
                  ELSE ~symbolFinalValueIsKnown(out, sym[y])
  PROVE  /\ UNCHANGED sym
         /\ \/ dynrel'[at].kind = "GLOB_DAT"
            \/ /\ dynrel'[at].kind = "RELATIVE"
               /\ isCodeIndep(out) /\ ~Foreign(out, sym[y])
               /\ (IF is64 THEN dynrel'[at].addend ELSE got'[y]) = SymVal
            \/ /\ dynrel'[at].kind = "none"
               /\ ~sym[y].dyn
               /\ \/ ~isCodeIndep(out) /\ ~Foreign(out, sym[y])
                  \/ Undef(sym[y]) /\ isExecutable(out)
               /\ got'[y] = SymVal
<1>0. /\ sym[y] \in SymbolInfos /\ out \in Outputs /\ Sound(out, sym[y], Has(y, "PLT"))
      /\ dynrel \in [Rels -> DynRels] /\ got \in [Symbols -> Values]
  BY LinkFacts DEF SymbolsInv, TypeOK
<1> DEFINE relative == helper_use_relative_reloc(out, sym[y])
<1>1. /\ UNCHANGED sym
      /\ got'[y] = IF hasRel /\ ~relative THEN Zero ELSE SymVal
      /\ dynrel'[at] = IF ~hasRel THEN DynRel("none")
                       ELSE IF ~relative THEN DynRel("GLOB_DAT")
                       ELSE [kind |-> "RELATIVE", addend |-> IF is64 THEN SymVal ELSE Zero]
  BY <1>0 DEF GOT_init
<1>2. relative <=> ~Foreign(out, sym[y])
  BY DEF helper_use_relative_reloc
<1>3. sym[y].bind = "Local" => ~Foreign(out, sym[y]) /\ ~sym[y].dyn
  BY <1>0 DEF Sound, Foreign, isSymbolPreemptible, Undef, SymbolInfos
<1>4. hasRel /\ ~Foreign(out, sym[y]) => isCodeIndep(out)
  BY <1>0 DEF symbolFinalValueIsKnown, Foreign, isExecutable, isCodeIndep, CodePosition, Outputs
<1>5. ~hasRel =>
        /\ ~sym[y].dyn
        /\ \/ ~isCodeIndep(out) /\ ~Foreign(out, sym[y])
           \/ Undef(sym[y]) /\ isExecutable(out)
  BY <1>3 DEF symbolFinalValueIsKnown, Foreign, isExecutable, isSymbolPreemptible
<1> HIDE DEF relative
<1>6. CASE ~hasRel
  BY <1>1, <1>5, <1>6 DEF DynRel
<1>7. CASE hasRel /\ relative
  <2>1. dynrel'[at] = [kind |-> "RELATIVE", addend |-> IF is64 THEN SymVal ELSE Zero]
    BY <1>1, <1>7
  <2>2. ~is64 => got'[y] = SymVal
    BY <1>1, <1>7
  <2>3. isCodeIndep(out) /\ ~Foreign(out, sym[y])
    BY <1>2, <1>4, <1>7
  <2>4. dynrel'[at].kind = "RELATIVE" /\ (is64 => dynrel'[at].addend = SymVal)
    BY <2>1
  <2> QED BY <1>1, <2>2, <2>3, <2>4
<1>8. CASE hasRel /\ ~relative
  <2>1. dynrel'[at] = DynRel("GLOB_DAT")
    BY <1>1, <1>8
  <2> QED BY <1>1, <2>1 DEF DynRel
<1> QED BY <1>6, <1>7, <1>8

\* A copy changes no symbol of this output, and no scan an entry that was made.
LEMMA ScanGotFrame ==
  ASSUME TypeOK, Scan, NEW y \in Symbols
  PROVE  /\ ~sym[y].dyn => sym'[y] = sym[y]
         /\ Has(y, "GOT") => got'[y] = got[y]
         /\ at \in Rels /\ Kind(at) \in Got /\ Alloc(at) => "GOT" \in reserved'[SymOf(at)]
         /\ "GOT" \in reserved'[y] /\ ~Has(y, "GOT") =>
              /\ at \in Rels /\ IsGot(at, y)
              /\ \E hasRel :
                   /\ GOT_init(y, hasRel)
                   /\ hasRel = IF sym[y].bind = "Local" THEN isCodeIndep(out)
                               ELSE ~symbolFinalValueIsKnown(out, sym[y])
<1>0. /\ reserved \in [Symbols -> SUBSET {"Rel", "GOT", "PLT"}]
      /\ sym \in [Symbols -> SymbolInfos] /\ got \in [Symbols -> Values]
  BY RelsType DEF TypeOK
<1>1. ASSUME ~sym[y].dyn PROVE sym'[y] = sym[y]
  <2>1. CASE sym' = sym
    BY <2>1
  <2>2. CASE sym[SymOf(at)].dyn /\ CopyReloc(SymOf(at))
    BY <1>0, <1>1, <2>2 DEF CopyReloc
  <2> QED BY <2>1, <2>2, ScanKeeps DEF symbolNeedsCopyReloc
<1>2. ASSUME "GOT" \in reserved'[y], ~Has(y, "GOT")
      PROVE  ScanGot /\ SymOf(at) = y
  <2>1. reserved' # reserved
    BY <1>2 DEF Has
  <2>2. \A z, bits : Reserve(z, bits) => z = y /\ "GOT" \in bits
    BY <1>0, <1>2 DEF Reserve, Has
  <2>3. ASSUME NEW z, NEW e \in SUBSET {"PLT"}, NEW n, NEW k PROVE ~ReserveFor(z, e, n, k)
    BY <2>2 DEF ReserveFor
  <2>4. \A z, e : e \in SUBSET {"PLT"} => ~Reserve(z, e)
    BY <2>2
  <2>5. \A z : ~Reserve(z, {"Rel"})
    <3>1. "GOT" \notin {"Rel"}
      OBVIOUS
    <3> QED BY <2>2, <3>1, Zenon
  <2>6. ~ScanGlobalAbs
    <3> SUFFICES ASSUME ScanGlobalAbs PROVE FALSE
      OBVIOUS
    <3> DEFINE entry == IF symbolNeedsPLT(out, sym[SymOf(at)]) THEN {"PLT"} ELSE {}
    <3>1. \E n, k : ReserveFor(SymOf(at), entry, n, k)
      BY DEF ScanGlobalAbs
    <3>2. entry \in SUBSET {"PLT"}
      OBVIOUS
    <3> HIDE DEF entry
    <3> QED BY <2>3, <3>1, <3>2
  <2>7. ~ScanGlobalRel
    <3> SUFFICES ASSUME ScanGlobalRel PROVE FALSE
      OBVIOUS
    <3> DEFINE entry == IF is64 /\ symbolNeedsPLT(out, sym[SymOf(at)]) /\ out.codeGen # "DynObj"
                        THEN {"PLT"} ELSE {}
    <3>1. \E n, k : ReserveFor(SymOf(at), entry, n, k)
      BY DEF ScanGlobalRel
    <3>2. entry \in SUBSET {"PLT"}
      OBVIOUS
    <3> HIDE DEF entry
    <3> QED BY <2>3, <3>1, <3>2
  <2>8. ~ScanGlobalPage
    <3> SUFFICES ASSUME ScanGlobalPage PROVE FALSE
      OBVIOUS
    <3> DEFINE entry == IF symbolNeedsPLT(out, sym'[SymOf(at)]) THEN {"PLT"} ELSE {}
    <3>1. Reserve(SymOf(at), entry)
      BY DEF ScanGlobalPage
    <3>2. entry \in SUBSET {"PLT"}
      OBVIOUS
    <3> HIDE DEF entry
    <3> QED BY <2>4, <3>1, <3>2
  <2>9. ~ScanGlobalBranch
    <3>1. {"PLT"} \in SUBSET {"PLT"}
      OBVIOUS
    <3> QED BY <2>1, <2>4, <3>1 DEF ScanGlobalBranch
  <2>10. ~ScanLocalAbs
    BY <2>5, <2>1 DEF ScanLocalAbs, tables
  <2>11. ScanGot
    BY <2>1, <2>6, <2>7, <2>8, <2>9, <2>10
       DEF Scan, ScanDebug, ScanNothing, EndScan, tables
  <2> QED BY <2>1, <2>2, <2>11 DEF ScanGot, GOT_init, tables
<1>3. ASSUME Has(y, "GOT") PROVE got'[y] = got[y]
  <2>1. CASE ScanGot
    BY <1>0, <1>3, <2>1 DEF ScanGot, GOT_init, tables
  <2>2. CASE ~ScanGot
    <3>1. UNCHANGED got
      BY <2>2 DEF Scan, ScanDebug, ScanNothing, ScanLocalAbs, ScanGlobalPage, ScanGlobalBranch,
         ScanGlobalAbs, ScanGlobalRel, EndScan, tables, DynRelOnPlace, ReserveFor, CopyReloc
    <3> QED BY <3>1
  <2> QED BY <2>1, <2>2
<1>4. ASSUME "GOT" \in reserved'[y], ~Has(y, "GOT")
      PROVE  /\ at \in Rels /\ IsGot(at, y)
             /\ \E hasRel :
                  /\ GOT_init(y, hasRel)
                  /\ hasRel = IF sym[y].bind = "Local" THEN isCodeIndep(out)
                              ELSE ~symbolFinalValueIsKnown(out, sym[y])
  <2>1. ScanGot /\ SymOf(at) = y
    BY <1>2, <1>4
  <2>2. at \in Rels /\ IsGot(at, y)
    BY <2>1 DEF ScanGot, Scanning, IsGot
  <2>3. ~(UNCHANGED tables)
    BY <1>4 DEF tables, Has
  <2> QED BY <1>4, <2>1, <2>2, <2>3 DEF ScanGot
<1>5. ASSUME at \in Rels, Kind(at) \in Got, Alloc(at)
      PROVE  "GOT" \in reserved'[SymOf(at)]
  <2>1. Kind(at) \notin {"abs", "narrow", "mov", "rel", "movrel", "page", "gotoff", "lo12", "prel31"}
        /\ Kind(at) \notin Branches
    BY <1>5 DEF Got, Branches, Relaxable
  <2>2. ScanGot
    BY <1>5, <2>1 DEF Scan, ScanDebug, ScanNothing, ScanLocalAbs, ScanGlobalAbs, ScanGlobalRel,
       ScanGlobalPage, ScanGlobalBranch, EndScan, Scanning
  <2>3. SymOf(at) \in Symbols
    BY <1>5, RelsType
  <2> QED BY <1>0, <2>2, <2>3 DEF ScanGot, GOT_init, Reserve, Has, tables
<1> QED BY <1>1, <1>3, <1>4, <1>5

LEMMA GotStep ==
  ASSUME TypeOK, GotInv, Next
  PROVE  GotInv'
<1>0. link' = link /\ Rels' = Rels
  <2>1. link' = link
    BY ScanFrame, RelaxFrame, ApplyFrame DEF Next
  <2> QED BY <2>1 DEF Rels
<1>1. ASSUME NEW i \in Rels, IsScanned(i)', Kind(i) \in Got, Alloc(i)
      PROVE  "GOT" \in reserved'[SymOf(i)]
  <2>0. SymOf(i) \in Symbols
    BY RelsType
  <2>1. CASE phase = "scan" /\ i = at
    <3>1. Scan
      BY <2>1, RelaxFrame, ApplyFrame DEF Next
    <3> QED BY <1>1, <2>0, <2>1, <3>1, ScanGotFrame
  <2>2. CASE ~(phase = "scan" /\ i = at)
    <3>1. Has(SymOf(i), "GOT")
      BY <1>1, <2>2, Progress DEF GotInv
    <3>2. reserved[SymOf(i)] \subseteq reserved'[SymOf(i)]
      BY <2>0, ScanKeeps, RelaxFrame, ApplyFrame DEF Next, tables
    <3> QED BY <3>1, <3>2 DEF Has
  <2> QED BY <2>1, <2>2
<1> QED BY <1>0, <1>1 DEF GotInv, Has, Kind, Alloc, SymOf

\* An entry is as right after a step as before it, if its creator and the
\* symbol stand and what was open stays open or is filled.
LEMMA EntryStays ==
  ASSUME NEW i, NEW y, EntryHolds(i, y), ~sym[y].dyn => sym'[y] = sym[y],
         link' = link, dynrel'[i].kind = dynrel[i].kind,
         ~sym[y].dyn => (Filled(got[y], i, y) => Filled(got[y], i, y)'),
         ~sym[y].dyn /\ is64 /\ dynrel[i].kind = "RELATIVE" =>
           (Filled(dynrel[i].addend, i, y) => Filled(dynrel[i].addend, i, y)')
  PROVE  EntryHolds(i, y)'
<1>0. out' = out /\ is64' = is64 /\ (~Foreign(out, sym[y]) => ~sym[y].dyn)
  BY DEF out, is64, Foreign
<1>1. CASE dynrel[i].kind = "GLOB_DAT"
  BY <1>1 DEF EntryHolds
<1>2. CASE /\ dynrel[i].kind = "RELATIVE"
           /\ isCodeIndep(out) /\ ~Foreign(out, sym[y])
           /\ Filled(IF is64 THEN dynrel[i].addend ELSE got[y], i, y)
  <2>1. sym'[y] = sym[y]
    BY <1>0, <1>2
  <2>2. Filled(IF is64 THEN dynrel[i].addend ELSE got[y], i, y)'
    <3>1. CASE is64
      <4>1. Filled(dynrel[i].addend, i, y)'
        BY <1>0, <1>2, <3>1
      <4> QED BY <1>0, <3>1, <4>1 DEF Filled
    <3>2. CASE ~is64
      <4>1. Filled(got[y], i, y)'
        BY <1>0, <1>2, <3>2
      <4> QED BY <1>0, <3>2, <4>1 DEF Filled
    <3> QED BY <3>1, <3>2
  <2> QED BY <1>0, <1>2, <2>1, <2>2 DEF EntryHolds
<1>3. CASE /\ dynrel[i].kind = "none"
           /\ ~sym[y].dyn
           /\ \/ ~isCodeIndep(out) /\ ~Foreign(out, sym[y])
              \/ Undef(sym[y]) /\ isExecutable(out)
           /\ Filled(got[y], i, y)
  <2>1. sym'[y] = sym[y]
    BY <1>3
  <2>2. Filled(got[y], i, y)'
    BY <1>3
  <2> QED BY <1>0, <1>3, <2>1, <2>2 DEF EntryHolds
<1> QED BY <1>1, <1>2, <1>3 DEF EntryHolds

LEMMA ScanEntries ==
  ASSUME TypeOK, SymbolsInv, GotInv, EntryInv, Scan
  PROVE  EntryInv'
<1>1. /\ link' = link /\ phase = "scan"
      /\ \A i \in Rels : i # at => dynrel'[i] = dynrel[i]
  BY ScanFrame
<1>2. Rels' = Rels /\ out' = out /\ is64' = is64
      /\ \A i, y : IsCreator(i, y)' <=> IsCreator(i, y)
  BY <1>1 DEF Rels, out, is64, IsCreator, IsGot, SymOf, Kind, Alloc
<1>3. ASSUME NEW i \in Rels
      PROVE  /\ IsScanned(i) => i # at
             /\ IsScanned(i) \/ i = at => IsScanned(i)'
             /\ ~IsApplied(i) /\ ~IsApplied(i)'
             /\ IsScanned(i) <=> i < at
  <2>1. i \in Int /\ at \in Int
    <3>1. /\ Rels = 1..Len(link.rels) /\ Len(link.rels) \in Nat
          /\ at \in 1..(Len(link.rels) + 1)
      BY RelsType DEF TypeOK
    <3> QED BY <3>1
  <2>2. IsScanned(i) <=> i < at
    BY <1>1, Progress DEF Next
  <2> QED BY <1>1, <2>1, <2>2, Progress DEF Next
<1>4. ASSUME NEW y \in Symbols, "GOT" \in reserved'[y]
      PROVE  \E i \in Rels : IsScanned(i)' /\ IsCreator(i, y) /\ EntryHolds(i, y)'
  <2>0. ~sym[y].dyn => sym'[y] = sym[y]
    BY ScanGotFrame
  <2>1. CASE Has(y, "GOT")
    <3>1. PICK i \in Rels : IsScanned(i) /\ IsCreator(i, y) /\ EntryHolds(i, y)
      BY <2>1 DEF EntryInv
    <3>2. i # at /\ IsScanned(i)' /\ ~IsApplied(i)' /\ ~IsApplied(i)
      BY <1>3, <3>1
    <3>3. dynrel'[i] = dynrel[i] /\ got'[y] = got[y]
      BY <1>1, <2>1, <3>2, ScanGotFrame
    <3>4. ~sym[y].dyn => symValue(y)' = symValue(y)
      BY <2>0 DEF symValue, Defined
    <3>5. ~sym[y].dyn => (Filled(got[y], i, y) => Filled(got[y], i, y)')
      BY <3>2, <3>3, <3>4 DEF Filled
    <3>6. ~sym[y].dyn => (Filled(dynrel[i].addend, i, y) => Filled(dynrel[i].addend, i, y)')
      BY <3>2, <3>3, <3>4 DEF Filled
    <3>7. EntryHolds(i, y)'
      BY <1>1, <2>0, <3>1, <3>3, <3>5, <3>6, EntryStays
    <3> QED BY <3>1, <3>2, <3>7
  <2>2. CASE ~Has(y, "GOT")
    <3>1. /\ at \in Rels /\ IsGot(at, y)
          /\ \E hasRel :
               /\ GOT_init(y, hasRel)
               /\ hasRel = IF sym[y].bind = "Local" THEN isCodeIndep(out)
                           ELSE ~symbolFinalValueIsKnown(out, sym[y])
      BY <1>4, <2>2, ScanGotFrame
    <3>2. /\ sym' = sym
          /\ \/ dynrel'[at].kind = "GLOB_DAT"
             \/ /\ dynrel'[at].kind = "RELATIVE"
                /\ isCodeIndep(out) /\ ~Foreign(out, sym[y])
                /\ (IF is64 THEN dynrel'[at].addend ELSE got'[y]) = SymVal
             \/ /\ dynrel'[at].kind = "none"
                /\ ~sym[y].dyn
                /\ \/ ~isCodeIndep(out) /\ ~Foreign(out, sym[y])
                   \/ Undef(sym[y]) /\ isExecutable(out)
                /\ got'[y] = SymVal
      BY <3>1, EntryMade
    <3>3. IsCreator(at, y)
      <4>1. ASSUME NEW j \in 1..(at - 1), IsGot(j, y)
            PROVE  FALSE
        <5>1. j \in Rels /\ j < at
          BY <3>1, RelsType
        <5>2. IsScanned(j)
          BY <1>3, <5>1
        <5> QED BY <2>2, <4>1, <5>1, <5>2 DEF GotInv, IsGot
      <4> QED BY <3>1, <4>1 DEF IsCreator
    <3>5. PICK i \in Rels : i = at
      BY <3>1
    <3>6. IsScanned(i)' /\ ~IsApplied(i)'
      BY <1>3, <3>5
    <3>7. EntryHolds(i, y)'
      BY <1>2, <3>2, <3>5, <3>6 DEF EntryHolds, Filled
    <3> QED BY <3>3, <3>5, <3>6, <3>7
  <2> QED BY <2>1, <2>2
<1> QED BY <1>2, <1>4 DEF EntryInv, Has

\* What an application of a GOT relocation fills.
LEMMA ApplyFills ==
  ASSUME TypeOK, Filling, NEW y \in Symbols
  PROVE  /\ got'[y] = got[y] \/ (got[y] = SymVal /\ got'[y] = symValue(y))
         /\ SymOf(at) = y /\ Kind(at) \in Got /\ Has(y, "GOT") =>
              /\ got'[y] = IF got[y] = SymVal THEN symValue(y) ELSE got[y]
              /\ dynrel'[at].addend = IF Recorded(at) /\ dynrel[at].addend = SymVal
                                      THEN symValue(y) ELSE dynrel[at].addend
<1>0. got \in [Symbols -> Values] /\ dynrel \in [Rels -> DynRels] /\ at \in Rels
  BY FillingFrame DEF TypeOK, DynRels
<1>1. CASE ApplyGot
  <2>1. CASE ~Has(SymOf(at), "GOT")
    BY <1>1, <2>1 DEF ApplyGot, Report
  <2>2. CASE Has(SymOf(at), "GOT")
    <3>1. /\ got' = [got EXCEPT ![SymOf(at)] = IF @ = SymVal THEN symValue(SymOf(at)) ELSE @]
          /\ IF Recorded(at) /\ dynrel[at].addend = SymVal
             THEN SetAddend(symValue(SymOf(at))) ELSE UNCHANGED dynrel
      BY <1>1, <2>2 DEF ApplyGot
    <3>2. \A v : SetAddend(v) => dynrel'[at].addend = v
      BY <1>0 DEF SetAddend, DynRels
    <3>3. got'[y] = IF y = SymOf(at) /\ got[y] = SymVal THEN symValue(y) ELSE got[y]
      BY <1>0, <3>1
    <3>4. dynrel'[at].addend = IF Recorded(at) /\ dynrel[at].addend = SymVal
                               THEN symValue(SymOf(at)) ELSE dynrel[at].addend
      BY <3>1, <3>2
    <3> QED BY <3>3, <3>4
  <2> QED BY <2>1, <2>2
<1>2. CASE ~ApplyGot
  <2>1. UNCHANGED got
    BY <1>2 DEF Filling, ApplyDebug, ApplyUnsupported, ApplyAbs32, ApplyMov, ApplyAbs64, ApplyRel,
       ApplyMovRel, ApplyLo12, ApplyGotoff, ApplyNop, ApplyBranch, Written, Report
  <2>2. Kind(at) \notin Got
    BY <1>2 DEF Filling, ApplyDebug, ApplyUnsupported, ApplyAbs32, ApplyMov, ApplyAbs64, ApplyRel,
       ApplyMovRel, ApplyLo12, ApplyGotoff, ApplyNop, ApplyBranch, Applying, Got, Branches,
       Relaxable
  <2> QED BY <2>1, <2>2
<1> QED BY <1>1, <1>2

LEMMA FillingEntries ==
  ASSUME TypeOK, EntryInv, Filling
  PROVE  EntryInv'
<1>1. /\ UNCHANGED <<link, sym, reserved>> /\ phase = "apply"
      /\ \A i \in Rels : i # at => dynrel'[i] = dynrel[i]
      /\ \A i \in Rels : dynrel'[i].kind = dynrel[i].kind
      /\ Next
  BY FillingFrame DEF Applied, Next, Apply, Filling
<1>2. /\ Rels' = Rels
      /\ \A i, y : IsCreator(i, y)' <=> IsCreator(i, y)
      /\ \A y : symValue(y)' = symValue(y)
  BY <1>1 DEF Rels, IsCreator, IsGot, SymOf, Kind, Alloc, symValue, Defined
<1>3. ASSUME NEW i \in Rels
      PROVE  /\ IsScanned(i)'
             /\ i # at /\ IsApplied(i)' => IsApplied(i)
  BY <1>1, Progress
<1>4. ASSUME NEW y \in Symbols, Has(y, "GOT")
      PROVE  \E i \in Rels : IsScanned(i)' /\ IsCreator(i, y) /\ EntryHolds(i, y)'
  <2>1. PICK i \in Rels : IsScanned(i) /\ IsCreator(i, y) /\ EntryHolds(i, y)
    BY <1>4 DEF EntryInv
  <2>2. /\ SymOf(i) = y /\ Kind(i) \in Got
        /\ dynrel'[i].kind = dynrel[i].kind
    BY <1>1, <2>1 DEF IsCreator, IsGot
  <2>3. /\ got'[y] = got[y] \/ (got[y] = SymVal /\ got'[y] = symValue(y))
        /\ i = at =>
             /\ got'[y] = IF got[y] = SymVal THEN symValue(y) ELSE got[y]
             /\ dynrel'[i].addend = IF Recorded(i) /\ dynrel[i].addend = SymVal
                                    THEN symValue(y) ELSE dynrel[i].addend
    BY <1>4, <2>2, ApplyFills
  <2>4. i # at => dynrel'[i] = dynrel[i]
    BY <1>1
  <2>5. Filled(got[y], i, y) => Filled(got[y], i, y)'
    BY <1>2, <1>3, <2>3 DEF Filled
  <2>6. is64 /\ dynrel[i].kind = "RELATIVE" =>
          (Filled(dynrel[i].addend, i, y) => Filled(dynrel[i].addend, i, y)')
    BY <1>2, <1>3, <2>3, <2>4 DEF Filled, Recorded
  <2>7. EntryHolds(i, y)'
    BY <1>1, <2>1, <2>2, <2>5, <2>6, EntryStays
  <2> QED BY <1>3, <2>1, <2>7
<1> QED BY <1>1, <1>2, <1>4 DEF EntryInv, Has

LEMMA EntryStep ==
  ASSUME TypeOK, SymbolsInv, GotInv, EntryInv, Next
  PROVE  EntryInv'
<1>1. CASE Scan
  BY <1>1, ScanEntries
<1>2. CASE Filling
  BY <1>2, FillingEntries
<1>3. CASE UNCHANGED <<link, sym, reserved, got, dynrel>>
  <2>1. /\ Rels' = Rels
        /\ \A i, y : IsCreator(i, y)' <=> IsCreator(i, y)
        /\ \A y : symValue(y)' = symValue(y)
    BY <1>3 DEF Rels, IsCreator, IsGot, SymOf, Kind, Alloc, symValue, Defined
  <2>2. phase = "apply" /\ at \in Rels => phase' = "apply" /\ Filling
    BY ScanFrame, RelaxFrame, ApplyFrame DEF Next
  <2>3. ASSUME NEW i \in Rels, ~Filling
        PROVE  (IsScanned(i) => IsScanned(i)') /\ (IsApplied(i)' => IsApplied(i))
    BY <2>2, <2>3, Progress
  <2>4. ASSUME NEW y \in Symbols, Has(y, "GOT"), ~Filling
        PROVE  \E i \in Rels : IsScanned(i)' /\ IsCreator(i, y) /\ EntryHolds(i, y)'
    <3>1. PICK i \in Rels : IsScanned(i) /\ IsCreator(i, y) /\ EntryHolds(i, y)
      BY <2>4 DEF EntryInv
    <3>2. IsScanned(i)' /\ (IsApplied(i)' => IsApplied(i))
      BY <2>3, <2>4, <3>1
    <3>3. (Filled(got[y], i, y) => Filled(got[y], i, y)')
      BY <1>3, <2>1, <3>2 DEF Filled
    <3>4. (Filled(dynrel[i].addend, i, y) => Filled(dynrel[i].addend, i, y)')
      BY <1>3, <2>1, <3>2 DEF Filled
    <3>5. EntryHolds(i, y)'
      BY <1>3, <3>1, <3>3, <3>4, EntryStays
    <3> QED BY <3>1, <3>2, <3>5
  <2> QED BY <1>2, <1>3, <2>1, <2>4 DEF EntryInv, Has
<1> QED BY <1>1, <1>2, <1>3, RelaxFrame, ApplyFrame DEF Next, tables

-----------------------------------------------------------------------------
(* What is written and what is performed add up.                           *)

\* What decisions are made of, at a relocation.
LEMMA AtRelocation ==
  ASSUME NEW i
  PROVE  /\ ReachedBy(out, sym[SymOf(i)], Has(SymOf(i), "PLT")) = Reaches(SymOf(i))
         /\ TargetFor(sym[SymOf(i)], Has(SymOf(i), "PLT")) = Target(SymOf(i))
         /\ Base(out) = LoadBase
         /\ OriginFor(out, Kind(i)) = Origin(i)
         /\ Performed(link.bits, out, place[i], dynrel[i], sym[SymOf(i)])
              = Load(place[i], dynrel[i], SymOf(i))
<1>1. ReachedBy(out, sym[SymOf(i)], Has(SymOf(i), "PLT")) = Reaches(SymOf(i))
  BY DEF ReachedBy, Reaches, Denotes, Finds, FoundFor, Base, LoadBase, Absent, Missing
<1>2. TargetFor(sym[SymOf(i)], Has(SymOf(i), "PLT")) = Target(SymOf(i))
  BY DEF TargetFor, Value, Target, symValue, Defined
<1>3. Base(out) = LoadBase
  BY DEF Base, LoadBase
<1>4. OriginFor(out, Kind(i)) = Origin(i)
  BY DEF OriginFor, Origin, Base, LoadBase
<1>5. Performed(link.bits, out, place[i], dynrel[i], sym[SymOf(i)])
        = Load(place[i], dynrel[i], SymOf(i))
  BY DEF Performed, Load, Finds, FoundFor, Base, LoadBase, is64
<1> QED BY <1>1, <1>2, <1>3, <1>4, <1>5

LEMMA PlacesHold ==
  ASSUME TypeOK, LinkInv, SymbolsInv, ScanInv, ApplyInv
  PROVE  PlacesRelocated
<1> SUFFICES ASSUME Linked, NEW i \in Rels, Alloc(i), Kind(i) \notin Got \cup Branches,
                    Settled(i) \/ (is64 /\ Kind(i) = "abs"), ~Misplaced(i)
             PROVE  Relocated(i)
  BY DEF PlacesRelocated
<1> DEFINE y == sym[SymOf(i)]
           plt == Has(SymOf(i), "PLT")
           rel == Has(SymOf(i), "Rel")
<1>1. /\ link.bits \in {32, 64} /\ out \in Outputs /\ y \in SymbolInfos
      /\ dynrel[i] \in DynRels /\ place[i] \in Values /\ plt \in BOOLEAN /\ rel \in BOOLEAN
      /\ Kind(i) \in Kinds
  <2>1. SymOf(i) \in Symbols /\ Kind(i) \in Kinds /\ link.bits \in {32, 64} /\ out \in Outputs
    BY LinkFacts
  <2>2. y \in SymbolInfos /\ dynrel[i] \in DynRels
    BY <2>1, LinkFacts
  <2>3. place[i] \in Values
    BY DEF TypeOK
  <2>4. plt \in BOOLEAN /\ rel \in BOOLEAN
    BY DEF Has
  <2> QED BY <2>1, <2>2, <2>3, <2>4
<1>2. Sound(out, y, plt)
  BY LinkFacts DEF SymbolsInv
<1>3. Suits(link.bits, out, Kind(i), y)
  BY OrdinaryRel
<1>4. IsScanned(i) /\ IsApplied(i) /\ errors = {}
  BY DEF Linked, IsScanned, IsApplied
<1>5. Decision(link.bits, out, Kind(i), dynrel[i].kind, y, plt) /\ LeftAlone(i)
  BY <1>4 DEF ScanInv, Decided
<1>6. Writing(link.bits, out, Kind(i), place[i], dynrel[i], y, plt, rel)
  BY <1>4 DEF ApplyInv, Wrote
<1>7. Accepted(link.bits, out, Kind(i), dynrel[i].kind, y, plt, rel)
  <2>1. /\ ~is64 /\ Kind(i) # "abs" => dynrel[i].kind # "own"
        /\ Kind(i) = "lo12" => ~plt
    BY DEF Misplaced
  <2>2. ~is64 /\ Kind(i) = "abs" /\ dynrel[i].kind = "none" =>
          ~(y.bind # "Local" /\ rel /\ Foreign(out, y))
    BY DEF Misplaced, Skipped, helper_use_relative_reloc
  <2>3. ~is64 /\ Kind(i) = "abs" /\ dynrel[i].kind = "own" => rel /\ Foreign(out, y)
    BY <1>5 DEF LeftAlone, Settled
  <2>4. is64 /\ Kind(i) \in {"rel", "page", "lo12"} => Reachable(out, y, plt)
    BY DEF Misplaced, Reachable, Missing, Absent
  <2> HIDE DEF y, plt, rel
  <2> QED BY <2>1, <2>2, <2>3, <2>4 DEF Accepted, is64
<1> HIDE DEF y, plt, rel
<1>8. \E a \in ReachedBy(out, y, plt) :
        Performed(link.bits, out, place[i], dynrel[i], y)
          = (a ++ The("A")) -- OriginFor(out, Kind(i))
  <2>1. CASE Kind(i) \in AbsKinds
    BY <1>1, <1>2, <1>5, <1>6, <1>7, <2>1, AbsoluteHolds
  <2>2. CASE Kind(i) \in PlainKinds
    BY <1>1, <1>2, <1>3, <1>5, <1>6, <1>7, <2>2, OthersHold
  <2> QED BY <1>1, <2>1, <2>2 DEF Kinds, AbsKinds, PlainKinds
<1> QED BY <1>8, AtRelocation DEF Relocated, y, plt

LEMMA EntriesHold ==
  ASSUME TypeOK, EntryInv
  PROVE  GotHoldsSymbol
<1> SUFFICES ASSUME Linked, NEW y \in Symbols, Has(y, "GOT")
             PROVE  EntryAtRunTime(y) \in Denotes(y)
  BY DEF GotHoldsSymbol
<1>0. Rels = 1..Len(link.rels) /\ Len(link.rels) \in Nat
  BY RelsType
<1>1. PICK i \in Rels : IsCreator(i, y) /\ EntryHolds(i, y)
  BY DEF EntryInv
<1>2. Creator(y) = i
  <2>1. ASSUME NEW j \in Rels, IsCreator(j, y) PROVE j = i
    <3>1. i \in Int /\ j \in Int /\ 1 <= i /\ 1 <= j
      BY <1>0
    <3>2. i < j => i \in 1..(j - 1)
      BY <3>1
    <3>3. j < i => j \in 1..(i - 1)
      BY <3>1
    <3>4. ~(i < j) /\ ~(j < i)
      BY <1>1, <2>1, <3>2, <3>3 DEF IsCreator
    <3> QED BY <3>1, <3>4
  <2>2. Creator(y) = CHOOSE j \in Rels : IsCreator(j, y)
    BY DEF Creator, IsCreator
  <2> QED BY <1>1, <2>1, <2>2
<1>3. IsApplied(i)
  BY DEF IsApplied, Linked
<1>4. EntryAtRunTime(y) = Load(got[y], dynrel[i], y)
  BY <1>2 DEF EntryAtRunTime
<1>5. FoundFor(y) \in Denotes(y)
  BY DEF Denotes
<1>6. ~Foreign(out, sym[y]) => symValue(y) = The("S")
  BY DEF symValue, Defined, Foreign
<1>7. CASE dynrel[i].kind = "GLOB_DAT"
  BY <1>4, <1>5, <1>7 DEF Load
<1>8. CASE /\ dynrel[i].kind = "RELATIVE"
           /\ isCodeIndep(out) /\ ~Foreign(out, sym[y])
           /\ Filled(IF is64 THEN dynrel[i].addend ELSE got[y], i, y)
  <2>1. (IF is64 THEN dynrel[i].addend ELSE got[y]) = The("S")
    BY <1>3, <1>6, <1>8 DEF Filled
  <2>2. EntryAtRunTime(y) = The("S") ++ LoadBase
    BY <1>4, <1>8, <2>1 DEF Load
  <2> QED BY <1>5, <1>8, <2>2 DEF FoundFor
<1>9. CASE dynrel[i].kind = "none" /\ Filled(got[y], i, y)
           /\ ~isCodeIndep(out) /\ ~Foreign(out, sym[y])
  <2>1. EntryAtRunTime(y) = The("S")
    BY <1>3, <1>4, <1>6, <1>9 DEF Filled, Load
  <2>2. FoundFor(y) = The("S") ++ Zero
    BY <1>9 DEF FoundFor, LoadBase
  <2>3. The("S") ++ Zero = The("S")
    BY SumLaws, TermValues
  <2> QED BY <1>5, <2>1, <2>2, <2>3
<1>10. CASE dynrel[i].kind = "none" /\ ~sym[y].dyn /\ Filled(got[y], i, y)
            /\ Undef(sym[y]) /\ isExecutable(out)
  <2>1. EntryAtRunTime(y) = Zero
    BY <1>3, <1>4, <1>10 DEF Filled, symValue, Defined, Load
  <2> QED BY <1>10, <2>1 DEF Denotes, Missing
<1> QED BY <1>1, <1>7, <1>8, <1>9, <1>10 DEF EntryHolds

\* Of the branches that were left without a stub only conditional ones of Thumb
\* code have to be refused.
LEMMA OnlyCondRefused ==
  ASSUME RelaxInv, NEW i \in Rels, IsRelaxed(i), CannotSwitch(i)
  PROVE  Kind(i) = "thm_cond"
<1>1. /\ Kind(i) \in {"jump", "thm_jump", "thm_cond"}
      /\ stub[i] = "none" /\ (ThumbCode(i) # Thumb(SymOf(i)))
  BY DEF CannotSwitch, Switches
<1>2. CASE Kind(i) = "jump"
  <2>1. ~ThumbCode(i)
    BY <1>2 DEF ThumbCode
  <2>2. Thumb(SymOf(i)) \in BOOLEAN /\ ThumbCode(i) \in BOOLEAN
    BY DEF Thumb, ThumbCode
  <2>3. Thumb(SymOf(i))
    BY <1>1, <2>1, <2>2
  <2>4. ChangesState(i)
    BY <1>2, <2>3 DEF ChangesState
  <2> QED BY <1>1, <1>2, <2>4 DEF RelaxInv, Relaxable
<1>3. CASE Kind(i) = "thm_jump"
  <2>1. ThumbCode(i)
    BY <1>3 DEF ThumbCode
  <2>2. ChangesState(i)
    BY <1>1, <1>3, <2>1 DEF ChangesState, Thumb
  <2> QED BY <1>1, <1>3, <2>2 DEF RelaxInv, Relaxable
<1> QED BY <1>1, <1>2, <1>3

\* A branch to nowhere is written only through a stub.
LEMMA NowhereFallsThrough ==
  ASSUME TypeOK, LinkInv, SymbolsInv, NEW i \in Rels,
         ~FallsThrough(i), ~CannotSwitch(i), Nowhere(SymOf(i))
  PROVE  stub[i] # "none"
<1> SUFFICES ASSUME stub[i] = "none" PROVE FALSE
  OBVIOUS
<1>1. Kind(i) = "thm_cond"
  BY DEF FallsThrough
<1>2. ~is64
  <2>1. Suits(link.bits, out, Kind(i), sym[SymOf(i)])
    BY OrdinaryRel
  <2> QED BY <1>1, <2>1 DEF Suits, OnlyARM, is64
<1>3. ThumbCode(i) /\ ~Thumb(SymOf(i))
  BY <1>1 DEF ThumbCode, Thumb, Nowhere, Defined
<1> QED BY <1>1, <1>2, <1>3 DEF CannotSwitch, Switches

\* Where a branch that was written ends.
LEMMA BranchEnds ==
  ASSUME NEW i \in Rels, stub[i] \in {"none", "literal", "adrp"}, ~WrongStub(i),
         place[i] = BranchValue(i),
         veneer[i] = IF stub[i] = "none" THEN <<>> ELSE Fixups(i)
  PROVE  \A d \in Ends(i) : d = Target(SymOf(i))
<1> DEFINE T == Target(SymOf(i))
           A == The("A")
           P == The("P")
<1>0. T \in Values /\ A \in Values /\ P \in Values
  BY TargetType, ValueConstants
<1>1. (((T ++ A) -- P) ++ P) -- A = T /\ (T -- P) ++ P = T
  BY <1>0, SumLaws
<1>2. CASE stub[i] = "none"
  <2>1. Ends(i) = {(((T ++ A) -- P) ++ P) -- A}
    BY <1>2 DEF Ends, BranchValue
  <2> HIDE DEF T, A, P
  <2> QED BY <1>1, <2>1 DEF T
<1>3. CASE stub[i] = "adrp"
  <2>1. symValue(SymOf(i)) = T
    BY <1>3 DEF WrongStub, Target
  <2>2. veneer[i] = <<T -- P, T>>
    BY <1>3, <2>1 DEF Fixups
  <2>3. Ends(i) = {(T -- P) ++ P, T}
    BY <1>3, <2>2 DEF Ends
  <2> HIDE DEF T, A, P
  <2> QED BY <1>1, <2>3 DEF T
<1>4. CASE stub[i] = "literal" /\ isCodeIndep(out)
  <2>1. veneer[i] = <<T -- P>>
    BY <1>4 DEF Fixups
  <2>2. Ends(i) = {(T -- P) ++ P}
    BY <1>4, <2>1 DEF Ends
  <2> HIDE DEF T, A, P
  <2> QED BY <1>1, <2>2 DEF T
<1>5. CASE stub[i] = "literal" /\ ~isCodeIndep(out)
  <2>1. ~is64 /\ ~Skipped(SymOf(i))
    BY <1>5 DEF WrongStub
  <2>2. veneer[i] = <<T>>
    BY <1>5, <2>1 DEF Fixups
  <2> QED BY <1>5, <2>2 DEF Ends
<1> QED BY <1>2, <1>3, <1>4, <1>5

LEMMA BranchesHold ==
  ASSUME TypeOK, LinkInv, SymbolsInv, ScanInv, RelaxInv, BranchInv
  PROVE  BranchesArrive
<1> SUFFICES ASSUME phase = "done", NEW i \in Rels, Kind(i) \in Branches, ~WrongStub(i)
             PROVE  \/ Refused(i) /\ Kind(i) = "thm_cond"
                    \/ ~Refused(i) /\ Nowhere(SymOf(i)) /\ instr[i] = "NOP"
                    \/ /\ ~Refused(i) /\ ~Nowhere(SymOf(i))
                       /\ instr[i] = (IF Switches(i) THEN "BLX" ELSE "BL")
                       /\ \A d \in Ends(i) : d ++ LoadBase \in Reaches(SymOf(i))
  BY DEF BranchesArrive
<1>1. IsScanned(i) /\ IsRelaxed(i) /\ IsApplied(i) /\ IsStubbed(i)
  BY DEF IsScanned, IsRelaxed, IsApplied, IsStubbed
<1>2. /\ BranchDone(i)
      /\ veneer[i] = IF stub[i] = "none" THEN <<>> ELSE Fixups(i)
  BY <1>1 DEF BranchInv
<1>3. CASE FallsThrough(i) /\ ~Refused(i) /\ instr[i] = "NOP"
  BY <1>3 DEF FallsThrough
<1>4. CASE CannotSwitch(i) /\ Refused(i)
  BY <1>1, <1>4, OnlyCondRefused
<1>5. CASE /\ ~FallsThrough(i) /\ ~CannotSwitch(i) /\ ~Refused(i)
           /\ place[i] = BranchValue(i)
           /\ instr[i] = IF Switches(i) THEN "BLX" ELSE "BL"
  <2>1. ~Nowhere(SymOf(i))
    BY <1>5, NowhereFallsThrough DEF WrongStub
  <2>2. Target(SymOf(i)) ++ LoadBase \in Reaches(SymOf(i))
    <3> DEFINE y == sym[SymOf(i)]
               plt == Has(SymOf(i), "PLT")
    <3>1. out \in Outputs /\ plt \in BOOLEAN /\ SymOf(i) \in Symbols
      BY LinkFacts DEF Has
    <3>2. Sound(out, y, plt)
      BY <3>1 DEF SymbolsInv
    <3>3. Alloc(i)
      BY OrdinaryRel
    <3>4. Kind(i) \notin Got /\ Kind(i) \notin AbsKinds \cup {"rel", "page", "movrel", "lo12", "gotoff"}
      BY DEF Got, Branches, Relaxable, AbsKinds
    <3>5. Decided(i)
      BY <1>1, <3>3, <3>4 DEF ScanInv
    <3>6. Reachable(out, y, plt)
      BY <3>4, <3>5 DEF Decided, Decision
    <3>7. TargetFor(y, plt) ++ Base(out) \in ReachedBy(out, y, plt)
      <4> HIDE DEF y, plt
      <4> QED BY <3>1, <3>2, <3>6, TargetReached
    <3> QED BY <3>7, AtRelocation
  <2>3. \A d \in Ends(i) : d = Target(SymOf(i))
    <3>1. stub[i] \in {"none", "literal", "adrp"}
      BY DEF TypeOK
    <3> QED BY <1>2, <1>5, <3>1, BranchEnds
  <2> QED BY <1>5, <2>1, <2>2, <2>3
<1> QED BY <1>2, <1>3, <1>4, <1>5 DEF BranchDone

-----------------------------------------------------------------------------
(* The theorems.                                                           *)

ImageInv ==
  /\ LinkInv /\ SymbolsInv /\ ScanInv /\ RelaxInv
  /\ ApplyInv /\ BranchInv /\ GotInv /\ EntryInv

LEMMA ImageInit == AllOrdinary /\ Init => ImageInv
<1> SUFFICES ASSUME AllOrdinary, Init PROVE ImageInv
  OBVIOUS
<1>0. TypeOK /\ LinkInv
  BY InitType DEF Init, LinkInv, AllOrdinary
<1>1. Rels = 1..Len(link.rels) /\ Len(link.rels) \in Nat
  BY <1>0, RelsType
<1>2. phase = "scan" /\ at = 1 /\ errors = {} /\ sym = link.syms
      /\ reserved = [y \in Symbols |-> {}]
  BY DEF Init
<1>3. \A i \in Rels : ~IsScanned(i) /\ ~IsRelaxed(i) /\ ~IsApplied(i) /\ ~IsStubbed(i)
  BY <1>1, <1>2 DEF IsScanned, IsRelaxed, IsApplied, IsStubbed
<1>4. SymbolsInv
  <2>1. ASSUME NEW y \in Symbols PROVE Sound(out, sym[y], Has(y, "PLT"))
    <3>1. /\ sym[y].bind = "Local" => ~Undef(sym[y]) /\ ~sym[y].dyn
          /\ sym[y].dyn => out.libs
      BY <1>0, <1>2 DEF LinkInv, Ordinary, out
    <3>2. isCodeStatic(out) => ~out.libs
      BY DEF isCodeStatic, CodePosition
    <3> QED BY <1>2, <3>1, <3>2 DEF Sound, Has
  <2> QED BY <1>2, <2>1 DEF SymbolsInv
<1>5. ScanInv
  <2>1. \A i \in Rels : dynrel[i] = DynRel("none")
    BY DEF Init
  <2> QED BY <1>3, <2>1 DEF ScanInv
<1>6. ApplyInv
  <2>1. \A i \in Rels : place[i] = Unrelocated
    BY DEF Init
  <2> QED BY <1>3, <2>1 DEF ApplyInv
<1>7. RelaxInv /\ GotInv
  BY <1>3 DEF RelaxInv, GotInv
<1>8. BranchInv
  BY <1>2, <1>3 DEF BranchInv, Refused
<1>9. EntryInv
  BY <1>2 DEF EntryInv, Has
<1> QED BY <1>0, <1>4, <1>5, <1>6, <1>7, <1>8, <1>9 DEF ImageInv

LEMMA ImageStep == TypeOK /\ ImageInv /\ [Next]_vars => ImageInv'
<1> SUFFICES ASSUME TypeOK, ImageInv, [Next]_vars PROVE ImageInv'
  OBVIOUS
<1> USE DEF ImageInv
<1>1. CASE Next
  <2>1. LinkInv' /\ SymbolsInv' /\ ScanInv'
    <3>1. CASE Scan
      <4>1. LinkInv'
        BY <3>1, ScanFrame DEF LinkInv
      <4> QED BY <3>1, <4>1, ScanSymbols, ScanStep
    <3>2. CASE Relax \/ Apply
      BY <3>2, Settles
    <3> QED BY <1>1, <3>1, <3>2 DEF Next
  <2>2. RelaxInv' /\ ApplyInv' /\ BranchInv'
    BY <1>1, RelaxStep, ApplyStep, BranchStep
  <2>3. GotInv' /\ EntryInv'
    BY <1>1, GotStep, EntryStep
  <2> QED BY <2>1, <2>2, <2>3
<1>2. CASE UNCHANGED vars
  <2>0. /\ Rels' = Rels /\ out' = out /\ is64' = is64
        /\ \A i : /\ Kind(i)' = Kind(i) /\ SymOf(i)' = SymOf(i) /\ Alloc(i)' = Alloc(i)
                  /\ IsScanned(i)' = IsScanned(i) /\ IsRelaxed(i)' = IsRelaxed(i)
                  /\ IsApplied(i)' = IsApplied(i) /\ IsStubbed(i)' = IsStubbed(i)
                  /\ Refused(i)' = Refused(i)
        /\ \A y, bit : Has(y, bit)' = Has(y, bit)
        /\ \A y : symValue(y)' = symValue(y)
    BY <1>2 DEF vars, Rels, out, is64, Kind, SymOf, Alloc, IsScanned, IsRelaxed, IsApplied,
       IsStubbed, Refused, Has, symValue, Defined, tables
  <2>1. LinkInv' /\ SymbolsInv'
    BY <1>2, <2>0 DEF vars, tables, LinkInv, SymbolsInv
  <2>2. ScanInv'
    BY <1>2, <2>0 DEF vars, tables, ScanInv, Decided, LeftAlone
  <2>3. RelaxInv'
    BY <1>2, <2>0 DEF vars, tables, RelaxInv, ChangesState, Thumb, Defined
  <2>4. ApplyInv'
    BY <1>2, <2>0 DEF vars, tables, image, ApplyInv, Wrote, Unrelocated
  <2>5. BranchInv'
    <3>1. \A y : Target(y)' = Target(y) /\ Skipped(y)' = Skipped(y) /\ Nowhere(y)' = Nowhere(y)
      BY <1>2, <2>0 DEF vars, tables, Target, Skipped, Nowhere
    <3>2. \A i : Switches(i)' = Switches(i)
      BY <1>2, <2>0 DEF vars, tables, Switches, ThumbCode, Thumb, Defined
    <3>3. \A i : /\ FallsThrough(i)' = FallsThrough(i) /\ CannotSwitch(i)' = CannotSwitch(i)
                 /\ BranchValue(i)' = BranchValue(i) /\ Fixups(i)' = Fixups(i)
      BY <1>2, <2>0, <3>1, <3>2 DEF vars, FallsThrough, CannotSwitch, BranchValue, Fixups
    <3>4. UNCHANGED <<place, instr, veneer, stub>>
      BY <1>2 DEF vars, image
    <3> QED BY <2>0, <3>2, <3>3, <3>4 DEF BranchInv, BranchDone
  <2>6. GotInv'
    BY <2>0 DEF GotInv
  <2>7. EntryInv'
    <3>1. \A i, y : IsCreator(i, y)' = IsCreator(i, y)
      BY <2>0 DEF IsCreator, IsGot
    <3>2. UNCHANGED <<sym, got, dynrel>>
      BY <1>2 DEF vars, tables
    <3>3. \A i, y : EntryHolds(i, y)' = EntryHolds(i, y)
      BY <2>0, <3>2 DEF EntryHolds, Filled
    <3> QED BY <2>0, <3>1, <3>3 DEF EntryInv
  <2> QED BY <2>1, <2>2, <2>3, <2>4, <2>5, <2>6, <2>7
<1> QED BY <1>1, <1>2

(* For any ordinary links, what the scan has reserved and what the apply   *)
(* has written add up: at run time every loaded place that is accepted     *)
(* rightly and whose symbol has not changed since its scan, a word of      *)
(* AArch64 even when it has, and every entry of the GOT, holds an address  *)
(* that its symbol may mean (ARMRelocator.cpp, AArch64Relocator.cpp: the   *)
(* scan and the apply functions).                                          *)
THEOREM PlacesHoldAddresses ==
  ASSUME AllOrdinary
  PROVE  Spec => []RuntimeAddresses
<1>1. TypeOK /\ ImageInv => RuntimeAddresses
  BY PlacesHold, EntriesHold DEF ImageInv, RuntimeAddresses
<1>2. Init => ImageInv
  BY ImageInit
<1> QED BY <1>1, <1>2, ImageStep, TypeCorrect, PTL DEF Spec

(* For any ordinary links, every branch whose stub is not one of the wrong *)
(* ones is refused, falls through, or ends where its symbol may be reached *)
(* in the state that the code there is in: relaxation has left no branch   *)
(* that cannot become BLX without the stub that it needs, unless there is  *)
(* none (ARMRelocator.cpp: call, jump24, thm_call, thm_jump24, thm_jump19; *)
(* AArch64Relocator.cpp: call; the isMyDuty of the stubs).                 *)
THEOREM BranchesAlwaysArrive ==
  ASSUME AllOrdinary
  PROVE  Spec => []BranchesArrive
<1>1. TypeOK /\ ImageInv => BranchesArrive
  BY BranchesHold DEF ImageInv
<1>2. Init => ImageInv
  BY ImageInit
<1> QED BY <1>1, <1>2, ImageStep, TypeCorrect, PTL DEF Spec
=============================================================================
