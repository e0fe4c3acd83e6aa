-------------------------- MODULE DataStrippingProofs --------------------------
(***************************************************************************)
(* Theorems about garbage collection, code folding and the merge.          *)
(*                                                                         *)
(* Garbage collection strips exactly what is not needed, whatever the      *)
(* inputs.  Its invariant says of the work list that every entry is        *)
(* pending, waiting or referenced, and that what a referenced section      *)
(* reaches is referenced or waiting; so at the end, when nothing waits,    *)
(* the referenced sections are closed.                                     *)
(*                                                                         *)
(* Code folding folds a function only into one that does the same: the     *)
(* index that each function is folded into, and each content recorded      *)
(* before the indices changed, agree with one relation, the largest whose  *)
(* members refer to the same or to members of it.                          *)
(***************************************************************************)
EXTENDS DataStripping, FiniteSetTheorems, TLAPS

Pending == entries \cup work \cup referenced

\* The inputs are still as they were read.
Unstripped ==
  /\ kind = [s \in Sects |-> link.sect[s].kind]
  /\ symSect = [y \in Symbols |-> link.sym[y].sect]

\* The marking: nothing is forgotten, and nothing is marked without need.
Marked ==
  /\ reached = [s \in Sects |-> ReachedFrom(s)]
  /\ Pending \subseteq Sects
  /\ EntrySections \subseteq Pending
  /\ \A s \in referenced : reached[s] \subseteq referenced \cup work
  /\ \A C \in SUBSET (Sects \ RelocSects) :
       HoldsRoots(C) /\ ReachClosed(C) => Pending \subseteq C

GCInv ==
  /\ link \in Links
  /\ phase \in {"reach", "mark", "candidates", "merge"}
  /\ Marking => Unstripped
  /\ phase = "reach" => Pending = {}
  /\ phase = "mark" => Marked
  /\ ~Marking => NeededIsKept /\ KeptIsNeeded

-----------------------------------------------------------------------------
\* What the readers give.
LEMMA LinkFacts ==
  ASSUME link \in Links
  PROVE  /\ Len(link.sect) \in Nat /\ DOMAIN link.sect = 1..Len(link.sect)
         /\ link.opt.iterations \in Nat
         /\ link.entry \in Symbols /\ link.undefs \subseteq Symbols
         /\ \A s \in Sects : /\ link.sect[s].kind \in Kinds \ {"Folded"}
                             /\ link.sect[s].obj \in Nat
                             /\ link.sect[s].kind = "Relocation" => link.sect[s].lnk \in Sects
                             /\ link.sect[s].relocs \in Seq([sym : DOMAIN link.sym, ptr : BOOLEAN])
         /\ \A y \in Symbols : link.sym[y].sect # 0 =>
              link.sym[y].sect \in Sects /\ link.sect[link.sym[y].sect].kind \notin {"Ignore", "Relocation"}
         /\ \A r \in Sects : RefsOf(r) \subseteq Symbols
         /\ \A r \in Sects : \A y \in RefsOf(r) : \E i \in 1..Len(link.sect[r].relocs) : link.sect[r].relocs[i].sym = y
<1>1. LinkAssumption(link)
  BY LinksAssumption
<1>2. \A s \in Sects : link.sect[s].relocs \in Seq([sym : DOMAIN link.sym, ptr : BOOLEAN])
  BY <1>1 DEF LinkAssumption, Sects
<1>3. \A r \in Sects : \A i \in 1..Len(link.sect[r].relocs) : link.sect[r].relocs[i].sym \in Symbols
  <2> SUFFICES ASSUME NEW r \in Sects, NEW i \in 1..Len(link.sect[r].relocs)
               PROVE  link.sect[r].relocs[i].sym \in Symbols
    OBVIOUS
  <2> DEFINE T == [sym : DOMAIN link.sym, ptr : BOOLEAN]
             refs == link.sect[r].relocs
  <2>0. refs \in Seq(T) /\ i \in 1..Len(refs)
    BY <1>2
  <2>1. refs[i] \in T
    <3> HIDE DEF T, refs
    <3> QED BY <2>0
  <2> QED BY <2>1 DEF Symbols
<1>4. \A r \in Sects : RefsOf(r) \subseteq Symbols
  BY <1>3 DEF RefsOf, RelocsOf
<1>5. \A r \in Sects : \A y \in RefsOf(r) : \E i \in 1..Len(link.sect[r].relocs) : link.sect[r].relocs[i].sym = y
  BY DEF RefsOf, RelocsOf
<1> QED BY <1>1, <1>2, <1>4, <1>5 DEF LinkAssumption, Sects, Symbols

-----------------------------------------------------------------------------
\* The entries are what the KEEP patterns and the needed symbols name.
LEMMA EntriesAreRoots ==
  ASSUME Unstripped, link \in Links
  PROVE  /\ \A C : HoldsRoots(C) => EntrySections \subseteq C
         /\ EntrySections \subseteq Sects
         /\ \A s \in Sects : link.sect[s].keep /\ WasKind(s) \in GCKinds =>
              s \in EntrySections
         /\ \A y \in NeededSymbols :
              link.sym[y].sect # 0 /\ ~Overlooked(y)
              /\ WasKind(link.sym[y].sect) \in GCKinds =>
                link.sym[y].sect \in EntrySections
<1>0. /\ link.entry \in Symbols /\ link.undefs \subseteq Symbols
      /\ \A y \in Symbols : link.sym[y].sect # 0 => link.sym[y].sect \in Sects
  BY LinkFacts
<1> USE <1>0 DEF Unstripped, Sects, Symbols, WasKind, MayProcessGC
<1>1. ASSUME NEW C, HoldsRoots(C), NEW s \in EntrySections
      PROVE  s \in C
  <2> USE <1>1 DEF HoldsRoots, NeededSymbols, Exported
  <2>0. s \in Sects
    BY DEF EntrySections, EntryByScript, EntryByExport, EntryByEntry, EntryByDynObj, EntryByUndef
  <2>1. CASE s \in EntryByScript
    BY <2>1 DEF EntryByScript
  <2>2. CASE s \in EntryByExport
    BY <2>0, <2>2 DEF EntryByExport, DefinedIn
  <2>3. CASE s \in EntryByEntry
    BY <2>0, <2>3 DEF EntryByEntry
  <2>4. CASE s \in EntryByDynObj
    BY <2>0, <2>4 DEF EntryByDynObj, DefinedIn
  <2>5. CASE s \in EntryByUndef
    BY <2>0, <2>5 DEF EntryByUndef
  <2> QED  BY <1>1, <2>1, <2>2, <2>3, <2>4, <2>5 DEF EntrySections
<1>2. EntrySections \subseteq Sects
  BY DEF EntrySections, EntryByScript, EntryByExport, EntryByEntry, EntryByDynObj, EntryByUndef
<1>3. ASSUME NEW s \in Sects, link.sect[s].keep, WasKind(s) \in GCKinds
      PROVE  s \in EntrySections
  BY <1>3 DEF EntrySections, EntryByScript
<1>4. ASSUME NEW y \in NeededSymbols, link.sym[y].sect # 0,
             ~Overlooked(y),
             WasKind(link.sym[y].sect) \in GCKinds
      PROVE  link.sym[y].sect \in EntrySections
  <2>1. y \in Symbols /\ link.sym[y].sect \in Sects /\ symSect[y] = link.sym[y].sect
    BY <1>4 DEF NeededSymbols
  <2>2. CASE y \in link.undefs
    BY <1>4, <2>1, <2>2 DEF EntrySections, EntryByUndef
  <2>3. CASE HasEntry /\ y = link.entry
    BY <1>4, <2>1, <2>3 DEF EntrySections, EntryByEntry
  <2>4. CASE ~link.sym[y].local /\ Exported(y)
    BY <1>4, <2>1, <2>4 DEF EntrySections, EntryByExport, DefinedIn, Exported
  <2>5. CASE ~link.sym[y].local /\ HasEntry /\ link.sym[y].inDyn /\ ~link.opt.exportDynamic
    BY <1>4, <2>1, <2>5 DEF EntrySections, EntryByDynObj, DefinedIn
  <2>6. CASE /\ y \notin link.undefs /\ y # link.entry /\ ~Exported(y)
             /\ HasEntry /\ link.sym[y].inDyn /\ link.opt.exportDynamic
    <3>1. link.sym[y].hidden
      BY <2>6 DEF Exported
    <3> QED BY <1>4, <2>6, <3>1 DEF Overlooked
  <2> QED  BY <1>4, <2>2, <2>3, <2>4, <2>5, <2>6 DEF NeededSymbols
<1> QED  BY <1>1, <1>2, <1>3, <1>4

\* What the relocations of a processed section refer to is reached from it.
LEMMA TargetsAreReached ==
  ASSUME Unstripped, link \in Links,
         NEW r \in RelocSects, kind[r] = "Relocation",
         MayProcessGC(link.sect[r].lnk),
         NEW y \in RefsOf(r), link.sym[y].sect # 0,
         MayProcessGC(link.sym[y].sect)
  PROVE  link.sym[y].sect \in ReachedFrom(link.sect[r].lnk)
<1>0. r \in Sects /\ y \in Symbols /\ link.sym[y].sect \in Sects
  BY LinkFacts DEF RelocSects
<1> USE <1>0 DEF Unstripped, Sects, Symbols, RelocSects
<1>1. PICK i \in 1..Len(link.sect[r].relocs) : link.sect[r].relocs[i].sym = y
  BY LinkFacts
<1>2. link.sect[r].relocs # <<>>
  BY <1>1
<1>3. y \in Symbols /\ symSect[y] = link.sym[y].sect /\ link.sym[y].sect \in Sects
  BY <1>1
<1>4. link.sym[y].sect \in TargetsOf(r)
  BY <1>3 DEF TargetsOf
<1>5. r \in LiveRelocs(link.sect[r].lnk)
  BY <1>2 DEF LiveRelocs
<1> QED  BY <1>4, <1>5 DEF ReachedFrom

LEMMA ReachedAreSections == \A s : ReachedFrom(s) \subseteq Sects
<1>1. \A r : TargetsOf(r) \subseteq Sects
  BY DEF TargetsOf
<1> QED  BY <1>1 DEF ReachedFrom

-----------------------------------------------------------------------------
LEMMA InitEstablishesInv == GCInit => GCInv
BY DEF GCInit, InitSections, GCInv, Marking, Unstripped, Pending, Symbols

LEMMA SetUpKeepsInv ==
  ASSUME GCInv, SetUpReached
  PROVE  GCInv'
<1> USE DEF GCInv, SetUpReached, Marking
<1>1. Unstripped /\ link \in Links /\ Pending = {}
  OBVIOUS
<1>2. Unstripped'
  BY <1>1 DEF Unstripped, Sects, Symbols
<1>3. Pending' = EntrySections
  BY <1>1 DEF Pending
<1>4. (EntrySections)' = EntrySections
  BY DEF EntrySections, EntryByScript, EntryByExport, EntryByEntry, EntryByDynObj,
         EntryByUndef, MayProcessGC, DefinedIn, Sects, Symbols, HasEntry, DynObj
<1>5. \A s : ReachedFrom(s)' = ReachedFrom(s)
  BY DEF ReachedFrom, TargetsOf, LiveRelocs, RelocSects, Sects, MayProcessGC, RefsOf, RelocsOf
<1>6. \A C : HoldsRoots(C)' <=> HoldsRoots(C)
  BY DEF HoldsRoots, NeededSymbols, Exported, Sects, Symbols, WasKind, HasEntry, DynObj
<1>7. Marked'
  BY <1>1, <1>3, <1>4, <1>5, <1>6, EntriesAreRoots DEF Marked, Sects, RelocSects, Pending
<1> QED  BY <1>1, <1>2, <1>7

\* The steps of the marking leave the inputs alone.
LEMMA MarkingKeepsInputs ==
  ASSUME UNCHANGED <<link, kind, symSect, phase, reached>>
  PROVE  /\ (EntrySections)' = EntrySections
         /\ \A s : ReachedFrom(s)' = ReachedFrom(s)
         /\ \A C : (HoldsRoots(C)' <=> HoldsRoots(C)) /\ (ReachClosed(C)' <=> ReachClosed(C))
         /\ Sects' = Sects /\ RelocSects' = RelocSects
         /\ Unstripped' <=> Unstripped
<1>1. (EntrySections)' = EntrySections
  BY DEF EntrySections, EntryByScript, EntryByExport, EntryByEntry, EntryByDynObj,
         EntryByUndef, MayProcessGC, DefinedIn, Sects, Symbols, HasEntry, DynObj
<1>2. \A s : ReachedFrom(s)' = ReachedFrom(s)
  BY DEF ReachedFrom, TargetsOf, LiveRelocs, RelocSects, Sects, MayProcessGC, RefsOf, RelocsOf
<1>3. \A C : (HoldsRoots(C)' <=> HoldsRoots(C)) /\ (ReachClosed(C)' <=> ReachClosed(C))
  BY DEF HoldsRoots, ReachClosed, NeededSymbols, Exported, Sects, Symbols, WasKind, HasEntry, DynObj
<1>4. Sects' = Sects /\ RelocSects' = RelocSects
  BY DEF Sects, RelocSects
<1>5. Unstripped' <=> Unstripped
  BY DEF Unstripped, Sects, Symbols
<1> QED  BY <1>1, <1>2, <1>3, <1>4, <1>5

LEMMA PushKeepsInv ==
  ASSUME GCInv, PushEntry
  PROVE  GCInv'
<1> USE DEF GCInv, PushEntry, Marking
<1>1. Unstripped /\ Marked /\ link \in Links
  OBVIOUS
<1>2. UNCHANGED <<link, kind, symSect, phase, reached, referenced>> /\ work = {}
  OBVIOUS
<1>3. PICK e \in entries : work' = {e} /\ entries' = entries \ {e}
  OBVIOUS
<1>4. Pending' = Pending
  BY <1>2, <1>3 DEF Pending
<1>5. \A s \in referenced' : reached'[s] \subseteq referenced' \cup work'
  BY <1>1, <1>2 DEF Marked
<1>6. Marked'
  <2> HIDE DEF GCInv, PushEntry
  <2> QED  BY <1>1, <1>2, <1>4, <1>5, MarkingKeepsInputs DEF Marked
<1>7. Unstripped'
  BY <1>1, <1>2, MarkingKeepsInputs
<1> QED  BY <1>1, <1>2, <1>6, <1>7

LEMMA FindKeepsInv ==
  ASSUME GCInv, FindReferenced
  PROVE  GCInv'
<1> USE DEF GCInv, FindReferenced, Marking
<1>1. Unstripped /\ Marked /\ link \in Links
  OBVIOUS
<1>2. UNCHANGED <<link, kind, symSect, phase, reached, entries>>
  OBVIOUS
<1>3. PICK s \in work : Mark(s)
  OBVIOUS
<1>4. s \in Sects /\ reached[s] = ReachedFrom(s) /\ reached[s] \subseteq Sects
  BY <1>1, <1>3, ReachedAreSections DEF Marked, Pending
<1>5. /\ referenced' = referenced \cup {s}
      /\ work' = (work \ {s}) \cup (IF s \in referenced THEN {} ELSE reached[s] \ referenced')
  BY <1>3 DEF Mark
<1> HIDE DEF GCInv, FindReferenced
<1>6. Pending \subseteq Pending' /\ Pending' \subseteq Pending \cup reached[s]
  BY <1>2, <1>3, <1>5 DEF Pending
<1>7. \A t \in referenced' : reached'[t] \subseteq referenced' \cup work'
  <2>1. TAKE t \in referenced'
  <2>2. CASE t \in referenced
    <3>1. reached[t] \subseteq referenced \cup work
      BY <1>1, <2>2 DEF Marked
    <3> QED  BY <1>2, <1>5, <3>1
  <2>3. CASE t = s /\ s \notin referenced
    BY <1>2, <1>5, <2>3
  <2> QED  BY <1>5, <2>2, <2>3
<1>8. \A C \in SUBSET (Sects \ RelocSects) :
        HoldsRoots(C) /\ ReachClosed(C) => Pending' \subseteq C
  <2>1. SUFFICES ASSUME NEW C \in SUBSET (Sects \ RelocSects), HoldsRoots(C), ReachClosed(C)
                 PROVE  Pending' \subseteq C
    OBVIOUS
  <2>2. Pending \subseteq C
    BY <1>1, <2>1 DEF Marked
  <2>3. reached[s] \subseteq C
    BY <1>3, <2>1, <2>2 DEF ReachClosed, Pending
  <2> QED  BY <1>6, <2>2, <2>3
<1>9. Marked'
  BY <1>1, <1>2, <1>4, <1>6, <1>7, <1>8, MarkingKeepsInputs DEF Marked
<1>10. Unstripped'
  BY <1>1, <1>2, MarkingKeepsInputs
<1>11. phase' = "mark" /\ link' \in Links
  BY <1>1, <1>2 DEF FindReferenced
<1> QED  BY <1>9, <1>10, <1>11 DEF GCInv, Marking

-----------------------------------------------------------------------------
LEMMA StripKeepsInv ==
  ASSUME GCInv, StripSections
  PROVE  GCInv'
<1>1. Unstripped /\ Marked /\ link \in Links
  BY DEF GCInv, StripSections, Marking
<1>2. /\ UNCHANGED <<link, symSect, reached, referenced>>
      /\ kind' = Stripped
      /\ phase' \in {"merge", "candidates"}
      /\ work = {} /\ entries = {}
  BY DEF StripSections
<1>3. \A s \in Sects : kind[s] = WasKind(s)
  BY <1>1 DEF Unstripped, WasKind
<1>4. /\ EntrySections \subseteq referenced
      /\ \A s \in referenced : reached[s] \subseteq referenced
  BY <1>1, <1>2 DEF Marked, Pending
<1>5. \A s \in Sects :
        /\ kind'[s] = "Ignore" \/ kind'[s] = kind[s]
        /\ s \in referenced /\ s \notin RelocSects => kind'[s] = kind[s]
        /\ kind[s] \notin GCKinds /\ s \notin RelocSects => kind'[s] = kind[s]
        /\ kind[s] \in GCKinds /\ s \notin referenced => kind'[s] = "Ignore"
  BY <1>2 DEF Stripped, MayProcessGC
<1>6. \A s \in Sects : WasKind(s) \in GCKinds =>
        /\ s \notin RelocSects
        /\ (s \in referenced => kind'[s] # "Ignore")
        /\ (s \notin referenced => kind'[s] = "Ignore")
  BY <1>3, <1>5 DEF RelocSects, WasKind, GCKinds
<1>7. \A y \in Symbols : link.sym[y].sect # 0 =>
        /\ link.sym[y].sect \in Sects
        /\ (WasKind(link.sym[y].sect) \notin GCKinds => kind'[link.sym[y].sect] # "Ignore")
  BY <1>1, <1>3, <1>5, LinkFacts DEF RelocSects, WasKind
<1>8. ASSUME NEW s \in Sects, link.sect[s].keep, WasKind(s) \in GCKinds
      PROVE  kind'[s] # "Ignore"
  BY <1>1, <1>4, <1>6, <1>8, EntriesAreRoots
<1>9. ASSUME NEW y \in NeededSymbols, link.sym[y].sect # 0, ~Overlooked(y)
      PROVE  kind'[link.sym[y].sect] # "Ignore"
  <2>1. y \in Symbols
    BY <1>1, <1>9, LinkFacts DEF NeededSymbols
  <2>2. CASE WasKind(link.sym[y].sect) \in GCKinds
    <3>1. link.sym[y].sect \in EntrySections
      BY <1>1, <1>9, <2>2, EntriesAreRoots
    <3> QED  BY <1>4, <1>6, <1>7, <1>9, <2>1, <2>2, <3>1
  <2> QED  BY <1>7, <1>9, <2>1, <2>2
<1>10. ASSUME NEW r \in RelocSects, kind'[r] = "Relocation",
              kind'[link.sect[r].lnk] \in GCKinds,
              NEW y \in RefsOf(r), link.sym[y].sect # 0
       PROVE  kind'[link.sym[y].sect] # "Ignore"
  <2>1. link.sect[r].lnk \in Sects /\ r \in Sects /\ y \in Symbols
    <3>1. r \in Sects /\ link.sect[r].kind = "Relocation"
      BY DEF RelocSects
    <3> QED BY <1>1, <3>1, LinkFacts
  <2>2. kind[r] = "Relocation" /\ kind[link.sect[r].lnk] \in GCKinds
    BY <1>5, <1>10, <2>1 DEF GCKinds
  <2>3. link.sect[r].lnk \in referenced
    BY <1>5, <1>10, <2>1, <2>2 DEF GCKinds
  <2>4. CASE WasKind(link.sym[y].sect) \in GCKinds
    <3>1. MayProcessGC(link.sym[y].sect) /\ MayProcessGC(link.sect[r].lnk)
      BY <1>3, <1>7, <1>10, <2>1, <2>2, <2>4 DEF MayProcessGC
    <3>2. link.sym[y].sect \in ReachedFrom(link.sect[r].lnk)
      BY <1>1, <1>10, <2>2, <3>1, TargetsAreReached
    <3>3. link.sym[y].sect \in referenced
      BY <1>1, <1>4, <2>1, <2>3, <3>2 DEF Marked
    <3> QED  BY <1>6, <1>7, <1>10, <2>1, <2>4, <3>3
  <2> QED  BY <1>7, <1>10, <2>1, <2>4
<1>11. NeededIsKept'
  <2>1. NeededSymbols' = NeededSymbols /\ RelocSects' = RelocSects /\ Sects' = Sects
    BY <1>2 DEF NeededSymbols, Exported, HasEntry, DynObj, Symbols, RelocSects, Sects
  <2>2. /\ \A s : WasKind(s)' = WasKind(s) /\ RefsOf(s)' = RefsOf(s)
        /\ \A y : Overlooked(y)' <=> Overlooked(y)
    BY <1>2 DEF WasKind, RefsOf, RelocsOf, Overlooked, HasEntry
  <2> QED  BY <1>2, <1>8, <1>9, <1>10, <2>1, <2>2 DEF NeededIsKept
<1>12. KeptIsNeeded'
  BY <1>2, <1>6 DEF KeptIsNeeded, Sects, WasKind
<1> QED  BY <1>1, <1>2, <1>11, <1>12 DEF GCInv, Marking

LEMMA StutterKeepsInv ==
  ASSUME GCInv, UNCHANGED vars
  PROVE  GCInv'
<1>1. Marked' <=> Marked
  BY MarkingKeepsInputs DEF vars, Marked, Pending
<1>2. NeededIsKept' <=> NeededIsKept
  BY DEF vars, NeededIsKept, NeededSymbols, Overlooked, Exported, HasEntry, DynObj, Symbols, RelocSects,
         Sects, WasKind, RefsOf, RelocsOf, Marking
<1>3. KeptIsNeeded' <=> KeptIsNeeded
  BY MarkingKeepsInputs DEF vars, KeptIsNeeded, WasKind, Marking
<1>4. Unstripped' <=> Unstripped
  BY MarkingKeepsInputs DEF vars
<1> QED  BY <1>1, <1>2, <1>3, <1>4 DEF GCInv, vars, Marking, Pending

LEMMA GCInvariant == GCSpec => []GCInv
<1>1. GCInv /\ [GCNext]_vars => GCInv'
  BY SetUpKeepsInv, PushKeepsInv, FindKeepsInv, StripKeepsInv, StutterKeepsInv DEF GCNext
<1> QED  BY <1>1, InitEstablishesInv, PTL DEF GCSpec

\* Whatever the inputs, no section is stripped that a kept section, an entry,
\* an exported symbol or a shared library needs, but for the hidden symbols
\* that an executable linked with --export-dynamic overlooks.
THEOREM NeededSectionsStay == GCSpec => []NeededIsKept
<1>1. GCInv => NeededIsKept
  BY DEF GCInv, NeededIsKept, Marking
<1> QED  BY <1>1, GCInvariant, PTL

\* Whatever the inputs, a section is marked and kept only if no set of
\* sections that holds the roots and is closed can do without it.
THEOREM KeptSectionsAreNeeded == GCSpec => []KeptIsNeeded
<1>1. GCInv => KeptIsNeeded
  BY DEF GCInv, KeptIsNeeded, Marked, Pending, Marking
<1> QED  BY <1>1, GCInvariant, PTL
-----------------------------------------------------------------------------
(* The library's induction needs an operator; a smallest counterexample does *)
(* not.                                                                      *)
LEMMA SmallestNat ==
  ASSUME NEW T \in SUBSET Nat, T # {}
  PROVE  \E x \in T : \A y \in T : x <= y
<1> DEFINE F == {1..n : n \in T}
<1>1. F \subseteq FiniteSubsetsOf(Nat)
  <2>1. \A n \in T : 1..n \subseteq Nat /\ IsFiniteSet(1..n)
    BY FS_Interval
  <2> QED BY <2>1 DEF FiniteSubsetsOf
<1>2. PICK X \in F : \A Y \in F : ~(<<Y, X>> \in StrictSubsetOrdering(Nat))
  <2>1. F # {}
    OBVIOUS
  <2>2. IsWellFoundedOn(StrictSubsetOrdering(Nat), FiniteSubsetsOf(Nat))
    BY FS_StrictSubsetOrderingWellFounded
  <2> HIDE DEF F
  <2> QED BY <1>1, <2>1, <2>2, WFMin
<1>3. PICK x \in T : X = 1..x
  OBVIOUS
<1>4. ASSUME NEW y \in T, y < x PROVE FALSE
  <2>1. 1..y \in F /\ 1..y \in SUBSET Nat /\ 1..x \in SUBSET Nat
    OBVIOUS
  <2>2. 1..y \subseteq 1..x /\ 1..y # 1..x
    BY <1>4
  <2> QED BY <2>1, <2>2, <1>2, <1>3 DEF StrictSubsetOrdering
<1> QED BY <1>4

LEMMA MaxOf ==
  ASSUME NEW n \in Nat, NEW T \in SUBSET (0..n), T # {}
  PROVE  Max(T) \in T /\ \A y \in T : y <= Max(T)
<1> DEFINE U == {n - t : t \in T}
<1>1. U \in SUBSET Nat /\ U # {}
  <2>1. \A t \in T : t \in 0..n /\ n - t \in Nat
    OBVIOUS
  <2> QED BY <2>1
<1>2. PICK x \in U : \A y \in U : x <= y
  BY <1>1, SmallestNat
<1>3. PICK t \in T : x = n - t
  BY <1>2
<1>4. \A y \in T : y <= t
  BY <1>2, <1>3
<1> QED BY <1>4 DEF Max

LEMMA FlattenExists ==
  ASSUME NEW seqs
  PROVE  \A m \in Nat : \E g : g = [i \in 1..m |-> IF i = 1 THEN seqs[i] ELSE g[i - 1] \o seqs[i]]
<1> DEFINE F(g, i) == IF i = 1 THEN seqs[i] ELSE g[i - 1] \o seqs[i]
           Good(m) == \E g : g = [i \in 1..m |-> F(g, i)]
           Bad == {m \in Nat : ~Good(m)}
<1>1. ASSUME Bad # {} PROVE FALSE
  <2> HIDE DEF Good
  <2>1. PICK m \in Bad : \A y \in Bad : m <= y
    BY <1>1, SmallestNat
  <2>2. m # 0
    <3> DEFINE h == [i \in 1..0 |-> seqs[i]]
    <3>1. h = [i \in 1..0 |-> F(h, i)]
      OBVIOUS
    <3>2. Good(0)
      <4> HIDE DEF h
      <4> QED BY <3>1 DEF Good
    <3> QED BY <3>2, <2>1
  <2>3. m - 1 \in Nat /\ m - 1 \notin Bad
    BY <2>1, <2>2
  <2>4. PICK g : g = [i \in 1..(m - 1) |-> F(g, i)]
    BY <2>3 DEF Good
  <2> DEFINE h == [i \in 1..m |-> IF i = m THEN F(g, m) ELSE g[i]]
  <2>5. ASSUME NEW i \in 1..m PROVE h[i] = F(h, i)
    <3>1. i # 1 => i - 1 \in 1..m /\ h[i - 1] = g[i - 1]
      BY <2>3
    <3>2. F(h, i) = F(g, i)
      <4> HIDE DEF h
      <4> QED BY <3>1
    <3>3. i # m => i \in 1..(m - 1)
      BY <2>3
    <3> HIDE DEF F
    <3>4. h[i] = F(g, i)
      BY <2>4, <3>3
    <3> QED BY <3>2, <3>4
  <2>6. h = [i \in 1..m |-> F(h, i)]
    <3>1. h = [i \in 1..m |-> h[i]]
      OBVIOUS
    <3> HIDE DEF h, F
    <3> QED BY <2>5, <3>1, Zenon
  <2>7. Good(m)
    <3> HIDE DEF h, F
    <3> QED BY <2>6 DEF Good
  <2> QED BY <2>1, <2>7
<1> HIDE DEF Good
<1>2. \A m \in Nat : Good(m)
  BY <1>1
<1> QED BY <1>2 DEF Good

LEMMA ConcatIs ==
  ASSUME NEW S, NEW a \in Seq(S), NEW b \in Seq(S)
  PROVE  /\ a \o b \in Seq(S) /\ Len(a \o b) = Len(a) + Len(b)
         /\ Len(a) \in Nat /\ Len(b) \in Nat
         /\ \A q \in 1..(Len(a) + Len(b)) : (a \o b)[q] = IF q <= Len(a) THEN a[q] ELSE b[q - Len(a)]
OBVIOUS

LEMMA SameSeq ==
  ASSUME NEW S, NEW a \in Seq(S), NEW b \in Seq(S), Len(a) = Len(b),
         \A q \in 1..Len(a) : a[q] = b[q]
  PROVE  a = b
OBVIOUS

LEMMA FunctionSeq ==
  ASSUME NEW S, NEW n \in Nat, NEW f \in [1..n -> S]
  PROVE  f \in Seq(S) /\ Len(f) = n
OBVIOUS


-----------------------------------------------------------------------------
(* All passes, one after the other.                                         *)
Late == phase \in {"merge", "scan"}
Folding == phase \in {"candidates", "match", "fold"}
Passed(s) == phase = "scan" \/ (phase = "merge" /\ s < pos)

\* What a section has become: only texts are folded, and symbols move with them.
KindInv ==
  /\ kind \in [Sects -> Kinds]
  /\ symSect \in [Symbols -> Sects \cup {0}]
  /\ ~Late => symSect = [y \in Symbols |-> link.sym[y].sect]
  /\ \A s \in Sects :
       /\ kind[s] \in {WasKind(s), "Ignore", "Folded"}
       /\ kind[s] = "Folded" => Late /\ WasKind(s) = "Text"
       /\ ~Passed(s) /\ WasKind(s) = "Target" => kind[s] = "Target"

MarkInv ==
  /\ reached \in [Sects -> SUBSET Sects]
  /\ entries \subseteq Sects /\ work \subseteq Sects /\ referenced \subseteq Sects

\* The candidates are texts that are still there, each once.
CandsInv ==
  /\ cands \in Seq(TextsIn(link))
  /\ \A i, j \in 1..Len(cands) : cands[i] = cands[j] => i = j
  /\ Folding => \A i \in 1..Len(cands) : kind[cands[i]] = "Text"
  /\ phase = "candidates" => \A i \in 1..Len(cands) : link.sect[cands[i]].obj < pos
  /\ Marking => cands = <<>>

KeptInv ==
  /\ pos \in Nat \ {0} /\ round \in 0..link.opt.iterations
  /\ kept \in Seq(1..Len(cands))
  /\ phase \in {"match", "fold"} => Len(kept) = Len(cands)
  /\ \A e \in sums : e.index \in 1..Len(cands)
  /\ Marking \/ phase = "candidates" => kept = <<>> /\ sums = {} /\ round = 0
  /\ Marking => pos = 1
  /\ phase = "match" => round < link.opt.iterations

BaseInv ==
  /\ link \in Links
  /\ phase \in {"reach", "mark", "candidates", "match", "fold", "merge", "scan"}
  /\ KindInv /\ MarkInv /\ CandsInv /\ KeptInv

LEMMA BaseInit == Init => BaseInv
<1> SUFFICES ASSUME Init PROVE BaseInv
  OBVIOUS
<1>1. /\ link \in Links
      /\ kind = [s \in Sects |-> link.sect[s].kind] /\ symSect = [y \in Symbols |-> link.sym[y].sect]
      /\ phase \in {"reach", "candidates", "merge"}
      /\ reached = [s \in Sects |-> {}] /\ entries = {} /\ work = {} /\ referenced = {}
      /\ cands = <<>> /\ kept = <<>> /\ sums = {} /\ pos = 1 /\ round = 0
  BY DEF Init, InitSections, ICFInit, FirstPass
<1>2. KindInv
  BY <1>1, LinkFacts DEF KindInv, WasKind, Kinds, GCKinds
<1>3. MarkInv /\ CandsInv
  BY <1>1 DEF MarkInv, CandsInv
<1>4. KeptInv
  BY <1>1, LinkFacts DEF KeptInv
<1> QED BY <1>1, <1>2, <1>3, <1>4 DEF BaseInv

LEMMA MarkSteps ==
  ASSUME BaseInv, SetUpReached \/ PushEntry \/ FindReferenced, UNCHANGED icfvars
  PROVE  BaseInv'
<1>1. /\ UNCHANGED <<link, kind, symSect, cands, kept, sums, pos, round>>
      /\ phase \in {"reach", "mark"} /\ phase' = "mark"
  BY DEF SetUpReached, PushEntry, FindReferenced, icfvars
<1>2. Sects' = Sects /\ Symbols' = Symbols /\ TextsIn(link)' = TextsIn(link)
      /\ \A s : WasKind(s)' = WasKind(s)
  BY <1>1 DEF Sects, Symbols, TextsIn, WasKind
<1>3. KindInv' /\ CandsInv' /\ KeptInv'
  BY <1>1, <1>2 DEF BaseInv, KindInv, CandsInv, KeptInv, Late, Passed, Folding, Marking
<1>4. MarkInv'
  <2>1. CASE SetUpReached
    <3>1. EntrySections \subseteq Sects
      BY DEF EntrySections, EntryByScript, EntryByExport, EntryByEntry, EntryByDynObj, EntryByUndef
    <3> QED BY <1>2, <2>1, <3>1, ReachedAreSections DEF SetUpReached, BaseInv, MarkInv
  <2>2. CASE PushEntry
    BY <1>2, <2>2 DEF PushEntry, BaseInv, MarkInv
  <2>3. CASE FindReferenced
    BY <1>2, <2>3 DEF FindReferenced, Mark, BaseInv, MarkInv
  <2> QED BY <2>1, <2>2, <2>3
<1> QED BY <1>1, <1>3, <1>4 DEF BaseInv

LEMMA StripStep ==
  ASSUME BaseInv, StripSections, UNCHANGED icfvars
  PROVE  BaseInv'
<1>1. /\ UNCHANGED <<link, symSect, reached, entries, work, referenced, cands, kept, sums, pos, round>>
      /\ phase = "mark" /\ phase' \in {"merge", "candidates"} /\ kind' = Stripped
  BY DEF StripSections, icfvars
<1>2. Sects' = Sects /\ Symbols' = Symbols /\ TextsIn(link)' = TextsIn(link)
      /\ \A s : WasKind(s)' = WasKind(s)
  BY <1>1 DEF Sects, Symbols, TextsIn, WasKind
<1>3. kind' \in [Sects -> Kinds] /\ \A s \in Sects : kind'[s] \in {kind[s], "Ignore"}
  BY <1>1 DEF Stripped, BaseInv, KindInv, Kinds
<1>4. \A s \in Sects : WasKind(s) = "Target" => kind'[s] = "Target"
  <2> SUFFICES ASSUME NEW s \in Sects, WasKind(s) = "Target" PROVE kind'[s] = "Target"
    OBVIOUS
  <2>1. kind[s] = "Target"
    BY <1>1 DEF BaseInv, KindInv, Late, Passed
  <2>2. ~MayProcessGC(s) /\ s \notin RelocSects
    BY <2>1 DEF MayProcessGC, GCKinds, RelocSects, WasKind
  <2> QED BY <1>1, <2>1, <2>2 DEF Stripped
<1>5. KindInv'
  BY <1>1, <1>2, <1>3, <1>4 DEF BaseInv, KindInv, Late, Passed
<1>e. cands = <<>> /\ cands' = <<>> /\ kept = <<>> /\ sums = {} /\ round = 0 /\ pos = 1
  BY <1>1 DEF BaseInv, CandsInv, KeptInv, Marking
<1>6. CandsInv'
  BY <1>1, <1>2, <1>e DEF BaseInv, CandsInv, Folding, Marking
<1>7. KeptInv'
  <2>1. round \in 0..link.opt.iterations /\ kept \in Seq(1..Len(cands))
    BY DEF BaseInv, KeptInv
  <2>2. phase' \notin {"match", "fold"}
    BY <1>1
  <2>3. (round \in 0..link.opt.iterations /\ kept \in Seq(1..Len(cands)))'
    BY <1>1, <2>1
  <2> QED BY <1>1, <1>e, <2>2, <2>3 DEF KeptInv
<1>8. MarkInv'
  BY <1>1, <1>2 DEF BaseInv, MarkInv, Marking
<1> QED BY <1>1, <1>5, <1>6, <1>7, <1>8 DEF BaseInv

\* What one object adds: its texts, or those whose address is not taken.
LEMMA FindStep ==
  ASSUME BaseInv, FindCandidates, UNCHANGED gcvars
  PROVE  BaseInv'
<1>1. /\ UNCHANGED <<link, kind, symSect, phase, reached, entries, work, referenced, kept, sums, round>>
      /\ phase = "candidates" /\ pos' = pos + 1 /\ kept = <<>> /\ sums = {}
  BY DEF FindCandidates, gcvars, BaseInv, KeptInv
<1>2. Sects' = Sects /\ Symbols' = Symbols /\ TextsIn(link)' = TextsIn(link)
      /\ \A s : WasKind(s)' = WasKind(s)
  BY <1>1 DEF Sects, Symbols, TextsIn, WasKind
<1>3. PICK order \in Orders(pos) : cands' = cands \o order
  BY DEF FindCandidates
<1> DEFINE C == CandidatesOf(pos)
<1>4. /\ C \subseteq TextsIn(link) /\ IsFiniteSet(C)
      /\ \A s \in C : kind[s] = "Text" /\ link.sect[s].obj = pos
  <2>1. C \subseteq TextsOf(pos)
    BY DEF CandidatesOf
  <2>2. \A s \in TextsOf(pos) : s \in Sects /\ kind[s] = "Text" /\ link.sect[s].obj = pos
    BY DEF TextsOf
  <2>3. \A s \in TextsOf(pos) : link.sect[s].kind = "Text"
    BY <2>2 DEF BaseInv, KindInv, WasKind
  <2>4. IsFiniteSet(1..Len(link.sect))
    <3>1. 1 \in Int /\ Len(link.sect) \in Int
      BY LinkFacts DEF BaseInv
    <3> QED BY <3>1, FS_Interval
  <2>5. C \subseteq 1..Len(link.sect)
    BY <2>1, <2>2 DEF Sects
  <2>6. IsFiniteSet(C)
    BY <2>4, <2>5, FS_Subset
  <2>7. \A s \in C : kind[s] = "Text" /\ link.sect[s].obj = pos
    BY <2>1, <2>2
  <2>8. C \subseteq TextsIn(link)
    BY <2>1, <2>3, <2>5 DEF TextsIn
  <2> QED BY <2>6, <2>7, <2>8
<1>5. PICK n \in Nat : order \in [1..n -> C] /\ \A i, j \in 1..n : i # j => order[i] # order[j]
  <2>1. Cardinality(C) \in Nat
    BY <1>4, FS_CardinalityType
  <2> QED BY <1>3, <2>1 DEF Orders, SetToSeqs
<1> HIDE DEF C
<1>6. cands \in Seq(TextsIn(link)) /\ order \in Seq(TextsIn(link)) /\ Len(order) = n
  BY <1>4, <1>5 DEF BaseInv, CandsInv
<1> DEFINE m == Len(cands)
<1>7. /\ cands' \in Seq(TextsIn(link)) /\ Len(cands') = m + n /\ m \in Nat
      /\ \A q \in 1..(m + n) : cands'[q] = IF q <= m THEN cands[q] ELSE order[q - m]
  BY <1>3, <1>6, ConcatIs
<1>8. ASSUME NEW q \in 1..(m + n)
      PROVE  /\ q <= m => kind[cands'[q]] = "Text" /\ link.sect[cands'[q]].obj < pos
             /\ q > m => kind[cands'[q]] = "Text" /\ link.sect[cands'[q]].obj = pos
  <2>1. CASE q <= m
    <3>1. q \in 1..m /\ cands'[q] = cands[q]
      BY <1>7, <2>1
    <3> QED BY <1>1, <1>7, <2>1, <3>1 DEF BaseInv, CandsInv, Folding
  <2>2. CASE q > m
    <3>1. q - m \in 1..n /\ cands'[q] = order[q - m]
      BY <1>7, <2>2
    <3> QED BY <1>4, <1>5, <1>7, <2>2, <3>1
  <2> QED BY <1>7, <2>1, <2>2
<1>9. ASSUME NEW i \in 1..(m + n), NEW j \in 1..(m + n), cands'[i] = cands'[j] PROVE i = j
  <2>1. pos \in Nat
    BY DEF BaseInv, KeptInv
  <2>2. i <= m <=> j <= m
    BY <1>7, <1>8, <1>9, <2>1
  <2>3. CASE i <= m
    <3>1. i \in 1..m /\ j \in 1..m /\ cands[i] = cands[j]
      BY <1>7, <1>9, <2>2, <2>3
    <3> QED BY <3>1 DEF BaseInv, CandsInv
  <2>4. CASE ~(i <= m)
    <3>1. i - m \in 1..n /\ j - m \in 1..n /\ order[i - m] = order[j - m]
      BY <1>7, <1>9, <2>2, <2>4
    <3>2. i - m = j - m
      BY <1>5, <3>1
    <3> QED BY <1>7, <3>2
  <2> QED BY <2>3, <2>4
<1>10. CandsInv'
  <2>1. \A q \in 1..(m + n) : kind[cands'[q]] = "Text" /\ link.sect[cands'[q]].obj < pos + 1
    <3> SUFFICES ASSUME NEW q \in 1..(m + n)
                 PROVE  kind[cands'[q]] = "Text" /\ link.sect[cands'[q]].obj < pos + 1
      OBVIOUS
    <3>1. pos \in Nat
      BY DEF BaseInv, KeptInv
    <3>2. cands'[q] \in Sects
      BY <1>7 DEF TextsIn, Sects
    <3>3. link.sect[cands'[q]].obj \in Nat
      BY <3>2, LinkFacts DEF BaseInv
    <3>4. q <= m \/ q > m
      BY <1>7
    <3> HIDE DEF m
    <3> QED BY <1>8, <3>1, <3>3, <3>4
  <2> HIDE DEF m
  <2> QED BY <1>1, <1>2, <1>7, <1>9, <2>1 DEF CandsInv, Marking
<1>11. KeptInv'
  BY <1>1 DEF BaseInv, KeptInv, Marking
<1>12. KindInv' /\ MarkInv'
  BY <1>1, <1>2 DEF BaseInv, KindInv, MarkInv, Late, Passed
<1> QED BY <1>1, <1>10, <1>11, <1>12 DEF BaseInv

LEMMA StartStep ==
  ASSUME BaseInv, StartMatching, UNCHANGED gcvars
  PROVE  BaseInv'
<1>1. /\ UNCHANGED <<link, kind, symSect, reached, entries, work, referenced, cands, sums, round>>
      /\ phase = "candidates" /\ pos' = 1 /\ kept' = [i \in 1..Len(cands) |-> i]
      /\ phase' = IF link.opt.iterations = 0 THEN "fold" ELSE "match"
  BY DEF StartMatching, gcvars
<1>2. Sects' = Sects /\ Symbols' = Symbols /\ TextsIn(link)' = TextsIn(link)
      /\ \A s : WasKind(s)' = WasKind(s)
  BY <1>1 DEF Sects, Symbols, TextsIn, WasKind
<1>3. KindInv' /\ MarkInv' /\ CandsInv'
  BY <1>1, <1>2 DEF BaseInv, KindInv, MarkInv, CandsInv, Late, Passed, Folding, Marking
<1>4. Len(cands) \in Nat /\ round = 0 /\ sums = {} /\ link.opt.iterations \in Nat
  BY <1>1, LinkFacts DEF BaseInv, KeptInv, CandsInv
<1>5. KeptInv'
  BY <1>1, <1>4 DEF KeptInv, Marking
<1> QED BY <1>1, <1>3, <1>5 DEF BaseInv

LEMMA MatchSteps ==
  ASSUME BaseInv, FoldCandidate \/ KeepCandidate, UNCHANGED gcvars
  PROVE  BaseInv'
<1>1. /\ UNCHANGED <<link, kind, symSect, phase, reached, entries, work, referenced, cands, round>>
      /\ phase = "match" /\ pos' = pos + 1 /\ pos =< Len(cands)
  BY DEF FoldCandidate, KeepCandidate, gcvars
<1>2. Sects' = Sects /\ Symbols' = Symbols /\ TextsIn(link)' = TextsIn(link)
      /\ \A s : WasKind(s)' = WasKind(s)
  BY <1>1 DEF Sects, Symbols, TextsIn, WasKind
<1>3. KindInv' /\ MarkInv' /\ CandsInv'
  BY <1>1, <1>2 DEF BaseInv, KindInv, MarkInv, CandsInv, Late, Passed, Folding, Marking
<1>4. /\ Len(cands) \in Nat /\ pos \in Nat /\ kept \in Seq(1..Len(cands)) /\ Len(kept) = Len(cands)
      /\ \A e \in sums : e.index \in 1..Len(cands)
  BY <1>1 DEF BaseInv, KeptInv, CandsInv
<1>5. kept' \in Seq(1..Len(cands)) /\ Len(kept') = Len(cands) /\ \A e \in sums' : e.index \in 1..Len(cands)
  <2>1. CASE FoldCandidate
    <3>1. PICK e \in Same : kept' = [kept EXCEPT ![pos] = e.index]
      BY <2>1 DEF FoldCandidate
    <3>2. e.index \in 1..Len(cands) /\ sums' = sums
      BY <1>4, <2>1 DEF FoldCandidate, Same
    <3>3. kept \in [1..Len(cands) -> 1..Len(cands)]
      BY <1>4
    <3>4. kept' \in [1..Len(cands) -> 1..Len(cands)]
      BY <3>1, <3>2, <3>3
    <3> QED BY <1>4, <3>2, <3>4, FunctionSeq
  <2>2. CASE KeepCandidate
    <3>1. kept' = kept /\ sums' = sums \cup {[content |-> ContentOf(pos), index |-> pos]}
      BY <2>2 DEF KeepCandidate
    <3>2. pos \in 1..Len(cands)
      <4>1. pos # 0
        BY DEF BaseInv, KeptInv
      <4> QED BY <1>1, <1>4, <4>1
    <3> QED BY <1>4, <3>1, <3>2
  <2> QED BY <2>1, <2>2
<1>6. KeptInv'
  BY <1>1, <1>4, <1>5 DEF BaseInv, KeptInv, Marking
<1> QED BY <1>1, <1>3, <1>6 DEF BaseInv

LEMMA EndStep ==
  ASSUME BaseInv, EndIteration, UNCHANGED gcvars
  PROVE  BaseInv'
<1>1. /\ UNCHANGED <<link, kind, symSect, reached, entries, work, referenced, cands, kept>>
      /\ phase = "match" /\ pos' = 1 /\ sums' = {} /\ round' = round + 1
      /\ phase' \in {"match", "fold"}
      /\ phase' = "match" => round' < link.opt.iterations
  BY DEF EndIteration, gcvars
<1>2. Sects' = Sects /\ Symbols' = Symbols /\ TextsIn(link)' = TextsIn(link)
      /\ \A s : WasKind(s)' = WasKind(s)
  BY <1>1 DEF Sects, Symbols, TextsIn, WasKind
<1>3. KindInv' /\ MarkInv' /\ CandsInv'
  BY <1>1, <1>2 DEF BaseInv, KindInv, MarkInv, CandsInv, Late, Passed, Folding, Marking
<1>4. round' \in 0..link.opt.iterations
  BY <1>1, LinkFacts DEF BaseInv, KeptInv
<1>5. KeptInv'
  BY <1>1, <1>4 DEF BaseInv, KeptInv, Marking
<1> QED BY <1>1, <1>3, <1>5 DEF BaseInv

\* The index of a candidate.
LEMMA IndexIs ==
  ASSUME NEW s, IsCandidate(s)
  PROVE  IndexOf(s) \in 1..Len(cands) /\ cands[IndexOf(s)] = s
BY DEF IsCandidate, IndexOf

LEMMA FoldStep ==
  ASSUME BaseInv, Fold, UNCHANGED gcvars
  PROVE  BaseInv'
<1>1. /\ UNCHANGED <<link, reached, entries, work, referenced, cands, kept, sums, round>>
      /\ phase = "fold" /\ phase' = "merge" /\ pos' = 1
      /\ kind' = [s \in Sects |-> IF Folded(s) THEN "Folded" ELSE kind[s]]
      /\ symSect' = [y \in Symbols |-> Adjusted(y)]
  BY DEF Fold, gcvars
<1>2. Sects' = Sects /\ Symbols' = Symbols /\ TextsIn(link)' = TextsIn(link)
      /\ \A s : WasKind(s)' = WasKind(s)
  BY <1>1 DEF Sects, Symbols, TextsIn, WasKind
<1>3. cands \in Seq(TextsIn(link)) /\ kept \in Seq(1..Len(cands)) /\ Len(kept) = Len(cands)
      /\ Len(cands) \in Nat
  BY <1>1 DEF BaseInv, KeptInv, CandsInv
<1>4. ASSUME NEW s, Folded(s)
      PROVE  /\ WasKind(s) = "Text" /\ s \in Sects
             /\ cands[kept[IndexOf(s)]] \in Sects
  <2>1. IndexOf(s) \in 1..Len(cands) /\ cands[IndexOf(s)] = s
    BY <1>4, IndexIs DEF Folded
  <2>2. \A i \in 1..Len(cands) : cands[i] \in TextsIn(link)
    BY <1>3
  <2>3. kept[IndexOf(s)] \in 1..Len(cands)
    BY <1>3, <2>1
  <2> QED BY <2>1, <2>2, <2>3 DEF TextsIn, Sects, WasKind
<1>5. KindInv'
  <2>1. kind' \in [Sects -> Kinds]
    BY <1>1 DEF BaseInv, KindInv, Kinds
  <2>2. symSect' \in [Symbols -> Sects \cup {0}]
    <3>1. \A y \in Symbols : Adjusted(y) \in Sects \cup {0}
      BY <1>4 DEF Adjusted, BaseInv, KindInv
    <3> QED BY <1>1, <3>1
  <2>3. \A s \in Sects : kind'[s] = "Folded" => WasKind(s) = "Text"
    BY <1>1, <1>4 DEF BaseInv, KindInv
  <2>4. /\ \A s \in Sects : kind'[s] \in {WasKind(s), "Ignore", "Folded"}
        /\ \A s \in Sects : WasKind(s) = "Target" => kind'[s] = "Target"
    BY <1>1, <1>4 DEF BaseInv, KindInv, Passed
  <2> QED BY <1>1, <1>2, <2>1, <2>2, <2>3, <2>4 DEF KindInv, Late, Passed
<1>6. CandsInv' /\ KeptInv' /\ MarkInv'
  BY <1>1, <1>2 DEF BaseInv, CandsInv, KeptInv, MarkInv, Folding, Marking
<1> QED BY <1>1, <1>5, <1>6 DEF BaseInv

\* The merge leaves out a relocation section or an unwind table, nothing else.
LEMMA MergeIs ==
  ASSUME BaseInv, MergeSection
  PROVE  /\ UNCHANGED <<link, symSect, phase, gcvars, cands, kept, sums, round>>
         /\ phase = "merge" /\ pos \in Sects /\ pos' = pos + 1
         /\ kind' = [kind EXCEPT ![pos] = Merged(pos)]
         /\ Merged(pos) # kind[pos] => Merged(pos) = "Ignore" /\ kind[pos] \in {"Relocation", "Target"}
                                       /\ WasKind(pos) = kind[pos]
<1>1. pos \in Sects
  BY LinkFacts DEF MergeSection, BaseInv, KeptInv, Sects
<1> QED BY <1>1 DEF MergeSection, Merged, BaseInv, KindInv

LEMMA MergeStep ==
  ASSUME BaseInv, MergeSection
  PROVE  BaseInv'
<1>1. /\ UNCHANGED <<link, symSect, phase, reached, entries, work, referenced, cands, kept, sums, round>>
      /\ phase = "merge" /\ pos \in Sects /\ pos' = pos + 1
      /\ kind' = [kind EXCEPT ![pos] = Merged(pos)]
      /\ Merged(pos) # kind[pos] => Merged(pos) = "Ignore"
  BY MergeIs DEF gcvars
<1>2. Sects' = Sects /\ Symbols' = Symbols /\ TextsIn(link)' = TextsIn(link)
      /\ \A s : WasKind(s)' = WasKind(s)
  BY <1>1 DEF Sects, Symbols, TextsIn, WasKind
<1>3. KindInv'
  <2>1. kind' \in [Sects -> Kinds] /\ \A s \in Sects : kind'[s] \in {kind[s], "Ignore"}
    BY <1>1 DEF BaseInv, KindInv, Kinds
  <2>2. ASSUME NEW s \in Sects, WasKind(s) = "Target", ~Passed(s)' PROVE kind'[s] = "Target"
    <3>1. pos \in Nat /\ s \in Nat
      BY DEF BaseInv, KeptInv, Sects
    <3>2. s # pos /\ ~Passed(s)
      BY <1>1, <2>2, <3>1 DEF Passed
    <3> QED BY <1>1, <2>2, <3>2 DEF BaseInv, KindInv
  <2> QED BY <1>1, <1>2, <2>1, <2>2 DEF BaseInv, KindInv, Late
<1>4. CandsInv' /\ KeptInv' /\ MarkInv'
  BY <1>1, <1>2 DEF BaseInv, CandsInv, KeptInv, MarkInv, Folding, Marking
<1> QED BY <1>1, <1>3, <1>4 DEF BaseInv

LEMMA ScanStep ==
  ASSUME BaseInv, EndMerge
  PROVE  BaseInv'
<1>1. /\ UNCHANGED <<link, kind, symSect, reached, entries, work, referenced, cands, kept, sums, pos, round>>
      /\ phase = "merge" /\ phase' = "scan"
  BY DEF EndMerge, gcvars, icfvars
<1>2. Sects' = Sects /\ Symbols' = Symbols /\ TextsIn(link)' = TextsIn(link)
      /\ \A s : WasKind(s)' = WasKind(s)
  BY <1>1 DEF Sects, Symbols, TextsIn, WasKind
<1> QED BY <1>1, <1>2 DEF BaseInv, KindInv, CandsInv, KeptInv, MarkInv, Late, Passed, Folding, Marking

LEMMA BaseStutter ==
  ASSUME BaseInv, UNCHANGED allvars
  PROVE  BaseInv'
<1>1. UNCHANGED <<link, kind, symSect, phase, reached, entries, work, referenced, cands, kept, sums, pos, round>>
  BY DEF allvars
<1>2. Sects' = Sects /\ Symbols' = Symbols /\ TextsIn(link)' = TextsIn(link)
      /\ \A s : WasKind(s)' = WasKind(s)
  BY <1>1 DEF Sects, Symbols, TextsIn, WasKind
<1> QED BY <1>1, <1>2 DEF BaseInv, KindInv, CandsInv, KeptInv, MarkInv, Late, Passed, Folding, Marking

LEMMA BaseNext == BaseInv /\ [Next]_allvars => BaseInv'
BY MarkSteps, StripStep, FindStep, StartStep, MatchSteps, EndStep, FoldStep, MergeStep, ScanStep,
   BaseStutter DEF Next

LEMMA BaseInvariant == Spec => []BaseInv
BY BaseInit, BaseNext, PTL DEF Spec

LEMMA CountTo ==
  ASSUME NEW n \in Nat
  PROVE  Cardinality(1..n) = n
<1>1. n \in Int /\ 1 \in Int /\ (1 > n => n = 0)
  OBVIOUS
<1>2. Cardinality(1..n) = IF 1 > n THEN 0 ELSE n - 1 + 1
  BY <1>1, FS_Interval
<1> QED BY <1>1, <1>2

\* The candidates are not more than the texts of the inputs.
LEMMA CandidatesAreTexts ==
  ASSUME BaseInv
  PROVE  Len(cands) \in Nat /\ Len(cands) <= Cardinality(TextsIn(link)) /\ Cardinality(TextsIn(link)) \in Nat
<1>1. cands \in Seq(TextsIn(link)) /\ Len(cands) \in Nat
  BY DEF BaseInv, CandsInv
<1>2. IsFiniteSet(TextsIn(link))
  <2>1. IsFiniteSet(1..Len(link.sect))
    BY LinkFacts, FS_Interval DEF BaseInv
  <2> QED BY <2>1, FS_Subset DEF TextsIn
<1>3. cands \in Injection(1..Len(cands), TextsIn(link))
  BY <1>1 DEF BaseInv, CandsInv, Injection, IsInjective
<1>4. Cardinality(1..Len(cands)) = Len(cands)
  BY <1>1, CountTo
<1> QED BY <1>1, <1>2, <1>3, <1>4, FS_Injection, FS_CardinalityType

\* Every pass of the stripping leaves well-typed kinds, symbols, candidates and
\* indices, and folding does not go on longer than it may, if the inputs have no
\* more texts than an index has digits for.
THEOREM TypeCorrect ==
  ASSUME \A l \in Links : FewTexts(l)
  PROVE  Spec => []TypeOK
<1>1. BaseInv => TypeOK
  <2> SUFFICES ASSUME BaseInv PROVE TypeOK
    OBVIOUS
  <2>1. Len(cands) =< MaxCandidates
    BY CandidatesAreTexts DEF BaseInv, FewTexts, MaxCandidates
  <2>2. kept \in [1..Len(kept) -> 1..Len(cands)] /\ pos \in Nat
    BY DEF BaseInv, KeptInv
  <2> QED BY <2>1, <2>2 DEF TypeOK, BaseInv, KindInv, MarkInv, KeptInv
<1> QED BY <1>1, BaseInvariant, PTL

-----------------------------------------------------------------------------
(* After the garbage collection.                                            *)

\* What folding and the merge may do to a section.
OnlyDropped ==
  \A s \in Sects : \/ kind'[s] = kind[s]
                   \/ kind'[s] = "Folded" /\ kind[s] = "Text"
                   \/ kind'[s] = "Ignore" /\ kind[s] \in {"Relocation", "Target"}

LEMMA LaterSteps ==
  ASSUME BaseInv, Next, ~Marking
  PROVE  ~Marking' /\ UNCHANGED <<link, referenced, reached>> /\ OnlyDropped
<1>1. CASE UNCHANGED kind /\ UNCHANGED <<link, referenced, reached>> /\ ~Marking'
  BY <1>1 DEF OnlyDropped
<1>2. CASE FindCandidates /\ UNCHANGED gcvars
  BY <1>1, <1>2 DEF FindCandidates, gcvars, Marking
<1>3. CASE StartMatching /\ UNCHANGED gcvars
  BY <1>1, <1>3 DEF StartMatching, gcvars, Marking
<1>4. CASE (FoldCandidate \/ KeepCandidate) /\ UNCHANGED gcvars
  BY <1>1, <1>4 DEF FoldCandidate, KeepCandidate, gcvars, Marking
<1>5. CASE EndIteration /\ UNCHANGED gcvars
  BY <1>1, <1>5 DEF EndIteration, gcvars, Marking
<1>6. CASE Fold /\ UNCHANGED gcvars
  <2>1. \A s : Folded(s) => s \in Sects /\ kind[s] = "Text"
    <3> SUFFICES ASSUME NEW s, Folded(s) PROVE s \in Sects /\ kind[s] = "Text"
      OBVIOUS
    <3>1. IndexOf(s) \in 1..Len(cands) /\ cands[IndexOf(s)] = s
      BY IndexIs DEF Folded
    <3> QED BY <3>1, <1>6 DEF BaseInv, CandsInv, Folding, Fold, TextsIn, Sects
  <2> QED BY <1>6, <2>1 DEF Fold, gcvars, Marking, OnlyDropped
<1>7. CASE MergeSection
  <2>1. /\ UNCHANGED <<link, phase, referenced, reached>> /\ pos \in Sects
        /\ kind' = [kind EXCEPT ![pos] = Merged(pos)]
        /\ Merged(pos) # kind[pos] => Merged(pos) = "Ignore" /\ kind[pos] \in {"Relocation", "Target"}
    BY <1>7, MergeIs DEF gcvars
  <2>2. kind \in [Sects -> Kinds]
    BY DEF BaseInv, KindInv
  <2> QED BY <2>1, <2>2 DEF OnlyDropped, Marking
<1>8. CASE EndMerge
  BY <1>1, <1>8 DEF EndMerge, gcvars, Marking
<1>9. ~(SetUpReached \/ PushEntry \/ FindReferenced \/ StripSections)
  BY DEF SetUpReached, PushEntry, FindReferenced, StripSections, Marking
<1> QED BY <1>2, <1>3, <1>4, <1>5, <1>6, <1>7, <1>8, <1>9 DEF Next

\* What the properties say of the inputs does not change.
LEMMA InputsStay ==
  ASSUME link' = link
  PROVE  /\ Sects' = Sects /\ RelocSects' = RelocSects /\ Symbols' = Symbols
         /\ NeededSymbols' = NeededSymbols /\ \A y : Overlooked(y)' <=> Overlooked(y)
         /\ \A s : WasKind(s)' = WasKind(s) /\ RefsOf(s)' = RefsOf(s)
BY DEF NeededSymbols, Overlooked, Exported, HasEntry, DynObj, Symbols, RelocSects, Sects, WasKind,
       RefsOf, RelocsOf

\* A needed symbol does not lie in an unwind table, and no relocation refers to
\* one.
LEMMA NeededAreNoTables ==
  ASSUME BaseInv, TablesUnnamed(link)
  PROVE  /\ \A y \in NeededSymbols : link.sym[y].sect # 0 =>
              link.sym[y].sect \in Sects /\ WasKind(link.sym[y].sect) \notin {"Target", "Relocation", "Ignore"}
         /\ \A r \in Sects : \A y \in RefsOf(r) : link.sym[y].sect # 0 =>
              link.sym[y].sect \in Sects /\ WasKind(link.sym[y].sect) \notin {"Target", "Relocation", "Ignore"}
<1>0. link \in Links
  BY DEF BaseInv
<1>1. ASSUME NEW y \in NeededSymbols, link.sym[y].sect # 0
      PROVE  link.sym[y].sect \in Sects /\ WasKind(link.sym[y].sect) \notin {"Target", "Relocation", "Ignore"}
  <2>1. y \in Symbols
    BY <1>0, LinkFacts DEF NeededSymbols
  <2>2. WasKind(link.sym[y].sect) # "Target"
    BY <1>1, <2>1 DEF TablesUnnamed, NeededSymbols, Symbols, WasKind
  <2> QED BY <1>0, <1>1, <2>1, <2>2, LinkFacts DEF WasKind
<1>2. ASSUME NEW r \in Sects, NEW y \in RefsOf(r), link.sym[y].sect # 0
      PROVE  link.sym[y].sect \in Sects /\ WasKind(link.sym[y].sect) \notin {"Target", "Relocation", "Ignore"}
  <2>1. y \in Symbols
    BY <1>0, LinkFacts
  <2>2. PICK i \in 1..Len(link.sect[r].relocs) : link.sect[r].relocs[i].sym = y
    BY <1>0, LinkFacts
  <2>3. i \in DOMAIN link.sect[r].relocs
    BY <1>0, LinkFacts
  <2>4. WasKind(link.sym[y].sect) # "Target"
    BY <1>2, <2>1, <2>2, <2>3 DEF TablesUnnamed, Sects, Symbols, WasKind
  <2> QED BY <1>0, <1>2, <2>1, <2>4, LinkFacts DEF WasKind
<1> QED BY <1>1, <1>2

LEMMA NeededStay ==
  ASSUME BaseInv, TablesUnnamed(link), Next, ~Marking, NeededIsKept
  PROVE  NeededIsKept'
<1>1. ~Marking' /\ UNCHANGED <<link, referenced, reached>> /\ OnlyDropped
  BY LaterSteps
<1>2. /\ Sects' = Sects /\ RelocSects' = RelocSects /\ NeededSymbols' = NeededSymbols
      /\ \A s : WasKind(s)' = WasKind(s) /\ RefsOf(s)' = RefsOf(s)
      /\ \A y : Overlooked(y)' <=> Overlooked(y)
  BY <1>1, InputsStay
<1>3. \A s \in Sects : WasKind(s) \notin {"Target", "Relocation"} /\ kind[s] # "Ignore" => kind'[s] # "Ignore"
  BY <1>1 DEF OnlyDropped, BaseInv, KindInv
<1>4. ASSUME NEW s \in Sects, link.sect[s].keep, WasKind(s) \in GCKinds PROVE kind'[s] # "Ignore"
  BY <1>3, <1>4 DEF NeededIsKept, GCKinds
<1>5. ASSUME NEW y \in NeededSymbols, link.sym[y].sect # 0, ~Overlooked(y)
      PROVE  kind'[link.sym[y].sect] # "Ignore"
  BY <1>3, <1>5, NeededAreNoTables DEF NeededIsKept
<1>6. ASSUME NEW r \in RelocSects, kind'[r] = "Relocation", kind'[link.sect[r].lnk] \in GCKinds,
             NEW y \in RefsOf(r), link.sym[y].sect # 0
      PROVE  kind'[link.sym[y].sect] # "Ignore"
  <2>1. r \in Sects /\ link.sect[r].lnk \in Sects
    BY LinkFacts DEF RelocSects, BaseInv
  <2>2. kind[r] = "Relocation" /\ kind[link.sect[r].lnk] \in GCKinds
    BY <1>1, <1>6, <2>1 DEF OnlyDropped, GCKinds
  <2>3. kind[link.sym[y].sect] # "Ignore"
    BY <1>6, <2>2 DEF NeededIsKept
  <2> QED BY <1>3, <1>6, <2>1, <2>3, NeededAreNoTables
<1> QED BY <1>1, <1>2, <1>4, <1>5, <1>6 DEF NeededIsKept

LEMMA KeptStay ==
  ASSUME BaseInv, Next, ~Marking, KeptIsNeeded
  PROVE  KeptIsNeeded'
<1>1. ~Marking' /\ UNCHANGED <<link, referenced, reached>> /\ OnlyDropped
  BY LaterSteps
<1>2. Sects' = Sects /\ \A s : WasKind(s)' = WasKind(s)
  BY <1>1, InputsStay
<1>3. \A s \in Sects : kind'[s] # "Ignore" => kind[s] # "Ignore"
  BY <1>1 DEF OnlyDropped
<1>4. phase' # "mark"
  BY <1>1 DEF Marking
<1> QED BY <1>1, <1>2, <1>3, <1>4 DEF KeptIsNeeded

\* Until the sections are stripped, the passes are garbage collection.
Collected == Marking => GCInv

LEMMA CollectedInit == Init => Collected /\ (~Marking => NeededIsKept /\ KeptIsNeeded)
<1> SUFFICES ASSUME Init PROVE Collected /\ (~Marking => NeededIsKept /\ KeptIsNeeded)
  OBVIOUS
<1>1. CASE Marking
  <2>1. GCInit
    BY <1>1 DEF Init, GCInit, FirstPass, Marking
  <2> QED BY <1>1, <2>1, InitEstablishesInv DEF Collected
<1>2. CASE ~Marking
  <2>1. link \in Links /\ ~link.opt.gc /\ phase # "mark" /\ kind = [s \in Sects |-> link.sect[s].kind]
    BY <1>2 DEF Init, InitSections, FirstPass, Marking
  <2>2. \A y \in Symbols : link.sym[y].sect # 0 => kind[link.sym[y].sect] # "Ignore"
    BY <2>1, LinkFacts
  <2>3. NeededSymbols \subseteq Symbols /\ \A r \in RelocSects : RefsOf(r) \subseteq Symbols
    BY <2>1, LinkFacts DEF NeededSymbols, RelocSects
  <2>4. \A s \in Sects : WasKind(s) \in GCKinds => kind[s] # "Ignore"
    BY <2>1 DEF WasKind, GCKinds
  <2> QED BY <1>2, <2>1, <2>2, <2>3, <2>4 DEF NeededIsKept, KeptIsNeeded, Collected
<1> QED BY <1>1, <1>2

LEMMA CollectedNext ==
  ASSUME BaseInv, Collected, [Next]_allvars
  PROVE  Collected' /\ (Marking /\ ~Marking' => NeededIsKept' /\ KeptIsNeeded')
<1>1. CASE Next /\ Marking
  <2>1. GCInv
    BY <1>1 DEF Collected
  <2>2. SetUpReached \/ PushEntry \/ FindReferenced \/ StripSections
    BY <1>1 DEF Next, Marking, FindCandidates, StartMatching, FoldCandidate, KeepCandidate, EndIteration,
                Fold, MergeSection, EndMerge
  <2>3. GCInv'
    BY <2>1, <2>2, SetUpKeepsInv, PushKeepsInv, FindKeepsInv, StripKeepsInv
  <2> QED BY <2>3 DEF Collected, GCInv
<1>2. CASE Next /\ ~Marking
  BY <1>2, LaterSteps DEF Collected
<1>3. CASE UNCHANGED allvars
  <2>1. UNCHANGED vars
    BY <1>3 DEF allvars, vars
  <2>2. Marking' <=> Marking
    BY <2>1 DEF vars, Marking
  <2> QED BY <2>1, <2>2, StutterKeepsInv DEF Collected
<1> QED BY <1>1, <1>2, <1>3

\* With folding and the merge after it: no section is dropped that is needed by
\* anything but a symbol that garbage collection overlooks, if the unwind tables
\* are not referred to.
THEOREM NothingNeededIsDropped ==
  ASSUME \A l \in Links : TablesUnnamed(l)
  PROVE  Spec => []NeededIsKept
<1> DEFINE Inv == BaseInv /\ Collected /\ (~Marking => NeededIsKept)
<1>1. Init => Inv
  BY BaseInit, CollectedInit
<1>2. ASSUME Inv, [Next]_allvars PROVE Inv'
  <2>1. BaseInv' /\ Collected' /\ (Marking /\ ~Marking' => NeededIsKept')
    BY <1>2, BaseNext, CollectedNext
  <2>2. TablesUnnamed(link)
    BY <1>2 DEF BaseInv
  <2>3. CASE Next /\ ~Marking
    BY <1>2, <2>1, <2>2, <2>3, NeededStay
  <2>4. CASE UNCHANGED allvars
    <3>1. UNCHANGED <<link, kind, phase>>
      BY <2>4 DEF allvars
    <3>2. (Marking' <=> Marking) /\ (NeededIsKept' <=> NeededIsKept)
      BY <3>1, InputsStay DEF NeededIsKept, Marking
    <3> QED BY <1>2, <2>1, <3>2
  <2> QED BY <1>2, <2>1, <2>3, <2>4
<1>3. Inv => NeededIsKept
  BY DEF NeededIsKept
<1> QED BY <1>1, <1>2, <1>3, PTL DEF Spec

\* With folding and the merge after it: what is marked and kept is needed.
THEOREM NothingIsKeptInVain == Spec => []KeptIsNeeded
<1> DEFINE Inv == BaseInv /\ Collected /\ (~Marking => KeptIsNeeded)
<1>1. Init => Inv
  BY BaseInit, CollectedInit
<1>2. ASSUME Inv, [Next]_allvars PROVE Inv'
  <2>1. BaseInv' /\ Collected' /\ (Marking /\ ~Marking' => KeptIsNeeded')
    BY <1>2, BaseNext, CollectedNext
  <2>3. CASE Next /\ ~Marking
    BY <1>2, <2>1, <2>3, KeptStay
  <2>4. CASE UNCHANGED allvars
    <3>1. UNCHANGED <<link, kind, phase, referenced, reached>>
      BY <2>4 DEF allvars
    <3>2. phase # "mark" => (KeptIsNeeded' <=> KeptIsNeeded)
      BY <3>1, InputsStay DEF KeptIsNeeded, Marking
    <3>3. (Marking' <=> Marking)
      BY <3>1 DEF Marking
    <3> QED BY <1>2, <2>1, <3>2, <3>3 DEF Marking
  <2> QED BY <1>2, <2>1, <2>3, <2>4
<1>3. Inv => KeptIsNeeded
  BY DEF Collected, GCInv, KeptIsNeeded, Marked, Pending, Marking
<1> QED BY <1>1, <1>2, <1>3, PTL DEF Spec

-----------------------------------------------------------------------------
(* Unwind tables.                                                           *)
Together(s) ==
  /\ WasKind(s) = "Target" => (Dropped(s) <=> Dropped(link.sect[s].lnk))
  /\ WasKind(s) = "Relocation" => (Dropped(link.sect[s].lnk) => Dropped(s))

UnwindInv == \A s \in Sects : Passed(s) => Together(s)

LEMMA UnwindMerge ==
  ASSUME BaseInv, UnwindInv, MergeSection, TablesComeFirst(link)
  PROVE  UnwindInv'
<1>0. link \in Links /\ kind \in [Sects -> Kinds]
  BY DEF BaseInv, KindInv
<1>1. /\ UNCHANGED <<link, phase>> /\ phase = "merge" /\ pos \in Sects /\ pos' = pos + 1
      /\ kind' = [kind EXCEPT ![pos] = Merged(pos)]
      /\ Merged(pos) # kind[pos] => Merged(pos) = "Ignore" /\ WasKind(pos) \in {"Relocation", "Target"}
  BY MergeIs DEF gcvars
<1>2. /\ \A t \in Sects : t # pos => kind'[t] = kind[t]
      /\ kind'[pos] = Merged(pos)
  BY <1>0, <1>1
<1>3. pos \in Nat /\ Sects \subseteq Nat
  BY <1>1 DEF Sects
<1>4. ASSUME NEW s \in Sects, Passed(s)' PROVE Together(s)'
  <2> DEFINE of == link.sect[s].lnk
  <2>1. s <= pos
    BY <1>1, <1>3, <1>4 DEF Passed
  <2>2. WasKind(s)' = WasKind(s)
    BY <1>1, InputsStay
  <2>3. CASE s # pos
    <3>1. Together(s) /\ s < pos
      BY <1>1, <1>3, <2>1, <2>3 DEF UnwindInv, Passed
    <3>2. WasKind(s) = "Target" => of \in Sects /\ WasKind(of) \notin {"Target", "Relocation"}
      BY DEF TablesComeFirst, WasKind, Sects
    <3>3. WasKind(s) = "Relocation" =>
            of \in Sects /\ WasKind(of) # "Relocation" /\ (WasKind(of) = "Target" => of < s)
      BY <1>0, LinkFacts DEF TablesComeFirst, WasKind, Sects
    <3>4. WasKind(s) \in {"Target", "Relocation"} => of \in Sects /\ kind'[of] = kind[of]
      <4>1. of = pos /\ WasKind(s) \in {"Target", "Relocation"} => Merged(pos) = kind[pos]
        BY <1>1, <1>3, <3>1, <3>2, <3>3
      <4> QED BY <1>2, <3>2, <3>3, <4>1
    <3> QED BY <1>1, <1>2, <2>2, <2>3, <3>1, <3>4 DEF Together, Dropped
  <2>4. CASE s = pos
    <3>1. ~Passed(s)
      BY <1>1, <1>3, <2>4 DEF Passed
    <3>2. WasKind(s) = "Target" => kind[s] = "Target" /\ of \in Sects /\ of # s
      BY <3>1 DEF BaseInv, KindInv, TablesComeFirst, WasKind, Sects
    <3>3. WasKind(s) = "Relocation" =>
            kind[s] \in {"Relocation", "Ignore"} /\ of \in Sects /\ of # s
      BY <1>0, LinkFacts DEF BaseInv, KindInv, TablesComeFirst, WasKind, Sects
    <3>4. WasKind(s) \in {"Target", "Relocation"} => (Dropped(of)' <=> Dropped(of))
      BY <1>1, <1>2, <2>4, <3>2, <3>3 DEF Dropped
    <3>5. kind'[s] = Merged(s)
      BY <1>2, <2>4
    <3> HIDE DEF of
    <3>6. WasKind(s) = "Target" => (Dropped(s)' <=> Dropped(of)')
      BY <3>2, <3>4, <3>5 DEF Merged, Dropped, of
    <3>7. WasKind(s) = "Relocation" => (Dropped(of)' => Dropped(s)')
      BY <3>3, <3>4, <3>5 DEF Merged, Dropped, of
    <3> QED BY <1>1, <2>2, <3>6, <3>7 DEF Together, Dropped, of
  <2> QED BY <2>3, <2>4
<1>5. Sects' = Sects
  BY <1>1, InputsStay
<1> QED BY <1>4, <1>5 DEF UnwindInv

\* A function has its unwind table in the output if and only if it is there
\* itself, whether it was stripped or folded, and no dropped section is
\* relocated: if a table and its relocations follow what they are about.
THEOREM UnwindGoesWithText ==
  ASSUME \A l \in Links : TablesComeFirst(l)
  PROVE  Spec => []UnwindFollowsText
<1> DEFINE Inv == BaseInv /\ UnwindInv
<1>1. Init => Inv
  BY BaseInit DEF Init, FirstPass, ICFInit, UnwindInv, Passed, Sects
<1>2. ASSUME Inv, [Next]_allvars PROVE Inv'
  <2>0. BaseInv' /\ TablesComeFirst(link)
    BY <1>2, BaseNext DEF BaseInv
  <2>1. CASE MergeSection
    BY <1>2, <2>0, <2>1, UnwindMerge
  <2>2. CASE EndMerge
    <3>1. UNCHANGED <<link, kind>> /\ phase = "merge" /\ phase' = "scan" /\ pos > Len(link.sect)
      BY <2>2 DEF EndMerge
    <3>2. \A s \in Sects : Passed(s)
      BY <1>2, <3>1, LinkFacts DEF Passed, Sects, BaseInv, KeptInv
    <3>3. \A s : Together(s)' <=> Together(s)
      BY <3>1, InputsStay DEF Together, Dropped
    <3>4. Sects' = Sects
      BY <3>1, InputsStay
    <3> QED BY <1>2, <2>0, <3>2, <3>3, <3>4 DEF UnwindInv
  <2>3. CASE UNCHANGED allvars
    <3>1. UNCHANGED <<link, kind, phase, pos>>
      BY <2>3 DEF allvars
    <3>2. \A s : (Together(s)' <=> Together(s)) /\ (Passed(s)' <=> Passed(s))
      BY <3>1, InputsStay DEF Together, Dropped, Passed
    <3>3. Sects' = Sects
      BY <3>1, InputsStay
    <3> QED BY <1>2, <2>0, <3>2, <3>3 DEF UnwindInv
  <2>4. CASE Next /\ ~(MergeSection \/ EndMerge)
    <3>1. phase' # "scan" /\ (phase' = "merge" => pos' = 1)
      BY <1>2, <2>4 DEF Next, SetUpReached, PushEntry, FindReferenced, StripSections, FindCandidates, StartMatching,
         FoldCandidate, KeepCandidate, EndIteration, Fold, MergeSection, EndMerge, gcvars, icfvars, BaseInv, KeptInv,
         Marking
    <3>2. \A s \in Sects' : ~Passed(s)'
      BY <2>0, <3>1 DEF Passed, Sects
    <3> QED BY <2>0, <3>2 DEF UnwindInv
  <2> QED BY <1>2, <2>1, <2>2, <2>3, <2>4
<1>3. Inv => UnwindFollowsText
  BY DEF UnwindInv, Together, Passed, UnwindFollowsText
<1> QED BY <1>1, <1>2, <1>3, PTL DEF Spec

-----------------------------------------------------------------------------
(* Folding.  A relation between candidates is closed when its members refer *)
(* to the same, or to members of it; the largest one is an equivalence.     *)
Idx == 1..Len(cands)
Closed(R) == R \subseteq Idx \X Idx /\ \A p \in R : SameText(cands[p[1]], cands[p[2]], R)
Largest == UNION {R \in SUBSET (Idx \X Idx) : Closed(R)}

LEMMA TextMonotone ==
  ASSUME NEW a, NEW b, NEW R, NEW S, R \subseteq S, SameText(a, b, R)
  PROVE  SameText(a, b, S)
BY DEF SameText, SameRef

LEMMA LargestHolds ==
  ASSUME NEW R, Closed(R)
  PROVE  R \subseteq Largest
BY DEF Largest, Closed

LEMMA LargestClosed == Closed(Largest)
<1>1. Largest \subseteq Idx \X Idx
  BY DEF Largest
<1>2. ASSUME NEW p \in Largest PROVE SameText(cands[p[1]], cands[p[2]], Largest)
  <2>1. PICK R \in SUBSET (Idx \X Idx) : Closed(R) /\ p \in R
    BY DEF Largest
  <2>2. SameText(cands[p[1]], cands[p[2]], R) /\ R \subseteq Largest
    BY <2>1, LargestHolds DEF Closed
  <2> HIDE DEF Largest
  <2> QED BY <2>2, TextMonotone
<1> QED BY <1>1, <1>2 DEF Closed

LEMMA LargestReflexive == \A i \in Idx : <<i, i>> \in Largest
<1> DEFINE R == {<<i, i>> : i \in Idx}
<1>1. ASSUME NEW a PROVE SameText(a, a, R)
  BY DEF SameText, SameRef
<1>2. Closed(R)
  <2>1. \A p \in R : p[1] = p[2] /\ p \in Idx \X Idx
    OBVIOUS
  <2> HIDE DEF R
  <2> QED BY <1>1, <2>1 DEF Closed
<1> QED BY <1>2, LargestHolds

LEMMA LargestSymmetric ==
  ASSUME NEW i, NEW j, <<i, j>> \in Largest
  PROVE  <<j, i>> \in Largest
<1> DEFINE R == {<<p[2], p[1]>> : p \in Largest}
<1>0. Largest \subseteq Idx \X Idx /\ \A p \in Largest : SameText(cands[p[1]], cands[p[2]], Largest)
  BY LargestClosed DEF Closed
<1>1. ASSUME NEW x, NEW y, SameRef(x, y, Largest) PROVE SameRef(y, x, R)
  <2>1. CASE x = y
    BY <2>1 DEF SameRef
  <2>2. CASE x # y
    <3> DEFINE ix == IndexOf(symSect[x])
               iy == IndexOf(symSect[y])
    <3>1. <<ix, iy>> \in Largest /\ IsCandidate(symSect[x]) /\ IsCandidate(symSect[y])
          /\ ~Preemptible(x) /\ ~Preemptible(y)
      BY <1>1, <2>2 DEF SameRef
    <3>2. <<iy, ix>> \in R
      <4> HIDE DEF ix, iy
      <4>1. <<ix, iy>> \in Largest
        BY <3>1
      <4> QED BY <4>1
    <3> QED BY <3>1, <3>2 DEF SameRef
  <2> QED BY <2>1, <2>2
<1>2. ASSUME NEW a, NEW b, SameText(a, b, Largest) PROVE SameText(b, a, R)
  <2> HIDE DEF R
  <2> QED BY <1>1, <1>2 DEF SameText
<1>3. Closed(R)
  <2>1. ASSUME NEW q \in R PROVE q \in Idx \X Idx /\ SameText(cands[q[1]], cands[q[2]], R)
    <3>1. PICK p \in Largest : q = <<p[2], p[1]>>
      OBVIOUS
    <3>2. p \in Idx \X Idx /\ q[1] = p[2] /\ q[2] = p[1]
      BY <1>0, <3>1
    <3> HIDE DEF R
    <3> QED BY <1>0, <1>2, <3>1, <3>2
  <2> HIDE DEF R
  <2> QED BY <2>1 DEF Closed
<1>4. <<j, i>> \in R
  OBVIOUS
<1> QED BY <1>3, <1>4, LargestHolds

LEMMA LargestTransitive ==
  ASSUME NEW i, NEW j, NEW k, <<i, j>> \in Largest, <<j, k>> \in Largest
  PROVE  <<i, k>> \in Largest
<1> DEFINE R == {q \in Idx \X Idx : \E m \in Idx : <<q[1], m>> \in Largest /\ <<m, q[2]>> \in Largest}
<1>0. Largest \subseteq Idx \X Idx /\ \A p \in Largest : SameText(cands[p[1]], cands[p[2]], Largest)
  BY LargestClosed DEF Closed
<1>a. ASSUME NEW x, NEW m, NEW z, <<x, m>> \in Largest, <<m, z>> \in Largest
      PROVE  <<x, z>> \in R
  <2>1. x \in Idx /\ m \in Idx /\ z \in Idx
    BY <1>0, <1>a
  <2> QED BY <1>a, <2>1
<1>b. \A q \in R : q \in Idx \X Idx /\ q = <<q[1], q[2]>>
                   /\ \E m \in Idx : <<q[1], m>> \in Largest /\ <<m, q[2]>> \in Largest
  OBVIOUS
<1> HIDE DEF R
<1>1. ASSUME NEW x, NEW y, NEW z, SameRef(x, y, Largest), SameRef(y, z, Largest) PROVE SameRef(x, z, R)
  <2> DEFINE ix == IndexOf(symSect[x])
             iy == IndexOf(symSect[y])
             iz == IndexOf(symSect[z])
             Free(w) == IsCandidate(symSect[w]) /\ ~Preemptible(w)
  <2>0. /\ x = y \/ (Free(x) /\ Free(y) /\ <<ix, iy>> \in Largest)
        /\ y = z \/ (Free(y) /\ Free(z) /\ <<iy, iz>> \in Largest)
    BY <1>1 DEF SameRef
  <2>r. \A w : Free(w) => <<IndexOf(symSect[w]), IndexOf(symSect[w])>> \in Largest
    BY IndexIs, LargestReflexive DEF Idx
  <2>1. CASE x = y /\ y = z
    BY <2>1 DEF SameRef
  <2>2. CASE x = y /\ y # z
    <3>1. <<ix, ix>> \in Largest /\ <<ix, iz>> \in Largest /\ Free(x) /\ Free(z)
      BY <2>0, <2>r, <2>2
    <3>2. <<ix, iz>> \in R
      BY <3>1, <1>a
    <3> QED BY <3>1, <3>2 DEF SameRef
  <2>3. CASE x # y /\ y = z
    <3>1. <<ix, iz>> \in Largest /\ <<iz, iz>> \in Largest /\ Free(x) /\ Free(z)
      BY <2>0, <2>r, <2>3
    <3>2. <<ix, iz>> \in R
      BY <3>1, <1>a
    <3> QED BY <3>1, <3>2 DEF SameRef
  <2>4. CASE x # y /\ y # z
    <3>1. <<ix, iy>> \in Largest /\ <<iy, iz>> \in Largest /\ Free(x) /\ Free(z)
      BY <2>0, <2>4
    <3>2. <<ix, iz>> \in R
      BY <3>1, <1>a
    <3> QED BY <3>1, <3>2 DEF SameRef
  <2> QED BY <2>1, <2>2, <2>3, <2>4
<1>2. ASSUME NEW a, NEW b, NEW c, SameText(a, b, Largest), SameText(b, c, Largest) PROVE SameText(a, c, R)
  BY <1>1, <1>2 DEF SameText
<1>3. Closed(R)
  <2>1. ASSUME NEW q \in R PROVE q \in Idx \X Idx /\ SameText(cands[q[1]], cands[q[2]], R)
    <3>1. PICK m \in Idx : <<q[1], m>> \in Largest /\ <<m, q[2]>> \in Largest
      BY <1>b
    <3>2. SameText(cands[q[1]], cands[m], Largest) /\ SameText(cands[m], cands[q[2]], Largest)
      <4> DEFINE u == <<q[1], m>>
                 v == <<m, q[2]>>
      <4>1. u[1] = q[1] /\ u[2] = m /\ v[1] = m /\ v[2] = q[2]
        OBVIOUS
      <4>2. u \in Largest /\ v \in Largest
        BY <3>1
      <4> HIDE DEF u, v
      <4>3. SameText(cands[u[1]], cands[u[2]], Largest) /\ SameText(cands[v[1]], cands[v[2]], Largest)
        BY <1>0, <4>2
      <4> QED BY <4>1, <4>3
    <3> QED BY <1>b, <1>2, <3>2
  <2> QED BY <2>1 DEF Closed
<1>4. <<i, k>> \in R
  BY <1>a
<1> QED BY <1>3, <1>4, LargestHolds

\* A pair belongs to the largest relation if it would with itself in it.
LEMMA LargestTakes ==
  ASSUME NEW i \in Idx, NEW j \in Idx,
         SameText(cands[i], cands[j], Largest \cup {<<i, j>>})
  PROVE  <<i, j>> \in Largest
<1> DEFINE R == Largest \cup {<<i, j>>}
<1>0. Largest \subseteq Idx \X Idx /\ \A p \in Largest : SameText(cands[p[1]], cands[p[2]], Largest)
  BY LargestClosed DEF Closed
<1>1. ASSUME NEW p \in R PROVE p \in Idx \X Idx /\ SameText(cands[p[1]], cands[p[2]], R)
  <2>1. CASE p \in Largest
    <3>1. SameText(cands[p[1]], cands[p[2]], Largest) /\ Largest \subseteq R
      BY <1>0, <2>1
    <3> HIDE DEF R
    <3> QED BY <1>0, <2>1, <3>1, TextMonotone
  <2>2. CASE p = <<i, j>>
    <3>1. p[1] = i /\ p[2] = j
      BY <2>2
    <3> QED BY <2>2, <3>1
  <2> QED BY <2>1, <2>2
<1>2. Closed(R)
  <2> HIDE DEF R
  <2> QED BY <1>1 DEF Closed
<1> QED BY <1>2, LargestHolds

\* The rounds of the refinement.
Round(g, n) ==
  IF n = 0 THEN Idx \X Idx
  ELSE {p \in g[n - 1] : SameText(cands[p[1]], cands[p[2]], g[n - 1])}

LEMMA RoundsExist == \A m \in Nat : \E g : g = [n \in 0..m |-> Round(g, n)]
<1> DEFINE Good(m) == \E g : g = [n \in 0..m |-> Round(g, n)]
           Bad == {m \in Nat : ~Good(m)}
<1>1. ASSUME Bad # {} PROVE FALSE
  <2> HIDE DEF Good
  <2>1. PICK m \in Bad : \A y \in Bad : m <= y
    BY <1>1, SmallestNat
  <2>2. m # 0
    <3> DEFINE h == [n \in 0..0 |-> Idx \X Idx]
    <3>1. \A n \in 0..0 : Round(h, n) = Idx \X Idx
      BY DEF Round
    <3>2. h = [n \in 0..0 |-> Round(h, n)]
      <4> HIDE DEF h
      <4> QED BY <3>1 DEF h
    <3>3. Good(0)
      <4> HIDE DEF h
      <4> QED BY <3>2 DEF Good
    <3> QED BY <3>3, <2>1
  <2>3. m - 1 \in Nat /\ m - 1 \notin Bad
    BY <2>1, <2>2
  <2>4. PICK g : g = [n \in 0..(m - 1) |-> Round(g, n)]
    BY <2>3 DEF Good
  <2> DEFINE h == [n \in 0..m |-> IF n = m THEN Round(g, m) ELSE g[n]]
  <2>5. ASSUME NEW n \in 0..m PROVE h[n] = Round(h, n)
    <3>1. n # 0 => n - 1 \in 0..m /\ h[n - 1] = g[n - 1]
      BY <2>3
    <3>2. Round(h, n) = Round(g, n)
      <4> HIDE DEF h
      <4> QED BY <3>1 DEF Round
    <3>3. n # m => n \in 0..(m - 1)
      BY <2>3
    <3>4. h[n] = Round(g, n)
      BY <2>4, <3>3
    <3> QED BY <3>2, <3>4
  <2>6. h = [n \in 0..m |-> Round(h, n)]
    <3>1. h = [n \in 0..m |-> h[n]]
      OBVIOUS
    <3> HIDE DEF h
    <3> QED BY <2>5, <3>1, Zenon
  <2>7. Good(m)
    <3> HIDE DEF h
    <3> QED BY <2>6 DEF Good
  <2> QED BY <2>1, <2>7
<1> HIDE DEF Good
<1>2. \A m \in Nat : Good(m)
  BY <1>1
<1> QED BY <1>2 DEF Good

\* No round tells the members of the largest relation apart.
LEMMA LargestIsAlike ==
  ASSUME Len(cands) \in Nat
  PROVE  Largest \subseteq Alike
<1> DEFINE N == Len(cands)
           P(g) == g = [n \in 0..N |-> IF n = 0 THEN (1..Len(cands)) \X (1..Len(cands))
                                       ELSE {p \in g[n - 1] : SameText(cands[p[1]], cands[p[2]], g[n - 1])}]
           f == CHOOSE g : P(g)
<1>1. Alike = f[N]
  BY DEF Alike
<1>2. \A g : P(g) <=> g = [n \in 0..N |-> Round(g, n)]
  BY DEF Round, Idx
<1>3. P(f)
  <2>1. \E g : P(g)
    <3> HIDE DEF P
    <3> QED BY <1>2, RoundsExist
  <2> HIDE DEF P
  <2> QED BY <2>1
<1>4. \A n \in 0..N : f[n] = Round(f, n)
  <2> HIDE DEF P, f
  <2>1. f = [n \in 0..N |-> Round(f, n)]
    BY <1>2, <1>3
  <2> QED BY <2>1
<1> HIDE DEF f, P
<1> DEFINE Bad == {n \in Nat : n <= N /\ ~(Largest \subseteq f[n])}
<1>0. Largest \subseteq Idx \X Idx /\ \A p \in Largest : SameText(cands[p[1]], cands[p[2]], Largest)
  BY LargestClosed DEF Closed
<1>5. ASSUME Bad # {} PROVE FALSE
  <2>1. PICK n \in Bad : \A y \in Bad : n <= y
    <3> HIDE DEF Bad
    <3>1. Bad \in SUBSET Nat
      BY DEF Bad
    <3> QED BY <1>5, <3>1, SmallestNat
  <2>2. n \in 0..N /\ ~(Largest \subseteq f[n])
    BY <2>1
  <2>3. n # 0
    BY <1>0, <1>4, <2>2 DEF Round
  <2>4. n - 1 \in 0..N /\ n - 1 \notin Bad
    BY <2>1, <2>2, <2>3
  <2>5. Largest \subseteq f[n - 1]
    BY <2>4
  <2>6. \A p \in Largest : SameText(cands[p[1]], cands[p[2]], f[n - 1])
    BY <1>0, <2>5, TextMonotone
  <2> QED BY <1>4, <2>2, <2>3, <2>5, <2>6 DEF Round
<1>6. N \in Nat /\ N \notin Bad
  BY <1>5
<1> QED BY <1>1, <1>6

-----------------------------------------------------------------------------
(* Two rows of sequences of at most one element, the second of which has an *)
(* element only where the first has one, are equal if they flatten to the   *)
(* same.                                                                    *)
Short(S) == {s \in Seq(S) : Len(s) <= 1}

LEMMA ShortIs ==
  ASSUME NEW S, NEW a \in Seq(S), NEW b \in Seq(S), NEW s \in Short(S), NEW t \in Short(S),
         a \o s = b \o t, t # <<>> => s # <<>>, Len(a) >= Len(b)
  PROVE  a = b /\ s = t
<1>1. /\ a \in Seq(S) /\ b \in Seq(S) /\ s \in Seq(S) /\ t \in Seq(S)
      /\ Len(s) \in {0, 1} /\ Len(t) \in {0, 1} /\ Len(a) \in Nat /\ Len(b) \in Nat
  <2>1. /\ a \in Seq(S) /\ b \in Seq(S) /\ s \in Seq(S) /\ t \in Seq(S)
        /\ Len(s) <= 1 /\ Len(t) <= 1
    BY DEF Short
  <2>2. Len(s) \in Nat /\ Len(t) \in Nat /\ Len(a) \in Nat /\ Len(b) \in Nat
    BY <2>1
  <2>3. \A k \in Nat : k <= 1 => k \in {0, 1}
    OBVIOUS
  <2> QED BY <2>1, <2>2, <2>3
<1>2. Len(a) + Len(s) = Len(b) + Len(t)
  BY <1>1, ConcatIs
<1>3. Len(t) = 1 => Len(s) = 1
  BY <1>1
<1>4. Len(a) = Len(b) /\ Len(s) = Len(t)
  BY <1>1, <1>2, <1>3
<1>5. \A q \in 1..(Len(a) + Len(s)) :
        (IF q <= Len(a) THEN a[q] ELSE s[q - Len(a)]) = (IF q <= Len(a) THEN b[q] ELSE t[q - Len(a)])
  BY <1>1, <1>4, ConcatIs
<1>6. \A q \in 1..Len(a) : a[q] = b[q]
  BY <1>1, <1>5
<1>7. Len(s) = 1 => s[1] = t[1]
  <2> SUFFICES ASSUME Len(s) = 1 PROVE s[1] = t[1]
    OBVIOUS
  <2>1. Len(a) + 1 \in 1..(Len(a) + Len(s)) /\ ~(Len(a) + 1 <= Len(a)) /\ Len(a) + 1 - Len(a) = 1
    BY <1>1
  <2> QED BY <1>5, <2>1
<1>8. a = b
  BY <1>4, <1>6, SameSeq
<1>9. s = t
  <2>1. Len(s) = 0 => s = <<>> /\ t = <<>>
    BY <1>1, <1>4
  <2>2. Len(s) = 1 => s = t
    <3> SUFFICES ASSUME Len(s) = 1 PROVE s = t
      OBVIOUS
    <3>1. \A q \in 1..Len(s) : s[q] = t[q]
      BY <1>7
    <3> QED BY <1>1, <1>4, <3>1
  <2> QED BY <1>1, <2>1, <2>2
<1> QED BY <1>8, <1>9




\* g holds what the prefixes of the row u flatten to.
PrefixRow(S, m, u, g) ==
  /\ g \in [1..m -> Seq(S)] /\ g[1] = u[1]
  /\ \A i \in 2..m : g[i] = g[i - 1] \o u[i]

LEMMA FlattenIs ==
  ASSUME NEW S, NEW m \in Nat \ {0}, NEW u \in [1..m -> Short(S)]
  PROVE  \E g : FlattenSeq(u) = g[m] /\ PrefixRow(S, m, u, g)
<1>1. Len(u) = m /\ 1..Len(u) = 1..m
  OBVIOUS
<1> DEFINE P(g) == g = [i \in 1..Len(u) |-> IF i = 1 THEN u[i] ELSE g[i - 1] \o u[i]]
           f == CHOOSE g : P(g)
<1>2. FlattenSeq(u) = f[m]
  BY <1>1 DEF FlattenSeq
<1>3. P(f)
  <2>1. \E g : P(g)
    BY <1>1, FlattenExists
  <2> HIDE DEF P
  <2> QED BY <2>1
<1>4. f = [i \in 1..m |-> IF i = 1 THEN u[i] ELSE f[i - 1] \o u[i]]
  <2> HIDE DEF f
  <2> QED BY <1>1, <1>3
<1> HIDE DEF f, P
<1>5. f[1] = u[1] /\ \A i \in 2..m : f[i] = f[i - 1] \o u[i]
  <2>1. \A i \in 1..m : f[i] = IF i = 1 THEN u[i] ELSE f[i - 1] \o u[i]
    BY <1>4, Zenon
  <2>2. 1 \in 1..m /\ \A i \in 2..m : i \in 1..m /\ i # 1
    OBVIOUS
  <2> QED BY <2>1, <2>2
<1>6. \A i \in 1..m : u[i] \in Seq(S)
  BY DEF Short
<1>7. \A i \in 1..m : f[i] \in Seq(S)
  <2> DEFINE Bad == {i \in Nat : i \in 1..m /\ f[i] \notin Seq(S)}
  <2>1. ASSUME Bad # {} PROVE FALSE
    <3>1. PICK i \in Bad : \A y \in Bad : i <= y
      <4>1. Bad \in SUBSET Nat
        OBVIOUS
      <4> HIDE DEF Bad
      <4> QED BY <2>1, <4>1, SmallestNat
    <3>2. i # 1
      BY <1>5, <1>6, <3>1
    <3>3. i \in 2..m /\ i - 1 \in Nat /\ i - 1 \in 1..m /\ i - 1 \notin Bad
      BY <3>1, <3>2
    <3>4. f[i - 1] \in Seq(S) /\ u[i] \in Seq(S)
      BY <1>6, <3>1, <3>3
    <3>5. f[i] \in Seq(S)
      <4>1. f[i] = f[i - 1] \o u[i]
        BY <1>5, <3>3
      <4>2. f[i - 1] \o u[i] \in Seq(S)
        BY <3>4, ConcatIs
      <4> QED BY <4>1, <4>2
    <3> QED BY <3>1, <3>5
  <2> QED BY <2>1
<1>8. f \in [1..m -> Seq(S)]
  BY <1>4, <1>7
<1> QED BY <1>2, <1>5, <1>8 DEF PrefixRow

LEMMA FlattenSame ==
  ASSUME NEW S, NEW m \in Nat, NEW u \in [1..m -> Short(S)], NEW v \in [1..m -> Short(S)],
         \A q \in 1..m : v[q] # <<>> => u[q] # <<>>,
         FlattenSeq(u) = FlattenSeq(v)
  PROVE  \A q \in 1..m : u[q] = v[q]
<1> SUFFICES ASSUME m # 0 PROVE \A q \in 1..m : u[q] = v[q]
  OBVIOUS
<1>1a. PICK g : FlattenSeq(u) = g[m] /\ PrefixRow(S, m, u, g)
  BY FlattenIs
<1>1. /\ g \in [1..m -> Seq(S)] /\ g[1] = u[1]
      /\ \A i \in 2..m : g[i] = g[i - 1] \o u[i]
  BY <1>1a DEF PrefixRow
<1>2a. PICK h : FlattenSeq(v) = h[m] /\ PrefixRow(S, m, v, h)
  BY FlattenIs
<1>2. /\ h \in [1..m -> Seq(S)] /\ h[1] = v[1]
      /\ \A i \in 2..m : h[i] = h[i - 1] \o v[i]
  BY <1>2a DEF PrefixRow
<1>3. /\ \A i \in 1..m : u[i] \in Seq(S) /\ v[i] \in Seq(S) /\ g[i] \in Seq(S) /\ h[i] \in Seq(S)
      /\ \A i \in 1..m : Len(v[i]) <= Len(u[i])
      /\ \A i \in 1..m : Len(u[i]) \in Nat /\ Len(v[i]) \in Nat /\ Len(g[i]) \in Nat /\ Len(h[i]) \in Nat
  <2> SUFFICES ASSUME NEW i \in 1..m
               PROVE  /\ u[i] \in Seq(S) /\ v[i] \in Seq(S) /\ g[i] \in Seq(S) /\ h[i] \in Seq(S)
                      /\ Len(v[i]) <= Len(u[i])
                      /\ Len(u[i]) \in Nat /\ Len(v[i]) \in Nat /\ Len(g[i]) \in Nat /\ Len(h[i]) \in Nat
    OBVIOUS
  <2>1. /\ u[i] \in Seq(S) /\ v[i] \in Seq(S) /\ g[i] \in Seq(S) /\ h[i] \in Seq(S)
        /\ Len(v[i]) <= 1
    BY <1>1, <1>2 DEF Short
  <2>2. v[i] # <<>> => u[i] # <<>>
    OBVIOUS
  <2> QED BY <2>1, <2>2
<1>4. \A i \in 1..m : Len(g[i]) >= Len(h[i])
  <2> DEFINE Bad == {i \in Nat : i \in 1..m /\ ~(Len(g[i]) >= Len(h[i]))}
  <2>1. ASSUME Bad # {} PROVE FALSE
    <3>1. PICK i \in Bad : \A y \in Bad : i <= y
      <4>1. Bad \in SUBSET Nat
        OBVIOUS
      <4> HIDE DEF Bad
      <4> QED BY <2>1, <4>1, SmallestNat
    <3>2. i # 1
      BY <1>1, <1>2, <1>3, <3>1
    <3>3. i \in 2..m /\ i - 1 \in Nat /\ i - 1 \in 1..m /\ i - 1 \notin Bad
      BY <3>1, <3>2
    <3>4. Len(g[i - 1]) >= Len(h[i - 1])
      BY <3>3
    <3>5. Len(g[i]) = Len(g[i - 1]) + Len(u[i]) /\ Len(h[i]) = Len(h[i - 1]) + Len(v[i])
      <4>1. g[i] = g[i - 1] \o u[i] /\ h[i] = h[i - 1] \o v[i]
        BY <1>1, <1>2, <3>3
      <4>2. g[i - 1] \in Seq(S) /\ u[i] \in Seq(S) /\ h[i - 1] \in Seq(S) /\ v[i] \in Seq(S)
        BY <1>3, <3>1, <3>3
      <4>3. Len(g[i - 1] \o u[i]) = Len(g[i - 1]) + Len(u[i])
        BY <4>2, ConcatIs
      <4>4. Len(h[i - 1] \o v[i]) = Len(h[i - 1]) + Len(v[i])
        BY <4>2, ConcatIs
      <4> QED BY <4>1, <4>3, <4>4
    <3>6. ~(Len(g[i]) >= Len(h[i]))
      BY <3>1
    <3>7. /\ Len(u[i]) \in Nat /\ Len(v[i]) \in Nat /\ Len(v[i]) <= Len(u[i])
          /\ Len(g[i - 1]) \in Nat /\ Len(h[i - 1]) \in Nat
      BY <1>3, <3>1, <3>3
    <3> QED BY <3>4, <3>5, <3>6, <3>7
  <2> QED BY <2>1
<1>5. \A d \in Nat : d < m => g[m - d] = h[m - d]
  <2> DEFINE Bad == {d \in Nat : d < m /\ g[m - d] # h[m - d]}
  <2>1. ASSUME Bad # {} PROVE FALSE
    <3>1. PICK d \in Bad : \A y \in Bad : d <= y
      <4>1. Bad \in SUBSET Nat
        OBVIOUS
      <4> HIDE DEF Bad
      <4> QED BY <2>1, <4>1, SmallestNat
    <3>2. d # 0
      <4>1. g[m] = h[m]
        BY <1>1a, <1>2a
      <4>2. m - 0 = m
        OBVIOUS
      <4> QED BY <3>1, <4>1, <4>2
    <3> DEFINE i == m - d + 1
    <3>3. d - 1 \in Nat /\ d - 1 < m /\ d - 1 \notin Bad
      <4>1. d \in Nat /\ d < m
        OBVIOUS
      <4>2. d - 1 \in Nat /\ d - 1 < m /\ ~(d <= d - 1)
        BY <3>2, <4>1
      <4> HIDE DEF Bad
      <4> QED BY <3>1, <4>2
    <3>4. i = m - (d - 1) /\ i \in 2..m /\ i - 1 = m - d /\ i - 1 \in 1..m /\ i \in 1..m
      BY <3>1, <3>2
    <3> HIDE DEF i
    <3>5. g[i] = h[i]
      BY <3>3, <3>4
    <3>6. g[i - 1] \o u[i] = h[i - 1] \o v[i]
      BY <1>1, <1>2, <3>4, <3>5
    <3>7. g[i - 1] = h[i - 1]
      <4>1. /\ g[i - 1] \in Seq(S) /\ h[i - 1] \in Seq(S) /\ Len(g[i - 1]) >= Len(h[i - 1])
            /\ u[i] \in Short(S) /\ v[i] \in Short(S) /\ (v[i] # <<>> => u[i] # <<>>)
        BY <1>3, <1>4, <3>4
      <4> QED BY <3>6, <4>1, ShortIs
    <3> QED BY <3>1, <3>4, <3>7
  <2> QED BY <2>1
<1>6. \A i \in 1..m : g[i] = h[i]
  <2> SUFFICES ASSUME NEW i \in 1..m PROVE g[i] = h[i]
    OBVIOUS
  <2>1. m - i \in Nat /\ m - i < m /\ m - (m - i) = i
    OBVIOUS
  <2> QED BY <1>5, <2>1
<1>7. ASSUME NEW q \in 1..m PROVE u[q] = v[q]
  <2>1. CASE q = 1
    BY <1>1, <1>2, <1>6, <2>1
  <2>2. CASE q # 1
    <3>1. q \in 2..m /\ q - 1 \in 1..m
      BY <2>2
    <3>2. g[q - 1] \o u[q] = h[q - 1] \o v[q]
      <4>1. g[q] = g[q - 1] \o u[q] /\ h[q] = h[q - 1] \o v[q] /\ g[q] = h[q]
        BY <1>1, <1>2, <1>6, <3>1
      <4> QED BY <4>1
    <3>3. /\ g[q - 1] \in Seq(S) /\ h[q - 1] \in Seq(S) /\ Len(g[q - 1]) >= Len(h[q - 1])
          /\ u[q] \in Short(S) /\ v[q] \in Short(S) /\ (v[q] # <<>> => u[q] # <<>>)
      BY <1>3, <1>4, <3>1
    <3> QED BY <3>2, <3>3, ShortIs
  <2> QED BY <2>1, <2>2
<1> QED BY <1>7

-----------------------------------------------------------------------------
(* The content of a candidate, as it was or would be with the indices k.    *)
IndexIn(k, s, x) ==
  IF IsVariable(s, x.sym) THEN Hex(k[IndexOf(symSect[x.sym])] - 1) ELSE <<>>

IndicesIn(k, s) ==
  LET refs == RelocsOfText(s) IN [j \in 1..Len(refs) |-> IndexIn(k, s, refs[j])]

ContentWith(k, i) ==
  [code |-> link.sect[cands[i]].code, relocs |-> Constants(cands[i]),
   indices |-> FlattenSeq(IndicesIn(k, cands[i]))]

\* Of n candidates, each is folded into one that L holds to be the same.
SoundFor(k, n, L) == k \in [1..n -> 1..n] /\ \A i \in 1..n : <<i, k[i]>> \in L

LEMMA RelocsAre ==
  ASSUME link \in Links, NEW s
  PROVE  /\ RelocsOfText(s) \in Seq([sym : Symbols, ptr : BOOLEAN])
         /\ \/ RelocsOfText(s) = <<>>
            \/ \E r \in Sects : /\ link.sect[r].kind = "Relocation" /\ link.sect[r].lnk = s
                                /\ RelocsOfText(s) = link.sect[r].relocs
<1> DEFINE all == {r \in RelocSects : kind[r] = "Relocation" /\ link.sect[r].lnk = s}
           T == [sym : Symbols, ptr : BOOLEAN]
<1>1. Len(link.sect) \in Nat /\ \A r \in Sects : link.sect[r].relocs \in Seq(T)
  BY LinksAssumption DEF LinkAssumption, Sects, Symbols
<1> HIDE DEF T
<1>2. CASE all = {}
  BY <1>2 DEF RelocsOfText
<1>3. CASE all # {}
  <2>1. all \in SUBSET (0..Len(link.sect))
    BY <1>1 DEF RelocSects, Sects
  <2> HIDE DEF all
  <2>2. Max(all) \in all
    BY <1>1, <1>3, <2>1, MaxOf
  <2>3. RelocsOfText(s) = link.sect[Max(all)].relocs
    BY <1>3 DEF RelocsOfText, all
  <2>4. \A r \in all : r \in Sects /\ link.sect[r].kind = "Relocation" /\ link.sect[r].lnk = s
    BY DEF all, RelocSects
  <2> QED BY <1>1, <2>2, <2>3, <2>4 DEF T
<1> QED BY <1>2, <1>3 DEF T

LEMMA RefsAre ==
  ASSUME link \in Links, NEW s
  PROVE  /\ Len(RelocsOfText(s)) \in Nat
         /\ \A q \in 1..Len(RelocsOfText(s)) : RelocsOfText(s)[q].sym \in Symbols
<1> DEFINE T == [sym : Symbols, ptr : BOOLEAN]
<1>1. RelocsOfText(s) \in Seq(T)
  BY RelocsAre
<1>2. \A x \in T : x.sym \in Symbols
  OBVIOUS
<1> HIDE DEF T
<1> QED BY <1>1, <1>2

\* What the symbols of the inputs say of a call of the function itself.
LEMMA RecursiveIs ==
  ASSUME BaseInv, ~Late, NEW s, NEW x, x.sym \in Symbols
  PROVE  Recursive(s, x.sym) <=> CallsItself(link, s, x)
BY DEF BaseInv, KindInv, Recursive, CallsItself, Symbols

LEMMA SelfCallsStay ==
  ASSUME BaseInv, ~Late, SelfCallsBind(link), NEW s, NEW q \in 1..Len(RelocsOfText(s)),
         Recursive(s, RelocsOfText(s)[q].sym)
  PROVE  ~Preemptible(RelocsOfText(s)[q].sym)
<1>0. link \in Links
  BY DEF BaseInv
<1>1. RelocsOfText(s) # <<>>
  OBVIOUS
<1>2. PICK r \in Sects : /\ link.sect[r].kind = "Relocation" /\ link.sect[r].lnk = s
                         /\ RelocsOfText(s) = link.sect[r].relocs
  BY <1>0, <1>1, RelocsAre
<1> DEFINE x == link.sect[r].relocs[q]
<1>3. CallsItself(link, link.sect[r].lnk, x)
  BY <1>0, <1>2, RefsAre, RecursiveIs
<1>4. q \in DOMAIN link.sect[r].relocs
  BY <1>0, <1>2, RelocsAre
<1>5. link.opt.output = "shared" => link.sym[x.sym].local \/ link.sym[x.sym].hidden
  BY <1>2, <1>3, <1>4 DEF SelfCallsBind, Sects
<1> QED BY <1>2, <1>5 DEF Preemptible

LEMMA SelfCallsNest ==
  ASSUME BaseInv, ~Late, SelfCallsAgree(link), NEW a, NEW b,
         link.sect[a].code = link.sect[b].code, Len(RelocsOfText(a)) = Len(RelocsOfText(b))
  PROVE  \/ \A q \in 1..Len(RelocsOfText(a)) :
              Recursive(a, RelocsOfText(a)[q].sym) => Recursive(b, RelocsOfText(b)[q].sym)
         \/ \A q \in 1..Len(RelocsOfText(a)) :
              Recursive(b, RelocsOfText(b)[q].sym) => Recursive(a, RelocsOfText(a)[q].sym)
<1>0. link \in Links
  BY DEF BaseInv
<1> DEFINE m == Len(RelocsOfText(a))
<1>1. CASE m = 0
  BY <1>1
<1>2. CASE m # 0
  <2>1. RelocsOfText(a) # <<>> /\ RelocsOfText(b) # <<>>
    BY <1>2
  <2>2. PICK r \in Sects : /\ link.sect[r].kind = "Relocation" /\ link.sect[r].lnk = a
                           /\ RelocsOfText(a) = link.sect[r].relocs
    BY <1>0, <2>1, RelocsAre
  <2>3. PICK t \in Sects : /\ link.sect[t].kind = "Relocation" /\ link.sect[t].lnk = b
                           /\ RelocsOfText(b) = link.sect[t].relocs
    BY <1>0, <2>1, RelocsAre
  <2> DEFINE places(q) == {i \in DOMAIN link.sect[q].relocs :
                             CallsItself(link, link.sect[q].lnk, link.sect[q].relocs[i])}
  <2>4. places(r) \subseteq places(t) \/ places(t) \subseteq places(r)
    BY <2>2, <2>3 DEF SelfCallsAgree, Sects
  <2>5. \A q \in 1..m : Recursive(a, RelocsOfText(a)[q].sym) <=> q \in places(r)
    <3>1. \A q \in 1..m : q \in DOMAIN link.sect[r].relocs
      BY <1>0, <2>2, RelocsAre
    <3> QED BY <1>0, <2>2, <3>1, RefsAre, RecursiveIs
  <2>6. \A q \in 1..m : Recursive(b, RelocsOfText(b)[q].sym) <=> q \in places(t)
    <3>1. \A q \in 1..m : q \in DOMAIN link.sect[t].relocs
      BY <1>0, <2>3, RelocsAre
    <3> QED BY <1>0, <2>3, <3>1, RefsAre, RecursiveIs
  <2> HIDE DEF places, m
  <2> QED BY <2>4, <2>5, <2>6 DEF m
<1> QED BY <1>1, <1>2

LEMMA IndexOfCandidate ==
  ASSUME BaseInv, NEW i \in Idx
  PROVE  IsCandidate(cands[i]) /\ IndexOf(cands[i]) = i
<1>1. IsCandidate(cands[i])
  BY DEF Idx, IsCandidate
<1>2. IndexOf(cands[i]) \in 1..Len(cands) /\ cands[IndexOf(cands[i])] = cands[i]
  BY <1>1, IndexIs
<1>3. IndexOf(cands[i]) = i
  BY <1>2 DEF Idx, BaseInv, CandsInv
<1> QED BY <1>1, <1>3

\* A variable reference leaves one digit, from which the index can be told.
LEMMA IndicesAre ==
  ASSUME BaseInv, SingleDigits(link), NEW k, SoundFor(k, Len(cands), Largest), NEW s,
         NEW m \in Nat, m = Len(RelocsOfText(s))
  PROVE  /\ IndicesIn(k, s) \in [1..m -> Short(Nat)]
         /\ \A q \in 1..m :
              LET y == RelocsOfText(s)[q].sym IN
              /\ ~IsVariable(s, y) => IndicesIn(k, s)[q] = <<>>
              /\ IsVariable(s, y) => /\ IndexOf(symSect[y]) \in Idx /\ k[IndexOf(symSect[y])] \in Nat
                                     /\ IndicesIn(k, s)[q] = <<k[IndexOf(symSect[y])] - 1>>
<1>1. Len(cands) \in Nat /\ Len(cands) <= 16
  BY CandidatesAreTexts DEF SingleDigits, BaseInv
<1>2. ASSUME NEW q \in 1..m
      PROVE  LET y == RelocsOfText(s)[q].sym IN
             /\ IndexIn(k, s, RelocsOfText(s)[q]) \in Short(Nat)
             /\ ~IsVariable(s, y) => IndexIn(k, s, RelocsOfText(s)[q]) = <<>>
             /\ IsVariable(s, y) => /\ IndexOf(symSect[y]) \in Idx /\ k[IndexOf(symSect[y])] \in Nat
                                    /\ IndexIn(k, s, RelocsOfText(s)[q]) = <<k[IndexOf(symSect[y])] - 1>>
  <2> DEFINE y == RelocsOfText(s)[q].sym
             d == k[IndexOf(symSect[y])]
  <2>1. CASE ~IsVariable(s, y)
    <3>1. IndexIn(k, s, RelocsOfText(s)[q]) = <<>>
      BY <2>1 DEF IndexIn
    <3>2. <<>> \in Short(Nat)
      BY DEF Short
    <3> QED BY <2>1, <3>1, <3>2
  <2>2. CASE IsVariable(s, y)
    <3>1. IndexOf(symSect[y]) \in 1..Len(cands)
      BY <2>2, IndexIs DEF IsVariable
    <3>2. d \in 1..Len(cands)
      BY <3>1 DEF SoundFor
    <3>3. IndexIn(k, s, RelocsOfText(s)[q]) = Hex(d - 1)
      BY <2>2 DEF IndexIn
    <3> HIDE DEF d
    <3>4. d \in Nat /\ d - 1 \in Nat /\ d - 1 < 16
      BY <1>1, <3>2
    <3>5. Hex(d - 1) = <<d - 1>>
      BY <3>4 DEF Hex
    <3>6. <<d - 1>> \in Short(Nat)
      BY <3>4 DEF Short
    <3>7. /\ IndexIn(k, s, RelocsOfText(s)[q]) = <<d - 1>> /\ IndexOf(symSect[y]) \in Idx
          /\ d \in Nat /\ <<d - 1>> \in Short(Nat)
      BY <3>1, <3>3, <3>4, <3>5, <3>6 DEF Idx
    <3> HIDE DEF y
    <3> QED BY <2>2, <3>7 DEF d, y
  <2> HIDE DEF d
  <2> QED BY <2>1, <2>2
<1>3. IndicesIn(k, s) = [q \in 1..m |-> IndexIn(k, s, RelocsOfText(s)[q])]
  BY DEF IndicesIn
<1>4. \A q \in 1..m : IndicesIn(k, s)[q] = IndexIn(k, s, RelocsOfText(s)[q])
  BY <1>3
<1>5. IndicesIn(k, s) \in [1..m -> Short(Nat)]
  BY <1>2, <1>3
<1> QED BY <1>2, <1>4, <1>5

\* Contents tell how many relocations there are, and at which places the symbol
\* is neither the function itself nor a variable.
LEMMA ConstantsAre ==
  ASSUME NEW a, NEW b, Constants(a) = Constants(b),
         Len(RelocsOfText(a)) \in Nat, Len(RelocsOfText(b)) \in Nat
  PROVE  /\ Len(RelocsOfText(a)) = Len(RelocsOfText(b))
         /\ \A q \in 1..Len(RelocsOfText(a)) :
              LET x == RelocsOfText(a)[q].sym
                  y == RelocsOfText(b)[q].sym
              IN  \/ ~Recursive(a, x) /\ ~IsVariable(a, x) /\ ~Recursive(b, y) /\ ~IsVariable(b, y) /\ x = y
                  \/ (Recursive(a, x) \/ IsVariable(a, x)) /\ (Recursive(b, y) \/ IsVariable(b, y))
<1> DEFINE m == Len(RelocsOfText(a))
           n == Len(RelocsOfText(b))
<1>1. m = n
  <2>1. DOMAIN Constants(a) = 1..m /\ DOMAIN Constants(b) = 1..n
    BY DEF Constants
  <2> HIDE DEF m, n
  <2>2. 1..m = 1..n
    BY <2>1
  <2>3. m \in Nat /\ n \in Nat
    BY DEF m, n
  <2>4. (m \in 1..m \/ m = 0) /\ (n \in 1..n \/ n = 0)
    BY <2>3
  <2> QED BY <2>2, <2>3, <2>4
<1>2. ASSUME NEW q \in 1..m
      PROVE  LET x == RelocsOfText(a)[q].sym
                 y == RelocsOfText(b)[q].sym
             IN  \/ ~Recursive(a, x) /\ ~IsVariable(a, x) /\ ~Recursive(b, y) /\ ~IsVariable(b, y) /\ x = y
                 \/ (Recursive(a, x) \/ IsVariable(a, x)) /\ (Recursive(b, y) \/ IsVariable(b, y))
  <2> DEFINE x == RelocsOfText(a)[q].sym
             y == RelocsOfText(b)[q].sym
             A == Recursive(a, x) \/ IsVariable(a, x)
             B == Recursive(b, y) \/ IsVariable(b, y)
  <2>1. Constant(a, RelocsOfText(a)[q]) = Constant(b, RelocsOfText(b)[q])
    <3>1. Constants(a)[q] = Constant(a, RelocsOfText(a)[q])
      BY DEF Constants
    <3>2. Constants(b)[q] = Constant(b, RelocsOfText(b)[q])
      BY <1>1 DEF Constants
    <3> QED BY <3>1, <3>2
  <2>2. (IF A THEN {} ELSE {x}) = (IF B THEN {} ELSE {y})
    <3>1. Constant(a, RelocsOfText(a)[q]).name = IF A THEN {} ELSE {x}
      BY DEF Constant
    <3>2. Constant(b, RelocsOfText(b)[q]).name = IF B THEN {} ELSE {y}
      BY DEF Constant
    <3> QED BY <2>1, <3>1, <3>2
  <2>3. (A /\ B) \/ (~A /\ ~B /\ x = y)
    <3> HIDE DEF A, B, x, y
    <3> QED BY <2>2
  <2> QED BY <2>3
<1> QED BY <1>1, <1>2

\* Two functions whose contents are equal are the same, though the contents
\* were taken with different indices, both sound.
LEMMA SameContent ==
  ASSUME BaseInv, ~Late, SingleDigits(link), SelfCallsBind(link), SelfCallsAgree(link),
         NEW i \in Idx, NEW j \in Idx, NEW k, NEW h,
         SoundFor(k, Len(cands), Largest), SoundFor(h, Len(cands), Largest),
         ContentWith(k, i) = ContentWith(h, j)
  PROVE  <<i, j>> \in Largest
<1>0. link \in Links
  BY DEF BaseInv
<1> DEFINE a == cands[i]
           b == cands[j]
           X(q) == RelocsOfText(a)[q].sym
           Y(q) == RelocsOfText(b)[q].sym
<1>1. /\ link.sect[a].code = link.sect[b].code /\ Constants(a) = Constants(b)
      /\ FlattenSeq(IndicesIn(k, a)) = FlattenSeq(IndicesIn(h, b))
  <2>1. ContentWith(k, i).code = ContentWith(h, j).code /\ ContentWith(k, i).relocs = ContentWith(h, j).relocs
        /\ ContentWith(k, i).indices = ContentWith(h, j).indices
    OBVIOUS
  <2> QED BY <2>1 DEF ContentWith
<1>2. PICK m \in Nat : m = Len(RelocsOfText(a)) /\ m = Len(RelocsOfText(b))
  BY <1>0, <1>1, RefsAre, ConstantsAre
<1>3. \A q \in 1..m :
        \/ ~Recursive(a, X(q)) /\ ~IsVariable(a, X(q)) /\ ~Recursive(b, Y(q)) /\ ~IsVariable(b, Y(q)) /\ X(q) = Y(q)
        \/ (Recursive(a, X(q)) \/ IsVariable(a, X(q))) /\ (Recursive(b, Y(q)) \/ IsVariable(b, Y(q)))
  BY <1>1, <1>2, ConstantsAre
<1>a. PICK u : u = IndicesIn(k, a)
  OBVIOUS
<1>b. PICK v : v = IndicesIn(h, b)
  OBVIOUS
<1>4. /\ u \in [1..m -> Short(Nat)]
      /\ \A q \in 1..m :
           /\ ~IsVariable(a, X(q)) => u[q] = <<>>
           /\ IsVariable(a, X(q)) => /\ IndexOf(symSect[X(q)]) \in Idx /\ k[IndexOf(symSect[X(q)])] \in Nat
                                     /\ u[q] = <<k[IndexOf(symSect[X(q)])] - 1>>
  <2> HIDE DEF a
  <2>0. m = Len(RelocsOfText(a))
    BY <1>2
  <2>1. /\ IndicesIn(k, a) \in [1..m -> Short(Nat)]
        /\ \A q \in 1..m :
             LET y == RelocsOfText(a)[q].sym IN
             /\ ~IsVariable(a, y) => IndicesIn(k, a)[q] = <<>>
             /\ IsVariable(a, y) => /\ IndexOf(symSect[y]) \in Idx /\ k[IndexOf(symSect[y])] \in Nat
                                     /\ IndicesIn(k, a)[q] = <<k[IndexOf(symSect[y])] - 1>>
    BY <2>0, IndicesAre
  <2> QED BY <2>1, <1>a
<1>5. /\ v \in [1..m -> Short(Nat)]
      /\ \A q \in 1..m :
           /\ ~IsVariable(b, Y(q)) => v[q] = <<>>
           /\ IsVariable(b, Y(q)) => /\ IndexOf(symSect[Y(q)]) \in Idx /\ h[IndexOf(symSect[Y(q)])] \in Nat
                                     /\ v[q] = <<h[IndexOf(symSect[Y(q)])] - 1>>
  <2> HIDE DEF b
  <2>0. m = Len(RelocsOfText(b))
    BY <1>2
  <2>1. /\ IndicesIn(h, b) \in [1..m -> Short(Nat)]
        /\ \A q \in 1..m :
             LET y == RelocsOfText(b)[q].sym IN
             /\ ~IsVariable(b, y) => IndicesIn(h, b)[q] = <<>>
             /\ IsVariable(b, y) => /\ IndexOf(symSect[y]) \in Idx /\ h[IndexOf(symSect[y])] \in Nat
                                     /\ IndicesIn(h, b)[q] = <<h[IndexOf(symSect[y])] - 1>>
    BY <2>0, IndicesAre
  <2> QED BY <2>1, <1>b
<1>c. FlattenSeq(u) = FlattenSeq(v) /\ FlattenSeq(v) = FlattenSeq(u)
  BY <1>1, <1>a, <1>b
<1>6. \/ \A q \in 1..m : Recursive(a, X(q)) => Recursive(b, Y(q))
      \/ \A q \in 1..m : Recursive(b, Y(q)) => Recursive(a, X(q))
  BY <1>1, <1>2, SelfCallsNest
<1>7. /\ \A q \in 1..m : IsVariable(a, X(q)) => ~Recursive(a, X(q)) /\ ~Preemptible(X(q)) /\ IsCandidate(symSect[X(q)])
      /\ \A q \in 1..m : IsVariable(b, Y(q)) => ~Recursive(b, Y(q)) /\ ~Preemptible(Y(q)) /\ IsCandidate(symSect[Y(q)])
  BY DEF IsVariable
<1>8. /\ \A q \in 1..m : Recursive(a, X(q)) => symSect[X(q)] = a /\ ~Preemptible(X(q))
      /\ \A q \in 1..m : Recursive(b, Y(q)) => symSect[Y(q)] = b /\ ~Preemptible(Y(q))
  <2>1. \A q \in 1..m : Recursive(a, X(q)) => ~Preemptible(X(q))
    BY <1>2, SelfCallsStay
  <2>2. \A q \in 1..m : Recursive(b, Y(q)) => ~Preemptible(Y(q))
    BY <1>2, SelfCallsStay
  <2> QED BY <2>1, <2>2 DEF Recursive
<1>9. IsCandidate(a) /\ IndexOf(a) = i /\ IsCandidate(b) /\ IndexOf(b) = j
  BY IndexOfCandidate
<1> DEFINE R == Largest \cup {<<i, j>>}
<1>10. SUFFICES \A q \in 1..m : SameRef(X(q), Y(q), R)
  <2>1. SameText(a, b, R)
    BY <1>1, <1>2, <1>10 DEF SameText
  <2> QED BY <2>1, LargestTakes
<1> HIDE DEF a, b, X, Y, R
<1>11. \A q \in 1..m : u[q] = v[q]
  <2>1. CASE \A q \in 1..m : Recursive(a, X(q)) => Recursive(b, Y(q))
    <3>1. \A q \in 1..m : v[q] # <<>> => u[q] # <<>>
      <4> SUFFICES ASSUME NEW q \in 1..m, v[q] # <<>> PROVE u[q] # <<>>
        OBVIOUS
      <4>1. IsVariable(b, Y(q))
        BY <1>5
      <4>2. IsVariable(a, X(q))
        BY <1>3, <1>7, <2>1, <4>1
      <4>3. u[q] = <<k[IndexOf(symSect[X(q)])] - 1>>
        BY <1>4, <4>2
      <4> QED BY <4>3
    <3>2. u \in [1..m -> Short(Nat)] /\ v \in [1..m -> Short(Nat)]
      BY <1>4, <1>5
    <3> QED BY <1>c, <3>1, <3>2, FlattenSame
  <2>2. CASE \A q \in 1..m : Recursive(b, Y(q)) => Recursive(a, X(q))
    <3>1. \A q \in 1..m : u[q] # <<>> => v[q] # <<>>
      <4> SUFFICES ASSUME NEW q \in 1..m, u[q] # <<>> PROVE v[q] # <<>>
        OBVIOUS
      <4>1. IsVariable(a, X(q))
        BY <1>4
      <4>2. IsVariable(b, Y(q))
        BY <1>3, <1>7, <2>2, <4>1
      <4>3. v[q] = <<h[IndexOf(symSect[Y(q)])] - 1>>
        BY <1>5, <4>2
      <4> QED BY <4>3
    <3>2. u \in [1..m -> Short(Nat)] /\ v \in [1..m -> Short(Nat)]
      BY <1>4, <1>5
    <3>3. \A q \in 1..m : v[q] = u[q]
      BY <1>c, <3>1, <3>2, FlattenSame
    <3> QED BY <3>3
  <2> QED BY <1>6, <2>1, <2>2
<1>12. ASSUME NEW q \in 1..m PROVE SameRef(X(q), Y(q), R)
  <2> DEFINE x == X(q)
             y == Y(q)
             ix == IndexOf(symSect[x])
             iy == IndexOf(symSect[y])
  <2>1. CASE ~Recursive(a, x) /\ ~IsVariable(a, x)
    BY <1>3, <2>1 DEF SameRef
  <2>2. CASE IsVariable(a, x)
    <3>1. u[q] = <<k[ix] - 1>> /\ ix \in Idx /\ k[ix] \in Nat
      BY <1>4, <2>2
    <3>2. IsVariable(b, y)
      <4>1. v[q] = <<k[ix] - 1>>
        BY <1>11, <3>1
      <4>2. v[q] # <<>>
        BY <4>1
      <4> QED BY <1>5, <4>2
    <3>3. v[q] = <<h[iy] - 1>> /\ iy \in Idx /\ h[iy] \in Nat
      BY <1>5, <3>2
    <3>4. k[ix] = h[iy]
      <4>1. <<k[ix] - 1>> = <<h[iy] - 1>>
        BY <1>11, <3>1, <3>3
      <4> QED BY <3>1, <3>3, <4>1
    <3>5. <<ix, k[ix]>> \in Largest /\ <<iy, h[iy]>> \in Largest
      BY <3>1, <3>3 DEF SoundFor, Idx
    <3> HIDE DEF ix, iy
    <3>6. <<ix, iy>> \in Largest
      BY <3>4, <3>5, LargestSymmetric, LargestTransitive
    <3>7. <<ix, iy>> \in R
      BY <3>6 DEF R
    <3> QED BY <1>7, <2>2, <3>2, <3>7 DEF SameRef, ix, iy
  <2>3. CASE Recursive(a, x)
    <3>1. ~IsVariable(b, y)
      <4>1. ASSUME IsVariable(b, y) PROVE FALSE
        <5>1. v[q] = <<h[iy] - 1>>
          BY <1>5, <4>1
        <5>2. u[q] = <<>>
          <6>1. ~IsVariable(a, x)
            BY <1>7, <2>3
          <6> QED BY <1>4, <6>1
        <5>3. v[q] = <<>>
          BY <1>11, <5>2
        <5>4. <<h[iy] - 1>> # <<>>
          OBVIOUS
        <5> QED BY <5>1, <5>3, <5>4
      <4> QED BY <4>1
    <3>2. Recursive(b, y)
      BY <1>3, <2>3, <3>1
    <3>3. ix = i /\ iy = j /\ IsCandidate(symSect[x]) /\ IsCandidate(symSect[y]) /\ ~Preemptible(x) /\ ~Preemptible(y)
      BY <1>8, <1>9, <2>3, <3>2
    <3> QED BY <3>3 DEF SameRef, R
  <2> QED BY <2>1, <2>2, <2>3
<1> QED BY <1>12

LEMMA ContentsStay ==
  ASSUME UNCHANGED <<link, kind, symSect, cands>>
  PROVE  /\ Largest' = Largest
         /\ \A k, i : ContentWith(k, i)' = ContentWith(k, i)
<1>1. \A s : (IsCandidate(s)' <=> IsCandidate(s)) /\ IndexOf(s)' = IndexOf(s)
  BY DEF IsCandidate, IndexOf
<1>2. \A s : RelocsOfText(s)' = RelocsOfText(s)
  BY DEF RelocsOfText, RelocSects, Sects
<1>3. \A y : Preemptible(y)' <=> Preemptible(y)
  BY DEF Preemptible
<1>4. \A s, y : (Recursive(s, y)' <=> Recursive(s, y)) /\ (IsVariable(s, y)' <=> IsVariable(s, y))
  BY <1>1, <1>3 DEF Recursive, IsVariable
<1>5. \A x, y, R : SameRef(x, y, R)' <=> SameRef(x, y, R)
  BY <1>1, <1>3 DEF SameRef
<1>6. \A a, b, R : SameText(a, b, R)' <=> SameText(a, b, R)
  BY <1>2, <1>5 DEF SameText
<1>7. Idx' = Idx
  BY DEF Idx
<1>8. \A R : Closed(R)' <=> Closed(R)
  BY <1>6, <1>7 DEF Closed
<1>9. Largest' = Largest
  BY <1>7, <1>8 DEF Largest
<1>10. \A s : Constants(s)' = Constants(s)
  BY <1>2, <1>4 DEF Constants, Constant
<1>11. \A k, s, x : IndexIn(k, s, x)' = IndexIn(k, s, x)
  BY <1>1, <1>4 DEF IndexIn
<1>12. \A k, s : IndicesIn(k, s)' = IndicesIn(k, s)
  BY <1>2, <1>11 DEF IndicesIn
<1>13. \A k, i : ContentWith(k, i)' = ContentWith(k, i)
  BY <1>10, <1>12 DEF ContentWith
<1> QED BY <1>9, <1>13

LEMMA ContentIs == \A i : ContentOf(i) = ContentWith(kept, i)
<1>1. \A s, x : Index(s, x) = IndexIn(kept, s, x)
  BY DEF Index, IndexIn
<1>2. \A s : IndicesIn(kept, s) = [j \in 1..Len(RelocsOfText(s)) |-> Index(s, RelocsOfText(s)[j])]
  BY <1>1 DEF IndicesIn
<1> QED BY <1>2 DEF ContentOf, ContentWith

-----------------------------------------------------------------------------
\* Every candidate is folded into one that is the same, and every recorded
\* content was taken with indices of which that was true.
SoundInv ==
  phase \in {"match", "fold"} =>
    /\ SoundFor(kept, Len(cands), Largest)
    /\ \A e \in sums : \E k : SoundFor(k, Len(cands), Largest) /\ e.content = ContentWith(k, e.index)

LEMMA MatchKeepsSound ==
  ASSUME BaseInv, SoundInv, FoldCandidate \/ KeepCandidate,
         SingleDigits(link), SelfCallsBind(link), SelfCallsAgree(link)
  PROVE  SoundInv'
<1>1. /\ UNCHANGED <<link, kind, symSect, phase, cands>> /\ phase = "match" /\ pos =< Len(cands)
  BY DEF FoldCandidate, KeepCandidate
<1>2. Largest' = Largest /\ \A k, i : ContentWith(k, i)' = ContentWith(k, i)
  BY <1>1, ContentsStay
<1>3. /\ SoundFor(kept, Len(cands), Largest)
      /\ \A e \in sums : \E k : SoundFor(k, Len(cands), Largest) /\ e.content = ContentWith(k, e.index)
  BY <1>1 DEF SoundInv
<1>4. ~Late
  BY <1>1 DEF Late
<1>5. pos \in Idx /\ \A e \in sums : e.index \in Idx
  BY <1>1 DEF BaseInv, KeptInv, CandsInv, Idx
<1>6. PICK n : n = Len(cands)
  OBVIOUS
<1>7. PICK L : L = Largest
  OBVIOUS
<1>8. ContentOf(pos) = ContentWith(kept, pos)
  BY ContentIs
<1>9. SoundFor(kept', n, L)
  <2>1. CASE FoldCandidate
    <3>1. PICK e \in sums : e.content = ContentOf(pos) /\ kept' = [kept EXCEPT ![pos] = e.index]
      BY <2>1 DEF FoldCandidate, Same
    <3>2. PICK h : SoundFor(h, Len(cands), Largest) /\ e.content = ContentWith(h, e.index)
      BY <1>3
    <3>3. ContentWith(kept, pos) = ContentWith(h, e.index)
      BY <1>8, <3>1, <3>2
    <3>4. <<pos, e.index>> \in Largest
      BY <1>3, <1>4, <1>5, <3>2, <3>3, SameContent
    <3>5. e.index \in 1..n /\ pos \in 1..n
      BY <1>5, <1>6 DEF Idx
    <3> QED BY <1>3, <1>6, <1>7, <3>1, <3>4, <3>5 DEF SoundFor
  <2>2. CASE KeepCandidate
    <3>1. kept' = kept
      BY <2>2 DEF KeepCandidate
    <3> QED BY <1>3, <1>6, <1>7, <3>1
  <2> QED BY <2>1, <2>2
<1>10. ASSUME NEW e \in sums'
       PROVE  \E k : SoundFor(k, n, L) /\ e.content = ContentWith(k, e.index)
  <2>1. CASE e \in sums
    BY <1>3, <1>6, <1>7, <2>1
  <2>2. CASE e \notin sums
    <3>1. e = [content |-> ContentOf(pos), index |-> pos]
      BY <2>2 DEF FoldCandidate, KeepCandidate
    <3>2. e.content = ContentWith(kept, e.index)
      BY <1>8, <3>1
    <3> QED BY <1>3, <1>6, <1>7, <3>2
  <2> QED BY <2>1, <2>2
<1>11. Len(cands)' = n /\ Largest' = L
  BY <1>1, <1>2, <1>6, <1>7
<1>12. \A e \in sums' : \E k : SoundFor(k, n, L) /\ e.content = ContentWith(k, e.index)'
  BY <1>2, <1>10
<1> QED BY <1>9, <1>11, <1>12 DEF SoundInv

LEMMA SoundNext ==
  ASSUME BaseInv, SoundInv, [Next]_allvars,
         SingleDigits(link), SelfCallsBind(link), SelfCallsAgree(link)
  PROVE  SoundInv'
<1>1. CASE StartMatching
  <2>1. /\ UNCHANGED <<link, kind, symSect, cands, sums>> /\ sums = {}
        /\ kept' = [i \in 1..Len(cands) |-> i]
    BY <1>1 DEF StartMatching, BaseInv, KeptInv
  <2>2. Largest' = Largest
    BY <2>1, ContentsStay
  <2>3. PICK n, L : n = Len(cands) /\ L = Largest
    OBVIOUS
  <2>4. SoundFor(kept', n, L)
    BY <2>1, <2>3, LargestReflexive DEF SoundFor, Idx
  <2>5. Len(cands)' = n /\ Largest' = L
    BY <2>1, <2>2, <2>3
  <2> QED BY <2>1, <2>4, <2>5 DEF SoundInv
<1>2. CASE FoldCandidate \/ KeepCandidate
  BY <1>2, MatchKeepsSound
<1>3. CASE EndIteration
  <2>1. UNCHANGED <<link, kind, symSect, cands, kept>> /\ sums' = {} /\ phase = "match"
    BY <1>3 DEF EndIteration
  <2>2. Largest' = Largest
    BY <2>1, ContentsStay
  <2>3. PICK n, L : n = Len(cands) /\ L = Largest
    OBVIOUS
  <2>4. SoundFor(kept', n, L)
    BY <2>1, <2>3 DEF SoundInv
  <2>5. Len(cands)' = n /\ Largest' = L
    BY <2>1, <2>2, <2>3
  <2> QED BY <2>1, <2>4, <2>5 DEF SoundInv
<1>4. CASE UNCHANGED allvars
  <2>1. UNCHANGED <<link, kind, symSect, cands, kept, sums, phase>>
    BY <1>4 DEF allvars
  <2>2. Largest' = Largest /\ \A k, i : ContentWith(k, i)' = ContentWith(k, i)
    BY <2>1, ContentsStay
  <2>3. PICK n, L : n = Len(cands) /\ L = Largest
    OBVIOUS
  <2>4. phase \in {"match", "fold"} =>
          /\ SoundFor(kept, n, L)
          /\ \A e \in sums : \E k : SoundFor(k, n, L) /\ e.content = ContentWith(k, e.index)'
    BY <2>2, <2>3 DEF SoundInv
  <2>5. Len(cands)' = n /\ Largest' = L
    BY <2>1, <2>2, <2>3
  <2> QED BY <2>1, <2>4, <2>5 DEF SoundInv
<1>5. CASE Next /\ ~(StartMatching \/ FoldCandidate \/ KeepCandidate \/ EndIteration)
  <2>1. phase' \notin {"match", "fold"}
    BY <1>5 DEF Next, SetUpReached, PushEntry, FindReferenced, StripSections, FindCandidates, Fold, MergeSection,
       EndMerge, BaseInv, Marking
  <2> QED BY <2>1 DEF SoundInv
<1> QED BY <1>1, <1>2, <1>3, <1>4, <1>5

\* Only functions that do the same are folded into each other, although the
\* indices they are compared by change while they are compared: if an index is
\* one digit, nobody can replace a function that calls itself, and of two
\* functions with the same code one calls itself only where the other does.
THEOREM OnlyTheSameAreFolded ==
  ASSUME \A l \in Links : SingleDigits(l) /\ SelfCallsBind(l) /\ SelfCallsAgree(l)
  PROVE  Spec => []FoldedAreAlike
<1> DEFINE Inv == BaseInv /\ SoundInv
<1>1. Init => Inv
  BY BaseInit DEF Init, FirstPass, SoundInv
<1>2. ASSUME Inv, [Next]_allvars PROVE Inv'
  <2>1. SingleDigits(link) /\ SelfCallsBind(link) /\ SelfCallsAgree(link)
    BY <1>2 DEF BaseInv
  <2> QED BY <1>2, <2>1, BaseNext, SoundNext
<1>3. Inv => FoldedAreAlike
  <2> SUFFICES ASSUME Inv, phase = "fold", NEW i \in 1..Len(cands) PROVE <<i, kept[i]>> \in Alike
    BY DEF FoldedAreAlike
  <2>1. <<i, kept[i]>> \in Largest
    BY DEF SoundInv, SoundFor
  <2>2. Len(cands) \in Nat
    BY DEF BaseInv, CandsInv
  <2> QED BY <2>1, <2>2, LargestIsAlike
<1> QED BY <1>1, <1>2, <1>3, PTL DEF Spec

-----------------------------------------------------------------------------
(* What stays refers only to what stays.                                    *)

\* A function that stays keeps what its unwind table refers to.
TargetsStay ==
  ~Marking => \A r \in RelocSects :
    WasKind(link.sect[r].lnk) = "Target" /\ kind[link.sect[link.sect[r].lnk].lnk] # "Ignore" =>
      \A y \in RefsOf(r) : link.sym[y].sect # 0 => kind[link.sym[y].sect] # "Ignore"

\* A table, the text it describes, and what its relocations refer to.
LEMMA TableFacts ==
  ASSUME link \in Links, TablesUnnamed(link), TablesComeFirst(link), TablesReach(link),
         NEW r \in RelocSects, WasKind(link.sect[r].lnk) = "Target"
  PROVE  /\ r \in Sects /\ link.sect[r].lnk \in Sects
         /\ link.sect[link.sect[r].lnk].lnk \in Sects
         /\ WasKind(link.sect[link.sect[r].lnk].lnk) \in GCKinds
         /\ \A y \in RefsOf(r) :
              /\ y \in Symbols
              /\ link.sym[y].sect # 0 =>
                   /\ link.sym[y].sect \in Sects
                   /\ WasKind(link.sym[y].sect) \notin {"Target", "Relocation", "Ignore", "Except"}
<1>1. r \in Sects /\ link.sect[r].kind = "Relocation" /\ link.sect[r].lnk \in Sects
  BY LinkFacts DEF RelocSects
<1>2. link.sect[link.sect[r].lnk].lnk \in Sects
  BY <1>1 DEF TablesComeFirst, WasKind, Sects
<1>3. WasKind(link.sect[link.sect[r].lnk].lnk) \in GCKinds
  BY <1>1 DEF TablesReach, WasKind, Sects
<1>4. ASSUME NEW y \in RefsOf(r)
      PROVE  /\ y \in Symbols
             /\ link.sym[y].sect # 0 =>
                  /\ link.sym[y].sect \in Sects
                  /\ WasKind(link.sym[y].sect) \notin {"Target", "Relocation", "Ignore", "Except"}
  <2>1. y \in Symbols
    BY <1>1, LinkFacts
  <2>2. PICK i \in 1..Len(link.sect[r].relocs) : link.sect[r].relocs[i].sym = y
    BY <1>1, LinkFacts
  <2>3. i \in DOMAIN link.sect[r].relocs
    BY <1>1, LinkFacts
  <2>4. link.sym[y].sect # 0 => WasKind(link.sym[y].sect) # "Target"
    BY <1>1, <2>1, <2>2, <2>3 DEF TablesUnnamed, Sects, Symbols, WasKind
  <2>5. link.sym[y].sect # 0 => WasKind(link.sym[y].sect) # "Except"
    BY <1>1, <2>2, <2>3 DEF TablesReach, Sects, WasKind
  <2> QED BY <2>1, <2>4, <2>5, LinkFacts DEF WasKind
<1> QED BY <1>1, <1>2, <1>3, <1>4

LEMMA StripKeepsTargets ==
  ASSUME GCInv, StripSections, TablesUnnamed(link), TablesComeFirst(link), TablesReach(link)
  PROVE  TargetsStay'
<1>1. Unstripped /\ Marked /\ link \in Links
  BY DEF GCInv, StripSections, Marking
<1>2. /\ UNCHANGED <<link, symSect, reached, referenced>>
      /\ kind' = Stripped
      /\ work = {} /\ entries = {}
  BY DEF StripSections
<1>3. /\ \A s \in Sects : kind[s] = WasKind(s)
      /\ \A y \in Symbols : symSect[y] = link.sym[y].sect
  BY <1>1 DEF Unstripped, WasKind
<1>4. \A s \in referenced : reached[s] \subseteq referenced
  BY <1>1, <1>2 DEF Marked, Pending
<1>5. \A s \in Sects :
        /\ kind[s] \notin GCKinds /\ s \notin RelocSects => kind'[s] = kind[s]
        /\ kind[s] \in GCKinds /\ s \notin referenced => kind'[s] = "Ignore"
        /\ s \in referenced /\ s \notin RelocSects => kind'[s] = kind[s]
  BY <1>2 DEF Stripped, MayProcessGC
<1>6. Sects' = Sects /\ RelocSects' = RelocSects /\ \A s : WasKind(s)' = WasKind(s) /\ RefsOf(s)' = RefsOf(s)
  BY <1>2, InputsStay
<1>7. ASSUME NEW r \in RelocSects, WasKind(link.sect[r].lnk) = "Target",
             kind'[link.sect[link.sect[r].lnk].lnk] # "Ignore",
             NEW y \in RefsOf(r), link.sym[y].sect # 0
      PROVE  kind'[link.sym[y].sect] # "Ignore"
  <2> DEFINE x == link.sect[r].lnk
             t == link.sect[x].lnk
             of == link.sym[y].sect
  <2>1. /\ r \in Sects /\ x \in Sects /\ t \in Sects /\ WasKind(t) \in GCKinds
        /\ y \in Symbols /\ of \in Sects /\ WasKind(of) \notin {"Target", "Relocation", "Ignore", "Except"}
    BY <1>1, <1>7, TableFacts
  <2> DEFINE Live == r \in LiveRelocs(x)
  <2>2. kind[r] = "Relocation" /\ link.sect[r].relocs # <<>>
    <3>1. PICK i \in 1..Len(link.sect[r].relocs) : link.sect[r].relocs[i].sym = y
      BY <1>1, <2>1, LinkFacts
    <3> QED BY <1>3, <2>1, <3>1 DEF RelocSects, WasKind
  <2>3. Live
    BY <2>2 DEF LiveRelocs
  <2>4. kind[x] = "Target" /\ kind[t] \in GCKinds
    BY <1>3, <1>7, <2>1
  <2>5. t \in referenced
    BY <1>5, <1>7, <2>1, <2>4
  <2>6. x \in ReachedFrom(t)
    BY <2>1, <2>3, <2>4 DEF ReachedFrom, MayProcessGC
  <2>7. x \in referenced
    BY <1>1, <1>4, <2>1, <2>5, <2>6 DEF Marked
  <2> HIDE DEF x, t, of
  <2>8. CASE WasKind(of) \in GCKinds
    <3>1. of \in TargetsOf(r)
      BY <1>3, <2>1, <2>8 DEF TargetsOf, MayProcessGC, of
    <3>2. ~MayProcessGC(x)
      BY <2>4 DEF MayProcessGC, GCKinds
    <3>3. of \in ReachedFrom(x)
      BY <1>3, <2>1, <2>3, <2>4, <3>1, <3>2 DEF ReachedFrom
    <3>4. of \in referenced
      BY <1>1, <1>4, <2>1, <2>7, <3>3 DEF Marked
    <3>5. of \notin RelocSects
      BY <2>1 DEF RelocSects, WasKind
    <3> QED BY <1>3, <1>5, <2>1, <3>4, <3>5 DEF of
  <2>9. CASE WasKind(of) \notin GCKinds
    <3>1. of \notin RelocSects
      BY <2>1 DEF RelocSects, WasKind
    <3> QED BY <1>3, <1>5, <2>1, <2>9, <3>1 DEF of
  <2> QED BY <2>8, <2>9
<1> QED BY <1>2, <1>6, <1>7 DEF TargetsStay

LEMMA TargetsNext ==
  ASSUME BaseInv, Collected, TargetsStay, [Next]_allvars,
         TablesUnnamed(link), TablesComeFirst(link), TablesReach(link)
  PROVE  TargetsStay'
<1>1. CASE Next /\ Marking
  <2>1. GCInv
    BY <1>1 DEF Collected
  <2>2. SetUpReached \/ PushEntry \/ FindReferenced \/ StripSections
    BY <1>1 DEF Next, Marking, FindCandidates, StartMatching, FoldCandidate, KeepCandidate, EndIteration,
                Fold, MergeSection, EndMerge
  <2>3. CASE StripSections
    BY <2>1, <2>3, StripKeepsTargets
  <2>4. CASE SetUpReached \/ PushEntry \/ FindReferenced
    BY <2>4 DEF SetUpReached, PushEntry, FindReferenced, TargetsStay, Marking
  <2> QED BY <2>2, <2>3, <2>4
<1>2. CASE Next /\ ~Marking
  <2>1. ~Marking' /\ UNCHANGED <<link, referenced, reached>> /\ OnlyDropped
    BY <1>2, LaterSteps
  <2>2. /\ Sects' = Sects /\ RelocSects' = RelocSects
        /\ \A s : WasKind(s)' = WasKind(s) /\ RefsOf(s)' = RefsOf(s)
    BY <2>1, InputsStay
  <2>3. \A s \in Sects : /\ kind'[s] # "Ignore" => kind[s] # "Ignore"
                         /\ WasKind(s) \notin {"Target", "Relocation"} /\ kind[s] # "Ignore" => kind'[s] # "Ignore"
    BY <2>1 DEF OnlyDropped, BaseInv, KindInv
  <2>4. ASSUME NEW r \in RelocSects, WasKind(link.sect[r].lnk) = "Target",
               kind'[link.sect[link.sect[r].lnk].lnk] # "Ignore",
               NEW y \in RefsOf(r), link.sym[y].sect # 0
        PROVE  kind'[link.sym[y].sect] # "Ignore"
    <3>1. /\ link.sect[link.sect[r].lnk].lnk \in Sects /\ link.sym[y].sect \in Sects
          /\ WasKind(link.sym[y].sect) \notin {"Target", "Relocation"}
      BY <2>4, TableFacts DEF BaseInv
    <3>2. kind[link.sym[y].sect] # "Ignore"
      BY <1>2, <2>3, <2>4, <3>1 DEF TargetsStay
    <3> QED BY <2>3, <3>1, <3>2
  <2> QED BY <2>1, <2>2, <2>4 DEF TargetsStay
<1>3. CASE UNCHANGED allvars
  <2>1. UNCHANGED <<link, kind, phase>>
    BY <1>3 DEF allvars
  <2> QED BY <2>1, InputsStay DEF TargetsStay, Marking
<1> QED BY <1>1, <1>2, <1>3

\* Where the candidates and the symbols are after folding.
Moved(y, i) == symSect[y] = cands[kept[i]]

FoldedInv ==
  Late =>
    /\ Len(kept) = Len(cands)
    /\ \A i \in 1..Len(cands) : kind[cands[i]] = IF kept[i] = i THEN "Text" ELSE "Folded"
    /\ \A y \in Symbols :
         \/ /\ symSect[y] = link.sym[y].sect
            /\ link.sym[y].func => link.sym[y].sect = 0 \/ kind[link.sym[y].sect] # "Folded"
         \/ \E i \in 1..Len(cands) : Moved(y, i)

LEMMA FoldSettles ==
  ASSUME BaseInv, Fold
  PROVE  FoldedInv'
<1>1. /\ UNCHANGED <<link, cands, kept>> /\ phase = "fold"
      /\ kind' = [s \in Sects |-> IF Folded(s) THEN "Folded" ELSE kind[s]]
      /\ symSect' = [y \in Symbols |-> Adjusted(y)]
  BY DEF Fold
<1>2. /\ Len(kept) = Len(cands) /\ cands \in Seq(TextsIn(link)) /\ Len(cands) \in Nat
      /\ \A i \in 1..Len(cands) : kind[cands[i]] = "Text"
      /\ symSect = [y \in Symbols |-> link.sym[y].sect]
      /\ \A s \in Sects : kind[s] # "Folded"
      /\ \A y \in Symbols : symSect[y] \in Sects \cup {0}
  BY <1>1 DEF BaseInv, CandsInv, KeptInv, KindInv, Folding, Late
<1>3. ASSUME NEW i \in 1..Len(cands)
      PROVE  kind'[cands[i]] = IF kept[i] = i THEN "Text" ELSE "Folded"
  <2>1. cands[i] \in Sects
    BY <1>2 DEF TextsIn, Sects
  <2>2. IsCandidate(cands[i]) /\ IndexOf(cands[i]) = i
    BY IndexOfCandidate DEF Idx
  <2> QED BY <1>1, <1>2, <2>1, <2>2 DEF Folded
<1>4. ASSUME NEW y \in Symbols
      PROVE  \/ /\ symSect'[y] = link.sym[y].sect
                /\ link.sym[y].func => link.sym[y].sect = 0 \/ kind'[link.sym[y].sect] # "Folded"
             \/ \E i \in 1..Len(cands) : symSect'[y] = cands[kept[i]]
  <2> DEFINE s == link.sym[y].sect
  <2>1. symSect'[y] = IF link.sym[y].func /\ Folded(s) THEN cands[kept[IndexOf(s)]] ELSE s
    BY <1>1, <1>2 DEF Adjusted
  <2>2. CASE link.sym[y].func /\ Folded(s)
    <3>1. IndexOf(s) \in 1..Len(cands)
      BY <2>2, IndexIs DEF Folded
    <3> QED BY <2>1, <2>2, <3>1
  <2>3. CASE ~(link.sym[y].func /\ Folded(s))
    <3>1. s # 0 => s \in Sects
      BY <1>2
    <3>2. link.sym[y].func => s = 0 \/ kind'[s] # "Folded"
      BY <1>1, <1>2, <2>3, <3>1
    <3> QED BY <2>1, <2>3, <3>2
  <2> QED BY <2>2, <2>3
<1>5. Symbols' = Symbols
  BY <1>1, InputsStay
<1> QED BY <1>1, <1>2, <1>3, <1>4, <1>5 DEF FoldedInv, Moved

LEMMA FoldedNext ==
  ASSUME BaseInv, FoldedInv, [Next]_allvars
  PROVE  FoldedInv'
<1>1. CASE Fold
  BY <1>1, FoldSettles
<1>2. CASE StripSections
  <2>1. /\ UNCHANGED <<link, symSect, cands, kept>> /\ phase = "mark"
        /\ cands = <<>> /\ kept = <<>>
    BY <1>2 DEF Next, StripSections, icfvars, allvars, BaseInv, CandsInv, KeptInv, Marking,
       FindCandidates, StartMatching, FoldCandidate, KeepCandidate, EndIteration, Fold, MergeSection, EndMerge,
       SetUpReached, PushEntry, FindReferenced
  <2>2. kind' = Stripped
    BY <1>2 DEF StripSections
  <2>3. /\ symSect = [y \in Symbols |-> link.sym[y].sect]
        /\ \A s \in Sects : kind[s] # "Folded"
        /\ \A y \in Symbols : symSect[y] \in Sects \cup {0}
    BY <2>1 DEF BaseInv, KindInv, Late
  <2>4. \A s \in Sects : kind'[s] # "Folded"
    BY <2>2, <2>3 DEF Stripped
  <2>5. \A y \in Symbols : symSect'[y] = link.sym[y].sect
                           /\ (link.sym[y].sect = 0 \/ kind'[link.sym[y].sect] # "Folded")
    BY <2>1, <2>3, <2>4
  <2>6. Symbols' = Symbols
    BY <2>1, InputsStay
  <2> QED BY <2>1, <2>5, <2>6 DEF FoldedInv
<1>3. CASE MergeSection
  <2>1. /\ UNCHANGED <<link, symSect, cands, kept, phase>> /\ phase = "merge" /\ pos \in Sects
        /\ kind' = [kind EXCEPT ![pos] = Merged(pos)]
        /\ Merged(pos) # kind[pos] => Merged(pos) = "Ignore" /\ kind[pos] \in {"Relocation", "Target"}
    BY <1>3, MergeIs DEF gcvars, MergeSection
  <2>2. kind \in [Sects -> Kinds] /\ \A y \in Symbols : symSect[y] \in Sects \cup {0}
    BY DEF BaseInv, KindInv
  <2>3. \A s \in Sects : \/ kind'[s] = kind[s]
                         \/ kind[s] \in {"Relocation", "Target"} /\ kind'[s] = "Ignore"
    BY <2>1, <2>2
  <2>4. \A i \in 1..Len(cands) : cands[i] \in Sects
    BY DEF BaseInv, CandsInv, TextsIn, Sects
  <2>5. /\ Len(kept) = Len(cands)
        /\ \A i \in 1..Len(cands) : kind[cands[i]] = IF kept[i] = i THEN "Text" ELSE "Folded"
        /\ \A y \in Symbols :
             \/ /\ symSect[y] = link.sym[y].sect
                /\ link.sym[y].func => link.sym[y].sect = 0 \/ kind[link.sym[y].sect] # "Folded"
             \/ \E i \in 1..Len(cands) : Moved(y, i)
    BY <2>1 DEF FoldedInv, Late
  <2>6. \A i \in 1..Len(cands) : kind'[cands[i]] = IF kept[i] = i THEN "Text" ELSE "Folded"
    <3> SUFFICES ASSUME NEW i \in 1..Len(cands)
                 PROVE  kind'[cands[i]] = IF kept[i] = i THEN "Text" ELSE "Folded"
      OBVIOUS
    <3>1. kind[cands[i]] \in {"Text", "Folded"} /\ cands[i] \in Sects
      BY <2>4, <2>5
    <3>2. kind'[cands[i]] = kind[cands[i]]
      BY <2>3, <3>1
    <3> QED BY <2>5, <3>2
  <2>7. \A y \in Symbols : symSect[y] = link.sym[y].sect /\ link.sym[y].sect # 0 /\ kind[link.sym[y].sect] # "Folded"
           => kind'[link.sym[y].sect] # "Folded"
    BY <2>2, <2>3
  <2>8. Symbols' = Symbols
    BY <2>1, InputsStay
  <2> QED BY <2>1, <2>5, <2>6, <2>7, <2>8 DEF FoldedInv, Moved
<1>4. CASE EndMerge
  <2>1. UNCHANGED <<link, kind, symSect, cands, kept>> /\ Late
    BY <1>4 DEF EndMerge, icfvars, Late
  <2>2. Symbols' = Symbols
    BY <2>1, InputsStay
  <2> QED BY <2>1, <2>2 DEF FoldedInv, Moved
<1>5. CASE UNCHANGED allvars
  <2>1. UNCHANGED <<link, kind, symSect, cands, kept, phase>>
    BY <1>5 DEF allvars
  <2>2. Symbols' = Symbols
    BY <2>1, InputsStay
  <2> QED BY <2>1, <2>2 DEF FoldedInv, Moved, Late
<1>6. CASE Next /\ ~(Fold \/ StripSections \/ MergeSection \/ EndMerge)
  <2>1. ~Late'
    BY <1>6 DEF Next, SetUpReached, PushEntry, FindReferenced, FindCandidates, StartMatching, FoldCandidate,
       KeepCandidate, EndIteration, Late
  <2> QED BY <2>1 DEF FoldedInv
<1> QED BY <1>1, <1>2, <1>3, <1>4, <1>5, <1>6

\* After stripping, folding and the merge, what stays refers only to what stays,
\* its unwind tables included, and functions were folded only into ones that do
\* the same: if the indices had settled when the iterations ended, a function is
\* referred to by function symbols, and an unwind table is referred to by nobody,
\* precedes its relocations and refers to no exception table.
THEOREM SafeOnceSettled ==
  ASSUME \A l \in Links : /\ TablesUnnamed(l) /\ TablesComeFirst(l) /\ TablesReach(l) /\ OnlyFunctions(l)
                          /\ SingleDigits(l) /\ SelfCallsBind(l) /\ SelfCallsAgree(l)
  PROVE  Spec => [](IndicesSettled => StrippingIsSafe)
<1> DEFINE Inv == BaseInv /\ Collected /\ TargetsStay /\ FoldedInv
<1>1. Init => Inv
  <2> SUFFICES ASSUME Init PROVE Inv
    OBVIOUS
  <2>1. BaseInv /\ Collected
    BY BaseInit, CollectedInit
  <2>2. /\ link \in Links /\ kind = [s \in Sects |-> link.sect[s].kind]
        /\ symSect = [y \in Symbols |-> link.sym[y].sect] /\ cands = <<>> /\ kept = <<>>
    BY DEF Init, InitSections, ICFInit
  <2>3. TargetsStay
    <3> SUFFICES ASSUME NEW r \in RelocSects, WasKind(link.sect[r].lnk) = "Target",
                        NEW y \in RefsOf(r), link.sym[y].sect # 0
                 PROVE  kind[link.sym[y].sect] # "Ignore"
      BY DEF TargetsStay
    <3>1. link.sym[y].sect \in Sects /\ WasKind(link.sym[y].sect) # "Ignore"
      BY <2>2, TableFacts
    <3> QED BY <2>2, <3>1 DEF WasKind
  <2>4. \A y \in Symbols : link.sym[y].sect = 0 \/ kind[link.sym[y].sect] # "Folded"
    BY <2>2, LinkFacts
  <2>5. FoldedInv
    BY <2>2, <2>4 DEF FoldedInv
  <2> QED BY <2>1, <2>3, <2>5
<1>2. ASSUME Inv, [Next]_allvars PROVE Inv'
  <2>1. TablesUnnamed(link) /\ TablesComeFirst(link) /\ TablesReach(link)
    BY <1>2 DEF BaseInv
  <2> QED BY <1>2, <2>1, BaseNext, CollectedNext, TargetsNext, FoldedNext
<1>3. Inv /\ NeededIsKept /\ UnwindFollowsText /\ FoldedAreAlike /\ IndicesSettled => StrippingIsSafe
  <2> SUFFICES ASSUME Inv, NeededIsKept, UnwindFollowsText, IndicesSettled, phase = "scan",
                      NEW r \in RelocSects, kind[r] = "Relocation", Emitted(link.sect[r].lnk),
                      NEW y \in RefsOf(r), symSect[y] # 0
               PROVE  ~Dropped(symSect[y])
    BY DEF StrippingIsSafe, OutputIsClosed, RefersToOutput
  <2>0. /\ link \in Links /\ Late /\ ~Marking
        /\ TablesUnnamed(link) /\ TablesComeFirst(link) /\ TablesReach(link) /\ OnlyFunctions(link)
    BY DEF BaseInv, Late, Marking
  <2>1. r \in Sects /\ link.sect[r].lnk \in Sects /\ y \in Symbols
    BY <2>0, LinkFacts DEF RelocSects
  <2> DEFINE x == link.sect[r].lnk
             of == link.sym[y].sect
  <2>2. of # 0 => of \in Sects /\ kind[of] # "Ignore"
    <3> SUFFICES ASSUME of # 0 PROVE of \in Sects /\ kind[of] # "Ignore"
      OBVIOUS
    <3>1. CASE kind[x] \in GCKinds
      BY <2>0, <2>1, <3>1, LinkFacts DEF NeededIsKept
    <3>2. CASE kind[x] = "Target"
      <4>1. WasKind(x) = "Target" /\ ~Dropped(x)
        BY <2>1, <3>2 DEF BaseInv, KindInv, Dropped
      <4>2. ~Dropped(link.sect[x].lnk)
        BY <2>1, <4>1 DEF UnwindFollowsText
      <4>3. kind[link.sect[x].lnk] # "Ignore"
        BY <4>2 DEF Dropped
      <4> QED BY <2>0, <2>1, <4>1, <4>3, LinkFacts DEF TargetsStay
    <3> QED BY <3>1, <3>2 DEF Emitted
  <2>3. CASE symSect[y] = of /\ (link.sym[y].func => of = 0 \/ kind[of] # "Folded")
    <3>1. of \in Sects /\ kind[of] # "Ignore"
      BY <2>2, <2>3
    <3>2. kind[of] = "Folded" => WasKind(of) = "Text"
      BY <3>1 DEF BaseInv, KindInv
    <3>3. WasKind(of) = "Text" => link.sym[y].func
      BY <2>0, <2>1, <2>3 DEF OnlyFunctions, Symbols, WasKind
    <3> QED BY <2>3, <3>1, <3>2, <3>3 DEF Dropped
  <2>4. CASE \E i \in 1..Len(cands) : Moved(y, i)
    <3>1. PICK i \in 1..Len(cands) : symSect[y] = cands[kept[i]]
      BY <2>4 DEF Moved
    <3>2. Len(kept) = Len(cands) /\ kept[i] \in 1..Len(cands)
      BY <2>0 DEF FoldedInv, BaseInv, KeptInv
    <3>3. kept[kept[i]] = kept[i]
      BY <3>2 DEF IndicesSettled
    <3>4. kind[cands[kept[i]]] = "Text"
      BY <2>0, <3>2, <3>3 DEF FoldedInv
    <3> QED BY <3>1, <3>4 DEF Dropped
  <2> QED BY <2>0, <2>1, <2>3, <2>4 DEF FoldedInv
<1>4. Spec => []NeededIsKept
  BY NothingNeededIsDropped
<1>5. Spec => []UnwindFollowsText
  BY UnwindGoesWithText
<1>6. Spec => []FoldedAreAlike
  BY OnlyTheSameAreFolded
<1> QED BY <1>1, <1>2, <1>3, <1>4, <1>5, <1>6, PTL DEF Spec
=============================================================================
