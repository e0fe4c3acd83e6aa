--------------------------- MODULE GarbageCollection ---------------------------
(***************************************************************************)
(* GarbageCollection::run: --gc-sections.  A work list computes which      *)
(* sections are referenced from the entries; the others are stripped.      *)
(* ReachedSections is a set ordered by pointers, so the order of the work  *)
(* list is arbitrary.                                                      *)
(***************************************************************************)
EXTENDS InputSections

VARIABLES
  reached,     (* SectionReachedListMap                                    *)
  entries,     (* the entries that have not been pushed yet                *)
  work,        (* work_list                                                *)
  referenced   (* m_ReferencedSections                                     *)

gcvars == <<reached, entries, work, referenced>>

MayProcessGC(s) == kind[s] \in GCKinds

\* The processed sections that the relocations of r refer to.
TargetsOf(r) ==
  {t \in Sects : MayProcessGC(t) /\ \E y \in RefsOf(r) : symSect[y] = t}

LiveRelocs(s) ==
  {r \in RelocSects : kind[r] = "Relocation" /\ link.sect[r].lnk = s
                      /\ link.sect[r].relocs # <<>>}

\* setUpReachedSections, and ARMGNULDBackend::setUpReachedSectionsForGC:
\* a text refers to its .ARM.exidx, which refers to what its relocations do.
ReachedFrom(s) ==
  IF MayProcessGC(s)
  THEN (UNION {TargetsOf(r) : r \in LiveRelocs(s)})
       \cup {x \in Sects : kind[x] = "Target" /\ link.sect[x].lnk = s
                           /\ LiveRelocs(x) # {}}
  ELSE IF kind[s] = "Target"
  THEN {t \in UNION {TargetsOf(r) : r \in LiveRelocs(s)} : kind[t] # "Except"}
  ELSE {}

DefinedIn(t, y) == symSect[y] = t /\ ~link.sym[y].local

\* A position independent executable is linked as a shared object.
DynObj == link.opt.output \in {"shared", "pie"}
HasEntry == link.opt.output \in {"exec", "pie"}

EntryByScript == {s \in Sects : MayProcessGC(s) /\ link.sect[s].keep}

\* Mutant: hidden symbols are entries of a shared object.
EntryByAnySymbol ==
  IF DynObj \/ link.opt.exportDynamic
  THEN {s \in Sects : MayProcessGC(s) /\ \E y \in Symbols : DefinedIn(s, y)}
  ELSE {}

EntryByExport ==
  IF DynObj \/ link.opt.exportDynamic
  THEN {s \in Sects : MayProcessGC(s) /\
          \E y \in Symbols : DefinedIn(s, y) /\ ~link.sym[y].hidden}
  ELSE {}

\* The section of the entry symbol is an entry whatever its kind.
EntryByEntry ==
  IF HasEntry THEN {s \in Sects : symSect[link.entry] = s} ELSE {}

\* Mutant: what shared libraries refer to is no entry.
EntryByNothing == {s \in Sects : FALSE}

EntryByDynObj ==
  IF HasEntry /\ ~link.opt.exportDynamic
  THEN {s \in Sects : MayProcessGC(s) /\
          \E y \in Symbols : DefinedIn(s, y) /\ link.sym[y].inDyn}
  ELSE {}

EntryByUndef ==
  {s \in Sects : MayProcessGC(s) /\ \E y \in link.undefs : symSect[y] = s}

EntrySections ==
  EntryByScript \cup EntryByExport \cup EntryByEntry \cup EntryByDynObj
  \cup EntryByUndef

-----------------------------------------------------------------------------
SetUpReached ==
  /\ phase = "reach"
  /\ reached' = [s \in Sects |-> ReachedFrom(s)]
  /\ entries' = EntrySections
  /\ phase' = "mark"
  /\ UNCHANGED <<link, kind, symSect, work, referenced>>

PushEntry ==
  /\ phase = "mark"
  /\ work = {}
  /\ \E e \in entries : work' = {e} /\ entries' = entries \ {e}
  /\ UNCHANGED <<link, kind, symSect, phase, reached, referenced>>

\* Mutant: a section that is referenced already is looked at again.
MarkAgain(s) ==
  /\ referenced' = referenced \cup {s}
  /\ work' = (work \ {s}) \cup reached[s]

Mark(s) ==
  /\ referenced' = referenced \cup {s}
  /\ work' = (work \ {s}) \cup (IF s \in referenced THEN {}
                                ELSE reached[s] \ referenced')

FindReferenced ==
  /\ phase = "mark"
  /\ \E s \in work : Mark(s)
  /\ UNCHANGED <<link, kind, symSect, phase, reached, entries>>

Stripped ==
  LET strip(s) == MayProcessGC(s) /\ s \notin referenced
      gone(s) == kind[s] = "Ignore" \/ strip(s)
  IN  [s \in Sects |->
        IF strip(s) \/ (s \in RelocSects /\ gone(link.sect[s].lnk))
        THEN "Ignore" ELSE kind[s]]

StripSections ==
  /\ phase = "mark"
  /\ work = {} /\ entries = {}
  /\ kind' = Stripped
  /\ phase' = IF link.opt.icf = "none" THEN "merge" ELSE "candidates"
  /\ UNCHANGED <<link, symSect, reached, entries, work, referenced>>

-----------------------------------------------------------------------------
GCInit ==
  /\ InitSections
  /\ phase = "reach"
  /\ reached = [s \in Sects |-> {}]
  /\ entries = {}
  /\ work = {}
  /\ referenced = {}

GCNext == SetUpReached \/ PushEntry \/ FindReferenced \/ StripSections

vars == <<link, kind, symSect, phase, reached, entries, work, referenced>>

GCSpec == GCInit /\ [][GCNext]_vars

-----------------------------------------------------------------------------
(* Properties                                                              *)

WasKind(s) == link.sect[s].kind
Marking == phase \in {"reach", "mark"}

Exported(y) == ~link.sym[y].hidden /\ (DynObj \/ link.opt.exportDynamic)

NeededSymbols ==
  link.undefs \cup {y \in Symbols :
     \/ HasEntry /\ y = link.entry
     \/ /\ ~link.sym[y].local
        /\ Exported(y) \/ (HasEntry /\ link.sym[y].inDyn)}

\* What the code forgets.  With --export-dynamic an executable does not look for
\* the symbols seen in dynamic objects, as "these sections already been added"
\* (GarbageCollection.cpp:237); but the loop over the exported symbols has
\* skipped the hidden ones.
Overlooked(y) ==
  /\ HasEntry /\ link.opt.exportDynamic
  /\ link.sym[y].inDyn /\ link.sym[y].hidden
  /\ y # link.entry /\ y \notin link.undefs

\* Nothing that is needed is stripped: no KEEP section, none that the entry, a
\* -u symbol, an exported symbol or one seen by a shared library lies in, and
\* none that a relocation of a kept section refers to.  The symbols that are
\* Overlooked are left out: the section of a hidden one that a shared library
\* has seen may go.
NeededIsKept ==
  ~Marking =>
    /\ \A s \in Sects : link.sect[s].keep /\ WasKind(s) \in GCKinds => kind[s] # "Ignore"
    /\ \A y \in NeededSymbols :
         link.sym[y].sect # 0 /\ ~Overlooked(y)
           => kind[link.sym[y].sect] # "Ignore"
    /\ \A r \in RelocSects :
         kind[r] = "Relocation" /\ kind[link.sect[r].lnk] \in GCKinds =>
           \A y \in RefsOf(r) :
             link.sym[y].sect # 0 => kind[link.sym[y].sect] # "Ignore"

\* Nothing that is kept could be stripped: a section is referenced only if it
\* belongs to every set that holds the KEEP sections and those of the needed
\* symbols, and all that its members reach.
ReachClosed(C) == \A s \in C : reached[s] \subseteq C

HoldsRoots(C) ==
  /\ {s \in Sects : link.sect[s].keep /\ WasKind(s) \in GCKinds} \subseteq C
  /\ \A y \in NeededSymbols : link.sym[y].sect # 0 => link.sym[y].sect \in C

KeptIsNeeded ==
  /\ phase = "mark" => \A C \in SUBSET (Sects \ RelocSects) :
       HoldsRoots(C) /\ ReachClosed(C) => referenced \subseteq C
  /\ ~Marking /\ link.opt.gc => \A s \in Sects :
       WasKind(s) \in GCKinds /\ kind[s] # "Ignore" => s \in referenced
=============================================================================
