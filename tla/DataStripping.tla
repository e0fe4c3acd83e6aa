----------------------------- MODULE DataStripping -----------------------------
(***************************************************************************)
(* ObjectLinker::dataStrippingOpt, which runs garbage collection and then  *)
(* code folding, and ObjectLinker::mergeSections, which leaves out what    *)
(* they have dropped.                                                      *)
(***************************************************************************)
EXTENDS GarbageCollection, IdenticalCodeFolding

allvars == <<link, kind, symSect, phase, reached, entries, work, referenced,
             cands, kept, sums, pos, again, round>>

FirstPass ==
  IF link.opt.gc THEN "reach"
  ELSE IF link.opt.icf # "none" THEN "candidates" ELSE "merge"

Dropped(s) == kind[s] \in {"Ignore", "Folded"}

\* A relocation section, and ARMGNULDBackend::mergeSection an .ARM.exidx,
\* goes with the section it belongs to.
Merged(s) ==
  IF kind[s] \in {"Relocation", "Target"} /\ Dropped(link.sect[s].lnk)
  THEN "Ignore" ELSE kind[s]

MergeSection ==
  /\ phase = "merge"
  /\ pos =< Len(link.sect)
  /\ kind' = [kind EXCEPT ![pos] = Merged(pos)]
  /\ pos' = pos + 1
  /\ UNCHANGED <<link, symSect, phase, gcvars, cands, kept, sums, again, round>>

EndMerge ==
  /\ phase = "merge"
  /\ pos > Len(link.sect)
  /\ phase' = "scan"
  /\ UNCHANGED <<link, kind, symSect, gcvars, icfvars>>

Init ==
  /\ InitSections
  /\ phase = FirstPass
  /\ reached = [s \in Sects |-> {}]
  /\ entries = {} /\ work = {} /\ referenced = {}
  /\ ICFInit

Next ==
  \/ SetUpReached /\ UNCHANGED icfvars
  \/ PushEntry /\ UNCHANGED icfvars
  \/ FindReferenced /\ UNCHANGED icfvars
  \/ StripSections /\ UNCHANGED icfvars
  \/ FindCandidates /\ UNCHANGED gcvars
  \/ StartMatching /\ UNCHANGED gcvars
  \/ FoldCandidate /\ UNCHANGED gcvars
  \/ KeepCandidate /\ UNCHANGED gcvars
  \/ EndIteration /\ UNCHANGED gcvars
  \/ Fold /\ UNCHANGED gcvars
  \/ MergeSection
  \/ EndMerge

\* One thread runs the passes.
Spec == Init /\ [][Next]_allvars /\ WF_allvars(Next)

-----------------------------------------------------------------------------
(* Properties                                                              *)

TypeOK ==
  /\ kind \in [Sects -> Kinds]
  /\ symSect \in [Symbols -> Sects \cup {0}]
  /\ phase \in {"reach", "mark", "candidates", "match", "fold", "merge", "scan"}
  /\ reached \in [Sects -> SUBSET Sects]
  /\ entries \subseteq Sects /\ work \subseteq Sects /\ referenced \subseteq Sects
  /\ Len(cands) =< MaxCandidates
  /\ kept \in [1..Len(kept) -> 1..Len(cands)]
  /\ phase \in {"match", "fold"} => Len(kept) = Len(cands)
  /\ pos \in Nat /\ round \in 0..link.opt.iterations

\* A relocation that will be scanned and applied refers to what is in the
\* output: neither stripping nor folding leaves a symbol behind in a section
\* that is dropped.
Emitted(s) == kind[s] \in GCKinds \cup {"Target"}

RefersToOutput ==
  phase = "scan" => \A r \in RelocSects :
    kind[r] = "Relocation" /\ Emitted(link.sect[r].lnk) =>
      \A y \in RefsOf(r) : symSect[y] # 0 => ~Dropped(symSect[y])

\* A function has its .ARM.exidx in the output if and only if it is there
\* itself, and no dropped section is relocated.
UnwindFollowsText ==
  phase = "scan" => \A s \in Sects :
    /\ WasKind(s) = "Target" => (Dropped(s) <=> Dropped(link.sect[s].lnk))
    /\ WasKind(s) = "Relocation" => (Dropped(link.sect[s].lnk) => Dropped(s))

\* After garbage collection, folding and the merge the output is closed: what
\* stays refers only to what stays, its unwind tables included.
OutputIsClosed ==
  /\ RefersToOutput
  /\ UnwindFollowsText

\* Stripping and folding leave the program what it was: a function is folded
\* only into one that does the same, and nothing that stays refers to what went.
StrippingIsSafe ==
  /\ FoldedAreAlike
  /\ OutputIsClosed

\* What the theorems ask of the inputs.  MaxCandidates bounds the digits of an
\* index.
FewTexts(l) == Cardinality(TextsIn(l)) =< MaxCandidates

\* No relocation, entry or exported symbol refers to an unwind table: the merge
\* drops it with its text, whoever needs it.
TablesUnnamed(l) ==
  \A y \in DOMAIN l.sym :
    l.sym[y].sect # 0 /\ l.sect[l.sym[y].sect].kind = "Target" =>
      /\ l.sym[y].local /\ y # l.entry /\ y \notin l.undefs
      /\ \A r \in 1..Len(l.sect) : \A i \in DOMAIN l.sect[r].relocs : l.sect[r].relocs[i].sym # y

\* An unwind table describes a section that is no table, and its relocations
\* follow it in the file: mergeSections goes through the sections once.
TablesComeFirst(l) ==
  \A s \in 1..Len(l.sect) :
    LET of == l.sect[s].lnk IN
    /\ l.sect[s].kind = "Target" =>
         of \in 1..Len(l.sect) /\ l.sect[of].kind \notin {"Target", "Relocation"}
    /\ l.sect[s].kind = "Relocation" =>
         /\ l.sect[of].kind = "Target" => of < s
         /\ l.sect[of].kind # "Relocation"

\* What an unwind table of a function refers to is no exception table, which
\* setUpReachedSectionsForGC does not reach from it.
TablesReach(l) ==
  \A r \in 1..Len(l.sect) :
    l.sect[r].kind = "Relocation" /\ l.sect[l.sect[r].lnk].kind = "Target" =>
      /\ l.sect[l.sect[l.sect[r].lnk].lnk].kind \in GCKinds
      /\ \A i \in DOMAIN l.sect[r].relocs :
           LET of == l.sym[l.sect[r].relocs[i].sym].sect
           IN  of # 0 => l.sect[of].kind # "Except"

\* Texts are referred to by function symbols: no other symbol moves.
OnlyFunctions(l) ==
  \A y \in DOMAIN l.sym :
    l.sym[y].sect # 0 /\ l.sect[l.sym[y].sect].kind = "Text" => l.sym[y].func

\* No function is folded into one that is folded itself: a symbol moves one hop
\* only, and the last iteration may have left such a chain.
IndicesSettled == \A i \in 1..Len(kept) : kept[kept[i]] = kept[i]

\* The passes come to an end.
StrippingEnds == <>(phase = "scan")
=============================================================================
