----------------------------- MODULE InputSections -----------------------------
(***************************************************************************)
(* The sections of the input files after readRelocations, in the order of  *)
(* Module::getObjectList and of the section headers, and what is left of   *)
(* them: LDSection::kind.  A section says                                  *)
(*    kind    how it was read; "Target" is .ARM.exidx                      *)
(*    obj     the object it lies in                                        *)
(*    lnk     LDSection::getLink: what a relocation section applies to,    *)
(*            and the text that an .ARM.exidx describes                    *)
(*    keep    a KEEP pattern of the script, or pattern_to_keep, matches    *)
(*    code    its bytes                                                    *)
(*    relocs  of a relocation section, the relocations [sym, ptr]: ptr     *)
(*            when mayHaveFunctionPointerAccess                            *)
(* and a symbol                                                            *)
(*    sect    the section of its fragment, 0 when it has none              *)
(*    local, inDyn, func (its type is Function), ctor (isCtorOrDtor)       *)
(*    hidden  ResolveInfo::shouldForceLocal                                *)
(* The options: output is "exec", "shared", "pie" or "binary"; gc;         *)
(* exportDynamic; icf is "none", "all" or "safe"; iterations.              *)
(***************************************************************************)
EXTENDS Integers, Sequences, FiniteSets

CONSTANT Links   (* the inputs and options to be examined                  *)

VARIABLES
  link,     (* the inputs and the options                                  *)
  kind,     (* the kind of each section by now                             *)
  symSect,  (* the section each symbol's FragmentRef points into           *)
  phase     (* the function that runs                                      *)

GCKinds == {"Text", "Data", "BSS", "Except"}
Kinds == GCKinds \cup {"Target", "EhFrame", "Relocation", "Ignore", "Folded"}

Sects == 1..Len(link.sect)
RelocSects == {r \in Sects : link.sect[r].kind = "Relocation"}
Symbols == DOMAIN link.sym

RelocsOf(r) == {link.sect[r].relocs[i] : i \in 1..Len(link.sect[r].relocs)}
RefsOf(r) == {x.sym : x \in RelocsOf(r)}

\* A symbol of a section that the reader ignored is undefined; neither it nor
\* one of a relocation section has a fragment.
LinkAssumption(l) ==
  /\ DOMAIN l.sect = 1..Len(l.sect) /\ Len(l.sect) \in Nat
  /\ l.opt.iterations \in Nat
  /\ l.entry \in DOMAIN l.sym
  /\ l.undefs \subseteq DOMAIN l.sym
  /\ \A y \in DOMAIN l.sym : l.sym[y].sect # 0 =>
       /\ l.sym[y].sect \in 1..Len(l.sect)
       /\ l.sect[l.sym[y].sect].kind \notin {"Ignore", "Relocation"}
  /\ \A s \in 1..Len(l.sect) :
       /\ l.sect[s].kind \in Kinds \ {"Folded"} /\ l.sect[s].obj \in Nat
       /\ l.sect[s].kind = "Relocation" => l.sect[s].lnk \in 1..Len(l.sect)
       /\ l.sect[s].relocs \in Seq([sym : DOMAIN l.sym, ptr : BOOLEAN])

ASSUME LinksAssumption == \A l \in Links : LinkAssumption(l)

InitSections ==
  /\ link \in Links
  /\ kind = [s \in Sects |-> link.sect[s].kind]
  /\ symSect = [y \in Symbols |-> link.sym[y].sect]
=============================================================================
