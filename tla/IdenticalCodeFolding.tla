------------------------- MODULE IdenticalCodeFolding -------------------------
(***************************************************************************)
(* IdenticalCodeFolding::foldIdenticalCode: --icf=all and --icf=safe.      *)
(* Sections of text whose contents are equal, up to the sections that      *)
(* their relocations refer to, are folded into the first of them.          *)
(*                                                                         *)
(* Contents with equal checksums are taken to be equal, and the name of a  *)
(* local symbol is taken to be unique in its object.                       *)
(***************************************************************************)
EXTENDS InputSections, SequencesExt

VARIABLES
  cands,     (* the candidates: m_KeptSections' keys, in order              *)
  kept,      (* m_KeptSections: of each candidate, the one it is folded into *)
  sums,      (* checksum_map: [content, index]                             *)
  pos,       (* the candidate that matchCandidates looks at                *)
  again,     (* ~converged                                                 *)
  round      (* iterations                                                 *)

icfvars == <<cands, kept, sums, pos, again, round>>

-----------------------------------------------------------------------------
(* findCandidates                                                          *)

TextsOf(o) == {s \in Sects : kind[s] = "Text" /\ link.sect[s].obj = o}

\* The functions of which a relocation of the same object may take the
\* address.
PointerAccess(o) ==
  {t \in Sects : \E r \in RelocSects :
     /\ kind[r] = "Relocation" /\ link.sect[r].obj = o
     /\ \E x \in RelocsOf(r) :
          /\ symSect[x.sym] = t
          /\ link.sym[x.sym].func /\ ~link.sym[x.sym].ctor
          /\ x.ptr}

CandidatesOf(o) ==
  IF link.opt.icf = "all" THEN TextsOf(o) ELSE TextsOf(o) \ PointerAccess(o)

\* The candidates of an object are ordered by their pointers.
Orders(o) == SetToSeqs(CandidatesOf(o))

Objects == {link.sect[s].obj : s \in Sects}

\* One object.
FindCandidates ==
  /\ phase = "candidates"
  /\ pos \in Objects
  /\ \E order \in Orders(pos) : cands' = cands \o order
  /\ pos' = pos + 1
  /\ UNCHANGED <<link, kind, symSect, phase, kept, sums, again, round>>

StartMatching ==
  /\ phase = "candidates"
  /\ pos \notin Objects
  /\ kept' = [i \in 1..Len(cands) |-> i]
  /\ phase' = IF link.opt.iterations = 0 THEN "fold" ELSE "match"
  /\ pos' = 1
  /\ UNCHANGED <<link, kind, symSect, cands, sums, again, round>>

-----------------------------------------------------------------------------
(* The contents                                                            *)

IndexOf(s) == CHOOSE i \in 1..Len(cands) : cands[i] = s
IsCandidate(s) == \E i \in 1..Len(cands) : cands[i] = s

Preemptible(y) ==
  link.opt.output = "shared" /\ ~link.sym[y].local /\ ~link.sym[y].hidden

\* The relocations of a candidate are those of the last section that applies
\* to it.
RelocsOfText(s) ==
  LET all == {r \in RelocSects : kind[r] = "Relocation" /\ link.sect[r].lnk = s}
  IN  IF all = {} THEN <<>> ELSE link.sect[Max(all)].relocs

Recursive(s, y) == link.sym[y].func /\ symSect[y] = s

IsVariable(s, y) ==
  ~Recursive(s, y) /\ ~Preemptible(y) /\ IsCandidate(symSect[y])

\* What initConstantContent appends for a relocation: its type, and the name
\* of a symbol that is neither recursive nor a variable.
Constant(s, x) ==
  [ptr |-> x.ptr,
   name |-> IF Recursive(s, x.sym) \/ IsVariable(s, x.sym) THEN {} ELSE {x.sym}]

Constants(s) ==
  LET refs == RelocsOfText(s) IN [j \in 1..Len(refs) |-> Constant(s, refs[j])]

\* The index is appended in hexadecimal, without a separator.
Hex(k) == IF k < 16 THEN <<k>> ELSE <<k \div 16, k % 16>>
MaxCandidates == 256

\* What is appended for a relocation: the index of what its symbol's section
\* is folded into by now.
Index(s, x) ==
  IF IsVariable(s, x.sym) THEN Hex(kept[IndexOf(symSect[x.sym])] - 1) ELSE <<>>

\* Mutant: what a variable relocation refers to is not compared.
ContentOfCode(i) ==
  LET s == cands[i] IN
  [code |-> link.sect[s].code,
   relocs |-> Constants(s), indices |-> <<>>]

\* getContentWithVariables
ContentOf(i) ==
  LET s == cands[i]
      refs == RelocsOfText(s)
      indices == [j \in 1..Len(refs) |-> Index(s, refs[j])]
  IN  [code |-> link.sect[s].code,
       relocs |-> Constants(s), indices |-> FlattenSeq(indices)]

-----------------------------------------------------------------------------
(* matchCandidates                                                         *)

Same == {e \in sums : e.content = ContentOf(pos)}

FoldCandidate ==
  /\ phase = "match"
  /\ pos =< Len(cands)
  /\ \E e \in Same : kept' = [kept EXCEPT ![pos] = e.index]
  /\ again' = TRUE
  /\ pos' = pos + 1
  /\ UNCHANGED <<link, kind, symSect, phase, cands, sums, round>>

\* kept is not reset: it may hold what an earlier iteration has found.
KeepCandidate ==
  /\ phase = "match"
  /\ pos =< Len(cands)
  /\ Same = {}
  /\ sums' = sums \cup {[content |-> ContentOf(pos), index |-> pos]}
  /\ pos' = pos + 1
  /\ UNCHANGED <<link, kind, symSect, phase, cands, kept, again, round>>

\* Mutant: the limit of iterations is not looked at.
EndIterationUnlimited ==
  /\ phase = "match"
  /\ pos > Len(cands)
  /\ round' = round + 1
  /\ phase' = IF again THEN "match" ELSE "fold"
  /\ pos' = 1 /\ sums' = {} /\ again' = FALSE
  /\ UNCHANGED <<link, kind, symSect, cands, kept>>

EndIteration ==
  /\ phase = "match"
  /\ pos > Len(cands)
  /\ round' = round + 1
  /\ phase' = IF again /\ round' < link.opt.iterations THEN "match" ELSE "fold"
  /\ pos' = 1 /\ sums' = {} /\ again' = FALSE
  /\ UNCHANGED <<link, kind, symSect, cands, kept>>

-----------------------------------------------------------------------------
(* Folding                                                                 *)

Folded(s) == IsCandidate(s) /\ kept[IndexOf(s)] # IndexOf(s)

\* Mutant: the symbols stay with the folded sections.
StayFolded(y) == symSect[y]

\* A function symbol of a folded section moves to the kept one.
Adjusted(y) ==
  LET s == symSect[y] IN
  IF link.sym[y].func /\ Folded(s) THEN cands[kept[IndexOf(s)]] ELSE s

Fold ==
  /\ phase = "fold"
  /\ kind' = [s \in Sects |-> IF Folded(s) THEN "Folded" ELSE kind[s]]
  /\ symSect' = [y \in Symbols |-> Adjusted(y)]
  /\ phase' = "merge"
  /\ pos' = 1
  /\ UNCHANGED <<link, cands, kept, sums, again, round>>

ICFInit ==
  /\ cands = <<>> /\ kept = <<>>
  /\ sums = {} /\ pos = 1
  /\ again = FALSE /\ round = 0

-----------------------------------------------------------------------------
(* Properties                                                              *)

\* Two references are to one symbol, or to functions that R holds to be the
\* same and nobody can replace at run time.
SameRef(x, y, R) ==
  \/ x = y
  \/ /\ IsCandidate(symSect[x]) /\ IsCandidate(symSect[y])
     /\ ~Preemptible(x) /\ ~Preemptible(y)
     /\ <<IndexOf(symSect[x]), IndexOf(symSect[y])>> \in R

SameText(a, b, R) ==
  LET ra == RelocsOfText(a)  rb == RelocsOfText(b)
  IN  /\ link.sect[a].code = link.sect[b].code
      /\ Len(ra) = Len(rb)
      /\ \A j \in 1..Len(ra) : SameRef(ra[j].sym, rb[j].sym, R)

\* The pairs of candidates that no number of rounds of a partition refinement
\* tells apart.
Alike ==
  LET idx == 1..Len(cands)
      f[n \in 0..Len(cands)] ==
        IF n = 0 THEN idx \X idx
        ELSE {p \in f[n - 1] : SameText(cands[p[1]], cands[p[2]], f[n - 1])}
  IN  f[Len(cands)]

\* Only functions that do the same are folded into each other, although the
\* indices they are compared by change while they are compared.
FoldedAreAlike ==
  phase = "fold" => \A i \in 1..Len(cands) : <<i, kept[i]>> \in Alike

(* What the property asks of the inputs                                    *)

TextsIn(l) == {s \in 1..Len(l.sect) : l.sect[s].kind = "Text"}
CallsItself(l, s, x) == l.sym[x.sym].func /\ l.sym[x.sym].sect = s

\* An index is one digit, so that a row of them can be read in one way.
SingleDigits(l) == Cardinality(TextsIn(l)) =< 16

\* A function that calls itself cannot be replaced at run time: the content
\* does not say which function a recursive call is to.
SelfCallsBind(l) ==
  \A r \in 1..Len(l.sect) : \A i \in DOMAIN l.sect[r].relocs :
    LET x == l.sect[r].relocs[i] IN
    l.sect[r].kind = "Relocation" /\ CallsItself(l, l.sect[r].lnk, x)
    /\ l.opt.output = "shared" => l.sym[x.sym].local \/ l.sym[x.sym].hidden

\* Of two texts, one calls itself only where the other does: the content of a
\* recursive call is that of a call of another function, less its index.
SelfCallsAgree(l) ==
  LET places(q) == {i \in DOMAIN l.sect[q].relocs :
                      CallsItself(l, l.sect[q].lnk, l.sect[q].relocs[i])}
  IN  \A q, r \in 1..Len(l.sect) :
        l.sect[q].kind = "Relocation" /\ l.sect[r].kind = "Relocation"
        /\ Len(l.sect[q].relocs) = Len(l.sect[r].relocs)
        /\ l.sect[l.sect[q].lnk].code = l.sect[l.sect[r].lnk].code
          => places(q) \subseteq places(r) \/ places(r) \subseteq places(q)
=============================================================================
