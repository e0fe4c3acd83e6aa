---------------------------- MODULE SymbolCategory ----------------------------
(***************************************************************************)
(* The output symbol table (SymbolCategory): one vector of symbols cut     *)
(* into six consecutive ranges, File, Local, LocalDyn, Common, Dynamic and *)
(* Regular.  A symbol enters or changes its range by being swapped across  *)
(* the borders of the ranges in between, one border per iteration of a     *)
(* loop; the loops run over the six ranges and are unrolled here.          *)
(*                                                                         *)
(* Positions are those of the code, from 0; syms is a TLA+ sequence.       *)
(***************************************************************************)
EXTENDS Integers, Sequences, FiniteSets

CONSTANT Symbols  \* the output symbols (LDSymbol)

File == 0
Local == 1
LocalDyn == 2
Common == 3
Dynamic == 4
Regular == 5

Cats == 0..5
Categories == Cats \ {LocalDyn}  \* what Category::categorize can return

VARIABLES
  table,  (* [syms, begin, end]: the vector and the borders of the ranges  *)
  cat,    (* what Category::categorize says of each symbol's ResolveInfo   *)
  home,   (* history: the range a symbol was last put into                 *)
  phase   (* "open", or "changing" inside changeCommonsToGlobal            *)

vars == <<table, cat, home, phase>>

-----------------------------------------------------------------------------
(* The loops                                                               *)

At(T, p) == T.syms[p + 1]
RangeOf(T, c) == T.begin[c] .. (T.end[c] - 1)
Positions(T, x) == {p \in 0 .. (Len(T.syms) - 1) : At(T, p) = x}
InTable(T, x) == Positions(T, x) # {}

Swap(q, i, j) == [q EXCEPT ![i + 1] = q[j + 1], ![j + 1] = q[i + 1]]

EmptyTable == [syms |-> <<>>, begin |-> [c \in Cats |-> 0],
               end |-> [c \in Cats |-> 0]]

Push(T, x) == [T EXCEPT !.syms = Append(@, x)]

\* Mutant: the range moves up without moving its first symbol.
ShiftNoSwap(T, c) ==
  [T EXCEPT !.begin[c] = @ + 1, !.end[c] = @ + 1]

\* The new symbol waits behind range c: the first symbol of c moves behind
\* the others, and the new one takes its place, now before c.
Shift(T, c) ==
  [syms |-> IF T.begin[c] = T.end[c] THEN T.syms
            ELSE Swap(T.syms, T.begin[c], T.end[c]),
   begin |-> [T.begin EXCEPT ![c] = @ + 1],
   end |-> [T.end EXCEPT ![c] = @ + 1]]

ShiftIf(T, c, target) == IF target < c THEN Shift(T, c) ELSE T

Grow(T, c) == [T EXCEPT !.end[c] = @ + 1]

\* SymbolCategory::add(pSymbol, pTarget)
AddTo(T, x, target) ==
  LET t5 == ShiftIf(Push(T, x), Regular, target)
      t4 == ShiftIf(t5, Dynamic, target)
      t3 == ShiftIf(t4, Common, target)
      t2 == ShiftIf(t3, LocalDyn, target)
      t1 == ShiftIf(t2, Local, target)
  IN  Grow(t1, target)

\* Mutant: the border of the range itself moves, not that of the next one.
DownOwnBegin(r, c) ==
  [table |-> [syms |-> Swap(r.table.syms, r.pos, r.table.end[c] - 1),
              begin |-> [r.table.begin EXCEPT ![c] = @ - 1],
              end |-> [r.table.end EXCEPT ![c] = @ - 1]],
   pos |-> r.table.end[c] - 1]

\* The symbol at r.pos of range c becomes the first one of range c + 1.
Down(r, c) ==
  [table |-> [syms |-> Swap(r.table.syms, r.pos, r.table.end[c] - 1),
              begin |-> [r.table.begin EXCEPT ![c + 1] = @ - 1],
              end |-> [r.table.end EXCEPT ![c] = @ - 1]],
   pos |-> r.table.end[c] - 1]

\* The symbol at r.pos of range c becomes the last one of range c - 1.
Up(r, c) ==
  [table |-> [syms |-> Swap(r.table.syms, r.table.begin[c], r.pos),
              begin |-> [r.table.begin EXCEPT ![c] = @ + 1],
              end |-> [r.table.end EXCEPT ![c - 1] = @ + 1]],
   pos |-> r.table.begin[c]]

DownIf(r, c, from, to) == IF from =< c /\ c < to THEN Down(r, c) ELSE r
UpIf(r, c, from, to) == IF to < c /\ c =< from THEN Up(r, c) ELSE r

Move(T, p, from, to) ==
  LET d0 == [table |-> T, pos |-> p]
      d1 == DownIf(d0, File, from, to)
      d2 == DownIf(d1, Local, from, to)
      d3 == DownIf(d2, LocalDyn, from, to)
      d4 == DownIf(d3, Common, from, to)
      d5 == DownIf(d4, Dynamic, from, to)
      u5 == UpIf(d5, Regular, from, to)
      u4 == UpIf(u5, Dynamic, from, to)
      u3 == UpIf(u4, Common, from, to)
      u2 == UpIf(u3, LocalDyn, from, to)
      u1 == UpIf(u2, Local, from, to)
  IN  u1.table

\* The first occurrence of x in the range that its old category names or,
\* failing that, in the whole table.
FindPos(T, x, source) ==
  LET here == Positions(T, x) \cap RangeOf(T, source)
      found == IF here # {} THEN here ELSE Positions(T, x)
  IN  CHOOSE p \in found : \A q \in found : p =< q

CatAt(T, p) == CHOOSE c \in Cats : p \in RangeOf(T, c)

\* SymbolCategory::arrange(pSymbol, pSource, pTarget)
Arrange(T, x, source, target) ==
  IF source = target THEN T
  ELSE LET p == FindPos(T, x, source) IN Move(T, p, CatAt(T, p), target)

\* An iteration of changeCommonsToGlobal: the last common symbol, which is of
\* category c by now, goes to the dynamic or to the regular symbols.
ChangeCommon(T, c) ==
  IF c = Dynamic
  THEN [syms |-> T.syms,
        begin |-> [T.begin EXCEPT ![Dynamic] = @ - 1],
        end |-> [T.end EXCEPT ![Common] = @ - 1]]
  ELSE [syms |-> Swap(T.syms, T.end[Common] - 1, T.end[Dynamic] - 1),
        begin |-> [T.begin EXCEPT ![Dynamic] = @ - 1, ![Regular] = @ - 1],
        end |-> [T.end EXCEPT ![Common] = @ - 1, ![Dynamic] = @ - 1]]

-----------------------------------------------------------------------------
(* The operations                                                          *)

Init ==
  /\ table = EmptyTable
  /\ cat \in [Symbols -> Categories]
  /\ home = cat
  /\ phase = "open"

\* x is of category c when it is added.
Add(x, c) ==
  /\ phase = "open"
  /\ ~InTable(table, x)
  /\ cat' = [cat EXCEPT ![x] = c]
  /\ table' = AddTo(table, x, c)
  /\ home' = [home EXCEPT ![x] = c]
  /\ UNCHANGED phase

ForceLocal(x, c) ==
  /\ phase = "open"
  /\ ~InTable(table, x)
  /\ cat' = [cat EXCEPT ![x] = c]
  /\ table' = AddTo(table, x, Local)
  /\ home' = [home EXCEPT ![x] = Local]
  /\ UNCHANGED phase

\* The ResolveInfo of x has been overridden and is of category c now.
ArrangeSymbol(x, c) ==
  /\ phase = "open"
  /\ InTable(table, x)
  /\ cat' = [cat EXCEPT ![x] = c]
  /\ table' = Arrange(table, x, cat[x], c)
  /\ home' = IF cat[x] = c THEN home ELSE [home EXCEPT ![x] = c]
  /\ UNCHANGED phase

ChangeToDynamic(x) ==
  /\ phase = "open"
  /\ InTable(table, x)
  /\ table' = Arrange(table, x, cat[x], LocalDyn)
  /\ home' = [home EXCEPT ![x] = LocalDyn]
  /\ UNCHANGED <<cat, phase>>

\* Mutant: only the common symbols that were forced local are allocated.
AllocateLocalsOnly ==
  /\ phase = "open"
  /\ phase' = "changing"
  /\ \E new \in [Symbols -> {Dynamic, Regular}] :
       cat' = [x \in Symbols |->
                 IF cat[x] = Common /\ InTable(table, x) /\ home[x] = Local
                 THEN new[x] ELSE cat[x]]
  /\ UNCHANGED <<table, home>>

\* GNULDBackend::allocateCommonSymbols makes every common symbol of the Local
\* and Common ranges a definition; its visibility decides the new category.
AllocateCommonSymbols ==
  /\ phase = "open"
  /\ phase' = "changing"
  /\ \E new \in [Symbols -> {Dynamic, Regular}] :
       cat' = [x \in Symbols |->
                 IF cat[x] = Common /\ InTable(table, x)
                    /\ home[x] \in {Local, Common}
                 THEN new[x] ELSE cat[x]]
  /\ UNCHANGED <<table, home>>

\* The loop of changeCommonsToGlobal; its assertion is the guard cat[x].
ChangeCommonToGlobal ==
  LET x == At(table, table.end[Common] - 1)
  IN  /\ phase = "changing"
      /\ table.begin[Common] # table.end[Common]
      /\ cat[x] \in {Dynamic, Regular}
      /\ table' = ChangeCommon(table, cat[x])
      /\ home' = [home EXCEPT ![x] = cat[x]]
      /\ UNCHANGED <<cat, phase>>

CommonsChanged ==
  /\ phase = "changing"
  /\ table.begin[Common] = table.end[Common]
  /\ phase' = "open"
  /\ UNCHANGED <<table, cat, home>>

Next ==
  \/ \E x \in Symbols, c \in Categories : \/ Add(x, c)
                                         \/ ForceLocal(x, c)
                                         \/ ArrangeSymbol(x, c)
  \/ \E x \in Symbols : ChangeToDynamic(x)
  \/ AllocateCommonSymbols
  \/ ChangeCommonToGlobal
  \/ CommonsChanged

Spec == Init /\ [][Next]_vars

\* The loop of changeCommonsToGlobal runs on once it has been entered.
FairSpec == Spec /\ WF_vars(ChangeCommonToGlobal \/ CommonsChanged)

-----------------------------------------------------------------------------
(* Properties                                                              *)

TypeOK ==
  /\ table \in [syms : Seq(Symbols), begin : [Cats -> Nat], end : [Cats -> Nat]]
  /\ cat \in [Symbols -> Categories]
  /\ home \in [Symbols -> Cats]
  /\ phase \in {"open", "changing"}

\* The six ranges follow one another without a gap and cover the vector: what
\* begin() and size() of a range delimit is what sizeNamePools counts.
Contiguous ==
  /\ table.begin[File] = 0
  /\ table.end[Regular] = Len(table.syms)
  /\ \A c \in Cats : table.begin[c] =< table.end[c]
  /\ \A c \in Cats \ {Regular} : table.end[c] = table.begin[c + 1]

\* No sequence of swaps loses or duplicates a symbol.
EachOnce ==
  \A p, q \in 0 .. (Len(table.syms) - 1) : At(table, p) = At(table, q) => p = q

\* Every symbol lies in the range it was last put into, however many other
\* symbols have been swapped past it since.
InItsRange ==
  \A c \in Cats : \A p \in RangeOf(table, c) : home[At(table, p)] = c

\* Any sequence of add, forceLocal, arrange, changeCommonsToGlobal and
\* changeToDynamic keeps the ranges exact.
RangesExact ==
  /\ Contiguous
  /\ EachOnce
  /\ InItsRange

\* changeCommonsToGlobal ends, and no symbol is common after it: its assertion,
\* that the symbol it takes is a definition by now, is the guard of its step.
CommonsAreChanged ==
  phase = "changing" ~> (phase = "open" /\ RangeOf(table, Common) = {})
=============================================================================
