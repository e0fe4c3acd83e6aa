-------------------------- MODULE OutputSymbolsProofs --------------------------
(***************************************************************************)
(* Theorems about OutputSymbols: the passes of the linker use the symbol   *)
(* table as SymbolCategory says, and what they emit agrees with what they  *)
(* have measured, for any configuration and any symbols of the inputs.     *)
(***************************************************************************)
EXTENDS OutputSymbols, SequenceTheorems, TLAPS

\* The lemmas about the operations of the table.
P == INSTANCE SymbolCategoryProofs WITH
       Symbols <- Names,
       cat <- [n \in Names |-> CategoryOf(n)],
       phase <- IF stage = "changing" THEN "changing" ELSE "open"

-----------------------------------------------------------------------------
(* The entries that resolution leaves, local symbols included.             *)

LEMMA OverrideInfos ==
  ASSUME NEW old \in Infos, NEW new \in Infos
  PROVE  /\ OverrideVisibility(old, new) \in Infos
         /\ OverrideAttributes(old, new) \in Infos
         /\ Override(old, new) \in Infos
         /\ Larger(old, new) \in Infos
<1>1. \A o \in Infos : OverrideVisibility(o, new) \in Infos
  BY DEF OverrideVisibility, Infos
<1>2. OverrideAttributes(old, new) \in Infos /\ Larger(old, new) \in Infos
  BY DEF OverrideAttributes, Larger, Infos
<1>3. [OverrideAttributes(old, new) EXCEPT !.size = new.size] \in Infos
  BY <1>2 DEF Infos
<1> QED BY <1>1, <1>2, <1>3 DEF Override

\* Resolving two entries gives an entry.
LEMMA ResolveInfos ==
  ASSUME NEW old \in Infos, NEW new \in Infos, NEW outValue, NEW value
  PROVE  Resolve(old, new, outValue, value).info \in Infos
<1> DEFINE act == LinkAction(Ordinate(new), Ordinate(old))
           r == Resolve(old, new, outValue, value)
<1>1. /\ [Override(old, new) EXCEPT !.bind = old.bind] \in Infos
      /\ [OverrideVisibility(old, new) EXCEPT !.dyn = TRUE] \in Infos
  <2>1. Override(old, new) \in Infos /\ OverrideVisibility(old, new) \in Infos
    BY OverrideInfos
  <2> QED BY <2>1 DEF Infos
<1>2. /\ OverrideVisibility(OverrideAttributes(Larger(old, new), new), new) \in Infos
      /\ OverrideVisibility(Larger(old, new), new) \in Infos
  <2>1. Larger(old, new) \in Infos
    BY OverrideInfos
  <2>2. OverrideAttributes(Larger(old, new), new) \in Infos
    BY <2>1, OverrideInfos
  <2> QED BY <2>1, <2>2, OverrideInfos
<1>3. Override(old, new) \in Infos /\ OverrideVisibility(old, new) \in Infos
  BY OverrideInfos
<1> HIDE DEF act
<1>4. CASE act \in Overriding
  <2>1. r.info = Override(old, new)
    BY <1>4 DEF Resolve, Overriding, act
  <2> QED BY <1>3, <2>1
<1>5. CASE act \notin Overriding /\ act \in {"MDEFD", "MDEFWD"}
  <2>1. r.info = [Override(old, new) EXCEPT !.bind = old.bind]
    BY <1>5 DEF Resolve, Overriding, act
  <2> QED BY <1>1, <2>1
<1>6. CASE act \notin Overriding /\ act = "NOACT"
  <2>1. r.info = OverrideVisibility(old, new)
    BY <1>6 DEF Resolve, Overriding, act
  <2> QED BY <1>3, <2>1
<1>7. CASE act \notin Overriding /\ act \in {"DUND", "DUNDW"}
  <2>1. r.info = [OverrideVisibility(old, new) EXCEPT !.dyn = TRUE]
    BY <1>7 DEF Resolve, Overriding, act
  <2> QED BY <1>1, <2>1
<1>8. CASE act \notin Overriding /\ act = "CREF"
  <2>1. r.info = old
    BY <1>8 DEF Resolve, Overriding, act
  <2> QED BY <2>1
<1>9. CASE act \notin Overriding /\ act = "BIG"
  <2>1. r.info = OverrideVisibility(OverrideAttributes(Larger(old, new), new), new)
    BY <1>9 DEF Resolve, Overriding, act
  <2> QED BY <1>2, <2>1
<1>10. CASE act \notin Overriding /\ act = "MBIG"
  <2>1. r.info = OverrideVisibility(Larger(old, new), new)
    BY <1>10 DEF Resolve, Overriding, act
  <2> QED BY <1>2, <2>1
<1>11. CASE act \notin Overriding \cup {"MDEFD", "MDEFWD", "NOACT", "DUND", "DUNDW", "CREF", "BIG", "MBIG"}
  <2>1. r.info \in {Override(old, new), old}
    BY <1>11 DEF Resolve, Overriding, act
  <2> QED BY <1>3, <2>1
<1> QED BY <1>4, <1>5, <1>6, <1>7, <1>8, <1>9, <1>10, <1>11

-----------------------------------------------------------------------------
(* The operations of the table, as OutputSymbols uses them.                *)

\* Both instances of SymbolCategory say the same.
LEMMA SameOperators ==
  /\ \A T, x, c : SC!AddTo(T, x, c) = P!AddTo(T, x, c)
  /\ \A T, x, c, d : SC!Arrange(T, x, c, d) = P!Arrange(T, x, c, d)
  /\ \A T, c : SC!ChangeCommon(T, c) = P!ChangeCommon(T, c)
  /\ \A T, x : SC!InTable(T, x) <=> P!InTable(T, x)
  /\ \A T, p : SC!At(T, p) = P!At(T, p)
  /\ SC!Cats = P!Cats /\ SC!Local = P!Local /\ SC!LocalDyn = P!LocalDyn
  /\ SC!Common = P!Common /\ SC!Dynamic = P!Dynamic /\ SC!Regular = P!Regular
  /\ SC!File = P!File /\ SC!EmptyTable = P!EmptyTable
  /\ \A T, c : SC!RangeOf(T, c) = P!RangeOf(T, c)
<1>1. \A q, i, j : SC!Swap(q, i, j) = P!Swap(q, i, j)
  BY DEF SC!Swap, P!Swap
<1>2. \A T, c : SC!Shift(T, c) = P!Shift(T, c)
  BY <1>1 DEF SC!Shift, P!Shift
<1>3. \A T, c, t : SC!ShiftIf(T, c, t) = P!ShiftIf(T, c, t)
  BY <1>2 DEF SC!ShiftIf, P!ShiftIf
<1>4. \A T, x : SC!Push(T, x) = P!Push(T, x) /\ SC!Grow(T, x) = P!Grow(T, x)
  BY DEF SC!Push, P!Push, SC!Grow, P!Grow
<1>5. /\ SC!Cats = P!Cats /\ SC!Local = P!Local /\ SC!LocalDyn = P!LocalDyn
      /\ SC!Common = P!Common /\ SC!Dynamic = P!Dynamic /\ SC!Regular = P!Regular
      /\ SC!File = P!File
  BY DEF SC!File, SC!Local, SC!LocalDyn, SC!Common, SC!Dynamic, SC!Regular, SC!Cats,
         P!File, P!Local, P!LocalDyn, P!Common, P!Dynamic, P!Regular, P!Cats
<1>6. \A T, x, c : SC!AddTo(T, x, c) = P!AddTo(T, x, c)
  BY <1>3, <1>4, <1>5 DEF SC!AddTo, P!AddTo
<1>7. \A r, c : SC!Down(r, c) = P!Down(r, c) /\ SC!Up(r, c) = P!Up(r, c)
  BY <1>1 DEF SC!Down, P!Down, SC!Up, P!Up
<1>8. \A r, c, f, t : /\ SC!DownIf(r, c, f, t) = P!DownIf(r, c, f, t)
                      /\ SC!UpIf(r, c, f, t) = P!UpIf(r, c, f, t)
  BY <1>7 DEF SC!DownIf, P!DownIf, SC!UpIf, P!UpIf
<1>9. \A T, p, f, t : SC!Move(T, p, f, t) = P!Move(T, p, f, t)
  BY <1>5, <1>8 DEF SC!Move, P!Move
<1>10. \A T, p : SC!At(T, p) = P!At(T, p)
  BY DEF SC!At, P!At
<1>11. \A T, x : SC!Positions(T, x) = P!Positions(T, x)
  BY <1>10 DEF SC!Positions, P!Positions
<1>12. \A T, x : SC!InTable(T, x) <=> P!InTable(T, x)
  BY <1>11 DEF SC!InTable, P!InTable
<1>13. \A T, c : SC!RangeOf(T, c) = P!RangeOf(T, c)
  BY DEF SC!RangeOf, P!RangeOf
<1>14. \A T, x, c : SC!FindPos(T, x, c) = P!FindPos(T, x, c)
  BY <1>11, <1>13 DEF SC!FindPos, P!FindPos
<1>15. \A T, p : SC!CatAt(T, p) = P!CatAt(T, p)
  BY <1>5, <1>13 DEF SC!CatAt, P!CatAt
<1>16. \A T, x, c, d : SC!Arrange(T, x, c, d) = P!Arrange(T, x, c, d)
  BY <1>9, <1>14, <1>15 DEF SC!Arrange, P!Arrange
<1>17. \A T, c : SC!ChangeCommon(T, c) = P!ChangeCommon(T, c)
  BY <1>1, <1>5 DEF SC!ChangeCommon, P!ChangeCommon
<1>18. SC!EmptyTable = P!EmptyTable
  BY <1>5 DEF SC!EmptyTable, P!EmptyTable
<1> QED BY <1>5, <1>6, <1>10, <1>12, <1>13, <1>16, <1>17, <1>18

\* The numbers of the ranges.
LEMMA Ranges ==
  /\ SC!Cats = 0..5 /\ SC!File = 0 /\ SC!Local = 1 /\ SC!LocalDyn = 2
  /\ SC!Common = 3 /\ SC!Dynamic = 4 /\ SC!Regular = 5
  /\ SC!Categories = {0, 1, 3, 4, 5} /\ P!Cats = 0..5
BY DEF SC!File, SC!Local, SC!LocalDyn, SC!Common, SC!Dynamic, SC!Regular, SC!Cats,
       SC!Categories, P!Cats

\* A table whose ranges are exact for the history h.
Exact(T, h) == T \in P!Tables /\ h \in [Names -> SC!Cats] /\ P!InPlace(T, h)

\* SymbolCategory::add and forceLocal.
LEMMA AddExact ==
  ASSUME NEW T, NEW h, Exact(T, h), NEW x \in Names, ~SC!InTable(T, x),
         NEW c \in SC!Cats
  PROVE  /\ Exact(SC!AddTo(T, x, c), [h EXCEPT ![x] = c])
         /\ \A y : SC!InTable(SC!AddTo(T, x, c), y) <=> y = x \/ SC!InTable(T, y)
<1> DEFINE g == [h EXCEPT ![x] = c]
<1>1. /\ T \in P!Tables /\ h \in [Names -> P!Cats] /\ P!InPlace(T, h)
      /\ ~P!InTable(T, x) /\ c \in P!Cats
  BY SameOperators DEF Exact
<1>2. P!InPlace(T, g) /\ g[x] = c /\ g \in [Names -> P!Cats]
  BY <1>1, P!Elsewhere
<1> HIDE DEF g
<1>3. /\ P!AddTo(T, x, c) \in P!Tables /\ P!InPlace(P!AddTo(T, x, c), g)
      /\ P!Members(P!AddTo(T, x, c)) = P!Members(T) \cup {x}
  BY <1>1, <1>2, P!AddPlaces
<1>4. \A U, y : P!InTable(U, y) <=> y \in P!Members(U)
  BY P!MembersInTable
<1> QED BY <1>2, <1>3, <1>4, SameOperators DEF Exact, g

\* SymbolCategory::arrange and changeToDynamic.
LEMMA ArrangeExact ==
  ASSUME NEW T, NEW h, Exact(T, h), NEW x \in Names, SC!InTable(T, x),
         NEW source, NEW c \in SC!Cats, source # c
  PROVE  /\ Exact(SC!Arrange(T, x, source, c), [h EXCEPT ![x] = c])
         /\ \A y : SC!InTable(SC!Arrange(T, x, source, c), y) <=> SC!InTable(T, y)
<1>1. /\ T \in P!Tables /\ h \in [Names -> P!Cats] /\ P!InPlace(T, h)
      /\ P!InTable(T, x) /\ c \in P!Cats
  BY SameOperators DEF Exact
<1>2. [h EXCEPT ![x] = c] \in [Names -> P!Cats]
  BY <1>1
<1>3. P!Arrange(T, x, source, c) \in P!Tables
  BY <1>1, P!ArrangePlaces, Zenon
<1>4. P!InPlace(P!Arrange(T, x, source, c), [h EXCEPT ![x] = c])
  BY <1>1, P!ArrangePlaces, Zenon
<1>5. ASSUME NEW y
      PROVE  P!InTable(P!Arrange(T, x, source, c), y) <=> P!InTable(T, y)
  BY <1>1, P!ArrangePlaces, Zenon
<1> QED BY <1>2, <1>3, <1>4, <1>5, SameOperators DEF Exact

\* One iteration of changeCommonsToGlobal.
LEMMA ChangeCommonExact ==
  ASSUME NEW T, NEW h, Exact(T, h), NEW c \in {SC!Dynamic, SC!Regular},
         T.begin[SC!Common] # T.end[SC!Common],
         NEW x, x = SC!At(T, T.end[SC!Common] - 1)
  PROVE  /\ x \in Names
         /\ Exact(SC!ChangeCommon(T, c), [h EXCEPT ![x] = c])
         /\ \A y : SC!InTable(SC!ChangeCommon(T, c), y) <=> SC!InTable(T, y)
<1>1. /\ T \in P!Tables /\ h \in [Names -> P!Cats] /\ P!InPlace(T, h)
      /\ c \in {P!Dynamic, P!Regular} /\ T.begin[P!Common] # T.end[P!Common]
      /\ x = P!At(T, T.end[P!Common] - 1)
  BY SameOperators DEF Exact
<1>2. /\ x \in Names
      /\ P!ChangeCommon(T, c) \in P!Tables
      /\ P!InPlace(P!ChangeCommon(T, c), [h EXCEPT ![x] = c])
      /\ P!Members(P!ChangeCommon(T, c)) = P!Members(T)
  BY <1>1, P!ChangeCommonPlaces
<1>3. \A U, y : P!InTable(U, y) <=> y \in P!Members(U)
  BY P!MembersInTable
<1>4. [h EXCEPT ![x] = c] \in [Names -> P!Cats]
  BY <1>1, <1>2, Ranges, SameOperators
<1> QED BY <1>2, <1>3, <1>4, SameOperators DEF Exact

-----------------------------------------------------------------------------
(* What the passes keep.                                                   *)

EntriesInv ==
  /\ cfg \in Configs
  /\ info \in [Names -> Infos \cup {NoInfo}]
  /\ frag \in [Names -> Frags]
  /\ \A n \in Names : info[n] = NoInfo => frag[n] = "None"

\* Only output symbols are in the table, each in the range it was put into.
TableInv ==
  /\ Exact(table, home)
  /\ \A n \in Names : InTable(n) => frag[n] # "None"

\* What a pass has not handled yet is as the pass expects it.
TodoInv ==
  /\ stage = "adding" => todo \subseteq Names /\ \A n \in todo : ~InTable(n)
  /\ stage = "standard" => todo \subseteq DOMAIN cfg.standard
  /\ stage = "script" => todo \subseteq DOMAIN cfg.script
  /\ stage \in {"adding", "changing", "standard", "script", "scanning"} =>
       \A n \in SectionSyms : frag[n] = "None"
  /\ stage = "prelayout" => todo \subseteq SectionSyms /\ \A n \in todo : frag[n] = "None"
  /\ stage = "relaxing" => todo \subseteq Branches

\* The output symbols are those of the inputs until the linker defines its own.
FromInput(n) ==
  frag[n] # "None" =>
    \E i \in Inputs : /\ i.info # NoInfo /\ i.frag # "None"
                      /\ info[n] \in Allocated(i)

InputsInv ==
  /\ stage \in {"adding", "changing"} => \A n \in Names : FromInput(n)
  /\ stage = "standard" => \A n \in todo : FromInput(n)

SizesInv == sizes \in [symtab : Nat, shInfo : Nat, dynsym : Nat]

OutInv ==
  EntriesInv /\ TableInv /\ TodoInv /\ InputsInv /\ SizesInv

LEMMA CategoryType ==
  ASSUME NEW n, NEW i
  PROVE  Category(n, i) \in SC!Categories
BY Ranges DEF Category

LEMMA NoInfoIsNone == NoInfo \notin Infos
BY DEF NoInfo, Infos, Descs

\* The categories after an entry has been replaced.
LEMMA CategoriesAfter ==
  ASSUME info \in [Names -> Infos \cup {NoInfo}], NEW n \in Names, NEW i \in Infos,
         info' = [info EXCEPT ![n] = i]
  PROVE  [m \in Names |-> CategoryOf(m)]'
           = [[m \in Names |-> CategoryOf(m)] EXCEPT ![n] = Category(n, i)]
BY NoInfoIsNone DEF CategoryOf

\* A symbol that gets its place is added to the table of SymbolCategory.
LEMMA AddSymbolStep ==
  ASSUME EntriesInv, TableInv, NEW n \in Names, NEW i \in Infos,
         ~InTable(n), stage # "changing", stage' = stage,
         info' = [info EXCEPT ![n] = i], AddSymbol(n, i)
  PROVE  /\ [SC!Next]_SC!vars
         /\ Exact(table, home)'
         /\ \A y \in Names : InTable(y)' <=> y = n \/ InTable(y)
<1> DEFINE c == Category(n, i)
<1>1. c \in SC!Categories /\ c \in SC!Cats
  BY CategoryType, Ranges
<1>2. [m \in Names |-> CategoryOf(m)]' = [[m \in Names |-> CategoryOf(m)] EXCEPT ![n] = c]
  BY CategoriesAfter DEF EntriesInv
<1>3. table' = SC!AddTo(table, n, c) /\ home' = [home EXCEPT ![n] = c]
  BY DEF AddSymbol
<1>4. ~SC!InTable(table, n)
  BY DEF InTable
<1> HIDE DEF c
<1>5. SC!Add(n, c)
  BY <1>2, <1>3, <1>4 DEF SC!Add
<1>6. /\ Exact(SC!AddTo(table, n, c), [home EXCEPT ![n] = c])
      /\ \A y : SC!InTable(SC!AddTo(table, n, c), y) <=> y = n \/ SC!InTable(table, y)
  BY <1>1, <1>4, AddExact DEF TableInv
<1>7. \A y : SC!InTable(table', y) <=> y = n \/ SC!InTable(table, y)
  BY <1>3, <1>6
<1>8. Exact(table', home')
  BY <1>3, <1>6
<1> QED BY <1>1, <1>5, <1>7, <1>8 DEF SC!Next, InTable

LEMMA ForceLocalStep ==
  ASSUME EntriesInv, TableInv, NEW n \in Names, NEW i \in Infos,
         ~InTable(n), stage # "changing", stage' = stage,
         info' = [info EXCEPT ![n] = i], ForceLocal(n)
  PROVE  /\ [SC!Next]_SC!vars
         /\ Exact(table, home)'
         /\ \A y \in Names : InTable(y)' <=> y = n \/ InTable(y)
<1> DEFINE c == Category(n, i)
<1>1. c \in SC!Categories /\ SC!Local \in SC!Cats
  BY CategoryType, Ranges
<1>2. [m \in Names |-> CategoryOf(m)]' = [[m \in Names |-> CategoryOf(m)] EXCEPT ![n] = c]
  BY CategoriesAfter DEF EntriesInv
<1>3. table' = SC!AddTo(table, n, SC!Local) /\ home' = [home EXCEPT ![n] = SC!Local]
  BY DEF ForceLocal
<1>4. ~SC!InTable(table, n)
  BY DEF InTable
<1> HIDE DEF c
<1>5. SC!ForceLocal(n, c)
  BY <1>2, <1>3, <1>4 DEF SC!ForceLocal
<1>6. /\ Exact(SC!AddTo(table, n, SC!Local), [home EXCEPT ![n] = SC!Local])
      /\ \A y : SC!InTable(SC!AddTo(table, n, SC!Local), y) <=> y = n \/ SC!InTable(table, y)
  BY <1>1, <1>4, AddExact DEF TableInv
<1>7. \A y : SC!InTable(table', y) <=> y = n \/ SC!InTable(table, y)
  BY <1>3, <1>6
<1>8. Exact(table', home')
  BY <1>3, <1>6
<1> QED BY <1>1, <1>5, <1>7, <1>8 DEF SC!Next, InTable

\* A symbol whose entry has been overridden goes to the range of its category,
\* or stays where it is.
LEMMA ArrangeStep ==
  ASSUME EntriesInv, TableInv, NEW n \in Names, NEW i \in Infos,
         stage # "changing", stage' = stage,
         info' = [info EXCEPT ![n] = i], Arrange(n, i)
  PROVE  /\ [SC!Next]_SC!vars
         /\ Exact(table, home)'
         /\ \A y \in Names : InTable(y)' <=> InTable(y)
<1> DEFINE c == Category(n, i)
           K == [m \in Names |-> CategoryOf(m)]
<1>1. c \in SC!Categories /\ c \in SC!Cats
  BY CategoryType, Ranges
<1>2. K' = [K EXCEPT ![n] = c] /\ K[n] = CategoryOf(n)
  BY CategoriesAfter DEF EntriesInv
<1>3. /\ CategoryOf(n) # c => SC!InTable(table, n)
      /\ table' = SC!Arrange(table, n, CategoryOf(n), c)
      /\ home' = IF CategoryOf(n) = c THEN home ELSE [home EXCEPT ![n] = c]
  BY DEF Arrange, InTable
<1>4. CASE CategoryOf(n) = c
  <2>1. table' = table /\ home' = home
    BY <1>3, <1>4 DEF SC!Arrange
  <2>2. K' = K
    BY <1>2, <1>4
  <2>3. UNCHANGED SC!vars
    BY <2>1, <2>2 DEF SC!vars
  <2> QED BY <2>1, <2>3 DEF TableInv, InTable, Exact
<1>5. CASE CategoryOf(n) # c
  <2> HIDE DEF c
  <2>1. SC!ArrangeSymbol(n, c)
    BY <1>2, <1>3, <1>5 DEF SC!ArrangeSymbol
  <2>2. /\ Exact(SC!Arrange(table, n, CategoryOf(n), c), [home EXCEPT ![n] = c])
        /\ \A y : SC!InTable(SC!Arrange(table, n, CategoryOf(n), c), y) <=> SC!InTable(table, y)
    BY <1>1, <1>3, <1>5, ArrangeExact DEF TableInv
  <2>3. \A y : SC!InTable(table', y) <=> SC!InTable(table, y)
    BY <1>3, <2>2
  <2>4. Exact(table', home')
    BY <1>3, <1>5, <2>2
  <2> QED BY <1>1, <2>1, <2>3, <2>4 DEF SC!Next, InTable
<1> QED BY <1>4, <1>5

\* A step that only goes on to other work leaves the table alone.
LEMMA StillStep ==
  ASSUME OutInv, UNCHANGED <<cfg, info, frag, table, home>>,
         stage = "changing" <=> stage' = "changing",
         TodoInv', InputsInv', SizesInv'
  PROVE  OutInv' /\ UNCHANGED SC!vars
<1>1. [n \in Names |-> CategoryOf(n)]' = [n \in Names |-> CategoryOf(n)]
  BY DEF CategoryOf
<1>2. UNCHANGED SC!vars
  BY <1>1 DEF SC!vars
<1>3. EntriesInv'
  BY DEF OutInv, EntriesInv
<1>4. TableInv'
  BY DEF OutInv, TableInv, Exact, InTable
<1> QED BY <1>2, <1>3, <1>4 DEF OutInv

\* A pass that has been through the table defines symbol n anew.
LEMMA PlacedStep ==
  ASSUME OutInv, NEW n \in Names, NEW i \in Infos, NEW f \in Frags \ {"None"},
         stage \in {"standard", "script", "prelayout", "relaxing"},
         n \in SectionSyms => stage = "prelayout",
         UNCHANGED <<cfg, stage>>, todo' = todo \ {n} \/ stage = "relaxing",
         todo' \subseteq todo, SizesInv',
         info' = [info EXCEPT ![n] = i], frag' = [frag EXCEPT ![n] = f],
         \/ frag[n] = "None" /\ (AddSymbol(n, i) \/ ForceLocal(n))
         \/ Arrange(n, i)
  PROVE  OutInv' /\ [SC!Next]_SC!vars
<1>1. EntriesInv /\ TableInv /\ TodoInv /\ InputsInv
  BY DEF OutInv
<1>2. frag[n] = "None" => ~InTable(n)
  BY <1>1 DEF TableInv
<1>3. /\ [SC!Next]_SC!vars /\ Exact(table, home)'
      /\ \A y \in Names : InTable(y)' => y = n \/ InTable(y)
  <2>1. CASE frag[n] = "None" /\ AddSymbol(n, i)
    BY <1>1, <1>2, <2>1, AddSymbolStep
  <2>2. CASE frag[n] = "None" /\ ForceLocal(n)
    BY <1>1, <1>2, <2>2, ForceLocalStep
  <2>3. CASE Arrange(n, i)
    BY <1>1, <2>3, ArrangeStep
  <2> QED BY <2>1, <2>2, <2>3
<1>4. /\ info' \in [Names -> Infos \cup {NoInfo}] /\ frag' \in [Names -> Frags]
      /\ info'[n] = i /\ frag'[n] = f
      /\ \A y \in Names : y # n => info'[y] = info[y] /\ frag'[y] = frag[y]
  BY <1>1 DEF EntriesInv
<1>5. EntriesInv'
  BY <1>1, <1>4, NoInfoIsNone DEF EntriesInv
<1>6. TableInv'
  BY <1>1, <1>3, <1>4 DEF TableInv
<1>7. TodoInv'
  <2>1. \A y \in SectionSyms : y \in Names
    BY DEF Names
  <2>2. stage = "prelayout" => \A y \in todo' : y \in Names /\ y # n /\ y \in todo
    BY <1>1, <2>1 DEF TodoInv
  <2> QED BY <1>1, <1>4, <2>1, <2>2 DEF TodoInv
<1>8. InputsInv'
  <2>1. CASE stage = "standard"
    <3>1. todo \subseteq Names
      BY <1>1, <2>1 DEF TodoInv, EntriesInv, Names, LinkerNames
    <3>2. ASSUME NEW y \in todo'
          PROVE  info'[y] = info[y] /\ frag'[y] = frag[y] /\ y \in todo
      BY <1>4, <2>1, <3>1, <3>2
    <3> QED BY <1>1, <2>1, <3>2 DEF InputsInv, FromInput
  <2>2. CASE stage # "standard"
    BY <2>2 DEF InputsInv
  <2> QED BY <2>1, <2>2
<1> QED BY <1>3, <1>5, <1>6, <1>7, <1>8 DEF OutInv

LEMMA InitOut == Init => OutInv /\ SC!Init
<1> SUFFICES ASSUME Init PROVE OutInv /\ SC!Init
  OBVIOUS
<1>1. PICK inputs \in [InputNames -> Inputs] :
        /\ info = [n \in Names |-> IF n \in InputNames THEN inputs[n].info ELSE NoInfo]
        /\ frag = [n \in Names |-> IF n \in InputNames THEN inputs[n].frag ELSE "None"]
  BY DEF Init
<1>2. /\ cfg \in Configs /\ stage = "adding" /\ todo = InputNames
      /\ table = SC!EmptyTable /\ home = [n \in Names |-> CategoryOf(n)]
      /\ sizes = [symtab |-> 0, shInfo |-> 0, dynsym |-> 0]
  BY DEF Init
<1>3. [n \in Names |-> CategoryOf(n)] \in [Names -> SC!Categories]
  <2>1. \A n \in Names : CategoryOf(n) \in SC!Categories
    BY CategoryType, Ranges DEF CategoryOf
  <2> QED BY <2>1
<1>4. SC!Init
  BY <1>2, <1>3 DEF SC!Init
<1>5. EntriesInv
  <2>1. \A n \in InputNames : /\ inputs[n].info \in Infos \cup {NoInfo}
                              /\ inputs[n].frag \in Frags
                              /\ inputs[n].info = NoInfo => inputs[n].frag = "None"
    BY <1>1, OutputAssumption
  <2>2. "None" \in Frags
    BY DEF Frags
  <2> QED BY <1>1, <1>2, <2>1, <2>2 DEF EntriesInv
<1>6. /\ \A x : ~SC!InTable(table, x)
      /\ table \in P!Tables /\ P!InPlace(table, home)
  <2>1. /\ table.syms = <<>> /\ Len(table.syms) = 0
        /\ \A c \in P!Cats : table.begin[c] = 0 /\ table.end[c] = 0
        /\ table \in P!Tables
    BY <1>2, Ranges DEF SC!EmptyTable, P!Tables
  <2>2. P!Chained(table, -1)
    <3>1. P!File \in P!Cats /\ P!Regular \in P!Cats /\ P!Regular # -1 /\ \A c \in P!Cats : c # -1
      BY Ranges DEF P!File, P!Regular
    <3>2. 0 \in Int /\ 0 =< 0 /\ 0 + 0 = 0
      OBVIOUS
    <3> QED BY <2>1, <3>1, <3>2 DEF P!Chained
  <2>3. 0 .. (Len(table.syms) - 1) = {}
    BY <2>1
  <2>4. \A c \in P!Cats : P!RangeOf(table, c) = {}
    BY <2>1 DEF P!RangeOf
  <2>5. \A x : ~SC!InTable(table, x)
    BY <2>3 DEF SC!InTable, SC!Positions
  <2> QED BY <2>1, <2>2, <2>3, <2>4, <2>5 DEF P!InPlace, P!Distinct
<1>7. TableInv
  <2>1. home \in [Names -> SC!Cats]
    BY <1>2, <1>3, Ranges
  <2> QED BY <1>6, <2>1 DEF TableInv, Exact, InTable
<1>8. TodoInv
  <2>1. \A n \in SectionSyms : n \in Names /\ n \notin InputNames
    BY <1>2, OutputAssumption DEF Names
  <2> QED BY <1>1, <1>2, <1>6, <2>1 DEF TodoInv, InTable, Names
<1>9. InputsInv
  <2>1. \A i : i.info \in Allocated(i)
    BY DEF Allocated
  <2> QED BY <1>1, <1>2, <1>5, <2>1 DEF InputsInv, FromInput, EntriesInv
<1>10. SizesInv
  BY <1>2 DEF SizesInv
<1> QED BY <1>4, <1>5, <1>7, <1>8, <1>9, <1>10 DEF OutInv

-----------------------------------------------------------------------------
(* The passes, one by one.                                                 *)

LEMMA OverriddenType ==
  ASSUME EntriesInv, NEW n \in Names, info[n] # NoInfo, NEW new \in Infos
  PROVE  Overridden(n, new) \in Infos
BY DEF EntriesInv, Overridden, Infos

LEMMA AddSymbolToOutputOut ==
  ASSUME OutInv, NEW n \in Names, AddSymbolToOutput(n)
  PROVE  OutInv' /\ [SC!Next]_SC!vars
<1>1. EntriesInv /\ TableInv /\ TodoInv /\ InputsInv /\ SizesInv
  BY DEF OutInv
<1>2. /\ stage = "adding" /\ n \in todo /\ todo' = todo \ {n} /\ stage' = stage /\ cfg' = cfg
      /\ UNCHANGED <<info, frag, sizes>>
  BY DEF AddSymbolToOutput, Handle
<1>3. ~InTable(n) /\ todo \subseteq Names
  BY <1>1, <1>2 DEF TodoInv
<1>4. CASE frag[n] \in {"None", "dropped"}
  <2>1. UNCHANGED <<table, home>>
    BY <1>4 DEF AddSymbolToOutput
  <2>2. TodoInv'
    BY <1>1, <1>2, <2>1 DEF TodoInv, InTable
  <2>3. InputsInv'
    BY <1>1, <1>2 DEF InputsInv, FromInput
  <2> QED BY <1>1, <1>2, <2>1, <2>2, <2>3, StillStep DEF SizesInv
<1>5. CASE frag[n] \notin {"None", "dropped"}
  <2>1. info[n] \in Infos
    BY <1>1, <1>5 DEF EntriesInv
  <2>2. info' = [info EXCEPT ![n] = info[n]]
    BY <1>1, <1>2 DEF EntriesInv
  <2>3. AddSymbol(n, info[n]) \/ ForceLocal(n)
    BY <1>5 DEF AddSymbolToOutput
  <2>4. /\ [SC!Next]_SC!vars /\ Exact(table, home)'
        /\ \A y \in Names : InTable(y)' <=> y = n \/ InTable(y)
    <3>1. CASE AddSymbol(n, info[n])
      BY <1>1, <1>2, <1>3, <2>1, <2>2, <3>1, AddSymbolStep
    <3>2. CASE ForceLocal(n)
      BY <1>1, <1>2, <1>3, <2>1, <2>2, <3>2, ForceLocalStep
    <3> QED BY <2>3, <3>1, <3>2
  <2>5. EntriesInv'
    BY <1>1, <1>2 DEF EntriesInv
  <2>6. TableInv'
    BY <1>1, <1>2, <1>5, <2>4 DEF TableInv
  <2>7. TodoInv'
    BY <1>1, <1>2, <1>3, <2>4 DEF TodoInv
  <2>8. InputsInv'
    BY <1>1, <1>2 DEF InputsInv, FromInput
  <2> QED BY <1>1, <1>2, <2>4, <2>5, <2>6, <2>7, <2>8 DEF OutInv, SizesInv
<1> QED BY <1>4, <1>5

LEMMA AllocateOut ==
  ASSUME OutInv, AllocateCommonSymbols
  PROVE  OutInv' /\ SC!AllocateCommonSymbols
<1> DEFINE commons == {n \in Names : /\ info[n] # NoInfo /\ info[n].desc = "Common"
                                     /\ InTable(n)
                                     /\ home[n] \in {SC!Local, SC!Common}}
           K == [n \in Names |-> CategoryOf(n)]
           new == [n \in Names |-> IF info[n] # NoInfo /\ info[n].vis \in {Default, Protected}
                                   THEN 4 ELSE 5]
<1>1. EntriesInv /\ TableInv /\ TodoInv /\ InputsInv /\ SizesInv
  BY DEF OutInv
<1>2. /\ stage = "adding" /\ stage' = "changing" /\ cfg' = cfg /\ todo' = {}
      /\ UNCHANGED <<table, home, sizes>>
      /\ info' = [n \in Names |-> IF n \in commons
                                  THEN [info[n] EXCEPT !.desc = "Define"] ELSE info[n]]
      /\ frag' = [n \in Names |-> IF n \in commons THEN "kept" ELSE frag[n]]
  BY DEF AllocateCommonSymbols, Enter
<1>3. ASSUME NEW n \in commons
      PROVE  /\ n \in Names /\ info[n] \in Infos /\ info[n].desc = "Common"
             /\ info'[n] = [info[n] EXCEPT !.desc = "Define"]
             /\ info'[n] \in Infos /\ info'[n].desc = "Define"
             /\ info'[n].bind = info[n].bind /\ info'[n].vis = info[n].vis
             /\ frag'[n] = "kept" /\ frag[n] # "None" /\ InTable(n)
  <2>1. n \in Names /\ info[n] \in Infos /\ info[n].desc = "Common" /\ InTable(n)
    BY <1>1, <1>3 DEF EntriesInv
  <2>2. info'[n] = [info[n] EXCEPT !.desc = "Define"] /\ frag'[n] = "kept"
    BY <1>2, <1>3
  <2>3. /\ info'[n] \in Infos /\ info'[n].desc = "Define"
        /\ info'[n].bind = info[n].bind /\ info'[n].vis = info[n].vis
    BY <2>1, <2>2 DEF Infos, Descs
  <2> QED BY <1>1, <2>1, <2>2, <2>3 DEF TableInv
<1>4. \A n \in Names \ commons : info'[n] = info[n] /\ frag'[n] = frag[n]
  BY <1>2
<1>5. EntriesInv'
  <2>1. \A n \in Names : /\ info'[n] \in Infos \cup {NoInfo} /\ frag'[n] \in Frags
                         /\ info'[n] = NoInfo => frag'[n] = "None"
    <3>1. ASSUME NEW n \in commons
          PROVE  /\ info'[n] \in Infos \cup {NoInfo} /\ frag'[n] \in Frags
                 /\ info'[n] # NoInfo
      BY <1>3, <3>1, NoInfoIsNone DEF Frags
    <3> QED BY <1>1, <1>4, <3>1 DEF EntriesInv
  <2> QED BY <1>1, <1>2, <2>1 DEF EntriesInv
<1>6. TableInv'
  <2>1. \A n \in Names : InTable(n)' => frag'[n] # "None"
    BY <1>1, <1>2, <1>3, <1>4 DEF TableInv, InTable
  <2> QED BY <1>1, <1>2, <2>1 DEF TableInv, Exact
<1>7. TodoInv'
  <2>1. ASSUME NEW n \in SectionSyms
        PROVE  frag'[n] = "None"
    <3>1. n \in Names /\ frag[n] = "None"
      BY <1>1, <1>2, <2>1 DEF TodoInv, Names
    <3> QED BY <1>3, <1>4, <3>1
  <2> QED BY <1>2, <2>1 DEF TodoInv
<1>8. InputsInv'
  <2>1. ASSUME NEW n \in Names, frag'[n] # "None"
        PROVE  \E i \in Inputs : /\ i.info # NoInfo /\ i.frag # "None"
                                 /\ info'[n] \in Allocated(i)
    <3>1. frag[n] # "None"
      BY <1>3, <1>4, <2>1
    <3>2. PICK i \in Inputs : i.info # NoInfo /\ i.frag # "None" /\ info[n] \in Allocated(i)
      BY <1>1, <1>2, <2>1, <3>1 DEF InputsInv, FromInput
    <3>3. CASE n \in commons
      <4>1. info[n] = i.info
        <5>1. info[n].desc = "Common"
          BY <1>3, <3>3
        <5>2. i.info \in Infos
          BY <3>2, OutputAssumption
        <5>3. [i.info EXCEPT !.desc = "Define"].desc = "Define"
          BY <5>2 DEF Infos
        <5> QED BY <3>2, <5>1, <5>3 DEF Allocated
      <4> QED BY ZenonT(60), <1>3, <3>2, <3>3, <4>1 DEF Allocated
    <3>4. CASE n \notin commons
      BY <1>4, <3>2, <3>4
    <3> QED BY <3>3, <3>4
  <2> QED BY <1>2, <2>1 DEF InputsInv, FromInput
<1>9. new \in [Names -> {SC!Dynamic, SC!Regular}]
  BY Ranges
<1>10. K' = [x \in Names |-> IF K[x] = SC!Common /\ SC!InTable(table, x)
                                /\ home[x] \in {SC!Local, SC!Common}
                             THEN new[x] ELSE K[x]]
  <2>1. ASSUME NEW x \in Names
        PROVE  CategoryOf(x)' = IF CategoryOf(x) = 3 /\ InTable(x)
                                   /\ home[x] \in {SC!Local, SC!Common}
                                THEN new[x] ELSE CategoryOf(x)
    <3>1. CASE x \in commons
      <4>1. info'[x] # NoInfo /\ info[x] # NoInfo
        BY <1>3, <3>1, NoInfoIsNone
      <4>2. CategoryOf(x)' = Category(x, info'[x]) /\ CategoryOf(x) = Category(x, info[x])
        BY <4>1 DEF CategoryOf
      <4>3. CASE x \notin Files /\ info[x].bind # "Local"
        <5>1. Category(x, info[x]) = 3
          BY <1>3, <3>1, <4>3 DEF Category
        <5>2. Category(x, info'[x]) = new[x]
          BY <1>3, <3>1, <4>1, <4>3 DEF Category
        <5> QED BY <3>1, <4>2, <5>1, <5>2
      <4>4. CASE ~(x \notin Files /\ info[x].bind # "Local")
        <5>1. Category(x, info[x]) \in {0, 1} /\ Category(x, info'[x]) = Category(x, info[x])
          BY <1>3, <3>1, <4>4 DEF Category
        <5> QED BY <4>2, <5>1
      <4> QED BY <4>3, <4>4
    <3>2. CASE x \notin commons
      <4>1. CategoryOf(x)' = CategoryOf(x)
        BY <1>4, <3>2 DEF CategoryOf
      <4>2. CategoryOf(x) = 3 => info[x] # NoInfo /\ info[x].desc = "Common"
        BY DEF CategoryOf, Category
      <4> QED BY <3>2, <4>1, <4>2
    <3> QED BY <3>1, <3>2
  <2> HIDE DEF new
  <2> QED BY <2>1, Ranges DEF InTable
<1>11. SC!AllocateCommonSymbols
  <2> HIDE DEF new
  <2> QED BY <1>2, <1>9, <1>10 DEF SC!AllocateCommonSymbols
<1> QED BY <1>1, <1>2, <1>5, <1>6, <1>7, <1>8, <1>11 DEF OutInv, SizesInv

LEMMA ChangeCommonOut ==
  ASSUME OutInv, ChangeCommonToGlobal
  PROVE  OutInv' /\ SC!ChangeCommonToGlobal
<1> DEFINE x == SC!At(table, table.end[SC!Common] - 1)
           K == [n \in Names |-> CategoryOf(n)]
<1>1. EntriesInv /\ TableInv /\ TodoInv /\ InputsInv /\ SizesInv
  BY DEF OutInv
<1>2. UNCHANGED <<cfg, info, frag, stage, todo, sizes>> /\ SC!ChangeCommonToGlobal
  BY DEF ChangeCommonToGlobal
<1>3. /\ stage = "changing" /\ table.begin[SC!Common] # table.end[SC!Common]
      /\ K[x] \in {SC!Dynamic, SC!Regular}
      /\ table' = SC!ChangeCommon(table, K[x]) /\ home' = [home EXCEPT ![x] = K[x]]
  BY <1>2 DEF SC!ChangeCommonToGlobal
<1> HIDE DEF K
<1>4. /\ Exact(SC!ChangeCommon(table, K[x]), [home EXCEPT ![x] = K[x]])
      /\ \A y : SC!InTable(SC!ChangeCommon(table, K[x]), y) <=> SC!InTable(table, y)
  BY <1>1, <1>3, ChangeCommonExact DEF TableInv
<1>5. Exact(table', home') /\ \A y : SC!InTable(table', y) <=> SC!InTable(table, y)
  BY <1>3, <1>4
<1>6. TableInv'
  BY <1>1, <1>2, <1>5 DEF TableInv, InTable
<1>7. EntriesInv' /\ TodoInv' /\ InputsInv' /\ SizesInv'
  BY <1>1, <1>2, <1>3 DEF EntriesInv, TodoInv, InputsInv, FromInput, SizesInv
<1> QED BY <1>2, <1>6, <1>7 DEF OutInv

LEMMA CommonsChangedOut ==
  ASSUME OutInv, CommonsChanged
  PROVE  OutInv' /\ SC!CommonsChanged
<1>1. EntriesInv /\ TableInv /\ TodoInv /\ InputsInv /\ SizesInv
  BY DEF OutInv
<1>2. /\ stage = "changing" /\ stage' = "standard" /\ todo' \subseteq DOMAIN cfg.standard
      /\ UNCHANGED <<cfg, info, frag, table, home, sizes>>
      /\ table.begin[SC!Common] = table.end[SC!Common]
  BY DEF CommonsChanged, Enter
<1>3. [n \in Names |-> CategoryOf(n)]' = [n \in Names |-> CategoryOf(n)]
  BY <1>2 DEF CategoryOf
<1>4. SC!CommonsChanged
  BY <1>2, <1>3 DEF SC!CommonsChanged
<1>5. todo' \subseteq Names
  BY <1>1, <1>2 DEF EntriesInv, Names, LinkerNames
<1>6. EntriesInv' /\ TodoInv' /\ InputsInv' /\ SizesInv'
  BY <1>1, <1>2, <1>5 DEF EntriesInv, TodoInv, InputsInv, FromInput, SizesInv
<1>7. TableInv'
  BY <1>1, <1>2 DEF TableInv, Exact, InTable
<1> QED BY <1>4, <1>6, <1>7 DEF OutInv

LEMMA DefineStandardOut ==
  ASSUME StandardStaysVisible, OutInv, NEW n \in Names, DefineStandard(n)
  PROVE  OutInv' /\ [SC!Next]_SC!vars
<1> DEFINE new == cfg.standard[n]
           r == Resolve(info[n], new, 0, 0)
<1>1. EntriesInv /\ TableInv /\ TodoInv /\ InputsInv /\ SizesInv
  BY DEF OutInv
<1>2. /\ stage = "standard" /\ n \in todo /\ todo' = todo \ {n}
      /\ UNCHANGED <<cfg, stage, sizes>> /\ AsReferredResolve(n, new)
  BY DEF DefineStandard, Handle
<1>3. n \in DOMAIN cfg.standard /\ new \in Infos /\ n \notin SectionSyms
  <2>1. n \in DOMAIN cfg.standard /\ cfg \in Configs
    BY <1>1, <1>2 DEF TodoInv, EntriesInv
  <2> QED BY <2>1, OutputAssumption DEF LinkerNames
<1>4. CASE ~Referred(n)
  <2>1. UNCHANGED <<info, frag, table, home>>
    BY <1>2, <1>4 DEF AsReferredResolve
  <2>2. TodoInv' /\ InputsInv' /\ SizesInv'
    BY <1>1, <1>2, <2>1 DEF TodoInv, InputsInv, FromInput, SizesInv
  <2> QED BY <1>2, <2>1, <2>2, StillStep
<1>5. CASE Referred(n)
  <2>1. /\ info[n] # NoInfo /\ info[n] \in Infos
        /\ info[n].desc = "Undefined" \/ info[n].dyn
    BY <1>1, <1>5 DEF EntriesInv, Referred
  <2>2. r.info \in Infos
    BY <1>3, <2>1, ResolveInfos
  <2>3. /\ info' = [info EXCEPT ![n] = r.info]
        /\ frag' = [frag EXCEPT ![n] = IF r.overriden \/ @ = "None" THEN "linker" ELSE @]
        /\ IF ShouldForceLocal(r.info) THEN ForceLocal(n)
           ELSE IF frag[n] # "None" THEN Arrange(n, r.info)
           ELSE AddSymbol(n, r.info)
    BY <1>2, <1>5 DEF AsReferredResolve, ForceResolve
  <2> HIDE DEF r
  <2>4. PICK f \in Frags \ {"None"} : frag' = [frag EXCEPT ![n] = f]
    <3>1. frag[n] \in Frags /\ "linker" \in Frags \ {"None"}
      BY <1>1 DEF EntriesInv, Frags
    <3> QED BY <2>3, <3>1
  <2>5. ASSUME ShouldForceLocal(r.info), frag[n] # "None"
        PROVE  FALSE
    <3>1. PICK i \in Inputs : i.info # NoInfo /\ i.frag # "None" /\ info[n] \in Allocated(i)
      BY <1>1, <1>2, <2>5 DEF InputsInv, FromInput
    <3>2. cfg \in Configs
      BY <1>1 DEF EntriesInv
    <3>3. ~ (/\ r.info.vis \in {Hidden, Internal}
             /\ r.info.bind \in {"Global", "Weak"}
             /\ r.info.desc \in {"Define", "Common"})
      BY <1>3, <2>1, <3>1, <3>2 DEF StandardStaysVisible, r
    <3> QED BY <2>5, <3>3 DEF ShouldForceLocal
  <2>6. \/ frag[n] = "None" /\ (AddSymbol(n, r.info) \/ ForceLocal(n))
        \/ Arrange(n, r.info)
    BY <2>3, <2>5
  <2>7. SizesInv'
    BY <1>1, <1>2 DEF SizesInv
  <2> QED BY <1>2, <1>3, <2>2, <2>3, <2>4, <2>6, <2>7, PlacedStep
<1> QED BY <1>4, <1>5

LEMMA AssignedInfoType ==
  ASSUME EntriesInv, NEW n \in Names
  PROVE  /\ AssignedInfo(n) \in Infos /\ AssignedInfo(n).bind = "Absolute"
         /\ AssignedInfo(n).desc = "Define" /\ ~AssignedInfo(n).dyn
         /\ ~ShouldForceLocal(AssignedInfo(n))
<1>1. info[n] # NoInfo => info[n].vis \in 0..3 /\ info[n].size \in Nat
  BY DEF EntriesInv, Infos
<1>2. /\ (IF info[n] = NoInfo THEN Default ELSE info[n].vis) \in 0..3
      /\ (IF info[n] = NoInfo THEN 0 ELSE info[n].size) \in Nat
  BY <1>1 DEF Default
<1>3. Hidden \in 0..3
  BY DEF Hidden
<1> QED BY <1>2, <1>3 DEF AssignedInfo, Infos, Descs, Bindings, ShouldForceLocal

LEMMA AssignScriptSymbolOut ==
  ASSUME OutInv, NEW n \in Names, AssignScriptSymbol(n)
  PROVE  OutInv' /\ [SC!Next]_SC!vars
<1> DEFINE new == AssignedInfo(n)
<1>1. EntriesInv /\ TableInv /\ TodoInv /\ InputsInv /\ SizesInv
  BY DEF OutInv
<1>2. /\ stage = "script" /\ n \in todo /\ todo' = todo \ {n}
      /\ UNCHANGED <<cfg, stage, sizes>>
      /\ ForceUnresolve(n, new) \/ AsReferredUnresolve(n, new)
  BY DEF AssignScriptSymbol, Handle
<1>3. n \notin SectionSyms
  <2>1. n \in DOMAIN cfg.script /\ cfg \in Configs
    BY <1>1, <1>2 DEF TodoInv, EntriesInv
  <2> QED BY <2>1, OutputAssumption DEF LinkerNames
<1>4. new \in Infos /\ ~ShouldForceLocal(new)
  BY <1>1, AssignedInfoType
<1>6. SizesInv' /\ "linker" \in Frags \ {"None"}
  BY <1>1, <1>2 DEF SizesInv, Frags
<1> HIDE DEF new
<1>7. ASSUME NEW i \in Infos, info' = [info EXCEPT ![n] = i],
             frag' = [frag EXCEPT ![n] = "linker"],
             \/ frag[n] = "None" /\ AddSymbol(n, i)
             \/ Arrange(n, i)
      PROVE  OutInv' /\ [SC!Next]_SC!vars
  BY <1>2, <1>3, <1>6, <1>7, PlacedStep
<1>8. CASE ForceUnresolve(n, new)
  <2> DEFINE i == IF info[n] = NoInfo THEN new ELSE Overridden(n, new)
  <2>1. i \in Infos
    BY <1>1, <1>4, OverriddenType
  <2>2. /\ info' = [info EXCEPT ![n] = i] /\ frag' = [frag EXCEPT ![n] = "linker"]
        /\ (frag[n] = "None" /\ AddSymbol(n, i)) \/ Arrange(n, i)
    BY <1>4, <1>8 DEF ForceUnresolve
  <2> HIDE DEF i
  <2> QED BY <1>7, <2>1, <2>2
<1>9. CASE AsReferredUnresolve(n, new) /\ Referred(n)
  <2>1. Overridden(n, new) \in Infos
    BY <1>1, <1>4, <1>9, OverriddenType DEF Referred
  <2>2. /\ info' = [info EXCEPT ![n] = Overridden(n, new)]
        /\ frag' = [frag EXCEPT ![n] = "linker"]
        /\ \/ frag[n] = "None" /\ AddSymbol(n, Overridden(n, new))
           \/ Arrange(n, Overridden(n, new))
    BY <1>9 DEF AsReferredUnresolve
  <2> QED BY <1>7, <2>1, <2>2
<1>10. CASE AsReferredUnresolve(n, new) /\ ~Referred(n)
  <2>1. UNCHANGED <<info, frag, table, home>>
    BY <1>10 DEF AsReferredUnresolve
  <2>2. TodoInv' /\ InputsInv'
    BY <1>1, <1>2, <2>1 DEF TodoInv, InputsInv
  <2> QED BY <1>2, <1>6, <2>1, <2>2, StillStep
<1> QED BY <1>2, <1>8, <1>9, <1>10

LEMMA AddSymbolToDynSymOut ==
  ASSUME OutInv, NEW n \in Names, AddSymbolToDynSym(n)
  PROVE  OutInv' /\ [SC!Next]_SC!vars
<1> DEFINE K == [m \in Names |-> CategoryOf(m)]
<1>1. EntriesInv /\ TableInv /\ TodoInv /\ InputsInv /\ SizesInv
  BY DEF OutInv
<1>2. /\ stage = "scanning" /\ InTable(n) /\ n \notin Files /\ info[n].bind = "Local"
      /\ table' = SC!Arrange(table, n, CategoryOf(n), SC!LocalDyn)
      /\ home' = [home EXCEPT ![n] = SC!LocalDyn]
      /\ UNCHANGED <<cfg, info, frag, stage, todo, sizes>>
  BY DEF AddSymbolToDynSym
<1>3. K' = K /\ K[n] = CategoryOf(n)
  BY <1>2 DEF CategoryOf
<1>4. SC!InTable(table, n)
  BY <1>2 DEF InTable
<1>5. CategoryOf(n) # SC!LocalDyn /\ SC!LocalDyn \in SC!Cats
  BY Ranges DEF CategoryOf, Category
<1>6. SC!ChangeToDynamic(n)
  BY <1>2, <1>3, <1>4 DEF SC!ChangeToDynamic
<1>7. /\ Exact(SC!Arrange(table, n, CategoryOf(n), SC!LocalDyn), [home EXCEPT ![n] = SC!LocalDyn])
      /\ \A y : SC!InTable(SC!Arrange(table, n, CategoryOf(n), SC!LocalDyn), y)
                  <=> SC!InTable(table, y)
  BY <1>1, <1>4, <1>5, ArrangeExact DEF TableInv
<1>8. Exact(table', home') /\ \A y : SC!InTable(table', y) <=> SC!InTable(table, y)
  BY <1>2, <1>7
<1>9. TableInv'
  BY <1>1, <1>2, <1>8 DEF TableInv, InTable
<1>10. EntriesInv' /\ TodoInv' /\ InputsInv' /\ SizesInv'
  BY <1>1, <1>2 DEF EntriesInv, TodoInv, InputsInv, SizesInv
<1> QED BY <1>6, <1>9, <1>10 DEF OutInv, SC!Next

LEMMA LocalInfoType == LocalInfo \in Infos /\ ~ShouldForceLocal(LocalInfo)
BY DEF LocalInfo, Infos, Descs, Default, ShouldForceLocal

LEMMA FinalizeSectionSymbolOut ==
  ASSUME OutInv, NEW n \in Names, FinalizeSectionSymbol(n)
  PROVE  OutInv' /\ [SC!Next]_SC!vars
<1>1. /\ stage = "prelayout" /\ n \in todo /\ todo' = todo \ {n}
      /\ UNCHANGED <<cfg, stage, sizes>>
      /\ info' = [info EXCEPT ![n] = LocalInfo] /\ frag' = [frag EXCEPT ![n] = "kept"]
      /\ AddSymbol(n, LocalInfo)
  BY DEF FinalizeSectionSymbol, Handle
<1>2. frag[n] = "None"
  BY <1>1 DEF OutInv, TodoInv
<1>3. SizesInv' /\ "kept" \in Frags \ {"None"}
  BY <1>1 DEF OutInv, SizesInv, Frags
<1> QED BY <1>1, <1>2, <1>3, LocalInfoType, PlacedStep

LEMMA RelaxBranchOut ==
  ASSUME OutInv, NEW b \in Branches, RelaxBranch(b)
  PROVE  OutInv' /\ [SC!Next]_SC!vars
<1> DEFINE s == StubOf[b]
<1>1. EntriesInv /\ TableInv /\ TodoInv /\ SizesInv
  BY DEF OutInv
<1>2. /\ stage = "relaxing" /\ todo' \subseteq todo /\ UNCHANGED <<cfg, stage>>
      /\ GrowForStub
      /\ IF info[s] = NoInfo THEN ForceUnresolve(s, LocalInfo)
         ELSE UNCHANGED <<info, frag, table, home>>
  BY DEF RelaxBranch, Handle
<1>3. SizesInv'
  <2>1. /\ sizes.symtab \in Nat /\ sizes.shInfo \in Nat /\ sizes.dynsym \in Nat
        /\ sizes \in [symtab : Nat, shInfo : Nat, dynsym : Nat]
    BY <1>1 DEF SizesInv
  <2>2. sizes.symtab + 1 \in Nat /\ sizes.shInfo + 1 \in Nat
    BY <2>1
  <2>3. [sizes EXCEPT !.symtab = sizes.symtab + 1, !.shInfo = sizes.shInfo + 1]
          \in [symtab : Nat, shInfo : Nat, dynsym : Nat]
    BY <2>1, <2>2
  <2>4. [sizes EXCEPT !.symtab = @ + 1, !.shInfo = @ + 1]
          = [sizes EXCEPT !.symtab = sizes.symtab + 1, !.shInfo = sizes.shInfo + 1]
    OBVIOUS
  <2> QED BY <1>2, <2>1, <2>3, <2>4 DEF GrowForStub, SizesInv
<1>4. s \in Names /\ s \notin SectionSyms
  BY OutputAssumption DEF Names, Stubs, Branches
<1> HIDE DEF s
<1>5. CASE info[s] = NoInfo
  <2>1. frag[s] = "None"
    BY <1>1, <1>4, <1>5 DEF EntriesInv
  <2>2. /\ info' = [info EXCEPT ![s] = LocalInfo] /\ frag' = [frag EXCEPT ![s] = "linker"]
        /\ AddSymbol(s, LocalInfo)
    BY <1>2, <1>5, <2>1, LocalInfoType DEF ForceUnresolve
  <2>3. "linker" \in Frags \ {"None"}
    BY DEF Frags
  <2> QED BY <1>2, <1>3, <1>4, <2>1, <2>2, <2>3, LocalInfoType, PlacedStep
<1>6. CASE info[s] # NoInfo
  <2>1. UNCHANGED <<info, frag, table, home>>
    BY <1>2, <1>6
  <2>2. TodoInv' /\ InputsInv'
    BY <1>1, <1>2, <2>1 DEF TodoInv, InputsInv
  <2> QED BY <1>2, <1>3, <2>1, <2>2, StillStep
<1> QED BY <1>5, <1>6

\* What sizeNamePools measures is not negative.
LEMMA SizeNamePoolsOut ==
  ASSUME OutInv, SizeNamePools
  PROVE  OutInv' /\ [SC!Next]_SC!vars
<1>1. EntriesInv /\ TableInv /\ TodoInv
  BY DEF OutInv
<1>2. /\ stage = "prelayout" /\ stage' = "relaxing" /\ todo' \subseteq Branches
      /\ UNCHANGED <<cfg, info, frag, table, home>>
  BY DEF SizeNamePools, Enter
<1>3. table \in P!Tables /\ P!Chained(table, -1)
  BY <1>1 DEF TableInv, Exact, P!InPlace
<1>4. /\ \A c, d \in P!Cats : c < d => table.end[c] =< table.begin[d]
      /\ \A c \in P!Cats : /\ table.begin[c] \in Nat /\ table.end[c] \in Nat
                           /\ table.begin[c] =< table.end[c]
      /\ Len(table.syms) \in Nat
  BY <1>3, P!AdjacentInOrder
<1>5. NumOf(SC!File) \in Nat /\ NumOf(SC!Local) \in Nat /\ NumOf(SC!LocalDyn) \in Nat
  <2>1. \A c \in P!Cats : table.end[c] - table.begin[c] \in Nat
    BY <1>4
  <2> QED BY <2>1, Ranges DEF NumOf
<1>6. 1 + table.end[SC!Dynamic] - table.begin[SC!LocalDyn] \in Nat
  <2>1. /\ SC!Dynamic \in P!Cats /\ SC!LocalDyn \in P!Cats /\ SC!LocalDyn < SC!Dynamic
    BY Ranges
  <2>2. /\ table.end[SC!LocalDyn] =< table.begin[SC!Dynamic]
        /\ table.begin[SC!LocalDyn] =< table.end[SC!LocalDyn]
        /\ table.begin[SC!Dynamic] =< table.end[SC!Dynamic]
    BY <1>4, <2>1
  <2>3. /\ table.end[SC!LocalDyn] \in Nat /\ table.begin[SC!Dynamic] \in Nat
        /\ table.begin[SC!LocalDyn] \in Nat /\ table.end[SC!Dynamic] \in Nat
    BY <1>4, <2>1
  <2> QED BY <2>2, <2>3
<1>7. SizesInv'
  <2>1. 1 + Len(table.syms) \in Nat
    BY <1>4
  <2>2. 1 + NumOf(SC!File) + NumOf(SC!Local) + NumOf(SC!LocalDyn) \in Nat
    BY <1>5
  <2> HIDE DEF NumOf
  <2> QED BY <1>6, <2>1, <2>2 DEF SizeNamePools, SizesInv
<1>8. TodoInv' /\ InputsInv'
  BY <1>2 DEF TodoInv, InputsInv
<1> QED BY <1>2, <1>7, <1>8, StillStep

\* Every pass uses the table as SymbolCategory allows.
LEMMA NextOut ==
  ASSUME StandardStaysVisible, OutInv, [Next]_vars
  PROVE  OutInv' /\ [SC!Next]_SC!vars
<1>1. EntriesInv /\ TableInv /\ TodoInv /\ InputsInv /\ SizesInv
  BY DEF OutInv
<1>2. ASSUME NEW n \in Names,
             \/ AddSymbolToOutput(n) \/ DefineStandard(n) \/ AssignScriptSymbol(n)
             \/ AddSymbolToDynSym(n) \/ FinalizeSectionSymbol(n)
      PROVE  OutInv' /\ [SC!Next]_SC!vars
  BY <1>2, AddSymbolToOutputOut, DefineStandardOut, AssignScriptSymbolOut,
     AddSymbolToDynSymOut, FinalizeSectionSymbolOut
<1>3. CASE AllocateCommonSymbols \/ ChangeCommonToGlobal \/ CommonsChanged
  BY <1>3, AllocateOut, ChangeCommonOut, CommonsChangedOut DEF SC!Next
<1>4. CASE KeepCommonSymbols
  <2>1. /\ stage = "adding" /\ stage' = "standard" /\ todo' = {}
        /\ UNCHANGED <<cfg, info, frag, table, home, sizes>>
    BY <1>4 DEF KeepCommonSymbols, Enter
  <2>2. TodoInv' /\ InputsInv' /\ SizesInv'
    BY <1>1, <2>1 DEF TodoInv, InputsInv, SizesInv
  <2> QED BY <2>1, <2>2, StillStep
<1>5. CASE StandardDefined
  <2>1. /\ stage = "standard" /\ stage' = "script" /\ todo' = DOMAIN cfg.script
        /\ UNCHANGED <<cfg, info, frag, table, home, sizes>>
    BY <1>5 DEF StandardDefined, Enter
  <2>2. TodoInv' /\ InputsInv' /\ SizesInv'
    BY <1>1, <2>1 DEF TodoInv, InputsInv, SizesInv
  <2> QED BY <2>1, <2>2, StillStep
<1>6. CASE ScriptAssigned
  <2>1. /\ stage = "script" /\ stage' = "scanning" /\ todo' = {}
        /\ UNCHANGED <<cfg, info, frag, table, home, sizes>>
    BY <1>6 DEF ScriptAssigned, Enter
  <2>2. TodoInv' /\ InputsInv' /\ SizesInv'
    BY <1>1, <2>1 DEF TodoInv, InputsInv, SizesInv
  <2> QED BY <2>1, <2>2, StillStep
<1>7. CASE RelocationsScanned
  <2>1. /\ stage = "scanning" /\ stage' = "prelayout" /\ todo' = SectionSyms
        /\ UNCHANGED <<cfg, info, frag, table, home, sizes>>
    BY <1>7 DEF RelocationsScanned, Enter
  <2>2. TodoInv' /\ InputsInv' /\ SizesInv'
    BY <1>1, <2>1 DEF TodoInv, InputsInv, SizesInv
  <2> QED BY <2>1, <2>2, StillStep
<1>8. CASE EmitNamePools
  <2>1. /\ stage = "relaxing" /\ stage' = "emitted" /\ todo' = {}
        /\ UNCHANGED <<cfg, info, frag, table, home, sizes>>
    BY <1>8 DEF EmitNamePools, Enter
  <2>2. TodoInv' /\ InputsInv' /\ SizesInv'
    BY <1>1, <2>1 DEF TodoInv, InputsInv, SizesInv
  <2> QED BY <2>1, <2>2, StillStep
<1>9. CASE UNCHANGED vars
  <2>1. UNCHANGED <<cfg, info, frag, table, home, stage, todo, sizes>>
    BY <1>9 DEF vars
  <2>2. TodoInv' /\ InputsInv' /\ SizesInv'
    BY <1>1, <2>1 DEF TodoInv, InputsInv, FromInput, SizesInv, InTable
  <2> QED BY <2>1, <2>2, StillStep
<1>10. ASSUME NEW b \in Branches, RelaxBranch(b)
       PROVE  OutInv' /\ [SC!Next]_SC!vars
  BY <1>10, RelaxBranchOut
<1>11. CASE SizeNamePools
  BY <1>11, SizeNamePoolsOut
<1> QED BY <1>2, <1>3, <1>4, <1>5, <1>6, <1>7, <1>8, <1>9, <1>10, <1>11 DEF Next

-----------------------------------------------------------------------------
(* What the emitted tables rest on.                                        *)

\* The linker defines no file symbol and, by LinkerNamesStay, none whose section
\* is discarded; an absolute symbol is defined.
NamesInv ==
  /\ \A n \in Names : frag[n] = "dropped" => n \notin LinkerNames(cfg)
  /\ \A n \in Files : /\ info[n] # NoInfo /\ info[n].bind = "Local"
                      /\ n \notin LinkerNames(cfg)
  /\ \A n \in Names : info[n] # NoInfo /\ info[n].bind = "Absolute"
                       => info[n].desc = "Define"

\* The table holds the symbols that the pass has added and the section kept.
Held(n) == InTable(n) <=> frag[n] \notin {"None", "dropped"}

KeptInv == \A n \in Names : (stage = "adding" /\ n \in todo) \/ Held(n)

\* A symbol lies in the range of its category, or was forced local and is
\* hidden, or is a local one made dynamic, or waits in the common range.
RightHome(n) ==
  \/ home[n] = CategoryOf(n)
  \/ home[n] = 1 /\ CategoryOf(n) = 5 /\ cfg.codeGen # "Object"
  \/ /\ home[n] = 1 /\ CategoryOf(n) = 3 /\ cfg.codeGen # "Object"
     /\ stage = "adding" /\ info[n].vis \in {Hidden, Internal}
  \/ home[n] = 2 /\ CategoryOf(n) = 1 /\ stage \notin {"adding", "changing"}
  \/ home[n] = 3 /\ CategoryOf(n) \in {4, 5} /\ stage = "changing"

HomeInv == \A n \in Names : InTable(n) => RightHome(n)

CommonInv ==
  /\ stage = "changing" => Allocates
  /\ Allocates /\ stage # "adding" =>
       \A n \in Names : InTable(n) => info[n].desc # "Common"

\* What lies in the last range of a link that is not partial is hidden, and
\* was left there by shouldForceLocal; the common symbols are visible.
Unforced(n) ==
  /\ home[n] = 5 => LocalByVisibility(n)
  /\ home[n] = 3 => info[n].vis \in {Default, Protected}

RegularInv ==
  cfg.codeGen # "Object" => \A n \in Names : InTable(n) => Unforced(n)

\* A name the linker defines is nobody's, or is defined by the output.
OwnDefinition(n) == info[n] # NoInfo => info[n].desc # "Undefined" /\ ~info[n].dyn

DefinedInv ==
  cfg.codeGen # "Object" =>
    /\ stage = "standard" => \A n \in DOMAIN cfg.standard \ todo : OwnDefinition(n)
    /\ stage = "script" => \A n \in LinkerNames(cfg) \ todo : OwnDefinition(n)
    /\ stage \in {"scanning", "prelayout", "relaxing", "emitted"} =>
         \A n \in LinkerNames(cfg) : OwnDefinition(n)

\* What has been measured has room for the stubs that are there.
RoomInv ==
  /\ stage \notin {"relaxing", "emitted"} => \A s \in Stubs : info[s] = NoInfo
  /\ stage = "relaxing" => \A b \in todo : info[StubOf[b]] = NoInfo
  /\ stage \in {"relaxing", "emitted"} =>
       /\ cfg.strip # "StripAll" => /\ 1 + Len(table.syms) =< sizes.symtab
                                    /\ sizes.shInfo - 1 = table.end[2]
       /\ HasDynsym => sizes.dynsym = 1 + table.end[4] - table.begin[2]

TablesInv ==
  NamesInv /\ KeptInv /\ HomeInv /\ CommonInv /\ RegularInv /\ DefinedInv /\ RoomInv

LEMMA StandardResolves ==
  ASSUME NEW old \in Infos, NEW new \in Infos,
         new.desc = "Define", ~new.dyn, new.bind # "Weak",
         old.desc = "Undefined" \/ old.dyn,
         old.bind = "Absolute" => old.desc = "Define"
  PROVE  LET r == Resolve(old, new, 0, 0)
         IN  r.info.desc = "Define" /\ ~r.info.dyn /\ r.overriden
<1>1. Ordinate(new) = "D"
  BY DEF Ordinate
<1>2. Ordinate(old) # "D"
  BY DEF Ordinate, Infos, Descs
<1>3. LinkAction("D", Ordinate(old)) \in {"DEF", "CDEF"}
  BY <1>2 DEF LinkAction, RowOfD
<1>4. LinkAction(Ordinate(new), Ordinate(old)) \in Overriding
  BY <1>1, <1>3 DEF Overriding
<1>5. Resolve(old, new, 0, 0) = [info |-> Override(old, new), overriden |-> TRUE, error |-> FALSE]
  BY <1>4 DEF Resolve, Overriding
<1>6. Override(old, new).desc = "Define" /\ ~Override(old, new).dyn
  <2> DEFINE o == [OverrideAttributes(old, new) EXCEPT !.size = new.size]
  <2>1. o \in Infos /\ o.desc = "Define" /\ ~o.dyn
    BY DEF OverrideAttributes, Infos
  <2>2. OverrideVisibility(o, new).desc = o.desc /\ OverrideVisibility(o, new).dyn = o.dyn
    <3> HIDE DEF o
    <3> QED BY <2>1 DEF OverrideVisibility, Infos
  <2> QED BY <2>1, <2>2 DEF Override
<1> QED BY <1>5, <1>6

LEMMA ForcedCategory ==
  ASSUME NEW n, NEW i, n \notin Files, ShouldForceLocal(i), i.desc # "Common"
  PROVE  Category(n, i) = 5 /\ cfg.codeGen # "Object"
BY DEF ShouldForceLocal, Category, Hidden, Internal, Default, Protected

\* What shouldForceLocal leaves in the common and the last range.
LEMMA UnforcedCategory ==
  ASSUME NEW n, NEW i \in Infos, cfg.codeGen # "Object", ~ShouldForceLocal(i),
         i.bind = "Absolute" => i.desc = "Define"
  PROVE  /\ Category(n, i) = 5 => /\ i.vis \in {Hidden, Internal}
                                  /\ i.desc = "Undefined" \/ i.bind = "Absolute"
         /\ Category(n, i) = 3 => i.vis \in {Default, Protected}
<1>1. /\ i.desc \in {"Undefined", "Define", "Common"}
      /\ i.bind \in {"Global", "Weak", "Absolute", "Local"}
      /\ i.vis \in {Default, Internal, Hidden, Protected}
  BY DEF Infos, Descs, Bindings, Default, Internal, Hidden, Protected
<1>2. CASE n \in Files \/ i.bind = "Local"
  <2>1. Category(n, i) \in {0, 1}
    BY <1>2 DEF Category
  <2> QED BY <2>1
<1>3. CASE n \notin Files /\ i.bind # "Local" /\ i.desc = "Common"
  <2>1. Category(n, i) = 3 /\ i.bind \in {"Global", "Weak"}
    BY <1>1, <1>3 DEF Category
  <2>2. i.vis \notin {Hidden, Internal}
    BY <1>3, <2>1 DEF ShouldForceLocal
  <2> QED BY <1>1, <2>1, <2>2
<1>4. CASE n \notin Files /\ i.bind # "Local" /\ i.desc # "Common"
  <2>1. Category(n, i) = IF i.vis \in {Default, Protected} THEN 4 ELSE 5
    BY <1>4 DEF Category
  <2>2. i.vis \in {Hidden, Internal} => i.desc = "Undefined" \/ i.bind = "Absolute"
    BY <1>1, <1>4 DEF ShouldForceLocal
  <2> QED BY <1>1, <2>1, <2>2
<1> QED BY <1>2, <1>3, <1>4

\* What the tables rest on, when a pass that has been through the table defines
\* symbol n anew.
LEMMA PlacedTables ==
  ASSUME OutInv, TablesInv, NEW n \in Names \ Files, NEW i \in Infos,
         NEW f \in Frags \ {"None", "dropped"}, frag[n] # "dropped", i.desc = "Define",
         stage \in {"standard", "script", "prelayout", "relaxing"}, UNCHANGED <<cfg, stage>>,
         info' = [info EXCEPT ![n] = i], frag' = [frag EXCEPT ![n] = f],
         \/ frag[n] = "None" /\ AddSymbol(n, i) /\ ~ShouldForceLocal(i)
         \/ frag[n] = "None" /\ ForceLocal(n) /\ ShouldForceLocal(i)
         \/ frag[n] # "None" /\ Arrange(n, i) /\ ~ShouldForceLocal(i)
  PROVE  NamesInv' /\ KeptInv' /\ HomeInv' /\ CommonInv' /\ RegularInv'
<1>1. /\ EntriesInv /\ TableInv
      /\ NamesInv /\ KeptInv /\ HomeInv /\ CommonInv /\ RegularInv
  BY DEF OutInv, TablesInv
<1>2. frag[n] = "None" => ~InTable(n)
  BY <1>1 DEF TableInv
<1>3. /\ info'[n] = i /\ frag'[n] = f /\ n \in Names /\ n \notin Files
      /\ \A y \in Names : y # n => info'[y] = info[y] /\ frag'[y] = frag[y]
  BY <1>1 DEF EntriesInv
<1>4. /\ CategoryOf(n)' = Category(n, i)
      /\ \A y \in Names : y # n => CategoryOf(y)' = CategoryOf(y)
  BY <1>3, NoInfoIsNone DEF CategoryOf
<1>5. home \in [Names -> SC!Cats]
  BY <1>1 DEF TableInv, Exact
<1>6. /\ InTable(n)' /\ RightHome(n)'
      /\ \A y \in Names : y # n => home'[y] = home[y] /\ (InTable(y)' <=> InTable(y))
  <2>1. CASE frag[n] = "None" /\ AddSymbol(n, i)
    <3>1. \A y \in Names : InTable(y)' <=> y = n \/ InTable(y)
      BY <1>1, <1>2, <2>1, AddSymbolStep
    <3>2. home' = [home EXCEPT ![n] = Category(n, i)]
      BY <2>1 DEF AddSymbol
    <3>3. home'[n] = CategoryOf(n)'
      BY <1>4, <1>5, <3>2
    <3> QED BY <1>5, <3>1, <3>2, <3>3 DEF RightHome
  <2>2. CASE frag[n] = "None" /\ ForceLocal(n) /\ ShouldForceLocal(i)
    <3>1. \A y \in Names : InTable(y)' <=> y = n \/ InTable(y)
      BY <1>1, <1>2, <2>2, ForceLocalStep
    <3>2. home' = [home EXCEPT ![n] = 1]
      BY <2>2, Ranges DEF ForceLocal
    <3>3. CategoryOf(n)' = 5 /\ cfg'.codeGen # "Object"
      BY <1>3, <1>4, <2>2, ForcedCategory
    <3> QED BY <1>5, <3>1, <3>2, <3>3 DEF RightHome
  <2>3. CASE frag[n] # "None" /\ Arrange(n, i)
    <3>1. \A y \in Names : InTable(y)' <=> InTable(y)
      BY <1>1, <2>3, ArrangeStep
    <3>2. InTable(n)
      BY <1>1, <2>3 DEF KeptInv, Held
    <3>3. home' = IF CategoryOf(n) = Category(n, i) THEN home
                  ELSE [home EXCEPT ![n] = Category(n, i)]
      BY <2>3 DEF Arrange
    <3>4. RightHome(n)'
      <4>1. CASE CategoryOf(n) = Category(n, i)
        <5>1. home' = home /\ CategoryOf(n)' = CategoryOf(n) /\ cfg' = cfg
          BY <1>4, <3>3, <4>1
        <5>2. RightHome(n) /\ stage \notin {"adding", "changing"}
          BY <1>1, <3>2 DEF HomeInv
        <5> QED BY <5>1, <5>2 DEF RightHome
      <4>2. CASE CategoryOf(n) # Category(n, i)
        <5>1. home'[n] = CategoryOf(n)'
          BY <1>4, <1>5, <3>3, <4>2
        <5> QED BY <5>1 DEF RightHome
      <4> QED BY <4>1, <4>2
    <3> QED BY <1>5, <3>1, <3>2, <3>3, <3>4
  <2> QED BY <2>1, <2>2, <2>3
<1>7. NamesInv'
  <2>1. LinkerNames(cfg)' = LinkerNames(cfg)
    BY DEF LinkerNames
  <2>2. \A y \in Files : y \in Names /\ y # n
    BY <1>3, OutputAssumption DEF Names
  <2> QED BY <1>1, <1>3, <2>1, <2>2 DEF NamesInv
<1>8. KeptInv'
  BY <1>1, <1>3, <1>6 DEF KeptInv, Held
<1>9. HomeInv'
  <2>1. ASSUME NEW y \in Names, y # n, InTable(y)'
        PROVE  RightHome(y)'
    <3>1. RightHome(y) /\ stage \notin {"adding", "changing"}
      BY <1>1, <1>6, <2>1 DEF HomeInv
    <3> QED BY <1>4, <1>6, <2>1, <3>1 DEF RightHome
  <2> QED BY <1>6, <2>1 DEF HomeInv
<1>10. CommonInv'
  <2>1. Allocates' = Allocates
    BY DEF Allocates
  <2> QED BY <1>1, <1>3, <1>6, <2>1 DEF CommonInv
<1>11. RegularInv'
  <2> SUFFICES ASSUME cfg'.codeGen # "Object", NEW y \in Names, InTable(y)'
               PROVE  Unforced(y)'
    BY DEF RegularInv
  <2>1. CASE y # n
    <3>1. Unforced(y) /\ home'[y] = home[y] /\ info'[y] = info[y]
      BY <1>1, <1>3, <1>6, <2>1 DEF RegularInv
    <3> QED BY <3>1 DEF Unforced, LocalByVisibility
  <2>2. CASE y = n /\ ForceLocal(n)
    <3>1. home'[n] = 1
      BY <1>5, <2>2, Ranges DEF ForceLocal
    <3> QED BY <2>2, <3>1 DEF Unforced
  <2>3. CASE y = n /\ ~ForceLocal(n)
    <3>1. home'[n] \in {3, 5} => home'[n] = Category(n, i)
      BY <1>4, <1>6 DEF RightHome
    <3>2. /\ Category(n, i) = 5 => /\ i.vis \in {Hidden, Internal}
                                   /\ i.desc = "Undefined" \/ i.bind = "Absolute"
          /\ Category(n, i) = 3 => i.vis \in {Default, Protected}
      BY <2>3, UnforcedCategory
    <3> QED BY <1>3, <2>3, <3>1, <3>2 DEF Unforced, LocalByVisibility
  <2> QED BY <2>1, <2>2, <2>3
<1> QED BY <1>7, <1>8, <1>9, <1>10, <1>11

LEMMA StillTables ==
  ASSUME OutInv, TablesInv, UNCHANGED <<cfg, info, frag, table, home>>,
         stage' \notin {"adding", "changing"},
         stage = "adding" => todo = {} /\ ~Allocates,
         stage = "changing" => \A n \in Names : InTable(n) => home[n] # 3
  PROVE  NamesInv' /\ KeptInv' /\ HomeInv' /\ CommonInv' /\ RegularInv'
<1>1. NamesInv /\ KeptInv /\ HomeInv /\ CommonInv /\ RegularInv
  BY DEF TablesInv
<1>2. NamesInv'
  BY <1>1 DEF NamesInv, LinkerNames
<1>3. KeptInv'
  BY <1>1 DEF KeptInv, Held, InTable
<1>4. \A n \in Names : (InTable(n)' <=> InTable(n)) /\ CategoryOf(n)' = CategoryOf(n)
  BY DEF InTable, CategoryOf
<1>5. HomeInv'
  <2>1. ASSUME NEW n \in Names, InTable(n)'
        PROVE  RightHome(n)'
    <3>1. RightHome(n) /\ InTable(n)
      BY <1>1, <1>4, <2>1 DEF HomeInv
    <3>2. stage = "adding" => cfg.codeGen = "Object"
      BY DEF Allocates
    <3> QED BY <1>4, <3>1, <3>2 DEF RightHome
  <2> QED BY <2>1 DEF HomeInv
<1>6. CommonInv' /\ RegularInv'
  BY <1>1, <1>4 DEF CommonInv, Allocates, RegularInv, Unforced, LocalByVisibility
<1> QED BY <1>2, <1>3, <1>5, <1>6

LEMMA InitTables ==
  ASSUME LinkerNamesStay, Init
  PROVE  TablesInv
<1>1. PICK inputs \in [InputNames -> Inputs] :
        /\ \A n \in InputNames : inputs[n] \in InputOf(n)
        /\ info = [n \in Names |-> IF n \in InputNames THEN inputs[n].info ELSE NoInfo]
        /\ frag = [n \in Names |-> IF n \in InputNames THEN inputs[n].frag ELSE "None"]
  BY DEF Init
<1>2. /\ cfg \in Configs /\ stage = "adding" /\ todo = InputNames
      /\ OutInv /\ InputNames \subseteq Names
  BY InitOut DEF Init, Names
<1>3. \A n \in Names : ~InTable(n)
  BY <1>2 DEF OutInv, TodoInv, TableInv, Init, SC!EmptyTable, InTable, SC!InTable, SC!Positions
<1>4. NamesInv
  <2>1. ASSUME NEW n \in Names, frag[n] = "dropped"
        PROVE  n \notin LinkerNames(cfg)
    <3>1. n \in InputNames /\ inputs[n].frag = "dropped"
      BY <1>1, <2>1
    <3>2. n \in Droppable
      BY <1>1, <3>1 DEF InputOf
    <3> QED BY <1>2, <3>2 DEF LinkerNamesStay
  <2>2. ASSUME NEW n \in Files
        PROVE  info[n] # NoInfo /\ info[n].bind = "Local" /\ n \notin LinkerNames(cfg)
    <3>1. n \in InputNames /\ n \in Names /\ info[n] = inputs[n].info
      BY <1>1, <1>2, OutputAssumption
    <3> QED BY <1>1, <3>1 DEF InputOf
  <2>3. ASSUME NEW n \in Names, info[n] # NoInfo, info[n].bind = "Absolute"
        PROVE  info[n].desc = "Define"
    <3>1. n \in InputNames /\ info[n] = inputs[n].info
      BY <1>1, <2>3
    <3> QED BY <1>1, <2>3, <3>1, OutputAssumption
  <2> QED BY <2>1, <2>2, <2>3 DEF NamesInv
<1>5. KeptInv
  <2>1. ASSUME NEW n \in Names, n \notin InputNames
        PROVE  Held(n)
    <3>1. frag[n] = "None"
      BY <1>1, <2>1
    <3> QED BY <1>3, <3>1 DEF Held
  <2> QED BY <1>2, <2>1 DEF KeptInv
<1>6. HomeInv /\ CommonInv /\ RegularInv /\ DefinedInv
  BY <1>2, <1>3 DEF HomeInv, CommonInv, RegularInv, DefinedInv
<1>7. RoomInv
  <2>1. \A s \in Stubs : s \in Names /\ s \notin InputNames
    BY <1>2, OutputAssumption DEF Names
  <2> QED BY <1>1, <1>2, <2>1 DEF RoomInv
<1> QED BY <1>4, <1>5, <1>6, <1>7 DEF TablesInv

LEMMA AddSymbolToOutputTables ==
  ASSUME OutInv, TablesInv, NEW n \in Names, AddSymbolToOutput(n)
  PROVE  TablesInv'
<1>1. /\ EntriesInv /\ TableInv /\ TodoInv
      /\ NamesInv /\ KeptInv /\ HomeInv /\ CommonInv /\ RegularInv /\ DefinedInv /\ RoomInv
  BY DEF OutInv, TablesInv
<1>2. /\ stage = "adding" /\ n \in todo /\ todo' = todo \ {n} /\ stage' = stage /\ cfg' = cfg
      /\ UNCHANGED <<info, frag, sizes>>
  BY DEF AddSymbolToOutput, Handle
<1>3. ~InTable(n) /\ home \in [Names -> SC!Cats]
  BY <1>1, <1>2 DEF TodoInv, TableInv, Exact
<1>4. \A y \in Names : CategoryOf(y)' = CategoryOf(y)
  BY <1>2 DEF CategoryOf
<1>5. /\ Held(n)' /\ (InTable(n)' => RightHome(n)')
      /\ InTable(n)' /\ cfg.codeGen # "Object" => Unforced(n)'
      /\ \A y \in Names : y # n => home'[y] = home[y] /\ (InTable(y)' <=> InTable(y))
  <2>1. CASE frag[n] \in {"None", "dropped"}
    <3>1. UNCHANGED <<table, home>>
      BY <2>1 DEF AddSymbolToOutput
    <3> QED BY <1>2, <1>3, <2>1, <3>1 DEF Held, InTable
  <2>2. CASE frag[n] \notin {"None", "dropped"}
    <3>1. info[n] # NoInfo /\ info[n] \in Infos /\ info' = [info EXCEPT ![n] = info[n]]
      BY <1>1, <1>2, <2>2 DEF EntriesInv
    <3>2. CategoryOf(n) = Category(n, info[n])
      BY <3>1 DEF CategoryOf
    <3>3. CASE ~ShouldForceLocal(info[n])
      <4>1. AddSymbol(n, info[n])
        BY <2>2, <3>3 DEF AddSymbolToOutput
      <4>2. \A y \in Names : InTable(y)' <=> y = n \/ InTable(y)
        BY <1>1, <1>2, <1>3, <3>1, <4>1, AddSymbolStep
      <4>3. home' = [home EXCEPT ![n] = CategoryOf(n)]
        BY <3>2, <4>1 DEF AddSymbol
      <4>4. home'[n] = CategoryOf(n)'
        BY <1>3, <1>4, <4>3
      <4>5. ASSUME cfg.codeGen # "Object"
            PROVE  Unforced(n)'
        <5>1. /\ CategoryOf(n) = 5 =>
                   /\ info[n].vis \in {Hidden, Internal}
                   /\ info[n].desc = "Undefined" \/ info[n].bind = "Absolute"
              /\ CategoryOf(n) = 3 => info[n].vis \in {Default, Protected}
          BY <1>1, <3>1, <3>2, <3>3, <4>5, UnforcedCategory DEF NamesInv
        <5> QED BY <1>2, <1>4, <4>4, <4>5, <5>1 DEF Unforced, LocalByVisibility
      <4> QED BY <1>2, <1>3, <2>2, <4>2, <4>3, <4>4, <4>5 DEF Held, RightHome
    <3>4. CASE ShouldForceLocal(info[n])
      <4>1. ForceLocal(n)
        BY <2>2, <3>4 DEF AddSymbolToOutput
      <4>2. \A y \in Names : InTable(y)' <=> y = n \/ InTable(y)
        BY <1>1, <1>2, <1>3, <3>1, <4>1, ForceLocalStep
      <4>3. home' = [home EXCEPT ![n] = 1]
        BY <4>1, Ranges DEF ForceLocal
      <4>4. n \notin Files /\ info[n].bind # "Local"
        BY <1>1, <3>4 DEF NamesInv, ShouldForceLocal
      <4>5. /\ cfg.codeGen # "Object" /\ info[n].vis \in {Hidden, Internal}
            /\ CategoryOf(n) \in {3, 5}
        BY <3>2, <3>4, <4>4
           DEF ShouldForceLocal, Category, Hidden, Internal, Default, Protected
      <4>6. home'[n] = 1 /\ CategoryOf(n)' = CategoryOf(n) /\ info'[n] = info[n]
        BY <1>2, <1>3, <1>4, <4>3
      <4> QED BY <1>2, <1>3, <2>2, <4>2, <4>3, <4>5, <4>6 DEF Held, RightHome, Unforced
    <3> QED BY <3>3, <3>4
  <2> QED BY <2>1, <2>2
<1>6. NamesInv'
  BY <1>1, <1>2 DEF NamesInv, LinkerNames
<1>7. KeptInv'
  <2>1. ASSUME NEW y \in Names, y # n
        PROVE  y \in todo' \/ Held(y)'
    BY <1>1, <1>2, <1>5, <2>1 DEF KeptInv, Held
  <2> QED BY <1>2, <1>5, <2>1 DEF KeptInv
<1>8. HomeInv'
  <2>1. ASSUME NEW y \in Names, y # n, InTable(y)'
        PROVE  RightHome(y)'
    <3>1. RightHome(y) /\ home'[y] = home[y] /\ CategoryOf(y)' = CategoryOf(y)
      BY <1>1, <1>4, <1>5, <2>1 DEF HomeInv
    <3> QED BY <1>2, <3>1 DEF RightHome
  <2> QED BY <1>5, <2>1 DEF HomeInv
<1>9. CommonInv' /\ DefinedInv'
  BY <1>2 DEF CommonInv, DefinedInv
<1>10. RoomInv'
  BY <1>1, <1>2 DEF RoomInv
<1>11. RegularInv'
  <2>1. ASSUME NEW y \in Names, y # n, InTable(y)', cfg.codeGen # "Object"
        PROVE  Unforced(y)'
    <3>1. Unforced(y) /\ home'[y] = home[y]
      BY <1>1, <1>5, <2>1 DEF RegularInv
    <3> QED BY <1>2, <3>1 DEF Unforced, LocalByVisibility
  <2> QED BY <1>2, <1>5, <2>1 DEF RegularInv
<1> QED BY <1>6, <1>7, <1>8, <1>9, <1>10, <1>11 DEF TablesInv

LEMMA AllocateTables ==
  ASSUME OutInv, TablesInv, AllocateCommonSymbols
  PROVE  TablesInv'
<1> DEFINE commons == {n \in Names : /\ info[n] # NoInfo /\ info[n].desc = "Common"
                                     /\ InTable(n)
                                     /\ home[n] \in {SC!Local, SC!Common}}
<1>1. /\ EntriesInv /\ TableInv /\ TodoInv
      /\ NamesInv /\ KeptInv /\ HomeInv /\ CommonInv /\ RegularInv /\ DefinedInv /\ RoomInv
  BY DEF OutInv, TablesInv
<1>2. /\ stage = "adding" /\ todo = {} /\ Allocates /\ stage' = "changing" /\ cfg' = cfg
      /\ UNCHANGED <<table, home, sizes>>
      /\ info' = [n \in Names |-> IF n \in commons
                                  THEN [info[n] EXCEPT !.desc = "Define"] ELSE info[n]]
      /\ frag' = [n \in Names |-> IF n \in commons THEN "kept" ELSE frag[n]]
  BY DEF AllocateCommonSymbols, Enter
<1>3. \A n \in Names : /\ InTable(n) => frag[n] # "None" /\ info[n] # NoInfo
                       /\ InTable(n)' <=> InTable(n)
                       /\ InTable(n) => RightHome(n)
  BY <1>1, <1>2 DEF EntriesInv, TableInv, HomeInv, InTable
<1>4. ASSUME NEW n \in Names, InTable(n), info[n].desc = "Common"
      PROVE  /\ n \in commons /\ CategoryOf(n) = 3
             /\ n \notin Files /\ info[n] \in Infos /\ info[n].bind # "Local"
  <2>1. info[n] # NoInfo /\ RightHome(n) /\ info[n] \in Infos
    BY <1>1, <1>3, <1>4 DEF EntriesInv
  <2>2. info[n].bind # "Local"
    <3>1. FromInput(n) /\ frag[n] # "None"
      BY <1>1, <1>2, <1>3, <1>4 DEF OutInv, InputsInv
    <3>2. PICK i \in Inputs : i.info # NoInfo /\ info[n] \in Allocated(i)
      BY <3>1 DEF FromInput
    <3>3. i.info \in Infos
      BY <3>2, OutputAssumption
    <3>4. info[n] = i.info
      <4>1. [i.info EXCEPT !.desc = "Define"].desc = "Define"
        BY <3>3 DEF Infos
      <4> QED BY <1>4, <3>2, <4>1 DEF Allocated
    <3> QED BY <1>4, <3>2, <3>4, OutputAssumption
  <2>3. n \notin Files
    BY <1>1, <2>2 DEF NamesInv
  <2>4. CategoryOf(n) = 3
    BY <1>4, <2>1, <2>2, <2>3 DEF CategoryOf, Category
  <2>5. home[n] \in {1, 3}
    BY <1>2, <2>1, <2>4 DEF RightHome
  <2> QED BY <1>4, <2>1, <2>2, <2>3, <2>4, <2>5, Ranges
<1>5. ASSUME NEW n \in commons
      PROVE  /\ n \in Names /\ InTable(n) /\ info[n] \in Infos /\ info'[n] \in Infos
             /\ info'[n].desc = "Define" /\ frag'[n] = "kept"
             /\ info'[n].bind = info[n].bind /\ info'[n].vis = info[n].vis
             /\ n \notin Files /\ info[n].bind # "Local" /\ CategoryOf(n) = 3
             /\ CategoryOf(n)' = IF info[n].vis \in {Default, Protected} THEN 4 ELSE 5
  <2>1. n \in Names /\ InTable(n) /\ info[n].desc = "Common"
    BY <1>5
  <2>2. /\ info[n] \in Infos /\ n \notin Files /\ info[n].bind # "Local" /\ CategoryOf(n) = 3
    BY <1>4, <2>1
  <2>3. info'[n] = [info[n] EXCEPT !.desc = "Define"] /\ frag'[n] = "kept"
    BY <1>2, <1>5
  <2>4. /\ info'[n] \in Infos /\ info'[n].desc = "Define"
        /\ info'[n].bind = info[n].bind /\ info'[n].vis = info[n].vis
    BY <2>2, <2>3 DEF Infos, Descs
  <2>5. CategoryOf(n)' = Category(n, info'[n])
    BY <2>4, NoInfoIsNone DEF CategoryOf
  <2>6. Category(n, info'[n]) = IF info[n].vis \in {Default, Protected} THEN 4 ELSE 5
    BY <2>2, <2>4 DEF Category
  <2> QED BY <2>1, <2>2, <2>3, <2>4, <2>5, <2>6
<1>6. \A n \in Names \ commons : /\ info'[n] = info[n] /\ frag'[n] = frag[n]
                                 /\ CategoryOf(n)' = CategoryOf(n)
  <2>1. \A n \in Names \ commons : info'[n] = info[n] /\ frag'[n] = frag[n]
    BY <1>2
  <2> QED BY <2>1 DEF CategoryOf
<1>7. NamesInv'
  <2>1. LinkerNames(cfg)' = LinkerNames(cfg)
    BY <1>2 DEF LinkerNames
  <2>2. \A n \in Names : frag'[n] = "dropped" => n \notin LinkerNames(cfg)
    BY <1>1, <1>5, <1>6 DEF NamesInv
  <2>3. \A n \in Files : n \in Names \ commons
    BY <1>5, OutputAssumption DEF Names
  <2>4. \A n \in Names : info'[n] # NoInfo /\ info'[n].bind = "Absolute"
                           => info'[n].desc = "Define"
    BY <1>1, <1>5, <1>6 DEF NamesInv
  <2> QED BY <1>1, <1>6, <2>1, <2>2, <2>3, <2>4 DEF NamesInv
<1>8. KeptInv'
  <2>1. ASSUME NEW n \in Names PROVE Held(n)'
    <3>1. CASE n \in commons
      BY <1>3, <1>5, <3>1 DEF Held
    <3>2. CASE n \notin commons
      BY <1>1, <1>2, <1>3, <1>6, <3>2 DEF KeptInv, Held
    <3> QED BY <3>1, <3>2
  <2> QED BY <2>1 DEF KeptInv
<1>9. HomeInv'
  <2>1. ASSUME NEW n \in Names, InTable(n)'
        PROVE  RightHome(n)'
    <3>1. RightHome(n) /\ home'[n] = home[n] /\ cfg' = cfg
      BY <1>2, <1>3, <2>1
    <3>2. CASE n \in commons
      <4> CategoryOf(n) = 3 /\ stage = "adding"
        BY <1>2, <1>5, <3>2
      <4>1. \/ home[n] = 3
            \/ home[n] = 1 /\ cfg.codeGen # "Object" /\ info[n].vis \in {Hidden, Internal}
        BY <3>1 DEF RightHome
      <4>2. info[n].vis \in {Hidden, Internal} => CategoryOf(n)' = 5
        BY <1>5, <3>2 DEF Hidden, Internal, Default, Protected
      <4>3. CategoryOf(n)' \in {4, 5}
        BY <1>5, <3>2
      <4> QED BY <1>2, <3>1, <4>1, <4>2, <4>3 DEF RightHome
    <3>3. CASE n \notin commons
      <4>1. CategoryOf(n)' = CategoryOf(n) /\ info[n].desc # "Common" /\ info[n] # NoInfo
        BY <1>3, <1>4, <1>6, <2>1, <3>3
      <4>2. CategoryOf(n) # 3
        BY <4>1 DEF CategoryOf, Category
      <4> QED BY <1>2, <3>1, <4>1, <4>2 DEF RightHome
    <3> QED BY <3>2, <3>3
  <2> QED BY <2>1 DEF HomeInv
<1>10. CommonInv'
  <2>1. Allocates' = Allocates
    BY <1>2 DEF Allocates
  <2>2. \A n \in Names : InTable(n)' => info'[n].desc # "Common"
    <3>1. ASSUME NEW n \in Names, InTable(n)'
          PROVE  info'[n].desc # "Common"
      BY <1>3, <1>4, <1>5, <1>6, <3>1
    <3> QED BY <3>1
  <2> QED BY <1>2, <2>1, <2>2 DEF CommonInv
<1>11. DefinedInv' /\ RoomInv'
  <2>1. ASSUME NEW s \in Stubs PROVE info'[s] = NoInfo
    <3>1. s \in Names /\ info[s] = NoInfo
      BY <1>1, <1>2, <2>1 DEF RoomInv, Names
    <3>2. s \notin commons
      BY <3>1
    <3> QED BY <1>6, <3>1, <3>2
  <2> QED BY <1>2, <2>1 DEF DefinedInv, RoomInv
<1>12. RegularInv'
  <2>1. ASSUME NEW n \in Names, InTable(n)', cfg.codeGen # "Object"
        PROVE  Unforced(n)'
    <3>1. Unforced(n) /\ home'[n] = home[n] /\ cfg' = cfg
      BY <1>1, <1>2, <1>3, <2>1 DEF RegularInv
    <3>2. CASE n \in commons
      <4>1. home[n] # 5 /\ info'[n].vis = info[n].vis
        BY <1>5, <3>2, Ranges
      <4> QED BY <3>1, <4>1 DEF Unforced
    <3>3. CASE n \notin commons
      BY <1>6, <3>1, <3>3 DEF Unforced, LocalByVisibility
    <3> QED BY <3>2, <3>3
  <2> QED BY <1>2, <2>1 DEF RegularInv
<1> QED BY <1>7, <1>8, <1>9, <1>10, <1>11, <1>12 DEF TablesInv

\* The first three ranges end where .dynsym and the global symbols begin.
LEMMA BordersInOrder ==
  ASSUME NEW T, NEW h, Exact(T, h)
  PROVE  /\ T.begin[0] = 0 /\ T.begin[1] = T.end[0] /\ T.begin[2] = T.end[1]
         /\ T.begin[3] = T.end[2] /\ T.begin[4] = T.end[3] /\ T.begin[5] = T.end[4]
         /\ Len(T.syms) = T.end[5] /\ Len(T.syms) \in Nat
         /\ \A c \in 0..5 : T.begin[c] \in Nat /\ T.end[c] \in Nat /\ T.begin[c] =< T.end[c]
<1>1. T \in P!Tables /\ P!Chained(T, -1)
  BY DEF Exact, P!InPlace
<1>2. P!Cats = 0..5 /\ P!File = 0 /\ P!Regular = 5
  BY DEF P!Cats, P!File, P!Regular
<1>3. /\ T.begin[0] = 0 /\ Len(T.syms) = T.end[5]
      /\ \A c, d \in 0..5 : d = c + 1 => T.begin[d] = T.end[c]
  BY <1>1, <1>2, P!Adjacent
<1>4. /\ Len(T.syms) \in Nat
      /\ \A c \in 0..5 : T.begin[c] \in Nat /\ T.end[c] \in Nat /\ T.begin[c] =< T.end[c]
  BY <1>1, <1>2, P!AdjacentInOrder
<1> QED BY <1>3, <1>4

LEMMA ChangeCommonTables ==
  ASSUME OutInv, TablesInv, ChangeCommonToGlobal
  PROVE  TablesInv'
<1> DEFINE x == SC!At(table, table.end[SC!Common] - 1)
           K == [n \in Names |-> CategoryOf(n)]
<1>1. /\ EntriesInv /\ TableInv
      /\ NamesInv /\ KeptInv /\ HomeInv /\ CommonInv /\ RegularInv /\ DefinedInv /\ RoomInv
  BY DEF OutInv, TablesInv
<1>2. UNCHANGED <<cfg, info, frag, stage, todo, sizes>> /\ SC!ChangeCommonToGlobal
  BY DEF ChangeCommonToGlobal
<1>3. /\ stage = "changing" /\ table.begin[SC!Common] # table.end[SC!Common]
      /\ K[x] \in {SC!Dynamic, SC!Regular}
      /\ table' = SC!ChangeCommon(table, K[x]) /\ home' = [home EXCEPT ![x] = K[x]]
  BY <1>2 DEF SC!ChangeCommonToGlobal
<1>4. \A y : SC!InTable(SC!ChangeCommon(table, K[x]), y) <=> SC!InTable(table, y)
  <2> HIDE DEF K
  <2> QED BY <1>1, <1>3, ChangeCommonExact DEF TableInv
<1>5. x \in Names
  <2> HIDE DEF K
  <2> QED BY <1>1, <1>3, ChangeCommonExact DEF TableInv
<1>6. \A n \in Names : /\ InTable(n)' <=> InTable(n)
                       /\ CategoryOf(n)' = CategoryOf(n)
  BY <1>2, <1>3, <1>4 DEF InTable, CategoryOf
<1>7. \A n \in Names : home'[n] = IF n = x THEN CategoryOf(x) ELSE home[n]
  <2>1. home \in [Names -> SC!Cats] /\ K[x] = CategoryOf(x)
    BY <1>1, <1>5 DEF TableInv, Exact
  <2> HIDE DEF K, x
  <2> QED BY <1>3, <2>1
<1>12. home[x] = 3
  <2> DEFINE p == table.end[3] - 1
  <2>1. /\ \A c \in P!Cats : \A q \in P!RangeOf(table, c) : home[P!At(table, q)] = c
        /\ 3 \in P!Cats /\ SC!Common = 3 /\ x = P!At(table, p)
    BY <1>1, Ranges, SameOperators DEF TableInv, Exact, P!InPlace
  <2>2. table.begin[3] \in Nat /\ table.end[3] \in Nat /\ table.begin[3] =< table.end[3]
    BY <1>1, BordersInOrder DEF TableInv
  <2>3. p \in table.begin[3] .. (table.end[3] - 1)
    BY <1>3, <2>1, <2>2
  <2> HIDE DEF p
  <2> QED BY <2>1, <2>3 DEF P!RangeOf
<1> HIDE DEF x, K
<1>8. HomeInv'
  <2>1. ASSUME NEW n \in Names, InTable(n)'
        PROVE  RightHome(n)'
    <3>1. RightHome(n)
      BY <1>1, <1>6, <2>1 DEF HomeInv
    <3> QED BY <1>2, <1>6, <1>7, <3>1 DEF RightHome
  <2> QED BY <2>1 DEF HomeInv
<1>9. KeptInv' /\ NamesInv' /\ CommonInv'
  BY <1>1, <1>2, <1>6 DEF KeptInv, Held, NamesInv, LinkerNames, CommonInv, Allocates
<1>10. DefinedInv' /\ RoomInv'
  BY <1>1, <1>2, <1>3 DEF DefinedInv, RoomInv
<1>11. RegularInv'
  <2>1. ASSUME NEW n \in Names, InTable(n)', cfg.codeGen # "Object"
        PROVE  Unforced(n)'
    <3>1. Unforced(n) /\ RightHome(n) /\ info[n] # NoInfo
      BY <1>1, <1>6, <2>1 DEF RegularInv, HomeInv, EntriesInv, TableInv
    <3>2. CASE home'[n] = home[n]
      BY <1>2, <3>1, <3>2 DEF Unforced, LocalByVisibility
    <3>3. CASE home'[n] # home[n]
      <4>1. n = x /\ home'[n] = CategoryOf(n) /\ home[n] = 3
        BY <1>7, <1>12, <2>1, <3>3
      <4>2. info[n].vis \in {Default, Protected}
        BY <3>1, <4>1 DEF Unforced
      <4>3. CategoryOf(n) # 5
        BY <3>1, <4>2 DEF CategoryOf, Category
      <4> QED BY <1>2, <4>1, <4>2, <4>3 DEF Unforced
    <3> QED BY <3>2, <3>3
  <2> QED BY <1>2, <2>1 DEF RegularInv
<1> QED BY <1>8, <1>9, <1>10, <1>11 DEF TablesInv

\* A symbol of the table is at a place of the range its history names.
LEMMA HasPlace ==
  ASSUME NEW T, NEW h, Exact(T, h), NEW n, SC!InTable(T, n)
  PROVE  \E p \in 0 .. (Len(T.syms) - 1) :
           /\ T.syms[p + 1] = n /\ h[n] \in P!Cats
           /\ T.begin[h[n]] =< p /\ p < T.end[h[n]]
<1>1. /\ T \in P!Tables /\ P!Chained(T, -1) /\ P!InTable(T, n)
      /\ \A c \in P!Cats : \A p \in P!RangeOf(T, c) : h[P!At(T, p)] = c
  BY SameOperators DEF Exact, P!InPlace
<1>2. PICK p \in 0 .. (Len(T.syms) - 1) : P!At(T, p) = n
  BY <1>1 DEF P!InTable, P!Positions
<1>3. PICK c \in P!Cats : p \in P!RangeOf(T, c)
  BY <1>1, P!Covered
<1>4. h[n] = c
  BY <1>1, <1>2, <1>3
<1>5. T.begin[c] \in Nat /\ T.end[c] \in Nat
  BY <1>1, <1>3, P!AdjacentInOrder
<1> QED BY <1>2, <1>3, <1>4, <1>5 DEF P!RangeOf, P!At

LEMMA CommonsChangedTables ==
  ASSUME OutInv, TablesInv, CommonsChanged
  PROVE  TablesInv'
<1>1. TableInv /\ RoomInv /\ table \in P!Tables
  BY DEF OutInv, TablesInv, TableInv, Exact
<1>2. /\ stage = "changing" /\ stage' = "standard"
      /\ todo' = IF cfg.codeGen = "Object" THEN {} ELSE DOMAIN cfg.standard
      /\ UNCHANGED <<cfg, info, frag, table, home, sizes>>
      /\ table.begin[3] = table.end[3]
  BY Ranges DEF CommonsChanged, Enter
<1>3. ASSUME NEW n \in Names, InTable(n), home[n] = 3
      PROVE  FALSE
  <2>1. PICK p \in 0 .. (Len(table.syms) - 1) : table.begin[3] =< p /\ p < table.end[3]
    BY <1>1, <1>3, HasPlace DEF TableInv, InTable
  <2>2. table.begin[3] \in Nat /\ table.end[3] \in Nat
    BY <1>1, Ranges DEF P!Tables
  <2> QED BY <1>2, <2>1, <2>2
<1>4. NamesInv' /\ KeptInv' /\ HomeInv' /\ CommonInv' /\ RegularInv'
  BY <1>2, <1>3, StillTables
<1>5. DefinedInv' /\ RoomInv'
  BY <1>1, <1>2 DEF DefinedInv, RoomInv
<1> QED BY <1>4, <1>5 DEF TablesInv

LEMMA DefineStandardTables ==
  ASSUME StandardStaysVisible, OutInv, TablesInv, NEW n \in Names, DefineStandard(n)
  PROVE  TablesInv'
<1> DEFINE new == cfg.standard[n]
           r == Resolve(info[n], new, 0, 0)
<1>1. /\ EntriesInv /\ TableInv /\ TodoInv /\ InputsInv
      /\ NamesInv /\ DefinedInv /\ RoomInv
  BY DEF OutInv, TablesInv
<1>2. /\ stage = "standard" /\ n \in todo /\ todo' = todo \ {n}
      /\ UNCHANGED <<cfg, stage, sizes>> /\ AsReferredResolve(n, new)
  BY DEF DefineStandard, Handle
<1>3. /\ n \in DOMAIN cfg.standard /\ n \in LinkerNames(cfg) /\ n \notin Stubs /\ n \notin Files
      /\ new \in Infos /\ new.desc = "Define" /\ ~new.dyn /\ new.bind # "Weak"
  <2>1. n \in DOMAIN cfg.standard /\ cfg \in Configs
    BY <1>1, <1>2 DEF TodoInv, EntriesInv
  <2>2. n \in LinkerNames(cfg)
    BY <2>1 DEF LinkerNames
  <2> QED BY <1>1, <2>1, <2>2, OutputAssumption DEF NamesInv
<1>4. CASE ~Referred(n)
  <2>1. UNCHANGED <<info, frag, table, home>>
    BY <1>2, <1>4 DEF AsReferredResolve
  <2>2. OwnDefinition(n)
    BY <1>4 DEF Referred, OwnDefinition
  <2>3. DefinedInv' /\ RoomInv'
    BY <1>1, <1>2, <2>1, <2>2 DEF DefinedInv, RoomInv, OwnDefinition
  <2>4. NamesInv' /\ KeptInv' /\ HomeInv' /\ CommonInv' /\ RegularInv'
    BY <1>2, <2>1, StillTables
  <2> QED BY <2>3, <2>4 DEF TablesInv
<1>5. CASE Referred(n)
  <2>1. /\ info[n] # NoInfo /\ info[n] \in Infos
        /\ info[n].desc = "Undefined" \/ info[n].dyn
        /\ info[n].bind = "Absolute" => info[n].desc = "Define"
    BY <1>1, <1>5 DEF EntriesInv, Referred, NamesInv
  <2>2. r.info \in Infos /\ r.info.desc = "Define" /\ ~r.info.dyn /\ r.overriden
    BY <1>3, <2>1, ResolveInfos, StandardResolves
  <2>3. /\ info' = [info EXCEPT ![n] = r.info]
        /\ frag' = [frag EXCEPT ![n] = IF r.overriden \/ @ = "None" THEN "linker" ELSE @]
        /\ IF ShouldForceLocal(r.info) THEN ForceLocal(n)
           ELSE IF frag[n] # "None" THEN Arrange(n, r.info)
           ELSE AddSymbol(n, r.info)
    BY <1>2, <1>5 DEF AsReferredResolve, ForceResolve
  <2>4. ASSUME ShouldForceLocal(r.info), frag[n] # "None"
        PROVE  FALSE
    <3>1. PICK i \in Inputs : i.info # NoInfo /\ i.frag # "None" /\ info[n] \in Allocated(i)
      BY <1>1, <1>2, <2>4 DEF InputsInv, FromInput
    <3>2. cfg \in Configs
      BY <1>1 DEF EntriesInv
    <3>3. ~ (/\ r.info.vis \in {Hidden, Internal}
             /\ r.info.bind \in {"Global", "Weak"}
             /\ r.info.desc \in {"Define", "Common"})
      BY <1>3, <2>1, <3>1, <3>2 DEF StandardStaysVisible
    <3> QED BY <2>4, <3>3 DEF ShouldForceLocal
  <2> HIDE DEF r
  <2>5. frag' = [frag EXCEPT ![n] = "linker"]
    BY <2>2, <2>3
  <2>6. \/ frag[n] = "None" /\ AddSymbol(n, r.info) /\ ~ShouldForceLocal(r.info)
        \/ frag[n] = "None" /\ ForceLocal(n) /\ ShouldForceLocal(r.info)
        \/ frag[n] # "None" /\ Arrange(n, r.info) /\ ~ShouldForceLocal(r.info)
    BY <2>3, <2>4
  <2>7. frag[n] # "dropped" /\ "linker" \in Frags \ {"None", "dropped"}
    BY <1>1, <1>3 DEF NamesInv, Frags
  <2>8. NamesInv' /\ KeptInv' /\ HomeInv' /\ CommonInv' /\ RegularInv'
    BY <1>2, <1>3, <2>2, <2>3, <2>5, <2>6, <2>7, PlacedTables
  <2>9. /\ info'[n] = r.info
        /\ \A y \in Names : y # n => info'[y] = info[y]
    BY <1>1, <2>3 DEF EntriesInv
  <2>10. DefinedInv'
    <3>1. \A y \in DOMAIN cfg.standard : y \in Names
      BY <1>1 DEF EntriesInv, Names, LinkerNames
    <3> QED BY <1>1, <1>2, <2>2, <2>9, <3>1 DEF DefinedInv, OwnDefinition
  <2>11. RoomInv'
    <3>1. \A y \in Stubs : y \in Names /\ y # n
      BY <1>3 DEF Names
    <3> QED BY <1>1, <1>2, <2>9, <3>1 DEF RoomInv
  <2> QED BY <2>8, <2>10, <2>11 DEF TablesInv
<1> QED BY <1>4, <1>5

LEMMA AssignScriptSymbolTables ==
  ASSUME OutInv, TablesInv, NEW n \in Names, AssignScriptSymbol(n)
  PROVE  TablesInv'
<1> DEFINE new == AssignedInfo(n)
<1>1. EntriesInv /\ TodoInv /\ NamesInv /\ DefinedInv /\ RoomInv
  BY DEF OutInv, TablesInv
<1>2. /\ stage = "script" /\ n \in todo /\ todo' = todo \ {n}
      /\ UNCHANGED <<cfg, stage, sizes>>
      /\ ForceUnresolve(n, new) \/ AsReferredUnresolve(n, new)
  BY DEF AssignScriptSymbol, Handle
<1>3. n \in LinkerNames(cfg) /\ n \notin Stubs /\ n \notin Files
  <2>1. n \in DOMAIN cfg.script /\ cfg \in Configs
    BY <1>1, <1>2 DEF TodoInv, EntriesInv
  <2> QED BY <1>1, <2>1, OutputAssumption DEF NamesInv, LinkerNames
<1>4. /\ new \in Infos /\ new.bind = "Absolute" /\ new.desc = "Define" /\ ~new.dyn
      /\ ~ShouldForceLocal(new)
  BY <1>1, AssignedInfoType
<1>5. frag[n] # "dropped" /\ "linker" \in Frags \ {"None", "dropped"}
  BY <1>1, <1>3 DEF NamesInv, Frags
<1> HIDE DEF new
<1>6. ASSUME NEW i \in Infos, i.desc = "Define", ~i.dyn, i.bind = "Absolute", info' = [info EXCEPT ![n] = i],
             frag' = [frag EXCEPT ![n] = "linker"],
             \/ frag[n] = "None" /\ AddSymbol(n, i)
             \/ frag[n] # "None" /\ Arrange(n, i)
      PROVE  TablesInv'
  <2>1. NamesInv' /\ KeptInv' /\ HomeInv' /\ CommonInv' /\ RegularInv'
    <3>1. ~ShouldForceLocal(i)
      BY <1>6 DEF ShouldForceLocal
    <3> QED BY <1>2, <1>3, <1>5, <1>6, <3>1, PlacedTables
  <2>2. /\ info'[n] = i
        /\ \A y \in Names : y # n => info'[y] = info[y]
    BY <1>1, <1>6 DEF EntriesInv
  <2>3. DefinedInv'
    <3>1. \A y \in LinkerNames(cfg) : y \in Names
      BY <1>1 DEF EntriesInv, Names
    <3>2. LinkerNames(cfg)' = LinkerNames(cfg)
      BY <1>2 DEF LinkerNames
    <3> QED BY <1>1, <1>2, <1>6, <2>2, <3>1, <3>2 DEF DefinedInv, OwnDefinition
  <2>4. RoomInv'
    <3>1. \A y \in Stubs : y \in Names /\ y # n
      BY <1>3 DEF Names
    <3> QED BY <1>1, <1>2, <2>2, <3>1 DEF RoomInv
  <2> QED BY <2>1, <2>3, <2>4 DEF TablesInv
<1>7. ASSUME info[n] # NoInfo
      PROVE  /\ Overridden(n, new) \in Infos
             /\ Overridden(n, new).desc = "Define" /\ ~Overridden(n, new).dyn
             /\ Overridden(n, new).bind = "Absolute"
  <2>1. info[n] \in Infos
    BY <1>1, <1>7 DEF EntriesInv
  <2> QED BY <1>1, <1>4, <1>7, <2>1, OverriddenType DEF Overridden, Infos
<1>8. info[n] = NoInfo => frag[n] = "None"
  BY <1>1 DEF EntriesInv
<1>9. CASE ForceUnresolve(n, new)
  <2> DEFINE i == IF info[n] = NoInfo THEN new ELSE Overridden(n, new)
  <2>1. i \in Infos /\ i.desc = "Define" /\ ~i.dyn /\ i.bind = "Absolute"
    BY <1>4, <1>7
  <2>2. /\ info' = [info EXCEPT ![n] = i] /\ frag' = [frag EXCEPT ![n] = "linker"]
        /\ \/ frag[n] = "None" /\ AddSymbol(n, i)
           \/ frag[n] # "None" /\ Arrange(n, i)
    BY <1>4, <1>9 DEF ForceUnresolve
  <2> HIDE DEF i
  <2> QED BY <1>6, <2>1, <2>2
<1>10. CASE AsReferredUnresolve(n, new) /\ Referred(n)
  <2>1. info[n] # NoInfo
    BY <1>10 DEF Referred
  <2>2. /\ info' = [info EXCEPT ![n] = Overridden(n, new)]
        /\ frag' = [frag EXCEPT ![n] = "linker"]
        /\ \/ frag[n] = "None" /\ AddSymbol(n, Overridden(n, new))
           \/ frag[n] # "None" /\ Arrange(n, Overridden(n, new))
    BY <1>10 DEF AsReferredUnresolve
  <2> QED BY <1>6, <1>7, <2>1, <2>2
<1>11. CASE AsReferredUnresolve(n, new) /\ ~Referred(n)
  <2>1. UNCHANGED <<info, frag, table, home>>
    BY <1>11 DEF AsReferredUnresolve
  <2>2. OwnDefinition(n)
    BY <1>11 DEF Referred, OwnDefinition
  <2>3. DefinedInv' /\ RoomInv'
    BY <1>1, <1>2, <2>1, <2>2 DEF DefinedInv, RoomInv, HasDynsym, OwnDefinition, LinkerNames
  <2>4. NamesInv' /\ KeptInv' /\ HomeInv' /\ CommonInv' /\ RegularInv'
    BY <1>2, <2>1, StillTables
  <2> QED BY <2>3, <2>4 DEF TablesInv
<1> QED BY <1>2, <1>9, <1>10, <1>11

LEMMA AddSymbolToDynSymTables ==
  ASSUME OutInv, TablesInv, NEW n \in Names, AddSymbolToDynSym(n)
  PROVE  TablesInv'
<1>1. /\ EntriesInv /\ TableInv
      /\ NamesInv /\ KeptInv /\ HomeInv /\ CommonInv /\ RegularInv /\ DefinedInv /\ RoomInv
  BY DEF OutInv, TablesInv
<1>2. /\ stage = "scanning" /\ InTable(n) /\ n \notin Files /\ info[n].bind = "Local"
      /\ table' = SC!Arrange(table, n, CategoryOf(n), SC!LocalDyn)
      /\ home' = [home EXCEPT ![n] = SC!LocalDyn]
      /\ UNCHANGED <<cfg, info, frag, stage, todo, sizes>>
  BY DEF AddSymbolToDynSym
<1>3. CategoryOf(n) # SC!LocalDyn /\ SC!LocalDyn \in SC!Cats
  BY Ranges DEF CategoryOf, Category
<1>4. SC!InTable(table, n)
  BY <1>2 DEF InTable
<1>5. \A y : SC!InTable(SC!Arrange(table, n, CategoryOf(n), SC!LocalDyn), y)
               <=> SC!InTable(table, y)
  BY <1>1, <1>3, <1>4, ArrangeExact DEF TableInv
<1>6. \A y \in Names : /\ InTable(y)' <=> InTable(y)
                       /\ CategoryOf(y)' = CategoryOf(y)
                       /\ home'[y] = IF y = n THEN 2 ELSE home[y]
  BY <1>1, <1>2, <1>5, Ranges DEF InTable, CategoryOf, TableInv, Exact
<1>7. CategoryOf(n) = 1
  <2>1. info[n] # NoInfo
    BY <1>1, <1>2 DEF EntriesInv, TableInv
  <2> QED BY <1>2, <2>1 DEF CategoryOf, Category
<1>8. HomeInv'
  <2>1. ASSUME NEW y \in Names, InTable(y)'
        PROVE  RightHome(y)'
    <3>1. RightHome(y)
      BY <1>1, <1>6, <2>1 DEF HomeInv
    <3> QED BY <1>2, <1>6, <1>7, <3>1 DEF RightHome
  <2> QED BY <2>1 DEF HomeInv
<1>9. KeptInv' /\ NamesInv' /\ CommonInv'
  BY <1>1, <1>2, <1>6 DEF KeptInv, Held, NamesInv, LinkerNames, CommonInv, Allocates
<1>10. DefinedInv' /\ RoomInv'
  BY <1>1, <1>2 DEF DefinedInv, RoomInv, HasDynsym, OwnDefinition, LinkerNames
<1>11. RegularInv'
  BY <1>1, <1>2, <1>6 DEF RegularInv, Unforced, LocalByVisibility
<1> QED BY <1>8, <1>9, <1>10, <1>11 DEF TablesInv

LEMMA FinalizeSectionSymbolTables ==
  ASSUME OutInv, TablesInv, NEW n \in Names, FinalizeSectionSymbol(n)
  PROVE  TablesInv'
<1>1. EntriesInv /\ TodoInv /\ NamesInv /\ DefinedInv /\ RoomInv
  BY DEF OutInv, TablesInv
<1>2. /\ stage = "prelayout" /\ n \in todo /\ todo' = todo \ {n}
      /\ UNCHANGED <<cfg, stage, sizes>>
      /\ info' = [info EXCEPT ![n] = LocalInfo] /\ frag' = [frag EXCEPT ![n] = "kept"]
      /\ AddSymbol(n, LocalInfo)
  BY DEF FinalizeSectionSymbol, Handle
<1>3. frag[n] = "None" /\ n \in SectionSyms
  BY <1>1, <1>2 DEF TodoInv
<1>4. n \notin Files /\ n \notin LinkerNames(cfg) /\ n \notin Stubs
  BY <1>1, <1>3, OutputAssumption DEF EntriesInv
<1>5. /\ LocalInfo \in Infos /\ LocalInfo.desc = "Define" /\ ~ShouldForceLocal(LocalInfo)
      /\ "kept" \in Frags \ {"None", "dropped"}
  BY LocalInfoType DEF LocalInfo, Frags, ShouldForceLocal
<1>6. NamesInv' /\ KeptInv' /\ HomeInv' /\ CommonInv' /\ RegularInv'
  BY <1>2, <1>3, <1>4, <1>5, PlacedTables
<1>7. \A y \in Names : y # n => info'[y] = info[y]
  BY <1>1, <1>2 DEF EntriesInv
<1>8. DefinedInv'
  <2>1. \A y \in LinkerNames(cfg) : y \in Names /\ y # n
    BY <1>1, <1>4 DEF EntriesInv, Names
  <2>2. LinkerNames(cfg)' = LinkerNames(cfg)
    BY <1>2 DEF LinkerNames
  <2> QED BY <1>1, <1>2, <1>7, <2>1, <2>2 DEF DefinedInv, OwnDefinition
<1>9. RoomInv'
  <2>1. \A y \in Stubs : y \in Names /\ y # n
    BY <1>4 DEF Names
  <2> QED BY <1>1, <1>2, <1>7, <2>1 DEF RoomInv
<1> QED BY <1>6, <1>8, <1>9 DEF TablesInv

LEMMA SizeNamePoolsTables ==
  ASSUME OutInv, TablesInv, SizeNamePools
  PROVE  TablesInv'
<1>1. /\ EntriesInv /\ TableInv /\ DefinedInv /\ RoomInv
      /\ sizes \in [symtab : Nat, shInfo : Nat, dynsym : Nat]
  BY DEF OutInv, TablesInv, SizesInv
<1>2. /\ stage = "prelayout" /\ stage' = "relaxing" /\ todo' \subseteq Branches
      /\ UNCHANGED <<cfg, info, frag, table, home>>
  BY DEF SizeNamePools, Enter
<1>3. NamesInv' /\ KeptInv' /\ HomeInv' /\ CommonInv' /\ RegularInv'
  BY <1>2, StillTables
<1>4. DefinedInv'
  BY <1>1, <1>2 DEF DefinedInv, OwnDefinition, LinkerNames
<1>5. RoomInv'
  <2> DEFINE b == table.begin
             e == table.end
             n == Len(table.syms)
  <2>1. /\ b[0] = 0 /\ b[1] = e[0] /\ b[2] = e[1] /\ n \in Nat
        /\ e[0] \in Nat /\ e[1] \in Nat /\ e[2] \in Nat
    BY <1>1, BordersInOrder DEF TableInv
  <2>2. 1 + (e[0] - b[0]) + (e[1] - b[1]) + (e[2] - b[2]) = 1 + e[2]
    BY SMTT(60), <2>1
  <2>3. /\ cfg.strip # "StripAll" =>
             sizes'.symtab = 1 + n /\ sizes'.shInfo = 1 + NumOf(0) + NumOf(1) + NumOf(2)
        /\ HasDynsym => sizes'.dynsym = 1 + e[4] - b[2]
    BY Ranges DEF SizeNamePools
  <2>4. NumOf(0) = e[0] - b[0] /\ NumOf(1) = e[1] - b[1] /\ NumOf(2) = e[2] - b[2]
    BY DEF NumOf
  <2>5. ASSUME cfg.strip # "StripAll"
        PROVE  1 + n =< sizes'.symtab /\ sizes'.shInfo - 1 = e[2]
    <3>1. sizes'.shInfo = 1 + e[2] /\ sizes'.symtab = 1 + n
      BY <2>2, <2>3, <2>4, <2>5
    <3>2. (1 + e[2]) - 1 = e[2] /\ 1 + n =< 1 + n
      BY <2>1
    <3> HIDE DEF e, n
    <3> QED BY <3>1, <3>2
  <2>6. \A br \in todo' : info[StubOf[br]] = NoInfo
    BY <1>1, <1>2 DEF RoomInv, Stubs
  <2> QED BY <1>2, <2>3, <2>5, <2>6 DEF RoomInv, HasDynsym
<1> QED BY <1>3, <1>4, <1>5 DEF TablesInv

LEMMA RelaxBranchTables ==
  ASSUME StubsCounted, OutInv, TablesInv, NEW br \in Branches, RelaxBranch(br)
  PROVE  TablesInv'
<1> DEFINE s == StubOf[br]
<1>1. /\ EntriesInv /\ TableInv /\ TodoInv /\ NamesInv /\ DefinedInv /\ RoomInv
      /\ sizes \in [symtab : Nat, shInfo : Nat, dynsym : Nat] /\ cfg \in Configs
  BY DEF OutInv, TablesInv, SizesInv, EntriesInv
<1>2. /\ stage = "relaxing" /\ br \in todo /\ todo' = todo \ {br} /\ UNCHANGED <<cfg, stage>>
      /\ GrowForStub
  BY DEF RelaxBranch, Handle
<1>3. info[s] = NoInfo /\ frag[s] = "None" /\ s \in Stubs /\ s \in Names
  <2>1. s \in Stubs /\ s \in Names
    BY DEF Names, Stubs, Branches
  <2> QED BY <1>1, <1>2, <2>1 DEF RoomInv, EntriesInv
<1>4. s \notin Files /\ s \notin LinkerNames(cfg)
  BY <1>1, <1>3, OutputAssumption
<1>5. /\ info' = [info EXCEPT ![s] = LocalInfo] /\ frag' = [frag EXCEPT ![s] = "linker"]
      /\ AddSymbol(s, LocalInfo)
  BY <1>2, <1>3, LocalInfoType DEF RelaxBranch, ForceUnresolve
<1>6. /\ LocalInfo \in Infos /\ LocalInfo.desc = "Define" /\ ~ShouldForceLocal(LocalInfo)
      /\ "linker" \in Frags \ {"None", "dropped"}
  BY LocalInfoType DEF LocalInfo, Frags, ShouldForceLocal
<1>7. Category(s, LocalInfo) = 1
  BY <1>4 DEF Category, LocalInfo
<1> HIDE DEF s
<1>8. NamesInv' /\ KeptInv' /\ HomeInv' /\ CommonInv' /\ RegularInv'
  BY <1>2, <1>3, <1>4, <1>5, <1>6, PlacedTables
<1>9. \A y \in Names : y # s => info'[y] = info[y]
  BY <1>1, <1>5 DEF EntriesInv
<1>10. DefinedInv'
  <2>1. \A y \in LinkerNames(cfg) : y \in Names /\ y # s
    BY <1>1, <1>4 DEF Names
  <2>2. LinkerNames(cfg)' = LinkerNames(cfg)
    BY <1>2 DEF LinkerNames
  <2> QED BY <1>1, <1>2, <1>9, <2>1, <2>2 DEF DefinedInv, OwnDefinition
<1>11. RoomInv'
  <2> DEFINE T == table
             U == SC!AddTo(table, s, 1)
  <2>1. table' = U
    BY <1>5, <1>7 DEF AddSymbol
  <2>2. /\ U.end[2] = T.end[2] + 1 /\ U.begin[2] = T.begin[2] + 1
        /\ U.end[4] = T.end[4] + 1 /\ U.end[5] = T.end[5] + 1
    <3>1. U = P!AddTo(table, s, 1) /\ table \in P!Tables
      BY <1>1, SameOperators DEF TableInv, Exact
    <3>2. 1 \in P!Cats /\ 2 \in P!Cats /\ 4 \in P!Cats /\ 5 \in P!Cats
      BY Ranges
    <3> QED BY <3>1, <3>2, P!AddBorders
  <2>3. /\ Len(T.syms) = T.end[5] /\ T.end[5] \in Nat /\ T.end[2] \in Nat
        /\ T.end[4] \in Nat /\ T.begin[2] \in Nat
    BY <1>1, BordersInOrder DEF TableInv
  <2>4. Len(U.syms) = U.end[5]
    <3>1. Exact(table', home')
      BY RelaxBranchOut DEF OutInv, TableInv
    <3> QED BY <2>1, <3>1, BordersInOrder
  <2> HIDE DEF U, T
  <2>5. cfg.strip # "StripAll" =>
          /\ sizes'.symtab = sizes.symtab + 1 /\ sizes'.shInfo = sizes.shInfo + 1
          /\ 1 + Len(T.syms) =< sizes.symtab /\ sizes.shInfo - 1 = T.end[2]
    <3>1. cfg.strip \in {"Keep", "StripLocals", "StripAll"} /\ cfg.strip # "StripLocals"
      BY <1>1, OutputAssumption DEF StubsCounted
    <3>2. cfg.strip = "Keep" =>
            /\ sizes'.symtab = sizes.symtab + 1 /\ sizes'.shInfo = sizes.shInfo + 1
      BY <1>1, <1>2 DEF GrowForStub
    <3> QED BY <1>1, <1>2, <3>1, <3>2 DEF RoomInv, T
  <2>6. HasDynsym =>
          sizes'.dynsym = sizes.dynsym /\ sizes.dynsym = 1 + T.end[4] - T.begin[2]
    BY <1>1, <1>2 DEF GrowForStub, RoomInv, T
  <2>7. sizes.symtab \in Nat /\ sizes.shInfo \in Nat /\ sizes.dynsym \in Nat
    BY <1>1
  <2>8. ASSUME cfg.strip # "StripAll"
        PROVE  1 + Len(U.syms) =< sizes'.symtab /\ sizes'.shInfo - 1 = U.end[2]
    <3>1. Len(U.syms) = Len(T.syms) + 1 /\ Len(T.syms) \in Nat
      BY <2>2, <2>3, <2>4
    <3>2. 1 + (Len(T.syms) + 1) =< sizes.symtab + 1
      BY <2>5, <2>7, <2>8, <3>1
    <3>3. (sizes.shInfo + 1) - 1 = T.end[2] + 1
      BY SMTT(60), <2>3, <2>5, <2>7, <2>8
    <3> QED BY <2>2, <2>5, <2>8, <3>1, <3>2, <3>3
  <2>9. ASSUME HasDynsym
        PROVE  sizes'.dynsym = 1 + U.end[4] - U.begin[2]
    <3> DEFINE e == T.end[4]
               b == T.begin[2]
    <3>1. e \in Nat /\ b \in Nat
      BY <2>3
    <3> HIDE DEF e, b
    <3>2. 1 + (e + 1) - (b + 1) = 1 + e - b
      BY <3>1
    <3> QED BY <2>2, <2>6, <2>9, <3>2 DEF e, b
  <2>10. \A d \in todo' : info'[StubOf[d]] = NoInfo
    <3>1. ASSUME NEW d \in todo' PROVE info'[StubOf[d]] = NoInfo
      <4>1. d \in Branches /\ d # br /\ d \in todo
        BY <1>1, <1>2, <3>1 DEF TodoInv
      <4>2. StubOf[d] # s /\ StubOf[d] \in Names
        BY <4>1 DEF StubsCounted, s, Names, Stubs
      <4> QED BY <1>1, <1>2, <1>9, <4>1, <4>2 DEF RoomInv
    <3> QED BY <3>1
  <2> QED BY <1>2, <2>1, <2>8, <2>9, <2>10 DEF RoomInv, HasDynsym
<1> QED BY <1>8, <1>10, <1>11 DEF TablesInv
\* Every step of the passes keeps what the emitted tables rest on.
LEMMA NextTables ==
  ASSUME StandardStaysVisible, StubsCounted, OutInv, TablesInv, [Next]_vars
  PROVE  TablesInv'
<1>1. TodoInv /\ DefinedInv /\ RoomInv /\ NamesInv /\ KeptInv /\ HomeInv /\ CommonInv /\ RegularInv
  BY DEF OutInv, TablesInv
<1>2. ASSUME NEW n \in Names,
             \/ AddSymbolToOutput(n) \/ DefineStandard(n) \/ AssignScriptSymbol(n)
             \/ AddSymbolToDynSym(n) \/ FinalizeSectionSymbol(n)
      PROVE  TablesInv'
  BY <1>2, AddSymbolToOutputTables, DefineStandardTables, AssignScriptSymbolTables,
     AddSymbolToDynSymTables, FinalizeSectionSymbolTables
<1>3. CASE AllocateCommonSymbols \/ ChangeCommonToGlobal \/ CommonsChanged
  BY <1>3, AllocateTables, ChangeCommonTables, CommonsChangedTables
<1>4. ASSUME NEW br \in Branches, RelaxBranch(br)
      PROVE  TablesInv'
  BY <1>4, RelaxBranchTables
<1>5. CASE SizeNamePools
  BY <1>5, SizeNamePoolsTables
<1>6. CASE KeepCommonSymbols
  <2>1. /\ stage = "adding" /\ stage' = "standard" /\ todo = {} /\ ~Allocates
        /\ UNCHANGED <<cfg, info, frag, table, home, sizes>>
    BY <1>6 DEF KeepCommonSymbols, Enter
  <2>2. cfg.codeGen = "Object"
    BY <2>1 DEF Allocates
  <2>3. DefinedInv' /\ RoomInv'
    BY <1>1, <2>1, <2>2 DEF DefinedInv, RoomInv
  <2>4. NamesInv' /\ KeptInv' /\ HomeInv' /\ CommonInv' /\ RegularInv'
    BY <2>1, StillTables
  <2> QED BY <2>3, <2>4 DEF TablesInv
<1>7. CASE StandardDefined
  <2>1. /\ stage = "standard" /\ stage' = "script" /\ todo = {}
        /\ todo' = DOMAIN cfg.script
        /\ UNCHANGED <<cfg, info, frag, table, home, sizes>>
    BY <1>7 DEF StandardDefined, Enter
  <2>2. DefinedInv' /\ RoomInv'
    BY <1>1, <2>1 DEF DefinedInv, RoomInv, HasDynsym, OwnDefinition, LinkerNames
  <2>3. NamesInv' /\ KeptInv' /\ HomeInv' /\ CommonInv' /\ RegularInv'
    BY <2>1, StillTables
  <2> QED BY <2>2, <2>3 DEF TablesInv
<1>8. CASE ScriptAssigned \/ RelocationsScanned
  <2>1. /\ \/ stage = "script" /\ todo = {} /\ stage' = "scanning"
           \/ stage = "scanning" /\ stage' = "prelayout"
        /\ UNCHANGED <<cfg, info, frag, table, home, sizes>>
    BY <1>8 DEF ScriptAssigned, RelocationsScanned, Enter
  <2>2. DefinedInv' /\ RoomInv'
    BY <1>1, <2>1 DEF DefinedInv, RoomInv, HasDynsym, OwnDefinition, LinkerNames
  <2>3. NamesInv' /\ KeptInv' /\ HomeInv' /\ CommonInv' /\ RegularInv'
    BY <2>1, StillTables
  <2> QED BY <2>2, <2>3 DEF TablesInv
<1>9. CASE EmitNamePools
  <2>1. /\ stage = "relaxing" /\ stage' = "emitted"
        /\ UNCHANGED <<cfg, info, frag, table, home, sizes>>
    BY <1>9 DEF EmitNamePools, Enter
  <2>2. DefinedInv' /\ RoomInv'
    BY <1>1, <2>1 DEF DefinedInv, RoomInv, HasDynsym, OwnDefinition, LinkerNames
  <2>3. NamesInv' /\ KeptInv' /\ HomeInv' /\ CommonInv' /\ RegularInv'
    BY <2>1, StillTables
  <2> QED BY <2>2, <2>3 DEF TablesInv
<1>10. CASE UNCHANGED vars
  <2>1. UNCHANGED <<cfg, info, frag, table, home, stage, todo, sizes>>
    BY <1>10 DEF vars
  <2>2. \A n \in Names : (InTable(n)' <=> InTable(n)) /\ CategoryOf(n)' = CategoryOf(n)
    BY <2>1 DEF InTable, CategoryOf
  <2>3. NamesInv' /\ KeptInv'
    BY <1>1, <2>1, <2>2 DEF NamesInv, LinkerNames, KeptInv, Held
  <2>4. HomeInv' /\ CommonInv' /\ RegularInv'
    BY <1>1, <2>1, <2>2
       DEF HomeInv, RightHome, CommonInv, Allocates, RegularInv, Unforced, LocalByVisibility
  <2>5. DefinedInv' /\ RoomInv'
    BY <1>1, <2>1 DEF DefinedInv, RoomInv, HasDynsym, OwnDefinition, LinkerNames
  <2> QED BY <2>3, <2>4, <2>5 DEF TablesInv
<1> QED BY <1>2, <1>3, <1>4, <1>5, <1>6, <1>7, <1>8, <1>9, <1>10 DEF Next

\* The symbol at a place of the table is at home in the range of the place.
LEMMA PlaceHome ==
  ASSUME NEW T, NEW h, Exact(T, h), NEW p \in 1 .. Len(T.syms)
  PROVE  /\ T.syms[p] \in Names /\ SC!InTable(T, T.syms[p]) /\ h[T.syms[p]] \in 0..5
         /\ p =< T.end[2] => h[T.syms[p]] \in {0, 1, 2}
         /\ p > T.end[2] => h[T.syms[p]] \in {3, 4, 5}
<1> DEFINE n == T.syms[p]
<1>1. /\ T \in P!Tables /\ P!Chained(T, -1) /\ T.syms \in Seq(Names)
      /\ \A c \in P!Cats : \A q \in P!RangeOf(T, c) : h[P!At(T, q)] = c
  BY DEF Exact, P!InPlace, P!Tables
<1>2. n \in Names /\ p - 1 \in 0 .. (Len(T.syms) - 1) /\ P!At(T, p - 1) = n
  BY <1>1 DEF P!At
<1>3. SC!InTable(T, n)
  BY <1>2, SameOperators DEF P!InTable, P!Positions
<1>4. PICK c \in P!Cats : p - 1 \in P!RangeOf(T, c)
  BY <1>1, <1>2, P!Covered
<1>5. h[n] = c
  BY <1>1, <1>2, <1>4
<1>6. /\ c \in 0..5 /\ T.begin[c] =< p - 1 /\ p - 1 < T.end[c]
      /\ T.begin[c] \in Nat /\ T.end[c] \in Nat
  <2>1. c \in 0..5 /\ p - 1 \in T.begin[c] .. (T.end[c] - 1)
    BY <1>4, Ranges DEF P!RangeOf
  <2>2. T.begin[c] \in Nat /\ T.end[c] \in Nat
    BY <2>1, BordersInOrder
  <2> QED BY <2>1, <2>2
<1> HIDE DEF n
<1> DEFINE b == T.begin
           e == T.end
<1>7. /\ b[1] = e[0] /\ b[2] = e[1] /\ b[3] = e[2] /\ b[4] = e[3] /\ b[5] = e[4]
      /\ e[0] \in Nat /\ e[1] \in Nat /\ e[2] \in Nat /\ e[3] \in Nat /\ e[4] \in Nat
      /\ e[0] =< e[1] /\ e[1] =< e[2] /\ e[2] =< e[3] /\ e[3] =< e[4] /\ p \in Int
  <2>1. /\ b[1] = e[0] /\ b[2] = e[1] /\ b[3] = e[2] /\ b[4] = e[3] /\ b[5] = e[4]
        /\ b[1] =< e[1] /\ b[2] =< e[2] /\ b[3] =< e[3] /\ b[4] =< e[4]
        /\ e[0] \in Nat /\ e[1] \in Nat /\ e[2] \in Nat /\ e[3] \in Nat /\ e[4] \in Nat
    BY BordersInOrder
  <2> QED BY <2>1
<1>8. ASSUME p =< e[2]
      PROVE  c \in {0, 1, 2}
  <2>1. ~ (e[2] =< p - 1)
    BY <1>7, <1>8
  <2>2. c \in {3, 4, 5} => e[2] =< b[c]
    <3>1. e[2] =< b[3] /\ e[2] =< b[4] /\ e[2] =< b[5]
      BY SMTT(60), <1>7
    <3> QED BY <3>1
  <2>3. b[c] =< p - 1 /\ b[c] \in Nat
    BY <1>6
  <2>4. c \notin {3, 4, 5}
    BY SMTT(60), <1>7, <2>1, <2>2, <2>3
  <2> QED BY <1>6, <2>4
<1>9. ASSUME p > e[2]
      PROVE  c \in {3, 4, 5}
  <2>1. ~ (p - 1 < e[2])
    BY <1>7, <1>9
  <2>2. c \in {0, 1, 2} => e[c] =< e[2]
    <3>1. e[0] =< e[2] /\ e[1] =< e[2] /\ e[2] =< e[2]
      BY SMTT(60), <1>7
    <3> QED BY <3>1
  <2>3. p - 1 < e[c] /\ e[c] \in Nat
    BY <1>6
  <2>4. c \notin {0, 1, 2}
    BY SMTT(60), <1>7, <2>1, <2>2, <2>3
  <2> QED BY <1>6, <2>4
<1> QED BY <1>2, <1>3, <1>5, <1>6, <1>8, <1>9 DEF n

\* The symbol at a place of the first three ranges is local, or hidden.
LEMMA LowSymbolsLocal ==
  ASSUME OutInv, TablesInv, stage = "emitted",
         NEW p \in 1 .. Len(table.syms), p =< table.end[2]
  PROVE  Bind(table.syms[p]) = "STB_LOCAL"
<1> DEFINE n == table.syms[p]
<1>1. /\ EntriesInv /\ HomeInv /\ KeptInv /\ NamesInv /\ Exact(table, home)
  BY DEF OutInv, TablesInv, TableInv
<1>2. n \in Names /\ InTable(n) /\ home[n] \in {0, 1, 2}
  BY <1>1, PlaceHome DEF InTable
<1> HIDE DEF n
<1>3. RightHome(n) /\ info[n] # NoInfo
  BY <1>1, <1>2 DEF HomeInv, KeptInv, Held, EntriesInv
<1>4. CategoryOf(n) = Category(n, info[n])
  BY <1>3 DEF CategoryOf
<1>5. \/ info[n].bind = "Local"
      \/ cfg.codeGen # "Object" /\ info[n].vis \in {Hidden, Internal}
  <2>1. info[n] \in Infos
    BY <1>1, <1>2, <1>3 DEF EntriesInv
  <2>2. CASE n \in Files
    BY <1>1, <2>2 DEF NamesInv
  <2>3. CASE n \notin Files /\ CategoryOf(n) = 1
    BY <1>4, <2>3 DEF Category
  <2>4. CASE n \notin Files /\ CategoryOf(n) # 1
    <3>1. CategoryOf(n) \in {3, 4, 5}
      BY <1>4, <2>4 DEF Category
    <3>2. CategoryOf(n) = 5 /\ cfg.codeGen # "Object"
      BY <1>2, <1>3, <2>4, <3>1 DEF RightHome
    <3>3. info[n].vis \notin {Default, Protected}
      BY <1>4, <2>4, <3>2 DEF Category
    <3> QED BY <2>1, <3>2, <3>3 DEF Infos, Default, Protected, Hidden, Internal
  <2> QED BY <2>2, <2>3, <2>4
<1> QED BY <1>5 DEF Bind, n

\* The symbol at a place behind them is not, unless only its visibility makes
\* it local.
LEMMA HighSymbolsGlobal ==
  ASSUME OutInv, TablesInv, stage = "emitted",
         NEW p \in 1 .. Len(table.syms), p > table.end[2],
         Bind(table.syms[p]) = "STB_LOCAL"
  PROVE  LocalByVisibility(table.syms[p])
<1> DEFINE n == table.syms[p]
<1>1. /\ EntriesInv /\ HomeInv /\ KeptInv /\ CommonInv /\ RegularInv /\ Exact(table, home)
  BY DEF OutInv, TablesInv, TableInv
<1>2. n \in Names /\ InTable(n) /\ home[n] \in {3, 4, 5} /\ Bind(n) = "STB_LOCAL"
  BY <1>1, PlaceHome DEF InTable
<1> HIDE DEF n
<1>3. RightHome(n) /\ info[n] # NoInfo
  BY <1>1, <1>2 DEF HomeInv, KeptInv, Held, EntriesInv
<1>4. home[n] = Category(n, info[n])
  BY <1>2, <1>3 DEF RightHome, CategoryOf
<1>5. info[n].bind # "Local"
  BY <1>2, <1>4 DEF Category
<1>6. cfg.codeGen # "Object" /\ info[n].vis \in {Hidden, Internal}
  BY <1>2, <1>5 DEF Bind
<1>7. info[n].desc # "Common" /\ info[n].vis \notin {Default, Protected}
  <2>1. InTable(n) => info[n].desc # "Common"
    BY <1>1, <1>2, <1>6 DEF CommonInv, Allocates
  <2> QED BY <1>2, <1>6, <2>1 DEF Hidden, Internal, Default, Protected
<1>8. home[n] = 5
  BY <1>2, <1>4, <1>5, <1>7 DEF Category
<1>9. LocalByVisibility(n)
  BY <1>1, <1>2, <1>6, <1>8 DEF RegularInv, Unforced
<1> QED BY <1>9 DEF n

\* The elements of a part of a sequence.
LEMMA PartOf ==
  ASSUME NEW S, NEW s \in Seq(S), NEW m \in Nat, NEW n \in Nat, m =< n, n =< Len(s)
  PROVE  /\ Len(SubSeq(s, m + 1, n)) = n - m
         /\ \A p \in 1 .. (n - m) : SubSeq(s, m + 1, n)[p] = s[m + p]
<1> DEFINE k == m + 1
<1>1. /\ k \in Int /\ n - k + 1 = n - m /\ (k =< n => n - k + 1 = n - m)
      /\ (~ (k =< n) => n - m = 0)
      /\ \A i \in k .. n : i \in 1 .. Len(s)
      /\ \A p \in Int : k + p - 1 = m + p
  OBVIOUS
<1>2. \A i \in k .. n : s[i] \in S
  BY <1>1
<1> HIDE DEF k
<1>3. /\ Len(SubSeq(s, k, n)) = IF k =< n THEN n - k + 1 ELSE 0
      /\ \A i \in 1 .. n - k + 1 : SubSeq(s, k, n)[i] = s[k + i - 1]
  BY <1>1, <1>2, SubSeqProperties
<1>4. Len(SubSeq(s, k, n)) = n - m
  BY <1>1, <1>3
<1>5. \A p \in 1 .. (n - m) : SubSeq(s, k, n)[p] = s[m + p]
  BY <1>1, <1>3
<1> QED BY <1>4, <1>5 DEF k

\* A symbol of the table is in .dynsym exactly when its range is one of the
\* three that .dynsym is cut from.
LEMMA DynsymPlaces ==
  ASSUME Exact(table, home), NEW n \in Names, SC!InTable(table, n)
  PROVE  (\E p \in 1 .. Len(Dynsym) : Dynsym[p] = n) <=> home[n] \in {2, 3, 4}
<1> DEFINE b == table.begin
           e == table.end
<1>1. /\ b[3] = e[2] /\ b[4] = e[3] /\ b[5] = e[4] /\ b[1] = e[0] /\ b[2] = e[1] /\ b[0] = 0
      /\ Len(table.syms) = e[5]
      /\ b[0] \in Nat /\ b[1] \in Nat /\ b[2] \in Nat /\ b[3] \in Nat /\ b[4] \in Nat /\ b[5] \in Nat
      /\ e[0] \in Nat /\ e[1] \in Nat /\ e[2] \in Nat /\ e[3] \in Nat /\ e[4] \in Nat /\ e[5] \in Nat
      /\ b[0] =< e[0] /\ b[1] =< e[1] /\ b[2] =< e[2] /\ b[3] =< e[3] /\ b[4] =< e[4] /\ b[5] =< e[5]
  BY BordersInOrder
<1>2. /\ table \in P!Tables /\ P!Chained(table, -1) /\ table.syms \in Seq(Names)
      /\ \A c \in P!Cats : \A q \in P!RangeOf(table, c) : home[P!At(table, q)] = c
      /\ home \in [Names -> 0..5]
  BY Ranges DEF Exact, P!InPlace, P!Tables
<1>3. Dynsym = SubSeq(table.syms, b[2] + 1, e[4])
  BY Ranges DEF Dynsym
<1>4. b[2] =< e[4] /\ e[4] =< Len(table.syms)
  BY SMTT(60), <1>1
<1>5. /\ Len(Dynsym) = e[4] - b[2]
      /\ \A p \in 1 .. Len(Dynsym) : Dynsym[p] = table.syms[b[2] + p]
  <2>1. b[2] \in Nat /\ e[4] \in Nat
    BY <1>1
  <2> HIDE DEF b, e
  <2>2. /\ Len(SubSeq(table.syms, b[2] + 1, e[4])) = e[4] - b[2]
        /\ \A p \in 1 .. (e[4] - b[2]) :
             SubSeq(table.syms, b[2] + 1, e[4])[p] = table.syms[b[2] + p]
    <3>1. table.syms \in Seq(Names) /\ b[2] =< e[4] /\ e[4] =< Len(table.syms)
      BY <1>2, <1>4
    <3> QED BY ZenonT(60), <2>1, <3>1, PartOf
  <2> QED BY <1>3, <2>2
<1>6. ASSUME NEW p \in 1 .. Len(Dynsym), Dynsym[p] = n
      PROVE  home[n] \in {2, 3, 4}
  <2> DEFINE q == b[2] + p - 1
  <2>1. b[2] =< q /\ q < e[4] /\ q \in 0 .. (Len(table.syms) - 1) /\ q + 1 = b[2] + p
    <3>1. /\ b[2] \in Nat /\ e[4] \in Nat /\ e[5] \in Nat /\ e[4] =< e[5]
          /\ Len(table.syms) = e[5]
      BY <1>1, <1>4
    <3>2. p \in Int /\ 1 =< p /\ p =< e[4] - b[2]
      BY <1>5, <3>1
    <3>3. \A k, l, m \in Nat :
            p =< l - k /\ l =< m =>
              /\ k =< k + p - 1 /\ k + p - 1 < l /\ k + p - 1 \in 0 .. (m - 1)
              /\ (k + p - 1) + 1 = k + p
      BY <3>2
    <3> QED BY <3>1, <3>2, <3>3
  <2> HIDE DEF q
  <2>2. P!At(table, q) = n
    BY <1>5, <1>6, <2>1 DEF P!At
  <2>3. PICK c \in P!Cats : q \in P!RangeOf(table, c)
    BY <1>2, <2>1, P!Covered
  <2>4. home[n] = c
    BY <1>2, <2>2, <2>3
  <2>5. c \in 0..5 /\ b[c] =< q /\ q < e[c]
    <3>1. c \in 0..5 /\ q \in b[c] .. (e[c] - 1)
      BY <2>3, Ranges DEF P!RangeOf
    <3>2. b[c] \in Nat /\ e[c] \in Nat
      BY <3>1, BordersInOrder
    <3> QED BY <3>1, <3>2
  <2>6. c # 0
    <3>1. ASSUME c = 0 PROVE FALSE
      <4>1. q < e[0]
        BY <2>5, <3>1
      <4> QED BY <1>1, <2>1, <4>1
    <3> QED BY <3>1
  <2>7. c # 1
    <3>1. ASSUME c = 1 PROVE FALSE
      <4>1. q < e[1]
        BY <2>5, <3>1
      <4> QED BY <1>1, <2>1, <4>1
    <3> QED BY <3>1
  <2>8. c # 5
    <3>1. ASSUME c = 5 PROVE FALSE
      <4>1. b[5] =< q
        BY <2>5, <3>1
      <4> QED BY <1>1, <2>1, <4>1
    <3> QED BY <3>1
  <2> QED BY <2>4, <2>5, <2>6, <2>7, <2>8
<1>7. ASSUME home[n] \in {2, 3, 4}
      PROVE  \E p \in 1 .. Len(Dynsym) : Dynsym[p] = n
  <2>1. PICK p \in 0 .. (Len(table.syms) - 1) :
          /\ table.syms[p + 1] = n /\ b[home[n]] =< p /\ p < e[home[n]]
    BY HasPlace
  <2>2. b[2] =< p /\ p < e[4]
    <3>1. CASE home[n] = 2
      <4>1. b[2] =< p /\ p < e[2]
        BY <2>1, <3>1
      <4> QED BY SMTT(60), <1>1, <4>1
    <3>2. CASE home[n] = 3
      <4>1. b[3] =< p /\ p < e[3]
        BY <2>1, <3>2
      <4> QED BY SMTT(60), <1>1, <4>1
    <3>3. CASE home[n] = 4
      <4>1. b[4] =< p /\ p < e[4]
        BY <2>1, <3>3
      <4> QED BY SMTT(60), <1>1, <4>1
    <3> QED BY <1>7, <3>1, <3>2, <3>3
  <2>3. p + 1 - b[2] \in 1 .. Len(Dynsym) /\ b[2] + (p + 1 - b[2]) = p + 1
    <3>1. b[2] \in Nat /\ e[4] \in Nat /\ p \in Nat /\ Len(Dynsym) = e[4] - b[2]
      BY <1>1, <1>5
    <3> HIDE DEF b, e
    <3> QED BY SMTT(60), <2>2, <3>1
  <2>4. Dynsym[p + 1 - b[2]] = n
    BY <1>5, <2>1, <2>3
  <2> QED BY <2>3, <2>4
<1> QED BY <1>6, <1>7
\* What the tables rest on gives what is emitted.
LEMMA TablesRight ==
  ASSUME OutInv, TablesInv
  PROVE  OutputTablesRight
<1>1. /\ EntriesInv /\ TableInv /\ NamesInv /\ KeptInv /\ HomeInv /\ CommonInv /\ RegularInv
      /\ DefinedInv /\ RoomInv /\ Exact(table, home)
      /\ sizes \in [symtab : Nat, shInfo : Nat, dynsym : Nat] /\ cfg \in Configs
  BY DEF OutInv, TablesInv, TableInv, SizesInv, EntriesInv
<1>2. /\ table.syms \in Seq(Names) /\ Len(table.syms) \in Nat
      /\ Len(table.syms) = table.end[5]
      /\ \A c \in 0..5 : table.begin[c] \in Nat /\ table.end[c] \in Nat
                         /\ table.begin[c] =< table.end[c]
      /\ table.begin[3] = table.end[2] /\ table.begin[4] = table.end[3]
      /\ table.begin[5] = table.end[4]
  BY <1>1, BordersInOrder DEF Exact, P!Tables
<1>3. TableHoldsKeptSymbols
  BY <1>1 DEF TableHoldsKeptSymbols, KeptInv, Held, EntriesInv
<1>4. CommonsAllocated
  BY <1>1 DEF CommonsAllocated, CommonInv
<1>5. LinkerDefinedResolved
  BY <1>1 DEF LinkerDefinedResolved, DefinedInv, OwnDefinition
<1>6. /\ table.begin[2] =< table.end[4] /\ table.end[4] =< Len(table.syms)
      /\ table.begin[2] \in Nat /\ table.end[4] \in Nat
  <2> DEFINE b == table.begin
             e == table.end
  <2>1. /\ b[2] \in Nat /\ b[3] \in Nat /\ b[4] \in Nat /\ b[5] \in Nat
        /\ e[2] \in Nat /\ e[3] \in Nat /\ e[4] \in Nat /\ e[5] \in Nat
        /\ b[2] =< e[2] /\ b[3] =< e[3] /\ b[4] =< e[4] /\ b[5] =< e[5]
    BY <1>2
  <2> QED BY SMTT(60), <1>2, <2>1
<1>7. Len(Dynsym) = table.end[4] - table.begin[2]
  <2>1. Dynsym = SubSeq(table.syms, table.begin[2] + 1, table.end[4])
    BY Ranges DEF Dynsym
  <2> QED BY <1>2, <1>6, <2>1, PartOf
<1>8. TablesFit
  <2>1. ASSUME stage = "emitted", HasDynsym
        PROVE  1 + Len(Dynsym) = sizes.dynsym
    <3>1. sizes.dynsym = 1 + table.end[4] - table.begin[2]
      BY <1>1, <2>1 DEF RoomInv
    <3> QED BY <1>6, <1>7, <3>1
  <2>2. ASSUME stage = "emitted", cfg.strip # "StripAll"
        PROVE  1 + Len(Symtab) =< sizes.symtab
    BY <1>1, <2>2 DEF RoomInv, Symtab
  <2> QED BY <2>1, <2>2 DEF TablesFit, Emitted
<1>9. LocalsBeforeShInfo
  <2> SUFFICES ASSUME Emitted, NEW p \in 1 .. Len(table.syms)
               PROVE  /\ p < sizes.shInfo => Bind(table.syms[p]) = "STB_LOCAL"
                      /\ p >= sizes.shInfo /\ Bind(table.syms[p]) = "STB_LOCAL"
                           => LocalByVisibility(table.syms[p])
    BY DEF LocalsBeforeShInfo, Symtab
  <2>1. sizes.shInfo - 1 = table.end[2] /\ stage = "emitted"
    BY <1>1 DEF RoomInv, Emitted
  <2>2. /\ p < sizes.shInfo => p =< table.end[2]
        /\ p >= sizes.shInfo => p > table.end[2]
    BY SMTT(60), <1>1, <1>2, <2>1
  <2> QED BY <2>1, <2>2, LowSymbolsLocal, HighSymbolsGlobal
<1>10. DynsymIsVisible
  <2>1. ASSUME stage = "emitted", HasDynsym, NEW n \in Names,
               InTable(n), info[n].bind # "Local"
        PROVE  info[n].vis \in {Default, Protected}
                 <=> \E p \in 1 .. Len(Dynsym) : Dynsym[p] = n
    <3>1. n \notin Files /\ info[n] # NoInfo /\ info[n].desc # "Common"
      BY <1>1, <2>1 DEF NamesInv, CommonInv, Allocates, HasDynsym, KeptInv, Held, EntriesInv
    <3>2. CategoryOf(n) = IF info[n].vis \in {Default, Protected} THEN 4 ELSE 5
      BY <2>1, <3>1 DEF CategoryOf, Category
    <3>3. info[n].vis \in {Default, Protected} => home[n] = 4
      BY <1>1, <2>1, <3>2 DEF HomeInv, RightHome
    <3>4. info[n].vis \notin {Default, Protected} => home[n] \in {1, 5}
      BY <1>1, <2>1, <3>2 DEF HomeInv, RightHome
    <3>5. (\E p \in 1 .. Len(Dynsym) : Dynsym[p] = n) <=> home[n] \in {2, 3, 4}
      BY <1>1, <1>2, <2>1, DynsymPlaces DEF InTable
    <3> QED BY <3>3, <3>4, <3>5
  <2> QED BY <2>1 DEF DynsymIsVisible
<1> QED BY <1>3, <1>4, <1>5, <1>8, <1>9, <1>10
        DEF OutputTablesRight, TablesAgree, DefinitionsSettled

-----------------------------------------------------------------------------
(* The theorems.                                                           *)

\* A step whose table is exact for its history has the type the model gives it.
LEMMA OutType == OutInv => TypeOK
<1> SUFFICES ASSUME OutInv PROVE TypeOK OBVIOUS
<1>1. table \in P!Tables /\ home \in [Names -> SC!Cats]
  BY DEF OutInv, TableInv, Exact
<1> QED BY <1>1 DEF OutInv, EntriesInv, SizesInv, TypeOK, P!Tables

\* Every entry, section and size stays of its type through all the passes:
\* resolution gives entries, and no range that sizeNamePools measures is
\* negative.
THEOREM TypeCorrect == ASSUME StandardStaysVisible PROVE Spec => []TypeOK
<1>1. Init => OutInv
  BY InitOut
<1>2. OutInv /\ [Next]_vars => OutInv'
  BY NextOut
<1>3. OutInv => TypeOK
  BY OutType
<1> QED BY <1>1, <1>2, <1>3, PTL DEF Spec

\* The passes of Linker::resolve, layout and emit use the output symbol table
\* only through the operations of SymbolCategory and within their
\* preconditions: no symbol is added twice, none is arranged that is not
\* there, and none but a definition leaves the common range.
THEOREM PassesImplementSymbolCategory ==
  ASSUME StandardStaysVisible PROVE Spec => ImplementsSymbolCategory
<1>1. Init => OutInv /\ SC!Init
  BY InitOut
<1>2. OutInv /\ [Next]_vars => OutInv' /\ [SC!Next]_SC!vars
  BY NextOut
<1> QED BY <1>1, <1>2, PTL DEF Spec, SC!Spec, ImplementsSymbolCategory

\* What is emitted agrees with what the passes have measured, whatever the
\* order of the symbols in each of them: the table holds the symbols that are
\* kept, .symtab and .dynsym have room for theirs, the entries below sh_info
\* are local and those from it on are not, but for hidden symbols that are
\* undefined or absolute, .dynsym has the visible symbols, and no common or
\* linker-defined symbol is left without a definition.
THEOREM TablesAlwaysRight ==
  ASSUME StandardStaysVisible, LinkerNamesStay, StubsCounted
  PROVE  Spec => []OutputTablesRight
<1>1. Init => OutInv /\ TablesInv
  BY InitOut, InitTables
<1>2. OutInv /\ TablesInv /\ [Next]_vars => OutInv' /\ TablesInv'
  BY NextOut, NextTables
<1>3. OutInv /\ TablesInv => OutputTablesRight
  BY TablesRight
<1> QED BY <1>1, <1>2, <1>3, PTL DEF Spec
=============================================================================
