----------------------- MODULE SymbolResolutionProofs -----------------------
(***************************************************************************)
(* Proofs about SymbolResolution, for every set of names and inputs.       *)
(***************************************************************************)
EXTENDS SymbolResolution, TLAPS

Actions == Overriding \cup {"MDEFD", "MDEFWD", "NOACT", "DUND", "DUNDW",
                            "CREF", "BIG", "MBIG", "MDEF"}

\* Every attribute combination has its row and column in the state table.
LEMMA OrdinateType ==
  ASSUME NEW info, info.desc \in Descs, info.bind \in Bindings,
         info.dyn \in BOOLEAN
  PROVE  Ordinate(info) \in Ordinates
BY DEF Ordinate, Ordinates, Undefs, Commons, Descs, Bindings

\* The state table is total.
LEMMA LinkActionType ==
  ASSUME NEW new \in Ordinates, NEW old \in Ordinates
  PROVE  LinkAction(new, old) \in Actions
BY DEF LinkAction, Actions, Overriding, Ordinates, Undefs, Commons, RowOfU,
       RowOfWeakU, RowOfD, RowOfWeakD, RowOfDynD, RowOfWeakDynD, RowOfC,
       RowOfWeakC, RowOfDynC

\* Overriding rules keep an entry an entry.
LEMMA OverrideType ==
  ASSUME NEW old \in Info, NEW new \in Info
  PROVE  /\ OverrideVisibility(old, new) \in Info
         /\ OverrideAttributes(old, new) \in Info
         /\ Override(old, new) \in Info
         /\ Larger(old, new) \in Info
BY DEF OverrideVisibility, OverrideAttributes, Override, Larger, Info

\* Resolving two entries gives an entry.
LEMMA ResolveType ==
  ASSUME NEW old \in Info, NEW new \in Info, NEW outValue, NEW value
  PROVE  /\ Resolve(old, new, outValue, value).info \in Info
         /\ Resolve(old, new, outValue, value).overriden \in BOOLEAN
         /\ Resolve(old, new, outValue, value).error \in BOOLEAN
<1> DEFINE act == LinkAction(Ordinate(new), Ordinate(old))
<1>1. act \in Actions
  BY OrdinateType, LinkActionType DEF Info
<1>2. CASE act \in Overriding
  BY <1>2, OverrideType DEF Resolve, Overriding
<1>3. CASE act \in {"MDEFD", "MDEFWD"}
  <2>1. [Override(old, new) EXCEPT !.bind = old.bind] \in Info
    BY OverrideType DEF Info
  <2> QED BY <1>3, <2>1 DEF Resolve, Overriding
<1>4. CASE act = "NOACT"
  BY <1>4, OverrideType DEF Resolve, Overriding
<1>5. CASE act \in {"DUND", "DUNDW"}
  <2>1. [OverrideVisibility(old, new) EXCEPT !.dyn = TRUE] \in Info
    BY OverrideType DEF Info
  <2> QED BY <1>5, <2>1 DEF Resolve, Overriding
<1>6. CASE act = "CREF"
  BY <1>6 DEF Resolve, Overriding
<1>7. CASE act = "BIG"
  BY <1>7, OverrideType DEF Resolve, Overriding
<1>8. CASE act = "MBIG"
  BY <1>8, OverrideType DEF Resolve, Overriding
<1>9. CASE act = "MDEF"
  <2>1. Override(old, new) \in Info
    BY OverrideType
  <2> QED BY <1>9, <2>1 DEF Resolve, Overriding
<1> QED BY <1>1, <1>2, <1>3, <1>4, <1>5, <1>6, <1>7, <1>8, <1>9
        DEF Actions

\* What the readers make of an input's symbol is well typed.
LEMMA InputType ==
  ASSUME NEW i \in Inputs, NEW m \in Names, NEW s \in Symbols
  PROVE  /\ Renamed(m, s) \in Names
         /\ NewInfo(i, s) \in Info
         /\ NewOut(i, s) \in OutSymbols
         /\ Contribution(i, s) \in Contributions
<1>1. /\ s.desc \in Descs /\ s.bind \in Bindings /\ s.vis \in 0..3
      /\ s.size \in Nat /\ s.value \in Nat
  BY ResolutionAssumption DEF Symbols, SymbolsOf, Descs, Bindings
<1>2. SeenVisibility(i, s) \in 0..3
  BY <1>1 DEF SeenVisibility, FixedVisibility, Default, Protected, Hidden
<1> QED
  BY <1>1, <1>2, ResolutionAssumption
  DEF Renamed, NewInfo, NewOut, OutSymbols, Contribution, Contributions, Info

\* Inserting into the pool gives an entry.
LEMMA InsertType ==
  ASSUME NEW n \in Names, NEW new \in Info, NEW value, TypeOK
  PROVE  /\ InsertSymbol(n, new, value).info \in Info
         /\ InsertSymbol(n, new, value).overriden \in BOOLEAN
         /\ InsertSymbol(n, new, value).error \in BOOLEAN
<1>1. CASE pool[n] = NoInfo
  BY <1>1 DEF InsertSymbol
<1>2. CASE pool[n] # NoInfo
  <2>1. pool[n] \in Info
    BY <1>2 DEF TypeOK
  <2> QED BY <1>2, <2>1, ResolveType DEF InsertSymbol
<1> QED BY <1>1, <1>2

\* Recording a resolved symbol keeps the variables it writes well typed.
LEMMA RecordType ==
  ASSUME TypeOK, NEW i \in Inputs, NEW m \in Names, NEW s, NEW n \in Names,
         NEW info \in Info, NEW error,
         Contribution(i, s) \in Contributions,
         Record(i, m, s, n, info, error)
  PROVE  /\ phase' \in {"options", "reading"}
         /\ pool' \in [Names -> Info \cup {NoInfo}]
         /\ errors' \subseteq Names
         /\ read' \subseteq Inputs \X Names
         /\ given' \in [Names -> SUBSET Contributions]
<1>1. pool' \in [Names -> Info \cup {NoInfo}]
  BY DEF TypeOK, Record
<1>2. phase' \in {"options", "reading"} /\ errors' \subseteq Names
  BY DEF TypeOK, Record
<1>3. read' \subseteq Inputs \X Names
  BY DEF TypeOK, Record
<1>4. given' \in [Names -> SUBSET Contributions]
  BY DEF TypeOK, Record
<1> QED BY <1>1, <1>2, <1>3, <1>4

\* Every state is well typed: no step of reading and resolving leaves the
\* values that the pool, the output symbols and the marks can have.
THEOREM TypeCorrect == Spec => []TypeOK
<1>1. Init => TypeOK
  BY DEF Init, TypeOK
<1>2. TypeOK /\ [Next]_vars => TypeOK'
  <2> SUFFICES ASSUME TypeOK, [Next]_vars PROVE TypeOK'
    OBVIOUS
  <2>1. CASE AddUndefinedSymbols
    <3>1. UndefInfo \in Info /\ UndefContribution \in Contributions
      BY DEF UndefInfo, Info, Descs, Bindings, Default, UndefContribution,
             Contributions
    <3> QED BY <2>1, <3>1 DEF AddUndefinedSymbols, TypeOK, OutSymbols
  <2>2. ASSUME NEW i \in Objects, NEW m \in Names, NEW s \in Symbols,
               AddSymbolFromObject(i, m, s)
        PROVE  TypeOK'
    <3> DEFINE n == Renamed(m, s)
               r == InsertSymbol(n, NewInfo(i, s), s.value)
    <3>1. /\ n \in Names /\ NewInfo(i, s) \in Info
          /\ NewOut(i, s) \in OutSymbols
          /\ Contribution(i, s) \in Contributions
      BY InputType DEF Inputs
    <3>2. r.info \in Info
      BY <3>1, InsertType
    <3> HIDE DEF n, r
    <3>3. Record(i, m, s, n, r.info, r.error)
      BY <2>2 DEF AddSymbolFromObject, n, r
    <3>4. outSym' \in [Names -> OutSymbols \cup {NoOut}] /\ needed' = needed
      BY <2>2, <3>1 DEF AddSymbolFromObject, n, r, TypeOK
    <3> QED BY <3>1, <3>2, <3>3, <3>4, RecordType DEF TypeOK, Inputs
  <2>3. ASSUME NEW i \in DynObjs, NEW m \in Names, NEW s \in Symbols,
               AddSymbolFromDynObj(i, m, s)
        PROVE  TypeOK'
    <3> DEFINE n == Renamed(m, s)
               r == InsertSymbol(n, NewInfo(i, s), s.value)
               q == [r.info EXCEPT !.inDyn = TRUE]
    <3>1. /\ n \in Names /\ NewInfo(i, s) \in Info
          /\ Contribution(i, s) \in Contributions
      BY InputType DEF Inputs
    <3>2. r.info \in Info
      BY <3>1, InsertType
    <3>3. q \in Info
      BY <3>2 DEF Info
    <3> HIDE DEF n, r, q
    <3>4. Record(i, m, s, n, q, r.error)
      BY <2>3 DEF AddSymbolFromDynObj, n, r, q
    <3>5. /\ outSym' \in [Names -> OutSymbols \cup {NoOut}]
          /\ needed' \subseteq DynObjs
      BY <2>3, <3>1 DEF AddSymbolFromDynObj, n, r, TypeOK
    <3> QED BY <3>1, <3>3, <3>4, <3>5, RecordType DEF TypeOK, Inputs
  <2>4. CASE UNCHANGED vars
    BY <2>4 DEF vars, TypeOK
  <2> QED BY <2>1, <2>2, <2>3, <2>4 DEF Next
<1> QED BY <1>1, <1>2, PTL DEF Spec

-----------------------------------------------------------------------------
(* The strongest class wins.                                               *)

\* Only definitions are absolute, as the readers make them.
Legal(info) == info.bind = "Absolute" => info.desc = "Define"

\* The class of a symbol depends on three attributes.
LEMMA OrdinateFields ==
  ASSUME NEW a, NEW b,
         a.desc = b.desc, a.bind = b.bind, a.dyn = b.dyn
  PROVE  Ordinate(a) = Ordinate(b)
BY DEF Ordinate

\* Rank 0 is the rank of the undefined symbols.
LEMMA RankOfUndefined ==
  ASSUME NEW info \in Info, Legal(info)
  PROVE  /\ Rank(Ordinate(info)) \in 0..3
         /\ Rank(Ordinate(info)) = 0 <=> info.desc = "Undefined"
BY DEF Rank, Ordinate, Info, Legal, Descs, Bindings, Undefs

\* What each kind of action of the state table says of the two ranks.
LEMMA TableRank ==
  ASSUME NEW new \in Ordinates, NEW old \in Ordinates,
         NEW act, act = LinkAction(new, old)
  PROVE  /\ act \in Overriding => Rank(new) >= Rank(old)
         /\ act \in {"MDEFD", "MDEFWD"} =>
              new \in {"d_D", "wd_D"} /\ old \in {"U", "w_U"}
         /\ act \in {"NOACT", "MBIG"} => Rank(new) =< Rank(old)
         /\ act \in {"DUND", "DUNDW"} =>
              old \in {"d_D", "wd_D"} /\ new \in Undefs
         /\ act = "CREF" => old = "D" /\ new = "C"
         /\ act = "BIG" => old = "Cs" /\ new = "C"
         /\ act = "MDEF" => old = "D" /\ new = "D"
<1> USE DEF Ordinates, Undefs, Commons, Overriding, LinkAction, Rank
<1>1. CASE new = "U"
  BY <1>1 DEF RowOfU
<1>2. CASE new = "w_U"
  BY <1>2 DEF RowOfWeakU
<1>3. CASE new \in {"d_U", "wd_U"}
  BY <1>3
<1>4. CASE new = "D"
  BY <1>4 DEF RowOfD
<1>5. CASE new = "w_D"
  BY <1>5 DEF RowOfWeakD
<1>6. CASE new = "d_D"
  BY <1>6 DEF RowOfDynD
<1>7. CASE new = "wd_D"
  BY <1>7 DEF RowOfWeakDynD
<1>8. CASE new = "C"
  BY <1>8 DEF RowOfC
<1>9. CASE new = "w_C"
  BY <1>9 DEF RowOfWeakC
<1>10. CASE new = "Cs"
  BY <1>10 DEF RowOfDynC
<1> QED BY <1>1, <1>2, <1>3, <1>4, <1>5, <1>6, <1>7, <1>8, <1>9, <1>10

\* The attributes that the overriding rules take and keep.
LEMMA OverrideFields ==
  ASSUME NEW old \in Info, NEW new \in Info
  PROVE  /\ Ordinate(OverrideVisibility(old, new)) = Ordinate(old)
         /\ OverrideVisibility(old, new).desc = old.desc
         /\ OverrideVisibility(old, new).bind = old.bind
         /\ OverrideVisibility(old, new).dyn = old.dyn
         /\ Ordinate(OverrideAttributes(old, new)) = Ordinate(new)
         /\ OverrideAttributes(old, new).desc = new.desc
         /\ OverrideAttributes(old, new).bind = new.bind
         /\ Ordinate(Override(old, new)) = Ordinate(new)
         /\ Override(old, new).desc = new.desc
         /\ Override(old, new).bind = new.bind
         /\ Override(old, new).dyn = new.dyn
         /\ Ordinate(Larger(old, new)) = Ordinate(old)
         /\ Larger(old, new).desc = old.desc
         /\ Larger(old, new).bind = old.bind
<1>1. /\ OverrideVisibility(old, new).desc = old.desc
      /\ OverrideVisibility(old, new).bind = old.bind
      /\ OverrideVisibility(old, new).dyn = old.dyn
  BY DEF OverrideVisibility, Info
<1>2. /\ OverrideAttributes(old, new).desc = new.desc
      /\ OverrideAttributes(old, new).bind = new.bind
      /\ OverrideAttributes(old, new).dyn = new.dyn
  BY DEF OverrideAttributes, Info
<1>3. /\ Override(old, new).desc = new.desc
      /\ Override(old, new).bind = new.bind
      /\ Override(old, new).dyn = new.dyn
  BY DEF Override, OverrideAttributes, OverrideVisibility, Info
<1>4. /\ Larger(old, new).desc = old.desc
      /\ Larger(old, new).bind = old.bind
      /\ Larger(old, new).dyn = old.dyn
  BY DEF Larger, Info
<1> QED BY <1>1, <1>2, <1>3, <1>4, OrdinateFields

\* Resolution keeps the stronger of two symbols: its rank is the greater one.
LEMMA ResolveRank ==
  ASSUME NEW old \in Info, NEW new \in Info, NEW outValue, NEW value,
         Legal(old), Legal(new), NEW info,
         info = Resolve(old, new, outValue, value).info
  PROVE  /\ Legal(info)
         /\ Rank(Ordinate(info)) >= Rank(Ordinate(old))
         /\ Rank(Ordinate(info)) >= Rank(Ordinate(new))
         /\ Rank(Ordinate(info)) \in {Rank(Ordinate(old)), Rank(Ordinate(new))}
<1> DEFINE o == Ordinate(old)
           w == Ordinate(new)
           act == LinkAction(w, o)
<1>1. o \in Ordinates /\ w \in Ordinates /\ act \in Actions
  BY OrdinateType, LinkActionType DEF Info
<1>2. Rank(o) \in 0..3 /\ Rank(w) \in 0..3
  BY RankOfUndefined
<1>3. CASE act \in Overriding
  <2>1. info = Override(old, new)
    BY <1>3 DEF Resolve, Overriding
  <2>2. Rank(w) >= Rank(o)
    BY <1>1, <1>3, TableRank
  <2> QED BY <1>2, <2>1, <2>2, OverrideFields DEF Legal
<1>4. CASE act \in {"MDEFD", "MDEFWD"}
  <2>1. info = [Override(old, new) EXCEPT !.bind = old.bind]
    BY <1>4 DEF Resolve, Overriding
  <2>2. Override(old, new) \in Info
    BY OverrideType
  <2>3. info.desc = new.desc /\ info.bind = old.bind /\ info.dyn = new.dyn
    BY <2>1, <2>2, OverrideFields DEF Info
  <2>4. w \in {"d_D", "wd_D"} /\ o \in {"U", "w_U"}
    BY <1>1, <1>4, TableRank
  <2>5. new.desc = "Define" /\ new.dyn /\ old.bind # "Absolute"
    BY <2>4 DEF Ordinate, Legal, Info, Descs, Bindings
  <2>6. Ordinate(info) \in {"d_D", "wd_D"}
    BY <2>3, <2>5 DEF Ordinate
  <2> QED BY <2>3, <2>4, <2>5, <2>6 DEF Rank, Undefs, Legal
<1>5. CASE act = "NOACT"
  <2>1. info = OverrideVisibility(old, new)
    BY <1>5 DEF Resolve, Overriding
  <2>2. Rank(w) =< Rank(o)
    BY <1>1, <1>5, TableRank
  <2> QED BY <1>2, <2>1, <2>2, OverrideFields DEF Legal
<1>6. CASE act \in {"DUND", "DUNDW"}
  <2>1. info = [OverrideVisibility(old, new) EXCEPT !.dyn = TRUE]
    BY <1>6 DEF Resolve, Overriding
  <2>2. OverrideVisibility(old, new) \in Info
    BY OverrideType
  <2>3. info.desc = old.desc /\ info.bind = old.bind /\ info.dyn
    BY <2>1, <2>2, OverrideFields DEF Info
  <2>4. o \in {"d_D", "wd_D"} /\ w \in Undefs
    BY <1>1, <1>6, TableRank
  <2>5. old.dyn = TRUE
    BY <2>4 DEF Ordinate, Info, Descs, Bindings
  <2>6. Ordinate(info) = o
    BY <2>3, <2>5, OrdinateFields
  <2> QED BY <2>3, <2>4, <2>6 DEF Rank, Undefs, Legal
<1>7. CASE act = "CREF"
  <2>1. info = old
    BY <1>7 DEF Resolve, Overriding
  <2>2. o = "D" /\ w = "C"
    BY <1>1, <1>7, TableRank
  <2> QED BY <2>1, <2>2 DEF Rank, Undefs
<1>8. CASE act = "BIG"
  <2> DEFINE b == OverrideAttributes(Larger(old, new), new)
  <2>1. info = OverrideVisibility(b, new)
    BY <1>8 DEF Resolve, Overriding
  <2>2. Larger(old, new) \in Info
    BY OverrideType
  <2>3. b \in Info /\ b.desc = new.desc /\ b.bind = new.bind
        /\ Ordinate(b) = w
    BY <2>2, OverrideType, OverrideFields
  <2>4. info.desc = new.desc /\ info.bind = new.bind /\ Ordinate(info) = w
    BY <2>1, <2>3, OverrideFields
  <2>5. o = "Cs" /\ w = "C"
    BY <1>1, <1>8, TableRank
  <2> QED BY <2>4, <2>5 DEF Rank, Undefs, Legal
<1>9. CASE act = "MBIG"
  <2>1. info = OverrideVisibility(Larger(old, new), new)
    BY <1>9 DEF Resolve, Overriding
  <2>2. Larger(old, new) \in Info
    BY OverrideType
  <2>3. /\ Ordinate(info) = Ordinate(Larger(old, new))
        /\ info.desc = Larger(old, new).desc
        /\ info.bind = Larger(old, new).bind
    BY <2>1, <2>2, OverrideFields
  <2>4. Ordinate(info) = o /\ info.desc = old.desc /\ info.bind = old.bind
    BY <2>3, OverrideFields
  <2>5. Rank(w) =< Rank(o)
    BY <1>1, <1>9, TableRank
  <2> QED BY <1>2, <2>4, <2>5 DEF Legal
<1>10. CASE act = "MDEF"
  <2>1. info = old \/ info = Override(old, new)
    BY <1>10 DEF Resolve, Overriding
  <2>2. o = "D" /\ w = "D"
    BY <1>1, <1>10, TableRank
  <2> QED BY <1>2, <2>1, <2>2, OverrideFields DEF Legal
<1> QED BY <1>1, <1>3, <1>4, <1>5, <1>6, <1>7, <1>8, <1>9, <1>10 DEF Actions

\* The inductive invariant: an entry exists as soon as an input said something
\* of the name, it is legal, and its rank is the greatest one given.
RankOK(n) ==
  IF pool[n] = NoInfo
  THEN given[n] = {}
  ELSE /\ Legal(pool[n])
       /\ \E c \in given[n] : Rank(OrdinateOf(c)) = Rank(Ordinate(pool[n]))
       /\ \A c \in given[n] : Rank(OrdinateOf(c)) =< Rank(Ordinate(pool[n]))

RankInv == \A n \in Names : RankOK(n)

\* A contribution has the class of the entry that it is inserted as.
LEMMA ContributionRank ==
  ASSUME NEW i \in Inputs, NEW s \in Symbols
  PROVE  /\ OrdinateOf(Contribution(i, s)) = Ordinate(NewInfo(i, s))
         /\ Legal(NewInfo(i, s))
<1>1. /\ NewInfo(i, s).desc = s.desc /\ NewInfo(i, s).bind = s.bind
      /\ NewInfo(i, s).dyn = (i \in DynObjs)
  BY DEF NewInfo
<1>2. /\ Contribution(i, s).desc = s.desc /\ Contribution(i, s).bind = s.bind
      /\ Contribution(i, s).from = i
  BY DEF Contribution
<1>3. s.bind = "Absolute" => s.desc = "Define"
  BY DEF Symbols, SymbolsOf
<1>4. (~IsRegular(Contribution(i, s))) = (i \in DynObjs)
  BY <1>2 DEF IsRegular
<1> QED BY <1>1, <1>2, <1>3, <1>4 DEF OrdinateOf, Ordinate, Legal

\* Inserting one symbol, whatever flag is set on the resolved entry.
LEMMA RankStep ==
  ASSUME TypeOK, RankInv,
         NEW i \in Inputs, NEW m \in Names, NEW s \in Symbols, NEW n \in Names,
         NEW r, r = InsertSymbol(n, NewInfo(i, s), s.value),
         NEW info \in Info, info.desc = r.info.desc,
         info.bind = r.info.bind, info.dyn = r.info.dyn,
         Record(i, m, s, n, info, r.error)
  PROVE  RankInv'
<1> DEFINE new == NewInfo(i, s)
           c == Contribution(i, s)
<1>1. new \in Info
  BY InputType
<1>2. OrdinateOf(c) = Ordinate(new) /\ Legal(new)
  BY ContributionRank
<1>3. r.info \in Info
  BY <1>1, InsertType
<1>4. Ordinate(info) = Ordinate(r.info)
  BY OrdinateFields
<1>5. pool' = [pool EXCEPT ![n] = info] /\ given' = [given EXCEPT ![n] = @ \cup {c}]
  BY DEF Record
<1>6. pool'[n] = info /\ given'[n] = given[n] \cup {c}
  BY <1>5 DEF TypeOK
<1>7. info # NoInfo
  BY DEF Info, NoInfo, Descs
<1>8. RankOK(n)'
  <2>1. CASE pool[n] = NoInfo
    <3>1. r.info = new /\ given[n] = {}
      BY <2>1 DEF InsertSymbol, RankInv, RankOK
    <3>2. Rank(Ordinate(new)) \in 0..3
      BY <1>1, <1>2, RankOfUndefined
    <3> HIDE DEF new, c
    <3>3. Legal(info)
      BY <1>2, <3>1 DEF Legal
    <3> QED BY <1>2, <1>4, <1>6, <1>7, <3>1, <3>2, <3>3 DEF RankOK
  <2>2. CASE pool[n] # NoInfo
    <3>1. pool[n] \in Info /\ Legal(pool[n])
      BY <2>2 DEF TypeOK, RankInv, RankOK
    <3>2. PICK v : r.info = Resolve(pool[n], new, v, s.value).info
      BY <2>2 DEF InsertSymbol
    <3>3. /\ Legal(r.info)
          /\ Rank(Ordinate(r.info)) >= Rank(Ordinate(pool[n]))
          /\ Rank(Ordinate(r.info)) >= Rank(Ordinate(new))
          /\ Rank(Ordinate(r.info)) \in
               {Rank(Ordinate(pool[n])), Rank(Ordinate(new))}
      BY <1>1, <1>2, <3>1, <3>2, ResolveRank
    <3>4. /\ Rank(Ordinate(r.info)) \in 0..3
          /\ Rank(Ordinate(pool[n])) \in 0..3
          /\ Rank(Ordinate(new)) \in 0..3
      BY <1>1, <1>2, <1>3, <3>1, <3>3, RankOfUndefined
    <3>5. /\ \E d \in given[n] :
               Rank(OrdinateOf(d)) = Rank(Ordinate(pool[n]))
          /\ \A d \in given[n] :
               Rank(OrdinateOf(d)) =< Rank(Ordinate(pool[n]))
      BY <2>2 DEF RankInv, RankOK
    <3> HIDE DEF new, c
    <3>6. Legal(info)
      BY <3>3 DEF Legal
    <3>7. \E d \in given[n] \cup {c} :
            Rank(OrdinateOf(d)) = Rank(Ordinate(info))
      BY <1>2, <1>4, <3>3, <3>5
    <3>8. \A d \in given[n] \cup {c} :
            Rank(OrdinateOf(d)) =< Rank(Ordinate(info))
      <4> SUFFICES ASSUME NEW d \in given[n] \cup {c}
                   PROVE  Rank(OrdinateOf(d)) =< Rank(Ordinate(info))
        OBVIOUS
      <4>1. CASE d = c
        BY <1>2, <1>4, <3>3, <4>1
      <4>2. CASE d \in given[n]
        <5>1. Rank(OrdinateOf(d)) \in 0..3
          <6>1. d \in Contributions
            BY <4>2 DEF TypeOK
          <6>2. /\ d.desc \in Descs /\ d.bind \in Bindings
                /\ (~IsRegular(d)) \in BOOLEAN
            BY <6>1 DEF Contributions, IsRegular
          <6>3. OrdinateOf(d) \in Ordinates
            BY <6>2 DEF OrdinateOf, Ordinate, Ordinates, Undefs, Commons, Descs,
                        Bindings
          <6> QED BY <6>3 DEF Rank, Ordinates, Undefs, Commons
        <5> QED BY <1>4, <3>3, <3>4, <3>5, <4>2, <5>1
      <4> QED BY <4>1, <4>2
    <3> QED BY <1>6, <1>7, <3>6, <3>7, <3>8 DEF RankOK
  <2> QED BY <2>1, <2>2
<1>9. ASSUME NEW k \in Names, k # n PROVE RankOK(k)'
  <2>1. pool'[k] = pool[k] /\ given'[k] = given[k]
    BY <1>5, <1>9 DEF TypeOK
  <2> QED BY <2>1 DEF RankInv, RankOK
<1> QED BY <1>8, <1>9 DEF RankInv

\* Every step keeps the rank of each entry the highest one given.
LEMMA NextRank ==
  ASSUME TypeOK, RankInv, [Next]_vars
  PROVE  RankInv'
<1>1. CASE AddUndefinedSymbols
  <2> SUFFICES ASSUME NEW n \in Names PROVE RankOK(n)'
    BY DEF RankInv
  <2>1. CASE n \in UndefSyms
    <3>1. pool'[n] = UndefInfo /\ given'[n] = {UndefContribution}
      BY <1>1, <2>1 DEF AddUndefinedSymbols
    <3>2. UndefInfo # NoInfo /\ Legal(UndefInfo) /\ Ordinate(UndefInfo) = "U"
      BY DEF UndefInfo, NoInfo, Legal, Ordinate
    <3>3. OrdinateOf(UndefContribution) = "U"
      BY ResolutionAssumption
      DEF OrdinateOf, Ordinate, UndefContribution, IsRegular, Inputs
    <3> QED BY <3>1, <3>2, <3>3 DEF RankOK, Rank, Undefs
  <2>2. CASE n \notin UndefSyms
    BY <1>1, <2>2 DEF AddUndefinedSymbols, RankInv, RankOK
  <2> QED BY <2>1, <2>2
<1>2. ASSUME NEW i \in Objects, NEW m \in Names, NEW s \in Symbols,
             AddSymbolFromObject(i, m, s)
      PROVE  RankInv'
  <2> DEFINE n == Renamed(m, s)
             r == InsertSymbol(n, NewInfo(i, s), s.value)
  <2>1. n \in Names /\ i \in Inputs /\ NewInfo(i, s) \in Info
    BY InputType DEF Inputs
  <2>2. Record(i, m, s, n, r.info, r.error)
    BY <1>2 DEF AddSymbolFromObject
  <2>3. r.info \in Info
    BY <2>1, InsertType
  <2> QED BY <2>1, <2>2, <2>3, RankStep
<1>3. ASSUME NEW i \in DynObjs, NEW m \in Names, NEW s \in Symbols,
             AddSymbolFromDynObj(i, m, s)
      PROVE  RankInv'
  <2> DEFINE n == Renamed(m, s)
             r == InsertSymbol(n, NewInfo(i, s), s.value)
             q == [r.info EXCEPT !.inDyn = TRUE]
  <2>1. n \in Names /\ i \in Inputs /\ NewInfo(i, s) \in Info
    BY InputType DEF Inputs
  <2>2. Record(i, m, s, n, q, r.error)
    BY <1>3 DEF AddSymbolFromDynObj
  <2>3. r.info \in Info
    BY <2>1, InsertType
  <2>4. /\ q \in Info /\ q.desc = r.info.desc /\ q.bind = r.info.bind
        /\ q.dyn = r.info.dyn
    BY <2>3 DEF Info
  <2> HIDE DEF n, q
  <2>5. r = InsertSymbol(n, NewInfo(i, s), s.value)
    OBVIOUS
  <2> HIDE DEF r
  <2> QED BY <2>1, <2>2, <2>4, <2>5, RankStep
<1>4. CASE UNCHANGED vars
  BY <1>4 DEF vars, RankInv, RankOK
<1> QED BY <1>1, <1>2, <1>3, <1>4 DEF Next

\* In every state and for every order of the inputs, each name is held by a
\* symbol of the strongest class that was read.
THEOREM StrongestAlwaysWins == Spec => []StrongestWins
<1>1. Init => RankInv
  BY DEF Init, RankInv, RankOK
<1>2. TypeOK /\ RankInv /\ [Next]_vars => RankInv'
  BY NextRank
<1>3. RankInv => StrongestWins
  BY DEF RankInv, RankOK, StrongestWins
<1> QED BY <1>1, <1>2, <1>3, TypeCorrect, PTL DEF Spec

-----------------------------------------------------------------------------
(* What the pool and the records beside it owe to each input.              *)

\* The cells of the state table that the settled symbols depend on.
LEMMA TableCells ==
  ASSUME NEW new \in Ordinates, NEW old \in Ordinates,
         NEW act, act = LinkAction(new, old)
  PROVE  /\ act = "MDEF" <=> new = "D" /\ old = "D"
         /\ old = "U" /\ new \in Undefs => act = "NOACT"
         /\ new = "U" /\ old \in Undefs \ {"U"} => act = "UND"
         /\ new = "w_D" /\ old \in Undefs \cup {"d_D", "wd_D"} => act = "DEFW"
         /\ old \in {"w_D", "D"} /\ new \notin Commons \cup {"D"} => act = "NOACT"
         /\ new = "C" /\ old = "C" => act = "MBIG"
         /\ old = "C" /\ new # "D" => act \in {"NOACT", "MBIG"}
<1> USE DEF Ordinates, Undefs, Commons, LinkAction
<1>1. CASE new = "U"
  BY <1>1 DEF RowOfU
<1>2. CASE new = "w_U"
  BY <1>2 DEF RowOfWeakU
<1>3. CASE new \in {"d_U", "wd_U"}
  BY <1>3
<1>4. CASE new = "D"
  BY <1>4 DEF RowOfD
<1>5. CASE new = "w_D"
  BY <1>5 DEF RowOfWeakD
<1>6. CASE new = "d_D"
  BY <1>6 DEF RowOfDynD
<1>7. CASE new = "wd_D"
  BY <1>7 DEF RowOfWeakDynD
<1>8. CASE new = "C"
  BY <1>8 DEF RowOfC
<1>9. CASE new = "w_C"
  BY <1>9 DEF RowOfWeakC
<1>10. CASE new = "Cs"
  BY <1>10 DEF RowOfDynC
<1> QED BY <1>1, <1>2, <1>3, <1>4, <1>5, <1>6, <1>7, <1>8, <1>9, <1>10

\* Visibility and size under the overriding rules.
LEMMA OverrideSize ==
  ASSUME NEW old \in Info, NEW new \in Info
  PROVE  /\ OverrideVisibility(old, new).size = old.size
         /\ OverrideAttributes(old, new).size = old.size
         /\ Override(old, new).size = new.size
         /\ Larger(old, new).size >= old.size
         /\ Larger(old, new).size >= new.size
         /\ AtLeastAsStrict(OverrideVisibility(old, new).vis, old.vis)
         /\ OverrideAttributes(old, new).vis = old.vis
         /\ AtLeastAsStrict(Override(old, new).vis, old.vis)
         /\ Larger(old, new).vis = old.vis
<1>1. /\ OverrideVisibility(old, new).size = old.size
      /\ OverrideAttributes(old, new).size = old.size
      /\ OverrideAttributes(old, new).vis = old.vis
      /\ Larger(old, new).vis = old.vis
  BY DEF OverrideVisibility, OverrideAttributes, Larger, Info
<1>2. Larger(old, new).size >= old.size /\ Larger(old, new).size >= new.size
  BY DEF Larger, Info
<1>3. \A o \in Info : AtLeastAsStrict(OverrideVisibility(o, new).vis, o.vis)
  BY DEF OverrideVisibility, AtLeastAsStrict, Default, Info
<1>4. OverrideAttributes(old, new) \in Info
  BY OverrideType
<1>5. /\ [OverrideAttributes(old, new) EXCEPT !.size = new.size] \in Info
      /\ [OverrideAttributes(old, new) EXCEPT !.size = new.size].vis = old.vis
      /\ [OverrideAttributes(old, new) EXCEPT !.size = new.size].size = new.size
  BY <1>1, <1>4 DEF Info
<1>6. /\ Override(old, new).size = new.size
      /\ AtLeastAsStrict(Override(old, new).vis, old.vis)
  BY <1>3, <1>5 DEF Override, OverrideVisibility
<1> QED BY <1>1, <1>2, <1>3, <1>6

\* What Resolver::resolve does to an entry: it takes over the attributes of the
\* new symbol or keeps its own.
LEMMA ResolveEffect ==
  ASSUME NEW old \in Info, NEW new \in Info, NEW outValue, NEW value,
         Legal(old), Legal(new),
         NEW r, r = Resolve(old, new, outValue, value),
         NEW act, act = LinkAction(Ordinate(new), Ordinate(old))
  PROVE  /\ r.overriden => /\ r.info.desc = new.desc
                           /\ r.info.dyn = new.dyn
                           /\ ~new.dyn => r.info.bind = new.bind
                           /\ r.info.size >= new.size
         /\ ~r.overriden => /\ r.info.desc = old.desc
                            /\ r.info.dyn = old.dyn
                            /\ r.info.bind = old.bind
                            /\ r.info.size >= old.size
         /\ act = "MBIG" => r.info.size >= new.size
         /\ act \in {"NOACT", "MBIG"} => ~r.overriden
         /\ act \in Overriding => r.overriden
         /\ r.error <=> /\ Ordinate(old) = "D" /\ Ordinate(new) = "D"
                        /\ ~SameAbsolute(old, new, outValue, value)
         /\ r.error => ~r.overriden
         /\ AtLeastAsStrict(r.info.vis, old.vis)
<1> DEFINE o == Ordinate(old)
           w == Ordinate(new)
<1>1. o \in Ordinates /\ w \in Ordinates /\ act \in Actions
  BY OrdinateType, LinkActionType DEF Info
<1>2. act = "MDEF" <=> w = "D" /\ o = "D"
  BY <1>1, TableCells
<1>3. CASE act \in Overriding
  <2>1. r = [info |-> Override(old, new), overriden |-> TRUE, error |-> FALSE]
    BY <1>3 DEF Resolve, Overriding
  <2>2. act # "MDEF" /\ act \notin {"NOACT", "MBIG"}
    BY <1>3 DEF Overriding
  <2>3. Override(old, new).size >= new.size
    BY OverrideSize DEF Info
  <2> QED BY <1>2, <1>3, <2>1, <2>2, <2>3, OverrideFields, OverrideSize
<1>4. CASE act \in {"MDEFD", "MDEFWD"}
  <2>1. r = [info |-> [Override(old, new) EXCEPT !.bind = old.bind],
             overriden |-> TRUE, error |-> FALSE]
    BY <1>4 DEF Resolve, Overriding
  <2>2. Override(old, new) \in Info /\ Override(old, new).size >= new.size
    <3>1. Override(old, new) \in Info
      BY OverrideType
    <3>2. Override(old, new).size = new.size /\ new.size \in Nat
      BY OverrideSize DEF Info
    <3> QED BY <3>1, <3>2
  <2>3. /\ r.info.desc = new.desc /\ r.info.dyn = new.dyn
        /\ r.info.size = Override(old, new).size
        /\ r.info.vis = Override(old, new).vis
    BY <2>1, <2>2, OverrideFields DEF Info
  <2>4. w \in {"d_D", "wd_D"}
    BY <1>1, <1>4, TableRank
  <2>5. new.dyn
    BY <2>4 DEF Ordinate, Info, Descs, Bindings
  <2>6. AtLeastAsStrict(r.info.vis, old.vis)
    BY <2>3, OverrideSize
  <2>7. r.overriden = TRUE /\ r.error = FALSE
    BY <2>1
  <2>8. act \notin Overriding \cup {"NOACT", "MBIG", "MDEF"}
    BY <1>4 DEF Overriding
  <2> QED BY <1>2, <2>2, <2>3, <2>5, <2>6, <2>7, <2>8
<1>5. CASE act = "NOACT"
  <2>1. r = [info |-> OverrideVisibility(old, new), overriden |-> FALSE, error |-> FALSE]
    BY <1>5 DEF Resolve, Overriding
  <2>2. OverrideVisibility(old, new).size >= old.size
    BY OverrideSize DEF Info
  <2> QED BY <1>2, <1>5, <2>1, <2>2, OverrideFields, OverrideSize DEF Overriding
<1>6. CASE act \in {"DUND", "DUNDW"}
  <2>1. r = [info |-> [OverrideVisibility(old, new) EXCEPT !.dyn = TRUE],
             overriden |-> FALSE, error |-> FALSE]
    BY <1>6 DEF Resolve, Overriding
  <2>2. OverrideVisibility(old, new) \in Info /\ OverrideVisibility(old, new).size >= old.size
    <3>1. OverrideVisibility(old, new) \in Info
      BY OverrideType
    <3>2. OverrideVisibility(old, new).size = old.size /\ old.size \in Nat
      BY OverrideSize DEF Info
    <3> QED BY <3>1, <3>2
  <2>3. /\ r.info.desc = old.desc /\ r.info.bind = old.bind /\ r.info.dyn = TRUE
        /\ r.info.size = OverrideVisibility(old, new).size
        /\ r.info.vis = OverrideVisibility(old, new).vis
    BY <2>1, <2>2, OverrideFields DEF Info
  <2>4. o \in {"d_D", "wd_D"}
    BY <1>1, <1>6, TableRank
  <2>5. old.dyn = TRUE
    BY <2>4 DEF Ordinate, Info, Descs, Bindings
  <2>6. AtLeastAsStrict(r.info.vis, old.vis)
    BY <2>3, OverrideSize
  <2>7. r.overriden = FALSE /\ r.error = FALSE
    BY <2>1
  <2>8. act \notin Overriding \cup {"NOACT", "MBIG", "MDEF"}
    BY <1>6 DEF Overriding
  <2> QED BY <1>2, <2>2, <2>3, <2>5, <2>6, <2>7, <2>8
<1>7. CASE act = "CREF"
  <2>1. r = [info |-> old, overriden |-> FALSE, error |-> FALSE]
    BY <1>7 DEF Resolve, Overriding
  <2>2. old.size >= old.size /\ AtLeastAsStrict(old.vis, old.vis)
    BY DEF Info, AtLeastAsStrict, Default
  <2> QED BY <1>2, <1>7, <2>1, <2>2 DEF Overriding
<1>8. CASE act = "BIG"
  <2> DEFINE l == Larger(old, new)
             b == OverrideAttributes(l, new)
  <2>1. r = [info |-> OverrideVisibility(b, new), overriden |-> TRUE, error |-> FALSE]
    BY <1>8 DEF Resolve, Overriding
  <2>2. l \in Info /\ l.size >= new.size /\ l.vis = old.vis
    BY OverrideType, OverrideSize
  <2>3. /\ b \in Info /\ b.desc = new.desc /\ b.bind = new.bind /\ b.dyn = new.dyn
        /\ b.size = l.size /\ b.vis = l.vis
    <3>1. b.dyn = new.dyn
      BY <2>2 DEF OverrideAttributes, Info
    <3> QED BY <2>2, <3>1, OverrideType, OverrideFields, OverrideSize
  <2> HIDE DEF b, l
  <2>4. /\ OverrideVisibility(b, new).desc = b.desc
        /\ OverrideVisibility(b, new).bind = b.bind
        /\ OverrideVisibility(b, new).dyn = b.dyn
        /\ OverrideVisibility(b, new).size = b.size
        /\ AtLeastAsStrict(OverrideVisibility(b, new).vis, b.vis)
    BY <2>3, OverrideFields, OverrideSize
  <2> QED BY <1>2, <1>8, <2>1, <2>2, <2>3, <2>4 DEF Overriding
<1>9. CASE act = "MBIG"
  <2> DEFINE l == Larger(old, new)
  <2>1. r = [info |-> OverrideVisibility(l, new), overriden |-> FALSE, error |-> FALSE]
    BY <1>9 DEF Resolve, Overriding
  <2>2. /\ l \in Info /\ l.size >= old.size /\ l.size >= new.size /\ l.vis = old.vis
        /\ l.desc = old.desc /\ l.bind = old.bind /\ l.dyn = old.dyn
    <3>1. l.dyn = old.dyn
      BY DEF Larger, Info
    <3> QED BY <3>1, OverrideType, OverrideSize, OverrideFields
  <2> HIDE DEF l
  <2>3. /\ OverrideVisibility(l, new).desc = l.desc
        /\ OverrideVisibility(l, new).bind = l.bind
        /\ OverrideVisibility(l, new).dyn = l.dyn
        /\ OverrideVisibility(l, new).size = l.size
        /\ AtLeastAsStrict(OverrideVisibility(l, new).vis, l.vis)
    BY <2>2, OverrideFields, OverrideSize
  <2> QED BY <1>2, <1>9, <2>1, <2>2, <2>3 DEF Overriding
<1>10. CASE act = "MDEF"
  <2>1. CASE SameAbsolute(old, new, outValue, value)
    <3>1. r = [info |-> Override(old, new), overriden |-> TRUE, error |-> FALSE]
      BY <1>10, <2>1 DEF Resolve, Overriding
    <3>2. Override(old, new).size >= new.size
      BY OverrideSize DEF Info
    <3> QED BY <1>2, <1>10, <2>1, <3>1, <3>2, OverrideFields, OverrideSize DEF Overriding
  <2>2. CASE ~SameAbsolute(old, new, outValue, value)
    <3>1. r = [info |-> old, overriden |-> FALSE, error |-> TRUE]
      BY <1>10, <2>2 DEF Resolve, Overriding
    <3>2. old.size >= old.size /\ AtLeastAsStrict(old.vis, old.vis)
      BY DEF Info, AtLeastAsStrict, Default
    <3> QED BY <1>2, <1>10, <2>2, <3>1, <3>2 DEF Overriding
  <2> QED BY <2>1, <2>2
<1> QED BY <1>1, <1>3, <1>4, <1>5, <1>6, <1>7, <1>8, <1>9, <1>10 DEF Actions

\* Inserting a symbol, into an empty entry or into one that is there.
LEMMA InsertEffect ==
  ASSUME TypeOK, RankInv,
         NEW i \in Inputs, NEW s \in Symbols, NEW n \in Names,
         NEW new, new = NewInfo(i, s),
         NEW r, r = InsertSymbol(n, new, s.value)
  PROVE  /\ r.info \in Info
         /\ r.overriden \in BOOLEAN /\ r.error \in BOOLEAN
         /\ r.existent <=> pool[n] # NoInfo
         /\ r.overriden => /\ r.info.desc = new.desc
                           /\ r.info.dyn = new.dyn
                           /\ ~new.dyn => r.info.bind = new.bind
                           /\ r.info.size >= new.size
         /\ ~r.overriden => /\ pool[n] # NoInfo
                            /\ r.info.desc = pool[n].desc
                            /\ r.info.dyn = pool[n].dyn
                            /\ r.info.bind = pool[n].bind
                            /\ r.info.size >= pool[n].size
         /\ pool[n] # NoInfo =>
              LET act == LinkAction(Ordinate(new), Ordinate(pool[n]))
              IN  /\ act \in {"NOACT", "MBIG"} => ~r.overriden
                  /\ act \in Overriding => r.overriden
                  /\ act = "MBIG" => r.info.size >= new.size
                  /\ AtLeastAsStrict(r.info.vis, pool[n].vis)
         /\ r.error <=> /\ pool[n] # NoInfo
                        /\ Ordinate(pool[n]) = "D" /\ Ordinate(new) = "D"
                        /\ ~SameAbsolute(pool[n], new,
                              IF outSym[n] = NoOut THEN 0 ELSE outSym[n].value, s.value)
         /\ r.error => ~r.overriden
<1>1. new \in Info /\ Legal(new)
  BY InputType, ContributionRank
<1>2. r.info \in Info /\ r.overriden \in BOOLEAN /\ r.error \in BOOLEAN
  BY <1>1, InsertType
<1>3. CASE pool[n] = NoInfo
  <2>1. r = [info |-> new, existent |-> FALSE, overriden |-> TRUE, error |-> FALSE]
    BY <1>3 DEF InsertSymbol
  <2>2. new.size >= new.size
    BY <1>1 DEF Info
  <2> QED BY <1>2, <1>3, <2>1, <2>2
<1>4. CASE pool[n] # NoInfo
  <2> DEFINE out == IF outSym[n] = NoOut THEN 0 ELSE outSym[n].value
             q == Resolve(pool[n], new, out, s.value)
  <2>1. pool[n] \in Info /\ Legal(pool[n])
    BY <1>4 DEF TypeOK, RankInv, RankOK
  <2>2. r = [info |-> q.info, existent |-> TRUE, overriden |-> q.overriden,
             error |-> q.error]
    BY <1>4 DEF InsertSymbol
  <2> HIDE DEF q
  <2>3. /\ r.info = q.info /\ r.overriden = q.overriden /\ r.error = q.error
        /\ r.existent = TRUE
    BY <2>2
  <2> DEFINE act == LinkAction(Ordinate(new), Ordinate(pool[n]))
  <2>4. /\ q.overriden => /\ q.info.desc = new.desc
                          /\ q.info.dyn = new.dyn
                          /\ ~new.dyn => q.info.bind = new.bind
                          /\ q.info.size >= new.size
        /\ ~q.overriden => /\ q.info.desc = pool[n].desc
                           /\ q.info.dyn = pool[n].dyn
                           /\ q.info.bind = pool[n].bind
                           /\ q.info.size >= pool[n].size
        /\ act = "MBIG" => q.info.size >= new.size
        /\ act \in {"NOACT", "MBIG"} => ~q.overriden
        /\ act \in Overriding => q.overriden
        /\ q.error <=> /\ Ordinate(pool[n]) = "D" /\ Ordinate(new) = "D"
                       /\ ~SameAbsolute(pool[n], new, out, s.value)
        /\ q.error => ~q.overriden
        /\ AtLeastAsStrict(q.info.vis, pool[n].vis)
    BY <1>1, <2>1, ResolveEffect DEF q
  <2> QED BY <1>2, <1>4, <2>3, <2>4
<1> QED BY <1>3, <1>4

\* The inductive invariant, name by name.  Besides the properties: the entry
\* has the description and the origin of one symbol that was read, a regular
\* one has an output symbol, and what was read is on record.
Sourced(n) ==
  pool[n] # NoInfo => \E c \in given[n] : /\ c.desc = pool[n].desc
                                          /\ IsRegular(c) <=> ~pool[n].dyn
HasOutput(n) == pool[n] # NoInfo /\ ~pool[n].dyn => outSym[n] # NoOut
OnRecord(n) ==
  \A c \in given[n] : /\ c.bind = "Absolute" => c.desc = "Define"
                      /\ c.desc # "Undefined" => <<c.from, n>> \in read
BeatsShared(n) ==
  ( /\ \E c \in given[n] : OrdinateOf(c) = "w_D"
    /\ \A c \in given[n] : OrdinateOf(c) \notin Commons )
  => pool[n].desc = "Define" /\ ~pool[n].dyn
CoversCommons(n) ==
  \A c \in given[n] :
    (pool[n] # NoInfo /\ Ordinate(pool[n]) = "C" /\ OrdinateOf(c) = "C")
    => c.size =< pool[n].size
KeepsReference(n) ==
  ( /\ pool[n] # NoInfo /\ pool[n].desc = "Undefined"
    /\ \E c \in given[n] : OrdinateOf(c) = "U" )
  => Ordinate(pool[n]) = "U"
Wins(c, n) ==
  /\ IsRegular(c)
  /\ c.desc = pool[n].desc
  /\ c.bind = pool[n].bind
  /\ c.value = outSym[n].value
  /\ outSym[n].frag = IF c.desc = "Define" /\ c.bind # "Absolute" THEN c.from ELSE "Null"
FollowsWinner(n) ==
  (pool[n] # NoInfo /\ ~pool[n].dyn /\ outSym[n] # NoOut) =>
    \E c \in given[n] : Wins(c, n)
HasProvider(n) ==
  (pool[n] # NoInfo /\ pool[n].dyn /\ pool[n].desc # "Undefined") =>
    \E c \in given[n] : c.from \in needed /\ c.desc = pool[n].desc /\ c.size =< pool[n].size
Reported(n) == n \in errors <=> \E c, d \in given[n] : Conflict(c, d)

SettledOK(n) ==
  /\ Sourced(n) /\ HasOutput(n) /\ OnRecord(n)
  /\ BeatsShared(n) /\ CoversCommons(n) /\ KeepsReference(n)
  /\ FollowsWinner(n) /\ HasProvider(n) /\ Reported(n)

SettledInv ==
  /\ \A n \in Names : SettledOK(n)
  /\ phase = "options" =>
       \A n \in Names : pool[n] = NoInfo /\ given[n] = {} /\ n \notin errors

\* Symbol s of input i, under the name m, has become the entry of n.
Inserted(i, m, s, n, r, info) ==
  /\ n = Renamed(m, s) /\ <<i, m>> \notin read
  /\ r = InsertSymbol(n, NewInfo(i, s), s.value)
  /\ Record(i, m, s, n, info, r.error)
  /\ info \in Info /\ info.desc = r.info.desc /\ info.bind = r.info.bind
  /\ info.dyn = r.info.dyn /\ info.size = r.info.size /\ info.vis = r.info.vis
  /\ \/ /\ i \in Objects
        /\ outSym' = IF r.overriden \/ outSym[n] = NoOut
                     THEN [outSym EXCEPT ![n] = NewOut(i, s)] ELSE outSym
        /\ needed' = needed
     \/ /\ i \in DynObjs
        /\ needed' = IF r.overriden \/ ~r.existent THEN needed \cup {i} ELSE needed
        /\ outSym' = IF r.existent THEN outSym ELSE [outSym EXCEPT ![n] = NoOut]

\* What such a step does to the entry, in terms of the old entry and of the
\* contribution c.
LEMMA InsertedFacts ==
  ASSUME TypeOK, RankInv, SettledInv,
         NEW i \in Inputs, NEW m \in Names, NEW s \in Symbols,
         NEW n \in Names, NEW r, NEW info, Inserted(i, m, s, n, r, info),
         NEW c, c = Contribution(i, s)
  PROVE  /\ pool'[n] = info /\ info # NoInfo /\ given'[n] = given[n] \cup {c}
         /\ info \in Info /\ Legal(info) /\ c \in Contributions
         /\ c.bind = "Absolute" => c.desc = "Define"
         /\ OrdinateOf(c) = Ordinate(NewInfo(i, s))
         /\ IsRegular(c) <=> i \in Objects
         /\ IsRegular(c) <=> ~NewInfo(i, s).dyn
         /\ c.from = i
         /\ c.desc # "Undefined" => \A d \in given[n] : d.desc # "Undefined" => d # c
         /\ read' = read \cup {<<i, m>>} /\ (c.desc # "Undefined" => n = m)
         /\ (n \in errors') <=> (n \in errors \/ r.error)
         /\ needed \subseteq needed'
         /\ r.overriden => /\ info.desc = c.desc /\ (IsRegular(c) <=> ~info.dyn)
                           /\ IsRegular(c) => info.bind = c.bind
                           /\ info.size >= c.size
         /\ ~r.overriden => /\ pool[n] # NoInfo /\ pool[n] \in Info
                            /\ info.desc = pool[n].desc /\ info.dyn = pool[n].dyn
                            /\ info.bind = pool[n].bind /\ info.size >= pool[n].size
<1> DEFINE new == NewInfo(i, s)
<1>1. /\ new \in Info /\ c \in Contributions /\ Legal(new)
      /\ OrdinateOf(c) = Ordinate(new)
  BY InputType, ContributionRank
<1>2. /\ new.desc = s.desc /\ new.bind = s.bind /\ new.size = s.size
      /\ new.dyn = (i \in DynObjs)
  BY DEF NewInfo
<1>3. /\ c.desc = s.desc /\ c.bind = s.bind /\ c.size = s.size /\ c.from = i
  BY DEF Contribution
<1>4. IsRegular(c) <=> i \in Objects
  BY <1>3, ResolutionAssumption DEF IsRegular, Inputs
<1>5. pool' = [pool EXCEPT ![n] = info] /\ given' = [given EXCEPT ![n] = @ \cup {c}]
      /\ read' = read \cup {<<i, m>>}
      /\ errors' = IF r.error THEN errors \cup {n} ELSE errors
  BY DEF Inserted, Record
<1>6. pool'[n] = info /\ given'[n] = given[n] \cup {c}
  BY <1>5 DEF TypeOK
<1>7. info \in Info /\ info # NoInfo
  BY DEF Inserted, Info, NoInfo, Descs
<1>8. /\ info.desc = r.info.desc /\ info.bind = r.info.bind
      /\ info.dyn = r.info.dyn /\ info.size = r.info.size
      /\ r = InsertSymbol(n, new, s.value) /\ n = Renamed(m, s) /\ <<i, m>> \notin read
  BY DEF Inserted
<1>9. c.desc # "Undefined" => n = m
  BY <1>3, <1>8 DEF Renamed
<1>10. ASSUME c.desc # "Undefined", NEW d \in given[n], d.desc # "Undefined"
       PROVE  d # c
  <2>1. <<d.from, n>> \in read
    BY <1>10 DEF SettledInv, SettledOK, OnRecord
  <2> QED BY <1>3, <1>8, <1>9, <1>10, <2>1
<1>11. needed \subseteq needed'
  BY DEF Inserted
<1>12. Legal(info)
  <2>1. RankInv'
    BY <1>7, <1>8, RankStep DEF Inserted
  <2> QED BY <1>6, <1>7, <2>1 DEF RankInv, RankOK
<1>13. /\ r.overriden => /\ r.info.desc = new.desc
                         /\ r.info.dyn = new.dyn
                         /\ ~new.dyn => r.info.bind = new.bind
                         /\ r.info.size >= new.size
       /\ ~r.overriden => /\ pool[n] # NoInfo
                          /\ r.info.desc = pool[n].desc
                          /\ r.info.dyn = pool[n].dyn
                          /\ r.info.bind = pool[n].bind
                          /\ r.info.size >= pool[n].size
  BY <1>8, InsertEffect
<1>14. pool[n] # NoInfo => pool[n] \in Info
  BY DEF TypeOK
<1>15. c.bind = "Absolute" => c.desc = "Define"
  BY <1>1, <1>2, <1>3 DEF Legal
<1>16. IsRegular(c) <=> ~new.dyn
  BY <1>2, <1>4, ResolutionAssumption DEF Inputs
<1> HIDE DEF new
<1>17. r.overriden => /\ info.desc = c.desc /\ (IsRegular(c) <=> ~info.dyn)
                      /\ IsRegular(c) => info.bind = c.bind
                      /\ info.size >= c.size
  BY <1>2, <1>3, <1>8, <1>13, <1>16
<1>18. ~r.overriden => /\ pool[n] # NoInfo /\ pool[n] \in Info
                       /\ info.desc = pool[n].desc /\ info.dyn = pool[n].dyn
                       /\ info.bind = pool[n].bind /\ info.size >= pool[n].size
  BY <1>8, <1>13, <1>14
<1>19. (n \in errors') <=> (n \in errors \/ r.error)
  BY <1>5
<1> QED BY <1>1, <1>3, <1>4, <1>5, <1>6, <1>7, <1>9, <1>10, <1>11, <1>12, <1>15, <1>16,
           <1>17, <1>18, <1>19 DEF new

\* The description and the origin of the entry come from one input; a regular
\* entry has its output symbol; what was read is on record.
LEMMA KeptSourced ==
  ASSUME TypeOK, RankInv, SettledInv,
         NEW i \in Inputs, NEW m \in Names, NEW s \in Symbols,
         NEW n \in Names, NEW r, NEW info, Inserted(i, m, s, n, r, info)
  PROVE  Sourced(n)' /\ HasOutput(n)' /\ OnRecord(n)'
<1> DEFINE c == Contribution(i, s)
<1>1. /\ pool'[n] = info /\ info # NoInfo /\ given'[n] = given[n] \cup {c}
      /\ c.bind = "Absolute" => c.desc = "Define"
      /\ IsRegular(c) <=> i \in Objects
      /\ c.from = i
      /\ read' = read \cup {<<i, m>>} /\ (c.desc # "Undefined" => n = m)
      /\ r.overriden => /\ info.desc = c.desc /\ (IsRegular(c) <=> ~info.dyn)
      /\ ~r.overriden => /\ pool[n] # NoInfo
                         /\ info.desc = pool[n].desc /\ info.dyn = pool[n].dyn
  BY InsertedFacts
<1> HIDE DEF c
<1>2. Sourced(n) /\ HasOutput(n) /\ OnRecord(n)
  BY DEF SettledInv, SettledOK
<1>3. Sourced(n)'
  <2>1. CASE r.overriden
    BY <1>1, <2>1 DEF Sourced, IsRegular
  <2>2. CASE ~r.overriden
    BY <1>1, <1>2, <2>2 DEF Sourced, IsRegular
  <2> QED BY <2>1, <2>2
<1>4. HasOutput(n)'
  <2> SUFFICES ASSUME ~info.dyn PROVE outSym'[n] # NoOut
    BY <1>1 DEF HasOutput
  <2>1. CASE i \in Objects
    <3>1. NewOut(i, s) # NoOut
      <4>1. NewOut(i, s).frag # "None" \/ i = "None"
        BY DEF NewOut
      <4>2. NewOut(i, s) = [frag |-> NewOut(i, s).frag, value |-> NewOut(i, s).value]
        BY DEF NewOut
      <4> QED BY <4>2 DEF NoOut
    <3>2. outSym' = IF r.overriden \/ outSym[n] = NoOut
                    THEN [outSym EXCEPT ![n] = NewOut(i, s)] ELSE outSym
      BY <2>1, ResolutionAssumption DEF Inserted
    <3> QED BY <3>1, <3>2 DEF TypeOK
  <2>2. CASE i \in DynObjs
    <3>1. ~r.overriden /\ pool[n] # NoInfo /\ ~pool[n].dyn
      BY <1>1, <2>2, ResolutionAssumption
    <3>2. r.existent
      BY <3>1, InsertEffect DEF Inserted
    <3>3. outSym' = outSym
      BY <2>2, <3>2, ResolutionAssumption DEF Inserted
    <3> QED BY <1>2, <3>1, <3>3 DEF HasOutput
  <2> QED BY <2>1, <2>2 DEF Inputs
<1>5. OnRecord(n)'
  BY <1>1, <1>2 DEF OnRecord
<1> QED BY <1>3, <1>4, <1>5

\* A shared object's definition never replaces or hides a regular one.
LEMMA KeptBeatsShared ==
  ASSUME TypeOK, RankInv, SettledInv,
         NEW i \in Inputs, NEW m \in Names, NEW s \in Symbols,
         NEW n \in Names, NEW r, NEW info, Inserted(i, m, s, n, r, info)
  PROVE  BeatsShared(n)'
<1> DEFINE c == Contribution(i, s)
           new == NewInfo(i, s)
<1>1. /\ pool'[n] = info /\ given'[n] = given[n] \cup {c}
      /\ OrdinateOf(c) = Ordinate(new)
      /\ IsRegular(c) <=> ~new.dyn
      /\ r.overriden => /\ info.desc = c.desc /\ (IsRegular(c) <=> ~info.dyn)
      /\ ~r.overriden => /\ pool[n] # NoInfo /\ pool[n] \in Info
                         /\ info.desc = pool[n].desc /\ info.dyn = pool[n].dyn
      /\ info \in Info
  BY InsertedFacts
<1>2. new \in Info /\ Legal(new) /\ c.desc = new.desc /\ c.bind = new.bind
  BY InputType, ContributionRank DEF NewInfo, Contribution
<1>3. RankOK(n) /\ BeatsShared(n) /\ Sourced(n) /\ OnRecord(n)
  BY DEF RankInv, SettledInv, SettledOK
<1>4. pool[n] # NoInfo =>
        LET act == LinkAction(Ordinate(new), Ordinate(pool[n]))
        IN  /\ act \in {"NOACT", "MBIG"} => ~r.overriden
            /\ act \in Overriding => r.overriden
  BY InsertEffect DEF Inserted
<1>5. pool[n] = NoInfo => given[n] = {} /\ r.overriden
  BY <1>1, <1>3 DEF RankOK
<1> HIDE DEF c, new
<1> SUFFICES ASSUME \E d \in given[n] \cup {c} : OrdinateOf(d) = "w_D",
                    \A d \in given[n] \cup {c} : OrdinateOf(d) \notin Commons
             PROVE  info.desc = "Define" /\ ~info.dyn
  BY <1>1 DEF BeatsShared, OrdinateOf, IsRegular
<1>6. OrdinateOf(c) = "w_D" => c.desc = "Define" /\ ~new.dyn
  BY <1>1, <1>2 DEF Ordinate, Legal, Info, Descs, Bindings
<1>7. CASE r.overriden /\ OrdinateOf(c) = "w_D"
  BY <1>1, <1>6, <1>7
<1>8. ASSUME pool[n] # NoInfo, pool[n].desc = "Common" PROVE FALSE
  <2>1. PICK d \in given[n] : d.desc = "Common"
    BY <1>3, <1>8 DEF Sourced
  <2>2. d.bind # "Absolute"
    BY <1>3, <2>1 DEF OnRecord
  <2>3. OrdinateOf(d) \in Commons
    BY <2>1, <2>2 DEF OrdinateOf, Ordinate, Commons
  <2> QED BY <2>3
<1>9. ASSUME pool[n] # NoInfo
      PROVE  /\ pool[n] \in Info /\ Legal(pool[n])
             /\ Ordinate(pool[n]) \in Ordinates /\ Ordinate(new) \in Ordinates
             /\ pool[n].desc # "Common"
             /\ Ordinate(pool[n]) \in Ordinates \ Commons
             /\ Ordinate(new) \in Ordinates \ Commons
  <2>1. pool[n] \in Info /\ Legal(pool[n])
    BY <1>3, <1>9 DEF TypeOK, RankOK
  <2>2. Ordinate(pool[n]) \in Ordinates /\ Ordinate(new) \in Ordinates
    BY <1>2, <2>1, OrdinateType DEF Info
  <2>3. Ordinate(pool[n]) \notin Commons
    BY <1>8, <1>9, <2>1 DEF Ordinate, Commons, Info, Descs, Bindings
  <2> QED BY <1>1, <1>8, <1>9, <2>1, <2>2, <2>3
<1>10. CASE ~r.overriden /\ OrdinateOf(c) = "w_D"
  <2>1. pool[n] # NoInfo
    BY <1>1, <1>10
  <2>2. LinkAction(Ordinate(new), Ordinate(pool[n])) # "DEFW"
    BY <1>4, <1>10, <2>1 DEF Overriding
  <2>3. Ordinate(pool[n]) \notin Undefs \cup {"d_D", "wd_D"}
    BY <1>1, <1>9, <1>10, <2>1, <2>2, TableCells
  <2>4. Ordinate(pool[n]) \in {"D", "w_D"}
    BY <1>9, <2>1, <2>3 DEF Ordinates
  <2>5. pool[n].desc = "Define" /\ ~pool[n].dyn
    BY <1>9, <2>1, <2>4 DEF Ordinate, Legal, Info, Descs, Bindings
  <2> QED BY <1>1, <1>10, <2>5
<1>11. CASE OrdinateOf(c) # "w_D"
  <2>1. PICK d \in given[n] : OrdinateOf(d) = "w_D"
    BY <1>11
  <2>2. pool[n] # NoInfo /\ pool[n].desc = "Define" /\ ~pool[n].dyn
    BY <1>3, <1>5, <2>1 DEF BeatsShared
  <2>3. CASE ~r.overriden
    BY <1>1, <2>2, <2>3
  <2>4. CASE r.overriden
    <3>1. Ordinate(pool[n]) \in {"D", "w_D"}
      BY <1>9, <2>2 DEF Ordinate, Info, Bindings
    <3>2. LinkAction(Ordinate(new), Ordinate(pool[n])) # "NOACT"
      BY <1>4, <2>2, <2>4
    <3>3. OrdinateOf(c) = "D"
      BY <1>1, <1>9, <2>2, <3>1, <3>2, TableCells
    <3>4. c.desc = "Define" /\ ~new.dyn
      BY <1>1, <1>2, <3>3 DEF Ordinate, Legal, Info, Descs, Bindings
    <3> QED BY <1>1, <2>4, <3>4
  <2> QED BY <2>3, <2>4
<1> QED BY <1>7, <1>10, <1>11

\* After the step the entry still has the highest rank that was given.
LEMMA InsertedRank ==
  ASSUME TypeOK, RankInv, SettledInv,
         NEW i \in Inputs, NEW m \in Names, NEW s \in Symbols,
         NEW n \in Names, NEW r, NEW info, Inserted(i, m, s, n, r, info)
  PROVE  /\ RankInv'
         /\ \A d \in given[n] : Rank(OrdinateOf(d)) =< Rank(Ordinate(info))
         /\ pool[n] # NoInfo => /\ Rank(Ordinate(pool[n])) =< Rank(Ordinate(info))
                                /\ pool[n] \in Info /\ Legal(pool[n])
                                /\ Ordinate(pool[n]) \in Ordinates
         /\ given[n] # {} => pool[n] # NoInfo
<1>1. RankInv'
  BY RankStep DEF Inserted
<1>2. /\ pool'[n] = info /\ info # NoInfo
      /\ given'[n] = given[n] \cup {Contribution(i, s)}
  BY InsertedFacts
<1>3. \A d \in given[n] : Rank(OrdinateOf(d)) =< Rank(Ordinate(info))
  <2>1. \A d \in given'[n] : Rank(OrdinateOf(d)) =< Rank(Ordinate(info))
    BY <1>1, <1>2 DEF RankInv, RankOK, OrdinateOf, IsRegular
  <2> QED BY <1>2, <2>1
<1>4. ASSUME pool[n] # NoInfo
      PROVE  /\ Rank(Ordinate(pool[n])) =< Rank(Ordinate(info))
             /\ pool[n] \in Info /\ Legal(pool[n])
             /\ Ordinate(pool[n]) \in Ordinates
  <2>1. pool[n] \in Info /\ Legal(pool[n])
    BY <1>4 DEF TypeOK, RankInv, RankOK
  <2>2. Ordinate(pool[n]) \in Ordinates
    BY <2>1, OrdinateType DEF Info
  <2>3. PICK d \in given[n] : Rank(OrdinateOf(d)) = Rank(Ordinate(pool[n]))
    BY <1>4 DEF RankInv, RankOK
  <2> QED BY <1>3, <2>1, <2>2, <2>3
<1>5. given[n] # {} => pool[n] # NoInfo
  BY DEF RankInv, RankOK
<1> QED BY <1>1, <1>3, <1>4, <1>5

\* A common entry keeps room for every strong common declaration.
LEMMA KeptCoversCommons ==
  ASSUME TypeOK, RankInv, SettledInv,
         NEW i \in Inputs, NEW m \in Names, NEW s \in Symbols,
         NEW n \in Names, NEW r, NEW info, Inserted(i, m, s, n, r, info)
  PROVE  CoversCommons(n)'
<1> DEFINE c == Contribution(i, s)
           new == NewInfo(i, s)
<1>1. /\ pool'[n] = info /\ given'[n] = given[n] \cup {c}
      /\ OrdinateOf(c) = Ordinate(new) /\ info \in Info /\ c \in Contributions
      /\ r.overriden => /\ info.desc = c.desc /\ (IsRegular(c) <=> ~info.dyn)
                        /\ IsRegular(c) => info.bind = c.bind
                        /\ info.size >= c.size
      /\ ~r.overriden => /\ pool[n] # NoInfo /\ pool[n] \in Info
                         /\ info.desc = pool[n].desc /\ info.dyn = pool[n].dyn
                         /\ info.bind = pool[n].bind /\ info.size >= pool[n].size
  BY InsertedFacts
<1>2. new \in Info /\ c.size = new.size /\ Ordinate(new) \in Ordinates
  <2>1. new \in Info
    BY InputType
  <2> QED BY <2>1, OrdinateType DEF NewInfo, Contribution, Info
<1>3. CoversCommons(n) /\ (\A d \in given[n] : d \in Contributions)
  BY DEF SettledInv, SettledOK, TypeOK
<1>4. /\ \A d \in given[n] : Rank(OrdinateOf(d)) =< Rank(Ordinate(info))
      /\ pool[n] # NoInfo => /\ Rank(Ordinate(pool[n])) =< Rank(Ordinate(info))
                             /\ Ordinate(pool[n]) \in Ordinates
      /\ given[n] # {} => pool[n] # NoInfo
  BY InsertedRank
<1>5. pool[n] # NoInfo =>
        LET act == LinkAction(Ordinate(new), Ordinate(pool[n]))
        IN  /\ act = "MBIG" => ~r.overriden
            /\ act = "MBIG" => r.info.size >= new.size
  BY InsertEffect DEF Inserted
<1>6. info.size = r.info.size
  BY DEF Inserted
<1>7. pool[n] # NoInfo => \A d \in given[n] : Rank(OrdinateOf(d)) =< Rank(Ordinate(pool[n]))
  BY DEF RankInv, RankOK
<1> HIDE DEF c, new
<1> SUFFICES ASSUME Ordinate(info) = "C",
                    NEW d \in given[n] \cup {c}, OrdinateOf(d) = "C"
             PROVE  d.size =< info.size
  BY <1>1 DEF CoversCommons, OrdinateOf, IsRegular
<1>8. ~r.overriden => Ordinate(pool[n]) = Ordinate(info)
  BY <1>1, OrdinateFields
<1>9. CASE d = c
  <2>1. CASE r.overriden
    BY <1>1, <1>9, <2>1 DEF Info, Contributions
  <2>2. CASE ~r.overriden
    <3>1. pool[n] # NoInfo /\ Ordinate(new) = "C" /\ Ordinate(pool[n]) = "C"
      BY <1>1, <1>8, <1>9, <2>2
    <3>2. LinkAction(Ordinate(new), Ordinate(pool[n])) = "MBIG"
      BY <1>2, <1>4, <3>1, TableCells
    <3> QED BY <1>1, <1>2, <1>5, <1>6, <1>9, <3>1, <3>2 DEF Info, Contributions
  <2> QED BY <2>1, <2>2
<1>10. CASE d \in given[n]
  <2>1. pool[n] # NoInfo
    BY <1>4, <1>10
  <2>2. CASE r.overriden
    <3>1. Rank(Ordinate(pool[n])) =< 2 /\ 2 =< Rank(Ordinate(pool[n]))
      BY <1>4, <1>7, <1>10, <2>1 DEF Rank, Undefs
    <3>2. Ordinate(pool[n]) = "C"
      BY <1>4, <2>1, <3>1 DEF Rank, Undefs, Ordinates
    <3>3. ~info.dyn
      BY <1>1 DEF Ordinate
    <3>4. OrdinateOf(c) = "C"
      BY <1>1, <2>2, <3>3 DEF OrdinateOf, Ordinate
    <3>5. LinkAction(Ordinate(new), Ordinate(pool[n])) = "MBIG"
      BY <1>1, <1>2, <1>4, <2>1, <3>2, <3>4, TableCells
    <3> QED BY <1>5, <2>1, <2>2, <3>5
  <2>3. CASE ~r.overriden
    <3>1. d.size =< pool[n].size
      BY <1>3, <1>8, <1>10, <2>1, <2>3 DEF CoversCommons
    <3> QED BY <1>1, <1>3, <1>10, <2>3, <3>1 DEF Info, Contributions
  <2> QED BY <2>2, <2>3
<1> QED BY <1>9, <1>10

\* While the name is undefined, a strong reference is remembered.
LEMMA KeptReference ==
  ASSUME TypeOK, RankInv, SettledInv,
         NEW i \in Inputs, NEW m \in Names, NEW s \in Symbols,
         NEW n \in Names, NEW r, NEW info, Inserted(i, m, s, n, r, info)
  PROVE  KeepsReference(n)'
<1> DEFINE c == Contribution(i, s)
           new == NewInfo(i, s)
<1>1. /\ pool'[n] = info /\ given'[n] = given[n] \cup {c}
      /\ OrdinateOf(c) = Ordinate(new) /\ info \in Info /\ Legal(info)
      /\ IsRegular(c) <=> ~new.dyn
      /\ r.overriden => /\ info.desc = c.desc /\ (IsRegular(c) <=> ~info.dyn)
                        /\ IsRegular(c) => info.bind = c.bind
      /\ ~r.overriden => /\ pool[n] # NoInfo
                         /\ info.desc = pool[n].desc /\ info.dyn = pool[n].dyn
                         /\ info.bind = pool[n].bind
  BY InsertedFacts
<1>2. /\ new \in Info /\ Legal(new) /\ c.desc = new.desc /\ c.bind = new.bind
      /\ Ordinate(new) \in Ordinates
  <2>1. new \in Info /\ Legal(new)
    BY InputType, ContributionRank
  <2> QED BY <2>1, OrdinateType DEF NewInfo, Contribution, Info
<1>3. KeepsReference(n)
  BY DEF SettledInv, SettledOK
<1>4. /\ pool[n] # NoInfo => /\ Rank(Ordinate(pool[n])) =< Rank(Ordinate(info))
                             /\ pool[n] \in Info /\ Legal(pool[n])
                             /\ Ordinate(pool[n]) \in Ordinates
      /\ given[n] # {} => pool[n] # NoInfo
  BY InsertedRank
<1>5. pool[n] # NoInfo =>
        LET act == LinkAction(Ordinate(new), Ordinate(pool[n]))
        IN  /\ act = "NOACT" => ~r.overriden
            /\ act = "UND" => r.overriden
  BY InsertEffect DEF Inserted, Overriding
<1> HIDE DEF c, new
<1> SUFFICES ASSUME info.desc = "Undefined",
                    NEW d \in given[n] \cup {c}, OrdinateOf(d) = "U"
             PROVE  Ordinate(info) = "U"
  BY <1>1 DEF KeepsReference, OrdinateOf, IsRegular
<1>6. CASE ~r.overriden
  <2>1. pool[n] # NoInfo /\ pool[n].desc = "Undefined" /\ Ordinate(pool[n]) = Ordinate(info)
    BY <1>1, <1>6, OrdinateFields
  <2>2. CASE d \in given[n]
    BY <1>3, <2>1, <2>2 DEF KeepsReference
  <2>3. CASE d = c
    <3>1. Ordinate(pool[n]) \in Undefs
      BY <1>4, <2>1 DEF Ordinate, Undefs, Legal
    <3>2. LinkAction(Ordinate(new), Ordinate(pool[n])) # "UND"
      BY <1>5, <1>6, <2>1
    <3> QED BY <1>1, <1>2, <1>4, <2>1, <2>3, <3>1, <3>2, TableCells
  <2> QED BY <2>2, <2>3
<1>7. CASE r.overriden /\ OrdinateOf(c) = "U"
  <2>1. ~new.dyn
    BY <1>1, <1>2, <1>7 DEF Ordinate
  <2>2. info.desc = new.desc /\ info.bind = new.bind /\ info.dyn = new.dyn
    BY <1>1, <1>2, <1>7, <2>1 DEF Info
  <2>3. Ordinate(info) = Ordinate(new)
    BY <2>2, OrdinateFields
  <2> QED BY <1>1, <1>7, <2>3
<1>8. CASE r.overriden /\ OrdinateOf(c) # "U"
  <2>1. d \in given[n] /\ pool[n] # NoInfo
    BY <1>4, <1>8
  <2>2. Rank(Ordinate(info)) = 0 /\ Rank(Ordinate(pool[n])) \in 0..3
    BY <1>1, <1>4, <2>1, RankOfUndefined
  <2>3. pool[n].desc = "Undefined"
    BY <1>4, <2>1, <2>2, RankOfUndefined
  <2>4. Ordinate(pool[n]) = "U"
    BY <1>3, <2>1, <2>3 DEF KeepsReference
  <2>5. Ordinate(new) \in Undefs
    BY <1>1, <1>2, <1>8 DEF Ordinate, Undefs, Legal
  <2>6. LinkAction(Ordinate(new), Ordinate(pool[n])) = "NOACT"
    BY <1>2, <1>4, <2>1, <2>4, <2>5, TableCells
  <2> QED BY <1>5, <1>8, <2>1, <2>6
<1> QED BY <1>6, <1>7, <1>8

\* A definition taken from a shared object comes from a library marked needed.
LEMMA KeptProvider ==
  ASSUME TypeOK, RankInv, SettledInv,
         NEW i \in Inputs, NEW m \in Names, NEW s \in Symbols,
         NEW n \in Names, NEW r, NEW info, Inserted(i, m, s, n, r, info)
  PROVE  HasProvider(n)'
<1> DEFINE c == Contribution(i, s)
<1>1. /\ pool'[n] = info /\ given'[n] = given[n] \cup {c} /\ c.from = i
      /\ info \in Info /\ c \in Contributions
      /\ IsRegular(c) <=> i \in Objects
      /\ needed \subseteq needed'
      /\ r.overriden => /\ info.desc = c.desc /\ (IsRegular(c) <=> ~info.dyn)
                        /\ info.size >= c.size
      /\ ~r.overriden => /\ pool[n] # NoInfo /\ pool[n] \in Info
                         /\ info.desc = pool[n].desc /\ info.dyn = pool[n].dyn
                         /\ info.size >= pool[n].size
  BY InsertedFacts
<1>2. HasProvider(n) /\ \A d \in given[n] : d \in Contributions
  BY DEF SettledInv, SettledOK, TypeOK
<1> HIDE DEF c
<1> SUFFICES ASSUME info.dyn, info.desc # "Undefined"
             PROVE  \E d \in given[n] \cup {c} :
                      d.from \in needed' /\ d.desc = info.desc /\ d.size =< info.size
  BY <1>1 DEF HasProvider
<1>3. CASE r.overriden
  <2>1. i \in DynObjs /\ i \notin Objects
    BY <1>1, <1>3, ResolutionAssumption DEF Inputs
  <2>2. i \in needed'
    BY <1>3, <2>1 DEF Inserted
  <2> QED BY <1>1, <1>3, <2>2 DEF Info, Contributions
<1>4. CASE ~r.overriden
  <2>1. PICK d \in given[n] : d.from \in needed /\ d.desc = pool[n].desc /\ d.size =< pool[n].size
    BY <1>1, <1>2, <1>4 DEF HasProvider
  <2>2. d.size =< info.size
    <3>1. d.size \in Nat /\ pool[n].size \in Nat /\ info.size \in Nat
      BY <1>1, <1>2, <1>4 DEF Info, Contributions
    <3>2. d.size =< pool[n].size /\ info.size >= pool[n].size
      BY <1>1, <1>4, <2>1
    <3> QED BY <3>1, <3>2
  <2> QED BY <1>1, <1>4, <2>1, <2>2
<1> QED BY <1>3, <1>4

\* The output symbol keeps following the input that won.
LEMMA KeptWinner ==
  ASSUME TypeOK, RankInv, SettledInv,
         NEW i \in Inputs, NEW m \in Names, NEW s \in Symbols,
         NEW n \in Names, NEW r, NEW info, Inserted(i, m, s, n, r, info)
  PROVE  FollowsWinner(n)'
<1> DEFINE c == Contribution(i, s)
<1>1. /\ pool'[n] = info /\ given'[n] = given[n] \cup {c} /\ c.from = i
      /\ IsRegular(c) <=> i \in Objects
      /\ r.overriden => /\ info.desc = c.desc /\ (IsRegular(c) <=> ~info.dyn)
                        /\ IsRegular(c) => info.bind = c.bind
      /\ ~r.overriden => /\ pool[n] # NoInfo
                         /\ info.desc = pool[n].desc /\ info.dyn = pool[n].dyn
                         /\ info.bind = pool[n].bind
  BY InsertedFacts
<1>2. FollowsWinner(n) /\ HasOutput(n)
  BY DEF SettledInv, SettledOK
<1>3. /\ NewOut(i, s).frag = IF c.desc = "Define" /\ c.bind # "Absolute" THEN i ELSE "Null"
      /\ NewOut(i, s).value = c.value
  BY DEF NewOut, Contribution
<1> HIDE DEF c
<1> SUFFICES ASSUME ~info.dyn
             PROVE  \E d \in given[n] \cup {c} :
                      /\ IsRegular(d) /\ d.desc = info.desc /\ d.bind = info.bind
                      /\ d.value = outSym'[n].value
                      /\ outSym'[n].frag = IF d.desc = "Define" /\ d.bind # "Absolute"
                                           THEN d.from ELSE "Null"
  BY <1>1 DEF FollowsWinner, Wins, IsRegular
<1>4. CASE r.overriden
  <2>1. i \in Objects /\ i \notin DynObjs
    BY <1>1, <1>4, ResolutionAssumption
  <2>2. outSym' = [outSym EXCEPT ![n] = NewOut(i, s)]
    BY <1>4, <2>1 DEF Inserted
  <2>3. outSym'[n] = NewOut(i, s)
    BY <2>2 DEF TypeOK
  <2> QED BY <1>1, <1>3, <1>4, <2>1, <2>3
<1>5. CASE ~r.overriden
  <2>1. pool[n] # NoInfo /\ ~pool[n].dyn /\ outSym[n] # NoOut
    BY <1>1, <1>2, <1>5 DEF HasOutput
  <2>2. r.existent
    BY <2>1, InsertEffect DEF Inserted
  <2>3. outSym'[n] = outSym[n]
    BY <1>5, <2>1, <2>2 DEF Inserted
  <2>4. PICK d \in given[n] : Wins(d, n)
    BY <1>2, <2>1 DEF FollowsWinner
  <2> QED BY <1>1, <1>5, <2>3, <2>4 DEF Wins
<1> QED BY <1>4, <1>5

\* A diagnostic is given exactly when there is a conflict to report.
LEMMA KeptReported ==
  ASSUME TypeOK, RankInv, SettledInv,
         NEW i \in Inputs, NEW m \in Names, NEW s \in Symbols,
         NEW n \in Names, NEW r, NEW info, Inserted(i, m, s, n, r, info)
  PROVE  Reported(n)'
<1> DEFINE c == Contribution(i, s)
           new == NewInfo(i, s)
           out == IF outSym[n] = NoOut THEN 0 ELSE outSym[n].value
<1>1. /\ given'[n] = given[n] \cup {c}
      /\ OrdinateOf(c) = Ordinate(new)
      /\ c.desc # "Undefined" => \A d \in given[n] : d.desc # "Undefined" => d # c
      /\ c.bind = "Absolute" => c.desc = "Define"
      /\ (n \in errors') <=> (n \in errors \/ r.error)
  BY InsertedFacts
<1>2. c.desc = new.desc /\ c.bind = new.bind /\ c.value = s.value
  BY DEF NewInfo, Contribution
<1>3. r.error <=> /\ pool[n] # NoInfo /\ Ordinate(pool[n]) = "D" /\ Ordinate(new) = "D"
                  /\ ~SameAbsolute(pool[n], new, out, s.value)
  BY InsertEffect DEF Inserted
<1>4. /\ Reported(n) /\ FollowsWinner(n) /\ HasOutput(n) /\ OnRecord(n)
      /\ \A d \in given[n] : d \in Contributions
  BY DEF SettledInv, SettledOK, TypeOK
<1>5. pool[n] # NoInfo =>
        /\ \A d \in given[n] : Rank(OrdinateOf(d)) =< Rank(Ordinate(pool[n]))
        /\ pool[n] \in Info /\ Legal(pool[n]) /\ Ordinate(pool[n]) \in Ordinates
  BY InsertedRank DEF RankInv, RankOK
<1>6. given[n] # {} => pool[n] # NoInfo
  BY InsertedRank
<1>7. ASSUME pool[n] # NoInfo, Ordinate(pool[n]) = "D"
      PROVE  \E w \in given[n] : /\ OrdinateOf(w) = "D" /\ w.desc = "Define"
                                 /\ w.bind = pool[n].bind /\ w.value = out
  <2>1. ~pool[n].dyn /\ pool[n].desc = "Define"
    BY <1>5, <1>7 DEF Ordinate, Legal, Info, Descs, Bindings
  <2>2. outSym[n] # NoOut
    BY <1>4, <1>7, <2>1 DEF HasOutput
  <2>3. PICK w \in given[n] : Wins(w, n)
    BY <1>4, <1>7, <2>1, <2>2 DEF FollowsWinner
  <2>4. OrdinateOf(w) = "D"
    BY <1>7, <2>1, <2>3 DEF Wins, OrdinateOf, Ordinate
  <2> QED BY <2>1, <2>2, <2>3, <2>4 DEF Wins
<1> HIDE DEF c, new, out
<1>8. Reported(n)' <=>
        ((n \in errors') <=> \E d, e \in given[n] \cup {c} : Conflict(d, e))
  BY <1>1 DEF Reported, Conflict, OrdinateOf, IsRegular
<1>9. ASSUME n \in errors PROVE \E d, e \in given[n] \cup {c} : Conflict(d, e)
  BY <1>4, <1>9 DEF Reported
<1>10. ASSUME r.error PROVE \E d, e \in given[n] \cup {c} : Conflict(d, e)
  <2>1. PICK w \in given[n] : /\ OrdinateOf(w) = "D" /\ w.desc = "Define"
                              /\ w.bind = pool[n].bind /\ w.value = out
    BY <1>3, <1>7, <1>10
  <2>2. OrdinateOf(c) = "D" /\ c.desc # "Undefined"
    <3>1. OrdinateOf(c) = "D"
      BY <1>1, <1>3, <1>10
    <3> QED BY <1>1, <3>1 DEF OrdinateOf, Ordinate
  <2>3. w # c
    BY <1>1, <2>1, <2>2
  <2>4. ~(w.bind = "Absolute" /\ c.bind = "Absolute" /\ w.value = c.value)
    BY <1>2, <1>3, <1>10, <2>1 DEF SameAbsolute
  <2>5. Conflict(w, c)
    BY <2>1, <2>2, <2>3, <2>4 DEF Conflict
  <2> QED BY <2>5
<1>11. ASSUME NEW d \in given[n], OrdinateOf(d) = "D", OrdinateOf(c) = "D",
              ~(d.bind = "Absolute" /\ c.bind = "Absolute" /\ d.value = c.value),
              n \notin errors
       PROVE  r.error
  <2>1. pool[n] # NoInfo
    BY <1>6
  <2>2. Ordinate(pool[n]) = "D"
    BY <1>5, <1>11, <2>1 DEF Rank, Undefs, Ordinates
  <2>3. PICK w \in given[n] : /\ OrdinateOf(w) = "D" /\ w.desc = "Define"
                              /\ w.bind = pool[n].bind /\ w.value = out
    BY <1>7, <2>1, <2>2
  <2>4. SUFFICES ASSUME SameAbsolute(pool[n], new, out, s.value) PROVE FALSE
    BY <1>1, <1>3, <1>11, <2>1, <2>2
  <2>5. w.bind = "Absolute" /\ c.bind = "Absolute" /\ w.value = c.value
    BY <1>2, <2>3, <2>4 DEF SameAbsolute
  <2>6. ~Conflict(w, d)
    BY <1>4, <1>11 DEF Reported
  <2>7. w = d \/ (w.bind = "Absolute" /\ d.bind = "Absolute" /\ w.value = d.value)
    BY <1>11, <2>3, <2>6 DEF Conflict
  <2> QED BY <1>11, <2>5, <2>7
<1>12. ASSUME NEW d \in given[n] \cup {c}, NEW e \in given[n] \cup {c}, Conflict(d, e)
       PROVE  n \in errors \/ r.error
  <2>1. CASE d \in given[n] /\ e \in given[n]
    BY <1>4, <1>12, <2>1 DEF Reported
  <2>2. CASE d \in given[n] /\ e = c
    BY <1>11, <1>12, <2>2 DEF Conflict
  <2>3. CASE d = c /\ e \in given[n]
    BY <1>11, <1>12, <2>3 DEF Conflict
  <2>4. CASE d = c /\ e = c
    BY <1>12, <2>4 DEF Conflict
  <2> QED BY <2>1, <2>2, <2>3, <2>4
<1> QED BY <1>1, <1>8, <1>9, <1>10, <1>12

\* Inserting a symbol keeps every name settled: the one it is inserted under,
\* and the others, of which nothing changes but the needed libraries.
LEMMA InsertedSettled ==
  ASSUME TypeOK, RankInv, SettledInv, phase = "reading",
         NEW i \in Inputs, NEW m \in Names, NEW s \in Symbols,
         NEW n \in Names, NEW r, NEW info, Inserted(i, m, s, n, r, info)
  PROVE  SettledInv'
<1>1. SettledOK(n)'
  <2>1. Sourced(n)' /\ HasOutput(n)' /\ OnRecord(n)'
    BY KeptSourced
  <2>2. BeatsShared(n)'
    BY KeptBeatsShared
  <2>3. CoversCommons(n)'
    BY KeptCoversCommons
  <2>4. KeepsReference(n)'
    BY KeptReference
  <2>5. FollowsWinner(n)'
    BY KeptWinner
  <2>6. HasProvider(n)'
    BY KeptProvider
  <2>7. Reported(n)'
    BY KeptReported
  <2> QED BY <2>1, <2>2, <2>3, <2>4, <2>5, <2>6, <2>7 DEF SettledOK
<1>2. ASSUME NEW k \in Names, k # n PROVE SettledOK(k)'
  <2>1. /\ pool'[k] = pool[k] /\ given'[k] = given[k]
        /\ (k \in errors') <=> (k \in errors)
        /\ read \subseteq read'
    BY <1>2 DEF Inserted, Record, TypeOK
  <2>2. outSym'[k] = outSym[k] /\ needed \subseteq needed'
    BY <1>2 DEF Inserted, TypeOK
  <2>3. SettledOK(k)
    BY DEF SettledInv
  <2>4. Sourced(k)' /\ HasOutput(k)' /\ OnRecord(k)'
    BY <2>1, <2>2, <2>3 DEF SettledOK, Sourced, HasOutput, OnRecord, IsRegular
  <2>5. BeatsShared(k)' /\ CoversCommons(k)' /\ KeepsReference(k)'
    BY <2>1, <2>3 DEF SettledOK, BeatsShared, CoversCommons, KeepsReference, OrdinateOf, IsRegular
  <2>6. FollowsWinner(k)'
    BY <2>1, <2>2, <2>3 DEF SettledOK, FollowsWinner, Wins, IsRegular
  <2>7. HasProvider(k)'
    BY <2>1, <2>2, <2>3 DEF SettledOK, HasProvider
  <2>8. Reported(k)'
    BY <2>1, <2>3 DEF SettledOK, Reported, Conflict, OrdinateOf, IsRegular
  <2> QED BY <2>4, <2>5, <2>6, <2>7, <2>8 DEF SettledOK
<1>3. phase' = "reading"
  BY DEF Inserted, Record
<1> QED BY <1>1, <1>2, <1>3 DEF SettledInv

\* Either action of reading inserts a symbol.
LEMMA ReadingInserts ==
  ASSUME TypeOK, NEW i, NEW m \in Names, NEW s \in Symbols,
         \/ i \in Objects /\ AddSymbolFromObject(i, m, s)
         \/ i \in DynObjs /\ AddSymbolFromDynObj(i, m, s)
  PROVE  /\ i \in Inputs /\ phase = "reading"
         /\ \E n, r, info : n \in Names /\ Inserted(i, m, s, n, r, info)
<1> DEFINE n == Renamed(m, s)
           r == InsertSymbol(n, NewInfo(i, s), s.value)
<1>1. i \in Inputs
  BY DEF Inputs
<1>2. n \in Names /\ NewInfo(i, s) \in Info
  BY <1>1, InputType
<1>3. r.info \in Info
  BY <1>2, InsertType
<1>4. CASE i \in Objects /\ AddSymbolFromObject(i, m, s)
  <2>1. Inserted(i, m, s, n, r, r.info) /\ phase = "reading"
    BY <1>3, <1>4 DEF AddSymbolFromObject, Inserted
  <2> QED BY <1>1, <1>2, <2>1
<1>5. CASE i \in DynObjs /\ AddSymbolFromDynObj(i, m, s)
  <2> DEFINE q == [r.info EXCEPT !.inDyn = TRUE]
  <2>1. /\ q \in Info /\ q.desc = r.info.desc /\ q.bind = r.info.bind
        /\ q.dyn = r.info.dyn /\ q.size = r.info.size /\ q.vis = r.info.vis
    BY <1>3 DEF Info
  <2>2. /\ phase = "reading" /\ <<i, m>> \notin read
        /\ Record(i, m, s, n, q, r.error)
        /\ needed' = IF r.overriden \/ ~r.existent THEN needed \cup {i} ELSE needed
        /\ outSym' = IF r.existent THEN outSym ELSE [outSym EXCEPT ![n] = NoOut]
    BY <1>5 DEF AddSymbolFromDynObj
  <2>3. n = Renamed(m, s) /\ r = InsertSymbol(n, NewInfo(i, s), s.value)
    OBVIOUS
  <2> HIDE DEF n, r, q
  <2>4. Inserted(i, m, s, n, r, q)
    BY <1>5, <2>1, <2>2, <2>3 DEF Inserted
  <2> QED BY <1>1, <1>2, <2>2, <2>4
<1> QED BY <1>4, <1>5

\* ObjectLinker::addUndefinedSymbols leaves each name of -u an undefined entry
\* and the others as they are.
LEMMA OptionsSettled ==
  ASSUME TypeOK, SettledInv, AddUndefinedSymbols
  PROVE  SettledInv'
<1>1. phase = "options" /\ phase' = "reading"
  BY DEF AddUndefinedSymbols
<1>2. ASSUME NEW n \in Names PROVE SettledOK(n)'
  <2>1. pool[n] = NoInfo /\ given[n] = {} /\ n \notin errors /\ errors' = errors
    BY <1>1 DEF SettledInv, AddUndefinedSymbols
  <2>2. CASE n \in UndefSyms
    <3>1. /\ pool'[n] = UndefInfo /\ given'[n] = {UndefContribution}
          /\ outSym'[n] = [frag |-> "Null", value |-> 0]
      BY <2>2 DEF AddUndefinedSymbols
    <3>2. /\ UndefInfo # NoInfo /\ UndefInfo.desc = "Undefined" /\ UndefInfo.bind = "Global"
          /\ UndefInfo.dyn = FALSE /\ Ordinate(UndefInfo) = "U"
      BY DEF UndefInfo, NoInfo, Ordinate
    <3>3. /\ UndefContribution.desc = "Undefined" /\ UndefContribution.bind = "Global"
          /\ UndefContribution.from = "-u" /\ UndefContribution.value = 0
          /\ "-u" \notin DynObjs
      BY ResolutionAssumption DEF UndefContribution, Inputs
    <3>4. OrdinateOf(UndefContribution) = "U" /\ IsRegular(UndefContribution)
      BY <3>3 DEF OrdinateOf, Ordinate, IsRegular
    <3>5. outSym'[n] # NoOut
      BY <3>1 DEF NoOut
    <3> HIDE DEF UndefInfo, UndefContribution
    <3>6. Sourced(n)' /\ HasOutput(n)' /\ OnRecord(n)'
      BY <3>1, <3>2, <3>3, <3>4, <3>5 DEF Sourced, HasOutput, OnRecord, IsRegular
    <3>7. BeatsShared(n)' /\ CoversCommons(n)' /\ KeepsReference(n)'
      BY <3>1, <3>2, <3>4 DEF BeatsShared, CoversCommons, KeepsReference, OrdinateOf, IsRegular
    <3>8. FollowsWinner(n)'
      BY <3>1, <3>2, <3>3, <3>4 DEF FollowsWinner, Wins, IsRegular
    <3>9. HasProvider(n)'
      BY <3>1, <3>2 DEF HasProvider
    <3>10. Reported(n)'
      BY <2>1, <3>1 DEF Reported, Conflict
    <3> QED BY <3>6, <3>7, <3>8, <3>9, <3>10 DEF SettledOK
  <2>3. CASE n \notin UndefSyms
    <3>1. pool'[n] = NoInfo /\ given'[n] = {}
      BY <2>1, <2>3 DEF AddUndefinedSymbols
    <3> QED BY <2>1, <3>1
        DEF SettledOK, Sourced, HasOutput, OnRecord, BeatsShared, CoversCommons,
            KeepsReference, FollowsWinner, HasProvider, Reported
  <2> QED BY <2>2, <2>3
<1> QED BY <1>1, <1>2 DEF SettledInv

\* Every step keeps every name settled.
LEMMA NextSettled ==
  ASSUME TypeOK, RankInv, SettledInv, [Next]_vars
  PROVE  SettledInv'
<1>1. CASE AddUndefinedSymbols
  BY <1>1, OptionsSettled
<1>2. ASSUME NEW i, NEW m \in Names, NEW s \in Symbols,
             \/ i \in Objects /\ AddSymbolFromObject(i, m, s)
             \/ i \in DynObjs /\ AddSymbolFromDynObj(i, m, s)
      PROVE  SettledInv'
  BY <1>2, ReadingInserts, InsertedSettled
<1>3. CASE UNCHANGED vars
  BY <1>3 DEF vars, SettledInv, SettledOK, Sourced, HasOutput, OnRecord, BeatsShared,
              CoversCommons, KeepsReference, FollowsWinner, Wins, HasProvider, Reported
<1> QED BY <1>1, <1>2, <1>3 DEF Next

\* Whatever the order of the inputs, the entry of each name beats the shared
\* objects, covers the common declarations and keeps a strong reference, and
\* the output symbols, the needed libraries and the diagnostics agree with it.
THEOREM InputsAlwaysSettled == Spec => []InputsSettled
<1>1. Init => RankInv /\ SettledInv
  BY DEF Init, RankInv, RankOK, SettledInv, SettledOK, Sourced, HasOutput, OnRecord,
         BeatsShared, CoversCommons, KeepsReference, FollowsWinner, HasProvider, Reported
<1>2. TypeOK /\ RankInv /\ SettledInv /\ [Next]_vars => SettledInv'
  BY NextSettled
<1>3. TypeOK /\ RankInv /\ [Next]_vars => RankInv'
  BY NextRank
<1>4. SettledInv => InputsSettled
  BY DEF SettledInv, SettledOK, InputsSettled, RegularBeatsShared, CommonSizeCoversAll,
         StrongReferenceKept, OutputFollowsWinner, ProviderNeeded, DuplicatesReported,
         BeatsShared, CoversCommons, KeepsReference, FollowsWinner, Wins, HasProvider, Reported
<1> QED BY <1>1, <1>2, <1>3, <1>4, TypeCorrect, PTL DEF Spec

\* No step of resolution makes a name more visible than it was.
THEOREM VisibilityOnlyTightens == Spec => VisibilityNeverRelaxed
<1> DEFINE Kept == \A n \in Names : pool[n] # NoInfo =>
                     AtLeastAsStrict(pool'[n].vis, pool[n].vis)
<1>1. TypeOK /\ RankInv /\ SettledInv /\ [Next]_vars => [Kept]_vars
  <2> SUFFICES ASSUME TypeOK, RankInv, SettledInv, Next PROVE Kept
    OBVIOUS
  <2>1. CASE AddUndefinedSymbols
    BY <2>1 DEF AddUndefinedSymbols, SettledInv
  <2>2. ASSUME NEW i, NEW m \in Names, NEW s \in Symbols,
               \/ i \in Objects /\ AddSymbolFromObject(i, m, s)
               \/ i \in DynObjs /\ AddSymbolFromDynObj(i, m, s)
        PROVE  Kept
    <3>1. PICK n, r, info : n \in Names /\ Inserted(i, m, s, n, r, info)
      BY <2>2, ReadingInserts
    <3>2. i \in Inputs
      BY <2>2 DEF Inputs
    <3>3. pool' = [pool EXCEPT ![n] = info] /\ info.vis = r.info.vis
      BY <3>1 DEF Inserted, Record
    <3>4. pool[n] # NoInfo => AtLeastAsStrict(info.vis, pool[n].vis)
      BY <3>1, <3>2, <3>3, InsertEffect DEF Inserted
    <3> SUFFICES ASSUME NEW k \in Names, pool[k] # NoInfo
                 PROVE  AtLeastAsStrict(pool'[k].vis, pool[k].vis)
      OBVIOUS
    <3>5. CASE k = n
      BY <3>3, <3>4, <3>5 DEF TypeOK
    <3>6. CASE k # n
      <4>1. pool'[k] = pool[k] /\ pool[k] \in Info
        BY <3>3, <3>6 DEF TypeOK
      <4> QED BY <4>1 DEF AtLeastAsStrict, Info, Default
    <3> QED BY <3>5, <3>6
  <2> QED BY <2>1, <2>2 DEF Next
<1>2. Init => RankInv /\ SettledInv
  BY DEF Init, RankInv, RankOK, SettledInv, SettledOK, Sourced, HasOutput, OnRecord,
         BeatsShared, CoversCommons, KeepsReference, FollowsWinner, HasProvider, Reported
<1>3. TypeOK /\ RankInv /\ SettledInv /\ [Next]_vars => SettledInv'
  BY NextSettled
<1>4. TypeOK /\ RankInv /\ [Next]_vars => RankInv'
  BY NextRank
<1>5. VisibilityNeverRelaxed <=> [][Kept]_vars
  BY PTL DEF VisibilityNeverRelaxed
<1> HIDE DEF Kept
<1> QED BY <1>1, <1>2, <1>3, <1>4, <1>5, TypeCorrect, PTL DEF Spec
=============================================================================
