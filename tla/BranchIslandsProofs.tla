------------------------- MODULE BranchIslandsProofs -------------------------
(* Theorems about the relaxation of branches.                                *)
EXTENDS BranchIslands, FiniteSetTheorems, TLAPS

(* The library's induction needs an operator; a smallest counterexample does *)
(* not.  Numbers are ordered as the intervals below them are.                *)
LEMMA SmallestNat ==
  ASSUME NEW T \in SUBSET Nat, T # {}
  PROVE  \E x \in T : \A y \in T : x <= y
<1> DEFINE F == {1..n : n \in T}
<1>1. F \subseteq FiniteSubsetsOf(Nat)
  <2>1. \A n \in T : 1..n \subseteq Nat /\ IsFiniteSet(1..n)
    BY FS_Interval
  <2> QED BY <2>1 DEF FiniteSubsetsOf
<1>2. PICK X \in F : \A Y \in F : ~(<<Y, X>> \in StrictSubsetOrdering(Nat))
  <2>1. F # {}
    OBVIOUS
  <2>2. IsWellFoundedOn(StrictSubsetOrdering(Nat), FiniteSubsetsOf(Nat))
    BY FS_StrictSubsetOrderingWellFounded
  <2> HIDE DEF F
  <2> QED BY <1>1, <2>1, <2>2, WFMin
<1>3. PICK x \in T : X = 1..x
  OBVIOUS
<1>4. ASSUME NEW y \in T, y < x PROVE FALSE
  <2>1. 1..y \in F /\ 1..y \in SUBSET Nat /\ 1..x \in SUBSET Nat
    OBVIOUS
  <2>2. 1..y \subseteq 1..x /\ 1..y # 1..x
    BY <1>4
  <2> QED BY <2>1, <2>2, <1>2, <1>3 DEF StrictSubsetOrdering
<1> QED BY <1>4

LEMMA FunctionSeq ==
  ASSUME NEW S, NEW n \in Nat, NEW f \in [1..n -> S]
  PROVE  f \in Seq(S)
OBVIOUS

LEMMA ConcatIs ==
  ASSUME NEW S, NEW a \in Seq(S), NEW b \in Seq(S)
  PROVE  /\ a \o b \in Seq(S) /\ Len(a \o b) = Len(a) + Len(b)
         /\ Len(a) \in Nat /\ Len(b) \in Nat
         /\ \A q \in 1..(Len(a) + Len(b)) : (a \o b)[q] = IF q <= Len(a) THEN a[q] ELSE b[q - Len(a)]
OBVIOUS

LEMMA MinOf ==
  ASSUME NEW T \in SUBSET Nat, T # {}
  PROVE  Min(T) \in T /\ \A y \in T : Min(T) <= y
BY SmallestNat DEF Min

LEMMA MaxOf ==
  ASSUME NEW n \in Nat, NEW T \in SUBSET (0..n), T # {}
  PROVE  Max(T) \in T /\ \A y \in T : y <= Max(T)
<1> DEFINE U == {n - t : t \in T}
<1>1. U \in SUBSET Nat /\ U # {}
  <2>1. \A t \in T : t \in 0..n /\ n - t \in Nat
    OBVIOUS
  <2> QED BY <2>1
<1>2. PICK x \in U : \A y \in U : x <= y
  BY <1>1, SmallestNat
<1>3. PICK t \in T : x = n - t
  BY <1>2
<1>4. \A y \in T : y <= t
  BY <1>2, <1>3
<1> QED BY <1>4 DEF Max

(* The place of the only element of a sequence that passes a test.           *)
LEMMA PositionIs ==
  ASSUME NEW S, NEW frags \in Seq(S), NEW p \in DOMAIN frags,
         \A q \in DOMAIN frags : frags[q].id = frags[p].id => q = p
  PROVE  Position(frags, frags[p].id) = p
<1> DEFINE I == {i \in 1..Len(frags) : frags[i].id = frags[p].id}
<1>1. I = {p}
  OBVIOUS
<1>2. Min({p}) = p
  BY MinOf
<1> QED BY <1>1, <1>2 DEF Position, SelectInSeq

(* A stub that is found is of the same key.                                  *)
LEMMA NoSuch ==
  ASSUME NEW S, NEW i, i # 0, islands[i].stubs \in Seq(S), NEW proto, NEW b
  PROVE  LET k == FindStub(i, proto, b)
         IN  k = 0 \/ (k \in DOMAIN islands[i].stubs /\ SameKey(islands[i].stubs[k], proto, b))
<1> DEFINE stubs == islands[i].stubs
           I == {k \in 1..Len(stubs) : SameKey(stubs[k], proto, b)}
<1>1. I \in SUBSET Nat /\ I \subseteq DOMAIN stubs
  OBVIOUS
<1>2. I # {} => Min(I) \in I
  <2> HIDE DEF I
  <2> QED BY <1>1, MinOf
<1>3. FindStub(i, proto, b) = IF I # {} THEN Min(I) ELSE 0
  BY DEF FindStub, SelectInSeq
<1>4. \A k \in I : SameKey(stubs[k], proto, b)
  OBVIOUS
<1> HIDE DEF I
<1> QED BY <1>1, <1>2, <1>3, <1>4
-----------------------------------------------------------------------------
(* Fragments.                                                                *)
FragType == {f \in [k : {"data", "align", "stub"}, id : Nat, n : Nat, at : Nat] : f.k = "align" => f.n > 0}

LEMMA EndNat ==
  ASSUME NEW f \in FragType
  PROVE  FragmentSize(f) \in Nat /\ EndOfFragment(f) \in Nat
<1>1. CASE f.k = "align"
  <2>1. f.n \in Nat /\ f.n > 0 /\ f.at \in Nat
    BY <1>1 DEF FragType
  <2>2. (0 - f.at) % f.n \in 0..(f.n - 1)
    BY <2>1
  <2> QED BY <1>1, <2>1, <2>2 DEF FragmentSize, EndOfFragment
<1>2. CASE f.k # "align"
  BY <1>2 DEF FragType, FragmentSize, EndOfFragment
<1> QED BY <1>1, <1>2

LEMMA SameFragment ==
  ASSUME NEW f \in FragType, NEW h \in FragType, f.k = h.k, f.id = h.id, f.n = h.n, f.at = h.at
  PROVE  f = h
<1>1. /\ f \in [k : {"data", "align", "stub"}, id : Nat, n : Nat, at : Nat]
      /\ h \in [k : {"data", "align", "stub"}, id : Nat, n : Nat, at : Nat]
  BY DEF FragType
<1> QED BY <1>1

(* A fragment put elsewhere.                                                 *)
LEMMA MovedType ==
  ASSUME NEW f \in FragType, NEW a \in Nat
  PROVE  /\ [f EXCEPT !.at = a] \in FragType
         /\ [f EXCEPT !.at = a].at = a
         /\ [f EXCEPT !.at = a].id = f.id /\ [f EXCEPT !.at = a].k = f.k /\ [f EXCEPT !.at = a].n = f.n
BY DEF FragType

Next1(frags, start, g, p) == IF p = 1 THEN start ELSE EndOfFragment([frags[p - 1] EXCEPT !.at = g[p - 1]])

LEMMA ChainExists ==
  ASSUME NEW frags \in Seq(FragType), NEW start \in Nat
  PROVE  \E g \in [DOMAIN frags -> Nat] : g = [p \in DOMAIN frags |-> Next1(frags, start, g, p)]
<1> DEFINE Good(m) == \E g \in [1..m -> Nat] : \A p \in 1..m : g[p] = Next1(frags, start, g, p)
           Bad == {m \in Nat : m <= Len(frags) /\ ~Good(m)}
<1>1. ASSUME Bad # {} PROVE FALSE
  <2> HIDE DEF Good
  <2>1. PICK m \in Bad : \A y \in Bad : m <= y
    BY <1>1, SmallestNat
  <2>2. m # 0
    <3>1. Good(0)
      <4>1. [p \in 1..0 |-> 0] \in [1..0 -> Nat] /\ 1..0 = {}
        OBVIOUS
      <4>2. PICK g \in [1..0 -> Nat] : TRUE
        BY <4>1
      <4>3. \A p \in 1..0 : g[p] = Next1(frags, start, g, p)
        BY <4>1
      <4> QED BY <4>2, <4>3 DEF Good
    <3> QED BY <3>1
  <2>3. m - 1 \in Nat /\ m \in 1..Len(frags) /\ m - 1 \notin Bad
    BY <2>1, <2>2
  <2>4. PICK g \in [1..(m - 1) -> Nat] : \A p \in 1..(m - 1) : g[p] = Next1(frags, start, g, p)
    BY <2>3 DEF Good
  <2> DEFINE a == Next1(frags, start, g, m)
             h == [p \in 1..m |-> IF p = m THEN a ELSE g[p]]
  <2>5. a \in Nat
    <3>1. CASE m = 1
      BY <3>1 DEF Next1
    <3>2. CASE m # 1
      <4>1. m - 1 \in 1..(m - 1) /\ g[m - 1] \in Nat /\ frags[m - 1] \in FragType
        BY <3>2, <2>3
      <4> QED BY <3>2, <4>1, MovedType, EndNat DEF Next1
    <3> QED BY <3>1, <3>2
  <2>6. h \in [1..m -> Nat]
    <3> HIDE DEF a
    <3>1. \A p \in 1..m : p # m => p \in 1..(m - 1)
      BY <2>3
    <3> QED BY <2>5, <3>1
  <2>7. \A p \in 1..m : h[p] = Next1(frags, start, h, p)
    <3> SUFFICES ASSUME NEW p \in 1..m PROVE h[p] = Next1(frags, start, h, p)
      OBVIOUS
    <3>1. p # 1 => p - 1 \in 1..m /\ h[p - 1] = g[p - 1]
      BY <2>3
    <3>2. h[p] = Next1(frags, start, g, p)
      BY <2>4, <2>3
    <3> QED BY <3>1, <3>2 DEF Next1
  <2>8. Good(m)
    <3> HIDE DEF h
    <3> QED BY <2>6, <2>7 DEF Good
  <2> QED BY <2>1, <2>8
<1>2. Good(Len(frags))
  BY <1>1
<1>3. PICK g \in [1..Len(frags) -> Nat] : \A p \in 1..Len(frags) : g[p] = Next1(frags, start, g, p)
  BY <1>2
<1>4. DOMAIN frags = 1..Len(frags)
  OBVIOUS
<1>5. g = [p \in DOMAIN frags |-> Next1(frags, start, g, p)]
  BY <1>3, <1>4
<1> QED BY <1>3, <1>4, <1>5

LEMMA ChainNat ==
  ASSUME NEW frags \in Seq(FragType), NEW start \in Nat, NEW g,
         g = [p \in DOMAIN frags |-> Next1(frags, start, g, p)]
  PROVE  \A p \in DOMAIN frags : g[p] \in Nat
<1> DEFINE Bad == {p \in DOMAIN frags : g[p] \notin Nat}
<1>1. Bad \in SUBSET Nat
  OBVIOUS
<1>2. ASSUME Bad # {} PROVE FALSE
  <2>1. PICK p \in Bad : \A y \in Bad : p <= y
    <3> HIDE DEF Bad
    <3> QED BY <1>1, <1>2, SmallestNat
  <2>2. p \in DOMAIN frags /\ g[p] \notin Nat
    BY <2>1
  <2>3. g[p] = Next1(frags, start, g, p)
    BY <2>2
  <2>4. p # 1
    BY <2>2, <2>3 DEF Next1
  <2>5. p - 1 \in DOMAIN frags /\ p - 1 \notin Bad
    BY <2>1, <2>2, <2>4
  <2>6. g[p - 1] \in Nat /\ frags[p - 1] \in FragType
    BY <2>5
  <2>7. EndOfFragment([frags[p - 1] EXCEPT !.at = g[p - 1]]) \in Nat
    BY <2>6, MovedType, EndNat
  <2> QED BY <2>2, <2>3, <2>4, <2>7 DEF Next1
<1> QED BY <1>2

Is(c, frags, start) ==
  /\ c \in Seq(FragType) /\ Len(c) = Len(frags)
  /\ \A p \in DOMAIN frags :
        /\ c[p].k = frags[p].k /\ c[p].id = frags[p].id /\ c[p].n = frags[p].n
        /\ c[p].at = IF p = 1 THEN start ELSE EndOfFragment(c[p - 1])

(* Chain moves each fragment behind the one before, and changes nothing else.*)
LEMMA ChainIs ==
  ASSUME NEW frags \in Seq(FragType), NEW start \in Nat
  PROVE  Is(Chain(frags, start), frags, start)
<1> DEFINE P(g) == g = [p \in DOMAIN frags |-> IF p = 1 THEN start ELSE EndOfFragment([frags[p - 1] EXCEPT !.at = g[p - 1]])]
           A == CHOOSE g : P(g)
           c == [p \in DOMAIN frags |-> [frags[p] EXCEPT !.at = A[p]]]
<1>1. Chain(frags, start) = c
  BY DEF Chain
<1>2. PICK g \in [DOMAIN frags -> Nat] : P(g)
  BY ChainExists DEF Next1
<1>3. P(A)
  <2>1. \E f : P(f)
    BY <1>2
  <2> HIDE DEF P
  <2> QED BY <2>1
<1>4. A = [p \in DOMAIN frags |-> Next1(frags, start, A, p)]
  BY <1>3 DEF Next1
<1> HIDE DEF A, P
<1>5. \A p \in DOMAIN frags : A[p] \in Nat /\ c[p] = [frags[p] EXCEPT !.at = A[p]] /\ frags[p] \in FragType
  BY <1>4, ChainNat
<1>6. \A p \in DOMAIN frags : /\ c[p] \in FragType /\ c[p].at = A[p]
                              /\ c[p].k = frags[p].k /\ c[p].id = frags[p].id /\ c[p].n = frags[p].n
  <2> SUFFICES ASSUME NEW p \in DOMAIN frags
               PROVE  /\ c[p] \in FragType /\ c[p].at = A[p]
                      /\ c[p].k = frags[p].k /\ c[p].id = frags[p].id /\ c[p].n = frags[p].n
    OBVIOUS
  <2>1. frags[p] \in FragType /\ A[p] \in Nat /\ c[p] = [frags[p] EXCEPT !.at = A[p]]
    BY <1>5
  <2> HIDE DEF c, A
  <2> QED BY <2>1, MovedType
<1>7. DOMAIN c = 1..Len(frags) /\ Len(frags) \in Nat
  OBVIOUS
<1>8. c \in Seq(FragType) /\ Len(c) = Len(frags)
  <2> HIDE DEF c
  <2>1. c \in [1..Len(frags) -> FragType]
    <3>1. c = [p \in DOMAIN frags |-> c[p]]
      BY DEF c
    <3> QED BY <1>6, <1>7, <3>1
  <2> QED BY <2>1, <1>7
<1>9. ASSUME NEW p \in DOMAIN frags
      PROVE  c[p].at = IF p = 1 THEN start ELSE EndOfFragment(c[p - 1])
  <2>1. c[p].at = Next1(frags, start, A, p)
    BY <1>4, <1>6
  <2>2. p # 1 => p - 1 \in DOMAIN frags
    OBVIOUS
  <2>3. p # 1 => c[p - 1] = [frags[p - 1] EXCEPT !.at = A[p - 1]]
    BY <1>5, <2>2
  <2> HIDE DEF c
  <2> QED BY <2>1, <2>3 DEF Next1
<1> HIDE DEF c
<1> QED BY <1>1, <1>6, <1>8, <1>9 DEF Is

(* Fragments that are chained stay where they are.                           *)
LEMMA ChainUnique ==
  ASSUME NEW frags \in Seq(FragType),
         \A p \in DOMAIN frags : frags[p].at = IF p = 1 THEN 0 ELSE EndOfFragment(frags[p - 1])
  PROVE  frags = Chain(frags, 0)
<1> DEFINE c == Chain(frags, 0)
           Bad == {p \in DOMAIN frags : c[p] # frags[p]}
<1>1. Is(c, frags, 0)
  BY ChainIs
<1> HIDE DEF c
<1>2. Bad \in SUBSET Nat
  OBVIOUS
<1>3. ASSUME Bad # {} PROVE FALSE
  <2>1. PICK p \in Bad : \A y \in Bad : p <= y
    <3> HIDE DEF Bad
    <3> QED BY <1>2, <1>3, SmallestNat
  <2>2. p # 1 => p - 1 \in DOMAIN frags /\ p - 1 \notin Bad
    BY <2>1
  <2>3. c[p].at = frags[p].at
    BY <2>1, <2>2, <1>1 DEF Is
  <2>4. c[p] \in FragType /\ frags[p] \in FragType
    BY <1>1, <2>1 DEF Is
  <2>5. c[p].k = frags[p].k /\ c[p].id = frags[p].id /\ c[p].n = frags[p].n
    BY <1>1, <2>1 DEF Is
  <2>6. c[p] = frags[p]
    BY <2>3, <2>4, <2>5, SameFragment
  <2> QED BY <2>1, <2>6
<1>4. c \in Seq(FragType) /\ Len(c) = Len(frags)
  BY <1>1 DEF Is
<1>5. c = frags
  BY <1>3, <1>4
<1> QED BY <1>5 DEF c
-----------------------------------------------------------------------------
(* Grouping.                                                                 *)
Entry(frags, i) == SelectLastInSubSeq(frags, 1, i - 1, LAMBDA f : f.k # "align")

LEMMA EntryIs ==
  ASSUME NEW frags \in Seq(FragType), NEW i \in DOMAIN frags
  PROVE  LET e == Entry(frags, i)
         IN  /\ e \in 0..(i - 1)
             /\ \A q \in (e + 1)..(i - 1) : frags[q].k = "align"
<1> DEFINE I == {q \in 1..(i - 1) : frags[q].k # "align"}
<1>1. i \in Nat /\ I \in SUBSET (0..(i - 1)) /\ i - 1 \in Nat
  OBVIOUS
<1>2. I # {} => Max(I) \in I /\ \A q \in I : q <= Max(I)
  <2> HIDE DEF I
  <2> QED BY <1>1, MaxOf
<1>3. Entry(frags, i) = IF I # {} THEN Max(I) ELSE 0
  BY DEF Entry, SelectLastInSubSeq
<1>4. CASE I = {}
  BY <1>1, <1>3, <1>4
<1>5. CASE I # {}
  <2>1. Max(I) \in 1..(i - 1) /\ \A q \in 1..(i - 1) : frags[q].k # "align" => q <= Max(I)
    BY <1>2, <1>5
  <2> HIDE DEF I
  <2>2. Entry(frags, i) = Max(I)
    BY <1>3, <1>5
  <2> QED BY <1>1, <2>1, <2>2
<1> QED BY <1>4, <1>5

PartNext(frags, s, g, i) ==
    IF i = 0 THEN [made |-> <<>>, end |-> MaxFwd]
    ELSE IF EndOfFragment(frags[i]) <= g[i - 1].end \/ Entry(frags, i) = 0 THEN g[i - 1]
    ELSE [made |-> Append(g[i - 1].made, Produce(s, Entry(frags, i))), end |-> frags[i].at + MaxFwd]

LEMMA PartExists ==
  ASSUME NEW frags \in Seq(FragType), NEW s
  PROVE  \E g : g = [i \in 0..Len(frags) |-> PartNext(frags, s, g, i)]
<1> DEFINE Good(m) == \E g : g = [i \in 0..m |-> PartNext(frags, s, g, i)]
           Bad == {m \in Nat : ~Good(m)}
<1>1. ASSUME Bad # {} PROVE FALSE
  <2> HIDE DEF Good
  <2>1. PICK m \in Bad : \A y \in Bad : m <= y
    BY <1>1, SmallestNat
  <2>2. m # 0
    <3> DEFINE h == [i \in 0..0 |-> [made |-> <<>>, end |-> MaxFwd]]
    <3>1. h = [i \in 0..0 |-> PartNext(frags, s, h, i)]
      BY DEF PartNext
    <3>2. Good(0)
      <4> HIDE DEF h
      <4> QED BY <3>1 DEF Good
    <3> QED BY <3>2, <2>1
  <2>3. m - 1 \in Nat /\ m - 1 \notin Bad
    BY <2>1, <2>2
  <2>4. PICK g : g = [i \in 0..(m - 1) |-> PartNext(frags, s, g, i)]
    BY <2>3 DEF Good
  <2> DEFINE h == [i \in 0..m |-> IF i = m THEN PartNext(frags, s, g, m) ELSE g[i]]
  <2>5. ASSUME NEW i \in 0..m PROVE h[i] = PartNext(frags, s, h, i)
    <3>1. i # 0 => i - 1 \in 0..m /\ h[i - 1] = g[i - 1]
      BY <2>3
    <3>2. PartNext(frags, s, h, i) = PartNext(frags, s, g, i)
      <4> HIDE DEF h
      <4> QED BY <3>1 DEF PartNext
    <3>3. i # m => i \in 0..(m - 1)
      BY <2>3
    <3>4. h[i] = PartNext(frags, s, g, i)
      BY <2>4, <3>3
    <3> QED BY <3>2, <3>4
  <2>6. h = [i \in 0..m |-> PartNext(frags, s, h, i)]
    <3>1. h = [i \in 0..m |-> h[i]]
      OBVIOUS
    <3> HIDE DEF h
    <3> QED BY <2>5, <3>1, Zenon
  <2>7. Good(m)
    <3> HIDE DEF h
    <3> QED BY <2>6 DEF Good
  <2> QED BY <2>1, <2>7
<1> HIDE DEF Good
<1>2. Good(Len(frags))
  <2>1. Len(frags) \in Nat
    OBVIOUS
  <2> QED BY <1>1, <2>1
<1> QED BY <1>2 DEF Good

(* The entries of the islands of a section lie one behind the other.         *)
Rises(e, n) == \A j, k \in 1..n : j < k => e[j] < e[k]
Made(s, frags, seq, i) ==
    /\ seq \in Seq({Produce(s, p) : p \in DOMAIN frags})
    /\ \E e \in [1..Len(seq) -> 1..i] :
          /\ \A k \in 1..Len(seq) : seq[k] = Produce(s, e[k])
          /\ Rises(e, Len(seq))

OneMore(seq, e, p) == [k \in 1..(Len(seq) + 1) |-> IF k = Len(seq) + 1 THEN p ELSE e[k]]

LEMMA MakeOneMore ==
  ASSUME NEW s, NEW frags \in Seq(FragType), NEW seq, NEW i \in Nat, NEW p \in DOMAIN frags,
         seq \in Seq({Produce(s, q) : q \in DOMAIN frags}),
         NEW e \in [1..Len(seq) -> 1..i], p <= i,
         \A k \in 1..Len(seq) : seq[k] = Produce(s, e[k])
  PROVE  LET more == Append(seq, Produce(s, p))
             f == OneMore(seq, e, p)
         IN  /\ more \in Seq({Produce(s, q) : q \in DOMAIN frags})
             /\ Len(more) = Len(seq) + 1
             /\ f \in [1..Len(more) -> 1..i]
             /\ \A k \in 1..Len(more) : more[k] = Produce(s, f[k])
             /\ Rises(e, Len(seq)) /\ (\A k \in 1..Len(seq) : e[k] < p) => Rises(f, Len(more))
<1> DEFINE P == {Produce(s, q) : q \in DOMAIN frags}
           more == Append(seq, Produce(s, p))
           f == OneMore(seq, e, p)
<1>1. Produce(s, p) \in P
  OBVIOUS
<1> HIDE DEF P
<1>2. seq \in Seq(P)
  BY DEF P
<1>3. /\ more \in Seq(P) /\ Len(more) = Len(seq) + 1 /\ Len(seq) \in Nat
      /\ \A k \in 1..Len(seq) : more[k] = seq[k]
      /\ more[Len(seq) + 1] = Produce(s, p)
  BY <1>1, <1>2
<1> HIDE DEF more
<1>0. f = [k \in 1..Len(more) |-> IF k = Len(more) THEN p ELSE e[k]]
  BY <1>3 DEF OneMore
<1>4. \A k \in 1..Len(more) : k # Len(more) => k \in 1..Len(seq)
  BY <1>3
<1>5. \A k \in 1..Len(more) : f[k] \in 1..i
  <2>1. p \in 1..i
    OBVIOUS
  <2> QED BY <1>0, <1>4, <2>1
<1>6. \A k \in 1..Len(more) : more[k] = Produce(s, f[k])
  BY <1>0, <1>3, <1>4
<1>7. ASSUME Rises(e, Len(seq)), \A k \in 1..Len(seq) : e[k] < p
      PROVE  Rises(f, Len(more))
  <2>1. ASSUME NEW j \in 1..Len(more), NEW k \in 1..Len(more), j < k PROVE f[j] < f[k]
    <3>1. j \in 1..Len(seq) /\ f[j] = e[j]
      BY <1>0, <1>3, <2>1
    <3>2. CASE k = Len(more)
      BY <1>0, <3>1, <3>2, <1>7
    <3>3. CASE k # Len(more)
      BY <1>0, <3>1, <3>3, <1>4, <1>7, <2>1 DEF Rises
    <3> QED BY <3>2, <3>3
  <2> QED BY <2>1 DEF Rises
<1>8. f \in [1..Len(more) -> 1..i]
  BY <1>0, <1>5
<1> HIDE DEF f
<1> QED BY <1>3, <1>6, <1>7, <1>8 DEF f, more, P

(* A section whose paddings are in reach.                                    *)
Reachable(frags) ==
    \A p, q \in DOMAIN frags :
        p < q /\ (\A r \in p..(q - 1) : frags[r].k = "align")
            => EndOfFragment(frags[q]) <= frags[p].at + MaxFwd

(* What has been made when the fragments up to i have been looked at; r is   *)
(* the fragment from which the group that is open is measured.               *)
PartedTo(s, frags, st, i) ==
    /\ st.made \in Seq({Produce(s, p) : p \in DOMAIN frags})
    /\ \E e \in [1..Len(st.made) -> 1..i] :
          /\ \A k \in 1..Len(st.made) : st.made[k] = Produce(s, e[k]) /\ e[k] < i
          /\ Reachable(frags) => Rises(e, Len(st.made))
          /\ Len(st.made) > 0 =>
                \E r \in 1..i : /\ st.end = frags[r].at + MaxFwd /\ e[Len(st.made)] < r
                                /\ \A q \in (e[Len(st.made)] + 1)..(r - 1) : frags[q].k = "align"

LEMMA PartStart ==
  ASSUME NEW s, NEW frags
  PROVE  PartedTo(s, frags, [made |-> <<>>, end |-> MaxFwd], 0)
<1> DEFINE st == [made |-> <<>>, end |-> MaxFwd]
           e == [k \in 1..0 |-> 0]
<1>1. st.made = <<>> /\ Len(st.made) = 0 /\ 1..0 = {}
  OBVIOUS
<1>2. st.made \in Seq({Produce(s, p) : p \in DOMAIN frags})
  BY <1>1
<1> HIDE DEF st
<1>3. e \in [1..Len(st.made) -> 1..0]
  BY <1>1
<1> HIDE DEF e
<1>4. /\ \A k \in 1..Len(st.made) : st.made[k] = Produce(s, e[k]) /\ e[k] < 0
      /\ Rises(e, Len(st.made))
      /\ ~(Len(st.made) > 0)
  BY <1>1 DEF Rises
<1>5. PartedTo(s, frags, st, 0)
  BY <1>2, <1>3, <1>4 DEF PartedTo
<1> QED BY <1>5 DEF st

LEMMA PartStep ==
  ASSUME NEW s, NEW frags \in Seq(FragType), NEW i \in DOMAIN frags,
         NEW g, PartedTo(s, frags, g[i - 1], i - 1)
  PROVE  PartedTo(s, frags, PartNext(frags, s, g, i), i)
<1> DEFINE st == g[i - 1]
           P == {Produce(s, p) : p \in DOMAIN frags}
           n == Len(st.made)
           x == Entry(frags, i)
           new == [made |-> Append(st.made, Produce(s, x)), end |-> frags[i].at + MaxFwd]
<1>0. i \in Nat /\ i # 0 /\ i - 1 \in Nat /\ 1..(i - 1) \subseteq 1..i
  OBVIOUS
<1>1. PICK e \in [1..n -> 1..(i - 1)] :
          /\ \A k \in 1..n : st.made[k] = Produce(s, e[k]) /\ e[k] < i - 1
          /\ Reachable(frags) => Rises(e, n)
          /\ n > 0 =>
                \E r \in 1..(i - 1) : /\ st.end = frags[r].at + MaxFwd /\ e[n] < r
                                      /\ \A q \in (e[n] + 1)..(r - 1) : frags[q].k = "align"
  BY DEF PartedTo
<1>2. st.made \in Seq(P) /\ n \in Nat
  BY DEF PartedTo
<1>3. x \in 0..(i - 1) /\ \A q \in (x + 1)..(i - 1) : frags[q].k = "align"
  BY EntryIs
<1> HIDE DEF st, n, x, P, new
<1>4. CASE EndOfFragment(frags[i]) <= st.end \/ x = 0
  <2>1. PartNext(frags, s, g, i) = st
    BY <1>0, <1>4 DEF PartNext, st, x
  <2>2. e \in [1..n -> 1..i] /\ \A k \in 1..n : e[k] < i
    BY <1>0, <1>1
  <2>3. n > 0 => \E r \in 1..i : /\ st.end = frags[r].at + MaxFwd /\ e[n] < r
                                 /\ \A q \in (e[n] + 1)..(r - 1) : frags[q].k = "align"
    BY <1>0, <1>1
  <2> QED BY <1>1, <1>2, <2>1, <2>2, <2>3 DEF PartedTo, n, P
<1>5. CASE ~(EndOfFragment(frags[i]) <= st.end \/ x = 0)
  <2>1. PartNext(frags, s, g, i) = new
    BY <1>0, <1>5 DEF PartNext, st, x, new
  <2>2. x \in DOMAIN frags /\ x < i
    BY <1>3, <1>5
  <2>3. Reachable(frags) /\ n > 0 => e[n] < x
    <3> SUFFICES ASSUME Reachable(frags), n > 0, ~(e[n] < x) PROVE FALSE
      <4>1. n > 0 => e[n] \in 1..(i - 1)
        BY <1>2
      <4> QED BY <4>1
    <3>1. PICK r \in 1..(i - 1) : /\ st.end = frags[r].at + MaxFwd /\ e[n] < r
                                  /\ \A q \in (e[n] + 1)..(r - 1) : frags[q].k = "align"
      BY <1>1
    <3>2. e[n] \in 1..(i - 1)
      BY <1>2
    <3>3. \A q \in r..(i - 1) : frags[q].k = "align"
      <4>1. \A q \in r..(i - 1) : q \in (x + 1)..(i - 1)
        BY <3>1, <3>2, <2>2, <1>0, <1>3
      <4> QED BY <4>1, <1>3
    <3>4. r \in DOMAIN frags /\ r < i
      BY <1>0
    <3>5. EndOfFragment(frags[i]) <= frags[r].at + MaxFwd
      BY <3>3, <3>4 DEF Reachable
    <3> QED BY <3>1, <3>5, <1>5
  <2>4. Reachable(frags) => \A k \in 1..n : e[k] < x
    <3>1. ASSUME Reachable(frags), NEW k \in 1..n PROVE e[k] < x
      <4>1. e[k] \in 1..(i - 1) /\ e[n] \in 1..(i - 1) /\ n \in 1..n
        BY <1>2
      <4>2. k = n \/ e[k] < e[n]
        BY <3>1, <4>1, <1>1, <1>2 DEF Rises
      <4> QED BY <3>1, <4>1, <4>2, <2>2, <2>3, <1>2
    <3> QED BY <3>1
  <2> DEFINE more == Append(st.made, Produce(s, x))
             f == OneMore(st.made, e, x)
  <2>5. /\ more \in Seq(P) /\ Len(more) = n + 1
        /\ f \in [1..Len(more) -> 1..(i - 1)]
        /\ \A k \in 1..Len(more) : more[k] = Produce(s, f[k])
        /\ Reachable(frags) => Rises(f, Len(more))
    <3>1. \A k \in 1..Len(st.made) : st.made[k] = Produce(s, e[k])
      BY <1>1 DEF n
    <3>2. st.made \in Seq({Produce(s, q) : q \in DOMAIN frags}) /\ e \in [1..Len(st.made) -> 1..(i - 1)]
      BY <1>2 DEF P, n
    <3>3. Reachable(frags) => Rises(e, Len(st.made)) /\ \A k \in 1..Len(st.made) : e[k] < x
      BY <1>1, <2>4 DEF n
    <3>4. /\ more \in Seq({Produce(s, q) : q \in DOMAIN frags})
          /\ Len(more) = Len(st.made) + 1
          /\ f \in [1..Len(more) -> 1..(i - 1)]
          /\ \A k \in 1..Len(more) : more[k] = Produce(s, f[k])
          /\ Rises(e, Len(st.made)) /\ (\A k \in 1..Len(st.made) : e[k] < x) => Rises(f, Len(more))
      <4>1. x <= i - 1
        BY <1>0, <2>2
      <4>2. frags \in Seq(FragType) /\ i - 1 \in Nat /\ x \in DOMAIN frags
        BY <1>0, <2>2
      <4> HIDE DEF f, more
      <4> QED BY <3>1, <3>2, <4>1, <4>2, MakeOneMore DEF f, more
    <3> QED BY <3>3, <3>4 DEF n, P
  <2>6. Len(more) \in 1..Len(more) /\ f[Len(more)] = x
    BY <2>5, <1>2 DEF OneMore, n
  <2> HIDE DEF f, more
  <2>7. f \in [1..Len(more) -> 1..i] /\ \A k \in 1..Len(more) : f[k] < i
    <3>1. f \in [1..Len(more) -> 1..(i - 1)]
      BY <2>5
    <3>2. \A m \in 1..(i - 1) : m \in 1..i /\ m < i
      BY <1>0
    <3> QED BY <3>1, <3>2
  <2>8. new.made = more /\ new.end = frags[i].at + MaxFwd
    BY DEF more, new
  <2>9. \E r \in 1..i : /\ new.end = frags[r].at + MaxFwd /\ f[Len(more)] < r
                        /\ \A q \in (f[Len(more)] + 1)..(r - 1) : frags[q].k = "align"
    BY <2>6, <2>8, <2>2, <1>0, <1>3
  <2> QED BY <2>1, <2>5, <2>7, <2>8, <2>9 DEF PartedTo, P
<1> QED BY <1>4, <1>5

(* The islands of one section, in the order of its fragments.                *)
LEMMA SectionGrouped ==
  ASSUME NEW s, sections[s].frags \in Seq(FragType), sections[s].frags # <<>>
  PROVE  LET frags == sections[s].frags
             seq == GroupSection(s)
         IN  /\ seq \in Seq({Produce(s, p) : p \in DOMAIN frags})
             /\ \E e \in [1..Len(seq) -> DOMAIN frags] :
                   /\ \A k \in 1..Len(seq) : seq[k] = Produce(s, e[k])
                   /\ Reachable(frags) => Rises(e, Len(seq))
<1> DEFINE frags == sections[s].frags
           n == Len(frags)
           P(g) == g = [i \in 0..Len(frags) |->
                          IF i = 0 THEN [made |-> <<>>, end |-> MaxFwd]
                          ELSE IF EndOfFragment(frags[i]) <= g[i - 1].end \/ Entry(frags, i) = 0 THEN g[i - 1]
                          ELSE [made |-> Append(g[i - 1].made, Produce(s, Entry(frags, i))), end |-> frags[i].at + MaxFwd]]
           A == CHOOSE g : P(g)
<1>1. GroupSection(s) = Append(A[n].made, Produce(s, n))
  BY DEF GroupSection, Entry
<1>2. P(A)
  <2>1. \E g : P(g)
    BY PartExists DEF PartNext
  <2> HIDE DEF P
  <2> QED BY <2>1
<1>3. A = [i \in 0..n |-> PartNext(frags, s, A, i)]
  BY <1>2 DEF PartNext
<1>4. frags \in Seq(FragType) /\ n \in Nat /\ n > 0 /\ DOMAIN frags = 1..n
  OBVIOUS
<1> HIDE DEF P, A, frags, n
<1> DEFINE Bad == {i \in Nat : i <= n /\ ~PartedTo(s, frags, A[i], i)}
<1>5. ASSUME Bad # {} PROVE FALSE
  <2>1. PICK i \in Bad : \A y \in Bad : i <= y
    BY <1>5, SmallestNat
  <2>2. i # 0
    <3>1. A[0] = [made |-> <<>>, end |-> MaxFwd]
      BY <1>3, <1>4 DEF PartNext
    <3>5. PartedTo(s, frags, A[0], 0)
      BY <3>1, PartStart
    <3> QED BY <3>5, <2>1
  <2>3. i - 1 \in Nat /\ i - 1 \notin Bad /\ i \in 1..n /\ i \in 0..n
    BY <2>1, <2>2, <1>4
  <2>4. PartedTo(s, frags, A[i - 1], i - 1)
    BY <2>1, <2>3, <1>4
  <2>5. A[i] = PartNext(frags, s, A, i)
    BY <2>3, <1>3
  <2>6. PartedTo(s, frags, A[i], i)
    BY <2>3, <2>4, <2>5, <1>4, PartStep
  <2> QED BY <2>1, <2>6
<1>6. PartedTo(s, frags, A[n], n)
  BY <1>4, <1>5
<1> DEFINE made == A[n].made
           more == Append(made, Produce(s, n))
<1>7. PICK e \in [1..Len(made) -> 1..n] :
          /\ \A k \in 1..Len(made) : made[k] = Produce(s, e[k]) /\ e[k] < n
          /\ Reachable(frags) => Rises(e, Len(made))
  BY <1>6 DEF PartedTo
<1>8. made \in Seq({Produce(s, q) : q \in DOMAIN frags})
  BY <1>6 DEF PartedTo
<1> HIDE DEF made
<1> DEFINE f == OneMore(made, e, n)
<1>9. /\ more \in Seq({Produce(s, q) : q \in DOMAIN frags})
      /\ Len(more) = Len(made) + 1
      /\ f \in [1..Len(more) -> 1..n]
      /\ \A k \in 1..Len(more) : more[k] = Produce(s, f[k])
      /\ Reachable(frags) => Rises(f, Len(more))
  <2> HIDE DEF f, more
  <2>1. n \in DOMAIN frags
    BY <1>4
  <2>2. \A k \in 1..Len(made) : made[k] = Produce(s, e[k])
    BY <1>7
  <2>3. Reachable(frags) => Rises(e, Len(made)) /\ \A k \in 1..Len(made) : e[k] < n
    BY <1>7
  <2>4. frags \in Seq(FragType) /\ n \in Nat /\ n <= n
    BY <1>4
  <2>5. /\ more \in Seq({Produce(s, q) : q \in DOMAIN frags})
        /\ Len(more) = Len(made) + 1
        /\ f \in [1..Len(more) -> 1..n]
        /\ \A k \in 1..Len(more) : more[k] = Produce(s, f[k])
        /\ Rises(e, Len(made)) /\ (\A k \in 1..Len(made) : e[k] < n) => Rises(f, Len(more))
    BY <2>1, <2>2, <2>4, <1>8, <1>7, MakeOneMore DEF f, more
  <2> QED BY <2>3, <2>5
<1>10. GroupSection(s) = more
  BY <1>1 DEF made
<1> HIDE DEF f, more
<1> QED BY <1>4, <1>9, <1>10 DEF frags

(* The islands of all sections: those of a section lie one behind the other. *)
Grouped(seq, e, m) ==
    /\ seq \in Seq(UNION {{Produce(s, p) : p \in DOMAIN sections[s].frags} : s \in DOMAIN sections})
    /\ e \in [1..Len(seq) -> Nat]
    /\ \A k \in 1..Len(seq) :
          /\ seq[k].section \in 1..m
          /\ e[k] \in DOMAIN sections[seq[k].section].frags
          /\ seq[k] = Produce(seq[k].section, e[k])
    /\ \A j, k \in 1..Len(seq) :
          j < k /\ seq[j].section = seq[k].section /\ Reachable(sections[seq[k].section].frags) => e[j] < e[k]

LEMMA OneSection ==
  ASSUME NEW s \in DOMAIN sections, s \in Nat, s > 0,
         sections[s].frags \in Seq(FragType), sections[s].frags # <<>>
  PROVE  /\ \E e : Grouped(GroupSection(s), e, s)
         /\ \A k \in 1..Len(GroupSection(s)) : GroupSection(s)[k].section = s
<1> DEFINE frags == sections[s].frags
           seq == GroupSection(s)
<1>1. PICK e \in [1..Len(seq) -> DOMAIN frags] :
         /\ \A k \in 1..Len(seq) : seq[k] = Produce(s, e[k])
         /\ Reachable(frags) => Rises(e, Len(seq))
  BY SectionGrouped
<1>2. seq \in Seq({Produce(s, p) : p \in DOMAIN frags})
  BY SectionGrouped
<1>3. \A p : Produce(s, p).section = s
  BY DEF Produce
<1>4. seq \in Seq(UNION {{Produce(t, p) : p \in DOMAIN sections[t].frags} : t \in DOMAIN sections})
  <2> DEFINE X == {Produce(s, p) : p \in DOMAIN frags}
             Y == UNION {{Produce(t, p) : p \in DOMAIN sections[t].frags} : t \in DOMAIN sections}
  <2>1. X \subseteq Y
    OBVIOUS
  <2>2. seq \in Seq(X)
    BY <1>2
  <2> HIDE DEF X, Y, seq
  <2>3. seq \in Seq(Y)
    BY <2>1, <2>2
  <2> QED BY <2>3 DEF Y
<1> HIDE DEF seq
<1>5. \A k \in 1..Len(seq) : seq[k].section = s
  BY <1>1, <1>3
<1>6. DOMAIN frags \subseteq Nat
  OBVIOUS
<1>7. e \in [1..Len(seq) -> Nat]
  BY <1>1, <1>6
<1>8. Grouped(seq, e, s)
  <2>1. s \in 1..s
    OBVIOUS
  <2> QED BY <1>1, <1>4, <1>5, <1>7, <2>1 DEF Grouped, Rises
<1> QED BY <1>5, <1>8 DEF seq

LEMMA JoinGrouped ==
  ASSUME NEW m \in Nat, NEW a, NEW b, NEW e, NEW f, Grouped(a, e, m - 1), Grouped(b, f, m),
         \A k \in 1..Len(b) : b[k].section = m
  PROVE  \E h : Grouped(a \o b, h, m)
<1> DEFINE I == UNION {{Produce(s, p) : p \in DOMAIN sections[s].frags} : s \in DOMAIN sections}
           ab == a \o b
           h == [k \in 1..Len(ab) |-> IF k <= Len(a) THEN e[k] ELSE f[k - Len(a)]]
<1>1. a \in Seq(I) /\ b \in Seq(I)
  BY DEF Grouped
<1> HIDE DEF I
<1>2. /\ ab \in Seq(I) /\ Len(ab) = Len(a) + Len(b) /\ Len(a) \in Nat /\ Len(b) \in Nat
      /\ \A k \in 1..Len(ab) : ab[k] = IF k <= Len(a) THEN a[k] ELSE b[k - Len(a)]
  BY <1>1
<1> HIDE DEF ab
<1>3. \A k \in 1..Len(ab) : IF k <= Len(a) THEN k \in 1..Len(a) ELSE k - Len(a) \in 1..Len(b)
  BY <1>2
<1>4. ASSUME NEW k \in 1..Len(ab)
      PROVE  /\ h[k] \in Nat
             /\ ab[k].section \in 1..m
             /\ h[k] \in DOMAIN sections[ab[k].section].frags
             /\ ab[k] = Produce(ab[k].section, h[k])
  <2>1. CASE k <= Len(a)
    <3>1. h[k] = e[k] /\ ab[k] = a[k] /\ k \in 1..Len(a)
      BY <2>1, <1>2, <1>3
    <3>2. 1..(m - 1) \subseteq 1..m
      OBVIOUS
    <3> HIDE DEF h
    <3> QED BY <3>1, <3>2 DEF Grouped
  <2>2. CASE ~(k <= Len(a))
    <3>1. h[k] = f[k - Len(a)] /\ ab[k] = b[k - Len(a)] /\ k - Len(a) \in 1..Len(b)
      BY <2>2, <1>2, <1>3
    <3> HIDE DEF h
    <3> QED BY <3>1 DEF Grouped
  <2> QED BY <2>1, <2>2
<1>5. ASSUME NEW j \in 1..Len(ab), NEW k \in 1..Len(ab), j < k, ab[j].section = ab[k].section,
             Reachable(sections[ab[k].section].frags)
      PROVE  h[j] < h[k]
  <2>1. CASE k <= Len(a)
    <3>1. /\ h[k] = e[k] /\ ab[k] = a[k] /\ k \in 1..Len(a)
          /\ h[j] = e[j] /\ ab[j] = a[j] /\ j \in 1..Len(a)
      BY <2>1, <1>2, <1>3, <1>5
    <3> HIDE DEF h
    <3> QED BY <3>1, <1>5 DEF Grouped
  <2>2. CASE ~(k <= Len(a))
    <3>1. h[k] = f[k - Len(a)] /\ ab[k] = b[k - Len(a)] /\ k - Len(a) \in 1..Len(b)
      BY <2>2, <1>2, <1>3
    <3>2. ab[k].section = m
      BY <3>1
    <3>3. CASE j <= Len(a)
      <4>1. ab[j] = a[j] /\ j \in 1..Len(a)
        BY <3>3, <1>2, <1>3
      <4>2. ab[j].section \in 1..(m - 1)
        BY <4>1 DEF Grouped
      <4> QED BY <4>2, <3>2, <1>5
    <3>4. CASE ~(j <= Len(a))
      <4>1. h[j] = f[j - Len(a)] /\ ab[j] = b[j - Len(a)] /\ j - Len(a) \in 1..Len(b)
        BY <3>4, <1>2, <1>3
      <4>2. j - Len(a) < k - Len(a)
        BY <1>2, <1>5
      <4> HIDE DEF h
      <4> QED BY <3>1, <4>1, <4>2, <1>5 DEF Grouped
    <3> QED BY <3>3, <3>4
  <2> QED BY <2>1, <2>2
<1>6. h \in [1..Len(ab) -> Nat]
  BY <1>4
<1> HIDE DEF h
<1>7. Grouped(ab, h, m)
  BY <1>2, <1>4, <1>5, <1>6 DEF Grouped, I
<1> QED BY <1>7 DEF ab

LEMMA FlattenExists ==
  ASSUME NEW seqs
  PROVE  \A m \in Nat : \E g : g = [i \in 1..m |-> IF i = 1 THEN seqs[i] ELSE g[i - 1] \o seqs[i]]
<1> DEFINE F(g, i) == IF i = 1 THEN seqs[i] ELSE g[i - 1] \o seqs[i]
           Good(m) == \E g : g = [i \in 1..m |-> F(g, i)]
           Bad == {m \in Nat : ~Good(m)}
<1>1. ASSUME Bad # {} PROVE FALSE
  <2> HIDE DEF Good
  <2>1. PICK m \in Bad : \A y \in Bad : m <= y
    BY <1>1, SmallestNat
  <2>2. m # 0
    <3> DEFINE h == [i \in 1..0 |-> seqs[i]]
    <3>1. h = [i \in 1..0 |-> F(h, i)]
      OBVIOUS
    <3>2. Good(0)
      <4> HIDE DEF h
      <4> QED BY <3>1 DEF Good
    <3> QED BY <3>2, <2>1
  <2>3. m - 1 \in Nat /\ m - 1 \notin Bad
    BY <2>1, <2>2
  <2>4. PICK g : g = [i \in 1..(m - 1) |-> F(g, i)]
    BY <2>3 DEF Good
  <2> DEFINE h == [i \in 1..m |-> IF i = m THEN F(g, m) ELSE g[i]]
  <2>5. ASSUME NEW i \in 1..m PROVE h[i] = F(h, i)
    <3>1. i # 1 => i - 1 \in 1..m /\ h[i - 1] = g[i - 1]
      BY <2>3
    <3>2. F(h, i) = F(g, i)
      <4> HIDE DEF h
      <4> QED BY <3>1
    <3>3. i # m => i \in 1..(m - 1)
      BY <2>3
    <3> HIDE DEF F
    <3>4. h[i] = F(g, i)
      BY <2>4, <3>3
    <3> QED BY <3>2, <3>4
  <2>6. h = [i \in 1..m |-> F(h, i)]
    <3>1. h = [i \in 1..m |-> h[i]]
      OBVIOUS
    <3> HIDE DEF h, F
    <3> QED BY <2>5, <3>1, Zenon
  <2>7. Good(m)
    <3> HIDE DEF h, F
    <3> QED BY <2>6 DEF Good
  <2> QED BY <2>1, <2>7
<1> HIDE DEF Good
<1>2. \A m \in Nat : Good(m)
  BY <1>1
<1> QED BY <1>2 DEF Good

(* BranchIslandFactory::group.                                               *)
LEMMA AllGrouped ==
  ASSUME NEW n \in Nat, DOMAIN sections = 1..n,
         \A s \in 1..n : /\ sections[s].frags \in Seq(FragType)
                         /\ sections[s].frags # <<>>
  PROVE  \E e : Grouped(FlattenSeq([s \in DOMAIN sections |-> GroupSection(s)]), e, n)
<1> DEFINE seqs == [s \in DOMAIN sections |-> GroupSection(s)]
           P(g) == g = [i \in 1..Len(seqs) |-> IF i = 1 THEN seqs[i] ELSE g[i - 1] \o seqs[i]]
           A == CHOOSE g : P(g)
<1>1. Len(seqs) = n /\ seqs = [s \in 1..n |-> GroupSection(s)]
  OBVIOUS
<1>2. CASE n = 0
  <2>1. FlattenSeq(seqs) = seqs /\ Len(seqs) = 0 /\ seqs = <<>> /\ 1..0 = {}
    BY <1>1, <1>2 DEF FlattenSeq
  <2>2. [k \in 1..0 |-> 0] \in [1..0 -> Nat]
    OBVIOUS
  <2> HIDE DEF seqs
  <2>3. Grouped(seqs, [k \in 1..0 |-> 0], n)
    BY <2>1, <2>2 DEF Grouped
  <2> QED BY <2>1, <2>3 DEF seqs
<1>3. CASE n # 0
  <2>1. FlattenSeq(seqs) = A[n]
    BY <1>1, <1>3 DEF FlattenSeq
  <2>2. P(A)
    <3>1. \E g : P(g)
      BY <1>1, FlattenExists
    <3> HIDE DEF P
    <3> QED BY <3>1
  <2>3. A = [i \in 1..n |-> IF i = 1 THEN seqs[i] ELSE A[i - 1] \o seqs[i]]
    BY <2>2, <1>1
  <2> DEFINE Bad == {i \in Nat : i \in 1..n /\ ~\E e : Grouped(A[i], e, i)}
  <2>4. \A i \in 1..n : seqs[i] = GroupSection(i)
    BY <1>1
  <2> HIDE DEF P, A, seqs
  <2>5. ASSUME Bad # {} PROVE FALSE
    <3>1. PICK i \in Bad : \A y \in Bad : i <= y
      BY <2>5, SmallestNat
    <3>2. i \in 1..n /\ i \in Nat /\ i > 0
      BY <3>1
    <3>3. /\ \E f : Grouped(GroupSection(i), f, i)
          /\ \A k \in 1..Len(GroupSection(i)) : GroupSection(i)[k].section = i
      BY <3>2, OneSection
    <3>4. i # 1
      <4>1. i = 1 => A[i] = GroupSection(i)
        BY <2>3, <2>4, <3>2
      <4>2. ~\E f : Grouped(A[i], f, i)
        BY <3>1
      <4> HIDE DEF Bad
      <4> QED BY <4>1, <4>2, <3>3
    <3>5. i - 1 \in 1..n /\ i - 1 \notin Bad
      <4>1. i - 1 \in 1..n /\ ~(i <= i - 1)
        BY <3>2, <3>4
      <4> HIDE DEF Bad
      <4> QED BY <3>1, <4>1
    <3>6. PICK e : Grouped(A[i - 1], e, i - 1)
      BY <3>5
    <3>7. A[i] = A[i - 1] \o GroupSection(i)
      BY <2>3, <2>4, <3>2, <3>4
    <3>8. PICK f : Grouped(GroupSection(i), f, i)
      BY <3>3
    <3>9. \E h : Grouped(A[i], h, i)
      BY <3>2, <3>3, <3>6, <3>7, <3>8, JoinGrouped
    <3> QED BY <3>1, <3>9
  <2>6. \E e : Grouped(A[n], e, n)
    <3>1. n \in 1..n
      BY <1>3
    <3>2. n \notin Bad
      <4> HIDE DEF Bad
      <4> QED BY <2>5
    <3> QED BY <3>1, <3>2
  <2> QED BY <2>1, <2>6 DEF seqs
<1> QED BY <1>2, <1>3
-----------------------------------------------------------------------------
(* Sections.                                                                 *)
SectionType == [addr : Nat, size : Nat, frags : Seq(FragType) \ {<<>>}]

LEMMA SectionFields ==
  ASSUME NEW x \in SectionType
  PROVE  x.addr \in Nat /\ x.size \in Nat /\ x.frags \in Seq(FragType) /\ x.frags # <<>>
BY DEF SectionType

LEMMA ConstantsNat ==
  /\ ArmFwd \in Nat /\ ArmBwd \in Nat /\ ThmFwd \in Nat /\ ThmBwd \in Nat
  /\ TextBase \in Nat /\ PLT \in Nat /\ StubGroupSize \in Nat
  /\ StubAlign \in Nat /\ StubAlign > 0 /\ ShortStub \in Nat /\ ShortStub > 0
  /\ LongStub \in Nat /\ LongStub > 0
  /\ MaxFwd \in Int /\ MaxBwd \in Int
<1>1. /\ {ArmFwd, ArmBwd, ThmFwd, ThmBwd, TextBase, PLT, StubGroupSize} \subseteq Nat
      /\ {StubAlign, ShortStub, LongStub} \subseteq Nat \ {0}
  BY IslandAssumption
<1> QED BY <1>1 DEF MaxFwd, MaxBwd

AddrNext(sects, g, s) == IF s = 1 THEN TextBase ELSE Aligned(g[s - 1] + sects[s - 1].size)

LEMMA AlignedNat ==
  ASSUME NEW a \in Nat
  PROVE  Aligned(a) \in Nat
<1>1. a + StubAlign - 1 \in Nat /\ StubAlign \in Nat /\ StubAlign > 0
  BY ConstantsNat
<1>2. (a + StubAlign - 1) \div StubAlign \in Nat
  BY <1>1
<1> QED BY <1>1, <1>2 DEF Aligned

LEMMA AddrExists ==
  ASSUME NEW sects \in Seq(SectionType)
  PROVE  \E g \in [DOMAIN sects -> Nat] : g = [s \in DOMAIN sects |-> AddrNext(sects, g, s)]
<1> DEFINE Good(m) == \E g \in [1..m -> Nat] : \A s \in 1..m : g[s] = AddrNext(sects, g, s)
           Bad == {m \in Nat : m <= Len(sects) /\ ~Good(m)}
<1>1. ASSUME Bad # {} PROVE FALSE
  <2> HIDE DEF Good
  <2>1. PICK m \in Bad : \A y \in Bad : m <= y
    BY <1>1, SmallestNat
  <2>2. m # 0
    <3>1. Good(0)
      <4>1. [s \in 1..0 |-> 0] \in [1..0 -> Nat] /\ 1..0 = {}
        OBVIOUS
      <4>2. PICK g \in [1..0 -> Nat] : TRUE
        BY <4>1
      <4>3. \A s \in 1..0 : g[s] = AddrNext(sects, g, s)
        BY <4>1
      <4> QED BY <4>2, <4>3 DEF Good
    <3> QED BY <3>1
  <2>3. m - 1 \in Nat /\ m \in 1..Len(sects) /\ m - 1 \notin Bad
    BY <2>1, <2>2
  <2>4. PICK g \in [1..(m - 1) -> Nat] : \A s \in 1..(m - 1) : g[s] = AddrNext(sects, g, s)
    BY <2>3 DEF Good
  <2> DEFINE a == AddrNext(sects, g, m)
             h == [s \in 1..m |-> IF s = m THEN a ELSE g[s]]
  <2>5. a \in Nat
    <3>1. CASE m = 1
      BY <3>1, ConstantsNat DEF AddrNext
    <3>2. CASE m # 1
      <4>1. m - 1 \in 1..(m - 1) /\ g[m - 1] \in Nat /\ sects[m - 1] \in SectionType
        BY <3>2, <2>3
      <4>2. g[m - 1] + sects[m - 1].size \in Nat
        BY <4>1, SectionFields
      <4> QED BY <3>2, <4>2, AlignedNat DEF AddrNext
    <3> QED BY <3>1, <3>2
  <2>6. h \in [1..m -> Nat]
    <3> HIDE DEF a
    <3>1. \A s \in 1..m : s # m => s \in 1..(m - 1)
      BY <2>3
    <3> QED BY <2>5, <3>1
  <2>7. \A s \in 1..m : h[s] = AddrNext(sects, h, s)
    <3> SUFFICES ASSUME NEW s \in 1..m PROVE h[s] = AddrNext(sects, h, s)
      OBVIOUS
    <3>1. s # 1 => s - 1 \in 1..m /\ h[s - 1] = g[s - 1]
      BY <2>3
    <3>2. h[s] = AddrNext(sects, g, s)
      BY <2>4, <2>3
    <3> QED BY <3>1, <3>2 DEF AddrNext
  <2>8. Good(m)
    <3> HIDE DEF h
    <3> QED BY <2>6, <2>7 DEF Good
  <2> QED BY <2>1, <2>8
<1>2. Good(Len(sects))
  BY <1>1
<1>3. PICK g \in [1..Len(sects) -> Nat] : \A s \in 1..Len(sects) : g[s] = AddrNext(sects, g, s)
  BY <1>2
<1>4. DOMAIN sects = 1..Len(sects)
  OBVIOUS
<1>5. g = [s \in DOMAIN sects |-> AddrNext(sects, g, s)]
  BY <1>3, <1>4
<1> QED BY <1>3, <1>4, <1>5

LEMMA AddrNat ==
  ASSUME NEW sects \in Seq(SectionType), NEW g, g = [s \in DOMAIN sects |-> AddrNext(sects, g, s)]
  PROVE  \A s \in DOMAIN sects : g[s] \in Nat
<1> DEFINE Bad == {s \in DOMAIN sects : g[s] \notin Nat}
<1>1. Bad \in SUBSET Nat
  OBVIOUS
<1>2. ASSUME Bad # {} PROVE FALSE
  <2>1. PICK s \in Bad : \A y \in Bad : s <= y
    <3> HIDE DEF Bad
    <3> QED BY <1>1, <1>2, SmallestNat
  <2>2. s \in DOMAIN sects /\ g[s] \notin Nat
    BY <2>1
  <2>3. g[s] = AddrNext(sects, g, s)
    BY <2>2
  <2>4. s # 1
    BY <2>2, <2>3, ConstantsNat DEF AddrNext
  <2>5. s - 1 \in DOMAIN sects /\ s - 1 \notin Bad
    BY <2>1, <2>2, <2>4
  <2>6. g[s - 1] \in Nat /\ sects[s - 1] \in SectionType
    BY <2>5
  <2>7. g[s - 1] + sects[s - 1].size \in Nat
    BY <2>6, SectionFields
  <2>8. Aligned(g[s - 1] + sects[s - 1].size) \in Nat
    BY <2>7, AlignedNat
  <2> QED BY <2>2, <2>3, <2>4, <2>8 DEF AddrNext
<1> QED BY <1>2

(* New addresses, and nothing else.                                          *)
LEMMA AddressesSet ==
  ASSUME NEW sects \in Seq(SectionType)
  PROVE  LET new == SetAddresses(sects)
         IN  /\ new \in Seq(SectionType) /\ DOMAIN new = DOMAIN sects
             /\ \A s \in DOMAIN sects : new[s].frags = sects[s].frags
<1> DEFINE P(g) == g = [s \in DOMAIN sects |-> IF s = 1 THEN TextBase ELSE Aligned(g[s - 1] + sects[s - 1].size)]
           A == CHOOSE g : P(g)
           new == [s \in DOMAIN sects |-> [sects[s] EXCEPT !.addr = A[s]]]
<1>1. SetAddresses(sects) = new
  BY DEF SetAddresses
<1>2. \E g : P(g)
  BY AddrExists DEF AddrNext
<1>3. P(A)
  <2> HIDE DEF P
  <2> QED BY <1>2
<1>4. A = [s \in DOMAIN sects |-> AddrNext(sects, A, s)]
  BY <1>3 DEF AddrNext
<1> HIDE DEF A, P
<1>5. ASSUME NEW s \in DOMAIN sects
      PROVE  new[s] \in SectionType /\ new[s].frags = sects[s].frags
  <2>1. A[s] \in Nat /\ sects[s] \in SectionType
    BY <1>4, AddrNat
  <2> QED BY <2>1 DEF SectionType
<1>6. DOMAIN sects = 1..Len(sects) /\ Len(sects) \in Nat /\ DOMAIN new = DOMAIN sects
  OBVIOUS
<1>7. new \in Seq(SectionType)
  <2>1. new = [s \in DOMAIN sects |-> new[s]]
    OBVIOUS
  <2> HIDE DEF new
  <2> QED BY <1>5, <1>6, <2>1
<1> HIDE DEF new
<1> QED BY <1>1, <1>5, <1>6, <1>7

LEMMA InputTyped ==
  ASSUME NEW frags \in Seq(InputFragment) \ {<<>>}
  PROVE  frags \in Seq(FragType) /\ frags # <<>> /\ \A p \in DOMAIN frags : frags[p].id \in 1..FirstStub
<1>1. ASSUME NEW f \in InputFragment PROVE f \in FragType
  <2>1. f \in [k : {"data", "align", "stub"}, id : Nat, n : Nat, at : Nat]
    <3>1. \A x \in 1..FirstStub : x \in Nat
      BY DEF FirstStub
    <3> QED BY <3>1 DEF InputFragment
  <2>2. f.k = "align" => f.n > 0
    BY DEF InputFragment
  <2> QED BY <2>1, <2>2 DEF FragType
<1>2. \A f \in InputFragment : f.id \in 1..FirstStub
  BY DEF InputFragment
<1> QED BY <1>1, <1>2

(* What a section consists of when it has been laid out.                     *)
LEMMA SectionOf ==
  ASSUME NEW written \in Seq(InputFragment) \ {<<>>}
  PROVE  LET frags == Chain(written, 0)
         IN  [addr |-> 0, size |-> EndOfFragment(frags[Len(frags)]), frags |-> frags] \in SectionType
<1> DEFINE frags == Chain(written, 0)
<1>1. written \in Seq(FragType) /\ written # <<>>
  BY InputTyped
<1>2. frags \in Seq(FragType) /\ Len(frags) = Len(written)
  BY <1>1, ChainIs DEF Is
<1> HIDE DEF frags
<1>3. frags # <<>> /\ Len(frags) \in DOMAIN frags
  BY <1>1, <1>2
<1>4. EndOfFragment(frags[Len(frags)]) \in Nat
  BY <1>2, <1>3, EndNat
<1>5. [addr |-> 0, size |-> EndOfFragment(frags[Len(frags)]), frags |-> frags] \in SectionType
  BY <1>2, <1>3, <1>4 DEF SectionType
<1> QED BY <1>5 DEF frags

Given(written) ==
  [frag |-> written.frag, at |-> written.at, kind |-> written.kind,
   symbol |-> written.symbol, addend |-> written.addend, origin |-> written.symbol]
Starts(program) ==
  /\ sections \in Seq(SectionType)
  /\ DOMAIN sections = DOMAIN program.sections
  /\ \A s \in DOMAIN sections : sections[s].frags = Chain(program.sections[s], 0)

LEMMA InitStarts ==
  ASSUME Init
  PROVE  \E program \in Programs :
            /\ Starts(program)
            /\ symbols = program.symbols
            /\ branches = [b \in DOMAIN program.branches |-> Given(program.branches[b])]
<1>1. PICK program \in Programs :
         LET Of(s) == LET frags == Chain(program.sections[s], 0)
                      IN  [addr |-> 0, size |-> EndOfFragment(frags[Len(frags)]), frags |-> frags]
         IN  /\ sections = SetAddresses([s \in DOMAIN program.sections |-> Of(s)])
             /\ symbols = program.symbols
             /\ branches = [b \in DOMAIN program.branches |-> Given(program.branches[b])]
  BY DEF Init, Given
<1> DEFINE Of(s) == LET frags == Chain(program.sections[s], 0)
                    IN  [addr |-> 0, size |-> EndOfFragment(frags[Len(frags)]), frags |-> frags]
           all == [s \in DOMAIN program.sections |-> Of(s)]
<1>2. program.sections \in Seq(Seq(InputFragment) \ {<<>>})
  BY IslandAssumption DEF Wellformed
<1>3. \A s \in DOMAIN program.sections : Of(s) \in SectionType /\ Of(s).frags = Chain(program.sections[s], 0)
  <2> SUFFICES ASSUME NEW s \in DOMAIN program.sections
               PROVE  Of(s) \in SectionType /\ Of(s).frags = Chain(program.sections[s], 0)
    OBVIOUS
  <2>1. program.sections[s] \in Seq(InputFragment) \ {<<>>}
    BY <1>2
  <2> QED BY <2>1, SectionOf
<1>4. sections = SetAddresses(all)
  BY <1>1
<1> HIDE DEF Of
<1>5. all \in Seq(SectionType) /\ DOMAIN all = DOMAIN program.sections
  <2>1. DOMAIN program.sections = 1..Len(program.sections) /\ Len(program.sections) \in Nat
    BY <1>2
  <2>2. all \in [1..Len(program.sections) -> SectionType]
    BY <1>3, <2>1
  <2> QED BY <2>1, <2>2
<1>6. \A s \in DOMAIN program.sections : all[s].frags = Chain(program.sections[s], 0)
  BY <1>3
<1> HIDE DEF all
<1>7. Starts(program)
  <2>1. /\ sections \in Seq(SectionType) /\ DOMAIN sections = DOMAIN all
        /\ \A s \in DOMAIN all : sections[s].frags = all[s].frags
    BY <1>4, <1>5, AddressesSet
  <2> QED BY <2>1, <1>5, <1>6 DEF Starts
<1> QED BY <1>1, <1>7
-----------------------------------------------------------------------------
(* Branches, stubs and their symbols.                                        *)
IslandType == [section : Nat, entry : Nat, exit : Nat, stubs : Seq(Stubs)]

PlainInv ==
    /\ phase \in {"group", "branches", "done"} /\ isRelaxed \in BOOLEAN /\ failed \in BOOLEAN
    /\ next \in 1..(Len(branches) + 1)
    /\ syms \in Nat
GroupInv == phase = "group" => sections \in Seq(SectionType) /\ islands = <<>>
IslandsInv == islands \in Seq(IslandType)
BranchType == [frag : Nat, at : Nat, kind : ArmKinds \cup ThumbKinds, symbol : DOMAIN symbols,
               addend : Int, origin : DOMAIN symbols]
BranchesInv == branches \in Seq(BranchType)

NamedAfter(x, y) == \E proto, i : x = [name |-> <<y.name, proto, i>>, object |-> 0]

StubsInv ==
    /\ IsFiniteSet(StubIds)
    /\ \A stub \in Stubs :
          /\ stub.id \in Nat /\ FirstStub < stub.id /\ stub.id <= FirstStub + 2 * Cardinality(StubIds)
          /\ stub.symbol \in DOMAIN symbols /\ stub.info \in DOMAIN symbols
          /\ NamedAfter(stub.info, stub.symbol)
    /\ \A stub, other \in Stubs : stub.id = other.id => stub = other

SymbolsInv ==
    /\ \A x, y \in DOMAIN symbols : x.name = y.name => x = y
    /\ \A x \in DOMAIN symbols :
          \/ symbols[x].frag \in 0..FirstStub /\ Len(x.name) = 1
          \/ \E stub \in Stubs : symbols[x].frag = stub.id /\ stub.info = x

(* Each symbol is so many stubs away from one of the program.                *)
Routed(rank, home) ==
    /\ \A x \in DOMAIN symbols :
          /\ rank[x] \in Nat /\ rank[x] <= Cardinality(StubIds)
          /\ symbols[x].frag \notin StubIds => rank[x] = 0 /\ home[x] = x
          /\ \A stub \in Stubs :
                symbols[x].frag = stub.id => rank[x] = rank[stub.symbol] + 1 /\ home[x] = home[stub.symbol]
    /\ \A b \in DOMAIN branches : home[branches[b].symbol] = branches[b].origin
RouteInv == \E rank, home : Routed(rank, home)

BaseInv == PlainInv /\ GroupInv /\ IslandsInv /\ BranchesInv /\ StubsInv
NameInv == SymbolsInv /\ RouteInv

LEMMA BranchFields ==
  ASSUME NEW b \in BranchType
  PROVE  /\ b.frag \in Nat /\ b.at \in Nat /\ b.kind \in ArmKinds \cup ThumbKinds /\ b.addend \in Int
         /\ b.symbol \in DOMAIN symbols /\ b.origin \in DOMAIN symbols
BY DEF BranchType

LEMMA NoStubs ==
  ASSUME \A i \in DOMAIN islands : islands[i].stubs = <<>>
  PROVE  Stubs = {} /\ StubIds = {} /\ Cardinality(StubIds) = 0 /\ IsFiniteSet(StubIds)
<1>1. \A i \in DOMAIN islands : ToSet(islands[i].stubs) = {}
  BY DEF ToSet
<1>2. Stubs = {}
  BY <1>1 DEF Stubs
<1>3. StubIds = {}
  BY <1>2 DEF StubIds
<1> QED BY <1>2, <1>3, FS_EmptySet

LEMMA InitArrive ==
  ASSUME Init
  PROVE  BaseInv /\ ((\A program \in Programs : OwnNames(program)) => NameInv)
<1>1. PICK program \in Programs :
            /\ Starts(program)
            /\ symbols = program.symbols
            /\ branches = [b \in DOMAIN program.branches |-> Given(program.branches[b])]
  BY InitStarts
<1>2. islands = <<>>
  BY DEF Init
<1>3. Stubs = {} /\ StubIds = {} /\ Cardinality(StubIds) = 0 /\ IsFiniteSet(StubIds)
  BY <1>2, NoStubs
<1>4. GroupInv
  BY <1>1, <1>2 DEF GroupInv, Starts
<1>5. IslandsInv
  BY <1>2 DEF IslandsInv
<1> DEFINE Written == [frag : 1..FirstStub, at : Nat, kind : ArmKinds \cup ThumbKinds,
                       symbol : DOMAIN program.symbols, addend : Int]
<1>6. program.branches \in Seq(Written)
  BY IslandAssumption DEF Wellformed
<1>7. BranchesInv
  <2>1. DOMAIN program.branches = 1..Len(program.branches) /\ Len(program.branches) \in Nat
    BY <1>6
  <2>2. \A b \in DOMAIN program.branches :
           branches[b] \in BranchType
    <3> SUFFICES ASSUME NEW b \in DOMAIN program.branches
                 PROVE  branches[b] \in BranchType
      OBVIOUS
    <3>1. program.branches[b] \in Written
      <4> HIDE DEF Written
      <4> QED BY <1>6
    <3>2. \A x \in 1..FirstStub : x \in Nat
      BY DEF FirstStub
    <3>3. branches[b] = Given(program.branches[b])
      BY <1>1
    <3> QED BY <3>1, <3>2, <3>3, <1>1 DEF Given, BranchType
  <2>3. branches = [b \in 1..Len(program.branches) |-> branches[b]]
    <3>1. branches = [b \in DOMAIN program.branches |-> branches[b]]
      BY <1>1
    <3> QED BY <2>1, <3>1
  <2> QED BY <2>1, <2>2, <2>3 DEF BranchesInv
<1>8. StubsInv
  BY <1>3 DEF StubsInv
<1>9. \A x \in DOMAIN symbols : symbols[x].frag \in 0..FirstStub
  <2>1. \A sym \in DOMAIN program.symbols :
           program.symbols[sym] \in [frag : 0..FirstStub, at : Nat, plt : Nat]
    BY IslandAssumption DEF Wellformed
  <2> QED BY <1>1, <2>1
<1>10. ASSUME \A program2 \in Programs : OwnNames(program2) PROVE SymbolsInv
  BY <1>1, <1>9, <1>10 DEF SymbolsInv, OwnNames
<1>11. Routed([x \in DOMAIN symbols |-> 0], [x \in DOMAIN symbols |-> x])
  <2>1. \A b \in DOMAIN branches : branches[b].symbol = branches[b].origin /\ branches[b].symbol \in DOMAIN symbols
    <3>1. \A b \in DOMAIN branches : branches[b].symbol = branches[b].origin
      BY <1>1 DEF Given
    <3> QED BY <3>1, <1>7, BranchFields DEF BranchesInv
  <2> DEFINE rank == [x \in DOMAIN symbols |-> 0]
             home == [x \in DOMAIN symbols |-> x]
  <2>2. \A x \in DOMAIN symbols : rank[x] = 0 /\ home[x] = x
    OBVIOUS
  <2> HIDE DEF rank, home
  <2>3. Routed(rank, home)
    BY <1>3, <2>1, <2>2 DEF Routed
  <2> QED BY <2>3 DEF rank, home
<1>12. PlainInv
  <2>1. Len(branches) \in Nat
    BY <1>7 DEF BranchesInv
  <2>2. phase = "group" /\ next = 1 /\ isRelaxed = FALSE /\ failed = FALSE /\ syms = 0
    BY DEF Init
  <2>3. next \in 1..(Len(branches) + 1)
    BY <2>1, <2>2
  <2>4. syms \in Nat
    BY <2>2
  <2> QED BY <2>2, <2>3, <2>4, Zenon DEF PlainInv
<1> QED BY <1>4, <1>5, <1>7, <1>8, <1>10, <1>11, <1>12 DEF BaseInv, NameInv, RouteInv

LEMMA StubIn ==
  ASSUME IslandsInv, NEW i \in DOMAIN islands
  PROVE  /\ islands[i] \in IslandType /\ islands[i].stubs \in Seq(Stubs)
         /\ \A k \in DOMAIN islands[i].stubs : islands[i].stubs[k] \in Stubs
<1>1. islands[i] \in IslandType
  BY DEF IslandsInv
<1>2. islands[i].stubs \in Seq(Stubs)
  BY <1>1 DEF IslandType
<1> QED BY <1>1, <1>2

LEMMA AheadIs ==
  ASSUME IslandsInv, NEW frag
  PROVE  /\ Ahead(frag) = 0 \/ Ahead(frag) \in DOMAIN islands
         /\ Behind(frag) = 0 \/ Behind(frag) \in DOMAIN islands
<1> DEFINE at == Fragment(frag).at
           I == {i \in 1..Len(islands) : islands[i].section = SectionWith(frag)
                                         /\ at < Offset(islands[i]) /\ at + MaxFwd >= Offset(islands[i])}
<1>1. I \in SUBSET Nat /\ I \subseteq DOMAIN islands
  BY DEF IslandsInv
<1>2. I # {} => Min(I) \in I
  <2> HIDE DEF I
  <2> QED BY <1>1, MinOf
<1>3. Ahead(frag) = IF I # {} THEN Min(I) ELSE 0
  BY DEF Ahead, SelectInSeq
<1> HIDE DEF I
<1>4. Ahead(frag) = 0 \/ Ahead(frag) \in DOMAIN islands
  BY <1>1, <1>2, <1>3
<1>5. DOMAIN islands = 1..Len(islands) /\ Len(islands) \in Nat
  BY DEF IslandsInv
<1>6. Behind(frag) = 0 \/ (Ahead(frag) > 1 /\ Behind(frag) = Ahead(frag) - 1)
  BY DEF Behind
<1>7. Ahead(frag) > 1 /\ Ahead(frag) \in DOMAIN islands => Ahead(frag) - 1 \in DOMAIN islands
  BY <1>5
<1> QED BY <1>4, <1>6, <1>7

LEMMA FoundIs ==
  ASSUME IslandsInv, NEW i, i = 0 \/ i \in DOMAIN islands, Found(i) # 0
  PROVE  /\ i \in DOMAIN islands /\ islands[i].stubs[Found(i)] \in Stubs
         /\ SameKey(islands[i].stubs[Found(i)], Proto, Branch)
<1>1. i # 0
  BY DEF Found, FindStub
<1>2. i \in DOMAIN islands /\ Found(i) = FindStub(i, Proto, Branch)
  BY <1>1 DEF Found
<1>3. islands[i].stubs \in Seq(Stubs)
  BY <1>2, StubIn
<1>4. /\ Found(i) \in DOMAIN islands[i].stubs
      /\ SameKey(islands[i].stubs[Found(i)], Proto, Branch)
  BY <1>1, <1>2, <1>3, NoSuch
<1> QED BY <1>2, <1>4, StubIn

(* Two symbols with stubs that have the same name are the same.              *)
LEMMA SameTarget ==
  ASSUME StubsInv, SymbolsInv, NEW stub \in Stubs, NEW y \in DOMAIN symbols, NamedAfter(stub.info, y)
  PROVE  stub.symbol = y
<1>1. NamedAfter(stub.info, stub.symbol) /\ stub.symbol \in DOMAIN symbols
  BY DEF StubsInv
<1>2. stub.info.name[1] = y.name /\ stub.info.name[1] = stub.symbol.name
  BY <1>1 DEF NamedAfter
<1> QED BY <1>1, <1>2 DEF SymbolsInv

(* The symbol of a stub leads through a stub of the same target.             *)
LEMMA StubSymbolLeads ==
  ASSUME StubsInv, SymbolsInv, NEW x \in DOMAIN symbols, NEW y \in DOMAIN symbols, NamedAfter(x, y),
         NEW rank, NEW home, Routed(rank, home)
  PROVE  /\ rank[x] = rank[y] + 1 /\ home[x] = home[y]
         /\ \E stub \in Stubs : symbols[x].frag = stub.id /\ stub.info = x /\ stub.symbol = y
<1>1. Len(x.name) # 1
  BY DEF NamedAfter
<1>2. PICK stub \in Stubs : symbols[x].frag = stub.id /\ stub.info = x
  BY <1>1 DEF SymbolsInv
<1>3. stub.symbol = y
  BY <1>2, SameTarget
<1> QED BY <1>2, <1>3 DEF Routed

LEMMA BranchAt ==
  ASSUME BranchesInv, next \in Nat, next >= 1, next <= Len(branches)
  PROVE  next \in DOMAIN branches /\ Branch \in BranchType /\ Branch.symbol \in DOMAIN symbols
<1>1. next \in DOMAIN branches
  BY DEF BranchesInv
<1>2. branches[next] \in BranchType
  BY <1>1 DEF BranchesInv
<1> QED BY <1>1, <1>2, BranchFields DEF Branch

(* A branch given another symbol.                                            *)
LEMMA Retargeted ==
  ASSUME BranchesInv, next \in DOMAIN branches, NEW x,
         branches' = [branches EXCEPT ![next].symbol = x]
  PROVE  /\ DOMAIN branches' = DOMAIN branches /\ Len(branches') = Len(branches)
         /\ DOMAIN branches = 1..Len(branches) /\ Len(branches) \in Nat
         /\ \A b \in DOMAIN branches : /\ branches'[b].symbol = IF b = next THEN x ELSE branches[b].symbol
                                       /\ branches'[b].origin = branches[b].origin
                                       /\ branches'[b].frag = branches[b].frag
                                       /\ branches'[b].at = branches[b].at
                                       /\ branches'[b].kind = branches[b].kind
                                       /\ branches'[b].addend = branches[b].addend
         /\ (x \in DOMAIN symbols' /\ DOMAIN symbols \subseteq DOMAIN symbols' => BranchesInv')
<1>1. DOMAIN branches' = DOMAIN branches /\ Len(branches') = Len(branches)
      /\ DOMAIN branches = 1..Len(branches) /\ Len(branches) \in Nat
  BY DEF BranchesInv
<1>2. ASSUME NEW b \in DOMAIN branches
      PROVE  /\ branches'[b].symbol = IF b = next THEN x ELSE branches[b].symbol
             /\ branches'[b].origin = branches[b].origin
             /\ branches'[b].frag = branches[b].frag
             /\ branches'[b].at = branches[b].at
             /\ branches'[b].kind = branches[b].kind
             /\ branches'[b].addend = branches[b].addend
             /\ (x \in DOMAIN symbols' /\ DOMAIN symbols \subseteq DOMAIN symbols' => branches'[b] \in BranchType')
  <2>1. branches[b] \in BranchType
    BY DEF BranchesInv
  <2>2. branches'[b] = IF b = next THEN [branches[b] EXCEPT !.symbol = x] ELSE branches[b]
    OBVIOUS
  <2> QED BY <2>1, <2>2 DEF BranchType
<1>3. ASSUME x \in DOMAIN symbols', DOMAIN symbols \subseteq DOMAIN symbols' PROVE BranchesInv'
  <2>1. \A b \in 1..Len(branches) : branches'[b] \in BranchType'
    BY <1>1, <1>2, <1>3
  <2>2. branches' = [b \in DOMAIN branches |-> branches'[b]]
    BY <1>1
  <2>3. branches' \in [1..Len(branches) -> BranchType']
    BY <1>1, <2>1, <2>2
  <2>4. branches' \in Seq(BranchType')
    <3>1. Len(branches) \in Nat
      BY <1>1
    <3> QED BY <2>3, <3>1, FunctionSeq
  <2> QED BY <2>4 DEF BranchesInv
<1> QED BY <1>1, <1>2, <1>3

LEMMA GroupArrives ==
  ASSUME BaseInv, Group
  PROVE  BaseInv' /\ (NameInv => NameInv')
<1>1. sections \in Seq(SectionType) /\ islands = <<>>
  BY DEF BaseInv, GroupInv, Group
<1>2. DOMAIN sections = 1..Len(sections) /\ Len(sections) \in Nat
  BY <1>1
<1>3. \A s \in 1..Len(sections) : sections[s].frags \in Seq(FragType) /\ sections[s].frags # <<>>
  <2>1. \A s \in 1..Len(sections) : sections[s] \in SectionType
    BY <1>1
  <2> QED BY <2>1, SectionFields
<1>4. PICK e : Grouped(islands', e, Len(sections))
  BY <1>2, <1>3, AllGrouped DEF Group
<1> DEFINE P == UNION {{Produce(s, p) : p \in DOMAIN sections[s].frags} : s \in DOMAIN sections}
<1>5. islands' \in Seq(P)
  BY <1>4 DEF Grouped
<1>6. ASSUME NEW q \in P PROVE q \in IslandType' /\ q.stubs = <<>>
  <2>1. PICK s \in DOMAIN sections : \E p \in DOMAIN sections[s].frags : q = Produce(s, p)
    OBVIOUS
  <2>2. PICK p \in DOMAIN sections[s].frags : q = Produce(s, p)
    BY <2>1
  <2> DEFINE frags == sections[s].frags
  <2>3. frags \in Seq(FragType) /\ s \in Nat /\ p \in DOMAIN frags
    BY <1>2, <1>3
  <2> HIDE DEF frags
  <2>4. frags[p].id \in Nat /\ (p < Len(frags) => frags[p + 1].id \in Nat)
    <3>1. frags[p] \in FragType /\ (p < Len(frags) => frags[p + 1] \in FragType)
      BY <2>3
    <3> QED BY <3>1 DEF FragType
  <2>5. q = [section |-> s, entry |-> frags[p].id, exit |-> IF p < Len(frags) THEN frags[p + 1].id ELSE 0,
             stubs |-> <<>>]
    BY <2>2 DEF Produce, frags
  <2>6. <<>> \in Seq(Stubs')
    OBVIOUS
  <2> QED BY <2>3, <2>4, <2>5, <2>6 DEF IslandType
<1> HIDE DEF P
<1>7. IslandsInv'
  <2>1. P \subseteq IslandType'
    BY <1>6
  <2> QED BY <1>5, <2>1 DEF IslandsInv
<1>8. \A i \in DOMAIN islands' : islands'[i].stubs = <<>>
  <2>1. \A i \in DOMAIN islands' : islands'[i] \in P
    BY <1>5
  <2> QED BY <2>1, <1>6
<1>9. Stubs' = {} /\ StubIds' = {} /\ Cardinality(StubIds') = 0 /\ IsFiniteSet(StubIds')
  <2>1. \A i \in DOMAIN islands' : ToSet(islands'[i].stubs) = {}
    BY <1>8 DEF ToSet
  <2>2. Stubs' = {}
    BY <2>1 DEF Stubs
  <2>3. StubIds' = {}
    BY <2>2 DEF StubIds
  <2> QED BY <2>2, <2>3, FS_EmptySet
<1>10. Stubs = {} /\ StubIds = {}
  BY <1>1, NoStubs
<1>11. symbols' = symbols /\ branches' = branches /\ phase' # "group"
  BY DEF Group
<1>12. StubsInv'
  BY <1>9 DEF StubsInv
<1>13. BranchesInv'
  BY <1>11 DEF BaseInv, BranchesInv, BranchType
<1>14. SymbolsInv => SymbolsInv'
  BY <1>9, <1>10, <1>11 DEF SymbolsInv
<1>15. ASSUME RouteInv PROVE RouteInv'
  <2>1. PICK rank, home : Routed(rank, home)
    BY <1>15 DEF RouteInv
  <2>2. Routed(rank, home)'
    BY <2>1, <1>9, <1>10, <1>11 DEF Routed
  <2> QED BY <2>2 DEF RouteInv
<1>16. PlainInv'
  <2>1. Len(branches) \in Nat
    BY DEF BaseInv, BranchesInv
  <2>2. phase' = "branches" /\ next' = 1 /\ isRelaxed' = FALSE /\ UNCHANGED <<failed, branches, syms>>
    BY DEF Group
  <2>3. next' \in 1..(Len(branches') + 1)
    BY <2>1, <2>2
  <2> QED BY <2>2, <2>3, Zenon DEF BaseInv, PlainInv
<1> QED BY <1>7, <1>11, <1>12, <1>13, <1>14, <1>15, <1>16 DEF BaseInv, NameInv, GroupInv

LEMMA QuietArrives ==
  ASSUME BaseInv, UNCHANGED <<islands, symbols, branches>>, PlainInv', GroupInv'
  PROVE  BaseInv' /\ (NameInv => NameInv')
<1>1. Stubs' = Stubs
  BY DEF Stubs
<1>2. StubIds' = StubIds
  BY <1>1 DEF StubIds
<1>3. IslandsInv'
  BY <1>1 DEF BaseInv, IslandsInv, IslandType
<1>4. BranchesInv'
  BY DEF BaseInv, BranchesInv, BranchType
<1>5. StubsInv' /\ (SymbolsInv => SymbolsInv')
  BY <1>1, <1>2 DEF BaseInv, StubsInv, SymbolsInv
<1>6. ASSUME RouteInv PROVE RouteInv'
  <2>1. PICK rank, home : Routed(rank, home)
    BY <1>6 DEF RouteInv
  <2>2. Routed(rank, home)'
    BY <2>1, <1>1, <1>2 DEF Routed
  <2> QED BY <2>2 DEF RouteInv
<1> QED BY <1>3, <1>4, <1>5, <1>6 DEF BaseInv, NameInv

LEMMA KeepArrives ==
  ASSUME BaseInv, KeepBranch \/ CheckIslands \/ UNCHANGED vars
  PROVE  BaseInv' /\ (NameInv => NameInv')
<1>1. Len(branches) \in Nat /\ PlainInv
  BY DEF BaseInv, BranchesInv
<1>2. CASE KeepBranch
  <2>1. PlainInv' /\ GroupInv' /\ UNCHANGED <<islands, symbols, branches>>
    BY <1>1, <1>2 DEF KeepBranch, PlainInv, GroupInv
  <2> QED BY <2>1, QuietArrives
<1>3. CASE CheckIslands
  <2>1. /\ phase' \in {"branches", "done"} /\ next' = 1 /\ isRelaxed' = FALSE /\ failed' \in {failed, TRUE}
        /\ UNCHANGED <<islands, symbols, branches, syms>>
    BY <1>3 DEF CheckIslands
  <2>2. failed' \in BOOLEAN
    <3>1. failed \in BOOLEAN
      BY <1>1 DEF PlainInv
    <3> QED BY <2>1, <3>1, Zenon
  <2>3. next' \in 1..(Len(branches') + 1)
    BY <1>1, <2>1
  <2>4. PlainInv'
    BY <1>1, <2>1, <2>2, <2>3, Zenon DEF PlainInv
  <2>5. GroupInv'
    BY <2>1 DEF GroupInv
  <2> QED BY <2>1, <2>4, <2>5, QuietArrives
<1>4. CASE UNCHANGED vars
  <2>1. PlainInv' /\ GroupInv' /\ UNCHANGED <<islands, symbols, branches>>
    BY <1>1, <1>4 DEF PlainInv, GroupInv, vars, BaseInv
  <2> QED BY <2>1, QuietArrives
<1> QED BY <1>2, <1>3, <1>4

LEMMA ReuseArrives ==
  ASSUME BaseInv, ReuseStub
  PROVE  BaseInv' /\ (NameInv => NameInv')
<1>1. /\ PlainInv /\ GroupInv /\ IslandsInv /\ BranchesInv /\ StubsInv
      /\ next \in Nat /\ next >= 1 /\ next <= Len(branches) /\ phase = "branches"
  BY DEF BaseInv, ReuseStub, PlainInv
<1>2. next \in DOMAIN branches /\ Branch \in BranchType /\ Branch.symbol \in DOMAIN symbols
  BY <1>1, BranchAt
<1> DEFINE i == IF Found(Behind(Branch.frag)) # 0 THEN Behind(Branch.frag) ELSE Ahead(Branch.frag)
           stub == islands[i].stubs[Found(i)]
           x == stub.info
<1>3. Found(i) # 0 /\ GoThrough(x)
  BY DEF ReuseStub
<1>4. i = 0 \/ i \in DOMAIN islands
  BY <1>1, AheadIs
<1> HIDE DEF i
<1>5. stub \in Stubs /\ SameKey(stub, Proto, Branch)
  BY <1>1, <1>3, <1>4, FoundIs
<1> HIDE DEF stub
<1>6. stub.symbol \in DOMAIN symbols /\ x \in DOMAIN symbols /\ NamedAfter(x, stub.symbol)
  BY <1>1, <1>5 DEF StubsInv
<1>7. branches' = [branches EXCEPT ![next].symbol = x] /\ syms' = syms + 1 /\ isRelaxed' = TRUE
  BY <1>3 DEF GoThrough
<1>8. next' = next + 1 /\ UNCHANGED <<phase, failed, sections, islands, symbols>>
  BY DEF ReuseStub
<1> HIDE DEF x
<1>9. /\ DOMAIN branches' = DOMAIN branches /\ Len(branches') = Len(branches) /\ Len(branches) \in Nat
      /\ \A b \in DOMAIN branches : /\ branches'[b].symbol = IF b = next THEN x ELSE branches[b].symbol
                                    /\ branches'[b].origin = branches[b].origin
      /\ BranchesInv'
  BY <1>1, <1>2, <1>6, <1>7, <1>8, Retargeted
<1>10. Stubs' = Stubs /\ StubIds' = StubIds
  <2>1. Stubs' = Stubs
    BY <1>8 DEF Stubs
  <2> QED BY <2>1 DEF StubIds
<1>11. IslandsInv'
  BY <1>1, <1>8, <1>10 DEF IslandsInv, IslandType
<1>12. StubsInv' /\ (SymbolsInv => SymbolsInv')
  BY <1>1, <1>8, <1>10 DEF StubsInv, SymbolsInv
<1>13. PlainInv' /\ GroupInv'
  BY <1>1, <1>7, <1>8, <1>9 DEF PlainInv, GroupInv
<1>14. ASSUME NameInv PROVE RouteInv'
  <2>1. PICK rank, home : Routed(rank, home)
    BY <1>14 DEF NameInv, RouteInv
  <2>2. home[x] = home[Branch.symbol]
    <3>1. stub.symbol = Branch.symbol
      BY <1>2, <1>5, <1>6, <1>14 DEF SameKey, NameInv, SymbolsInv
    <3> QED BY <1>1, <1>6, <1>14, <2>1, <3>1, StubSymbolLeads DEF NameInv
  <2>3. \A b \in DOMAIN branches' : home[branches'[b].symbol] = branches'[b].origin
    <3>1. home[Branch.symbol] = branches[next].origin
      BY <1>2, <2>1 DEF Routed, Branch
    <3> QED BY <1>9, <2>1, <2>2, <3>1 DEF Routed
  <2>4. Routed(rank, home)'
    BY <2>1, <2>3, <1>8, <1>10 DEF Routed
  <2> QED BY <2>4 DEF RouteInv
<1> QED BY <1>9, <1>11, <1>12, <1>13, <1>14 DEF BaseInv, NameInv

(* An island given one more stub.                                            *)
LEMMA StubAdded ==
  ASSUME IslandsInv, NEW i \in DOMAIN islands, NEW stub,
         islands' = [islands EXCEPT ![i].stubs = Append(@, stub)]
  PROVE  /\ Stubs' = Stubs \cup {stub} /\ StubIds' = StubIds \cup {stub.id}
         /\ IslandsInv' /\ DOMAIN islands' = DOMAIN islands /\ Len(islands') = Len(islands)
         /\ islands'[i].stubs = Append(islands[i].stubs, stub)
         /\ \A k \in DOMAIN islands : /\ islands'[k].section = islands[k].section
                                      /\ islands'[k].entry = islands[k].entry
                                      /\ islands'[k].exit = islands[k].exit
                                      /\ k # i => islands'[k] = islands[k]
<1>1. DOMAIN islands = 1..Len(islands) /\ Len(islands) \in Nat
      /\ DOMAIN islands' = DOMAIN islands /\ Len(islands') = Len(islands)
  BY DEF IslandsInv
<1>2. ASSUME NEW k \in DOMAIN islands
      PROVE  /\ islands[k] \in IslandType
             /\ islands[k].section \in Nat /\ islands[k].entry \in Nat /\ islands[k].exit \in Nat
             /\ islands[k].stubs \in Seq(Stubs)
             /\ islands'[k] = [section |-> islands[k].section, entry |-> islands[k].entry,
                               exit |-> islands[k].exit,
                               stubs |-> IF k = i THEN Append(islands[k].stubs, stub) ELSE islands[k].stubs]
  <2>1. islands[k] \in IslandType
    BY StubIn
  <2>2. islands'[k] = IF k = i THEN [islands[k] EXCEPT !.stubs = Append(islands[k].stubs, stub)] ELSE islands[k]
    OBVIOUS
  <2> QED BY <2>1, <2>2 DEF IslandType
<1>3. ASSUME NEW k \in DOMAIN islands
      PROVE  ToSet(islands'[k].stubs) = ToSet(islands[k].stubs) \cup (IF k = i THEN {stub} ELSE {})
  <2>1. CASE k = i
    <3> DEFINE old == islands[k].stubs
               new == Append(old, stub)
    <3>1. old \in Seq(Stubs) /\ islands'[k].stubs = new
      BY <1>2, <2>1
    <3> HIDE DEF old
    <3>2. /\ DOMAIN new = DOMAIN old \cup {Len(old) + 1}
          /\ \A j \in DOMAIN old : new[j] = old[j]
          /\ new[Len(old) + 1] = stub
      BY <3>1
    <3> HIDE DEF new
    <3>3. ToSet(new) = ToSet(old) \cup {stub}
      <4>1. \A e : e \in ToSet(new) <=> \E j \in DOMAIN new : e = new[j]
        BY DEF ToSet
      <4>2. \A e : e \in ToSet(old) <=> \E j \in DOMAIN old : e = old[j]
        BY DEF ToSet
      <4> QED BY <3>2, <4>1, <4>2
    <3> QED BY <2>1, <3>1, <3>3 DEF old
  <2>2. CASE k # i
    BY <1>2, <2>2
  <2> QED BY <2>1, <2>2
<1>4. Stubs' = Stubs \cup {stub}
  <2>1. \A e : e \in Stubs <=> \E k \in DOMAIN islands : e \in ToSet(islands[k].stubs)
    BY DEF Stubs
  <2>2. \A e : e \in Stubs' <=> \E k \in DOMAIN islands' : e \in ToSet(islands'[k].stubs)
    BY DEF Stubs
  <2> QED BY <1>1, <1>3, <2>1, <2>2
<1>5. StubIds' = StubIds \cup {stub.id}
  BY <1>4 DEF StubIds
<1>6. IslandsInv'
  <2>1. ASSUME NEW k \in DOMAIN islands PROVE islands'[k] \in IslandType'
    <3>1. islands[k].stubs \in Seq(Stubs')
      <4>1. Stubs \subseteq Stubs'
        BY <1>4
      <4>2. islands[k].stubs \in Seq(Stubs)
        BY <1>2
      <4> QED BY <4>1, <4>2
    <3>2. Append(islands[k].stubs, stub) \in Seq(Stubs')
      <4>1. stub \in Stubs'
        BY <1>4
      <4> QED BY <3>1, <4>1
    <3>3. (IF k = i THEN Append(islands[k].stubs, stub) ELSE islands[k].stubs) \in Seq(Stubs')
      BY <3>1, <3>2
    <3> QED BY <1>2, <3>3 DEF IslandType
  <2>2. islands' = [k \in DOMAIN islands |-> islands'[k]]
    BY <1>1
  <2>3. islands' \in [1..Len(islands) -> IslandType']
    BY <1>1, <2>1, <2>2
  <2>4. Len(islands) \in Nat
    BY <1>1
  <2>5. islands' \in Seq(IslandType')
    BY <2>3, <2>4, FunctionSeq
  <2> QED BY <2>5 DEF IslandsInv
<1>7. islands'[i].stubs = Append(islands[i].stubs, stub)
  BY <1>2
<1>8. \A k \in DOMAIN islands : /\ islands'[k].section = islands[k].section
                                /\ islands'[k].entry = islands[k].entry
                                /\ islands'[k].exit = islands[k].exit
                                /\ k # i => islands'[k] = islands[k]
  BY <1>2
<1> QED BY <1>1, <1>4, <1>5, <1>6, <1>7, <1>8

LEMMA FreshId ==
  ASSUME StubsInv
  PROVE  /\ NewId \in Nat /\ NewId > FirstStub /\ NewId \notin StubIds /\ Cardinality(StubIds) \in Nat
         /\ IsFiniteSet(StubIds \cup {NewId}) /\ Cardinality(StubIds \cup {NewId}) = Cardinality(StubIds) + 1
<1>1. IsFiniteSet(StubIds) /\ Cardinality(StubIds) \in Nat
  BY FS_CardinalityType DEF StubsInv
<1>2. NewId \in Nat /\ NewId > FirstStub /\ NewId > FirstStub + 2 * Cardinality(StubIds)
  BY <1>1 DEF NewId, FirstStub
<1>3. ASSUME NEW stub \in Stubs PROVE stub.id # NewId
  <2>1. stub.id \in Nat /\ stub.id <= FirstStub + 2 * Cardinality(StubIds)
    BY DEF StubsInv
  <2> QED BY <1>1, <1>2, <2>1 DEF FirstStub
<1>4. NewId \notin StubIds
  BY <1>3 DEF StubIds
<1>5. IsFiniteSet(StubIds \cup {NewId}) /\ Cardinality(StubIds \cup {NewId}) = Cardinality(StubIds) + 1
  BY <1>1, <1>4, FS_AddElement
<1> QED BY <1>1, <1>2, <1>4, <1>5

LEMMA CreateArrives ==
  ASSUME BaseInv, CreateStub
  PROVE  BaseInv' /\ (NameInv => NameInv')
<1>1. /\ PlainInv /\ GroupInv /\ IslandsInv /\ BranchesInv /\ StubsInv
      /\ next \in Nat /\ next >= 1 /\ next <= Len(branches) /\ phase = "branches"
  BY DEF BaseInv, CreateStub, PlainInv
<1>2. next \in DOMAIN branches /\ Branch \in BranchType /\ Branch.symbol \in DOMAIN symbols
  BY <1>1, BranchAt
<1> DEFINE i == Ahead(Branch.frag)
           y == Branch.symbol
           info == StubSymbol(Branch, Proto, i)
           entry == IF Proto \in {"A2A", "A2T"} THEN 0 ELSE 1
           value == [frag |-> NewId, at |-> entry, plt |-> 0]
           stub == [id |-> NewId, proto |-> Proto, symbol |-> y, addend |-> Branch.addend, info |-> info]
<1>3. /\ i # 0
      /\ islands' = [islands EXCEPT ![i].stubs = Append(@, stub)]
      /\ symbols' = [sym \in DOMAIN symbols \cup {info} |-> IF sym = info THEN value ELSE symbols[sym]]
      /\ GoThrough(info) /\ next' = next + 1 /\ UNCHANGED <<phase, failed>>
  BY DEF CreateStub
<1>4. branches' = [branches EXCEPT ![next].symbol = info] /\ syms' = syms + 1 /\ isRelaxed' = TRUE
  BY <1>3 DEF GoThrough
<1>5. i \in DOMAIN islands
  BY <1>1, <1>3, AheadIs
<1>6. NamedAfter(info, y)
  BY DEF NamedAfter, StubSymbol
<1>7. stub.id = NewId /\ stub.symbol = y /\ stub.info = info
  OBVIOUS
<1>8. /\ DOMAIN symbols' = DOMAIN symbols \cup {info} /\ symbols'[info].frag = NewId
      /\ \A x \in DOMAIN symbols : x # info => symbols'[x] = symbols[x]
  BY <1>3
<1>9. Stubs' = Stubs \cup {stub} /\ StubIds' = StubIds \cup {NewId} /\ IslandsInv'
  <2> HIDE DEF stub, i
  <2> QED BY <1>1, <1>3, <1>5, <1>7, StubAdded
<1> HIDE DEF stub, info, value, i, y
<1>10. y \in DOMAIN symbols
  BY <1>2 DEF y
<1>11. /\ NewId \in Nat /\ NewId > FirstStub /\ NewId \notin StubIds /\ Cardinality(StubIds) \in Nat
       /\ IsFiniteSet(StubIds') /\ Cardinality(StubIds') = Cardinality(StubIds) + 1
  BY <1>1, <1>9, FreshId
<1>12. /\ DOMAIN branches' = DOMAIN branches /\ Len(branches') = Len(branches) /\ Len(branches) \in Nat
       /\ \A b \in DOMAIN branches : /\ branches'[b].symbol = IF b = next THEN info ELSE branches[b].symbol
                                     /\ branches'[b].origin = branches[b].origin
       /\ BranchesInv'
  BY <1>1, <1>2, <1>4, <1>8, Retargeted
<1>13. PlainInv' /\ GroupInv'
  <2>1. next' \in 1..(Len(branches') + 1)
    BY <1>1, <1>3, <1>12
  <2>2. syms' \in Nat
    BY <1>1, <1>4 DEF PlainInv
  <2>3. PlainInv'
    BY <1>1, <1>3, <1>4, <2>1, <2>2, Zenon DEF PlainInv
  <2> QED BY <1>1, <1>3, <2>3 DEF GroupInv
<1>14. StubsInv'
  <2>1. ASSUME NEW t \in Stubs'
        PROVE  /\ t.id \in Nat /\ FirstStub < t.id /\ t.id <= FirstStub + 2 * Cardinality(StubIds')
               /\ t.symbol \in DOMAIN symbols' /\ t.info \in DOMAIN symbols'
               /\ NamedAfter(t.info, t.symbol)
    <3>1. CASE t = stub
      <4>1. NewId <= FirstStub + 2 * Cardinality(StubIds')
        BY <1>11 DEF NewId, FirstStub
      <4> QED BY <3>1, <4>1, <1>6, <1>7, <1>8, <1>10, <1>11
    <3>2. CASE t \in Stubs
      <4>1. /\ t.id \in Nat /\ FirstStub < t.id /\ t.id <= FirstStub + 2 * Cardinality(StubIds)
            /\ t.symbol \in DOMAIN symbols /\ t.info \in DOMAIN symbols /\ NamedAfter(t.info, t.symbol)
        BY <1>1, <3>2 DEF StubsInv
      <4>2. t.id <= FirstStub + 2 * Cardinality(StubIds')
        BY <4>1, <1>11 DEF FirstStub
      <4> QED BY <4>1, <4>2, <1>8
    <3> QED BY <3>1, <3>2, <1>9
  <2>2. \A t, u \in Stubs' : t.id = u.id => t = u
    <3>1. \A t, u \in Stubs : t.id = u.id => t = u
      BY <1>1 DEF StubsInv
    <3>2. \A t \in Stubs : t.id \in StubIds
      BY DEF StubIds
    <3> QED BY <3>1, <3>2, <1>7, <1>9, <1>11
  <2> QED BY <2>1, <2>2, <1>11 DEF StubsInv
<1>15. ASSUME SymbolsInv PROVE SymbolsInv'
  <2>1. \A x \in DOMAIN symbols : x.name = info.name => x = info
    <3> SUFFICES ASSUME NEW x \in DOMAIN symbols, x.name = info.name PROVE x = info
      OBVIOUS
    <3>1. Len(x.name) # 1
      BY <1>6 DEF NamedAfter
    <3>2. PICK t \in Stubs : t.info = x
      BY <1>15, <3>1 DEF SymbolsInv
    <3>3. NamedAfter(x, t.symbol)
      BY <1>1, <3>2 DEF StubsInv
    <3> QED BY <3>3, <1>6 DEF NamedAfter
  <2>2. \A x, z \in DOMAIN symbols' : x.name = z.name => x = z
    <3>1. \A x, z \in DOMAIN symbols : x.name = z.name => x = z
      BY <1>15 DEF SymbolsInv
    <3> QED BY <2>1, <3>1, <1>8
  <2>3. ASSUME NEW x \in DOMAIN symbols'
        PROVE  \/ symbols'[x].frag \in 0..FirstStub /\ Len(x.name) = 1
               \/ \E t \in Stubs' : symbols'[x].frag = t.id /\ t.info = x
    <3>1. CASE x = info
      BY <3>1, <1>7, <1>8, <1>9
    <3>2. CASE x # info
      <4>1. x \in DOMAIN symbols /\ symbols'[x] = symbols[x]
        BY <3>2, <1>8
      <4>2. \/ symbols[x].frag \in 0..FirstStub /\ Len(x.name) = 1
            \/ \E t \in Stubs : symbols[x].frag = t.id /\ t.info = x
        BY <1>15, <4>1 DEF SymbolsInv
      <4> QED BY <4>1, <4>2, <1>9
    <3> QED BY <3>1, <3>2
  <2> QED BY <2>2, <2>3 DEF SymbolsInv
<1>16. ASSUME NameInv PROVE RouteInv'
  <2>1. PICK rank, home : Routed(rank, home)
    BY <1>16 DEF NameInv, RouteInv
  <2>2. PICK rank2, home2 :
           /\ rank2[info] = rank[y] + 1 /\ home2[info] = home[y]
           /\ \A x \in DOMAIN symbols' : x # info => rank2[x] = rank[x] /\ home2[x] = home[x]
    <3> DEFINE r == [x \in DOMAIN symbols' |-> IF x = info THEN rank[y] + 1 ELSE rank[x]]
               h == [x \in DOMAIN symbols' |-> IF x = info THEN home[y] ELSE home[x]]
    <3>1. /\ r[info] = rank[y] + 1 /\ h[info] = home[y]
          /\ \A x \in DOMAIN symbols' : x # info => r[x] = rank[x] /\ h[x] = home[x]
      BY <1>8
    <3> HIDE DEF r, h
    <3> QED BY <3>1
  <2>3. info \in DOMAIN symbols => rank[info] = rank[y] + 1 /\ home[info] = home[y]
    BY <1>1, <1>6, <1>10, <1>16, <2>1, StubSymbolLeads DEF NameInv
  <2>4. \A x \in DOMAIN symbols : rank2[x] = rank[x] /\ home2[x] = home[x]
    BY <2>2, <2>3, <1>8
  <2>5. \A x \in DOMAIN symbols : rank[x] \in Nat /\ rank[x] <= Cardinality(StubIds)
    BY <2>1 DEF Routed
  <2>6. ASSUME NEW x \in DOMAIN symbols'
        PROVE  /\ rank2[x] \in Nat /\ rank2[x] <= Cardinality(StubIds')
               /\ symbols'[x].frag \notin StubIds' => rank2[x] = 0 /\ home2[x] = x
               /\ \A t \in Stubs' :
                     symbols'[x].frag = t.id => rank2[x] = rank2[t.symbol] + 1 /\ home2[x] = home2[t.symbol]
    <3>1. CASE x = info
      <4>1. rank[y] \in Nat /\ rank[y] <= Cardinality(StubIds)
        BY <2>5, <1>10
      <4>2. rank2[x] \in Nat /\ rank2[x] <= Cardinality(StubIds')
        BY <3>1, <4>1, <2>2, <1>11
      <4>3. symbols'[x].frag \in StubIds'
        BY <3>1, <1>8, <1>9
      <4>4. \A t \in Stubs' : symbols'[x].frag = t.id => t = stub
        BY <3>1, <1>7, <1>8, <1>9, <1>14 DEF StubsInv
      <4>5. rank2[stub.symbol] = rank[y] /\ home2[stub.symbol] = home[y]
        BY <1>7, <1>10, <2>4
      <4> QED BY <3>1, <4>2, <4>3, <4>4, <4>5, <2>2
    <3>2. CASE x # info
      <4>1. x \in DOMAIN symbols /\ symbols'[x] = symbols[x] /\ rank2[x] = rank[x] /\ home2[x] = home[x]
        BY <3>2, <1>8, <2>4
      <4>2. rank2[x] \in Nat /\ rank2[x] <= Cardinality(StubIds')
        BY <4>1, <2>5, <1>11
      <4>3. symbols[x].frag # NewId
        <5>1. symbols[x].frag \in 0..FirstStub \/ symbols[x].frag \in StubIds
          BY <1>16, <4>1 DEF NameInv, SymbolsInv, StubIds
        <5> QED BY <5>1, <1>11 DEF FirstStub
      <4>4. symbols'[x].frag \notin StubIds' => rank2[x] = 0 /\ home2[x] = x
        <5>1. symbols'[x].frag \notin StubIds' => symbols[x].frag \notin StubIds
          BY <4>1, <1>9
        <5> QED BY <2>1, <4>1, <5>1 DEF Routed
      <4>5. ASSUME NEW t \in Stubs', symbols'[x].frag = t.id
            PROVE  rank2[x] = rank2[t.symbol] + 1 /\ home2[x] = home2[t.symbol]
        <5>1. t \in Stubs
          BY <4>1, <4>3, <4>5, <1>7, <1>9
        <5>2. rank[x] = rank[t.symbol] + 1 /\ home[x] = home[t.symbol]
          BY <2>1, <4>1, <4>5, <5>1 DEF Routed
        <5>3. t.symbol \in DOMAIN symbols
          BY <1>1, <5>1 DEF StubsInv
        <5> QED BY <2>4, <4>1, <5>2, <5>3
      <4> QED BY <4>2, <4>4, <4>5
    <3> QED BY <3>1, <3>2
  <2>7. ASSUME NEW b \in DOMAIN branches'
        PROVE  home2[branches'[b].symbol] = branches'[b].origin
    <3>1. home[branches[b].symbol] = branches[b].origin /\ b \in DOMAIN branches
      BY <1>12, <2>1 DEF Routed
    <3>2. branches[b].symbol \in DOMAIN symbols
      <4>1. branches[b] \in BranchType
        BY <1>1, <3>1 DEF BranchesInv
      <4> QED BY <4>1, BranchFields
    <3>3. CASE b = next
      BY <3>1, <3>3, <1>12, <2>2 DEF y, Branch
    <3>4. CASE b # next
      BY <3>1, <3>2, <3>4, <1>12, <2>4
    <3> QED BY <3>3, <3>4
  <2>8. Routed(rank2, home2)'
    BY <2>6, <2>7 DEF Routed
  <2> QED BY <2>8 DEF RouteInv
<1> QED BY <1>9, <1>12, <1>13, <1>14, <1>15, <1>16 DEF BaseInv, NameInv

LEMMA NextArrives ==
  ASSUME BaseInv, [Next]_vars
  PROVE  BaseInv' /\ (NameInv => NameInv')
<1>1. CASE Group
  BY <1>1, GroupArrives
<1>2. CASE KeepBranch \/ CheckIslands \/ UNCHANGED vars
  BY <1>2, KeepArrives
<1>3. CASE ReuseStub
  BY <1>3, ReuseArrives
<1>4. CASE CreateStub
  BY <1>4, CreateArrives
<1>5. CASE Done
  BY <1>5, KeepArrives DEF Done
<1> QED BY <1>1, <1>2, <1>3, <1>4, <1>5 DEF Next

WayNext(sym, g, n) == IF n = 0 THEN sym ELSE Follow(g[n - 1])

LEMMA WayExists ==
  ASSUME NEW sym, NEW N \in Nat
  PROVE  \E g : g = [n \in 0..N |-> WayNext(sym, g, n)]
<1> DEFINE Good(m) == \E g : g = [n \in 0..m |-> WayNext(sym, g, n)]
           Bad == {m \in Nat : ~Good(m)}
<1>1. ASSUME Bad # {} PROVE FALSE
  <2> HIDE DEF Good
  <2>1. PICK m \in Bad : \A y \in Bad : m <= y
    BY <1>1, SmallestNat
  <2>2. m # 0
    <3> DEFINE h == [n \in 0..0 |-> sym]
    <3>1. h = [n \in 0..0 |-> WayNext(sym, h, n)]
      BY DEF WayNext
    <3>2. Good(0)
      <4> HIDE DEF h
      <4> QED BY <3>1 DEF Good
    <3> QED BY <3>2, <2>1
  <2>3. m - 1 \in Nat /\ m - 1 \notin Bad
    BY <2>1, <2>2
  <2>4. PICK g : g = [n \in 0..(m - 1) |-> WayNext(sym, g, n)]
    BY <2>3 DEF Good
  <2> DEFINE h == [n \in 0..m |-> IF n = m THEN WayNext(sym, g, m) ELSE g[n]]
  <2>5. ASSUME NEW n \in 0..m PROVE h[n] = WayNext(sym, h, n)
    <3>1. n # 0 => n - 1 \in 0..m /\ h[n - 1] = g[n - 1]
      BY <2>3
    <3>2. WayNext(sym, h, n) = WayNext(sym, g, n)
      <4> HIDE DEF h
      <4> QED BY <3>1 DEF WayNext
    <3>3. n # m => n \in 0..(m - 1)
      BY <2>3
    <3>4. h[n] = WayNext(sym, g, n)
      BY <2>4, <3>3
    <3> QED BY <3>2, <3>4
  <2>6. h = [n \in 0..m |-> WayNext(sym, h, n)]
    <3>1. h = [n \in 0..m |-> h[n]]
      OBVIOUS
    <3> HIDE DEF h
    <3> QED BY <2>5, <3>1, Zenon
  <2>7. Good(m)
    <3> HIDE DEF h
    <3> QED BY <2>6 DEF Good
  <2> QED BY <2>1, <2>7
<1> HIDE DEF Good
<1>2. Good(N)
  BY <1>1
<1> QED BY <1>2 DEF Good

(* One stub further on the way.                                              *)
LEMMA FollowOne ==
  ASSUME StubsInv, NEW rank, NEW home, Routed(rank, home), NEW x \in DOMAIN symbols
  PROVE  /\ Follow(x) \in DOMAIN symbols /\ home[Follow(x)] = home[x]
         /\ rank[x] \in Nat /\ rank[x] <= Cardinality(StubIds)
         /\ rank[Follow(x)] = 0 \/ rank[Follow(x)] = rank[x] - 1
         /\ rank[x] = 0 => home[x] = x
<1>1. rank[x] \in Nat /\ rank[x] <= Cardinality(StubIds)
  BY DEF Routed
<1>2. CASE symbols[x].frag \in StubIds
  <2>1. PICK t \in Stubs : t.id = symbols[x].frag
    BY <1>2 DEF StubIds
  <2>2. StubOf(symbols[x].frag) = t
    <3>1. \A u \in Stubs : u.id = symbols[x].frag => u = t
      BY <2>1 DEF StubsInv
    <3> QED BY <2>1, <3>1 DEF StubOf
  <2>3. Follow(x) = t.symbol
    BY <1>2, <2>2 DEF Follow
  <2>4. t.symbol \in DOMAIN symbols
    BY DEF StubsInv
  <2>5. rank[x] = rank[t.symbol] + 1 /\ home[x] = home[t.symbol]
    BY <2>1 DEF Routed
  <2>6. rank[t.symbol] \in Nat
    BY <2>4 DEF Routed
  <2> QED BY <1>1, <2>3, <2>4, <2>5, <2>6
<1>3. CASE symbols[x].frag \notin StubIds
  <2>1. Follow(x) = x /\ rank[x] = 0 /\ home[x] = x
    BY <1>3 DEF Follow, Routed
  <2> QED BY <2>1, <1>1
<1> QED BY <1>2, <1>3

LEMMA RoutedArrives ==
  ASSUME StubsInv, NEW rank, NEW home, Routed(rank, home), NEW sym \in DOMAIN symbols
  PROVE  Arrives(sym) = home[sym]
<1> DEFINE N == Cardinality(StubIds)
           P(g) == g = [n \in 0..Cardinality(StubIds) |-> IF n = 0 THEN sym ELSE Follow(g[n - 1])]
           way == CHOOSE g : P(g)
<1>1. N \in Nat
  BY FS_CardinalityType DEF StubsInv
<1>2. Arrives(sym) = way[N]
  BY DEF Arrives
<1>3. P(way)
  <2>1. \E g : P(g)
    BY <1>1, WayExists DEF WayNext
  <2> HIDE DEF P
  <2> QED BY <2>1
<1>4. \A n \in 0..N : way[n] = WayNext(sym, way, n)
  BY <1>3 DEF WayNext
<1>5. \A x \in DOMAIN symbols : rank[x] \in Nat /\ rank[x] <= N
  BY DEF Routed
<1> HIDE DEF P, way, N
<1> DEFINE Fine(n) == way[n] \in DOMAIN symbols /\ home[way[n]] = home[sym] /\ rank[way[n]] <= N - n
           Bad == {n \in Nat : n <= N /\ ~Fine(n)}
<1>6. ASSUME Bad # {} PROVE FALSE
  <2> HIDE DEF Fine
  <2>1. PICK n \in Bad : \A m \in Bad : n <= m
    BY <1>6, SmallestNat
  <2>2. n # 0
    <3>1. way[0] = sym
      BY <1>1, <1>4 DEF WayNext
    <3>2. Fine(0)
      BY <3>1, <1>1, <1>5 DEF Fine
    <3> QED BY <3>2, <2>1
  <2>3. n - 1 \in Nat /\ n - 1 \notin Bad /\ n \in 0..N /\ n <= N
    BY <2>1, <2>2, <1>1
  <2>4. Fine(n - 1)
    BY <2>3, <1>1
  <2>5. way[n] = Follow(way[n - 1])
    BY <2>2, <2>3, <1>4 DEF WayNext
  <2> DEFINE x == way[n - 1]
  <2>6. x \in DOMAIN symbols /\ home[x] = home[sym] /\ rank[x] <= N - (n - 1)
    BY <2>4 DEF Fine
  <2> HIDE DEF x
  <2>7. /\ Follow(x) \in DOMAIN symbols /\ home[Follow(x)] = home[x]
        /\ rank[x] \in Nat
        /\ rank[Follow(x)] = 0 \/ rank[Follow(x)] = rank[x] - 1
    BY <2>6, FollowOne
  <2>8. rank[Follow(x)] <= N - n
    BY <2>3, <2>6, <2>7, <1>1
  <2>9. Fine(n)
    BY <2>5, <2>6, <2>7, <2>8 DEF Fine, x
  <2> QED BY <2>1, <2>9
<1>7. Fine(N)
  <2> HIDE DEF Fine
  <2> QED BY <1>1, <1>6
<1>8. rank[way[N]] = 0
  BY <1>1, <1>5, <1>7
<1>9. home[way[N]] = way[N]
  BY <1>7, <1>8, FollowOne
<1> QED BY <1>2, <1>7, <1>9

(* A branch that has been sent through stubs, those of other branches and of *)
(* earlier passes included, still arrives where its relocation was written   *)
(* to lead (GNULDBackend::relax, ARMGNULDBackend::doRelax, BranchIsland::Key, *)
(* Stub::applyFixup), if no two symbols of the program share their name.     *)
THEOREM BranchesAlwaysArrive ==
  ASSUME \A program \in Programs : OwnNames(program)
  PROVE  Spec => []BranchesArrive
<1>1. Init => BaseInv /\ NameInv
  BY InitArrive
<1>2. BaseInv /\ NameInv /\ [Next]_vars => (BaseInv /\ NameInv)'
  BY NextArrives
<1>3. BaseInv /\ NameInv => BranchesArrive
  <2> SUFFICES ASSUME BaseInv, NameInv, NEW b \in DOMAIN branches
               PROVE  Arrives(branches[b].symbol) = branches[b].origin
    BY DEF BranchesArrive
  <2>1. PICK rank, home : Routed(rank, home)
    BY DEF NameInv, RouteInv
  <2>2. branches[b].symbol \in DOMAIN symbols
    <3>1. branches[b] \in BranchType
      BY DEF BaseInv, BranchesInv
    <3> QED BY <3>1, BranchFields
  <2>3. Arrives(branches[b].symbol) = home[branches[b].symbol]
    BY <2>1, <2>2, RoutedArrives DEF BaseInv
  <2> QED BY <2>1, <2>3 DEF Routed
<1> QED BY <1>1, <1>2, <1>3, PTL DEF Spec
-----------------------------------------------------------------------------
(* Fragments and islands.                                                    *)
ChainedAt(frags, p) == frags[p].at = IF p = 1 THEN 0 ELSE EndOfFragment(frags[p - 1])
LastAt(e, i) == e[i] + 2 * Len(islands[i].stubs)

SectionsInv == sections \in Seq(SectionType)
IdsInv ==
    /\ \A s \in DOMAIN sections : \A p \in DOMAIN sections[s].frags :
          /\ sections[s].frags[p].id \in Nat /\ sections[s].frags[p].id >= 1
          /\ sections[s].frags[p].id <= FirstStub + 2 * Cardinality(StubIds)
    /\ \A s, t \in DOMAIN sections : \A p \in DOMAIN sections[s].frags, q \in DOMAIN sections[t].frags :
          sections[s].frags[p].id = sections[t].frags[q].id => s = t /\ p = q
ReachInv == phase = "group" => \A s \in DOMAIN sections : Reachable(sections[s].frags)

(* Where the entry of each island is, and what lies behind it: an align      *)
(* fragment and a stub for each of its stubs, and the exit.                  *)
PlacedAt(e, i) ==
    LET s == islands[i].section
        frags == sections[s].frags
    IN  /\ s \in DOMAIN sections
        /\ e[i] \in Nat /\ e[i] >= 1 /\ LastAt(e, i) <= Len(frags)
        /\ frags[e[i]].id = islands[i].entry
        /\ islands[i].exit = IF LastAt(e, i) < Len(frags) THEN frags[LastAt(e, i) + 1].id ELSE 0
        /\ \A j \in DOMAIN islands[i].stubs : frags[e[i] + 2 * j].id = islands[i].stubs[j].id
Ordered(e) ==
    \A i, k \in DOMAIN islands : i < k /\ islands[i].section = islands[k].section => LastAt(e, i) < e[k]

(* Fragments are chained, but for the exit of an island with stubs.          *)
BrokenAt(e, s, p) ==
    \E i \in DOMAIN islands :
        /\ islands[i].section = s /\ islands[i].stubs # <<>> /\ p = LastAt(e, i) + 1
        /\ sections[s].frags[p].at < EndOfFragment(sections[s].frags[p - 1])
Breaks(e) ==
    \A s \in DOMAIN sections : \A p \in DOMAIN sections[s].frags :
        ChainedAt(sections[s].frags, p) \/ BrokenAt(e, s, p)
AllChained == \A s \in DOMAIN sections : \A p \in DOMAIN sections[s].frags : ChainedAt(sections[s].frags, p)
Fits(e) ==
    \A i \in DOMAIN islands : islands[i].stubs # <<>> =>
        LET frags == sections[islands[i].section].frags
        IN  EndOfFragment(frags[LastAt(e, i)]) - frags[e[i] + 1].at <= StubGroupSize
Laid(e) ==
    /\ \A i \in DOMAIN islands : PlacedAt(e, i)
    /\ Ordered(e) /\ Breaks(e)
    /\ phase = "done" /\ ~failed => AllChained /\ Fits(e)

LayoutInv == SectionsInv /\ IdsInv /\ ReachInv /\ \E e : Laid(e)

LEMMA FragsTyped ==
  ASSUME SectionsInv, NEW s \in DOMAIN sections
  PROVE  /\ sections[s] \in SectionType /\ sections[s].frags \in Seq(FragType) /\ sections[s].frags # <<>>
         /\ sections[s].size \in Nat /\ sections[s].addr \in Nat
         /\ \A p \in DOMAIN sections[s].frags : sections[s].frags[p] \in FragType
<1>1. sections[s] \in SectionType
  BY DEF SectionsInv
<1>2. sections[s].frags \in Seq(FragType) /\ sections[s].frags # <<>>
      /\ sections[s].size \in Nat /\ sections[s].addr \in Nat
  BY <1>1, SectionFields
<1>3. \A p \in DOMAIN sections[s].frags : sections[s].frags[p] \in FragType
  BY <1>2
<1> QED BY <1>1, <1>2, <1>3

(* A fragment is found by its id.                                            *)
LEMMA FragmentIs ==
  ASSUME SectionsInv, IdsInv, NEW s \in DOMAIN sections, NEW p \in DOMAIN sections[s].frags
  PROVE  LET id == sections[s].frags[p].id
         IN  /\ SectionWith(id) = s /\ Position(sections[s].frags, id) = p
             /\ Fragment(id) = sections[s].frags[p]
<1> DEFINE id == sections[s].frags[p].id
<1>1. \A t \in DOMAIN sections : \A q \in DOMAIN sections[t].frags : sections[t].frags[q].id = id => t = s /\ q = p
  BY DEF IdsInv
<1>2. SectionWith(id) = s
  <2> DEFINE Has(t) == \E i \in DOMAIN sections[t].frags : sections[t].frags[i].id = id
  <2>1. Has(s) /\ \A t \in DOMAIN sections : Has(t) => t = s
    BY <1>1
  <2>2. SectionWith(id) = CHOOSE t \in DOMAIN sections : Has(t)
    BY DEF SectionWith
  <2> HIDE DEF Has
  <2> QED BY <2>1, <2>2
<1>3. Position(sections[s].frags, id) = p
  <2>1. sections[s].frags \in Seq(FragType)
    BY FragsTyped
  <2>2. \A q \in DOMAIN sections[s].frags : sections[s].frags[q].id = sections[s].frags[p].id => q = p
    BY <1>1
  <2> QED BY <2>1, <2>2, PositionIs
<1> HIDE DEF id
<1>4. Fragment(id) = sections[s].frags[p]
  BY <1>2, <1>3 DEF Fragment
<1> QED BY <1>2, <1>3, <1>4 DEF id

(* The places of an island.                                                  *)
LEMMA IslandIs ==
  ASSUME IslandsInv, SectionsInv, IdsInv, NEW e, NEW i \in DOMAIN islands, PlacedAt(e, i)
  PROVE  LET s == islands[i].section
             frags == sections[s].frags
             n == Len(islands[i].stubs)
         IN  /\ s \in DOMAIN sections /\ frags \in Seq(FragType) /\ n \in Nat
             /\ LastAt(e, i) = e[i] + 2 * n /\ LastAt(e, i) \in DOMAIN frags /\ LastAt(e, i) >= e[i]
             /\ e[i] \in DOMAIN frags /\ e[i] \in Nat /\ e[i] >= 1
             /\ Position(frags, islands[i].entry) = e[i]
             /\ Offset(islands[i]) = EndOfFragment(frags[e[i]])
             /\ islands[i].exit = 0 <=> LastAt(e, i) = Len(frags)
             /\ islands[i].exit # 0 =>
                   /\ LastAt(e, i) + 1 \in DOMAIN frags
                   /\ Position(frags, islands[i].exit) = LastAt(e, i) + 1
                   /\ Fragment(islands[i].exit) = frags[LastAt(e, i) + 1]
             /\ islands[i].stubs # <<>> =>
                   /\ n >= 1 /\ e[i] + 1 \in DOMAIN frags
                   /\ Size(islands[i]) = EndOfFragment(frags[LastAt(e, i)]) - frags[e[i] + 1].at
<1> DEFINE s == islands[i].section
           frags == sections[s].frags
           n == Len(islands[i].stubs)
<1>1. s \in DOMAIN sections
  BY DEF PlacedAt
<1>2. frags \in Seq(FragType) /\ DOMAIN frags = 1..Len(frags) /\ Len(frags) \in Nat
  BY <1>1, FragsTyped
<1>3. islands[i].stubs \in Seq(Stubs) /\ n \in Nat /\ DOMAIN islands[i].stubs = 1..n
  BY StubIn
<1>4. /\ e[i] \in Nat /\ e[i] >= 1 /\ LastAt(e, i) <= Len(frags)
      /\ frags[e[i]].id = islands[i].entry
      /\ islands[i].exit = IF LastAt(e, i) < Len(frags) THEN frags[LastAt(e, i) + 1].id ELSE 0
      /\ \A j \in 1..n : frags[e[i] + 2 * j].id = islands[i].stubs[j].id
  BY <1>3 DEF PlacedAt
<1>5. LastAt(e, i) = e[i] + 2 * n
  BY DEF LastAt
<1>6. \A p \in DOMAIN frags : /\ frags[p].id >= 1 /\ frags[p].id \in Nat
                              /\ SectionWith(frags[p].id) = s /\ Position(frags, frags[p].id) = p
                              /\ Fragment(frags[p].id) = frags[p]
  BY <1>1, FragmentIs DEF IdsInv
<1> HIDE DEF frags, n, s
<1>7. e[i] \in DOMAIN frags /\ LastAt(e, i) \in DOMAIN frags /\ LastAt(e, i) >= e[i]
  BY <1>2, <1>3, <1>4, <1>5
<1>8. Position(frags, islands[i].entry) = e[i] /\ Fragment(islands[i].entry) = frags[e[i]]
  BY <1>4, <1>6, <1>7
<1>9. Offset(islands[i]) = EndOfFragment(frags[e[i]])
  BY <1>8 DEF Offset
<1>10. LastAt(e, i) < Len(frags) => LastAt(e, i) + 1 \in DOMAIN frags
  BY <1>2, <1>7
<1>11. islands[i].exit = 0 <=> LastAt(e, i) = Len(frags)
  <2>1. LastAt(e, i) < Len(frags) => islands[i].exit # 0
    BY <1>4, <1>6, <1>10
  <2> QED BY <2>1, <1>2, <1>4, <1>7
<1>12. islands[i].exit # 0 =>
                   /\ LastAt(e, i) + 1 \in DOMAIN frags
                   /\ Position(frags, islands[i].exit) = LastAt(e, i) + 1
                   /\ Fragment(islands[i].exit) = frags[LastAt(e, i) + 1]
  <2>1. islands[i].exit # 0 => LastAt(e, i) < Len(frags) /\ islands[i].exit = frags[LastAt(e, i) + 1].id
    BY <1>4
  <2> QED BY <2>1, <1>6, <1>10
<1>13. ASSUME islands[i].stubs # <<>>
       PROVE  /\ n >= 1 /\ e[i] + 1 \in DOMAIN frags
              /\ Size(islands[i]) = EndOfFragment(frags[LastAt(e, i)]) - frags[e[i] + 1].at
  <2>1. n >= 1
    BY <1>3, <1>13 DEF n
  <2>2. e[i] + 1 \in DOMAIN frags
    BY <2>1, <1>2, <1>3, <1>4, <1>5
  <2>3. islands[i].stubs[n].id = frags[LastAt(e, i)].id
    BY <2>1, <1>3, <1>4, <1>5
  <2>4. Fragment(islands[i].stubs[n].id) = frags[LastAt(e, i)]
    BY <2>3, <1>6, <1>7
  <2>5. Size(islands[i]) = EndOfFragment(frags[LastAt(e, i)]) - frags[e[i] + 1].at
    BY <2>4, <1>8, <1>13 DEF Size, n, frags, s
  <2> QED BY <2>1, <2>2, <2>5
<1> QED BY <1>1, <1>2, <1>3, <1>4, <1>5, <1>7, <1>8, <1>9, <1>11, <1>12, <1>13 DEF frags, n, s

LEMMA InitLayout ==
  ASSUME Init, \A program \in Programs : PaddingInReach(program)
  PROVE  LayoutInv
<1>1. PICK program \in Programs : Starts(program)
  BY InitStarts
<1>2. islands = <<>> /\ phase = "group" /\ DOMAIN islands = {}
  BY DEF Init
<1>3. Stubs = {} /\ StubIds = {} /\ Cardinality(StubIds) = 0
  BY <1>2, NoStubs
<1> DEFINE written == program.sections
<1>4. written \in Seq(Seq(InputFragment) \ {<<>>})
  BY IslandAssumption DEF Wellformed
<1>5. \A s, t \in DOMAIN written : \A p \in DOMAIN written[s], q \in DOMAIN written[t] :
         written[s][p].id = written[t][q].id => s = t /\ p = q
  BY IslandAssumption DEF Wellformed
<1> HIDE DEF written
<1>6. DOMAIN sections = DOMAIN written /\ SectionsInv
  BY <1>1 DEF Starts, SectionsInv, written
<1>7. ASSUME NEW s \in DOMAIN sections
      PROVE  /\ Is(sections[s].frags, written[s], 0)
             /\ written[s] \in Seq(FragType) /\ DOMAIN sections[s].frags = DOMAIN written[s]
             /\ \A p \in DOMAIN written[s] : written[s][p].id \in 1..FirstStub
  <2>1. written[s] \in Seq(InputFragment) \ {<<>>}
    BY <1>4, <1>6
  <2>2. written[s] \in Seq(FragType) /\ \A p \in DOMAIN written[s] : written[s][p].id \in 1..FirstStub
    BY <2>1, InputTyped
  <2>3. sections[s].frags = Chain(written[s], 0)
    BY <1>1 DEF Starts, written
  <2>4. Is(sections[s].frags, written[s], 0)
    BY <2>2, <2>3, ChainIs
  <2>5. sections[s].frags \in Seq(FragType) /\ Len(sections[s].frags) = Len(written[s])
    BY <2>4 DEF Is
  <2> QED BY <2>2, <2>4, <2>5
<1>8. \A s \in DOMAIN sections : \A p \in DOMAIN sections[s].frags :
         /\ sections[s].frags[p].id = written[s][p].id /\ p \in DOMAIN written[s]
         /\ ChainedAt(sections[s].frags, p)
  BY <1>7 DEF Is, ChainedAt
<1>9. IdsInv
  <2>1. \A s \in DOMAIN sections : \A p \in DOMAIN sections[s].frags :
           /\ sections[s].frags[p].id \in Nat /\ sections[s].frags[p].id >= 1
           /\ sections[s].frags[p].id <= FirstStub + 2 * Cardinality(StubIds)
    <3>1. \A s \in DOMAIN sections : \A p \in DOMAIN sections[s].frags : sections[s].frags[p].id \in 1..FirstStub
      BY <1>7, <1>8
    <3>2. \A x \in 1..FirstStub : x \in Nat /\ x >= 1 /\ x <= FirstStub + 2 * Cardinality(StubIds)
      BY <1>3 DEF FirstStub
    <3> QED BY <3>1, <3>2
  <2> QED BY <2>1, <1>5, <1>6, <1>8 DEF IdsInv
<1>10. ReachInv
  <2>1. \A s \in DOMAIN sections : sections[s].frags = Chain(written[s], 0)
    BY <1>1 DEF Starts, written
  <2>2. PaddingInReach(program)
    OBVIOUS
  <2> QED BY <2>1, <2>2, <1>6 DEF ReachInv, Reachable, PaddingInReach, written
<1>11. Laid([i \in {} |-> 0])
  <2> DEFINE e == [i \in {} |-> 0]
  <2> HIDE DEF e
  <2>1. Laid(e)
    BY <1>2, <1>8 DEF Laid, Ordered, Breaks
  <2> QED BY <2>1 DEF e
<1> QED BY <1>6, <1>9, <1>10, <1>11 DEF LayoutInv

LEMMA QuietLayout ==
  ASSUME LayoutInv, UNCHANGED <<sections, islands>>, phase' = "group" => phase = "group",
         phase' = "done" /\ ~failed' => phase = "done" /\ ~failed
  PROVE  LayoutInv'
<1>1. PICK e : Laid(e)
  BY DEF LayoutInv
<1>2. Stubs' = Stubs
  BY DEF Stubs
<1>3. StubIds' = StubIds
  BY <1>2 DEF StubIds
<1>4. SectionsInv' /\ IdsInv' /\ ReachInv'
  BY <1>3 DEF LayoutInv, SectionsInv, IdsInv, ReachInv
<1>6. (\A i \in DOMAIN islands' : PlacedAt(e, i)') /\ Ordered(e)' /\ Breaks(e)'
  <2>1. \A i \in DOMAIN islands : PlacedAt(e, i)'
    BY <1>1 DEF Laid, PlacedAt, LastAt
  <2>2. Ordered(e)'
    BY <1>1 DEF Laid, Ordered, LastAt
  <2>3. Breaks(e)'
    BY <1>1 DEF Laid, Breaks, BrokenAt, LastAt
  <2> QED BY <2>1, <2>2, <2>3
<1>7. phase' = "done" /\ ~failed' => AllChained' /\ Fits(e)'
  BY <1>1 DEF Laid, AllChained, Fits, LastAt
<1>8. Laid(e)'
  BY <1>6, <1>7 DEF Laid
<1> QED BY <1>4, <1>8 DEF LayoutInv

LEMMA GroupLayout ==
  ASSUME BaseInv, LayoutInv, Group
  PROVE  LayoutInv'
<1>1. sections \in Seq(SectionType) /\ islands = <<>> /\ phase = "group"
  BY DEF BaseInv, GroupInv, Group
<1>2. DOMAIN sections = 1..Len(sections) /\ Len(sections) \in Nat /\ sections' = sections /\ phase' = "branches"
  BY <1>1 DEF Group
<1>3. \A s \in 1..Len(sections) : sections[s].frags \in Seq(FragType) /\ sections[s].frags # <<>>
  <2>1. \A s \in 1..Len(sections) : sections[s] \in SectionType
    BY <1>1
  <2> QED BY <2>1, SectionFields
<1>4. PICK e : Grouped(islands', e, Len(sections))
  BY <1>2, <1>3, AllGrouped DEF Group
<1> DEFINE P == UNION {{Produce(s, p) : p \in DOMAIN sections[s].frags} : s \in DOMAIN sections}
<1>5. islands' \in Seq(P) /\ DOMAIN islands' = 1..Len(islands')
  BY <1>4 DEF Grouped
<1>6. \A i \in DOMAIN islands' :
         /\ islands'[i].section \in DOMAIN sections
         /\ e[i] \in Nat /\ e[i] \in DOMAIN sections[islands'[i].section].frags
         /\ islands'[i] = Produce(islands'[i].section, e[i])
  BY <1>2, <1>4, <1>5 DEF Grouped
<1> HIDE DEF P
<1>7. ASSUME NEW i \in DOMAIN islands'
      PROVE  LET frags == sections[islands'[i].section].frags
             IN  /\ islands'[i].entry = frags[e[i]].id
                 /\ islands'[i].exit = IF e[i] < Len(frags) THEN frags[e[i] + 1].id ELSE 0
                 /\ islands'[i].stubs = <<>>
  BY <1>6 DEF Produce
<1>8. \A i \in DOMAIN islands' : ToSet(islands'[i].stubs) = {}
  BY <1>7 DEF ToSet
<1>9. Stubs' = {}
  BY <1>8 DEF Stubs
<1>10. StubIds' = {} /\ StubIds = {}
  BY <1>1, <1>9, NoStubs DEF StubIds
<1>11. SectionsInv' /\ IdsInv' /\ ReachInv'
  BY <1>2, <1>10 DEF LayoutInv, SectionsInv, IdsInv, ReachInv
<1>12. \A i \in DOMAIN islands' : LastAt(e, i)' = e[i]
  <2> SUFFICES ASSUME NEW i \in DOMAIN islands' PROVE LastAt(e, i)' = e[i]
    OBVIOUS
  <2>1. e[i] \in Nat /\ Len(islands'[i].stubs) = 0
    BY <1>6, <1>7
  <2> QED BY <2>1 DEF LastAt
<1>13. ASSUME NEW i \in DOMAIN islands'
       PROVE  PlacedAt(e, i)'
  <2> DEFINE s == islands'[i].section
             frags == sections[s].frags
  <2>1. s \in DOMAIN sections' /\ e[i] \in Nat /\ e[i] \in DOMAIN frags /\ frags \in Seq(FragType)
    BY <1>2, <1>3, <1>6
  <2>2. e[i] >= 1 /\ e[i] <= Len(frags)
    <3> HIDE DEF frags
    <3> QED BY <2>1
  <2>3. \A j \in DOMAIN islands'[i].stubs : frags[e[i] + 2 * j].id = islands'[i].stubs[j].id
    BY <1>7
  <2>4. sections'[s].frags = frags
    BY <1>2
  <2> QED BY <2>1, <2>2, <2>3, <2>4, <1>7, <1>12 DEF PlacedAt
<1>14. Ordered(e)'
  <2>1. ASSUME NEW i \in DOMAIN islands', NEW k \in DOMAIN islands', i < k, islands'[i].section = islands'[k].section
        PROVE  e[i] < e[k]
    <3>1. Reachable(sections[islands'[k].section].frags)
      BY <1>1, <1>6 DEF LayoutInv, ReachInv
    <3> QED BY <3>1, <2>1, <1>4, <1>5 DEF Grouped
  <2> QED BY <2>1, <1>12 DEF Ordered
<1>15. Breaks(e)'
  <2>1. PICK d : Breaks(d)
    BY DEF LayoutInv, Laid
  <2>2. \A s \in DOMAIN sections : \A p \in DOMAIN sections[s].frags : ChainedAt(sections[s].frags, p)
    BY <2>1, <1>1 DEF Breaks, BrokenAt
  <2> QED BY <2>2, <1>2 DEF Breaks
<1>16. Laid(e)'
  BY <1>2, <1>13, <1>14, <1>15 DEF Laid
<1> QED BY <1>11, <1>16 DEF LayoutInv

(* Between the entry and the exit of an island fragments are chained.        *)
LEMMA ChainedInside ==
  ASSUME IslandsInv, SectionsInv, IdsInv, NEW e, Laid(e), NEW i \in DOMAIN islands,
         NEW q \in DOMAIN sections[islands[i].section].frags, e[i] < q, q <= LastAt(e, i)
  PROVE  ChainedAt(sections[islands[i].section].frags, q)
<1> DEFINE s == islands[i].section
<1>1. s \in DOMAIN sections /\ e[i] \in Nat /\ LastAt(e, i) \in Nat /\ q \in Nat
  <2>1. s \in DOMAIN sections /\ LastAt(e, i) \in DOMAIN sections[s].frags /\ e[i] \in Nat
        /\ sections[s].frags \in Seq(FragType)
    BY IslandIs DEF Laid
  <2> QED BY <2>1
<1>2. ASSUME NEW k \in DOMAIN islands, islands[k].section = s, q = LastAt(e, k) + 1 PROVE FALSE
  <2>1. LastAt(e, k) \in Nat /\ e[k] \in Nat /\ LastAt(e, k) >= e[k]
    <3>1. LastAt(e, k) \in DOMAIN sections[s].frags /\ LastAt(e, k) >= e[k] /\ e[k] \in Nat
          /\ sections[s].frags \in Seq(FragType)
      BY <1>2, IslandIs DEF Laid
    <3> QED BY <3>1
  <2>2. i \in Nat /\ k \in Nat
    BY DEF IslandsInv
  <2>3. k < i => LastAt(e, k) < e[i]
    BY <1>2 DEF Laid, Ordered
  <2>4. i < k => LastAt(e, i) < e[k]
    BY <1>2 DEF Laid, Ordered
  <2> QED BY <1>1, <1>2, <2>1, <2>2, <2>3, <2>4
<1>3. ~BrokenAt(e, s, q)
  BY <1>2 DEF BrokenAt
<1> QED BY <1>1, <1>3 DEF Laid, Breaks

(* An exit that is not where the island ends is overrun by it.               *)
LEMMA BrokenOverruns ==
  ASSUME IslandsInv, SectionsInv, IdsInv, NEW e, Laid(e), NEW i \in DOMAIN islands, islands[i].stubs # <<>>,
         LastAt(e, i) + 1 \in DOMAIN sections[islands[i].section].frags,
         sections[islands[i].section].frags[LastAt(e, i) + 1].at
            < EndOfFragment(sections[islands[i].section].frags[LastAt(e, i)])
  PROVE  Overruns(i)
<1> DEFINE frags == sections[islands[i].section].frags
           last == LastAt(e, i)
<1>0. PlacedAt(e, i)
  BY DEF Laid
<1>1. /\ frags \in Seq(FragType) /\ e[i] \in Nat /\ e[i] >= 1 /\ e[i] \in DOMAIN frags /\ last \in DOMAIN frags
      /\ Offset(islands[i]) = EndOfFragment(frags[e[i]])
      /\ islands[i].exit = 0 <=> last = Len(frags)
      /\ islands[i].exit # 0 => Fragment(islands[i].exit) = frags[last + 1]
      /\ e[i] + 1 \in DOMAIN frags /\ last = e[i] + 2 * Len(islands[i].stubs) /\ Len(islands[i].stubs) \in Nat
      /\ Len(islands[i].stubs) >= 1
      /\ Size(islands[i]) = EndOfFragment(frags[last]) - frags[e[i] + 1].at
  BY <1>0, IslandIs
<1>2. islands[i].exit # 0
  <2>1. last + 1 \in DOMAIN frags
    OBVIOUS
  <2> HIDE DEF frags, last
  <2>2. last # Len(frags)
    BY <1>1, <2>1
  <2> QED BY <1>1, <2>2
<1>3. ChainedAt(frags, e[i] + 1)
  <2>1. e[i] < e[i] + 1 /\ e[i] + 1 <= last
    <3> DEFINE n == Len(islands[i].stubs)
    <3>1. e[i] \in Nat /\ n \in Nat /\ n >= 1 /\ last = e[i] + 2 * n
      BY <1>1
    <3> HIDE DEF last, n
    <3> QED BY <3>1
  <2>2. e[i] + 1 \in DOMAIN frags
    BY <1>1
  <2> QED BY <2>1, <2>2, ChainedInside
<1>a. /\ last + 1 \in DOMAIN frags /\ frags[last + 1].at < EndOfFragment(frags[last])
      /\ islands[i].stubs # <<>>
  OBVIOUS
<1> HIDE DEF frags, last
<1>4. frags[e[i] + 1].at = EndOfFragment(frags[e[i]])
  <2>1. e[i] + 1 # 1 /\ (e[i] + 1) - 1 = e[i]
    BY <1>1
  <2> QED BY <1>3, <2>1 DEF ChainedAt
<1>5. EndOfFragment(frags[e[i]]) \in Nat /\ EndOfFragment(frags[last]) \in Nat /\ frags[last + 1].at \in Nat
  <2>1. frags[e[i]] \in FragType /\ frags[last] \in FragType /\ frags[last + 1] \in FragType
    BY <1>1, <1>a
  <2> QED BY <2>1, EndNat DEF FragType
<1>6. Offset(islands[i]) + Size(islands[i]) = EndOfFragment(frags[last])
  BY <1>1, <1>4, <1>5
<1> QED BY <1>a, <1>1, <1>2, <1>5, <1>6 DEF Overruns

LEMMA LookedIs ==
  ASSUME IslandsInv, ~(Looked < Len(islands))
  PROVE  Looked = Len(islands) /\ \A i \in DOMAIN islands : ~TooLarge(i)
<1>1. DOMAIN islands = 1..Len(islands) /\ Len(islands) \in Nat
  BY DEF IslandsInv
<1> DEFINE seq == [i \in DOMAIN islands |-> i]
           I == {i \in 1..Len(seq) : TooLarge(seq[i])}
<1>2. Len(seq) = Len(islands)
  BY <1>1
<1>3. I \subseteq DOMAIN islands /\ I \in SUBSET Nat
  BY <1>1, <1>2
<1>4. SelectInSeq(seq, LAMBDA i : TooLarge(i)) = IF I # {} THEN Min(I) ELSE 0
  BY DEF SelectInSeq
<1>5. I # {} => Min(I) \in I
  <2> HIDE DEF I
  <2> QED BY <1>3, MinOf
<1>6. (\E i \in DOMAIN islands : TooLarge(i)) => Looked = (IF I # {} THEN Min(I) ELSE 0) - 1
  BY <1>4 DEF Looked
<1> HIDE DEF I
<1>7. ASSUME \E i \in DOMAIN islands : TooLarge(i) PROVE FALSE
  <2>1. (IF I # {} THEN Min(I) ELSE 0) \in 0..Len(islands)
    BY <1>1, <1>3, <1>5
  <2>2. Looked < Len(islands)
    BY <1>1, <1>6, <1>7, <2>1
  <2> QED BY <2>2
<1> QED BY <1>7 DEF Looked

(* Fragments placed anew from the p-th on.                                   *)
Rechained(frags, p) == SubSeq(frags, 1, p - 1) \o Chain(SubSeq(frags, p, Len(frags)), EndOfFragment(frags[p - 1]))

SameButPlaces(new, frags) ==
    /\ new \in Seq(FragType) /\ Len(new) = Len(frags)
    /\ \A q \in DOMAIN frags : new[q].id = frags[q].id

LEMMA RechainedIs ==
  ASSUME NEW frags \in Seq(FragType), NEW p \in 2..Len(frags)
  PROVE  LET new == Rechained(frags, p)
         IN  /\ SameButPlaces(new, frags)
             /\ \A q \in 1..(p - 1) : new[q] = frags[q]
             /\ \A q \in p..Len(frags) : new[q].at = EndOfFragment(new[q - 1])
<1> DEFINE a == SubSeq(frags, 1, p - 1)
           b == SubSeq(frags, p, Len(frags))
           start == EndOfFragment(frags[p - 1])
           c == Chain(b, start)
           new == a \o c
<1>0. Len(frags) \in Nat /\ DOMAIN frags = 1..Len(frags) /\ p \in Nat /\ p >= 2 /\ p <= Len(frags)
  OBVIOUS
<1>1. a \in Seq(FragType) /\ Len(a) = p - 1 /\ \A q \in 1..(p - 1) : a[q] = frags[q]
  BY <1>0
<1>2. b \in Seq(FragType) /\ Len(b) = Len(frags) - p + 1 /\ \A q \in 1..(Len(frags) - p + 1) : b[q] = frags[q + p - 1]
  BY <1>0
<1>3. start \in Nat
  <2>1. frags[p - 1] \in FragType
    BY <1>0
  <2> QED BY <2>1, EndNat
<1> HIDE DEF a, b, start
<1>4. Is(c, b, start)
  BY <1>2, <1>3, ChainIs
<1> HIDE DEF c
<1>5. /\ c \in Seq(FragType) /\ Len(c) = Len(frags) - p + 1
      /\ \A q \in 1..(Len(frags) - p + 1) : /\ c[q].id = frags[q + p - 1].id
                                            /\ c[q].at = IF q = 1 THEN start ELSE EndOfFragment(c[q - 1])
  <2>1. DOMAIN b = 1..(Len(frags) - p + 1)
    BY <1>2, <1>0
  <2> QED BY <1>2, <1>4, <2>1 DEF Is
<1>6. /\ new \in Seq(FragType) /\ Len(new) = Len(frags)
      /\ \A q \in 1..Len(frags) : new[q] = IF q < p THEN a[q] ELSE c[q - p + 1]
  <2>1. /\ new \in Seq(FragType) /\ Len(new) = Len(a) + Len(c)
        /\ \A q \in 1..(Len(a) + Len(c)) : new[q] = IF q <= Len(a) THEN a[q] ELSE c[q - Len(a)]
    <3>1. a \in Seq(FragType) /\ c \in Seq(FragType)
      BY <1>1, <1>5
    <3> QED BY <3>1, ConcatIs
  <2>2. Len(a) = p - 1 /\ Len(a) + Len(c) = Len(frags)
    BY <1>0, <1>1, <1>5
  <2>3. \A q \in 1..Len(frags) : (q <= p - 1 <=> q < p) /\ q - (p - 1) = q - p + 1
    BY <1>0
  <2> HIDE DEF new
  <2> QED BY <2>1, <2>2, <2>3
<1> HIDE DEF new
<1>7. \A q \in 1..(p - 1) : new[q] = frags[q]
  BY <1>0, <1>1, <1>6
<1>8. ASSUME NEW q \in p..Len(frags)
      PROVE  new[q].id = frags[q].id /\ new[q].at = EndOfFragment(new[q - 1])
  <2>1. q - p + 1 \in 1..(Len(frags) - p + 1) /\ q \in 1..Len(frags) /\ ~(q < p) /\ (q - p + 1) + p - 1 = q
    BY <1>0
  <2>2. new[q] = c[q - p + 1] /\ c[q - p + 1].id = frags[q].id
    BY <1>5, <1>6, <2>1
  <2>3. CASE q = p
    <3>1. c[1].at = start /\ q - p + 1 = 1
      BY <1>0, <1>5, <2>1, <2>3
    <3>2. new[q - 1] = frags[p - 1]
      BY <1>0, <1>7, <2>3
    <3> QED BY <2>2, <3>1, <3>2 DEF start
  <2>4. CASE q # p
    <3>1. q - 1 \in 1..Len(frags) /\ ~(q - 1 < p) /\ q - p + 1 # 1 /\ (q - 1) - p + 1 = (q - p + 1) - 1
      BY <1>0, <2>4
    <3>2. c[q - p + 1].at = EndOfFragment(c[(q - p + 1) - 1])
      BY <1>5, <2>1, <3>1
    <3>3. new[q - 1] = c[(q - 1) - p + 1]
      BY <1>6, <3>1
    <3> QED BY <2>2, <3>1, <3>2, <3>3
  <2> QED BY <2>2, <2>3, <2>4
<1>9. ASSUME NEW q \in DOMAIN frags PROVE new[q].id = frags[q].id
  <2>1. q \in 1..(p - 1) \/ q \in p..Len(frags)
    BY <1>0
  <2> QED BY <2>1, <1>7, <1>8
<1> QED BY <1>6, <1>7, <1>8, <1>9 DEF new, c, a, b, start, Rechained, SameButPlaces

(* The fragments of a section after its offsets have been reset.             *)
LEMMA ResetIs ==
  ASSUME IslandsInv, SectionsInv, IdsInv, NEW e, Laid(e), NEW s \in DOMAIN sections,
         NEW T, T \subseteq {i \in DOMAIN islands : islands[i].section = s /\ islands[i].exit # 0},
         \A i \in DOMAIN islands : islands[i].section = s /\ Overruns(i) => i \in T
  PROVE  LET new == ResetOffsets(s, T)
         IN  /\ SameButPlaces(new, sections[s].frags)
             /\ \A p \in DOMAIN sections[s].frags : ChainedAt(new, p)
             /\ T = {} => new = sections[s].frags
<1> DEFINE frags == sections[s].frags
           new == ResetOffsets(s, T)
<1>1. frags \in Seq(FragType) /\ Len(frags) \in Nat /\ DOMAIN frags = 1..Len(frags)
  BY FragsTyped
<1>2. ASSUME NEW p \in DOMAIN frags, ~ChainedAt(frags, p)
      PROVE  \E i \in T : p = LastAt(e, i) + 1
  <2>1. BrokenAt(e, s, p)
    BY <1>2 DEF Laid, Breaks
  <2>2. PICK i \in DOMAIN islands : /\ islands[i].section = s /\ islands[i].stubs # <<>> /\ p = LastAt(e, i) + 1
                                    /\ frags[p].at < EndOfFragment(frags[p - 1])
    BY <2>1 DEF BrokenAt
  <2>3. LastAt(e, i) \in DOMAIN frags
    BY <2>2, IslandIs DEF Laid
  <2>4. p - 1 = LastAt(e, i)
    <3> HIDE DEF frags
    <3> QED BY <1>1, <2>2, <2>3
  <2>5. Overruns(i)
    BY <1>2, <2>2, <2>4, BrokenOverruns
  <2> QED BY <2>2, <2>5
<1>3. CASE T = {}
  <2>1. new = frags
    BY <1>3 DEF ResetOffsets
  <2>2. SameButPlaces(new, frags)
    BY <1>1, <2>1 DEF SameButPlaces
  <2> HIDE DEF frags, new
  <2> QED BY <1>2, <1>3, <2>1, <2>2 DEF frags, new
<1>4. CASE T # {}
  <2> DEFINE m == Min(T)
             p == LastAt(e, m) + 1
  <2>1. T \in SUBSET Nat
    BY DEF IslandsInv
  <2>2. m \in T /\ \A i \in T : m <= i
    BY <1>4, <2>1, MinOf
  <2> HIDE DEF m
  <2>3. m \in DOMAIN islands /\ islands[m].section = s /\ islands[m].exit # 0
    BY <2>2
  <2>4. /\ Position(frags, islands[m].exit) = p /\ p \in DOMAIN frags
        /\ LastAt(e, m) >= e[m] /\ e[m] >= 1 /\ e[m] \in Nat /\ LastAt(e, m) \in DOMAIN frags
    BY <2>3, IslandIs DEF Laid
  <2>5. new = Rechained(frags, p)
    BY <1>4, <2>4 DEF ResetOffsets, Rechained, m
  <2>6. p \in 2..Len(frags)
    <3> HIDE DEF frags
    <3> QED BY <1>1, <2>4
  <2> HIDE DEF new
  <2>7. /\ SameButPlaces(new, frags)
        /\ \A q \in 1..(p - 1) : new[q] = frags[q]
        /\ \A q \in p..Len(frags) : new[q].at = EndOfFragment(new[q - 1])
    <3> HIDE DEF frags, p
    <3> QED BY <1>1, <2>5, <2>6, RechainedIs
  <2>8. ASSUME NEW q \in DOMAIN frags PROVE ChainedAt(new, q)
    <3>1. CASE q >= p
      <4>1. q \in p..Len(frags) /\ q # 1
        <5> HIDE DEF frags, p
        <5> QED BY <1>1, <2>6, <3>1
      <4> QED BY <2>7, <4>1 DEF ChainedAt
    <3>2. CASE ~(q >= p)
      <4>1. q \in 1..(p - 1) /\ (q # 1 => q - 1 \in 1..(p - 1)) /\ q \in Nat
        <5> HIDE DEF frags, p
        <5> QED BY <1>1, <2>6, <3>2
      <4>2. new[q] = frags[q] /\ (q # 1 => new[q - 1] = frags[q - 1])
        BY <2>7, <4>1
      <4>3. ChainedAt(frags, q)
        <5> SUFFICES ASSUME ~ChainedAt(frags, q) PROVE FALSE
          OBVIOUS
        <5>1. PICK i \in T : q = LastAt(e, i) + 1
          BY <1>2
        <5>2. i \in DOMAIN islands /\ islands[i].section = s /\ m <= i /\ m \in Nat /\ i \in Nat
          BY <2>2, <2>1, <5>1
        <5>3. m # i => LastAt(e, m) < e[i]
          BY <2>3, <5>2 DEF Laid, Ordered
        <5>4. LastAt(e, i) >= e[i] /\ e[i] \in Nat /\ LastAt(e, i) \in DOMAIN frags
          BY <5>2, IslandIs DEF Laid
        <5>5. LastAt(e, m) \in Nat /\ LastAt(e, i) \in Nat
          <6> HIDE DEF frags
          <6> QED BY <1>1, <2>4, <5>4
        <5>6. m = i \/ LastAt(e, m) < LastAt(e, i)
          BY <5>3, <5>4, <5>5
        <5> QED BY <3>2, <5>1, <5>5, <5>6
      <4> QED BY <4>2, <4>3 DEF ChainedAt
    <3> QED BY <3>1, <3>2
  <2> QED BY <1>4, <2>7, <2>8 DEF new
<1> QED BY <1>3, <1>4

LEMMA SizeNat ==
  ASSUME SectionsInv, NEW s \in DOMAIN sections, NEW new, SameButPlaces(new, sections[s].frags)
  PROVE  /\ ResetSize(s, new) \in Nat
         /\ [sections[s] EXCEPT !.frags = new, !.size = ResetSize(s, new)] \in SectionType
         /\ [sections[s] EXCEPT !.frags = new, !.size = ResetSize(s, new)].frags = new
<1> DEFINE size == ResetSize(s, new)
<1>1. new \in Seq(FragType) /\ new # <<>> /\ Len(new) \in DOMAIN new
  <2>1. sections[s].frags \in Seq(FragType) /\ sections[s].frags # <<>>
    BY FragsTyped
  <2>2. new \in Seq(FragType) /\ Len(new) = Len(sections[s].frags)
    BY DEF SameButPlaces
  <2> QED BY <2>1, <2>2
<1>2. EndOfFragment(new[Len(new)]) \in Nat
  BY <1>1, EndNat
<1>3. size \in Nat
  BY <1>2, FragsTyped DEF ResetSize
<1> HIDE DEF size
<1>4. sections[s] \in SectionType
  BY FragsTyped
<1>5. [sections[s] EXCEPT !.frags = new, !.size = size] \in SectionType
      /\ [sections[s] EXCEPT !.frags = new, !.size = size].frags = new
  <2>1. new \in Seq(FragType) \ {<<>>}
    BY <1>1
  <2> DEFINE F == Seq(FragType) \ {<<>>}
  <2> HIDE DEF F
  <2>2. SectionType = [addr : Nat, size : Nat, frags : F]
    BY DEF SectionType, F
  <2> QED BY <2>1, <2>2, <1>3, <1>4 DEF F
<1> QED BY <1>3, <1>5 DEF size

LEMMA CheckLayout ==
  ASSUME BaseInv, LayoutInv, CheckIslands
  PROVE  LayoutInv'
<1>1. IslandsInv /\ SectionsInv /\ IdsInv /\ phase = "branches"
  BY DEF BaseInv, LayoutInv, CheckIslands
<1>2. PICK e : Laid(e)
  BY DEF LayoutInv
<1>3. UNCHANGED <<islands, symbols, branches, syms>> /\ phase' # "group"
  BY DEF CheckIslands
<1>4. Stubs' = Stubs /\ StubIds' = StubIds
  <2>1. Stubs' = Stubs
    BY <1>3 DEF Stubs
  <2> QED BY <2>1 DEF StubIds
<1>5. CASE Looked < Len(islands)
  <2>1. failed' = TRUE /\ UNCHANGED sections
    BY <1>5 DEF CheckIslands
  <2> QED BY <1>3, <2>1, QuietLayout
<1>6. CASE ~(Looked < Len(islands))
  <2> DEFINE invalid == {i \in 1..Looked : Overruns(i)}
             T(s) == {i \in invalid : islands[i].section = s}
             Reset(s) == [sections[s] EXCEPT !.frags = ResetOffsets(s, T(s)),
                                             !.size = ResetSize(s, ResetOffsets(s, T(s)))]
             reset == [s \in DOMAIN sections |-> Reset(s)]
  <2>1. /\ sections' = (IF isRelaxed THEN SetAddresses(reset) ELSE reset) /\ UNCHANGED failed
        /\ phase' = IF invalid = {} THEN "done" ELSE "branches"
    BY <1>6 DEF CheckIslands
  <2>2. Looked = Len(islands) /\ \A i \in DOMAIN islands : ~TooLarge(i)
    BY <1>1, <1>6, LookedIs
  <2>3. DOMAIN islands = 1..Looked
    BY <1>1, <2>2 DEF IslandsInv
  <2>4. \A i \in invalid : i \in DOMAIN islands /\ islands[i].exit # 0
    BY <2>3 DEF Overruns
  <2>5. \A i \in DOMAIN islands : Overruns(i) => i \in invalid
    BY <2>3
  <2> HIDE DEF invalid
  <2>6. ASSUME NEW s \in DOMAIN sections
        PROVE  /\ SameButPlaces(ResetOffsets(s, T(s)), sections[s].frags)
               /\ \A p \in DOMAIN sections[s].frags : ChainedAt(ResetOffsets(s, T(s)), p)
               /\ invalid = {} => ResetOffsets(s, T(s)) = sections[s].frags
               /\ Reset(s) \in SectionType /\ Reset(s).frags = ResetOffsets(s, T(s))
    <3> DEFINE U == T(s)
    <3>1. U \subseteq {i \in DOMAIN islands : islands[i].section = s /\ islands[i].exit # 0}
      BY <2>4
    <3>2. \A i \in DOMAIN islands : islands[i].section = s /\ Overruns(i) => i \in U
      BY <2>5
    <3>3. invalid = {} => U = {}
      OBVIOUS
    <3> HIDE DEF U
    <3> DEFINE new == ResetOffsets(s, U)
    <3>4. /\ SameButPlaces(new, sections[s].frags)
          /\ \A p \in DOMAIN sections[s].frags : ChainedAt(new, p)
          /\ U = {} => new = sections[s].frags
      BY <1>1, <1>2, <3>1, <3>2, ResetIs
    <3> HIDE DEF new
    <3>5. /\ [sections[s] EXCEPT !.frags = new, !.size = ResetSize(s, new)] \in SectionType
          /\ [sections[s] EXCEPT !.frags = new, !.size = ResetSize(s, new)].frags = new
      BY <1>1, <3>4, SizeNat
    <3> QED BY <3>3, <3>4, <3>5 DEF new, U
  <2> HIDE DEF Reset
  <2>7. reset \in Seq(SectionType) /\ DOMAIN reset = DOMAIN sections
        /\ \A s \in DOMAIN sections : reset[s].frags = ResetOffsets(s, T(s))
    <3>1. DOMAIN sections = 1..Len(sections) /\ Len(sections) \in Nat
      BY <1>1 DEF SectionsInv
    <3>2. reset \in [1..Len(sections) -> SectionType]
      BY <2>6, <3>1
    <3>3. reset \in Seq(SectionType)
      BY <3>1, <3>2, FunctionSeq
    <3> QED BY <2>6, <3>3
  <2> HIDE DEF reset
  <2>8. /\ sections' \in Seq(SectionType) /\ DOMAIN sections' = DOMAIN sections
        /\ \A s \in DOMAIN sections : sections'[s].frags = ResetOffsets(s, T(s))
    <3>1. CASE isRelaxed
      <4>1. sections' = SetAddresses(reset)
        BY <2>1, <3>1
      <4> QED BY <2>7, <4>1, AddressesSet
    <3>2. CASE ~isRelaxed
      BY <2>1, <2>7, <3>2
    <3> QED BY <3>1, <3>2
  <2>9. \A s \in DOMAIN sections :
           /\ SameButPlaces(sections'[s].frags, sections[s].frags)
           /\ \A p \in DOMAIN sections[s].frags : ChainedAt(sections'[s].frags, p)
           /\ invalid = {} => sections'[s].frags = sections[s].frags
    BY <2>6, <2>8
  <2> HIDE DEF T
  <2>10. \A s \in DOMAIN sections :
           /\ DOMAIN sections'[s].frags = DOMAIN sections[s].frags
           /\ Len(sections'[s].frags) = Len(sections[s].frags)
           /\ \A p \in DOMAIN sections[s].frags : sections'[s].frags[p].id = sections[s].frags[p].id
    <3> SUFFICES ASSUME NEW s \in DOMAIN sections
                 PROVE  /\ DOMAIN sections'[s].frags = DOMAIN sections[s].frags
                        /\ Len(sections'[s].frags) = Len(sections[s].frags)
                        /\ \A p \in DOMAIN sections[s].frags : sections'[s].frags[p].id = sections[s].frags[p].id
      OBVIOUS
    <3>1. sections[s].frags \in Seq(FragType)
      BY <1>1, FragsTyped
    <3>2. SameButPlaces(sections'[s].frags, sections[s].frags)
      BY <2>9
    <3> QED BY <3>1, <3>2 DEF SameButPlaces
  <2>11. SectionsInv' /\ IdsInv' /\ ReachInv'
    <3>1. SectionsInv'
      BY <2>8 DEF SectionsInv
    <3>2. IdsInv'
      <4>1. \A s \in DOMAIN sections : \A p \in DOMAIN sections'[s].frags :
               /\ sections'[s].frags[p].id = sections[s].frags[p].id /\ p \in DOMAIN sections[s].frags
        BY <2>10
      <4>2. Cardinality(StubIds)' = Cardinality(StubIds) /\ DOMAIN sections' = DOMAIN sections
        BY <1>4, <2>8
      <4>3. \A s \in DOMAIN sections' : \A p \in DOMAIN sections'[s].frags :
               /\ sections'[s].frags[p].id \in Nat /\ sections'[s].frags[p].id >= 1
               /\ sections'[s].frags[p].id <= FirstStub + 2 * Cardinality(StubIds)'
        BY <1>1, <4>1, <4>2 DEF IdsInv
      <4>4. \A s, t \in DOMAIN sections' : \A p \in DOMAIN sections'[s].frags, q \in DOMAIN sections'[t].frags :
               sections'[s].frags[p].id = sections'[t].frags[q].id => s = t /\ p = q
        <5>1. \A s, t \in DOMAIN sections : \A p \in DOMAIN sections[s].frags, q \in DOMAIN sections[t].frags :
                 sections[s].frags[p].id = sections[t].frags[q].id => s = t /\ p = q
          BY <1>1 DEF IdsInv
        <5> QED BY <4>1, <4>2, <5>1
      <4> QED BY <4>3, <4>4 DEF IdsInv
    <3>3. ReachInv'
      BY <1>3 DEF ReachInv
    <3> QED BY <3>1, <3>2, <3>3
  <2>12. \A i \in DOMAIN islands : LastAt(e, i)' = LastAt(e, i)
    BY <1>3 DEF LastAt
  <2>13. ASSUME NEW i \in DOMAIN islands' PROVE PlacedAt(e, i)'
    <3> DEFINE s == islands[i].section
    <3>1. PlacedAt(e, i) /\ i \in DOMAIN islands
      BY <1>2, <1>3 DEF Laid
    <3>2. /\ s \in DOMAIN sections /\ e[i] \in DOMAIN sections[s].frags
          /\ LastAt(e, i) < Len(sections[s].frags) => LastAt(e, i) + 1 \in DOMAIN sections[s].frags
      <4>1. /\ s \in DOMAIN sections /\ sections[s].frags \in Seq(FragType) /\ e[i] \in DOMAIN sections[s].frags
            /\ LastAt(e, i) \in DOMAIN sections[s].frags
        BY <1>1, <3>1, IslandIs
      <4> QED BY <4>1
    <3>3. \A j \in DOMAIN islands[i].stubs : e[i] + 2 * j \in DOMAIN sections[s].frags
      <4>1. islands[i].stubs \in Seq(Stubs) /\ sections[s].frags \in Seq(FragType)
        BY <1>1, <3>1, <3>2, StubIn, FragsTyped
      <4>2. LastAt(e, i) = e[i] + 2 * Len(islands[i].stubs) /\ e[i] \in Nat /\ e[i] >= 1
            /\ LastAt(e, i) <= Len(sections[s].frags)
        BY <3>1 DEF LastAt, PlacedAt
      <4> DEFINE m == Len(islands[i].stubs)
                 frags == sections[s].frags
      <4>3. DOMAIN islands[i].stubs = 1..m /\ m \in Nat /\ DOMAIN frags = 1..Len(frags) /\ Len(frags) \in Nat
            /\ e[i] + 2 * m <= Len(frags)
        <5>1. DOMAIN islands[i].stubs = 1..m /\ m \in Nat
          BY <4>1
        <5>2. DOMAIN frags = 1..Len(frags) /\ Len(frags) \in Nat
          BY <4>1
        <5>3. e[i] + 2 * m <= Len(frags)
          BY <4>2
        <5> QED BY <5>1, <5>2, <5>3
      <4> HIDE DEF m, frags
      <4>4. \A j \in 1..m : e[i] + 2 * j \in 1..Len(frags)
        BY <4>2, <4>3
      <4> QED BY <4>3, <4>4 DEF frags
    <3> QED BY <1>3, <2>8, <2>10, <2>12, <3>1, <3>2, <3>3 DEF PlacedAt
  <2>14. Ordered(e)'
    BY <1>2, <1>3, <2>12 DEF Laid, Ordered
  <2>15. AllChained'
    BY <2>8, <2>9, <2>10 DEF AllChained
  <2>16. Breaks(e)'
    BY <2>15 DEF AllChained, Breaks
  <2>17. ASSUME phase' = "done" PROVE Fits(e)'
    <3>1. invalid = {}
      BY <2>1, <2>17
    <3>2. ASSUME NEW i \in DOMAIN islands, islands[i].stubs # <<>>
          PROVE  LET frags == sections[islands[i].section].frags
                 IN  /\ EndOfFragment(frags[LastAt(e, i)]) - frags[e[i] + 1].at <= StubGroupSize
                     /\ sections'[islands[i].section].frags = frags
      <4> DEFINE frags == sections[islands[i].section].frags
                 x == frags[LastAt(e, i)]
      <4>1. /\ islands[i].section \in DOMAIN sections /\ frags \in Seq(FragType)
            /\ LastAt(e, i) \in DOMAIN frags /\ e[i] + 1 \in DOMAIN frags
            /\ Size(islands[i]) = EndOfFragment(x) - frags[e[i] + 1].at
        BY <1>1, <1>2, <3>2, IslandIs DEF Laid
      <4>2. ~(Size(islands[i]) > StubGroupSize)
        BY <2>2 DEF TooLarge
      <4>3. EndOfFragment(x) \in Nat /\ frags[e[i] + 1].at \in Nat /\ StubGroupSize \in Nat
        <5>1. x \in FragType /\ frags[e[i] + 1] \in FragType
          BY <4>1
        <5> QED BY <5>1, EndNat, ConstantsNat DEF FragType
      <4> QED BY <2>9, <3>1, <4>1, <4>2, <4>3
    <3> QED BY <1>3, <2>12, <3>2 DEF Fits
  <2>18. Laid(e)'
    BY <2>13, <2>14, <2>15, <2>16, <2>17 DEF Laid
  <2> QED BY <2>11, <2>18 DEF LayoutInv
<1> QED BY <1>5, <1>6

(* Two fragments put before the p-th.                                        *)
LEMMA InsertedIs ==
  ASSUME NEW frags \in Seq(FragType), NEW p \in Nat, p >= 2, p <= Len(frags) + 1,
         NEW new \in Seq(FragType), Len(new) = 2
  PROVE  LET out == SubSeq(frags, 1, p - 1) \o new \o SubSeq(frags, p, Len(frags))
         IN  /\ out \in Seq(FragType) /\ Len(out) = Len(frags) + 2
             /\ \A q \in 1..(p - 1) : out[q] = frags[q]
             /\ out[p] = new[1] /\ out[p + 1] = new[2]
             /\ \A q \in p..Len(frags) : out[q + 2] = frags[q]
<1> DEFINE a == SubSeq(frags, 1, p - 1)
           b == SubSeq(frags, p, Len(frags))
           ab == a \o new
           out == ab \o b
<1>0. Len(frags) \in Nat
  OBVIOUS
<1>1. a \in Seq(FragType) /\ Len(a) = p - 1 /\ \A q \in 1..(p - 1) : a[q] = frags[q]
  BY <1>0
<1>2. b \in Seq(FragType) /\ Len(b) = Len(frags) - p + 1 /\ \A q \in 1..(Len(frags) - p + 1) : b[q] = frags[q + p - 1]
  BY <1>0
<1> HIDE DEF a, b
<1>3. /\ ab \in Seq(FragType) /\ Len(ab) = p + 1
      /\ \A q \in 1..(p + 1) : ab[q] = IF q <= p - 1 THEN a[q] ELSE new[q - (p - 1)]
  <2>1. /\ ab \in Seq(FragType) /\ Len(ab) = Len(a) + Len(new)
        /\ \A q \in 1..(Len(a) + Len(new)) : ab[q] = IF q <= Len(a) THEN a[q] ELSE new[q - Len(a)]
    BY <1>1, ConcatIs
  <2> HIDE DEF ab
  <2>2. Len(a) + Len(new) = p + 1
    BY <1>1
  <2> QED BY <1>1, <2>1, <2>2
<1> HIDE DEF ab
<1>4. /\ out \in Seq(FragType) /\ Len(out) = Len(frags) + 2
      /\ \A q \in 1..(Len(frags) + 2) : out[q] = IF q <= p + 1 THEN ab[q] ELSE b[q - (p + 1)]
  <2>1. /\ out \in Seq(FragType) /\ Len(out) = Len(ab) + Len(b)
        /\ \A q \in 1..(Len(ab) + Len(b)) : out[q] = IF q <= Len(ab) THEN ab[q] ELSE b[q - Len(ab)]
    BY <1>2, <1>3, ConcatIs
  <2> HIDE DEF out
  <2>2. Len(ab) + Len(b) = Len(frags) + 2
    BY <1>0, <1>2, <1>3
  <2> QED BY <1>3, <2>1, <2>2
<1> HIDE DEF out
<1>5. ASSUME NEW q \in 1..(p - 1) PROVE out[q] = frags[q]
  <2>1. q \in 1..(Len(frags) + 2) /\ q <= p + 1 /\ q \in 1..(p + 1) /\ q <= p - 1
    BY <1>0
  <2> QED BY <1>1, <1>3, <1>4, <2>1
<1>6. out[p] = new[1] /\ out[p + 1] = new[2]
  <2>1. /\ p \in 1..(Len(frags) + 2) /\ p + 1 \in 1..(Len(frags) + 2) /\ p <= p + 1 /\ p + 1 <= p + 1
        /\ p \in 1..(p + 1) /\ p + 1 \in 1..(p + 1) /\ ~(p <= p - 1) /\ ~(p + 1 <= p - 1)
        /\ p - (p - 1) = 1 /\ (p + 1) - (p - 1) = 2
    BY <1>0
  <2>2. ab[p] = new[p - (p - 1)] /\ ab[p + 1] = new[(p + 1) - (p - 1)]
    BY <1>3, <2>1
  <2> QED BY <1>4, <2>1, <2>2
<1>7. ASSUME NEW q \in p..Len(frags) PROVE out[q + 2] = frags[q]
  <2>1. /\ q + 2 \in 1..(Len(frags) + 2) /\ ~(q + 2 <= p + 1) /\ (q + 2) - (p + 1) \in 1..(Len(frags) - p + 1)
        /\ ((q + 2) - (p + 1)) + p - 1 = q
    BY <1>0
  <2>2. out[q + 2] = b[(q + 2) - (p + 1)]
    BY <1>4, <2>1
  <2> QED BY <1>2, <2>1, <2>2
<1> QED BY <1>4, <1>5, <1>6, <1>7 DEF out, ab, a, b

(* A section with a new stub, which is put where the island ends.            *)
LEMMA AddedIs ==
  ASSUME IslandsInv, SectionsInv, IdsInv, NEW e, NEW i \in DOMAIN islands, PlacedAt(e, i),
         NEW id \in Nat, id >= 1, NEW proto
  PROVE  LET frags == sections[islands[i].section].frags
             p == LastAt(e, i) + 1
             out == AddStub(islands[i], id, proto)
         IN  /\ out \in Seq(FragType) /\ Len(out) = Len(frags) + 2
             /\ \A q \in 1..(p - 1) : out[q] = frags[q]
             /\ \A q \in p..Len(frags) : out[q + 2] = frags[q]
             /\ out[p].id = id - 1 /\ out[p + 1].id = id
             /\ out[p].at = EndOfFragment(out[p - 1]) /\ out[p + 1].at = EndOfFragment(out[p])
             /\ EndOfFragment(frags[p - 1]) < EndOfFragment(out[p + 1])
<1> DEFINE s == islands[i].section
           frags == sections[s].frags
           p == LastAt(e, i) + 1
           align == [k |-> "align", id |-> id - 1, n |-> StubAlign, at |-> 0]
           size == IF proto \in {"A2A", "A2T"} THEN ShortStub ELSE LongStub
           stub == [k |-> "stub", id |-> id, n |-> size, at |-> 0]
           start == EndOfFragment(frags[p - 1])
           two == <<align, stub>>
           new == Chain(two, start)
           out == SubSeq(frags, 1, p - 1) \o new \o SubSeq(frags, p, Len(frags))
<1>1. /\ s \in DOMAIN sections /\ frags \in Seq(FragType) /\ LastAt(e, i) \in DOMAIN frags
      /\ islands[i].exit = 0 <=> LastAt(e, i) = Len(frags)
      /\ islands[i].exit # 0 => p \in DOMAIN frags /\ Position(frags, islands[i].exit) = p
  BY IslandIs
<1>2. AddStub(islands[i], id, proto) = out
  <2> DEFINE r == IF islands[i].exit = 0 THEN Len(frags) + 1 ELSE Position(frags, islands[i].exit)
  <2>1. r = p
    BY <1>1
  <2>2. AddStub(islands[i], id, proto)
           = SubSeq(frags, 1, r - 1) \o Chain(two, EndOfFragment(frags[r - 1])) \o SubSeq(frags, r, Len(frags))
    BY DEF AddStub
  <2>3. out = SubSeq(frags, 1, p - 1) \o Chain(two, EndOfFragment(frags[p - 1])) \o SubSeq(frags, p, Len(frags))
    OBVIOUS
  <2> HIDE DEF r, p, out, frags, two
  <2> QED BY <2>1, <2>2, <2>3
<1>3. p \in Nat /\ p >= 2 /\ p <= Len(frags) + 1 /\ p - 1 \in DOMAIN frags /\ p - 1 \in 1..(p - 1)
  <2> HIDE DEF frags
  <2> QED BY <1>1
<1>4. start \in Nat
  <2>1. frags[p - 1] \in FragType
    BY <1>1, <1>3
  <2> QED BY <2>1, EndNat
<1>5. size \in Nat /\ size > 0
  BY ConstantsNat
<1> HIDE DEF size, start, p
<1>6. two \in Seq(FragType) /\ Len(two) = 2 /\ DOMAIN two = 1..2 /\ two[1] = align /\ two[2] = stub
  <2>1. align \in FragType
    BY ConstantsNat DEF FragType
  <2>2. stub \in FragType
    BY <1>5 DEF FragType
  <2> HIDE DEF align, stub
  <2> QED BY <2>1, <2>2
<1>7. align.id = id - 1 /\ stub.id = id /\ stub.k = "stub" /\ stub.n = size
  OBVIOUS
<1> HIDE DEF align, stub, two
<1>8. Is(new, two, start)
  BY <1>4, <1>6, ChainIs
<1> HIDE DEF new
<1>9. /\ new \in Seq(FragType) /\ Len(new) = 2
      /\ new[1].id = id - 1 /\ new[1].at = start
      /\ new[2].id = id /\ new[2].at = EndOfFragment(new[1]) /\ new[2].k = "stub" /\ new[2].n = size
  BY <1>6, <1>7, <1>8 DEF Is
<1>10. start < EndOfFragment(new[2])
  <2>1. new[1] \in FragType
    BY <1>9
  <2>2. new[1].at \in Nat /\ FragmentSize(new[1]) \in Nat
    BY <2>1, EndNat DEF FragType
  <2>3. EndOfFragment(new[1]) = start + FragmentSize(new[1])
    BY <1>9 DEF EndOfFragment
  <2>4. EndOfFragment(new[2]) = EndOfFragment(new[1]) + size
    BY <1>9 DEF EndOfFragment, FragmentSize
  <2> QED BY <1>4, <1>5, <2>2, <2>3, <2>4
<1>11. /\ out \in Seq(FragType) /\ Len(out) = Len(frags) + 2
       /\ \A q \in 1..(p - 1) : out[q] = frags[q]
       /\ out[p] = new[1] /\ out[p + 1] = new[2]
       /\ \A q \in p..Len(frags) : out[q + 2] = frags[q]
  <2> HIDE DEF frags
  <2>1. /\ frags \in Seq(FragType) /\ p \in Nat /\ p >= 2 /\ p <= Len(frags) + 1
        /\ new \in Seq(FragType) /\ Len(new) = 2
    BY <1>1, <1>3, <1>9
  <2> QED BY <2>1, InsertedIs
<1> HIDE DEF out
<1>12. out[p - 1] = frags[p - 1]
  BY <1>3, <1>11
<1>13. out[p].at = EndOfFragment(out[p - 1]) /\ EndOfFragment(frags[p - 1]) < EndOfFragment(out[p + 1])
  BY <1>9, <1>10, <1>11, <1>12 DEF start
<1> QED BY <1>2, <1>9, <1>11, <1>13 DEF p, frags, s

LEMMA StubPlaces ==
  ASSUME NEW a \in Nat, NEW m \in Nat
  PROVE  /\ a + 2 * (m + 1) = (a + 2 * m) + 2
         /\ \A j \in 1..m : /\ j \in Nat /\ a + 2 * j \in Nat /\ a + 2 * j > a /\ a + 2 * j <= a + 2 * m
                            /\ (a + 2) + 2 * j = (a + 2 * j) + 2
OBVIOUS

LEMMA Places ==
  ASSUME NEW a \in Nat, NEW b \in Nat, NEW p \in Nat, NEW len \in Nat, a >= 1, b >= a, b <= len, p >= 2, p <= len + 1
  PROVE  /\ b <= p - 1 => a \in 1..(p - 1) /\ \A x \in Nat : a < x /\ x <= b => x \in 1..(p - 1)
         /\ b = p - 1 => /\ p + 1 <= len + 2 /\ (p - 1 < len <=> p + 1 < len + 2)
                         /\ p - 1 < len => p \in p..len
         /\ a > p - 1 => /\ a \in p..len /\ b + 2 <= len + 2 /\ (b < len <=> b + 2 < len + 2)
                         /\ b < len => b + 1 \in p..len
                         /\ (b + 2) + 1 = (b + 1) + 2
                         /\ \A x \in Nat : a < x /\ x <= b => x \in p..len
OBVIOUS

(* The places of a section when an island of it has got one more stub.       *)
LEMMA CreateLayout ==
  ASSUME BaseInv, LayoutInv, CreateStub
  PROVE  LayoutInv'
<1>1. /\ IslandsInv /\ SectionsInv /\ IdsInv /\ StubsInv /\ phase = "branches" /\ phase' = "branches"
      /\ DOMAIN islands = 1..Len(islands)
  BY DEF BaseInv, LayoutInv, CreateStub, IslandsInv
<1>2. PICK e : Laid(e)
  BY DEF LayoutInv
<1>0. PICK i \in DOMAIN islands : \E stub, proto :
         /\ islands' = [islands EXCEPT ![i].stubs = Append(@, stub)] /\ stub.id = NewId
         /\ sections' = [sections EXCEPT ![islands[i].section].frags = AddStub(islands[i], NewId, proto)]
  <2> DEFINE j == Ahead(Branch.frag)
             info == StubSymbol(Branch, Proto, j)
             new == [id |-> NewId, proto |-> Proto, symbol |-> Branch.symbol, addend |-> Branch.addend, info |-> info]
  <2>1. /\ j # 0 /\ islands' = [islands EXCEPT ![j].stubs = Append(@, new)]
        /\ sections' = [sections EXCEPT ![islands[j].section].frags = AddStub(islands[j], NewId, Proto)]
    BY DEF CreateStub
  <2>2. new.id = NewId
    OBVIOUS
  <2>3. j \in DOMAIN islands
    BY <1>1, <2>1, AheadIs
  <2> HIDE DEF j, new
  <2> QED BY <2>1, <2>2, <2>3
<1>3. PICK stub, proto :
         /\ islands' = [islands EXCEPT ![i].stubs = Append(@, stub)] /\ stub.id = NewId
         /\ sections' = [sections EXCEPT ![islands[i].section].frags = AddStub(islands[i], NewId, proto)]
  BY <1>0
<1>4. PICK s, frags, n, p, out :
         /\ s = islands[i].section /\ frags = sections[s].frags /\ n = Len(islands[i].stubs)
         /\ p = LastAt(e, i) + 1 /\ out = AddStub(islands[i], NewId, proto)
  OBVIOUS
<1>5. /\ NewId \in Nat /\ NewId > FirstStub + 2 * Cardinality(StubIds) + 1 /\ NewId >= 1
      /\ Cardinality(StubIds) \in Nat
      /\ FirstStub + 2 * Cardinality(StubIds)' = NewId /\ stub.id = NewId
      /\ islands'[i].stubs = Append(islands[i].stubs, stub) /\ DOMAIN islands' = DOMAIN islands
      /\ \A k \in DOMAIN islands : /\ islands'[k].section = islands[k].section
                                   /\ islands'[k].entry = islands[k].entry
                                   /\ islands'[k].exit = islands[k].exit
                                   /\ k # i => islands'[k].stubs = islands[k].stubs
  <2>1. /\ StubIds' = StubIds \cup {NewId} /\ DOMAIN islands' = DOMAIN islands
        /\ islands'[i].stubs = Append(islands[i].stubs, stub)
        /\ \A k \in DOMAIN islands : /\ islands'[k].section = islands[k].section
                                     /\ islands'[k].entry = islands[k].entry
                                     /\ islands'[k].exit = islands[k].exit
                                     /\ k # i => islands'[k] = islands[k]
    BY <1>1, <1>3, StubAdded
  <2>2. /\ NewId \in Nat /\ Cardinality(StubIds) \in Nat
        /\ Cardinality(StubIds \cup {NewId}) = Cardinality(StubIds) + 1
    BY <1>1, FreshId
  <2>3. Cardinality(StubIds)' = Cardinality(StubIds) + 1
    BY <2>1, <2>2
  <2>4. NewId = FirstStub + 2 * Cardinality(StubIds) + 2 /\ FirstStub = 100
    BY DEF NewId, FirstStub
  <2>5. /\ NewId > FirstStub + 2 * Cardinality(StubIds) + 1 /\ NewId >= 1
        /\ FirstStub + 2 * Cardinality(StubIds)' = NewId
    BY <2>2, <2>3, <2>4
  <2> QED BY <1>3, <2>1, <2>2, <2>5
<1>6. /\ s \in DOMAIN sections /\ frags \in Seq(FragType) /\ Len(frags) \in Nat /\ DOMAIN frags = 1..Len(frags)
      /\ p \in Nat /\ p >= 2 /\ p <= Len(frags) + 1 /\ n \in Nat
      /\ out \in Seq(FragType) /\ Len(out) = Len(frags) + 2 /\ DOMAIN out = 1..(Len(frags) + 2)
      /\ \A q \in 1..(p - 1) : out[q] = frags[q]
      /\ \A q \in p..Len(frags) : out[q + 2] = frags[q]
      /\ out[p].id = NewId - 1 /\ out[p + 1].id = NewId
      /\ out[p].at = EndOfFragment(out[p - 1]) /\ out[p + 1].at = EndOfFragment(out[p])
      /\ EndOfFragment(frags[p - 1]) < EndOfFragment(out[p + 1])
  <2>1. PlacedAt(e, i)
    BY <1>2 DEF Laid
  <2>2. /\ s \in DOMAIN sections /\ frags \in Seq(FragType) /\ n \in Nat
        /\ LastAt(e, i) \in DOMAIN frags
    BY <1>1, <1>4, <2>1, IslandIs
  <2>3. Len(frags) \in Nat /\ DOMAIN frags = 1..Len(frags)
    BY <2>2
  <2>4. p \in Nat /\ p >= 2 /\ p <= Len(frags) + 1
    BY <1>4, <2>2, <2>3
  <2>5. /\ out \in Seq(FragType) /\ Len(out) = Len(frags) + 2
        /\ \A q \in 1..(p - 1) : out[q] = frags[q]
        /\ \A q \in p..Len(frags) : out[q + 2] = frags[q]
        /\ out[p].id = NewId - 1 /\ out[p + 1].id = NewId
        /\ out[p].at = EndOfFragment(out[p - 1]) /\ out[p + 1].at = EndOfFragment(out[p])
        /\ EndOfFragment(frags[p - 1]) < EndOfFragment(out[p + 1])
    <3> DEFINE fs == sections[islands[i].section].frags
               o == AddStub(islands[i], NewId, proto)
               x == LastAt(e, i) + 1
    <3>1. NewId \in Nat /\ NewId >= 1
      BY <1>5
    <3>2. /\ o \in Seq(FragType) /\ Len(o) = Len(fs) + 2
          /\ \A q \in 1..(x - 1) : o[q] = fs[q]
          /\ \A q \in x..Len(fs) : o[q + 2] = fs[q]
          /\ o[x].id = NewId - 1 /\ o[x + 1].id = NewId
          /\ o[x].at = EndOfFragment(o[x - 1]) /\ o[x + 1].at = EndOfFragment(o[x])
          /\ EndOfFragment(fs[x - 1]) < EndOfFragment(o[x + 1])
      BY <1>1, <2>1, <3>1, AddedIs
    <3>3. fs = frags /\ o = out /\ x = p
      BY <1>4
    <3> HIDE DEF fs, o, x
    <3> QED BY <3>2, <3>3
  <2>6. DOMAIN out = 1..(Len(frags) + 2)
    BY <2>3, <2>5
  <2> QED BY <2>2, <2>3, <2>4, <2>5, <2>6
<1>7. /\ DOMAIN sections' = DOMAIN sections /\ sections'[s].frags = out
      /\ \A t \in DOMAIN sections : t # s => sections'[t] = sections[t]
      /\ SectionsInv'
  <2>1. sections' = [sections EXCEPT ![s].frags = out]
    BY <1>3, <1>4
  <2>2. sections \in Seq(SectionType)
    BY <1>1 DEF SectionsInv
  <2>3. sections[s] \in SectionType
    BY <1>6, <2>2
  <2>4. out \in Seq(FragType) \ {<<>>}
    BY <1>6
  <2>5. [sections[s] EXCEPT !.frags = out] \in SectionType /\ [sections[s] EXCEPT !.frags = out].frags = out
    <3> DEFINE F == Seq(FragType) \ {<<>>}
    <3> HIDE DEF F
    <3>1. SectionType = [addr : Nat, size : Nat, frags : F]
      BY DEF SectionType, F
    <3> QED BY <2>3, <2>4, <3>1 DEF F
  <2>6. sections' = [sections EXCEPT ![s] = [sections[s] EXCEPT !.frags = out]]
    BY <2>1
  <2>7. sections' \in Seq(SectionType)
    BY <1>6, <2>2, <2>5, <2>6
  <2> QED BY <1>6, <2>2, <2>5, <2>6, <2>7 DEF SectionsInv
<1>8. PICK d, l : /\ d = [k \in DOMAIN islands |-> IF islands[k].section = s /\ k > i THEN e[k] + 2 ELSE e[k]]
                  /\ l = [k \in DOMAIN islands |-> LastAt(e, k)]
  OBVIOUS
<1>9. ASSUME NEW k \in DOMAIN islands
      PROVE  LET fk == sections[islands[k].section].frags
             IN  /\ islands[k].section \in DOMAIN sections /\ fk \in Seq(FragType) /\ Len(fk) \in Nat
                 /\ e[k] \in Nat /\ e[k] >= 1 /\ l[k] \in Nat /\ l[k] >= e[k] /\ l[k] <= Len(fk)
                 /\ l[k] = e[k] + 2 * Len(islands[k].stubs) /\ Len(islands[k].stubs) \in Nat
                 /\ DOMAIN islands[k].stubs = 1..Len(islands[k].stubs)
                 /\ k \in Nat /\ islands[k].entry = fk[e[k]].id
                 /\ islands[k].exit = IF l[k] < Len(fk) THEN fk[l[k] + 1].id ELSE 0
                 /\ \A j \in DOMAIN islands[k].stubs : fk[e[k] + 2 * j].id = islands[k].stubs[j].id
  <2> DEFINE fk == sections[islands[k].section].frags
  <2>1. PlacedAt(e, k) /\ l[k] = LastAt(e, k)
    BY <1>2, <1>8 DEF Laid
  <2>2. /\ islands[k].section \in DOMAIN sections /\ fk \in Seq(FragType) /\ LastAt(e, k) \in DOMAIN fk
        /\ e[k] \in Nat /\ e[k] >= 1 /\ LastAt(e, k) >= e[k] /\ Len(islands[k].stubs) \in Nat
        /\ LastAt(e, k) = e[k] + 2 * Len(islands[k].stubs)
    BY <1>1, <2>1, IslandIs
  <2>3. Len(fk) \in Nat /\ LastAt(e, k) \in Nat /\ LastAt(e, k) <= Len(fk)
    <3> HIDE DEF fk
    <3> QED BY <2>2
  <2>4. DOMAIN islands[k].stubs = 1..Len(islands[k].stubs) /\ k \in Nat
    <3>1. islands[k].stubs \in Seq(Stubs)
      BY <1>1, StubIn
    <3> QED BY <3>1, <1>1
  <2>5. /\ islands[k].entry = fk[e[k]].id
        /\ islands[k].exit = IF LastAt(e, k) < Len(fk) THEN fk[LastAt(e, k) + 1].id ELSE 0
        /\ \A j \in DOMAIN islands[k].stubs : fk[e[k] + 2 * j].id = islands[k].stubs[j].id
    BY <2>1 DEF PlacedAt
  <2> QED BY <2>1, <2>2, <2>3, <2>4, <2>5
<1>10. /\ l[i] = p - 1 /\ i \in Nat /\ n = Len(islands[i].stubs)
       /\ \A k, m \in DOMAIN islands : k < m /\ islands[k].section = islands[m].section => l[k] < e[m]
  <2>1. l[i] = LastAt(e, i)
    BY <1>8
  <2>2. LastAt(e, i) = p - 1
    <3>1. l[i] \in Nat
      BY <1>9
    <3> QED BY <1>4, <2>1, <3>1
  <2> QED BY <1>2, <1>4, <1>8, <1>9, <2>1, <2>2 DEF Laid, Ordered
<1>11. ASSUME NEW k \in DOMAIN islands
       PROVE  /\ d[k] = IF islands[k].section = s /\ k > i THEN e[k] + 2 ELSE e[k]
              /\ LastAt(d, k)' = IF islands[k].section = s /\ k >= i THEN l[k] + 2 ELSE l[k]
  <2>1. d[k] = IF islands[k].section = s /\ k > i THEN e[k] + 2 ELSE e[k]
    BY <1>8
  <2>2. LastAt(d, k)' = d[k] + 2 * Len(islands'[k].stubs)
    BY DEF LastAt
  <2>3. CASE k = i
    <3>1. Len(islands'[k].stubs) = n + 1
      <4>1. islands[i].stubs \in Seq(Stubs)
        BY <1>1, StubIn
      <4> QED BY <4>1, <1>4, <1>5, <2>3
    <3>2. /\ e[i] \in Nat /\ n \in Nat /\ l[i] = e[i] + 2 * n /\ i \in Nat
      BY <1>4, <1>9
    <3> QED BY <1>4, <2>1, <2>2, <2>3, <3>1, <3>2
  <2>4. CASE k # i
    <3>1. islands'[k].stubs = islands[k].stubs
      BY <1>5, <2>4
    <3>2. /\ e[k] \in Nat /\ Len(islands[k].stubs) \in Nat /\ l[k] = e[k] + 2 * Len(islands[k].stubs)
          /\ i \in Nat /\ k \in Nat
      BY <1>9
    <3> QED BY <2>1, <2>2, <2>4, <3>1, <3>2
  <2> QED BY <2>1, <2>3, <2>4
<1>12. IdsInv'
  <2> DEFINE Old(q) == IF q < p THEN q ELSE q - 2
  <2>1. ASSUME NEW q \in DOMAIN out
        PROVE  \/ q # p /\ q # p + 1 /\ Old(q) \in DOMAIN frags /\ out[q] = frags[Old(q)]
               \/ q = p /\ out[q].id = NewId - 1
               \/ q = p + 1 /\ out[q].id = NewId
    <3>1. CASE q < p
      <4>1. q \in 1..(p - 1) /\ q \in DOMAIN frags /\ q # p /\ q # p + 1
        BY <1>6, <3>1
      <4> QED BY <1>6, <3>1, <4>1
    <3>2. CASE q = p \/ q = p + 1
      BY <1>6, <3>2
    <3>3. CASE q > p + 1
      <4>1. q - 2 \in p..Len(frags) /\ (q - 2) + 2 = q /\ q - 2 \in DOMAIN frags /\ ~(q < p) /\ q # p /\ q # p + 1
        BY <1>6, <3>3
      <4>2. out[q] = frags[q - 2]
        BY <1>6, <4>1
      <4> QED BY <4>1, <4>2
    <3> QED BY <1>6, <3>1, <3>2, <3>3
  <2>2. ASSUME NEW q \in DOMAIN out, NEW r \in DOMAIN out, Old(q) = Old(r), q # p, q # p + 1, r # p, r # p + 1
        PROVE  q = r
    <3>1. p \in Nat /\ q \in Nat /\ r \in Nat
      BY <1>6
    <3> QED BY <2>2, <3>1
  <2> HIDE DEF Old
  <2>3. /\ \A t \in DOMAIN sections : \A q \in DOMAIN sections[t].frags :
              /\ sections[t].frags[q].id \in Nat /\ sections[t].frags[q].id >= 1
              /\ sections[t].frags[q].id < NewId - 1
        /\ \A t, u \in DOMAIN sections : \A q \in DOMAIN sections[t].frags, r \in DOMAIN sections[u].frags :
              sections[t].frags[q].id = sections[u].frags[r].id => t = u /\ q = r
    <3>1. \A t \in DOMAIN sections : \A q \in DOMAIN sections[t].frags :
              /\ sections[t].frags[q].id \in Nat /\ sections[t].frags[q].id >= 1
              /\ sections[t].frags[q].id <= FirstStub + 2 * Cardinality(StubIds)
      BY <1>1 DEF IdsInv
    <3>2. \A x \in Nat : x <= FirstStub + 2 * Cardinality(StubIds) => x < NewId - 1
      BY <1>5 DEF FirstStub
    <3> QED BY <1>1, <3>1, <3>2 DEF IdsInv
  <2>a. \A q, r \in DOMAIN frags : frags[q].id = frags[r].id => q = r
    <3>1. \A q \in DOMAIN sections[s].frags, r \in DOMAIN sections[s].frags :
             sections[s].frags[q].id = sections[s].frags[r].id => q = r
      BY <1>6, <2>3
    <3> QED BY <1>4, <3>1
  <2>b. \A t \in DOMAIN sections : t # s =>
           \A q \in DOMAIN sections[t].frags, r \in DOMAIN frags : sections[t].frags[q].id # frags[r].id
    <3>1. s \in DOMAIN sections /\ frags = sections[s].frags
      BY <1>4, <1>6
    <3> QED BY <2>3, <3>1
  <2>4. \A q \in DOMAIN out : /\ out[q].id \in Nat /\ out[q].id >= 1 /\ out[q].id <= NewId
                              /\ q = p \/ q = p + 1 \/ out[q].id < NewId - 1
    <3>1. NewId - 1 \in Nat /\ NewId - 1 >= 1 /\ NewId \in Nat
      BY <1>5 DEF FirstStub
    <3>2. \A x \in Nat : x < NewId - 1 => x <= NewId
      BY <1>5
    <3>3. \A q \in DOMAIN frags : frags[q].id \in Nat /\ frags[q].id >= 1 /\ frags[q].id < NewId - 1
      BY <1>4, <1>6, <2>3
    <3> QED BY <2>1, <3>1, <3>2, <3>3
  <2>5. ASSUME NEW t \in DOMAIN sections, NEW q \in DOMAIN sections'[t].frags
        PROVE  /\ sections'[t].frags[q].id \in Nat /\ sections'[t].frags[q].id >= 1
               /\ sections'[t].frags[q].id <= NewId
    <3>1. CASE t = s
      BY <1>7, <2>4, <3>1
    <3>2. CASE t # s
      <4>1. \A x \in Nat : x < NewId - 1 => x <= NewId
        BY <1>5
      <4> QED BY <1>7, <2>3, <3>2, <4>1
    <3> QED BY <3>1, <3>2
  <2>6. ASSUME NEW q \in DOMAIN out, NEW r \in DOMAIN out, out[q].id = out[r].id PROVE q = r
    <3>1. CASE q # p /\ q # p + 1 /\ r # p /\ r # p + 1
      <4>1. /\ Old(q) \in DOMAIN frags /\ out[q] = frags[Old(q)]
            /\ Old(r) \in DOMAIN frags /\ out[r] = frags[Old(r)]
        BY <2>1, <3>1
      <4>2. Old(q) = Old(r)
        BY <2>a, <2>6, <4>1
      <4> QED BY <2>2, <3>1, <4>2
    <3>2. CASE ~(q # p /\ q # p + 1 /\ r # p /\ r # p + 1)
      <4>1. NewId - 1 # NewId /\ \A x \in Nat : x < NewId - 1 => x # NewId /\ x # NewId - 1
        BY <1>5
      <4>2. p # p + 1
        BY <1>6
      <4> QED BY <2>1, <2>4, <2>6, <3>2, <4>1, <4>2
    <3> QED BY <3>1, <3>2
  <2>7. ASSUME NEW t \in DOMAIN sections, t # s, NEW q \in DOMAIN sections[t].frags, NEW r \in DOMAIN out
        PROVE  sections[t].frags[q].id # out[r].id
    <3>1. CASE r # p /\ r # p + 1
      <4>1. Old(r) \in DOMAIN frags /\ out[r] = frags[Old(r)]
        BY <2>1, <3>1
      <4> QED BY <2>b, <2>7, <4>1
    <3>2. CASE ~(r # p /\ r # p + 1)
      <4>1. \A x \in Nat : x < NewId - 1 => x # NewId /\ x # NewId - 1
        BY <1>5
      <4>2. sections[t].frags[q].id \in Nat /\ sections[t].frags[q].id < NewId - 1
        BY <2>3
      <4> QED BY <2>1, <3>2, <4>1, <4>2
    <3> QED BY <3>1, <3>2
  <2>8. ASSUME NEW t \in DOMAIN sections, NEW u \in DOMAIN sections,
               NEW q \in DOMAIN sections'[t].frags, NEW r \in DOMAIN sections'[u].frags,
               sections'[t].frags[q].id = sections'[u].frags[r].id
        PROVE  t = u /\ q = r
    <3>1. CASE t = s /\ u = s
      BY <1>7, <2>6, <2>8, <3>1
    <3>2. CASE t = s /\ u # s
      BY <1>7, <2>7, <2>8, <3>2
    <3>3. CASE t # s /\ u = s
      BY <1>7, <2>7, <2>8, <3>3
    <3>4. CASE t # s /\ u # s
      BY <1>7, <2>3, <2>8, <3>4
    <3> QED BY <3>1, <3>2, <3>3, <3>4
  <2> QED BY <1>5, <1>7, <2>5, <2>8 DEF IdsInv
<1>13. ASSUME NEW k \in DOMAIN islands PROVE PlacedAt(d, k)'
  <2> DEFINE t == islands[k].section
             fk == sections[t].frags
             new == sections'[t].frags
  <2>1. /\ t \in DOMAIN sections /\ fk \in Seq(FragType) /\ Len(fk) \in Nat
        /\ e[k] \in Nat /\ e[k] >= 1 /\ l[k] \in Nat /\ l[k] >= e[k] /\ l[k] <= Len(fk)
        /\ l[k] = e[k] + 2 * Len(islands[k].stubs) /\ Len(islands[k].stubs) \in Nat
        /\ DOMAIN islands[k].stubs = 1..Len(islands[k].stubs)
        /\ k \in Nat /\ islands[k].entry = fk[e[k]].id
        /\ islands[k].exit = IF l[k] < Len(fk) THEN fk[l[k] + 1].id ELSE 0
        /\ \A j \in DOMAIN islands[k].stubs : fk[e[k] + 2 * j].id = islands[k].stubs[j].id
    BY <1>9
  <2>2. /\ islands'[k].section = t /\ islands'[k].entry = islands[k].entry /\ islands'[k].exit = islands[k].exit
        /\ k # i => islands'[k].stubs = islands[k].stubs
    BY <1>5
  <2>3. SUFFICES /\ d[k] \in Nat /\ d[k] >= 1 /\ LastAt(d, k)' <= Len(new)
                 /\ new[d[k]].id = islands[k].entry
                 /\ islands[k].exit = IF LastAt(d, k)' < Len(new) THEN new[LastAt(d, k)' + 1].id ELSE 0
                 /\ \A j \in DOMAIN islands'[k].stubs : new[d[k] + 2 * j].id = islands'[k].stubs[j].id
    BY <1>7, <2>1, <2>2 DEF PlacedAt
  <2>4. CASE t # s
    <3>1. new = fk
      BY <1>7, <2>1, <2>4
    <3>2. d[k] = e[k] /\ LastAt(d, k)' = l[k] /\ islands'[k].stubs = islands[k].stubs
      BY <1>4, <1>11, <2>2, <2>4
    <3> QED BY <2>1, <3>1, <3>2
  <2>5. CASE t = s
    <3>1. new = out /\ fk = frags
      BY <1>4, <1>7, <2>5
    <3>2. i \in Nat /\ l[i] = p - 1
      BY <1>10
    <3> HIDE DEF new, fk, t
    <3> DEFINE m == Len(islands[k].stubs)
    <3>a. /\ e[k] \in Nat /\ e[k] >= 1 /\ l[k] \in Nat /\ l[k] >= e[k] /\ l[k] <= Len(frags)
          /\ m \in Nat /\ l[k] = e[k] + 2 * m /\ DOMAIN islands[k].stubs = 1..m
      BY <2>1, <3>1
    <3>b. /\ p \in Nat /\ p >= 2 /\ p <= Len(frags) + 1 /\ Len(frags) \in Nat
          /\ Len(out) = Len(frags) + 2
      BY <1>6
    <3> HIDE DEF m
    <3>c. /\ e[k] + 2 * (m + 1) = (e[k] + 2 * m) + 2
          /\ \A j \in 1..m : /\ e[k] + 2 * j \in Nat /\ e[k] + 2 * j > e[k] /\ e[k] + 2 * j <= l[k]
                             /\ (e[k] + 2) + 2 * j = (e[k] + 2 * j) + 2
      BY <3>a, StubPlaces
    <3>e. /\ l[k] <= p - 1 => /\ e[k] \in 1..(p - 1)
                              /\ \A x \in Nat : e[k] < x /\ x <= l[k] => x \in 1..(p - 1)
          /\ l[k] = p - 1 => /\ p + 1 <= Len(frags) + 2 /\ (p - 1 < Len(frags) <=> p + 1 < Len(frags) + 2)
                             /\ p - 1 < Len(frags) => p \in p..Len(frags)
          /\ e[k] > p - 1 => /\ e[k] \in p..Len(frags) /\ l[k] + 2 <= Len(frags) + 2
                             /\ (l[k] < Len(frags) <=> l[k] + 2 < Len(frags) + 2)
                             /\ l[k] < Len(frags) => l[k] + 1 \in p..Len(frags)
                             /\ (l[k] + 2) + 1 = (l[k] + 1) + 2
                             /\ \A x \in Nat : e[k] < x /\ x <= l[k] => x \in p..Len(frags)
      <4> DEFINE a == e[k]
                 b == l[k]
                 len == Len(frags)
      <4>1. /\ a \in Nat /\ b \in Nat /\ p \in Nat /\ len \in Nat
            /\ a >= 1 /\ b >= a /\ b <= len /\ p >= 2 /\ p <= len + 1
        BY <3>a, <3>b
      <4> HIDE DEF a, b, len
      <4>2. /\ b <= p - 1 => a \in 1..(p - 1) /\ \A x \in Nat : a < x /\ x <= b => x \in 1..(p - 1)
            /\ b = p - 1 => /\ p + 1 <= len + 2 /\ (p - 1 < len <=> p + 1 < len + 2)
                            /\ p - 1 < len => p \in p..len
            /\ a > p - 1 => /\ a \in p..len /\ b + 2 <= len + 2 /\ (b < len <=> b + 2 < len + 2)
                            /\ b < len => b + 1 \in p..len
                            /\ (b + 2) + 1 = (b + 1) + 2
                            /\ \A x \in Nat : a < x /\ x <= b => x \in p..len
        BY <4>1, Places
      <4> QED BY <4>2 DEF a, b, len
    <3>d. /\ islands[k].entry = frags[e[k]].id
          /\ islands[k].exit = IF l[k] < Len(frags) THEN frags[l[k] + 1].id ELSE 0
          /\ \A j \in 1..m : frags[e[k] + 2 * j].id = islands[k].stubs[j].id
      BY <2>1, <3>1, <3>a
    <3>3. CASE k < i
      <4>1. l[k] < p - 1 /\ k # i /\ ~(k >= i) /\ ~(k > i)
        <5>1. l[k] < e[i]
          BY <1>4, <1>10, <2>5, <3>3 DEF t
        <5>2. e[i] \in Nat /\ e[i] <= l[i] /\ l[i] \in Nat
          BY <1>9
        <5> QED BY <2>1, <3>2, <3>3, <5>1, <5>2
      <4>2. d[k] = e[k] /\ LastAt(d, k)' = l[k] /\ islands'[k].stubs = islands[k].stubs
        BY <1>11, <2>2, <4>1
      <4>3. e[k] \in 1..(p - 1) /\ l[k] + 1 \in 1..(p - 1) /\ l[k] < Len(frags) /\ l[k] < Len(out)
        BY <3>a, <3>b, <4>1
      <4>4. \A j \in 1..m : e[k] + 2 * j \in 1..(p - 1)
        <5>1. l[k] <= p - 1
          BY <3>a, <3>b, <4>1
        <5> QED BY <3>c, <3>e, <5>1
      <4>5. \A j \in DOMAIN islands'[k].stubs : new[d[k] + 2 * j].id = islands'[k].stubs[j].id
        <5> SUFFICES ASSUME NEW j \in 1..m PROVE new[d[k] + 2 * j].id = islands[k].stubs[j].id
          BY <3>a, <4>2
        <5> DEFINE x == e[k] + 2 * j
        <5>1. x \in 1..(p - 1) /\ d[k] + 2 * j = x
          BY <4>2, <4>4
        <5>2. frags[x].id = islands[k].stubs[j].id
          BY <3>d
        <5> HIDE DEF x
        <5>3. out[x] = frags[x]
          BY <1>6, <5>1
        <5> QED BY <3>1, <5>1, <5>2, <5>3
      <4>6. new[d[k]] = frags[e[k]] /\ new[l[k] + 1] = frags[l[k] + 1]
        BY <1>6, <3>1, <4>2, <4>3
      <4> QED BY <3>1, <3>a, <3>b, <3>d, <4>2, <4>3, <4>5, <4>6
    <3>4. CASE k = i
      <4>1. d[k] = e[k] /\ LastAt(d, k)' = p + 1
        BY <1>6, <1>11, <2>5, <3>2, <3>4 DEF t
      <4>2. /\ e[k] \in 1..(p - 1) /\ l[k] = p - 1 /\ p + 1 <= Len(out) /\ (p - 1 < Len(frags) <=> p + 1 < Len(out))
            /\ p - 1 < Len(frags) => p \in p..Len(frags)
            /\ \A j \in 1..m : e[k] + 2 * j \in 1..(p - 1)
            /\ e[k] + 2 * (m + 1) = p + 1
        <5>1. l[k] = p - 1
          BY <3>2, <3>4
        <5>2. /\ e[k] \in 1..(p - 1) /\ p + 1 <= Len(out) /\ (p - 1 < Len(frags) <=> p + 1 < Len(out))
              /\ p - 1 < Len(frags) => p \in p..Len(frags)
          <6>1. l[k] <= p - 1
            BY <3>b, <5>1
          <6> QED BY <3>b, <3>e, <5>1, <6>1
        <5>3. \A j \in 1..m : e[k] + 2 * j \in 1..(p - 1)
          <6>1. l[k] <= p - 1
            BY <3>b, <5>1
          <6> QED BY <3>c, <3>e, <6>1
        <5>4. e[k] + 2 * (m + 1) = p + 1
          BY <3>a, <3>b, <3>c, <5>1
        <5> QED BY <5>1, <5>2, <5>3, <5>4
      <4>3. p - 1 < Len(frags) => out[(p + 1) + 1].id = frags[(p - 1) + 1].id
        <5>1. (p + 1) + 1 = p + 2 /\ (p - 1) + 1 = p
          BY <1>6
        <5> QED BY <1>6, <4>2, <5>1
      <4>4. ASSUME NEW j \in DOMAIN islands'[k].stubs
            PROVE  out[e[k] + 2 * j].id = islands'[k].stubs[j].id
        <5>1. islands'[k].stubs = Append(islands[k].stubs, stub) /\ islands[k].stubs \in Seq(Stubs)
          BY <1>1, <1>5, <3>4, StubIn
        <5>2. /\ j \in 1..m \/ j = m + 1
              /\ j \in 1..m => islands'[k].stubs[j] = islands[k].stubs[j]
              /\ j = m + 1 => islands'[k].stubs[j] = stub
          BY <5>1 DEF m
        <5>3. CASE j \in 1..m
          BY <1>6, <2>1, <3>1, <3>a, <4>2, <5>2, <5>3
        <5>4. CASE j = m + 1
          BY <1>5, <1>6, <4>2, <5>2, <5>4
        <5> QED BY <5>2, <5>3, <5>4
      <4>5. out[e[k]] = frags[e[k]]
        BY <1>6, <4>2
      <4> QED BY <3>1, <3>a, <3>d, <4>1, <4>2, <4>3, <4>4, <4>5
    <3>5. CASE k > i
      <4>1. e[k] > p - 1 /\ k # i /\ k >= i
        <5>1. l[i] < e[k]
          BY <1>4, <1>10, <2>5, <3>5 DEF t
        <5> QED BY <2>1, <3>2, <3>5, <5>1
      <4>2. d[k] = e[k] + 2 /\ LastAt(d, k)' = l[k] + 2 /\ islands'[k].stubs = islands[k].stubs
        BY <1>11, <2>2, <2>5, <3>5, <4>1 DEF t
      <4>3. /\ e[k] \in p..Len(frags) /\ l[k] + 2 <= Len(out) /\ (l[k] < Len(frags) <=> l[k] + 2 < Len(out))
            /\ l[k] < Len(frags) => l[k] + 1 \in p..Len(frags)
            /\ (l[k] + 2) + 1 = (l[k] + 1) + 2
        BY <3>b, <3>e, <4>1
      <4>4. \A j \in 1..m : e[k] + 2 * j \in p..Len(frags) /\ (e[k] + 2) + 2 * j = (e[k] + 2 * j) + 2
        BY <3>c, <3>e, <4>1
      <4>5. \A j \in DOMAIN islands'[k].stubs : new[d[k] + 2 * j].id = islands'[k].stubs[j].id
        <5> SUFFICES ASSUME NEW j \in 1..m PROVE new[d[k] + 2 * j].id = islands[k].stubs[j].id
          BY <3>a, <4>2
        <5> DEFINE x == e[k] + 2 * j
        <5>1. x \in p..Len(frags) /\ d[k] + 2 * j = x + 2
          BY <4>2, <4>4
        <5>2. frags[x].id = islands[k].stubs[j].id
          BY <3>d
        <5> HIDE DEF x
        <5>3. out[x + 2] = frags[x]
          BY <1>6, <5>1
        <5> QED BY <3>1, <5>1, <5>2, <5>3
      <4>6. /\ new[d[k]] = frags[e[k]]
            /\ l[k] < Len(frags) => new[LastAt(d, k)' + 1] = frags[l[k] + 1]
        BY <1>6, <3>1, <4>2, <4>3
      <4>7. d[k] \in Nat /\ d[k] >= 1
        BY <3>a, <4>2
      <4> QED BY <3>1, <3>d, <4>2, <4>3, <4>5, <4>6, <4>7
    <3> QED BY <2>1, <3>2, <3>3, <3>4, <3>5
  <2> QED BY <2>4, <2>5
<1>14. Ordered(d)'
  <2> SUFFICES ASSUME NEW k \in DOMAIN islands, NEW m \in DOMAIN islands, k < m,
                      islands[k].section = islands[m].section
               PROVE  LastAt(d, k)' < d[m]
    BY <1>5 DEF Ordered
  <2>1. l[k] < e[m] /\ l[k] \in Nat /\ e[m] \in Nat /\ k \in Nat /\ m \in Nat /\ i \in Nat
    BY <1>9, <1>10
  <2> QED BY <1>11, <2>1
<1>15. Breaks(d)'
  <2>1. ASSUME NEW t \in DOMAIN sections, NEW q \in DOMAIN sections[t].frags, NEW r,
               r \in DOMAIN sections'[t].frags, r - 1 \in DOMAIN sections'[t].frags,
               sections'[t].frags[r] = sections[t].frags[q],
               sections'[t].frags[r - 1] = sections[t].frags[q - 1],
               \A k \in DOMAIN islands : islands[k].section = t /\ q = LastAt(e, k) + 1 => r = LastAt(d, k)' + 1,
               BrokenAt(e, t, q)
        PROVE  BrokenAt(d, t, r)'
    <3>1. PICK k \in DOMAIN islands :
             /\ islands[k].section = t /\ islands[k].stubs # <<>> /\ q = LastAt(e, k) + 1
             /\ sections[t].frags[q].at < EndOfFragment(sections[t].frags[q - 1])
      BY <2>1 DEF BrokenAt
    <3>2. islands'[k].stubs # <<>>
      <4>1. islands[i].stubs \in Seq(Stubs)
        BY <1>1, StubIn
      <4> QED BY <1>5, <3>1, <4>1
    <3> QED BY <1>5, <2>1, <3>1, <3>2 DEF BrokenAt
  <2>2. \A t \in DOMAIN sections : \A q \in DOMAIN sections[t].frags :
            ChainedAt(sections[t].frags, q) \/ BrokenAt(e, t, q)
    BY <1>2 DEF Laid, Breaks
  <2>3. ASSUME NEW t \in DOMAIN sections, t # s, NEW q \in DOMAIN sections[t].frags
        PROVE  ChainedAt(sections'[t].frags, q) \/ BrokenAt(d, t, q)'
    <3>1. sections'[t] = sections[t]
      BY <1>7, <2>3
    <3>2. CASE ChainedAt(sections[t].frags, q)
      BY <3>1, <3>2
    <3>3. CASE ~ChainedAt(sections[t].frags, q)
      <4>1. BrokenAt(e, t, q)
        BY <2>2, <3>3
      <4>2. PICK k \in DOMAIN islands :
               /\ islands[k].section = t /\ islands[k].stubs # <<>> /\ q = LastAt(e, k) + 1
               /\ sections[t].frags[q].at < EndOfFragment(sections[t].frags[q - 1])
        BY <4>1 DEF BrokenAt
      <4>3. k # i /\ LastAt(d, k)' = l[k] /\ l[k] = LastAt(e, k) /\ islands'[k].stubs = islands[k].stubs
        BY <1>4, <1>5, <1>8, <1>11, <2>3, <4>2
      <4> QED BY <1>5, <3>1, <4>2, <4>3 DEF BrokenAt
    <3> QED BY <3>2, <3>3
  <2>4. ASSUME NEW q \in DOMAIN out PROVE ChainedAt(out, q) \/ BrokenAt(d, s, q)'
    <3>1. CASE q < p
      <4>1. q \in 1..(p - 1) /\ q \in DOMAIN frags /\ (q # 1 => q - 1 \in 1..(p - 1))
        BY <1>6, <3>1
      <4>2. out[q] = frags[q] /\ (q # 1 => out[q - 1] = frags[q - 1])
        BY <1>6, <4>1
      <4>3. CASE ChainedAt(frags, q)
        BY <4>2, <4>3 DEF ChainedAt
      <4>4. CASE ~ChainedAt(frags, q)
        <5>1. BrokenAt(e, s, q)
          BY <1>4, <1>6, <2>2, <4>1, <4>4
        <5>2. \A k \in DOMAIN islands : islands[k].section = s /\ q = l[k] + 1 => q = LastAt(d, k)' + 1 /\ q # 1
          <6> SUFFICES ASSUME NEW k \in DOMAIN islands, islands[k].section = s, q = l[k] + 1
                       PROVE  q = LastAt(d, k)' + 1 /\ q # 1
            OBVIOUS
          <6>1. /\ i \in Nat /\ k \in Nat /\ l[k] \in Nat /\ e[k] \in Nat /\ e[k] >= 1 /\ l[k] >= e[k]
                /\ i < k => l[i] < e[k]
            BY <1>4, <1>9, <1>10
          <6>2. ~(k >= i)
            <7>1. p \in Nat /\ l[i] = p - 1 /\ l[k] + 1 < p
              BY <1>6, <1>10, <3>1
            <7> QED BY <6>1, <7>1
          <6> QED BY <1>11, <6>1, <6>2
        <5>3. PICK k \in DOMAIN islands : /\ islands[k].section = s /\ q = LastAt(e, k) + 1
          BY <5>1 DEF BrokenAt
        <5>4. q # 1
          BY <1>8, <5>2, <5>3
        <5>5. /\ sections'[s].frags = out /\ sections[s].frags = frags /\ q - 1 \in DOMAIN out
              /\ \A j \in DOMAIN islands : l[j] = LastAt(e, j)
          BY <1>4, <1>6, <1>7, <1>8, <5>4
        <5>6. q \in DOMAIN out /\ s \in DOMAIN sections
          BY <1>6
        <5> QED BY <2>1, <4>1, <4>2, <5>1, <5>2, <5>4, <5>5, <5>6
      <4> QED BY <4>3, <4>4
    <3>2. CASE q = p \/ q = p + 1
      <4>1. (p + 1) - 1 = p /\ p # 1 /\ p + 1 # 1
        BY <1>6
      <4> QED BY <1>6, <3>2, <4>1 DEF ChainedAt
    <3>3. CASE q = p + 2
      <4>1. /\ p \in p..Len(frags) /\ p \in DOMAIN frags /\ p - 1 \in DOMAIN frags /\ p # 1
            /\ (p + 2) - 1 = p + 1
        BY <1>6, <3>3
      <4>2. out[p + 2] = frags[p]
        BY <1>6, <4>1
      <4>3. frags[p].at <= EndOfFragment(frags[p - 1])
        <5>1. frags[p] \in FragType /\ frags[p - 1] \in FragType
          BY <1>6, <4>1
        <5>2. frags[p].at \in Nat
          BY <5>1 DEF FragType
        <5>3. EndOfFragment(frags[p - 1]) \in Nat
          BY <5>1, EndNat
        <5>4. CASE ChainedAt(frags, p)
          BY <4>1, <5>2, <5>3, <5>4 DEF ChainedAt
        <5>5. CASE BrokenAt(e, s, p)
          <6>1. frags[p].at < EndOfFragment(frags[p - 1])
            BY <1>4, <5>5 DEF BrokenAt
          <6> QED BY <5>2, <5>3, <6>1
        <5> QED BY <1>4, <1>6, <2>2, <4>1, <5>4, <5>5
      <4>4. out[p + 2].at < EndOfFragment(out[(p + 2) - 1])
        <5>1. frags[p] \in FragType /\ frags[p - 1] \in FragType /\ out[p + 1] \in FragType
          <6>1. p + 1 \in DOMAIN out
            BY <1>6
          <6> QED BY <1>6, <4>1, <6>1
        <5>2. frags[p].at \in Nat
          BY <5>1 DEF FragType
        <5>3. EndOfFragment(frags[p - 1]) \in Nat /\ EndOfFragment(out[p + 1]) \in Nat
          BY <5>1, EndNat
        <5> QED BY <1>6, <4>1, <4>2, <4>3, <5>2, <5>3
      <4>5. islands'[i].stubs # <<>>
        <5>1. islands[i].stubs \in Seq(Stubs)
          BY <1>1, StubIn
        <5>2. islands'[i].stubs = Append(islands[i].stubs, stub)
          BY <1>5
        <5> QED BY <5>1, <5>2
      <4>6. LastAt(d, i)' + 1 = p + 2 /\ islands'[i].section = s /\ sections'[s].frags = out
        BY <1>4, <1>5, <1>6, <1>7, <1>10, <1>11
      <4> QED BY <1>5, <3>3, <4>4, <4>5, <4>6 DEF BrokenAt
    <3>4. CASE q > p + 2
      <4> DEFINE r == q - 2
      <4>1. /\ r \in p..Len(frags) /\ r - 1 \in p..Len(frags) /\ r \in DOMAIN frags /\ r # 1 /\ q # 1
            /\ r + 2 = q /\ (r - 1) + 2 = q - 1 /\ q - 1 \in DOMAIN out /\ r > p /\ r \in Nat
        <5>1. /\ p \in Nat /\ p >= 2 /\ Len(frags) \in Nat /\ DOMAIN frags = 1..Len(frags)
              /\ DOMAIN out = 1..(Len(frags) + 2)
          BY <1>6
        <5>2. q \in 1..(Len(frags) + 2)
          BY <5>1
        <5> QED BY <3>4, <5>1, <5>2
      <4> HIDE DEF r
      <4>2. out[q] = frags[r] /\ out[q - 1] = frags[r - 1]
        BY <1>6, <4>1
      <4>3. CASE ChainedAt(frags, r)
        BY <4>1, <4>2, <4>3 DEF ChainedAt
      <4>4. CASE ~ChainedAt(frags, r)
        <5>1. BrokenAt(e, s, r)
          BY <1>4, <1>6, <2>2, <4>1, <4>4
        <5>2. \A k \in DOMAIN islands : islands[k].section = s /\ r = l[k] + 1 => q = LastAt(d, k)' + 1
          <6> SUFFICES ASSUME NEW k \in DOMAIN islands, islands[k].section = s, r = l[k] + 1
                       PROVE  q = LastAt(d, k)' + 1
            OBVIOUS
          <6>1. /\ i \in Nat /\ k \in Nat /\ l[k] \in Nat /\ e[i] \in Nat /\ l[i] >= e[i] /\ l[i] \in Nat
                /\ k < i => l[k] < e[i]
            BY <1>4, <1>9, <1>10
          <6>2. k >= i
            <7>1. p \in Nat /\ l[i] = p - 1 /\ l[k] + 1 > p
              BY <1>6, <1>10, <4>1
            <7> QED BY <6>1, <7>1
          <6>3. LastAt(d, k)' = l[k] + 2
            BY <1>11, <6>2
          <6> QED BY <4>1, <6>1, <6>3
        <5>3. /\ sections'[s].frags = out /\ sections[s].frags = frags
              /\ \A j \in DOMAIN islands : l[j] = LastAt(e, j)
          BY <1>4, <1>7, <1>8
        <5>4. q \in DOMAIN out /\ s \in DOMAIN sections
          BY <1>6
        <5> QED BY <2>1, <4>1, <4>2, <5>1, <5>2, <5>3, <5>4
      <4> QED BY <4>3, <4>4
    <3> QED BY <1>6, <3>1, <3>2, <3>3, <3>4
  <2>5. ASSUME NEW t \in DOMAIN sections, NEW q \in DOMAIN sections'[t].frags
        PROVE  ChainedAt(sections'[t].frags, q) \/ BrokenAt(d, t, q)'
    <3>1. CASE t = s
      BY <1>7, <2>4, <3>1
    <3>2. CASE t # s
      BY <1>7, <2>3, <3>2
    <3> QED BY <3>1, <3>2
  <2> QED BY <1>7, <2>5 DEF Breaks
<1>16. Laid(d)'
  BY <1>1, <1>5, <1>13, <1>14, <1>15 DEF Laid
<1>17. ReachInv'
  BY <1>1 DEF ReachInv
<1> QED BY <1>7, <1>12, <1>16, <1>17 DEF LayoutInv

LEMMA NextLayout ==
  ASSUME BaseInv, LayoutInv, [Next]_vars
  PROVE  LayoutInv'
<1>1. CASE Group
  BY <1>1, GroupLayout
<1>2. CASE KeepBranch \/ ReuseStub
  <2>1. UNCHANGED <<phase, failed, sections, islands>>
    BY <1>2 DEF KeepBranch, ReuseStub
  <2> QED BY <2>1, QuietLayout
<1>3. CASE CreateStub
  BY <1>3, CreateLayout
<1>4. CASE CheckIslands
  BY <1>4, CheckLayout
<1>5. CASE Done \/ UNCHANGED vars
  <2>1. UNCHANGED <<phase, failed, sections, islands>>
    BY <1>5 DEF Done, vars
  <2> QED BY <2>1, QuietLayout
<1> QED BY <1>1, <1>2, <1>3, <1>4, <1>5 DEF Next

(* Fragments that are chained lie one behind the other.                      *)
LEMMA ChainGrows ==
  ASSUME NEW frags \in Seq(FragType), \A p \in DOMAIN frags : ChainedAt(frags, p),
         NEW a \in DOMAIN frags, NEW b \in DOMAIN frags, a <= b
  PROVE  frags[a].at <= EndOfFragment(frags[b]) /\ frags[a].at \in Nat
<1> DEFINE Bad == {q \in DOMAIN frags : a <= q /\ ~(frags[a].at <= frags[q].at)}
<1>0. DOMAIN frags = 1..Len(frags) /\ Len(frags) \in Nat
  OBVIOUS
<1>1. \A q \in DOMAIN frags : frags[q] \in FragType /\ frags[q].at \in Nat
  <2>1. \A q \in DOMAIN frags : frags[q] \in FragType
    OBVIOUS
  <2> QED BY <2>1 DEF FragType
<1>2. \A q \in DOMAIN frags : EndOfFragment(frags[q]) \in Nat /\ frags[q].at <= EndOfFragment(frags[q])
  <2> SUFFICES ASSUME NEW q \in DOMAIN frags
               PROVE  EndOfFragment(frags[q]) \in Nat /\ frags[q].at <= EndOfFragment(frags[q])
    OBVIOUS
  <2>1. FragmentSize(frags[q]) \in Nat /\ frags[q].at \in Nat
    BY <1>1, EndNat
  <2> QED BY <2>1 DEF EndOfFragment
<1>3. Bad \in SUBSET Nat
  BY <1>0
<1>4. ASSUME Bad # {} PROVE FALSE
  <2>1. PICK q \in Bad : \A y \in Bad : q <= y
    <3> HIDE DEF Bad
    <3> QED BY <1>3, <1>4, SmallestNat
  <2>2. q \in DOMAIN frags /\ a <= q /\ ~(frags[a].at <= frags[q].at)
    BY <2>1
  <2>3. q # a
    BY <1>1, <2>2
  <2>4. q - 1 \in DOMAIN frags /\ a <= q - 1 /\ q # 1 /\ ~(q <= q - 1)
    BY <1>0, <2>2, <2>3
  <2>5. q - 1 \notin Bad
    BY <2>1, <2>4
  <2>6. frags[a].at <= frags[q - 1].at
    BY <2>4, <2>5
  <2>7. frags[q].at = EndOfFragment(frags[q - 1])
    BY <2>2, <2>4 DEF ChainedAt
  <2>8. /\ frags[a].at \in Nat /\ frags[q].at \in Nat /\ frags[q - 1].at \in Nat
        /\ frags[q - 1].at <= EndOfFragment(frags[q - 1])
    BY <1>1, <1>2, <2>2, <2>4
  <2> QED BY <2>2, <2>6, <2>7, <2>8
<1>5. frags[a].at <= frags[b].at
  BY <1>4
<1>6. /\ frags[a].at \in Nat /\ frags[b].at \in Nat /\ EndOfFragment(frags[b]) \in Nat
      /\ frags[b].at <= EndOfFragment(frags[b])
  BY <1>1, <1>2
<1> QED BY <1>5, <1>6

LEMMA LaidFits ==
  ASSUME BaseInv, LayoutInv, phase = "done", ~failed
  PROVE  AllChained /\ \A i \in DOMAIN islands : Size(islands[i]) \in 0..StubGroupSize
<1>1. PICK e : Laid(e)
  BY DEF LayoutInv
<1>2. IslandsInv /\ SectionsInv /\ IdsInv /\ AllChained /\ Fits(e) /\ StubGroupSize \in Nat
  BY <1>1, ConstantsNat DEF Laid, BaseInv, LayoutInv
<1>3. ASSUME NEW i \in DOMAIN islands PROVE Size(islands[i]) \in 0..StubGroupSize
  <2>1. CASE islands[i].stubs = <<>>
    BY <1>2, <2>1 DEF Size
  <2>2. CASE islands[i].stubs # <<>>
    <3> DEFINE s == islands[i].section
               frags == sections[s].frags
               a == e[i] + 1
               b == LastAt(e, i)
    <3>1. /\ s \in DOMAIN sections /\ frags \in Seq(FragType) /\ b \in DOMAIN frags /\ a \in DOMAIN frags
          /\ Size(islands[i]) = EndOfFragment(frags[b]) - frags[a].at
          /\ Len(islands[i].stubs) >= 1 /\ Len(islands[i].stubs) \in Nat
          /\ b = e[i] + 2 * Len(islands[i].stubs) /\ e[i] \in Nat
      BY <1>1, <1>2, <2>2, IslandIs DEF Laid
    <3>2. a <= b
      BY <3>1
    <3>3. EndOfFragment(frags[b]) - frags[a].at <= StubGroupSize
      BY <1>2, <2>2 DEF Fits
    <3>4. \A p \in DOMAIN frags : ChainedAt(frags, p)
      BY <1>2, <3>1 DEF AllChained
    <3> HIDE DEF frags, a, b
    <3>5. frags[a].at <= EndOfFragment(frags[b]) /\ frags[a].at \in Nat
      BY <3>1, <3>2, <3>4, ChainGrows
    <3>6. EndOfFragment(frags[b]) \in Nat
      <4>1. frags[b] \in FragType
        BY <3>1
      <4> QED BY <4>1, EndNat
    <3> QED BY <1>2, <3>1, <3>3, <3>5, <3>6
  <2> QED BY <2>1, <2>2
<1> QED BY <1>2, <1>3

(* What relax keeps of the islands and the fragments, over every pass.       *)
LEMMA LayoutAlways ==
  ASSUME \A program \in Programs : PaddingInReach(program)
  PROVE  Spec => [](BaseInv /\ LayoutInv)
<1>1. Init => BaseInv /\ LayoutInv
  BY InitArrive, InitLayout
<1>2. BaseInv /\ LayoutInv /\ [Next]_vars => (BaseInv /\ LayoutInv)'
  BY NextArrives, NextLayout
<1> QED BY <1>1, <1>2, PTL DEF Spec

(* When relaxation has finished every fragment of a code section lies where  *)
(* the one before it ends, stubs and exits of islands included, however many  *)
(* passes have put stubs between them (BranchIsland::addStub, the resetting  *)
(* of offsets in ARMGNULDBackend::doRelax), for programs that group does not  *)
(* part twice at one fragment.                                               *)
THEOREM FragmentsAlwaysChained ==
  ASSUME \A program \in Programs : PaddingInReach(program)
  PROVE  Spec => []FragmentsChained
<1>1. BaseInv /\ LayoutInv => FragmentsChained
  <2> SUFFICES ASSUME BaseInv, LayoutInv, phase = "done", ~failed, NEW s \in DOMAIN sections
               PROVE  sections[s].frags = Chain(sections[s].frags, 0)
    BY DEF FragmentsChained
  <2>1. sections[s].frags \in Seq(FragType)
    BY FragsTyped DEF LayoutInv
  <2>2. AllChained
    BY LaidFits
  <2>3. \A p \in DOMAIN sections[s].frags :
           sections[s].frags[p].at = IF p = 1 THEN 0 ELSE EndOfFragment(sections[s].frags[p - 1])
    BY <2>2 DEF AllChained, ChainedAt
  <2> QED BY <2>1, <2>3, ChainUnique
<1> QED BY <1>1, LayoutAlways, PTL

(* The variables of relax keep their types, the symbols of the branches are  *)
(* known, and no island outgrows the space it has (ARMGNULDBackend::doRelax,  *)
(* BranchIsland::size), for programs that group does not part twice at one   *)
(* fragment.                                                                 *)
THEOREM TypeCorrect ==
  ASSUME \A program \in Programs : PaddingInReach(program)
  PROVE  Spec => []TypeOK
<1>1. BaseInv /\ LayoutInv => TypeOK
  <2> SUFFICES ASSUME BaseInv, LayoutInv PROVE TypeOK
    OBVIOUS
  <2>1. PlainInv
    BY DEF BaseInv
  <2>2. \A b \in DOMAIN branches : branches[b].symbol \in DOMAIN symbols
    <3> SUFFICES ASSUME NEW b \in DOMAIN branches PROVE branches[b].symbol \in DOMAIN symbols
      OBVIOUS
    <3>1. branches[b] \in BranchType
      BY DEF BaseInv, BranchesInv
    <3> QED BY <3>1, BranchFields
  <2>3. phase = "done" /\ ~failed => \A i \in DOMAIN islands : Size(islands[i]) \in 0..StubGroupSize
    BY LaidFits
  <2> QED BY <2>1, <2>2, <2>3, Zenon DEF PlainInv, TypeOK
<1> QED BY <1>1, LayoutAlways, PTL
=============================================================================
