------------------------- MODULE SymbolCategoryProofs -------------------------
(***************************************************************************)
(* Theorems about SymbolCategory for any set of symbols and any sequence   *)
(* of its operations.                                                      *)
(*                                                                         *)
(* One lemma per elementary move of the code: a symbol that is on its way  *)
(* is either waiting between two ranges (add) or is the one symbol that    *)
(* may lie in a range that is not its own (arrange).                       *)
(***************************************************************************)
EXTENDS SymbolCategory, TLAPS

Tables == [syms : Seq(Symbols), begin : [Cats -> Nat], end : [Cats -> Nat]]

Distinct(T) ==
  \A p, q \in 0 .. (Len(T.syms) - 1) : At(T, p) = At(T, q) => p = q

\* The ranges follow one another; behind range k there is room for one symbol.
\* k = -1: there is no such room.
Chained(T, k) ==
  /\ T.begin[File] = 0
  /\ \A c \in Cats : T.begin[c] =< T.end[c]
  /\ \A c, d \in Cats : d = c + 1 => T.begin[d] = T.end[c] + (IF c = k THEN 1 ELSE 0)
  /\ Len(T.syms) = T.end[Regular] + (IF k = Regular THEN 1 ELSE 0)

\* x waits behind range k, every other symbol lies in the range h names.
Waiting(T, x, k, h) ==
  /\ Chained(T, k)
  /\ Distinct(T)
  /\ At(T, T.end[k]) = x
  /\ \A c \in Cats : \A p \in RangeOf(T, c) : h[At(T, p)] = c

\* x is at position p of range c, every other symbol lies in the range h names.
OnItsWay(T, p, c, x, h) ==
  /\ Chained(T, -1)
  /\ Distinct(T)
  /\ p \in RangeOf(T, c)
  /\ At(T, p) = x
  /\ \A d \in Cats : \A q \in RangeOf(T, d) : q # p => h[At(T, q)] = d

InPlace(T, h) ==
  /\ Chained(T, -1)
  /\ Distinct(T)
  /\ \A c \in Cats : \A p \in RangeOf(T, c) : h[At(T, p)] = c

-----------------------------------------------------------------------------
(* Positions and ranges.                                                   *)

\* U is T with the symbols at i and j swapped.
Swapped(U, T, i, j) ==
  /\ Len(U.syms) = Len(T.syms)
  /\ \A p \in 0 .. (Len(T.syms) - 1) :
       At(U, p) = IF p = j THEN At(T, i) ELSE IF p = i THEN At(T, j) ELSE At(T, p)

LEMMA SwapLaw ==
  ASSUME NEW T \in Tables, NEW U,
         NEW i \in 0 .. (Len(T.syms) - 1), NEW j \in 0 .. (Len(T.syms) - 1),
         U.syms = Swap(T.syms, i, j)
  PROVE  U.syms \in Seq(Symbols) /\ Swapped(U, T, i, j)
<1>1. T.syms \in Seq(Symbols) /\ Len(T.syms) \in Nat
  BY DEF Tables
<1>2. i + 1 \in 1 .. Len(T.syms) /\ j + 1 \in 1 .. Len(T.syms)
  BY <1>1
<1>3. T.syms[i + 1] \in Symbols /\ T.syms[j + 1] \in Symbols
  BY <1>1, <1>2
<1>4. U.syms \in Seq(Symbols) /\ Len(U.syms) = Len(T.syms)
  BY <1>1, <1>2, <1>3 DEF Swap
<1>5. \A p \in 0 .. (Len(T.syms) - 1) :
        U.syms[p + 1] = IF p = j THEN T.syms[i + 1]
                        ELSE IF p = i THEN T.syms[j + 1] ELSE T.syms[p + 1]
  BY <1>1, <1>2, <1>3 DEF Swap
<1> QED BY <1>4, <1>5 DEF Swapped, At

\* The symbols of the vector.
Members(T) == {At(T, p) : p \in 0 .. (Len(T.syms) - 1)}

LEMMA MembersInTable ==
  ASSUME NEW T, NEW x
  PROVE  InTable(T, x) <=> x \in Members(T)
BY DEF InTable, Positions, Members

LEMMA SwappedMembers ==
  ASSUME NEW T \in Tables, NEW U,
         NEW i \in 0 .. (Len(T.syms) - 1), NEW j \in 0 .. (Len(T.syms) - 1),
         Swapped(U, T, i, j)
  PROVE  Members(U) = Members(T)
<1> DEFINE P == 0 .. (Len(T.syms) - 1)
           f == [p \in P |-> IF p = j THEN i ELSE IF p = i THEN j ELSE p]
<1>1. /\ f \in [P -> P]
      /\ \A p \in P : f[f[p]] = p
  OBVIOUS
<1>2. /\ \A p \in P : At(U, p) = At(T, f[p])
      /\ Len(U.syms) = Len(T.syms)
  BY DEF Swapped
<1>3. Members(U) = {At(U, p) : p \in P} /\ Members(T) = {At(T, p) : p \in P}
  BY <1>2 DEF Members
<1> HIDE DEF f, P
<1>4. ASSUME NEW p \in P PROVE At(U, p) \in {At(T, q) : q \in P}
  BY <1>1, <1>2, <1>4
<1>5. ASSUME NEW p \in P PROVE At(T, p) \in {At(U, q) : q \in P}
  <2>1. f[p] \in P /\ At(U, f[p]) = At(T, p)
    BY <1>1, <1>2, <1>5
  <2> QED BY <2>1
<1> QED BY <1>3, <1>4, <1>5

LEMMA SwappedDistinct ==
  ASSUME NEW T \in Tables, NEW U, Distinct(T),
         NEW i \in 0 .. (Len(T.syms) - 1), NEW j \in 0 .. (Len(T.syms) - 1),
         Swapped(U, T, i, j)
  PROVE  Distinct(U)
<1> DEFINE P == 0 .. (Len(T.syms) - 1)
           f == [p \in P |-> IF p = j THEN i ELSE IF p = i THEN j ELSE p]
<1>1. f \in [P -> P]
  OBVIOUS
<1>2. \A p, q \in P : f[p] = f[q] => p = q
  OBVIOUS
<1>3. \A p \in P : At(U, p) = At(T, f[p])
  BY DEF Swapped
<1>4. \A p, q \in P : At(T, p) = At(T, q) => p = q
  BY DEF Distinct
<1>5. Len(U.syms) = Len(T.syms)
  BY DEF Swapped
<1> HIDE DEF f
<1>6. ASSUME NEW p \in P, NEW q \in P, At(U, p) = At(U, q)
      PROVE  p = q
  <2>1. f[p] \in P /\ f[q] \in P /\ At(T, f[p]) = At(T, f[q])
    BY <1>1, <1>3, <1>6
  <2> QED BY <1>2, <1>4, <2>1
<1> QED BY <1>5, <1>6 DEF Distinct

\* Six numbers that follow one another are in order.
LEMMA SixInOrder ==
  ASSUME NEW b, NEW e, NEW g, NEW n,
         \A c \in {0, 1, 2, 3, 4, 5} : b[c] \in Nat /\ e[c] \in Nat /\ g[c] \in Nat,
         \A c \in {0, 1, 2, 3, 4, 5} : b[c] =< e[c],
         b[1] = e[0] + g[0], b[2] = e[1] + g[1], b[3] = e[2] + g[2],
         b[4] = e[3] + g[3], b[5] = e[4] + g[4], n = e[5] + g[5],
         NEW c \in {0, 1, 2, 3, 4, 5}
  PROVE  /\ \A d \in {0, 1, 2, 3, 4, 5} : c < d => e[c] + g[c] =< b[d]
         /\ e[c] + g[c] =< n
<1>1. CASE c = 5  BY <1>1
<1>2. CASE c = 4  BY <1>2
<1>3. CASE c = 3  BY <1>3
<1>4. CASE c = 2  BY <1>4
<1>5. CASE c = 1  BY <1>5
<1>6. CASE c = 0  BY <1>6
<1> QED BY <1>1, <1>2, <1>3, <1>4, <1>5, <1>6

\* The ranges are disjoint and in order.
LEMMA InOrder ==
  ASSUME NEW T \in Tables, NEW k \in Cats \cup {-1}, Chained(T, k)
  PROVE  /\ \A c, d \in Cats : c < d => T.end[c] + (IF c = k THEN 1 ELSE 0) =< T.begin[d]
         /\ \A c \in Cats : T.end[c] + (IF c = k THEN 1 ELSE 0) =< Len(T.syms)
         /\ \A c \in Cats : T.begin[c] \in Nat /\ T.end[c] \in Nat /\ T.begin[c] =< T.end[c]
<1> DEFINE g == [c \in Cats |-> IF c = k THEN 1 ELSE 0]
<1>1. /\ \A c \in Cats : T.begin[c] \in Nat /\ T.end[c] \in Nat /\ g[c] \in Nat
      /\ \A c \in Cats : T.begin[c] =< T.end[c]
  BY DEF Tables, Chained
<1>2. /\ T.begin[1] = T.end[0] + g[0]
      /\ T.begin[2] = T.end[1] + g[1]
      /\ T.begin[3] = T.end[2] + g[2]
      /\ T.begin[4] = T.end[3] + g[3]
      /\ T.begin[5] = T.end[4] + g[4]
      /\ Len(T.syms) = T.end[5] + g[5]
  BY DEF Chained, Cats, Regular
<1>3. Cats = {0, 1, 2, 3, 4, 5}
  BY DEF Cats
<1>4. \A c \in Cats : g[c] = IF c = k THEN 1 ELSE 0
  OBVIOUS
<1> HIDE DEF g
<1>5. ASSUME NEW c \in Cats
      PROVE  /\ \A d \in Cats : c < d => T.end[c] + g[c] =< T.begin[d]
             /\ T.end[c] + g[c] =< Len(T.syms)
  <2> DEFINE b == T.begin
             e == T.end
             n == Len(T.syms)
  <2>1. /\ \A x \in {0, 1, 2, 3, 4, 5} : b[x] \in Nat /\ e[x] \in Nat /\ g[x] \in Nat
        /\ \A x \in {0, 1, 2, 3, 4, 5} : b[x] =< e[x]
        /\ c \in {0, 1, 2, 3, 4, 5}
    BY <1>1, <1>3
  <2>2. /\ b[1] = e[0] + g[0]
        /\ b[2] = e[1] + g[1]
        /\ b[3] = e[2] + g[2]
        /\ b[4] = e[3] + g[3]
        /\ b[5] = e[4] + g[4]
        /\ n = e[5] + g[5]
    BY <1>2
  <2> HIDE DEF b, e, n
  <2>3. /\ \A d \in {0, 1, 2, 3, 4, 5} : c < d => e[c] + g[c] =< b[d]
        /\ e[c] + g[c] =< n
    BY SMTT(60), <2>1, <2>2, SixInOrder, Zenon
  <2> QED BY <1>3, <2>3 DEF b, e, n
<1> QED BY <1>1, <1>4, <1>5

LEMMA InVector ==
  ASSUME NEW T \in Tables, NEW k \in Cats \cup {-1}, Chained(T, k)
  PROVE  /\ Len(T.syms) \in Nat
         /\ \A p \in 0 .. (Len(T.syms) - 1) : At(T, p) \in Symbols
         /\ \A c \in Cats : \A p \in RangeOf(T, c) :
              p \in 0 .. (Len(T.syms) - 1) /\ p >= T.begin[c] /\ p < T.end[c]
<1>1. T.syms \in Seq(Symbols) /\ Len(T.syms) \in Nat
  BY DEF Tables
<1>2. \A p \in 0 .. (Len(T.syms) - 1) : p + 1 \in 1 .. Len(T.syms)
  BY <1>1
<1>3. \A p \in 0 .. (Len(T.syms) - 1) : At(T, p) \in Symbols
  BY <1>1, <1>2 DEF At
<1>4. \A c \in Cats : T.begin[c] \in Nat /\ T.end[c] \in Nat /\ T.end[c] =< Len(T.syms)
  BY <1>1, InOrder
<1> QED BY <1>1, <1>3, <1>4 DEF RangeOf

-----------------------------------------------------------------------------
(* add and forceLocal: Push, Shift and Grow.                               *)

LEMMA PushWaits ==
  ASSUME NEW T \in Tables, NEW x \in Symbols, NEW h, InPlace(T, h), ~InTable(T, x)
  PROVE  /\ Push(T, x) \in Tables /\ Waiting(Push(T, x), x, Regular, h)
         /\ Members(Push(T, x)) = Members(T) \cup {x}
<1> DEFINE U == Push(T, x)
           n == Len(T.syms)
<1>1. /\ U \in Tables
      /\ U.begin = T.begin
      /\ U.end = T.end
      /\ U.syms = Append(T.syms, x)
  <2>1. Append(T.syms, x) \in Seq(Symbols)
    BY DEF Tables
  <2> QED BY <2>1 DEF Push, Tables
<1>2. n \in Nat /\ Len(U.syms) = n + 1
  BY <1>1 DEF Tables
<1>3. At(U, n) = x /\ \A p \in 0 .. (n - 1) : At(U, p) = At(T, p)
  BY <1>1, <1>2 DEF At, Tables
<1>4. n = T.end[Regular] /\ Chained(T, -1)
  BY DEF InPlace, Chained, Regular, Tables, Cats
<1>5. Chained(U, Regular)
  BY <1>1, <1>2, <1>4 DEF Chained, Regular, Cats, Tables
<1>6. Distinct(U)
  <2>1. \A p \in 0 .. (n - 1) : At(T, p) # x
    BY DEF InTable, Positions
  <2> QED BY <1>2, <1>3, <2>1 DEF Distinct, InPlace
<1>7. \A c \in Cats : \A p \in RangeOf(U, c) : h[At(U, p)] = c
  <2>1. \A c \in Cats : \A p \in RangeOf(T, c) : p \in 0 .. (n - 1)
    BY <1>4, InVector
  <2> QED BY <1>1, <1>3, <2>1 DEF RangeOf, InPlace
<1>8. Members(U) = Members(T) \cup {x}
  <2>1. 0 .. (Len(U.syms) - 1) = (0 .. (n - 1)) \cup {n}
    BY <1>2
  <2> QED BY <1>3, <2>1 DEF Members
<1> QED BY <1>1, <1>3, <1>4, <1>5, <1>6, <1>7, <1>8 DEF Waiting

LEMMA ShiftWaits ==
  ASSUME NEW T \in Tables, NEW x \in Symbols, NEW h,
         NEW k \in Cats \ {File}, Waiting(T, x, k, h)
  PROVE  /\ Shift(T, k) \in Tables /\ Waiting(Shift(T, k), x, k - 1, h)
         /\ Members(Shift(T, k)) = Members(T)
<1> DEFINE U == Shift(T, k)
           b == T.begin[k]
           e == T.end[k]
           n == Len(T.syms)
<1>1. /\ Chained(T, k) /\ Distinct(T) /\ At(T, e) = x
      /\ k \in Cats /\ k - 1 \in Cats /\ k \in 1..5
  BY DEF Waiting, Cats, File
<1>2. /\ b \in Nat /\ e \in Nat /\ n \in Nat /\ b =< e /\ e < n
      /\ \A c \in Cats : c < k => T.end[c] =< b
      /\ \A c \in Cats : c > k => T.begin[c] > e
      /\ \A c \in Cats : T.begin[c] \in Nat /\ T.end[c] \in Nat
  <2>1. /\ \A c, d \in Cats : c < d => T.end[c] + (IF c = k THEN 1 ELSE 0) =< T.begin[d]
        /\ \A c \in Cats : T.end[c] + (IF c = k THEN 1 ELSE 0) =< n
        /\ \A c \in Cats : T.begin[c] \in Nat /\ T.end[c] \in Nat /\ T.begin[c] =< T.end[c]
    BY <1>1, InOrder
  <2>2. n \in Nat
    BY DEF Tables
  <2>3. ASSUME NEW c \in Cats, c < k
        PROVE  T.end[c] =< b
    <3>1. c # k
      BY <1>1, <2>3 DEF Cats
    <3>2. T.end[c] + (IF c = k THEN 1 ELSE 0) =< T.begin[k]
      BY <1>1, <2>1, <2>3
    <3>3. T.end[c] \in Nat /\ T.begin[k] \in Nat
      BY <1>1, <2>1
    <3> QED BY <3>1, <3>2, <3>3
  <2>4. ASSUME NEW c \in Cats, c > k
        PROVE  T.begin[c] > e
    <3>1. k < c
      BY <1>1, <2>4 DEF Cats
    <3>2. T.end[k] + 1 =< T.begin[c]
      BY <1>1, <2>1, <3>1
    <3>3. T.end[k] \in Nat /\ T.begin[c] \in Nat
      BY <1>1, <2>1
    <3> QED BY <3>2, <3>3
  <2>5. e < n
    BY <1>1, <2>1, <2>2
  <2> QED BY <1>1, <2>1, <2>2, <2>3, <2>4, <2>5
<1>3. /\ \A c \in Cats : /\ U.begin[c] = IF c = k THEN b + 1 ELSE T.begin[c]
                         /\ U.end[c] = IF c = k THEN e + 1 ELSE T.end[c]
      /\ U.begin \in [Cats -> Nat] /\ U.end \in [Cats -> Nat]
      /\ U.syms = IF b = e THEN T.syms ELSE Swap(T.syms, b, e)
  BY SMTT(60), <1>1, <1>2 DEF Shift, Tables
<1>4. U.syms \in Seq(Symbols) /\ Swapped(U, T, b, e)
  <2>1. CASE b = e
    <3>1. T.syms \in Seq(Symbols) /\ U.syms = T.syms
      BY <1>3, <2>1 DEF Tables
    <3> QED BY <2>1, <3>1 DEF At, Swapped
  <2>2. CASE b # e
    <3>1. b \in 0 .. (n - 1) /\ e \in 0 .. (n - 1)
      BY <1>2
    <3>2. U.syms = Swap(T.syms, b, e)
      BY <1>3, <2>2
    <3> QED BY <3>1, <3>2, SwapLaw
  <2> QED BY <2>1, <2>2
<1>5. U \in Tables
  <2>1. U = [syms |-> U.syms, begin |-> U.begin, end |-> U.end]
    BY DEF Shift
  <2> QED BY <1>3, <1>4, <2>1 DEF Tables
<1>6. Chained(U, k - 1)
  <2>1. U.begin[File] = 0
    <3>1. File \in Cats /\ File # k /\ T.begin[File] = 0
      BY <1>1 DEF Chained, Cats, File
    <3> QED BY <1>3, <3>1
  <2>2. \A c \in Cats : U.begin[c] =< U.end[c]
    BY SMTT(60), <1>1, <1>2, <1>3 DEF Chained
  <2>3. ASSUME NEW c \in Cats, NEW d \in Cats, d = c + 1
        PROVE  U.begin[d] = U.end[c] + (IF c = k - 1 THEN 1 ELSE 0)
    <3>1. T.begin[d] = T.end[c] + (IF c = k THEN 1 ELSE 0)
      BY <1>1, <2>3 DEF Chained
    <3>2. c \in Int /\ d \in Int /\ k \in Int
      BY DEF Cats
    <3> QED BY <1>2, <1>3, <2>3, <3>1, <3>2
  <2>4. Len(U.syms) = U.end[Regular] + (IF k - 1 = Regular THEN 1 ELSE 0)
    <3>1. Regular \in Cats /\ k - 1 # Regular /\ Len(U.syms) = n
      BY <1>1, <1>4 DEF Cats, Regular, Swapped
    <3>2. n = T.end[Regular] + (IF k = Regular THEN 1 ELSE 0)
      BY <1>1 DEF Chained
    <3> QED BY <1>2, <1>3, <3>1, <3>2
  <2> QED BY <2>1, <2>2, <2>3, <2>4 DEF Chained
<1>7. Distinct(U)
  BY SMTT(60), <1>1, <1>2, <1>4, SwappedDistinct
<1>8. At(U, U.end[k - 1]) = x
  <2>1. T.begin[k] = T.end[k - 1]
    BY <1>1, <1>2 DEF Chained
  <2>2. U.end[k - 1] = b
    BY <1>1, <1>3, <2>1
  <2> QED BY SMTT(60), <1>1, <1>2, <1>4, <2>2 DEF Swapped
<1>9. ASSUME NEW c \in Cats, NEW p \in RangeOf(U, c)
      PROVE  h[At(U, p)] = c
  <2>1. \A d \in Cats : \A q \in RangeOf(T, d) : h[At(T, q)] = d
    BY DEF Waiting
  <2>2. \A d \in Cats : \A q \in RangeOf(T, d) : q \in 0 .. (n - 1)
    BY <1>1, InVector
  <2>3. CASE c # k
    <3>1. p \in RangeOf(T, c) /\ p # b /\ p # e
      <4>1. c < k \/ c > k
        BY <2>3 DEF Cats
      <4> QED BY SMTT(60), <1>2, <1>3, <2>3, <4>1 DEF RangeOf
    <3> QED BY <1>4, <2>1, <2>2, <3>1 DEF Swapped
  <2>4. CASE c = k
    <3>1. p \in (b + 1) .. e
      BY SMTT(60), <1>1, <1>2, <1>3, <2>4 DEF RangeOf
    <3>2. CASE p = e
      <4>1. b \in RangeOf(T, k)
        BY <1>2, <3>1, <3>2 DEF RangeOf
      <4> QED BY SMTT(60), <1>1, <1>2, <1>4, <2>1, <2>4, <3>2, <4>1 DEF Swapped
    <3>3. CASE p # e
      <4>1. p \in RangeOf(T, k) /\ p # b
        BY <1>2, <3>1, <3>3 DEF RangeOf
      <4> QED BY <1>1, <1>4, <2>1, <2>2, <2>4, <3>3, <4>1 DEF Swapped
    <3> QED BY <3>2, <3>3
  <2> QED BY <2>3, <2>4
<1>10. Members(U) = Members(T)
  BY <1>2, <1>4, SwappedMembers
<1> QED BY <1>5, <1>6, <1>7, <1>8, <1>9, <1>10 DEF Waiting

LEMMA GrowPlaces ==
  ASSUME NEW T \in Tables, NEW x \in Symbols, NEW h,
         NEW k \in Cats, Waiting(T, x, k, h), h[x] = k
  PROVE  /\ Grow(T, k) \in Tables /\ InPlace(Grow(T, k), h)
         /\ Members(Grow(T, k)) = Members(T)
<1> DEFINE U == Grow(T, k)
<1>1. /\ Chained(T, k) /\ Distinct(T) /\ At(T, T.end[k]) = x
      /\ T.begin \in [Cats -> Nat] /\ T.end \in [Cats -> Nat]
  BY DEF Waiting, Tables
<1>2. /\ U.begin = T.begin
      /\ \A c \in Cats : U.end[c] = IF c = k THEN T.end[k] + 1 ELSE T.end[c]
      /\ U.end \in [Cats -> Nat]
      /\ U.syms = T.syms
  BY <1>1 DEF Grow, Tables
<1>3. U \in Tables
  BY <1>1, <1>2 DEF Grow, Tables
<1>4. Chained(U, -1)
  <2>0. U.begin[File] = 0
    BY <1>1, <1>2 DEF Chained
  <2>1. Len(U.syms) = U.end[Regular]
    <3>1. Regular \in Cats
      BY DEF Cats, Regular
    <3>2. Len(T.syms) = T.end[Regular] + (IF k = Regular THEN 1 ELSE 0)
      BY <1>1 DEF Chained
    <3>3. U.end[Regular] = IF k = Regular THEN T.end[Regular] + 1 ELSE T.end[Regular]
      BY <1>2, <3>1
    <3>4. T.end[Regular] \in Nat
      BY <1>1, <3>1
    <3> QED BY <1>2, <3>2, <3>3, <3>4
  <2>2. \A c \in Cats : U.begin[c] =< U.end[c]
    <3>1. \A c \in Cats : T.begin[c] \in Nat /\ T.end[c] \in Nat /\ T.begin[c] =< T.end[c]
      BY <1>1, InOrder
    <3> QED BY <1>2, <3>1
  <2>3. \A c, d \in Cats : d = c + 1 => U.begin[d] = U.end[c]
    BY <1>1, <1>2 DEF Chained
  <2> QED BY <1>2, <2>0, <2>1, <2>2, <2>3 DEF Chained, Cats, Regular
<1>5. Distinct(U)
  BY <1>1, <1>2 DEF Distinct, At
<1>6. \A p : At(U, p) = At(T, p)
  BY <1>2 DEF At
<1>7. ASSUME NEW c \in Cats, NEW p \in RangeOf(U, c)
      PROVE  h[At(U, p)] = c
  <2>1. p \in RangeOf(T, c) \/ (c = k /\ p = T.end[k])
    BY <1>1, <1>2 DEF RangeOf
  <2> QED BY <1>1, <1>6, <2>1 DEF Waiting
<1>8. Members(U) = Members(T)
  BY <1>2, <1>6 DEF Members
<1> QED BY <1>3, <1>4, <1>5, <1>7, <1>8 DEF InPlace

\* The range a symbol of range target waits behind before Shift meets range k.
Behind(k, target) == IF target < k THEN k ELSE target

LEMMA ShiftIfWaits ==
  ASSUME NEW T \in Tables, NEW x \in Symbols, NEW h, NEW target \in Cats,
         NEW k \in Cats \ {File}, Waiting(T, x, Behind(k, target), h)
  PROVE  /\ ShiftIf(T, k, target) \in Tables
         /\ Waiting(ShiftIf(T, k, target), x, Behind(k - 1, target), h)
         /\ Members(ShiftIf(T, k, target)) = Members(T)
<1>1. CASE target < k
  <2>1. Behind(k, target) = k /\ Behind(k - 1, target) = k - 1
    BY <1>1 DEF Behind, Cats
  <2> QED BY <1>1, <2>1, ShiftWaits DEF ShiftIf
<1>2. CASE ~(target < k)
  <2>1. Behind(k, target) = target /\ Behind(k - 1, target) = target
    BY <1>2 DEF Behind, Cats
  <2> QED BY <1>2, <2>1 DEF ShiftIf
<1> QED BY <1>1, <1>2

\* SymbolCategory::add(pSymbol, pTarget).
LEMMA AddPlaces ==
  ASSUME NEW T \in Tables, NEW x \in Symbols, NEW h, NEW target \in Cats,
         InPlace(T, h), ~InTable(T, x), h[x] = target
  PROVE  /\ AddTo(T, x, target) \in Tables /\ InPlace(AddTo(T, x, target), h)
         /\ Members(AddTo(T, x, target)) = Members(T) \cup {x}
<1> DEFINE t6 == Push(T, x)
           t5 == ShiftIf(t6, 5, target)
           t4 == ShiftIf(t5, 4, target)
           t3 == ShiftIf(t4, 3, target)
           t2 == ShiftIf(t3, 2, target)
           t1 == ShiftIf(t2, 1, target)
<1>1. AddTo(T, x, target) = Grow(t1, target)
  BY DEF AddTo, Regular, Dynamic, Common, LocalDyn, Local
<1>2. \A k \in 1..5 : k \in Cats \ {File}
  BY DEF Cats, File
<1>3. Behind(5, target) = 5 /\ Behind(0, target) = target
  BY DEF Behind, Cats
<1>4. /\ t6 \in Tables /\ Waiting(t6, x, Behind(5, target), h)
      /\ Members(t6) = Members(T) \cup {x}
  BY <1>3, PushWaits DEF Regular
<1> HIDE DEF t6
<1>5. /\ t5 \in Tables /\ Waiting(t5, x, Behind(5 - 1, target), h)
      /\ Members(t5) = Members(t6)
  BY <1>2, <1>4, ShiftIfWaits
<1> HIDE DEF t5
<1>6. /\ t4 \in Tables /\ Waiting(t4, x, Behind(4 - 1, target), h)
      /\ Members(t4) = Members(t5)
  BY <1>2, <1>5, ShiftIfWaits
<1> HIDE DEF t4
<1>7. /\ t3 \in Tables /\ Waiting(t3, x, Behind(3 - 1, target), h)
      /\ Members(t3) = Members(t4)
  BY <1>2, <1>6, ShiftIfWaits
<1> HIDE DEF t3
<1>8. /\ t2 \in Tables /\ Waiting(t2, x, Behind(2 - 1, target), h)
      /\ Members(t2) = Members(t3)
  BY <1>2, <1>7, ShiftIfWaits
<1> HIDE DEF t2
<1>9. /\ t1 \in Tables /\ Waiting(t1, x, Behind(1 - 1, target), h)
      /\ Members(t1) = Members(t2)
  BY <1>2, <1>8, ShiftIfWaits
<1> HIDE DEF t1
<1>10. Members(t1) = Members(T) \cup {x}
  BY <1>4, <1>5, <1>6, <1>7, <1>8, <1>9
<1> QED BY <1>1, <1>3, <1>9, <1>10, GrowPlaces

\* The ranges from k on have made room for a symbol of range target.
MovedUp(U, T, k, target) ==
  /\ U.begin \in [Cats -> Nat] /\ U.end \in [Cats -> Nat]
  /\ \A c \in Cats :
       /\ U.begin[c] = T.begin[c] + (IF k =< c /\ target < c THEN 1 ELSE 0)
       /\ U.end[c] = T.end[c] + (IF k =< c /\ target < c THEN 1 ELSE 0)

LEMMA ShiftIfMovesUp ==
  ASSUME NEW T \in Tables, NEW U, NEW target \in Cats, NEW k \in 1..5,
         MovedUp(U, T, k + 1, target)
  PROVE  MovedUp(ShiftIf(U, k, target), T, k, target)
<1>1. /\ \A c \in Cats : c \in Int /\ T.begin[c] \in Nat /\ T.end[c] \in Nat
      /\ target \in Int /\ k \in Int /\ k \in Cats
  <2>1. \A c \in Cats : T.begin[c] \in Nat /\ T.end[c] \in Nat
    BY DEF Tables
  <2> QED BY <2>1 DEF Cats
<1>2. CASE target < k
  <2>0. ShiftIf(U, k, target) = Shift(U, k)
    BY <1>2 DEF ShiftIf
  <2>1. /\ ShiftIf(U, k, target).begin = [U.begin EXCEPT ![k] = U.begin[k] + 1]
        /\ ShiftIf(U, k, target).end = [U.end EXCEPT ![k] = U.end[k] + 1]
    BY <2>0 DEF Shift
  <2> QED BY <1>1, <1>2, <2>1 DEF MovedUp
<1>3. CASE ~(target < k)
  <2>1. ShiftIf(U, k, target) = U
    BY <1>3 DEF ShiftIf
  <2>2. \A c \in Cats : (k =< c /\ target < c) <=> (k + 1 =< c /\ target < c)
    BY <1>1, <1>3
  <2> QED BY <2>1, <2>2 DEF MovedUp
<1> QED BY <1>2, <1>3

\* A new symbol moves the borders of its range's end and of the ranges behind.
LEMMA AddBorders ==
  ASSUME NEW T \in Tables, NEW x, NEW target \in Cats
  PROVE  \A c \in Cats :
           /\ AddTo(T, x, target).begin[c] = T.begin[c] + (IF target < c THEN 1 ELSE 0)
           /\ AddTo(T, x, target).end[c] = T.end[c] + (IF target =< c THEN 1 ELSE 0)
<1> DEFINE t6 == Push(T, x)
           t5 == ShiftIf(t6, 5, target)
           t4 == ShiftIf(t5, 4, target)
           t3 == ShiftIf(t4, 3, target)
           t2 == ShiftIf(t3, 2, target)
           t1 == ShiftIf(t2, 1, target)
<1>1. AddTo(T, x, target) = Grow(t1, target)
  BY DEF AddTo, Regular, Dynamic, Common, LocalDyn, Local
<1>2. \A c \in Cats : c \in 0..5 /\ T.begin[c] \in Nat /\ T.end[c] \in Nat
  BY DEF Cats, Tables
<1>3. MovedUp(t6, T, 5 + 1, target)
  <2>1. t6.begin = T.begin /\ t6.end = T.end
    BY DEF Push, Tables
  <2>2. T.begin \in [Cats -> Nat] /\ T.end \in [Cats -> Nat]
    BY DEF Tables
  <2>3. \A c \in Cats : ~(5 + 1 =< c)
    BY <1>2
  <2> QED BY <1>2, <2>1, <2>2, <2>3 DEF MovedUp
<1> HIDE DEF t6
<1>4. MovedUp(t5, T, 4 + 1, target)
  BY <1>3, ShiftIfMovesUp
<1> HIDE DEF t5
<1>5. MovedUp(t4, T, 3 + 1, target)
  BY <1>4, ShiftIfMovesUp
<1> HIDE DEF t4
<1>6. MovedUp(t3, T, 2 + 1, target)
  BY <1>5, ShiftIfMovesUp
<1> HIDE DEF t3
<1>7. MovedUp(t2, T, 1 + 1, target)
  BY <1>6, ShiftIfMovesUp
<1> HIDE DEF t2
<1>8. MovedUp(t1, T, 1, target)
  BY <1>7, ShiftIfMovesUp
<1> HIDE DEF t1
<1>9. /\ Grow(t1, target).begin = t1.begin
      /\ Grow(t1, target).end = [t1.end EXCEPT ![target] = t1.end[target] + 1]
  BY DEF Grow
<1>10. target \in 0..5 /\ Cats = 0..5
  BY DEF Cats
<1> QED BY <1>1, <1>2, <1>8, <1>9, <1>10 DEF MovedUp

\* A symbol that is not in the table may be given any range.
LEMMA Elsewhere ==
  ASSUME NEW T \in Tables, NEW x \in Symbols, NEW h \in [Symbols -> Cats],
         NEW target, InPlace(T, h), ~InTable(T, x)
  PROVE  InPlace(T, [h EXCEPT ![x] = target])
<1>1. ASSUME NEW c \in Cats, NEW p \in RangeOf(T, c)
      PROVE  [h EXCEPT ![x] = target][At(T, p)] = c
  <2>1. p \in 0 .. (Len(T.syms) - 1) /\ At(T, p) \in Symbols
    BY InVector DEF InPlace
  <2>2. At(T, p) # x
    BY <2>1 DEF InTable, Positions
  <2> QED BY <2>1, <2>2 DEF InPlace
<1> QED BY <1>1 DEF InPlace

-----------------------------------------------------------------------------
(* arrange and changeToDynamic: Down, Up and the search for the symbol.    *)

\* The table without a symbol that waits.
LEMMA Adjacent ==
  ASSUME NEW T \in Tables
  PROVE  Chained(T, -1) <=> /\ T.begin[File] = 0
                            /\ \A c \in Cats : T.begin[c] =< T.end[c]
                            /\ \A c, d \in Cats : d = c + 1 => T.begin[d] = T.end[c]
                            /\ Len(T.syms) = T.end[Regular]
<1>1. (\A c \in Cats : c # -1) /\ Regular # -1
  BY DEF Cats, Regular
<1>2. T.end[Regular] + 0 = T.end[Regular] /\ \A c \in Cats : T.end[c] + 0 = T.end[c]
  BY SMTT(60) DEF Tables, Cats, Regular
<1> QED BY <1>1, <1>2 DEF Chained

LEMMA AdjacentInOrder ==
  ASSUME NEW T \in Tables, Chained(T, -1)
  PROVE  /\ \A c, d \in Cats : c < d => T.end[c] =< T.begin[d]
         /\ \A c \in Cats : T.end[c] =< Len(T.syms)
         /\ \A c \in Cats : T.begin[c] \in Nat /\ T.end[c] \in Nat /\ T.begin[c] =< T.end[c]
         /\ Len(T.syms) \in Nat
<1>1. \A c \in Cats : c # -1
  BY DEF Cats
<1>2. \A c \in Cats : T.end[c] \in Nat
  BY DEF Tables
<1>3. /\ \A c, d \in Cats : c < d => T.end[c] + (IF c = -1 THEN 1 ELSE 0) =< T.begin[d]
      /\ \A c \in Cats : T.end[c] + (IF c = -1 THEN 1 ELSE 0) =< Len(T.syms)
      /\ \A c \in Cats : T.begin[c] \in Nat /\ T.end[c] \in Nat /\ T.begin[c] =< T.end[c]
  BY InOrder
<1>4. Len(T.syms) \in Nat
  BY DEF Tables
<1> QED BY <1>1, <1>2, <1>3, <1>4

LEMMA OneRange ==
  ASSUME NEW T \in Tables, Chained(T, -1), NEW c \in Cats, NEW d \in Cats,
         NEW p \in RangeOf(T, c), p \in RangeOf(T, d)
  PROVE  d = c
<1>1. d < c \/ d = c \/ c < d
  BY DEF Cats
<1>2. /\ d < c => T.end[d] =< T.begin[c]
      /\ c < d => T.end[c] =< T.begin[d]
  BY AdjacentInOrder
<1>3. /\ T.begin[d] \in Nat /\ T.end[d] \in Nat /\ T.begin[c] \in Nat /\ T.end[c] \in Nat
      /\ p \in T.begin[d] .. (T.end[d] - 1)
      /\ p \in T.begin[c] .. (T.end[c] - 1)
  BY AdjacentInOrder DEF RangeOf
<1> QED BY <1>1, <1>2, <1>3

LEMMA DownOneRange ==
  ASSUME NEW r, NEW T \in Tables, NEW p, r.table = T, r.pos = p,
         NEW x, NEW h, NEW c \in Cats \ {Regular}, OnItsWay(T, p, c, x, h)
  PROVE  /\ Down(r, c).table \in Tables
         /\ OnItsWay(Down(r, c).table, Down(r, c).pos, c + 1, x, h)
         /\ Members(Down(r, c).table) = Members(T)
<1> DEFINE U == Down(r, c).table
           last == T.end[c] - 1
           n == Len(T.syms)
<1>1. /\ Chained(T, -1) /\ Distinct(T) /\ p \in RangeOf(T, c) /\ At(T, p) = x
      /\ \A d \in Cats : \A q \in RangeOf(T, d) : q # p => h[At(T, q)] = d
  BY DEF OnItsWay
<1>2. c \in Cats /\ c + 1 \in Cats /\ c \in Int /\ c < c + 1 /\ \A d \in Cats : d \in Int
  BY DEF Cats, Regular
<1>3. /\ T.begin[File] = 0
      /\ \A d \in Cats : T.begin[d] =< T.end[d]
      /\ \A d, f \in Cats : f = d + 1 => T.begin[f] = T.end[d]
      /\ Len(T.syms) = T.end[Regular]
  BY <1>1, Adjacent
<1>4. /\ \A d, f \in Cats : d < f => T.end[d] =< T.begin[f]
      /\ \A d \in Cats : T.end[d] =< n
      /\ \A d \in Cats : T.begin[d] \in Nat /\ T.end[d] \in Nat /\ T.begin[d] =< T.end[d]
      /\ n \in Nat
  BY <1>1, AdjacentInOrder
<1>5. /\ p \in 0 .. (n - 1) /\ last \in 0 .. (n - 1)
      /\ T.begin[c] =< p /\ p =< last
  <2>1. p >= T.begin[c] /\ p < T.end[c] /\ p \in 0 .. (n - 1)
    BY <1>1, <1>2, InVector
  <2>2. T.begin[c] \in Nat /\ T.end[c] \in Nat /\ T.end[c] =< n /\ n \in Nat
    BY <1>2, <1>4
  <2> QED BY <2>1, <2>2
<1>6. /\ U.syms = Swap(T.syms, p, last)
      /\ U.begin = [T.begin EXCEPT ![c + 1] = @ - 1]
      /\ U.end = [T.end EXCEPT ![c] = @ - 1]
      /\ U = [syms |-> U.syms, begin |-> U.begin, end |-> U.end]
      /\ Down(r, c).pos = last
  BY DEF Down
<1> HIDE DEF U
<1>7. /\ \A d \in Cats : /\ U.begin[d] = IF d = c + 1 THEN last ELSE T.begin[d]
                         /\ U.end[d] = IF d = c THEN last ELSE T.end[d]
      /\ U.begin \in [Cats -> Nat] /\ U.end \in [Cats -> Nat]
  <2>1. T.begin[c + 1] = T.end[c]
    BY <1>2, <1>3
  <2>2. T.begin \in [Cats -> Nat] /\ T.end \in [Cats -> Nat] /\ last \in Nat
    BY <1>5 DEF Tables
  <2> QED BY <1>2, <1>6, <2>1, <2>2
<1>8. U.syms \in Seq(Symbols) /\ Swapped(U, T, p, last)
  BY <1>5, <1>6, SwapLaw
<1>9. U \in Tables
  BY <1>6, <1>7, <1>8 DEF Tables
<1>10. Chained(U, -1)
  <2>1. U.begin[File] = 0
    BY SMTT(60), <1>2, <1>3, <1>7 DEF Cats, File
  <2>2. \A d \in Cats : U.begin[d] =< U.end[d]
    <3>1. last \in Nat /\ T.begin[c] =< last /\ last < T.end[c] /\ T.end[c] =< T.end[c + 1]
      BY <1>2, <1>3, <1>4, <1>5
    <3> QED BY SMTT(60), <1>2, <1>4, <1>7, <3>1
  <2>3. ASSUME NEW d \in Cats, NEW f \in Cats, f = d + 1
        PROVE  U.begin[f] = U.end[d]
    <3>1. T.begin[f] = T.end[d] /\ (f = c + 1 <=> d = c)
      BY <1>2, <1>3, <2>3
    <3> QED BY <1>7, <3>1
  <2>4. Len(U.syms) = U.end[Regular]
    <3>1. Regular \in Cats /\ Regular # c
      BY DEF Cats, Regular
    <3> QED BY <1>3, <1>7, <1>8, <3>1 DEF Swapped
  <2> QED BY <1>9, <2>1, <2>2, <2>3, <2>4, Adjacent
<1>11. Distinct(U)
  BY <1>1, <1>5, <1>8, SwappedDistinct
<1>12. last \in RangeOf(U, c + 1) /\ At(U, last) = x
  <2>1. U.begin[c + 1] = last /\ U.end[c + 1] = T.end[c + 1]
    BY <1>2, <1>7
  <2>2. T.end[c] =< T.end[c + 1] /\ T.end[c] \in Nat /\ T.end[c + 1] \in Nat
    BY <1>2, <1>3, <1>4
  <2>3. last \in RangeOf(U, c + 1)
    BY <2>1, <2>2 DEF RangeOf
  <2> QED BY <1>1, <1>5, <1>8, <2>3 DEF Swapped
<1>13. ASSUME NEW d \in Cats, NEW q \in RangeOf(U, d), q # last
       PROVE  h[At(U, q)] = d
  <2>1. q \in RangeOf(T, d)
    <3>1. T.begin[d] \in Nat /\ T.end[d] \in Nat /\ last \in Nat
      BY <1>4, <1>5
    <3>2. q \in U.begin[d] .. (U.end[d] - 1)
      BY DEF RangeOf
    <3>3. CASE d = c + 1
      <4>1. U.begin[d] = last /\ T.begin[d] = last + 1 /\ U.end[d] = T.end[d]
        BY <1>2, <1>3, <1>4, <1>7, <3>3
      <4> QED BY <1>13, <3>1, <3>2, <4>1 DEF RangeOf
    <3>4. CASE d = c
      <4>1. U.begin[d] = T.begin[d] /\ U.end[d] = T.end[d] - 1
        BY <1>2, <1>7, <3>4
      <4> QED BY <3>1, <3>2, <4>1 DEF RangeOf
    <3>5. CASE d # c /\ d # c + 1
      BY <1>7, <3>2, <3>5 DEF RangeOf
    <3> QED BY <3>3, <3>4, <3>5
  <2>2. q \in 0 .. (n - 1)
    BY <1>1, <2>1, InVector
  <2>3. CASE q # p
    BY <1>1, <1>8, <1>13, <2>1, <2>2, <2>3 DEF Swapped
  <2>4. CASE q = p
    <3>1. d = c
      BY <1>1, <1>2, <2>1, <2>4, OneRange
    <3>2. last \in RangeOf(T, c) /\ last # p
      BY SMTT(60), <1>2, <1>4, <1>5, <1>13, <2>4 DEF RangeOf
    <3>3. h[At(T, last)] = c
      BY <1>1, <1>2, <3>2
    <3> QED BY <1>8, <1>13, <2>2, <2>4, <3>1, <3>3 DEF Swapped
  <2> QED BY <2>3, <2>4
<1>14. Members(U) = Members(T)
  BY <1>5, <1>8, SwappedMembers
<1> QED BY <1>6, <1>9, <1>10, <1>11, <1>12, <1>13, <1>14 DEF OnItsWay, U

LEMMA UpOneRange ==
  ASSUME NEW r, NEW T \in Tables, NEW p, r.table = T, r.pos = p,
         NEW x, NEW h, NEW c \in Cats \ {File}, OnItsWay(T, p, c, x, h)
  PROVE  /\ Up(r, c).table \in Tables
         /\ OnItsWay(Up(r, c).table, Up(r, c).pos, c - 1, x, h)
         /\ Members(Up(r, c).table) = Members(T)
<1> DEFINE U == Up(r, c).table
           first == T.begin[c]
           n == Len(T.syms)
<1>1. /\ Chained(T, -1) /\ Distinct(T) /\ p \in RangeOf(T, c) /\ At(T, p) = x
      /\ \A d \in Cats : \A q \in RangeOf(T, d) : q # p => h[At(T, q)] = d
  BY DEF OnItsWay
<1>2. /\ c \in Cats /\ c - 1 \in Cats /\ c \in Int /\ c - 1 < c
      /\ c = (c - 1) + 1 /\ \A d \in Cats : d \in Int
  BY DEF Cats, File
<1>3. /\ T.begin[File] = 0
      /\ \A d \in Cats : T.begin[d] =< T.end[d]
      /\ \A d, f \in Cats : f = d + 1 => T.begin[f] = T.end[d]
      /\ Len(T.syms) = T.end[Regular]
  BY <1>1, Adjacent
<1>4. /\ \A d, f \in Cats : d < f => T.end[d] =< T.begin[f]
      /\ \A d \in Cats : T.end[d] =< n
      /\ \A d \in Cats : T.begin[d] \in Nat /\ T.end[d] \in Nat /\ T.begin[d] =< T.end[d]
      /\ n \in Nat
  BY <1>1, AdjacentInOrder
<1>5. /\ p \in 0 .. (n - 1) /\ first \in 0 .. (n - 1)
      /\ first =< p /\ p < T.end[c]
  <2>1. p >= T.begin[c] /\ p < T.end[c] /\ p \in 0 .. (n - 1)
    BY <1>1, <1>2, InVector
  <2>2. T.begin[c] \in Nat /\ T.end[c] \in Nat /\ T.end[c] =< n /\ n \in Nat
    BY <1>2, <1>4
  <2> QED BY <2>1, <2>2
<1>6. /\ U.syms = Swap(T.syms, first, p)
      /\ U.begin = [T.begin EXCEPT ![c] = @ + 1]
      /\ U.end = [T.end EXCEPT ![c - 1] = @ + 1]
      /\ U = [syms |-> U.syms, begin |-> U.begin, end |-> U.end]
      /\ Up(r, c).pos = first
  BY DEF Up
<1> HIDE DEF U
<1>7. /\ \A d \in Cats : /\ U.begin[d] = IF d = c THEN first + 1 ELSE T.begin[d]
                         /\ U.end[d] = IF d = c - 1 THEN first + 1 ELSE T.end[d]
      /\ U.begin \in [Cats -> Nat] /\ U.end \in [Cats -> Nat]
  <2>1. T.begin[c] = T.end[c - 1]
    BY <1>2, <1>3
  <2>2. T.begin \in [Cats -> Nat] /\ T.end \in [Cats -> Nat] /\ first \in Nat
    BY <1>5 DEF Tables
  <2> QED BY <1>2, <1>6, <2>1, <2>2
<1>8. U.syms \in Seq(Symbols) /\ Swapped(U, T, first, p)
  BY <1>5, <1>6, SwapLaw
<1>9. U \in Tables
  BY <1>6, <1>7, <1>8 DEF Tables
<1>10. Chained(U, -1)
  <2>1. U.begin[File] = 0
    BY SMTT(60), <1>2, <1>3, <1>7 DEF Cats, File
  <2>2. ASSUME NEW d \in Cats
        PROVE  U.begin[d] =< U.end[d]
    <3>1. /\ first \in Nat /\ first + 1 =< T.end[c] /\ T.begin[c - 1] =< first
          /\ T.begin[c - 1] \in Nat /\ T.end[c] \in Nat
      BY SMTT(60), <1>2, <1>3, <1>4, <1>5
    <3>2. CASE d = c
      BY <1>2, <1>7, <3>1, <3>2
    <3>3. CASE d = c - 1
      BY <1>2, <1>7, <3>1, <3>3
    <3>4. CASE d # c /\ d # c - 1
      BY <1>4, <1>7, <3>4
    <3> QED BY <3>2, <3>3, <3>4
  <2>3. ASSUME NEW d \in Cats, NEW f \in Cats, f = d + 1
        PROVE  U.begin[f] = U.end[d]
    <3>1. T.begin[f] = T.end[d]
      BY <1>3, <2>3
    <3>2. f = c <=> d = c - 1
      BY <1>2, <2>3
    <3> QED BY <1>7, <3>1, <3>2
  <2>4. Len(U.syms) = U.end[Regular]
    <3>1. Regular \in Cats /\ Regular # c - 1
      BY DEF Cats, Regular
    <3> QED BY <1>3, <1>7, <1>8, <3>1 DEF Swapped
  <2> QED BY <1>9, <2>1, <2>2, <2>3, <2>4, Adjacent
<1>11. Distinct(U)
  BY <1>1, <1>5, <1>8, SwappedDistinct
<1>12. first \in RangeOf(U, c - 1) /\ At(U, first) = x
  <2>1. U.begin[c - 1] = T.begin[c - 1] /\ U.end[c - 1] = first + 1
    BY <1>2, <1>7
  <2>2. T.begin[c - 1] =< first /\ T.begin[c - 1] \in Nat /\ first \in Nat
    BY <1>2, <1>3, <1>4
  <2>3. first \in RangeOf(U, c - 1)
    BY <2>1, <2>2 DEF RangeOf
  <2> QED BY <1>1, <1>5, <1>8, <2>3 DEF Swapped
<1>13. ASSUME NEW d \in Cats, NEW q \in RangeOf(U, d), q # first
       PROVE  h[At(U, q)] = d
  <2>1. q \in RangeOf(T, d)
    <3>1. T.begin[d] \in Nat /\ T.end[d] \in Nat /\ first \in Nat
      BY <1>4, <1>5
    <3>2. q \in U.begin[d] .. (U.end[d] - 1)
      BY DEF RangeOf
    <3>3. CASE d = c - 1
      <4>1. U.begin[d] = T.begin[d] /\ T.end[d] = first /\ U.end[d] = first + 1
        BY <1>2, <1>3, <1>4, <1>7, <3>3
      <4> QED BY <1>13, <3>1, <3>2, <4>1 DEF RangeOf
    <3>4. CASE d = c
      <4>1. U.begin[d] = T.begin[d] + 1 /\ U.end[d] = T.end[d]
        BY <1>2, <1>7, <3>4
      <4> QED BY <3>1, <3>2, <4>1 DEF RangeOf
    <3>5. CASE d # c /\ d # c - 1
      BY <1>7, <3>2, <3>5 DEF RangeOf
    <3> QED BY <3>3, <3>4, <3>5
  <2>2. q \in 0 .. (n - 1)
    BY <1>1, <2>1, InVector
  <2>3. CASE q # p
    BY <1>1, <1>8, <1>13, <2>1, <2>2, <2>3 DEF Swapped
  <2>4. CASE q = p
    <3>1. d = c
      BY <1>1, <1>2, <2>1, <2>4, OneRange
    <3>2. first \in RangeOf(T, c) /\ first # p
      BY <1>2, <1>4, <1>5, <1>13, <2>4 DEF RangeOf
    <3>3. h[At(T, first)] = c
      BY <1>1, <1>2, <3>2
    <3> QED BY <1>8, <1>13, <2>2, <2>4, <3>1, <3>3 DEF Swapped
  <2> QED BY <2>3, <2>4
<1>14. Members(U) = Members(T)
  BY <1>5, <1>8, SwappedMembers
<1> QED BY <1>6, <1>9, <1>10, <1>11, <1>12, <1>13, <1>14 DEF OnItsWay, U

\* The range of the symbol before DownIf meets range c, and before UpIf does.
Descending(c, from, to) ==
  IF to =< from \/ c =< from THEN from ELSE IF c =< to THEN c ELSE to
Ascending(c, from, to) ==
  IF from =< to \/ c =< to THEN to ELSE IF c =< from THEN c ELSE from

\* The state of the loops of arrange; M are the symbols of the table.
On(r, c, x, h, M) ==
  /\ r.table \in Tables
  /\ OnItsWay(r.table, r.pos, c, x, h)
  /\ Members(r.table) = M

LEMMA DownIfStep ==
  ASSUME NEW r, NEW x, NEW h, NEW M,
         NEW from \in Cats, NEW to \in Cats, NEW c \in Cats \ {Regular},
         On(r, Descending(c, from, to), x, h, M)
  PROVE  On(DownIf(r, c, from, to), Descending(c + 1, from, to), x, h, M)
<1>1. CASE from =< c /\ c < to
  <2>1. Descending(c, from, to) = c /\ Descending(c + 1, from, to) = c + 1
    BY <1>1 DEF Descending, Cats
  <2>2. DownIf(r, c, from, to) = Down(r, c)
    BY <1>1 DEF DownIf
  <2> QED BY <2>1, <2>2, DownOneRange DEF On
<1>2. CASE ~(from =< c /\ c < to)
  <2>1. Descending(c, from, to) = Descending(c + 1, from, to)
    BY <1>2 DEF Descending, Cats
  <2>2. DownIf(r, c, from, to) = r
    BY <1>2 DEF DownIf
  <2> QED BY <2>1, <2>2
<1> QED BY <1>1, <1>2

LEMMA UpIfStep ==
  ASSUME NEW r, NEW x, NEW h, NEW M,
         NEW from \in Cats, NEW to \in Cats, NEW c \in Cats \ {File},
         On(r, Ascending(c, from, to), x, h, M)
  PROVE  On(UpIf(r, c, from, to), Ascending(c - 1, from, to), x, h, M)
<1>1. CASE to < c /\ c =< from
  <2>1. Ascending(c, from, to) = c /\ Ascending(c - 1, from, to) = c - 1
    BY <1>1 DEF Ascending, Cats
  <2>2. UpIf(r, c, from, to) = Up(r, c)
    BY <1>1 DEF UpIf
  <2> QED BY <2>1, <2>2, UpOneRange DEF On
<1>2. CASE ~(to < c /\ c =< from)
  <2>1. Ascending(c, from, to) = Ascending(c - 1, from, to)
    BY <1>2 DEF Ascending, Cats
  <2>2. UpIf(r, c, from, to) = r
    BY <1>2 DEF UpIf
  <2> QED BY <2>1, <2>2
<1> QED BY <1>1, <1>2

LEMMA Arrived ==
  ASSUME NEW T \in Tables, NEW p, NEW x, NEW h, NEW to \in Cats,
         OnItsWay(T, p, to, x, h), h[x] = to
  PROVE  InPlace(T, h)
<1>1. ASSUME NEW c \in Cats, NEW q \in RangeOf(T, c)
      PROVE  h[At(T, q)] = c
  <2>1. CASE q = p
    <3>1. c = to
      BY <2>1, OneRange DEF OnItsWay
    <3> QED BY <2>1, <3>1 DEF OnItsWay
  <2>2. CASE q # p
    BY <2>2 DEF OnItsWay
  <2> QED BY <2>1, <2>2
<1> QED BY <1>1 DEF OnItsWay, InPlace

\* A symbol of range c may be on its way to any range.
LEMMA SetsOut ==
  ASSUME NEW T \in Tables, NEW x \in Symbols, NEW h \in [Symbols -> Cats],
         NEW target, NEW c \in Cats, NEW p \in RangeOf(T, c), At(T, p) = x, InPlace(T, h)
  PROVE  OnItsWay(T, p, c, x, [h EXCEPT ![x] = target])
<1>1. p \in 0 .. (Len(T.syms) - 1)
  BY InVector DEF InPlace
<1>2. ASSUME NEW d \in Cats, NEW q \in RangeOf(T, d), q # p
      PROVE  [h EXCEPT ![x] = target][At(T, q)] = d
  <2>1. q \in 0 .. (Len(T.syms) - 1) /\ At(T, q) \in Symbols
    BY InVector DEF InPlace
  <2>2. At(T, q) # x
    BY <1>1, <1>2, <2>1 DEF InPlace, Distinct
  <2> QED BY <2>1, <2>2 DEF InPlace
<1> QED BY <1>2 DEF OnItsWay, InPlace

\* The loops of arrange, from the range the symbol is in to the new one.
LEMMA MovePlaces ==
  ASSUME NEW T \in Tables, NEW p, NEW x, NEW h, NEW from \in Cats, NEW to \in Cats,
         OnItsWay(T, p, from, x, h), h[x] = to
  PROVE  /\ Move(T, p, from, to) \in Tables /\ InPlace(Move(T, p, from, to), h)
         /\ Members(Move(T, p, from, to)) = Members(T)
<1> DEFINE d0 == [table |-> T, pos |-> p]
           d1 == DownIf(d0, 0, from, to)
           d2 == DownIf(d1, 1, from, to)
           d3 == DownIf(d2, 2, from, to)
           d4 == DownIf(d3, 3, from, to)
           d5 == DownIf(d4, 4, from, to)
           u5 == UpIf(d5, 5, from, to)
           u4 == UpIf(u5, 4, from, to)
           u3 == UpIf(u4, 3, from, to)
           u2 == UpIf(u3, 2, from, to)
           u1 == UpIf(u2, 1, from, to)
<1>1. Move(T, p, from, to) = u1.table
  BY DEF Move, File, Local, LocalDyn, Common, Dynamic, Regular
<1>2. /\ \A c \in 0..4 : c \in Cats \ {Regular}
      /\ \A c \in 1..5 : c \in Cats \ {File}
  BY DEF Cats, File, Regular
<1>3. /\ Descending(0, from, to) = from
      /\ Descending(5, from, to) = Ascending(5, from, to)
      /\ Ascending(0, from, to) = to
  BY DEF Descending, Ascending, Cats
<1>4. On(d0, Descending(0, from, to), x, h, Members(T))
  BY <1>3 DEF On
<1> HIDE DEF d0
<1>5. On(d1, Descending(0 + 1, from, to), x, h, Members(T))
  BY <1>2, <1>4, DownIfStep
<1> HIDE DEF d1
<1>6. On(d2, Descending(1 + 1, from, to), x, h, Members(T))
  BY <1>2, <1>5, DownIfStep
<1> HIDE DEF d2
<1>7. On(d3, Descending(2 + 1, from, to), x, h, Members(T))
  BY <1>2, <1>6, DownIfStep
<1> HIDE DEF d3
<1>8. On(d4, Descending(3 + 1, from, to), x, h, Members(T))
  BY <1>2, <1>7, DownIfStep
<1> HIDE DEF d4
<1>9. On(d5, Descending(4 + 1, from, to), x, h, Members(T))
  BY <1>2, <1>8, DownIfStep
<1> HIDE DEF d5
<1>10. On(u5, Ascending(5 - 1, from, to), x, h, Members(T))
  BY <1>2, <1>3, <1>9, UpIfStep
<1> HIDE DEF u5
<1>11. On(u4, Ascending(4 - 1, from, to), x, h, Members(T))
  BY <1>2, <1>10, UpIfStep
<1> HIDE DEF u4
<1>12. On(u3, Ascending(3 - 1, from, to), x, h, Members(T))
  BY <1>2, <1>11, UpIfStep
<1> HIDE DEF u3
<1>13. On(u2, Ascending(2 - 1, from, to), x, h, Members(T))
  BY <1>2, <1>12, UpIfStep
<1> HIDE DEF u2
<1>14. On(u1, Ascending(1 - 1, from, to), x, h, Members(T))
  BY <1>2, <1>13, UpIfStep
<1> HIDE DEF u1
<1>15. /\ u1.table \in Tables /\ OnItsWay(u1.table, u1.pos, to, x, h)
       /\ Members(u1.table) = Members(T)
  BY <1>3, <1>14 DEF On
<1> QED BY <1>1, <1>15, Arrived

\* Every position lies in a range.
LEMMA Covered ==
  ASSUME NEW T \in Tables, Chained(T, -1), NEW p \in 0 .. (Len(T.syms) - 1)
  PROVE  \E c \in Cats : p \in RangeOf(T, c)
<1> DEFINE b == T.begin
           e == T.end
<1>1. /\ b[0] = 0 /\ Len(T.syms) = e[5]
      /\ b[1] = e[0] /\ b[2] = e[1] /\ b[3] = e[2] /\ b[4] = e[3] /\ b[5] = e[4]
  BY Adjacent DEF Cats, File, Regular
<1>2. \A c \in Cats : b[c] \in Nat /\ e[c] \in Nat
  BY DEF Tables
<1>3. Cats = {0, 1, 2, 3, 4, 5}
  BY DEF Cats
<1>4. SUFFICES \E c \in Cats : b[c] =< p /\ p < e[c]
  BY <1>2 DEF RangeOf
<1> HIDE DEF b, e
<1>5. p \in Nat /\ p < e[5]
  BY <1>1, <1>2, <1>3
<1>6. \A c \in Cats : e[c] \in Int
  BY <1>2
<1>7. CASE p < e[0]
  BY <1>1, <1>3, <1>5, <1>7
<1>8. CASE e[0] =< p /\ p < e[1]
  BY <1>1, <1>3, <1>8
<1>9. CASE e[1] =< p /\ p < e[2]
  BY <1>1, <1>3, <1>9
<1>10. CASE e[2] =< p /\ p < e[3]
  BY <1>1, <1>3, <1>10
<1>11. CASE e[3] =< p /\ p < e[4]
  BY <1>1, <1>3, <1>11
<1>12. CASE e[4] =< p
  BY <1>1, <1>3, <1>5, <1>12
<1>13. e[0] \in Int /\ e[1] \in Int /\ e[2] \in Int /\ e[3] \in Int /\ e[4] \in Int
  BY <1>3, <1>6
<1> QED BY SMTT(60), <1>5, <1>7, <1>8, <1>9, <1>10, <1>11, <1>12, <1>13

LEMMA FindPosFinds ==
  ASSUME NEW T \in Tables, NEW x, NEW source, Distinct(T), InTable(T, x)
  PROVE  /\ FindPos(T, x, source) \in 0 .. (Len(T.syms) - 1)
         /\ At(T, FindPos(T, x, source)) = x
<1>1. PICK p \in 0 .. (Len(T.syms) - 1) : At(T, p) = x
  BY DEF InTable, Positions
<1>2. Positions(T, x) = {p}
  BY <1>1 DEF Positions, Distinct
<1>3. Len(T.syms) \in Nat /\ p \in Int
  BY DEF Tables
<1>4. FindPos(T, x, source) = CHOOSE q \in {p} : \A f \in {p} : q =< f
  <2>1. Positions(T, x) \cap RangeOf(T, source) \in {{}, {p}}
    BY <1>2
  <2> QED BY <1>2, <2>1 DEF FindPos
<1>5. FindPos(T, x, source) = p
  BY <1>3, <1>4
<1> QED BY <1>1, <1>5

\* SymbolCategory::arrange and changeToDynamic.
LEMMA ArrangePlaces ==
  ASSUME NEW T \in Tables, NEW x \in Symbols, NEW h \in [Symbols -> Cats],
         NEW source, NEW target \in Cats, source # target, InPlace(T, h), InTable(T, x)
  PROVE  /\ Arrange(T, x, source, target) \in Tables
         /\ InPlace(Arrange(T, x, source, target), [h EXCEPT ![x] = target])
         /\ \A y : InTable(Arrange(T, x, source, target), y) <=> InTable(T, y)
<1> DEFINE p == FindPos(T, x, source)
           c == CatAt(T, p)
           g == [h EXCEPT ![x] = target]
<1>1. p \in 0 .. (Len(T.syms) - 1) /\ At(T, p) = x
  BY FindPosFinds DEF InPlace
<1>2. c \in Cats /\ p \in RangeOf(T, c)
  <2>1. \E d \in Cats : p \in RangeOf(T, d)
    BY <1>1, Covered DEF InPlace
  <2> QED BY <2>1 DEF CatAt
<1>3. Arrange(T, x, source, target) = Move(T, p, c, target)
  BY DEF Arrange
<1> HIDE DEF p, c
<1>4. OnItsWay(T, p, c, x, g)
  BY <1>1, <1>2, SetsOut
<1>5. g[x] = target
  OBVIOUS
<1> HIDE DEF g
<1>6. /\ Move(T, p, c, target) \in Tables /\ InPlace(Move(T, p, c, target), g)
      /\ Members(Move(T, p, c, target)) = Members(T)
  BY <1>2, <1>4, <1>5, MovePlaces
<1>7. \A U, y : InTable(U, y) <=> y \in Members(U)
  BY MembersInTable
<1> QED BY <1>3, <1>6, <1>7 DEF g

-----------------------------------------------------------------------------
(* changeCommonsToGlobal: the last common symbol goes down one range or    *)
(* two; it is the last one of its range already.                           *)

LEMMA SwapSame ==
  ASSUME NEW T \in Tables, NEW i \in 0 .. (Len(T.syms) - 1)
  PROVE  Swap(T.syms, i, i) = T.syms
<1>1. T.syms \in Seq(Symbols) /\ i + 1 \in 1 .. Len(T.syms)
  BY DEF Tables
<1> QED BY <1>1 DEF Swap

LEMMA ChangeCommonPlaces ==
  ASSUME NEW T \in Tables, NEW h \in [Symbols -> Cats], NEW c \in {Dynamic, Regular},
         NEW x, x = At(T, T.end[Common] - 1),
         InPlace(T, h), T.begin[Common] # T.end[Common]
  PROVE  /\ x \in Symbols
         /\ ChangeCommon(T, c) \in Tables
         /\ InPlace(ChangeCommon(T, c), [h EXCEPT ![x] = c])
         /\ Members(ChangeCommon(T, c)) = Members(T)
<1> DEFINE p == T.end[Common] - 1
           g == [h EXCEPT ![x] = c]
           r == [table |-> T, pos |-> p]
           d == Down(r, Common)
           f == Down(d, Dynamic)
<1>1. /\ {Common, Dynamic, Regular} \subseteq Cats /\ Common + 1 = Dynamic /\ Dynamic + 1 = Regular
      /\ Common \in Cats \ {Regular} /\ Dynamic \in Cats \ {Regular}
      /\ Common # Dynamic /\ Dynamic # Regular
  BY DEF Cats, Common, Dynamic, Regular
<1>2. /\ T.begin[Common] \in Nat /\ T.end[Common] \in Nat /\ Len(T.syms) \in Nat
      /\ T.begin[Common] =< T.end[Common] /\ T.end[Common] =< Len(T.syms)
  BY <1>1, AdjacentInOrder DEF InPlace
<1>3. p \in RangeOf(T, Common) /\ p \in 0 .. (Len(T.syms) - 1)
  BY <1>2 DEF RangeOf
<1>4. x \in Symbols
  BY <1>3, InVector DEF InPlace
<1>5. On(r, Common, x, g, Members(T))
  BY <1>1, <1>3, <1>4, SetsOut DEF On
<1>6. On(d, Dynamic, x, g, Members(T))
  BY <1>1, <1>5, DownOneRange DEF On
<1>7. On(f, Regular, x, g, Members(T))
  <2> HIDE DEF d
  <2> QED BY <1>1, <1>6, DownOneRange DEF On
<1>8. /\ d.pos = p
      /\ d.table = [syms |-> T.syms,
                    begin |-> [T.begin EXCEPT ![Dynamic] = @ - 1],
                    end |-> [T.end EXCEPT ![Common] = @ - 1]]
  BY <1>1, <1>3, SwapSame DEF Down
<1>9. T = [syms |-> T.syms, begin |-> T.begin, end |-> T.end]
      /\ T.begin \in [Cats -> Nat] /\ T.end \in [Cats -> Nat]
  BY DEF Tables
<1>10. g[x] = c
  BY <1>4
<1>11. CASE c = Dynamic
  <2>1. ChangeCommon(T, c) = d.table
    BY <1>8, <1>11 DEF ChangeCommon
  <2> HIDE DEF d, g
  <2> QED BY <1>1, <1>4, <1>6, <1>10, <1>11, <2>1, Arrived DEF On, g
<1>12. CASE c = Regular
  <2>1. f.table = [syms |-> Swap(T.syms, p, T.end[Dynamic] - 1),
                   begin |-> [[T.begin EXCEPT ![Dynamic] = @ - 1] EXCEPT ![Regular] = @ - 1],
                   end |-> [[T.end EXCEPT ![Common] = @ - 1] EXCEPT ![Dynamic] = @ - 1]]
    <3> HIDE DEF d
    <3>1. [T.end EXCEPT ![Common] = @ - 1][Dynamic] = T.end[Dynamic]
      BY <1>1, <1>9
    <3> QED BY <1>1, <1>8, <3>1 DEF Down
  <2>2. ChangeCommon(T, c) = f.table
    <3> HIDE DEF f
    <3> QED BY <1>1, <1>12, <2>1 DEF ChangeCommon
  <2> HIDE DEF f, g
  <2> QED BY <1>1, <1>4, <1>7, <1>10, <1>12, <2>2, Arrived DEF On, g
<1> QED BY <1>11, <1>12

-----------------------------------------------------------------------------
(* The theorems.  The two invariants are inductive together.               *)

LEMMA RangesExactInPlace ==
  ASSUME table \in Tables
  PROVE  RangesExact <=> InPlace(table, home)
<1>1. \A c, d \in Cats : d = c + 1 <=> c \in Cats \ {Regular} /\ d = c + 1
  BY DEF Cats, Regular
<1>2. \A c \in Cats \ {Regular} : c + 1 \in Cats
  BY DEF Cats, Regular
<1>3. Contiguous <=> Chained(table, -1)
  BY <1>1, <1>2, Adjacent DEF Contiguous
<1> QED BY <1>3 DEF RangesExact, InPlace, EachOnce, Distinct, InItsRange

LEMMA CatsFacts ==
  /\ Categories \subseteq Cats /\ Local \in Cats /\ LocalDyn \in Cats
  /\ LocalDyn \notin Categories /\ {Dynamic, Regular} \subseteq Categories
BY DEF Categories, Cats, File, Local, LocalDyn, Common, Dynamic, Regular

Inv == TypeOK /\ InPlace(table, home)

LEMMA InitInv == Init => Inv
<1> SUFFICES ASSUME Init PROVE Inv OBVIOUS
<1>1. table \in Tables
  BY DEF Init, EmptyTable, Tables
<1>2. /\ table.syms = <<>> /\ Len(table.syms) = 0
      /\ \A c \in Cats : table.begin[c] = 0 /\ table.end[c] = 0
  BY DEF Init, EmptyTable
<1>3. Chained(table, -1)
  <2>1. File \in Cats /\ Regular \in Cats
    BY DEF Cats, File, Regular
  <2> QED BY <1>1, <1>2, <2>1, Adjacent
<1>4. InPlace(table, home)
  BY <1>2, <1>3 DEF InPlace, Distinct, RangeOf
<1> QED BY <1>1, <1>4, CatsFacts DEF Inv, TypeOK, Init, Tables

LEMMA NextInv == Inv /\ [Next]_vars => Inv'
<1> SUFFICES ASSUME Inv, [Next]_vars PROVE Inv' OBVIOUS
<1>1. /\ table \in Tables /\ InPlace(table, home)
      /\ cat \in [Symbols -> Categories] /\ home \in [Symbols -> Cats]
      /\ phase \in {"open", "changing"}
  BY DEF Inv, TypeOK, Tables
<1> DEFINE Goal == /\ table' \in Tables /\ InPlace(table', home')
                   /\ cat' \in [Symbols -> Categories] /\ home' \in [Symbols -> Cats]
                   /\ phase' \in {"open", "changing"}
<1>2. SUFFICES Goal
  BY DEF Inv, TypeOK, Tables
<1>3. ASSUME NEW x \in Symbols, NEW c \in Cats, ~InTable(table, x),
             table' = AddTo(table, x, c), home' = [home EXCEPT ![x] = c]
      PROVE  table' \in Tables /\ InPlace(table', home')
  <2> DEFINE h == [home EXCEPT ![x] = c]
  <2>1. h \in [Symbols -> Cats] /\ h[x] = c /\ InPlace(table, h)
    BY <1>1, <1>3, Elsewhere
  <2> HIDE DEF h
  <2>2. AddTo(table, x, c) \in Tables /\ InPlace(AddTo(table, x, c), h)
    BY <1>1, <1>3, <2>1, AddPlaces
  <2> QED BY <1>3, <2>2 DEF h
<1>4. ASSUME NEW x \in Symbols, NEW c \in Categories, Add(x, c)
      PROVE  Goal
  BY <1>1, <1>3, <1>4, CatsFacts DEF Add
<1>5. ASSUME NEW x \in Symbols, NEW c \in Categories, ForceLocal(x, c)
      PROVE  Goal
  BY <1>1, <1>3, <1>5, CatsFacts DEF ForceLocal
<1>6. ASSUME NEW x \in Symbols, NEW c \in Categories, ArrangeSymbol(x, c)
      PROVE  Goal
  <2>1. CASE cat[x] = c
    BY <1>1, <1>6, <2>1 DEF ArrangeSymbol, Arrange
  <2>2. CASE cat[x] # c
    <3>1. table' \in Tables /\ InPlace(table', [home EXCEPT ![x] = c])
      BY <1>1, <1>6, <2>2, ArrangePlaces, CatsFacts DEF ArrangeSymbol
    <3> QED BY <1>1, <1>6, <2>2, <3>1, CatsFacts DEF ArrangeSymbol
  <2> QED BY <2>1, <2>2
<1>7. ASSUME NEW x \in Symbols, ChangeToDynamic(x)
      PROVE  Goal
  <2>1. cat[x] # LocalDyn
    BY <1>1, CatsFacts
  <2>2. table' \in Tables /\ InPlace(table', [home EXCEPT ![x] = LocalDyn])
    BY <1>1, <1>7, <2>1, ArrangePlaces, CatsFacts DEF ChangeToDynamic
  <2> QED BY <1>1, <1>7, <2>2, CatsFacts DEF ChangeToDynamic
<1>8. ASSUME AllocateCommonSymbols
      PROVE  Goal
  <2>1. cat' \in [Symbols -> Categories]
    BY <1>1, <1>8, CatsFacts DEF AllocateCommonSymbols
  <2> QED BY <1>1, <1>8, <2>1 DEF AllocateCommonSymbols
<1>9. ASSUME ChangeCommonToGlobal
      PROVE  Goal
  <2> DEFINE x == At(table, table.end[Common] - 1)
  <2>1. /\ table.begin[Common] # table.end[Common] /\ cat[x] \in {Dynamic, Regular}
        /\ table' = ChangeCommon(table, cat[x]) /\ home' = [home EXCEPT ![x] = cat[x]]
        /\ UNCHANGED <<cat, phase>>
    BY <1>9 DEF ChangeCommonToGlobal
  <2>2. /\ x \in Symbols /\ ChangeCommon(table, cat[x]) \in Tables
        /\ InPlace(ChangeCommon(table, cat[x]), [home EXCEPT ![x] = cat[x]])
    BY ZenonT(60), <1>1, <2>1, ChangeCommonPlaces
  <2> HIDE DEF x
  <2> QED BY <1>1, <2>1, <2>2, CatsFacts
<1>10. ASSUME CommonsChanged
       PROVE  Goal
  BY <1>1, <1>10 DEF CommonsChanged
<1>11. CASE UNCHANGED vars
  BY <1>1, <1>11 DEF vars
<1> QED BY <1>4, <1>5, <1>6, <1>7, <1>8, <1>9, <1>10, <1>11 DEF Next

\* Whatever the symbols and the sequence of add, forceLocal, arrange,
\* changeToDynamic and changeCommonsToGlobal, the table stays a vector of
\* symbols with six borders, none of them before the start of the vector.
THEOREM TypeCorrect == Spec => []TypeOK
<1>1. Inv => TypeOK
  BY DEF Inv
<1> QED BY InitInv, NextInv, <1>1, PTL DEF Spec

\* The swaps across the borders keep the ranges consecutive, keep each symbol
\* in the vector once, and keep it in the range it was last put into, in a
\* table of any length: what sizeNamePools and emitSymbolTables iterate over
\* is exactly what was put there.
THEOREM RangesStayExact == Spec => []RangesExact
<1>1. Inv => RangesExact
  BY RangesExactInPlace DEF Inv, TypeOK, Tables
<1> QED BY InitInv, NextInv, <1>1, PTL DEF Spec
=====
