-------------------------- MODULE InputReadingProofs --------------------------
(***************************************************************************)
(* Theorems about InputReading: the loops of normalize, readGroup and      *)
(* readArchive, with the decisions and the counts that they keep, read the *)
(* members that ArchiveLinking asks for, for any command line.             *)
(***************************************************************************)
EXTENDS InputReading, FiniteSetTheorems, TLAPS

-----------------------------------------------------------------------------
(* What the loops keep.                                                    *)

Cmd == link.cmd
Place(i, j) == i \in 1..Len(Cmd) /\ j \in 1..Len(Cmd[i].inputs)
Input(i, j) == Cmd[i].inputs[j]

\* The loops have been through the input at place (i, j).
Done(i, j) == \/ i < at.node
              \/ i = at.node /\ (at.mode = "rescan" \/ j < at.input)

PlaceInv ==
  /\ at.mode = "normalize" =>
       /\ at.input \in {1, 2}
       /\ at.input = 2 => /\ at.node =< Len(Cmd) /\ ~Node.group
                          /\ Kind[Node.inputs[1]] # "archive"
  /\ at.mode # "normalize" => /\ at.node =< Len(Cmd) /\ Node.group
                              /\ at.input =< Len(Node.inputs) + 1
  /\ rd.ar # None => /\ Place(at.node, at.input) /\ rd.ar = Input(at.node, at.input)
                     /\ at.mode = "normalize" => ~Node.group /\ at.input = 1
                     /\ at.mode = "rescan" => rd.ar \notin link.whole

\* What has been read of the command line.
FilesInv ==
  /\ \A i, j \in Nat : Place(i, j) /\ Kind[Input(i, j)] # "archive" =>
       (Input(i, j) \in Files <=> Done(i, j))
  /\ \A f \in Files : f \in DOMAIN Kind \/ \E a \in Archives : f \in ars[a].members
  /\ \A a \in Archives : ars[a].members \subseteq Files

\* What has been read of the archives.
ArchivesInv ==
  /\ \A i, j \in Nat : Place(i, j) /\ Input(i, j) \in Archives =>
       /\ ~Done(i, j) /\ rd.ar # Input(i, j) => ars[Input(i, j)].members = {}
       /\ Done(i, j) \/ rd.ar = Input(i, j)
            => Len(ars[Input(i, j)].status) = Len(Armap(Input(i, j)))
       /\ Done(i, j) /\ Input(i, j) \in link.whole
            => AL!MembersOf(Input(i, j)) \subseteq ars[Input(i, j)].members
  /\ rd.ar \in link.whole =>
       /\ rd.idx =< Len(Members[rd.ar]) + 1
       /\ Included = {Members[rd.ar][k] : k \in 1..(rd.idx - 1)}

\* What reads of files make of a name.
Entries == {i \in AL!Info : /\ i.desc \in {"Undefined", "Define"}
                            /\ i.bind \in {"Global", "Weak"}}

PoolInv == pool \in [Names -> Entries \cup {AL!NoInfo}]

\* A definition that has been read stays one.
Defined(n) == pool[n] # AL!NoInfo /\ pool[n].desc # "Undefined"

DefinedInv == \A f \in Files, n \in Names : AL!Defines(f, n) => Defined(n)

DecisionInv ==
  \A a \in Archives : \A k \in 1..Len(ars[a].status) :
    /\ Len(ars[a].status) = Len(Armap(a))
    /\ ars[a].status[k] = "Exclude" => Defined(Armap(a)[k].name)
    /\ ars[a].status[k] = "Include" => Armap(a)[k].file \in ars[a].members

OnceInv == NoFileTwice

\* A scan that has extracted nothing leaves nothing behind it.
ScanInv ==
  Scanning /\ ~rd.again =>
    \A k \in 1..Len(Armap(rd.ar)) :
      k < rd.idx /\ AL!Wanted(Armap(rd.ar)[k].name) => Armap(rd.ar)[k].file \in Included

(* The counts of readGroup *)

IsScanned(j) == Node.inputs[j] \in Archives \ link.whole

\* The members of the first m inputs that the pass counts.
Pairs(s, A, mem, m) ==
  {jf \in (1..m) \X MemberFiles : s[jf[1]] \in A /\ jf[2] \in mem[s[jf[1]]]}

CountedArchives == IF at.mode = "rescan" THEN Archives \ link.whole ELSE Archives
MembersRead == [a \in Archives |-> ars[a].members]
Counted(m) == Pairs(Node.inputs, CountedArchives, MembersRead, m)

Quiet == \A j \in 1..(at.input - 1) :
           IsScanned(j) => AL!Needed(Node.inputs[j]) = {}

NothingRead ==
  \A j \in 1..Len(Node.inputs) :
    /\ Kind[Node.inputs[j]] # "object"
    /\ Node.inputs[j] \in Archives => ars[Node.inputs[j]].members = {}

NoWhole == \A j \in 1..Len(Node.inputs) : Node.inputs[j] \notin link.whole
OneScanned == \A j, k \in 1..Len(Node.inputs) : IsScanned(j) /\ IsScanned(k) => j = k

FirstPassInv ==
  at.mode = "group" =>
    /\ cnt.last = 0
    /\ cnt.nonAr = 0 =>
         \A j \in 1..(at.input - 1) : Kind[Node.inputs[j]] # "object"
    /\ NothingRead => Quiet

RescanInv ==
  at.mode = "rescan" =>
    /\ NoWhole => /\ cnt.last =< cnt.nonAr + Cardinality(Counted(Len(Node.inputs)))
                  /\ cnt.last = cnt.nonAr + Cardinality(Counted(Len(Node.inputs))) => Quiet
    /\ OneScanned => Quiet

CountInv ==
  at.mode # "normalize" => cnt.cur = cnt.nonAr + Cardinality(Counted(at.input - 1))

ReadInv ==
  /\ link \in Links /\ TypeOK /\ PoolInv
  /\ PlaceInv /\ FilesInv /\ ArchivesInv /\ DefinedInv /\ DecisionInv /\ OnceInv
  /\ ScanInv /\ FirstPassInv /\ RescanInv /\ CountInv

-----------------------------------------------------------------------------
(* Facts about counting.                                                   *)

LEMMA MembersFinite ==
  /\ \A a \in Archives : IsFiniteSet(AL!MembersOf(a)) /\ AL!MembersOf(a) \subseteq MemberFiles
  /\ IsFiniteSet(MemberFiles)
<1>1. ASSUME NEW a \in Archives
      PROVE  IsFiniteSet(AL!MembersOf(a)) /\ AL!MembersOf(a) \subseteq MemberFiles
  <2> DEFINE n == Len(Members[a])
             f == [j \in 1..n |-> Members[a][j]]
  <2>1. n \in Nat
    BY InputAssumption
  <2>2. f \in Surjection(1..n, AL!MembersOf(a))
    BY DEF Surjection, AL!MembersOf
  <2>3. IsFiniteSet(1..n)
    BY <2>1, FS_Interval
  <2> HIDE DEF f
  <2>4. IsFiniteSet(AL!MembersOf(a))
    BY <2>2, <2>3, FS_Surjection
  <2> QED BY <2>4 DEF MemberFiles
<1>2. IsFiniteSet(MemberFiles)
  <2> DEFINE S == {AL!MembersOf(a) : a \in Archives}
             g == [a \in Archives |-> AL!MembersOf(a)]
  <2>1. IsFiniteSet(Archives)
    BY InputAssumption, FS_Subset DEF Archives
  <2>2. g \in Surjection(Archives, S)
    BY DEF Surjection
  <2>3. \A T \in S : IsFiniteSet(T)
    BY <1>1
  <2>4. MemberFiles = UNION S
    BY DEF MemberFiles
  <2> HIDE DEF S, g
  <2>5. IsFiniteSet(S)
    BY <2>1, <2>2, FS_Surjection
  <2> QED BY <2>3, <2>4, <2>5, FS_UNION
<1> QED BY <1>1, <1>2

LEMMA PairsFinite ==
  ASSUME NEW s, NEW A, NEW mem, NEW m \in Nat
  PROVE  IsFiniteSet(Pairs(s, A, mem, m)) /\ Cardinality(Pairs(s, A, mem, m)) \in Nat
<1>1. IsFiniteSet((1..m) \X MemberFiles)
  <2>1. IsFiniteSet(1..m)
    BY FS_Interval
  <2> QED BY <2>1, MembersFinite, FS_Product
<1>2. Pairs(s, A, mem, m) \in SUBSET ((1..m) \X MemberFiles)
  BY DEF Pairs
<1>3. IsFiniteSet(Pairs(s, A, mem, m))
  BY <1>1, <1>2, FS_Subset
<1> QED BY <1>3, FS_CardinalityType

LEMMA PairsNone ==
  ASSUME NEW s, NEW A, NEW mem
  PROVE  Cardinality(Pairs(s, A, mem, 0)) = 0
<1>1. Pairs(s, A, mem, 0) = {}
  BY DEF Pairs
<1> QED BY <1>1, FS_EmptySet

\* The pass goes on to the next input.
LEMMA PairsNext ==
  ASSUME NEW s, NEW A, NEW mem, NEW m \in Nat \ {0}, mem[s[m]] \subseteq MemberFiles
  PROVE  Cardinality(Pairs(s, A, mem, m))
           = Cardinality(Pairs(s, A, mem, m - 1))
             + IF s[m] \in A THEN Cardinality(mem[s[m]]) ELSE 0
<1> DEFINE old == Pairs(s, A, mem, m - 1)
           new == {m} \X mem[s[m]]
<1>1. m - 1 \in Nat /\ 1..m = (1..(m - 1)) \cup {m} /\ m \notin 1..(m - 1)
  OBVIOUS
<1>2. CASE s[m] \in A
  <2>1. Pairs(s, A, mem, m) = old \cup new
    BY <1>1, <1>2 DEF Pairs
  <2>2. old \cap new = {}
    BY <1>1 DEF Pairs
  <2>3. IsFiniteSet(mem[s[m]])
    BY MembersFinite, FS_Subset
  <2>4. IsFiniteSet(new) /\ Cardinality(new) = Cardinality(mem[s[m]])
    <3>1. IsFiniteSet({m}) /\ Cardinality({m}) = 1
      BY FS_Singleton
    <3>2. IsFiniteSet(new) /\ Cardinality(new) = Cardinality({m}) * Cardinality(mem[s[m]])
      BY <2>3, <3>1, FS_Product
    <3>3. Cardinality(mem[s[m]]) \in Nat
      BY <2>3, FS_CardinalityType
    <3> QED BY <3>1, <3>2, <3>3
  <2>5. IsFiniteSet(old) /\ Cardinality(old) \in Nat
    BY <1>1, PairsFinite
  <2> HIDE DEF old, new
  <2>6. Cardinality(old \cup new) = Cardinality(old) + Cardinality(new) - Cardinality({})
    BY <2>2, <2>4, <2>5, FS_Union
  <2>7. Cardinality({}) = 0 /\ Cardinality(new) \in Nat
    BY <2>4, FS_EmptySet, FS_CardinalityType
  <2> QED BY <1>2, <2>1, <2>4, <2>5, <2>6, <2>7 DEF old
<1>3. CASE s[m] \notin A
  <2>1. Pairs(s, A, mem, m) = old
    BY <1>1, <1>3 DEF Pairs
  <2>2. Cardinality(old) \in Nat
    BY <1>1, PairsFinite
  <2> QED BY <1>3, <2>1, <2>2
<1> QED BY <1>2, <1>3

\* One more member has been read of the input at place x.
Grows(s, A, mem, mem2, n, x, f) ==
  /\ n \in Nat /\ x \in 1..n /\ f \in MemberFiles
  /\ \A j, k \in 1..n : s[j] = s[k] => j = k
  /\ \A j \in 1..n : s[j] \in A =>
       mem2[s[j]] = IF j = x THEN mem[s[j]] \cup {f} ELSE mem[s[j]]

LEMMA PairsGrow ==
  ASSUME NEW s, NEW A, NEW mem, NEW mem2, NEW n, NEW x, NEW f,
         Grows(s, A, mem, mem2, n, x, f)
  PROVE  /\ \A m \in Nat : m < x => Pairs(s, A, mem2, m) = Pairs(s, A, mem, m)
         /\ s[x] \in A /\ f \notin mem[s[x]] =>
              Cardinality(Pairs(s, A, mem2, n)) = Cardinality(Pairs(s, A, mem, n)) + 1
<1> USE DEF Grows
<1>1. ASSUME NEW m \in Nat, m < x
      PROVE  Pairs(s, A, mem2, m) = Pairs(s, A, mem, m)
  <2>1. \A j \in 1..m : j \in 1..n /\ j # x
    BY <1>1
  <2>2. ASSUME NEW jf \in (1..m) \X MemberFiles
        PROVE  s[jf[1]] \in A => mem2[s[jf[1]]] = mem[s[jf[1]]]
    <3>1. jf[1] \in 1..m
      BY <2>2
    <3> QED BY <2>1, <3>1
  <2> QED BY <2>2 DEF Pairs
<1>2. ASSUME s[x] \in A, f \notin mem[s[x]]
      PROVE  Cardinality(Pairs(s, A, mem2, n)) = Cardinality(Pairs(s, A, mem, n)) + 1
  <2>1. Pairs(s, A, mem2, n) = Pairs(s, A, mem, n) \cup {<<x, f>>}
    <3>1. ASSUME NEW jf \in (1..n) \X MemberFiles, s[jf[1]] \in A
          PROVE  jf[2] \in mem2[s[jf[1]]] <=> jf[2] \in mem[s[jf[1]]] \/ jf = <<x, f>>
      <4>1. jf[1] \in 1..n /\ jf = <<jf[1], jf[2]>>
        BY <3>1
      <4>2. CASE jf[1] = x
        <5>1. mem2[s[x]] = mem[s[x]] \cup {f}
          BY <1>2
        <5> QED BY <4>1, <4>2, <5>1
      <4>3. CASE jf[1] # x
        <5>1. mem2[s[jf[1]]] = mem[s[jf[1]]]
          BY <3>1, <4>1, <4>3
        <5> QED BY <4>1, <4>3, <5>1
      <4> QED BY <4>2, <4>3
    <3>2. <<x, f>> \in (1..n) \X MemberFiles /\ <<x, f>>[1] = x
      OBVIOUS
    <3> QED BY <1>2, <3>1, <3>2 DEF Pairs
  <2>2. <<x, f>> \notin Pairs(s, A, mem, n)
    BY <1>2 DEF Pairs
  <2>3. IsFiniteSet(Pairs(s, A, mem, n))
    BY PairsFinite
  <2> QED BY <2>1, <2>2, <2>3, FS_AddElement
<1> QED BY <1>1, <1>2

-----------------------------------------------------------------------------
(* Resolving the symbols of a file.                                        *)

LEMMA OverrideEntries ==
  ASSUME NEW old \in Entries, NEW new \in Entries
  PROVE  /\ AL!Override(old, new) \in Entries
         /\ AL!Override(old, new).desc = new.desc
         /\ AL!OverrideVisibility(old, new) \in Entries
         /\ AL!OverrideVisibility(old, new).desc = old.desc
         /\ [AL!Override(old, new) EXCEPT !.bind = old.bind] \in Entries
         /\ [AL!Override(old, new) EXCEPT !.bind = old.bind].desc = new.desc
         /\ [AL!OverrideVisibility(old, new) EXCEPT !.dyn = TRUE] \in Entries
         /\ [AL!OverrideVisibility(old, new) EXCEPT !.dyn = TRUE].desc = old.desc
<1>1. ASSUME NEW i \in Entries
      PROVE  AL!OverrideVisibility(i, new) \in Entries /\ AL!OverrideVisibility(i, new).desc = i.desc
  BY DEF Entries, AL!OverrideVisibility, AL!Info
<1>2. /\ [AL!OverrideAttributes(old, new) EXCEPT !.size = new.size] \in Entries
      /\ [AL!OverrideAttributes(old, new) EXCEPT !.size = new.size].desc = new.desc
  BY DEF Entries, AL!OverrideAttributes, AL!Info
<1>3. AL!Override(old, new) \in Entries /\ AL!Override(old, new).desc = new.desc
  BY <1>1, <1>2 DEF AL!Override
<1>4. ASSUME NEW i \in Entries
      PROVE  /\ [i EXCEPT !.bind = old.bind] \in Entries /\ [i EXCEPT !.bind = old.bind].desc = i.desc
             /\ [i EXCEPT !.dyn = TRUE] \in Entries /\ [i EXCEPT !.dyn = TRUE].desc = i.desc
  BY DEF Entries, AL!Info
<1> QED BY <1>1, <1>3, <1>4

\* Resolving never makes a definition undefined, nor leaves a name undefined
\* for which a definition is read.
LEMMA ResolveEntries ==
  ASSUME NEW old \in Entries, NEW new \in Entries
  PROVE  LET r == AL!Resolve(old, new, 0, 0).info
         IN  /\ r \in Entries
             /\ old.desc = "Define" \/ new.desc = "Define" => r.desc = "Define"
<1> DEFINE act == AL!LinkAction(AL!Ordinate(new), AL!Ordinate(old))
           r == AL!Resolve(old, new, 0, 0).info
<1>1. ASSUME NEW i \in Entries
      PROVE  IF i.desc = "Define" THEN AL!Ordinate(i) \in {"D", "w_D", "d_D", "wd_D"}
             ELSE AL!Ordinate(i) \in AL!Undefs
  BY DEF Entries, AL!Ordinate, AL!Undefs
<1>2. act \in AL!Overriding \cup {"MDEFD", "MDEFWD", "NOACT", "DUND", "DUNDW", "MDEF"}
  BY <1>1 DEF AL!LinkAction, AL!RowOfU, AL!RowOfWeakU, AL!RowOfD, AL!RowOfWeakD, AL!RowOfDynD,
              AL!RowOfWeakDynD, AL!Overriding, AL!Undefs, AL!Commons
<1>3. new.desc # "Define" => act \in {"UND", "WEAK", "NOACT", "DUND", "DUNDW"}
  BY <1>1 DEF AL!LinkAction, AL!RowOfU, AL!RowOfWeakU, AL!Undefs
<1>4. old.desc = "Define" => act \notin {"UND", "WEAK"}
  BY <1>1 DEF AL!LinkAction, AL!RowOfU, AL!RowOfWeakU, AL!RowOfD, AL!RowOfWeakD, AL!RowOfDynD,
              AL!RowOfWeakDynD, AL!Undefs, AL!Commons
<1>5. old.desc # "Define" /\ new.desc = "Define" => act \notin {"NOACT", "DUND", "DUNDW", "MDEF"}
  BY <1>1 DEF AL!LinkAction, AL!RowOfD, AL!RowOfWeakD, AL!RowOfDynD, AL!RowOfWeakDynD,
              AL!Undefs, AL!Commons
<1>6. /\ act \in AL!Overriding => r = AL!Override(old, new)
      /\ act \in {"MDEFD", "MDEFWD"} => r = [AL!Override(old, new) EXCEPT !.bind = old.bind]
      /\ act = "NOACT" => r = AL!OverrideVisibility(old, new)
      /\ act \in {"DUND", "DUNDW"} => r = [AL!OverrideVisibility(old, new) EXCEPT !.dyn = TRUE]
      /\ act = "MDEF" => r \in {old, AL!Override(old, new)}
  <2> HIDE DEF act
  <2>1. act \in AL!Overriding => r = AL!Override(old, new)
    BY DEF act, AL!Resolve, AL!Overriding
  <2>2. act \in {"MDEFD", "MDEFWD"} => r = [AL!Override(old, new) EXCEPT !.bind = old.bind]
    BY DEF act, AL!Resolve, AL!Overriding
  <2>3. act = "NOACT" => r = AL!OverrideVisibility(old, new)
    BY DEF act, AL!Resolve, AL!Overriding
  <2>4. act \in {"DUND", "DUNDW"} => r = [AL!OverrideVisibility(old, new) EXCEPT !.dyn = TRUE]
    BY DEF act, AL!Resolve, AL!Overriding
  <2>5. act = "MDEF" => r \in {old, AL!Override(old, new)}
    BY DEF act, AL!Resolve, AL!Overriding
  <2> QED BY <2>1, <2>2, <2>3, <2>4, <2>5
<1> HIDE DEF act, r
<1>7. \E o \in Entries :
        /\ r = o
        /\ act \in AL!Overriding \cup {"MDEFD", "MDEFWD"} => o.desc = new.desc
        /\ act \in {"NOACT", "DUND", "DUNDW"} => o.desc = old.desc
        /\ act = "MDEF" => o.desc \in {old.desc, new.desc}
  <2>1. CASE act \in AL!Overriding
    <3>1. AL!Override(old, new) \in Entries /\ AL!Override(old, new).desc = new.desc
      BY OverrideEntries
    <3> QED BY <1>6, <2>1, <3>1 DEF AL!Overriding
  <2>2. CASE act \in {"MDEFD", "MDEFWD"}
    <3> DEFINE o == [AL!Override(old, new) EXCEPT !.bind = old.bind]
    <3>1. o \in Entries /\ o.desc = new.desc
      BY ZenonT(60), OverrideEntries
    <3>2. r = o
      BY <1>6, <2>2
    <3> HIDE DEF o
    <3> QED BY <2>2, <3>1, <3>2
  <2>3. CASE act = "NOACT"
    <3>1. AL!OverrideVisibility(old, new) \in Entries /\ AL!OverrideVisibility(old, new).desc = old.desc
      BY OverrideEntries
    <3> QED BY <1>6, <2>3, <3>1 DEF AL!Overriding
  <2>4. CASE act \in {"DUND", "DUNDW"}
    <3> DEFINE o == [AL!OverrideVisibility(old, new) EXCEPT !.dyn = TRUE]
    <3>1. o \in Entries /\ o.desc = old.desc
      BY OverrideEntries
    <3>2. r = o
      BY <1>6, <2>4
    <3> HIDE DEF o
    <3> QED BY <2>4, <3>1, <3>2 DEF AL!Overriding
  <2>5. CASE act = "MDEF"
    <3>1. AL!Override(old, new) \in Entries /\ AL!Override(old, new).desc = new.desc
      BY OverrideEntries
    <3> QED BY <1>6, <2>5, <3>1 DEF AL!Overriding
  <2> QED BY <1>2, <2>1, <2>2, <2>3, <2>4, <2>5
<1>8. ASSUME old.desc = "Define" \/ new.desc = "Define"
      PROVE  r.desc = "Define"
  <2>1. PICK o \in Entries :
          /\ r = o
          /\ act \in AL!Overriding \cup {"MDEFD", "MDEFWD"} => o.desc = new.desc
          /\ act \in {"NOACT", "DUND", "DUNDW"} => o.desc = old.desc
          /\ act = "MDEF" => o.desc \in {old.desc, new.desc}
    BY <1>7
  <2>2. old.desc \in {"Undefined", "Define"} /\ new.desc \in {"Undefined", "Define"}
    BY DEF Entries
  <2>3. CASE new.desc # "Define"
    <3>1. act \in {"NOACT", "DUND", "DUNDW"} /\ old.desc = "Define"
      BY <1>3, <1>4, <1>8, <2>3
    <3> QED BY <2>1, <3>1
  <2>4. CASE new.desc = "Define" /\ old.desc = "Define"
    BY <1>2, <2>1, <2>4
  <2>5. CASE new.desc = "Define" /\ old.desc # "Define"
    <3>1. act \in AL!Overriding \cup {"MDEFD", "MDEFWD"}
      BY <1>2, <1>5, <2>5
    <3> QED BY <2>1, <2>5, <3>1
  <2> QED BY <2>3, <2>4, <2>5
<1>9. r \in Entries
  BY <1>7
<1> QED BY <1>8, <1>9 DEF r

\* The pool after a file has been read.
LEMMA EnteredEntries ==
  ASSUME link \in Links, pool \in [Names -> Entries \cup {AL!NoInfo}],
         NEW f \in (MemberFiles \cup DOMAIN Kind) \ Archives, NEW dyn \in BOOLEAN
  PROVE  /\ AL!Entered(pool, f, dyn) \in [Names -> Entries \cup {AL!NoInfo}]
         /\ \A n \in Names : Defined(n) \/ AL!Defines(f, n) =>
              /\ AL!Entered(pool, f, dyn)[n] # AL!NoInfo
              /\ AL!Entered(pool, f, dyn)[n].desc # "Undefined"
<1>1. AL!NoInfo \notin Entries
  BY DEF AL!NoInfo, Entries, AL!Info, AL!Descs
<1>2. ASSUME NEW n \in Names
      PROVE  /\ AL!Entered(pool, f, dyn)[n] \in Entries \cup {AL!NoInfo}
             /\ Defined(n) \/ AL!Defines(f, n) =>
                  /\ AL!Entered(pool, f, dyn)[n] # AL!NoInfo
                  /\ AL!Entered(pool, f, dyn)[n].desc # "Undefined"
  <2> DEFINE k == link.syms[f][n]
             new == AL!NewInfo(k, dyn)
  <2>1. k \in AL!Kinds
    BY InputAssumption
  <2> HIDE DEF k
  <2>2. new \in Entries /\ (k \in {"def", "weakdef"} => new.desc = "Define")
    BY <2>1 DEF AL!NewInfo, Entries, AL!Info, AL!Kinds, AL!Descs, AL!Bindings, AL!Default
  <2>3. AL!Entered(pool, f, dyn)[n] =
          IF k = "none" THEN pool[n]
          ELSE IF pool[n] = AL!NoInfo THEN new
          ELSE AL!Resolve(pool[n], new, 0, 0).info
    BY DEF AL!Entered, k
  <2>4. AL!Defines(f, n) => k \in {"def", "weakdef"}
    BY DEF AL!Defines, k
  <2> HIDE DEF new
  <2>5. \A i \in Entries : i.desc # "Undefined" <=> i.desc = "Define"
    BY DEF Entries
  <2>6. CASE k = "none"
    BY <2>3, <2>4, <2>6 DEF Defined
  <2>7. CASE k # "none" /\ pool[n] = AL!NoInfo
    BY <1>1, <2>2, <2>3, <2>4, <2>5, <2>7 DEF Defined
  <2>8. CASE k # "none" /\ pool[n] # AL!NoInfo
    <3>1. pool[n] \in Entries
      BY <2>8
    <3>2. /\ AL!Resolve(pool[n], new, 0, 0).info \in Entries
          /\ pool[n].desc = "Define" \/ new.desc = "Define"
               => AL!Resolve(pool[n], new, 0, 0).info.desc = "Define"
      BY <2>2, <3>1, ResolveEntries
    <3> QED BY <1>1, <2>2, <2>3, <2>4, <2>5, <2>8, <3>1, <3>2 DEF Defined
  <2> QED BY <2>6, <2>7, <2>8
<1>3. AL!Entered(pool, f, dyn) \in [Names -> Entries \cup {AL!NoInfo}]
  BY <1>2 DEF AL!Entered
<1> QED BY <1>2, <1>3

-----------------------------------------------------------------------------
(* Places of the command line.                                             *)

LEMMA Places ==
  ASSUME link \in Links
  PROVE  /\ Cmd \in Seq([group : BOOLEAN, inputs : Seq(DOMAIN Kind)])
         /\ \A i \in 1..Len(Cmd) : ~Cmd[i].group => Len(Cmd[i].inputs) = 1
         /\ \A i \in 1..Len(Cmd) : Cmd[i].inputs \in Seq(DOMAIN Kind)
         /\ \A i, j : Place(i, j) => /\ Input(i, j) \in DOMAIN Kind
                                     /\ Kind[Input(i, j)] \in {"object", "shared", "archive"}
                                     /\ Input(i, j) \in Archives <=> Kind[Input(i, j)] = "archive"
         /\ \A i, j, k, m : Place(i, j) /\ Place(k, m) /\ Input(i, j) = Input(k, m)
                              => i = k /\ j = m
         /\ link.whole \subseteq Archives /\ None \notin Archives
<1>1. /\ Cmd \in Seq([group : BOOLEAN, inputs : Seq(DOMAIN Kind)])
      /\ \A i \in 1..Len(Cmd) : ~Cmd[i].group => Len(Cmd[i].inputs) = 1
      /\ link.whole \subseteq Archives /\ None \notin Archives
  BY InputAssumption DEF Cmd
<1>2. \A i \in 1..Len(Cmd) : Cmd[i].inputs \in Seq(DOMAIN Kind)
  <2>1. \A i \in 1..Len(Cmd) : Cmd[i] \in [group : BOOLEAN, inputs : Seq(DOMAIN Kind)]
    <3> DEFINE S == [group : BOOLEAN, inputs : Seq(DOMAIN Kind)]
    <3>1. Cmd \in Seq(S)
      BY <1>1
    <3> HIDE DEF S
    <3>2. \A i \in 1..Len(Cmd) : Cmd[i] \in S
      BY <3>1
    <3> QED BY <3>2 DEF S
  <2> QED BY <2>1
<1>3. ASSUME NEW i, NEW j, Place(i, j)
      PROVE  Input(i, j) \in DOMAIN Kind
  BY <1>2, <1>3 DEF Place, Input
<1>4. \A k \in DOMAIN Kind : /\ Kind[k] \in {"object", "shared", "archive"}
                             /\ k \in Archives <=> Kind[k] = "archive"
  BY InputAssumption DEF Archives
<1>5. ASSUME NEW i, NEW j, NEW k, NEW m, Place(i, j), Place(k, m), Input(i, j) = Input(k, m)
      PROVE  i = k /\ j = m
  <2>1. \A x, y \in 1..Len(Cmd) : \A u \in 1..Len(Cmd[x].inputs) :
          \A v \in 1..Len(Cmd[y].inputs) :
            Cmd[x].inputs[u] = Cmd[y].inputs[v] => x = y /\ u = v
    BY InputAssumption DEF Cmd
  <2> QED BY <1>5, <2>1 DEF Place, Input
<1> QED BY <1>1, <1>2, <1>3, <1>4, <1>5

\* The files of an append.
LEMMA AppendedFiles ==
  ASSUME NEW S, NEW q \in Seq(S), NEW f \in S
  PROVE  /\ Append(q, f) \in Seq(S)
         /\ RangeOf(Append(q, f)) = RangeOf(q) \cup {f}
         /\ (\A i, j \in 1..Len(q) : q[i] = q[j] => i = j) /\ f \notin RangeOf(q) =>
              \A i, j \in 1..Len(Append(q, f)) :
                Append(q, f)[i] = Append(q, f)[j] => i = j
<1> DEFINE r == Append(q, f)
<1>1. /\ r \in Seq(S) /\ Len(r) = Len(q) + 1 /\ Len(q) \in Nat /\ r[Len(q) + 1] = f
      /\ \A i \in 1..Len(q) : r[i] = q[i]
  OBVIOUS
<1> HIDE DEF r
<1>2. \A i : i \in 1..Len(r) <=> i \in 1..Len(q) \/ i = Len(q) + 1
  BY <1>1
<1>3. RangeOf(r) = RangeOf(q) \cup {f}
  BY <1>1, <1>2 DEF RangeOf
<1>4. ASSUME \A i, j \in 1..Len(q) : q[i] = q[j] => i = j, f \notin RangeOf(q),
             NEW i \in 1..Len(r), NEW j \in 1..Len(r), r[i] = r[j]
      PROVE  i = j
  BY <1>1, <1>2, <1>4 DEF RangeOf
<1> QED BY <1>1, <1>3, <1>4 DEF r

-----------------------------------------------------------------------------
(* Steps that read nothing.                                                *)

\* Where no file is read and the loops stay where they are, the files and the
\* counts are as before.
LEMMA SameMembers ==
  ASSUME ReadInv, UNCHANGED <<link, pool, objs, libs, at, cnt>>,
         \A a \in Archives : ars'[a].members = ars[a].members
  PROVE  /\ PoolInv' /\ FilesInv' /\ DefinedInv' /\ OnceInv'
         /\ FirstPassInv' /\ RescanInv' /\ CountInv'
         /\ UNCHANGED AL!vars
<1>1. /\ link \in Links /\ PoolInv /\ FilesInv /\ DefinedInv /\ OnceInv /\ PlaceInv
      /\ FirstPassInv /\ RescanInv /\ CountInv
  BY DEF ReadInv
<1>2. Files' = Files /\ Cmd' = Cmd
  BY DEF Files, Cmd
<1>3. /\ \A i, j : (Place(i, j)' <=> Place(i, j)) /\ Input(i, j)' = Input(i, j)
      /\ \A i, j : Done(i, j)' <=> Done(i, j)
  BY <1>2 DEF Place, Input, Done
<1>4. PoolInv' /\ DefinedInv' /\ OnceInv'
  BY <1>1, <1>2 DEF PoolInv, DefinedInv, OnceInv, NoFileTwice, Defined, AL!Defines
<1>5. FilesInv'
  BY <1>1, <1>2, <1>3 DEF FilesInv
<1>6. MembersRead' = MembersRead /\ CountedArchives' = CountedArchives /\ Node' = Node
  BY DEF MembersRead, CountedArchives, Node
<1>7. \A m : Counted(m)' = Counted(m)
  BY <1>6 DEF Counted
<1>8. \A a : AL!Needed(a)' = AL!Needed(a)
  BY <1>2 DEF AL!Needed, AL!MembersOf, AL!Wanted, AL!IsUndef, AL!IsWeak, AL!Defines
<1>9. (Quiet' <=> Quiet) /\ (NoWhole' <=> NoWhole) /\ (OneScanned' <=> OneScanned)
  BY <1>6, <1>8 DEF Quiet, NoWhole, OneScanned, IsScanned
<1>10. NothingRead' <=> NothingRead
  BY <1>6 DEF NothingRead
<1>11. FirstPassInv'
  BY <1>1, <1>6, <1>9, <1>10 DEF FirstPassInv
<1>12. RescanInv'
  BY <1>1, <1>6, <1>7, <1>9 DEF RescanInv
<1>13. CountInv'
  BY <1>1, <1>7 DEF CountInv
<1>14. UNCHANGED AL!vars
  BY <1>2 DEF AL!vars
<1> QED BY <1>4, <1>5, <1>11, <1>12, <1>13, <1>14

\* A step of a scan that decides about one entry at most.
LEMMA ScanStep ==
  ASSUME ReadInv, Scanning, UNCHANGED <<link, pool, objs, libs, at, cnt>>,
         ars' \in [Archives -> [status : Seq({"Unknown", "Include", "Exclude"}),
                                members : SUBSET MemberFiles]],
         \A a \in Archives : /\ ars'[a].members = ars[a].members
                             /\ Len(ars'[a].status) = Len(ars[a].status),
         rd'.ar = rd.ar, rd' \in [ar : Archives \cup {None}, idx : Nat \ {0}, again : BOOLEAN],
         DecisionInv', ScanInv'
  PROVE  ReadInv' /\ UNCHANGED AL!vars
<1>1. link \in Links /\ TypeOK /\ PlaceInv /\ ArchivesInv
  BY DEF ReadInv
<1>2. /\ PoolInv' /\ FilesInv' /\ DefinedInv' /\ OnceInv'
      /\ FirstPassInv' /\ RescanInv' /\ CountInv' /\ UNCHANGED AL!vars
  BY SameMembers
<1>3. TypeOK'
  BY <1>1 DEF TypeOK, AL!MembersOf
<1>4. Cmd' = Cmd /\ Node' = Node
  BY DEF Cmd, Node
<1>5. /\ \A i, j : (Place(i, j)' <=> Place(i, j)) /\ Input(i, j)' = Input(i, j)
      /\ \A i, j : Done(i, j)' <=> Done(i, j)
  BY <1>4 DEF Place, Input, Done
<1>6. PlaceInv'
  BY <1>1, <1>4, <1>5 DEF PlaceInv
<1>7. ArchivesInv'
  <2>1. rd.ar \notin link.whole
    BY DEF Scanning
  <2>2. \A a : Armap(a)' = Armap(a) /\ AL!MembersOf(a)' = AL!MembersOf(a)
    BY DEF Armap, AL!MembersOf
  <2>3. ASSUME NEW i \in Nat, NEW j \in Nat, Place(i, j)', Input(i, j)' \in Archives
        PROVE  /\ ~Done(i, j)' /\ rd'.ar # Input(i, j)' => ars'[Input(i, j)'].members = {}
               /\ Done(i, j)' \/ rd'.ar = Input(i, j)'
                    => Len(ars'[Input(i, j)'].status) = Len(Armap(Input(i, j))')
               /\ Done(i, j)' /\ Input(i, j)' \in link.whole
                    => AL!MembersOf(Input(i, j))' \subseteq ars'[Input(i, j)'].members
    <3> DEFINE a == Input(i, j)
    <3>1. /\ a \in Archives /\ Place(i, j) /\ a' = a
          /\ ars'[a].members = ars[a].members /\ Len(ars'[a].status) = Len(ars[a].status)
      BY <1>5, <2>3
    <3>2. Armap(a)' = Armap(a) /\ AL!MembersOf(a)' = AL!MembersOf(a)
      BY <3>1 DEF Armap, AL!MembersOf
    <3>3. /\ ~Done(i, j) /\ rd.ar # a => ars[a].members = {}
          /\ Done(i, j) \/ rd.ar = a => Len(ars[a].status) = Len(Armap(a))
          /\ Done(i, j) /\ a \in link.whole => AL!MembersOf(a) \subseteq ars[a].members
      BY <1>1, <3>1 DEF ArchivesInv
    <3> HIDE DEF a
    <3> QED BY <1>5, <3>1, <3>2, <3>3 DEF a
  <2> QED BY <2>1, <2>3 DEF ArchivesInv
<1> QED BY <1>1, <1>2, <1>3, <1>6, <1>7 DEF ReadInv

-----------------------------------------------------------------------------
(* The scan of an archive.                                                 *)

\* The archive that is read is the input the loops are at.
LEMMA Reading ==
  ASSUME ReadInv, rd.ar # None
  PROVE  /\ rd.ar \in Archives /\ Place(at.node, at.input) /\ rd.ar = Input(at.node, at.input)
         /\ at.node \in Nat \ {0} /\ at.input \in Nat \ {0}
         /\ Len(ars[rd.ar].status) = Len(Armap(rd.ar))
         /\ Armap(rd.ar) \in Seq([file : AL!MembersOf(rd.ar), name : Names])
<1>1. /\ link \in Links /\ TypeOK /\ PlaceInv /\ ArchivesInv
  BY DEF ReadInv
<1>2. /\ rd.ar \in Archives /\ Place(at.node, at.input) /\ rd.ar = Input(at.node, at.input)
  BY <1>1 DEF TypeOK, PlaceInv
<1>3. at.node \in Nat \ {0} /\ at.input \in Nat \ {0}
  <2>1. at.node \in 1..(Len(link.cmd) + 1) /\ at.input \in Nat \ {0}
    BY <1>1 DEF TypeOK
  <2> QED BY <2>1
<1>4. Len(ars[rd.ar].status) = Len(Armap(rd.ar))
  <2>1. \A i, j \in Nat : Place(i, j) /\ Input(i, j) \in Archives =>
          (rd.ar = Input(i, j) => Len(ars[Input(i, j)].status) = Len(Armap(Input(i, j))))
    BY <1>1 DEF ArchivesInv
  <2> QED BY <1>2, <1>3, <2>1
<1>5. Armap(rd.ar) \in Seq([file : AL!MembersOf(rd.ar), name : Names])
  BY <1>1, <1>2, InputAssumption DEF Armap
<1> QED BY <1>2, <1>3, <1>4, <1>5

LEMMA SetStatusFacts ==
  ASSUME TypeOK, rd.ar \in Archives, rd.idx \in 1..Len(ars[rd.ar].status),
         NEW s \in {"Unknown", "Include", "Exclude"}
  PROVE  /\ SetStatus(s) \in [Archives -> [status : Seq({"Unknown", "Include", "Exclude"}),
                                           members : SUBSET MemberFiles]]
         /\ \A a \in Archives : /\ SetStatus(s)[a].members = ars[a].members
                                /\ Len(SetStatus(s)[a].status) = Len(ars[a].status)
         /\ \A a \in Archives : \A k \in 1..Len(ars[a].status) :
              SetStatus(s)[a].status[k] =
                IF a = rd.ar /\ k = rd.idx THEN s ELSE ars[a].status[k]
<1> DEFINE ST == {"Unknown", "Include", "Exclude"}
           old == ars[rd.ar].status
           new == [old EXCEPT ![rd.idx] = s]
<1>1. ars \in [Archives -> [status : Seq(ST), members : SUBSET MemberFiles]]
  BY DEF TypeOK
<1>2. old \in Seq(ST)
  BY <1>1
<1> HIDE DEF ST
<1>3. s \in ST
  BY DEF ST
<1>4. /\ new \in Seq(ST) /\ Len(new) = Len(old)
      /\ \A k \in 1..Len(old) : new[k] = IF k = rd.idx THEN s ELSE old[k]
  BY <1>2, <1>3
<1>5. SetStatus(s) = [ars EXCEPT ![rd.ar] = [ars[rd.ar] EXCEPT !.status = new]]
  BY DEF SetStatus
<1> HIDE DEF new, old
<1>6. [ars[rd.ar] EXCEPT !.status = new] \in [status : Seq(ST), members : SUBSET MemberFiles]
  <2> DEFINE Q == Seq(ST)
             M == SUBSET MemberFiles
  <2>1. ars[rd.ar] \in [status : Q, members : M] /\ new \in Q
    BY <1>1, <1>4
  <2> HIDE DEF Q, M
  <2>2. [ars[rd.ar] EXCEPT !.status = new] \in [status : Q, members : M]
    BY <2>1
  <2> QED BY <2>2 DEF Q, M
<1>7. /\ [ars[rd.ar] EXCEPT !.status = new].status = new
      /\ [ars[rd.ar] EXCEPT !.status = new].members = ars[rd.ar].members
  BY <1>1
<1>8. /\ SetStatus(s) \in [Archives -> [status : Seq(ST), members : SUBSET MemberFiles]]
      /\ SetStatus(s)[rd.ar].status = new /\ SetStatus(s)[rd.ar].members = ars[rd.ar].members
      /\ \A a \in Archives : a # rd.ar => SetStatus(s)[a] = ars[a]
  BY <1>1, <1>5, <1>6, <1>7
<1> QED BY <1>4, <1>8 DEF ST, old

\* The scan has passed an entry that needs nothing.
LEMMA ScanOn ==
  ASSUME ReadInv, InMap, UNCHANGED <<link, pool>>,
         AL!Wanted(Entry.name) => Entry.file \in Included,
         \A a \in Archives : ars'[a].members = ars[a].members,
         NextEntry
  PROVE  /\ ScanInv' /\ rd'.ar = rd.ar
         /\ rd' \in [ar : Archives \cup {None}, idx : Nat \ {0}, again : BOOLEAN]
<1>1. TypeOK /\ ScanInv /\ Scanning /\ rd.ar \in Archives /\ rd.idx \in Nat \ {0}
  BY DEF ReadInv, TypeOK, InMap, Scanning
<1>2. /\ rd' = [rd EXCEPT !.idx = rd.idx + 1] /\ rd.idx + 1 \in Nat \ {0}
      /\ rd \in [ar : Archives \cup {None}, idx : Nat \ {0}, again : BOOLEAN]
  BY <1>1 DEF NextEntry, TypeOK
<1>3. /\ rd'.ar = rd.ar /\ rd'.idx = rd.idx + 1 /\ rd'.again = rd.again
      /\ rd' \in [ar : Archives \cup {None}, idx : Nat \ {0}, again : BOOLEAN]
  BY <1>2
<1>4. /\ \A n : AL!Wanted(n)' <=> AL!Wanted(n)
      /\ Armap(rd.ar)' = Armap(rd.ar) /\ Included' = Included
  BY <1>1, <1>3 DEF AL!Wanted, AL!IsUndef, AL!IsWeak, Armap, Included
<1>5. ASSUME Scanning', ~rd'.again, NEW k \in 1..Len(Armap(rd.ar)), k < rd'.idx,
             AL!Wanted(Armap(rd.ar)[k].name)
      PROVE  Armap(rd.ar)[k].file \in Included
  <2>1. CASE k = rd.idx
    BY <1>5, <2>1 DEF Entry
  <2>2. CASE k # rd.idx
    <3>1. k < rd.idx
      BY <1>1, <1>3, <1>5, <2>2
    <3> QED BY <1>1, <1>3, <1>5, <3>1 DEF ScanInv
  <2> QED BY <2>1, <2>2
<1>6. ScanInv'
  BY <1>3, <1>4, <1>5 DEF ScanInv, Armap
<1> QED BY <1>3, <1>6

LEMMA SkipDecidedKeeps ==
  ASSUME ReadInv, SkipDecided
  PROVE  ReadInv' /\ UNCHANGED AL!vars
<1>1. /\ InMap /\ Scanning /\ ars[rd.ar].status[rd.idx] # "Unknown" /\ NextEntry
      /\ UNCHANGED <<link, pool, objs, libs, ars, at, cnt>>
      /\ rd.idx =< Len(Armap(rd.ar)) /\ rd.ar # None
  BY InputAssumption DEF SkipDecided, EntryIs, InMap, Scanning
<1>2. TypeOK /\ DecisionInv
  BY DEF ReadInv
<1>3. rd.ar \in Archives /\ rd.idx \in 1..Len(ars[rd.ar].status)
  BY <1>1, <1>2, Reading DEF TypeOK
<1>4. ars[rd.ar].status[rd.idx] \in {"Include", "Exclude"}
  <2>1. ars[rd.ar].status \in Seq({"Unknown", "Include", "Exclude"})
    BY <1>2, <1>3 DEF TypeOK
  <2>2. ars[rd.ar].status[rd.idx] \in {"Unknown", "Include", "Exclude"}
    BY <1>3, <2>1
  <2> QED BY <1>1, <2>2
<1>5. AL!Wanted(Entry.name) => Entry.file \in Included
  BY <1>2, <1>3, <1>4 DEF DecisionInv, Defined, Entry, Included, AL!Wanted, AL!IsUndef
<1>6. /\ ScanInv' /\ rd'.ar = rd.ar
      /\ rd' \in [ar : Archives \cup {None}, idx : Nat \ {0}, again : BOOLEAN]
  BY <1>1, <1>5, ScanOn
<1>7. DecisionInv'
  BY <1>1, <1>2 DEF DecisionInv, Armap, Defined
<1> QED BY <1>1, <1>2, <1>6, <1>7, ScanStep DEF TypeOK

\* An entry is decided on: rightly, if the decision is.
LEMMA DecideKeeps ==
  ASSUME ReadInv, InMap, NEW s \in {"Unknown", "Include", "Exclude"}, ars' = SetStatus(s),
         NextEntry, UNCHANGED <<link, pool, objs, libs, at, cnt>>,
         AL!Wanted(Entry.name) => Entry.file \in Included,
         s = "Include" => Entry.file \in Included,
         s = "Exclude" => Defined(Entry.name)
  PROVE  ReadInv' /\ UNCHANGED AL!vars
<1>1. /\ Scanning /\ rd.idx =< Len(Armap(rd.ar)) /\ rd.ar # None
  BY InputAssumption DEF InMap, Scanning
<1>2. TypeOK /\ DecisionInv
  BY DEF ReadInv
<1>3. rd.ar \in Archives /\ rd.idx \in 1..Len(ars[rd.ar].status)
  BY <1>1, <1>2, Reading DEF TypeOK
<1>4. /\ ars' \in [Archives -> [status : Seq({"Unknown", "Include", "Exclude"}),
                                           members : SUBSET MemberFiles]]
      /\ \A a \in Archives : /\ ars'[a].members = ars[a].members
                             /\ Len(ars'[a].status) = Len(ars[a].status)
      /\ \A a \in Archives : \A k \in 1..Len(ars[a].status) :
           ars'[a].status[k] = IF a = rd.ar /\ k = rd.idx THEN s ELSE ars[a].status[k]
  BY <1>2, <1>3, SetStatusFacts
<1>5. /\ ScanInv' /\ rd'.ar = rd.ar
      /\ rd' \in [ar : Archives \cup {None}, idx : Nat \ {0}, again : BOOLEAN]
  BY <1>4, ScanOn
<1>6. DecisionInv'
  <2>1. ASSUME NEW a \in Archives, NEW k \in 1..Len(ars[a].status)
        PROVE  /\ Len(ars'[a].status) = Len(Armap(a))
               /\ ars'[a].status[k] = "Exclude" => Defined(Armap(a)[k].name)
               /\ ars'[a].status[k] = "Include" => Armap(a)[k].file \in ars'[a].members
    <3>1. /\ Len(ars[a].status) = Len(Armap(a))
          /\ ars[a].status[k] = "Exclude" => Defined(Armap(a)[k].name)
          /\ ars[a].status[k] = "Include" => Armap(a)[k].file \in ars[a].members
      BY <1>2 DEF DecisionInv
    <3>2. /\ ars'[a].members = ars[a].members /\ Len(ars'[a].status) = Len(ars[a].status)
          /\ ars'[a].status[k] = IF a = rd.ar /\ k = rd.idx THEN s ELSE ars[a].status[k]
      BY <1>4
    <3>3. CASE a = rd.ar /\ k = rd.idx
      BY <3>1, <3>2, <3>3 DEF Entry, Included
    <3>4. CASE ~(a = rd.ar /\ k = rd.idx)
      BY <3>1, <3>2, <3>4
    <3> QED BY <3>3, <3>4
  <2> QED BY <1>4, <2>1 DEF DecisionInv, Armap, Defined
<1> QED BY <1>1, <1>4, <1>5, <1>6, ScanStep

LEMMA IncludeSiblingKeeps ==
  ASSUME ReadInv, IncludeSibling
  PROVE  ReadInv' /\ UNCHANGED AL!vars
BY DecideKeeps DEF IncludeSibling

LEMMA PassSymbolKeeps ==
  ASSUME ReadInv, PassSymbol
  PROVE  ReadInv' /\ UNCHANGED AL!vars
<1> DEFINE s == ShouldIncludeSymbol(Entry.name)
<1>1. /\ InMap /\ s # "Include" /\ ars' = SetStatus(s) /\ NextEntry
      /\ UNCHANGED <<link, pool, objs, libs, at, cnt>>
  BY DEF PassSymbol
<1>2. s \in {"Unknown", "Include", "Exclude"}
  BY DEF ShouldIncludeSymbol
<1>3. ~AL!Wanted(Entry.name)
  BY <1>1 DEF ShouldIncludeSymbol, AL!Wanted, AL!IsUndef, AL!IsWeak
<1>4. s = "Exclude" => Defined(Entry.name)
  BY DEF ShouldIncludeSymbol, Defined, AL!IsUndef
<1> HIDE DEF s
<1> QED BY <1>1, <1>2, <1>3, <1>4, DecideKeeps

LEMMA ScanAgainKeeps ==
  ASSUME ReadInv, ScanAgain
  PROVE  ReadInv' /\ UNCHANGED AL!vars
<1>1. /\ Scanning /\ rd' = [ar |-> rd.ar, idx |-> 1, again |-> FALSE] /\ rd.ar \in Archives
      /\ UNCHANGED <<link, pool, objs, libs, ars, at, cnt>>
  BY DEF ScanAgain, StartReading, Scanning
<1>2. TypeOK /\ DecisionInv
  BY DEF ReadInv
<1>3. DecisionInv'
  BY <1>1, <1>2 DEF DecisionInv, Armap, Defined
<1>4. ScanInv'
  BY <1>1 DEF ScanInv
<1>5. rd'.ar = rd.ar /\ rd' \in [ar : Archives \cup {None}, idx : Nat \ {0}, again : BOOLEAN]
  BY <1>1
<1> QED BY <1>1, <1>2, <1>3, <1>4, <1>5, ScanStep DEF TypeOK

LEMMA SetStatusesFacts ==
  ASSUME TypeOK, link \in Links, NEW a \in Archives
  PROVE  /\ SetStatuses(a) \in [Archives -> [status : Seq({"Unknown", "Include", "Exclude"}),
                                             members : SUBSET MemberFiles]]
         /\ \A c \in Archives : /\ SetStatuses(a)[c].members = ars[c].members
                                /\ c # a => SetStatuses(a)[c].status = ars[c].status
         /\ Len(SetStatuses(a)[a].status) = Len(Armap(a))
         /\ \A k \in 1..Len(Armap(a)) : SetStatuses(a)[a].status[k] = "Unknown"
<1> DEFINE ST == {"Unknown", "Include", "Exclude"}
           n == Len(Armap(a))
           new == [k \in 1..n |-> "Unknown"]
<1>1. ars \in [Archives -> [status : Seq(ST), members : SUBSET MemberFiles]]
  BY DEF TypeOK
<1>2. n \in Nat
  <2>1. Armap(a) \in Seq([file : AL!MembersOf(a), name : Names])
    BY InputAssumption DEF Armap
  <2> QED BY <2>1
<1>3. "Unknown" \in ST
  OBVIOUS
<1> HIDE DEF ST, n
<1>4. new \in Seq(ST) /\ Len(new) = n /\ \A k \in 1..n : new[k] = "Unknown"
  BY <1>2, <1>3
<1>5. SetStatuses(a) = [ars EXCEPT ![a] = [ars[a] EXCEPT !.status = new]]
  BY DEF SetStatuses, n
<1> HIDE DEF new
<1>6. /\ [ars[a] EXCEPT !.status = new] \in [status : Seq(ST), members : SUBSET MemberFiles]
      /\ [ars[a] EXCEPT !.status = new].status = new
      /\ [ars[a] EXCEPT !.status = new].members = ars[a].members
  BY <1>1, <1>4
<1>7. /\ SetStatuses(a) \in [Archives -> [status : Seq(ST), members : SUBSET MemberFiles]]
      /\ SetStatuses(a)[a].status = new /\ SetStatuses(a)[a].members = ars[a].members
      /\ \A c \in Archives : c # a => SetStatuses(a)[c] = ars[c]
  BY <1>1, <1>5, <1>6
<1> QED BY <1>4, <1>7 DEF ST, n

\* The scan of an archive begins: its first one, or one of a rescan.
LEMMA BeginScan ==
  ASSUME ReadInv, rd.ar = None, Place(at.node, at.input), NEW a \in Archives,
         a = Input(at.node, at.input), StartReading(a),
         UNCHANGED <<link, pool, objs, libs, at, cnt>>,
         at.mode = "normalize" => ~Node.group /\ at.input = 1,
         \/ at.mode # "rescan" /\ ars' = SetStatuses(a)
         \/ at.mode = "rescan" /\ a \notin link.whole /\ ars' = ars
  PROVE  ReadInv' /\ UNCHANGED AL!vars
<1>1. /\ link \in Links /\ TypeOK /\ PlaceInv /\ ArchivesInv /\ DecisionInv
      /\ at.node \in Nat \ {0} /\ at.input \in Nat \ {0}
  <2>1. link \in Links /\ TypeOK /\ PlaceInv /\ ArchivesInv /\ DecisionInv
    BY DEF ReadInv
  <2>2. at.node \in 1..(Len(link.cmd) + 1) /\ at.input \in Nat \ {0}
    BY <2>1 DEF TypeOK
  <2> QED BY <2>1, <2>2
<1>2. /\ ars' \in [Archives -> [status : Seq({"Unknown", "Include", "Exclude"}),
                                members : SUBSET MemberFiles]]
      /\ \A c \in Archives : /\ ars'[c].members = ars[c].members
                             /\ c # a => ars'[c].status = ars[c].status
      /\ at.mode # "rescan" =>
           /\ Len(ars'[a].status) = Len(Armap(a))
           /\ \A k \in 1..Len(Armap(a)) : ars'[a].status[k] = "Unknown"
      /\ at.mode = "rescan" => ars' = ars /\ a \notin link.whole
  <2>1. CASE at.mode # "rescan" /\ ars' = SetStatuses(a)
    BY <1>1, <2>1, SetStatusesFacts
  <2>2. CASE at.mode = "rescan" /\ a \notin link.whole /\ ars' = ars
    BY <1>1, <2>2 DEF TypeOK
  <2> QED BY <2>1, <2>2
<1>3. /\ PoolInv' /\ FilesInv' /\ DefinedInv' /\ OnceInv'
      /\ FirstPassInv' /\ RescanInv' /\ CountInv' /\ UNCHANGED AL!vars
  BY <1>2, SameMembers
<1>4. rd'.ar = a /\ rd'.idx = 1 /\ rd' = [ar |-> a, idx |-> 1, again |-> FALSE]
  BY DEF StartReading
<1>5. TypeOK'
  <2>1. \A c \in Archives : ars'[c].members \subseteq AL!MembersOf(c)
    BY <1>1, <1>2 DEF TypeOK
  <2>2. rd' \in [ar : Archives \cup {None}, idx : Nat \ {0}, again : BOOLEAN]
    BY <1>4
  <2> QED BY <1>1, <1>2, <2>1, <2>2 DEF TypeOK, AL!MembersOf
<1>6. Cmd' = Cmd /\ Node' = Node
  BY DEF Cmd, Node
<1>7. /\ \A i, j : (Place(i, j)' <=> Place(i, j)) /\ Input(i, j)' = Input(i, j)
      /\ \A i, j : Done(i, j)' <=> Done(i, j)
  BY <1>6 DEF Place, Input, Done
<1>8. PlaceInv'
  <2>1. /\ Place(at.node, at.input)' /\ rd'.ar = Input(at.node, at.input)'
    BY <1>4, <1>7
  <2> QED BY <1>1, <1>2, <1>4, <1>6, <2>1 DEF PlaceInv
<1>9. ScanInv'
  BY <1>4 DEF ScanInv
<1>10. DecisionInv'
  <2>1. ASSUME NEW c \in Archives, NEW k \in 1..Len(ars'[c].status)
        PROVE  /\ Len(ars'[c].status) = Len(Armap(c))
               /\ ars'[c].status[k] = "Exclude" => Defined(Armap(c)[k].name)
               /\ ars'[c].status[k] = "Include" => Armap(c)[k].file \in ars'[c].members
    <3>1. CASE c = a /\ at.mode # "rescan"
      BY <1>2, <2>1, <3>1
    <3>2. CASE ~(c = a /\ at.mode # "rescan")
      <4>1. ars'[c].status = ars[c].status /\ ars'[c].members = ars[c].members
        BY <1>2, <3>2
      <4> QED BY <1>1, <2>1, <4>1 DEF DecisionInv
    <3> QED BY <3>1, <3>2
  <2> QED BY <2>1 DEF DecisionInv, Armap, Defined
<1>11. at.mode # "rescan" => ars[a].members = {}
  <2>1. at.mode # "rescan" => ~Done(at.node, at.input)
    BY <1>1 DEF Done
  <2>2. rd.ar # a
    BY InputAssumption
  <2>3. \A i, j \in Nat : Place(i, j) /\ Input(i, j) \in Archives =>
          (~Done(i, j) /\ rd.ar # Input(i, j) => ars[Input(i, j)].members = {})
    BY <1>1 DEF ArchivesInv
  <2> QED BY <1>1, <2>1, <2>2, <2>3
<1>12. ArchivesInv'
  <2>1. ASSUME NEW i \in Nat, NEW j \in Nat, Place(i, j)', Input(i, j)' \in Archives
        PROVE  /\ ~Done(i, j)' /\ rd'.ar # Input(i, j)' => ars'[Input(i, j)'].members = {}
               /\ Done(i, j)' \/ rd'.ar = Input(i, j)'
                    => Len(ars'[Input(i, j)'].status) = Len(Armap(Input(i, j))')
               /\ Done(i, j)' /\ Input(i, j)' \in link.whole
                    => AL!MembersOf(Input(i, j))' \subseteq ars'[Input(i, j)'].members
    <3> DEFINE c == Input(i, j)
    <3>1. /\ c \in Archives /\ Place(i, j) /\ c' = c /\ rd.ar # c
          /\ ars'[c].members = ars[c].members
      BY <1>2, <1>7, <2>1, InputAssumption
    <3>2. Armap(c)' = Armap(c) /\ AL!MembersOf(c)' = AL!MembersOf(c)
      BY <3>1 DEF Armap, AL!MembersOf
    <3>3. /\ ~Done(i, j) => ars[c].members = {}
          /\ Done(i, j) => Len(ars[c].status) = Len(Armap(c))
          /\ Done(i, j) /\ c \in link.whole => AL!MembersOf(c) \subseteq ars[c].members
      BY <1>1, <3>1 DEF ArchivesInv
    <3>4. Done(i, j) \/ rd'.ar = c => Len(ars'[c].status) = Len(Armap(c))
      <4>1. CASE c # a
        BY <1>2, <1>4, <3>1, <3>3, <4>1
      <4>2. CASE c = a /\ at.mode # "rescan"
        BY <1>2, <4>2
      <4>3. CASE c = a /\ at.mode = "rescan"
        <5>1. i = at.node
          BY <1>1, <3>1, <4>3, Places
        <5>2. Done(i, j)
          BY <4>3, <5>1 DEF Done
        <5> QED BY <1>2, <3>3, <4>3, <5>2
      <4> QED BY <4>1, <4>2, <4>3
    <3> HIDE DEF c
    <3> QED BY <1>7, <3>1, <3>2, <3>3, <3>4 DEF c
  <2>2. rd'.ar \in link.whole =>
          /\ rd'.idx =< Len(Members[rd'.ar]) + 1
          /\ Included' = {Members[rd'.ar][k] : k \in 1..(rd'.idx - 1)}
    <3>1. ASSUME a \in link.whole
          PROVE  /\ 1 =< Len(Members[a]) + 1
                 /\ ars'[a].members = {Members[a][k] : k \in 1..(1 - 1)}
      <4>1. Len(Members[a]) \in Nat
        BY InputAssumption
      <4>2. ars'[a].members = {}
        BY <1>2, <1>11, <3>1
      <4> QED BY <4>1, <4>2
    <3> QED BY <1>4, <3>1 DEF Included
  <2> QED BY <2>1, <2>2 DEF ArchivesInv
<1> QED BY <1>1, <1>3, <1>5, <1>8, <1>9, <1>10, <1>12 DEF ReadInv

-----------------------------------------------------------------------------
(* The extraction of a member.                                             *)

\* The inputs of the node that is read are different ones.
LEMMA NodeInputs ==
  ASSUME ReadInv, at.node =< Len(Cmd)
  PROVE  /\ Len(Node.inputs) \in Nat
         /\ \A j \in 1..Len(Node.inputs) : /\ Place(at.node, j) /\ Node.inputs[j] = Input(at.node, j)
                                           /\ Node.inputs[j] \in DOMAIN Kind
                                           /\ Node.inputs[j] \in Archives
                                                <=> Kind[Node.inputs[j]] = "archive"
                                           /\ Kind[Node.inputs[j]] \in {"object", "shared", "archive"}
         /\ \A j, k \in 1..Len(Node.inputs) : Node.inputs[j] = Node.inputs[k] => j = k
         /\ ~Node.group => Len(Node.inputs) = 1
         /\ at.node \in 1..Len(Cmd) /\ at.input \in Nat \ {0}
<1>1. link \in Links /\ TypeOK
  BY DEF ReadInv
<1>2. at.node \in 1..(Len(Cmd) + 1) /\ at.input \in Nat \ {0}
  BY <1>1 DEF TypeOK, Cmd
<1>3. at.node \in 1..Len(Cmd)
  <2>1. Len(Cmd) \in Nat
    BY <1>1, Places
  <2> QED BY <1>2, <2>1
<1>4. Node = Cmd[at.node] /\ Node.inputs \in Seq(DOMAIN Kind)
  BY <1>1, <1>3, Places DEF Node, Cmd
<1>5. \A j \in 1..Len(Node.inputs) : Place(at.node, j) /\ Node.inputs[j] = Input(at.node, j)
  BY <1>3, <1>4 DEF Place, Input
<1>6. \A j \in 1..Len(Node.inputs) : /\ Node.inputs[j] \in DOMAIN Kind
                                     /\ Node.inputs[j] \in Archives
                                          <=> Kind[Node.inputs[j]] = "archive"
                                     /\ Kind[Node.inputs[j]] \in {"object", "shared", "archive"}
  BY <1>1, <1>5, Places
<1>7. \A j, k \in 1..Len(Node.inputs) : Node.inputs[j] = Node.inputs[k] => j = k
  BY <1>1, <1>5, Places
<1>8. ~Node.group => Len(Node.inputs) = 1
  BY <1>1, <1>3, <1>4, Places
<1> QED BY SMTT(60), <1>2, <1>3, <1>4, <1>5, <1>6, <1>7, <1>8

\* The counts after a member has been read into the archive that is scanned.
LEMMA IncludeCounts ==
  ASSUME ReadInv, rd.ar \in Archives, NEW f \in MemberFiles, f \notin Included,
         UNCHANGED <<link, at, cnt>>,
         \A a \in Archives : ars'[a].members = IF a = rd.ar THEN Included \cup {f}
                                               ELSE ars[a].members
  PROVE  FirstPassInv' /\ RescanInv' /\ CountInv'
<1> DEFINE inputs == Node.inputs
           n == Len(inputs)
           x == at.input
<1>1. /\ Place(at.node, x) /\ rd.ar = Input(at.node, x) /\ at.node \in Nat \ {0} /\ x \in Nat \ {0}
  BY Reading, InputAssumption
<1>2. at.node =< Len(Cmd) /\ x \in 1..n /\ rd.ar = inputs[x]
  BY <1>1 DEF Place, Input, Node, Cmd
<1>3. /\ FirstPassInv /\ RescanInv /\ CountInv /\ PlaceInv /\ TypeOK
  BY DEF ReadInv
<1>4. n \in Nat /\ \A j, k \in 1..n : inputs[j] = inputs[k] => j = k
  BY <1>2, NodeInputs
<1>5. Node' = Node /\ CountedArchives' = CountedArchives
  BY DEF Node, CountedArchives
<1>6. \A j \in 1..n : inputs[j] \in CountedArchives =>
        MembersRead'[inputs[j]] = IF j = x THEN MembersRead[inputs[j]] \cup {f}
                                  ELSE MembersRead[inputs[j]]
  <2>1. ASSUME NEW j \in 1..n, inputs[j] \in CountedArchives
        PROVE  MembersRead'[inputs[j]] = IF j = x THEN MembersRead[inputs[j]] \cup {f}
                                         ELSE MembersRead[inputs[j]]
    <3>1. inputs[j] \in Archives /\ (j = x <=> inputs[j] = rd.ar)
      BY <1>2, <1>4, <2>1 DEF CountedArchives
    <3>2. /\ MembersRead[inputs[j]] = ars[inputs[j]].members
          /\ MembersRead'[inputs[j]] = ars'[inputs[j]].members
      BY <3>1 DEF MembersRead
    <3> HIDE DEF inputs
    <3> QED BY <3>1, <3>2 DEF Included
  <2> QED BY <2>1
<1>7. MembersRead[inputs[x]] = Included
  BY <1>2 DEF MembersRead, Included
<1> HIDE DEF inputs, n
<1>8. /\ \A m \in Nat : m < x => Pairs(inputs, CountedArchives, MembersRead', m)
                                   = Pairs(inputs, CountedArchives, MembersRead, m)
      /\ inputs[x] \in CountedArchives =>
           Cardinality(Pairs(inputs, CountedArchives, MembersRead', n))
             = Cardinality(Pairs(inputs, CountedArchives, MembersRead, n)) + 1
  <2>1. PICK A, mem, mem2, s, k, y : /\ A = CountedArchives /\ mem = MembersRead
                                     /\ mem2 = MembersRead' /\ s = inputs /\ k = n /\ y = x
    OBVIOUS
  <2>2. k \in Nat /\ y \in 1..k /\ f \notin mem[s[y]] /\ f \in MemberFiles
    BY <1>2, <1>4, <1>7, <2>1
  <2>3. \A j, l \in 1..k : s[j] = s[l] => j = l
    BY <1>4, <2>1
  <2>4. \A j \in 1..k : s[j] \in A =>
          mem2[s[j]] = IF j = y THEN mem[s[j]] \cup {f} ELSE mem[s[j]]
    BY <1>6, <2>1
  <2>5. Grows(s, A, mem, mem2, k, y, f)
    BY <2>2, <2>3, <2>4 DEF Grows
  <2>6. /\ \A m \in Nat : m < y => Pairs(s, A, mem2, m) = Pairs(s, A, mem, m)
        /\ s[y] \in A =>
             Cardinality(Pairs(s, A, mem2, k)) = Cardinality(Pairs(s, A, mem, k)) + 1
    BY <2>2, <2>5, PairsGrow
  <2> QED BY <2>1, <2>6
<1>9. CountInv'
  <2>1. x - 1 \in Nat /\ x - 1 < x
    BY <1>1
  <2>2. Counted(x - 1)' = Counted(x - 1)
    BY <1>5, <1>8, <2>1 DEF Counted, inputs
  <2> QED BY <1>3, <2>2 DEF CountInv
<1>10. FirstPassInv'
  <2>1. ~NothingRead'
    <3>1. ars'[inputs[x]].members # {} /\ inputs[x] \in Archives /\ x \in 1..Len(Node.inputs)
      BY <1>2 DEF n, inputs
    <3> QED BY <1>5, <3>1 DEF NothingRead, inputs
  <2> QED BY <1>3, <1>5, <2>1 DEF FirstPassInv
<1>11. RescanInv'
  <2>1. ASSUME at.mode = "rescan"
        PROVE  /\ NoWhole' => /\ cnt.last =< cnt.nonAr + Cardinality(Counted(n)')
                              /\ cnt.last = cnt.nonAr + Cardinality(Counted(n)') => Quiet'
               /\ OneScanned' => Quiet'
    <3>1. IsScanned(x) /\ inputs[x] \in CountedArchives
      BY <1>2, <1>3, <2>1, InputAssumption DEF PlaceInv, IsScanned, CountedArchives, inputs
    <3>2. Cardinality(Counted(n)') = Cardinality(Counted(n)) + 1
      <4>1. Counted(n) = Pairs(inputs, CountedArchives, MembersRead, n)
        BY DEF Counted, inputs
      <4>2. n' = n
        BY <1>5 DEF n, inputs
      <4>3. Counted(n)' = Pairs(inputs, CountedArchives, MembersRead', n)
        BY <1>5, <4>2 DEF Counted, inputs
      <4> QED BY <1>8, <3>1, <4>1, <4>3
    <3>3. Cardinality(Counted(n)) \in Nat
      BY <1>4, PairsFinite DEF Counted
    <3>4. cnt.last \in Nat /\ cnt.nonAr \in Nat
      BY <1>3 DEF TypeOK
    <3>5. NoWhole => cnt.last =< cnt.nonAr + Cardinality(Counted(n))
      BY <1>3, <2>1 DEF RescanInv, n, inputs
    <3>6. NoWhole' <=> NoWhole
      BY <1>5 DEF NoWhole
    <3>7. OneScanned' => Quiet'
      <4>1. \A j : IsScanned(j)' <=> IsScanned(j)
        BY <1>5 DEF IsScanned
      <4>2. ASSUME OneScanned', NEW j \in 1..(x - 1), IsScanned(j)
            PROVE  FALSE
        <5>1. j \in 1..n /\ j # x
          BY <1>2, <1>4
        <5>2. IsScanned(x)' /\ IsScanned(j)'
          BY <3>1, <4>1, <4>2
        <5>3. j = x
          BY <1>2, <1>5, <4>2, <5>1, <5>2 DEF OneScanned, n, inputs
        <5> QED BY <5>1, <5>3
      <4> QED BY <4>1, <4>2 DEF Quiet
    <3> QED BY <3>2, <3>3, <3>4, <3>5, <3>6, <3>7
  <2> QED BY <1>5, <2>1 DEF RescanInv, n, inputs
<1> QED BY <1>9, <1>10, <1>11

\* The symbols of a file enter the pool: what was defined stays so, and what
\* the file defines is defined.
LEMMA EnterKeeps ==
  ASSUME ReadInv, NEW f \in (MemberFiles \cup DOMAIN Kind) \ Archives, NEW dyn \in BOOLEAN,
         link' = link, pool' = AL!Entered(pool, f, dyn), Files' = Files \cup {f}
  PROVE  /\ PoolInv' /\ pool' \in [Names -> AL!Info \cup {AL!NoInfo}] /\ DefinedInv'
         /\ AL!Info' = AL!Info /\ AL!NoInfo' = AL!NoInfo
         /\ \A a \in Archives : \A k \in 1..Len(Armap(a)) :
              Defined(Armap(a)[k].name) => Defined(Armap(a)[k].name)'
<1>1. /\ link \in Links /\ PoolInv /\ DefinedInv
  BY DEF ReadInv
<1>2. /\ pool' \in [Names -> Entries \cup {AL!NoInfo}]
      /\ \A n \in Names : Defined(n) \/ AL!Defines(f, n) => Defined(n)'
  <2>1. pool \in [Names -> Entries \cup {AL!NoInfo}]
    BY <1>1 DEF PoolInv
  <2>2. /\ AL!Entered(pool, f, dyn) \in [Names -> Entries \cup {AL!NoInfo}]
        /\ \A n \in Names : Defined(n) \/ AL!Defines(f, n) =>
             /\ AL!Entered(pool, f, dyn)[n] # AL!NoInfo
             /\ AL!Entered(pool, f, dyn)[n].desc # "Undefined"
    BY <1>1, <2>1, EnteredEntries
  <2>3. AL!NoInfo' = AL!NoInfo
    BY DEF AL!NoInfo
  <2>4. \A n : Defined(n)' <=> pool'[n] # AL!NoInfo /\ pool'[n].desc # "Undefined"
    BY <2>3 DEF Defined
  <2> QED BY <2>2, <2>4
<1>3. PoolInv'
  BY <1>2 DEF PoolInv, AL!NoInfo
<1>4. pool' \in [Names -> AL!Info \cup {AL!NoInfo}]
  <2>1. Entries \subseteq AL!Info
    BY DEF Entries
  <2> QED BY <1>2, <2>1
<1>5. DefinedInv'
  <2>1. \A g, n : AL!Defines(g, n)' <=> AL!Defines(g, n)
    BY DEF AL!Defines
  <2> QED BY <1>1, <1>2, <2>1 DEF DefinedInv
<1>6. AL!Info' = AL!Info /\ AL!NoInfo' = AL!NoInfo
  BY DEF AL!Info, AL!NoInfo
<1>7. ASSUME NEW a \in Archives, NEW k \in 1..Len(Armap(a)), Defined(Armap(a)[k].name)
      PROVE  Defined(Armap(a)[k].name)'
  <2> DEFINE S == [file : AL!MembersOf(a), name : Names]
  <2>1. Armap(a) \in Seq(S)
    BY <1>1, InputAssumption DEF Armap
  <2> HIDE DEF S
  <2>2. Armap(a)[k] \in S
    BY <2>1
  <2>3. PICK n \in Names : n = Armap(a)[k].name
    BY <2>2 DEF S
  <2>4. Defined(n)'
    BY <1>2, <1>7, <2>3
  <2>5. Armap(a)[k].name' = n
    BY <2>3 DEF Armap
  <2> QED BY <2>4, <2>5 DEF Defined
<1> QED BY <1>3, <1>4, <1>5, <1>6, <1>7

\* A member is read: its definitions enter the pool, and the counts notice it.
LEMMA IncludeKeeps ==
  ASSUME ReadInv, rd.ar \in Archives, NEW f \in AL!MembersOf(rd.ar), f \notin Files,
         NEW s \in Seq({"Unknown", "Include", "Exclude"}), Len(s) = Len(ars[rd.ar].status),
         IncludeMember(f, s), UNCHANGED <<link, libs, at, cnt>>,
         rd'.ar = rd.ar, rd' \in [ar : Archives \cup {None}, idx : Nat \ {0}, again : BOOLEAN],
         \A k \in 1..Len(s) :
           /\ s[k] = "Include" => Armap(rd.ar)[k].file \in Included \cup {f}
           /\ s[k] = "Exclude" => Defined(Armap(rd.ar)[k].name),
         rd.ar \notin link.whole => rd'.again,
         rd.ar \in link.whole => /\ rd.idx =< Len(Members[rd.ar]) /\ rd'.idx = rd.idx + 1
                                 /\ f = Members[rd.ar][rd.idx]
  PROVE  ReadInv' /\ pool' = AL!Entered(pool, f, FALSE) /\ Files' = Files \cup {f}
<1> DEFINE ST == {"Unknown", "Include", "Exclude"}
           a0 == rd.ar
<1>1. /\ link \in Links /\ TypeOK /\ PoolInv /\ PlaceInv /\ FilesInv /\ ArchivesInv
      /\ DefinedInv /\ DecisionInv /\ OnceInv
      /\ a0 # None /\ a0 \in Archives /\ MemberFiles \cap DOMAIN Kind = {}
  BY InputAssumption DEF ReadInv
<1>2. /\ Place(at.node, at.input) /\ a0 = Input(at.node, at.input)
      /\ at.node \in Nat \ {0} /\ at.input \in Nat \ {0}
      /\ Len(ars[a0].status) = Len(Armap(a0))
  BY <1>1, Reading
<1>3. f \in MemberFiles /\ f \notin DOMAIN Kind /\ f \notin Archives
  BY <1>1, MembersFinite DEF Archives
<1>4. /\ pool' = AL!Entered(pool, f, FALSE) /\ objs' = Append(objs, f)
      /\ ars' = [ars EXCEPT ![a0] = [status |-> s, members |-> ars[a0].members \cup {f}]]
  BY DEF IncludeMember
<1>5. /\ ars \in [Archives -> [status : Seq(ST), members : SUBSET MemberFiles]]
      /\ \A a \in Archives : ars[a].members \subseteq AL!MembersOf(a)
  BY <1>1 DEF TypeOK
<1>6. /\ ars'[a0].status = s /\ ars'[a0].members = ars[a0].members \cup {f}
      /\ \A a \in Archives : a # a0 => ars'[a] = ars[a]
      /\ ars' \in [Archives -> [status : Seq(ST), members : SUBSET MemberFiles]]
  <2> DEFINE new == [status |-> s, members |-> ars[a0].members \cup {f}]
  <2> HIDE DEF ST
  <2>1. s \in Seq(ST)
    BY DEF ST
  <2>2. /\ new \in [status : Seq(ST), members : SUBSET MemberFiles]
        /\ new.status = s /\ new.members = ars[a0].members \cup {f}
    BY <1>1, <1>3, <1>5, <2>1
  <2> HIDE DEF new
  <2>3. ars' = [ars EXCEPT ![a0] = new]
    BY <1>4 DEF new
  <2> QED BY <1>1, <1>5, <2>2, <2>3
<1>7. /\ RangeOf(objs') = RangeOf(objs) \cup {f} /\ NoFileTwice'
      /\ objs' \in Seq(MemberFiles \cup DOMAIN Kind)
  <2> DEFINE S == MemberFiles \cup DOMAIN Kind
  <2>1. objs \in Seq(S) /\ f \in S /\ f \notin RangeOf(objs)
    BY <1>1, <1>3 DEF TypeOK, Files
  <2>2. \A i, j \in 1..Len(objs) : objs[i] = objs[j] => i = j
    BY <1>1 DEF OnceInv, NoFileTwice
  <2> HIDE DEF S
  <2>3. /\ Append(objs, f) \in Seq(S) /\ RangeOf(Append(objs, f)) = RangeOf(objs) \cup {f}
        /\ \A i, j \in 1..Len(Append(objs, f)) :
             Append(objs, f)[i] = Append(objs, f)[j] => i = j
    BY SMTT(60), <2>1, <2>2, AppendedFiles
  <2> QED BY <1>4, <2>3 DEF S, NoFileTwice
<1>8. Files' = Files \cup {f}
  BY <1>7 DEF Files
<1>9. /\ PoolInv' /\ pool' \in [Names -> AL!Info \cup {AL!NoInfo}] /\ DefinedInv'
      /\ AL!Info' = AL!Info /\ AL!NoInfo' = AL!NoInfo
      /\ \A a \in Archives : \A k \in 1..Len(Armap(a)) :
           Defined(Armap(a)[k].name) => Defined(Armap(a)[k].name)'
  BY <1>3, <1>4, <1>8, EnterKeeps
<1>10. Cmd' = Cmd /\ Node' = Node
  BY DEF Cmd, Node
<1>11. /\ \A i, j : (Place(i, j)' <=> Place(i, j)) /\ Input(i, j)' = Input(i, j)
       /\ \A i, j : Done(i, j)' <=> Done(i, j)
  BY <1>10 DEF Place, Input, Done
<1>12. \A a : Armap(a)' = Armap(a) /\ AL!MembersOf(a)' = AL!MembersOf(a)
  BY DEF Armap, AL!MembersOf
<1>13. OnceInv'
  BY <1>7 DEF OnceInv
<1>14. TypeOK'
  <2>2. \A a \in Archives : ars'[a].members \subseteq AL!MembersOf(a)
    BY <1>5, <1>6
  <2>3. /\ libs' \in Seq(DOMAIN Kind)
        /\ at' \in [mode : {"normalize", "group", "rescan"},
                    node : 1..(Len(link'.cmd) + 1), input : Nat \ {0}]
        /\ cnt' \in [cur : Nat, last : Nat, nonAr : Nat]
    BY <1>1 DEF TypeOK
  <2> QED BY <1>6, <1>7, <1>9, <1>12, <2>2, <2>3 DEF TypeOK
<1>15. PlaceInv'
  BY <1>1, <1>10, <1>11 DEF PlaceInv
<1>16. FilesInv'
  <2>1. \A i, j \in Nat : Place(i, j) /\ Kind[Input(i, j)] # "archive" =>
          (Input(i, j) \in Files' <=> Done(i, j))
    <3>1. \A i, j : Place(i, j) => Input(i, j) \in DOMAIN Kind
      BY <1>1, Places
    <3> QED BY <1>1, <1>3, <1>8, <3>1 DEF FilesInv
  <2>2. \A g \in Files' : g \in DOMAIN Kind \/ \E a \in Archives : g \in ars'[a].members
    <3>1. ASSUME NEW g \in Files'
          PROVE  g \in DOMAIN Kind \/ \E a \in Archives : g \in ars'[a].members
      <4>1. CASE g = f
        BY <1>1, <1>6, <4>1
      <4>2. CASE g \in Files
        <5>1. \A a \in Archives : ars[a].members \subseteq ars'[a].members
          BY <1>6
        <5> QED BY <1>1, <4>2, <5>1 DEF FilesInv
      <4> QED BY <1>8, <3>1, <4>1, <4>2
    <3> QED BY <3>1
  <2>3. \A a \in Archives : ars'[a].members \subseteq Files'
    BY <1>1, <1>6, <1>8 DEF FilesInv
  <2> QED BY <1>11, <2>1, <2>2, <2>3 DEF FilesInv
<1>17. ArchivesInv'
  <2>1. ASSUME NEW i \in Nat, NEW j \in Nat, Place(i, j)', Input(i, j)' \in Archives
        PROVE  /\ ~Done(i, j)' /\ rd'.ar # Input(i, j)' => ars'[Input(i, j)'].members = {}
               /\ Done(i, j)' \/ rd'.ar = Input(i, j)'
                    => Len(ars'[Input(i, j)'].status) = Len(Armap(Input(i, j))')
               /\ Done(i, j)' /\ Input(i, j)' \in link.whole
                    => AL!MembersOf(Input(i, j))' \subseteq ars'[Input(i, j)'].members
    <3> DEFINE c == Input(i, j)
    <3>1. c \in Archives /\ Place(i, j) /\ c' = c
      BY <1>11, <2>1
    <3>2. Armap(c)' = Armap(c) /\ AL!MembersOf(c)' = AL!MembersOf(c)
      BY <3>1 DEF Armap, AL!MembersOf
    <3>3. /\ ~Done(i, j) /\ rd.ar # c => ars[c].members = {}
          /\ Done(i, j) \/ rd.ar = c => Len(ars[c].status) = Len(Armap(c))
          /\ Done(i, j) /\ c \in link.whole => AL!MembersOf(c) \subseteq ars[c].members
      BY <1>1, <3>1 DEF ArchivesInv
    <3> HIDE DEF c
    <3>4. /\ ~Done(i, j) /\ rd.ar # c => ars'[c].members = {}
          /\ Done(i, j) \/ rd.ar = c => Len(ars'[c].status) = Len(Armap(c))
          /\ Done(i, j) /\ c \in link.whole => AL!MembersOf(c) \subseteq ars'[c].members
      <4>1. CASE c = a0
        BY <1>2, <1>6, <3>3, <4>1
      <4>2. CASE c # a0
        BY <1>6, <3>1, <3>3, <4>2
      <4> QED BY <4>1, <4>2
    <3> QED BY <1>11, <3>1, <3>2, <3>4 DEF c
  <2>2. ASSUME a0 \in link.whole
        PROVE  /\ rd'.idx =< Len(Members[a0]) + 1
               /\ ars'[a0].members = {Members[a0][k] : k \in 1..(rd'.idx - 1)}
    <3>1. /\ rd.idx =< Len(Members[a0]) /\ rd'.idx = rd.idx + 1 /\ f = Members[a0][rd.idx]
          /\ ars[a0].members = {Members[a0][k] : k \in 1..(rd.idx - 1)}
      BY <1>1, <2>2 DEF ArchivesInv, Included
    <3>2. Len(Members[a0]) \in Nat /\ rd.idx \in Nat \ {0}
      BY <1>1, InputAssumption DEF TypeOK
    <3>3. rd'.idx - 1 = rd.idx /\ 1..rd.idx = (1..(rd.idx - 1)) \cup {rd.idx}
      BY <3>1, <3>2
    <3> QED BY <1>6, <3>1, <3>2, <3>3
  <2>3. rd'.ar \in link'.whole =>
          /\ rd'.idx =< Len(Members[rd'.ar]) + 1
          /\ Included' = {Members[rd'.ar][k] : k \in 1..(rd'.idx - 1)}
    BY <2>2 DEF Included
  <2> QED BY <2>1, <2>3 DEF ArchivesInv
<1>18. DecisionInv'
  <2>1. ASSUME NEW a \in Archives, NEW k \in 1..Len(ars'[a].status)
        PROVE  /\ Len(ars'[a].status) = Len(Armap(a))
               /\ ars'[a].status[k] = "Exclude" => Defined(Armap(a)[k].name)'
               /\ ars'[a].status[k] = "Include" => Armap(a)[k].file \in ars'[a].members
    <3>1. /\ Len(ars'[a].status) = Len(Armap(a))
          /\ ars'[a].status[k] = "Exclude" => Defined(Armap(a)[k].name)
          /\ ars'[a].status[k] = "Include" => Armap(a)[k].file \in ars'[a].members
      <4>1. CASE a = a0
        BY <1>2, <1>6, <2>1, <4>1 DEF Included
      <4>2. CASE a # a0
        BY <1>1, <1>6, <2>1, <4>2 DEF DecisionInv
      <4> QED BY <4>1, <4>2
    <3>2. k \in 1..Len(Armap(a))
      BY <3>1
    <3> QED BY <1>9, <3>1, <3>2
  <2> QED BY <1>12, <2>1 DEF DecisionInv
<1>19. ScanInv'
  BY DEF ScanInv, Scanning
<1>20. FirstPassInv' /\ RescanInv' /\ CountInv'
  <2>1. f \notin Included
    BY <1>1 DEF FilesInv, Included
  <2>2. \A a \in Archives : ars'[a].members = IF a = rd.ar THEN Included \cup {f}
                                              ELSE ars[a].members
    BY <1>6 DEF Included
  <2> QED BY <1>1, <1>3, <2>1, <2>2, IncludeCounts
<1> QED BY <1>1, <1>4, <1>8, <1>9, <1>13, <1>14, <1>15, <1>16, <1>17, <1>18, <1>19, <1>20 DEF ReadInv

\* The entry of the symbol map that the scan is at.
LEMMA EntryFacts ==
  ASSUME ReadInv, InMap
  PROVE  /\ rd.ar \in Archives /\ rd.ar # None /\ rd.ar \notin link.whole
         /\ rd.idx \in 1..Len(ars[rd.ar].status)
         /\ Len(ars[rd.ar].status) = Len(Armap(rd.ar))
         /\ Entry.file \in AL!MembersOf(rd.ar) /\ Entry.name \in Names
         /\ AL!Defines(Entry.file, Entry.name)
<1> DEFINE S == [file : AL!MembersOf(rd.ar), name : Names]
<1>1. /\ rd.ar \in Archives /\ rd.ar # None /\ rd.ar \notin link.whole
      /\ rd.idx =< Len(Armap(rd.ar)) /\ TypeOK /\ link \in Links
  BY InputAssumption DEF InMap, Scanning, ReadInv
<1>2. rd.idx \in Nat \ {0}
  BY <1>1 DEF TypeOK
<1>3. Armap(rd.ar) \in Seq(S) /\ Len(ars[rd.ar].status) = Len(Armap(rd.ar))
  BY <1>1, Reading
<1>4. rd.idx \in 1..Len(Armap(rd.ar))
  BY <1>1, <1>2, <1>3
<1>5. Entry \in S
  <2> HIDE DEF S
  <2> QED BY <1>3, <1>4 DEF Entry
<1>6. /\ Entry.file \in AL!MembersOf(rd.ar) /\ Entry.name \in Names
      /\ Entry = [file |-> Entry.file, name |-> Entry.name]
  BY <1>5
<1>7. AL!Defines(Entry.file, Entry.name)
  <2>1. PICK a, f, n : a = rd.ar /\ f = Entry.file /\ n = Entry.name
    OBVIOUS
  <2>2. a \in Archives /\ f \in AL!MembersOf(a) /\ n \in Names
    BY <1>1, <1>6, <2>1
  <2>3. \E k \in 1..Len(link.map[a]) : link.map[a][k] = [file |-> f, name |-> n]
    BY <1>4, <1>6, <2>1 DEF Entry, Armap
  <2>4. link.syms[f][n] \in {"def", "weakdef"}
    <3>1. MapsDefinitions(link)
      BY <1>1, InputAssumption
    <3> QED BY <2>2, <2>3, <3>1 DEF MapsDefinitions
  <2> QED BY <2>1, <2>4 DEF AL!Defines
<1> QED BY <1>1, <1>3, <1>4, <1>6, <1>7

\* What the abstract specification asks of an extraction.
LEMMA Extracts ==
  ASSUME ReadInv, rd.ar # None,
         NEW f \in IF rd.ar \in link.whole THEN AL!MembersOf(rd.ar) \ Files ELSE AL!Needed(rd.ar),
         UNCHANGED <<link, at>>, pool' = AL!Entered(pool, f, FALSE), Files' = Files \cup {f}
  PROVE  AL!Next
<1>1. /\ rd.ar \in Archives /\ Place(at.node, at.input) /\ rd.ar = Input(at.node, at.input)
  BY Reading
<1>2. rd.ar \in AL!ArchivesOf(at.node) /\ at.node =< Len(link.cmd)
  <2>1. at.node \in 1..Len(link.cmd) /\ at.input \in 1..Len(link.cmd[at.node].inputs)
        /\ rd.ar = link.cmd[at.node].inputs[at.input]
    BY <1>1 DEF Place, Input, Cmd
  <2>2. rd.ar \in AL!InputsOf(at.node)
    BY <2>1 DEF AL!InputsOf
  <2>3. at.node =< Len(link.cmd)
    BY <2>1
  <2> QED BY <1>1, <2>2, <2>3 DEF AL!ArchivesOf, Archives
<1>3. AL!Extract(rd.ar, f)
  BY <1>2 DEF AL!Extract
<1>4. f \in AL!MembersOf(rd.ar)
  BY DEF AL!Needed
<1> QED BY <1>2, <1>3, <1>4 DEF AL!Next

\* A member that is wanted has not been read yet.
LEMMA IncludeSymbolKeeps ==
  ASSUME ReadInv, IncludeSymbol
  PROVE  ReadInv' /\ AL!Next
<1> DEFINE f == Entry.file
           s == SetStatus("Include")[rd.ar].status
           ST == {"Unknown", "Include", "Exclude"}
<1>1. /\ InMap /\ f \notin Included /\ ShouldIncludeSymbol(Entry.name) = "Include"
      /\ IncludeMember(f, s) /\ rd' = [rd EXCEPT !.idx = @ + 1, !.again = TRUE]
      /\ UNCHANGED <<link, libs, at, cnt>>
  BY DEF IncludeSymbol
<1>2. TypeOK /\ DecisionInv /\ DefinedInv
  BY DEF ReadInv
<1>3. /\ rd.ar \in Archives /\ rd.ar # None /\ rd.ar \notin link.whole
      /\ rd.idx \in 1..Len(ars[rd.ar].status)
      /\ Len(ars[rd.ar].status) = Len(Armap(rd.ar))
      /\ f \in AL!MembersOf(rd.ar) /\ Entry.name \in Names
      /\ AL!Defines(f, Entry.name)
  BY <1>1, EntryFacts
<1>4. AL!Wanted(Entry.name)
  BY <1>1 DEF ShouldIncludeSymbol, AL!Wanted
<1>5. f \notin Files
  BY <1>2, <1>3, <1>4 DEF DefinedInv, Defined, AL!Wanted, AL!IsUndef
<1>6. f \in AL!Needed(rd.ar)
  BY <1>3, <1>4, <1>5 DEF AL!Needed
<1>7. /\ s \in Seq(ST) /\ Len(s) = Len(ars[rd.ar].status)
      /\ \A k \in 1..Len(s) : s[k] = IF k = rd.idx THEN "Include" ELSE ars[rd.ar].status[k]
  <2>1. "Include" \in ST
    OBVIOUS
  <2>2. /\ SetStatus("Include") \in [Archives -> [status : Seq(ST), members : SUBSET MemberFiles]]
        /\ \A a \in Archives : Len(SetStatus("Include")[a].status) = Len(ars[a].status)
        /\ \A a \in Archives : \A k \in 1..Len(ars[a].status) :
             SetStatus("Include")[a].status[k] =
               IF a = rd.ar /\ k = rd.idx THEN "Include" ELSE ars[a].status[k]
    BY <1>2, <1>3, <2>1, SetStatusFacts
  <2> HIDE DEF ST
  <2> QED BY <1>3, <2>2
<1>8. \A k \in 1..Len(s) :
        /\ s[k] = "Include" => Armap(rd.ar)[k].file \in Included \cup {f}
        /\ s[k] = "Exclude" => Defined(Armap(rd.ar)[k].name)
  <2>1. \A k \in 1..Len(ars[rd.ar].status) :
          /\ ars[rd.ar].status[k] = "Exclude" => Defined(Armap(rd.ar)[k].name)
          /\ ars[rd.ar].status[k] = "Include" => Armap(rd.ar)[k].file \in Included
    BY <1>2, <1>3 DEF DecisionInv, Included
  <2> QED BY <1>7, <2>1 DEF Entry
<1>9. /\ rd'.ar = rd.ar /\ rd'.again
      /\ rd' \in [ar : Archives \cup {None}, idx : Nat \ {0}, again : BOOLEAN]
  <2>1. /\ rd \in [ar : Archives \cup {None}, idx : Nat \ {0}, again : BOOLEAN]
        /\ rd.idx + 1 \in Nat \ {0} /\ TRUE \in BOOLEAN
    BY <1>2, <1>3 DEF TypeOK
  <2>2. rd' = [rd EXCEPT !.idx = rd.idx + 1, !.again = TRUE]
    BY <1>1
  <2> QED BY <2>1, <2>2
<1> HIDE DEF s, f
<1>10. ReadInv' /\ pool' = AL!Entered(pool, f, FALSE) /\ Files' = Files \cup {f}
  BY <1>1, <1>3, <1>5, <1>7, <1>8, <1>9, IncludeKeeps
<1>11. AL!Next
  BY <1>1, <1>3, <1>6, <1>10, Extracts
<1> QED BY <1>10, <1>11

LEMMA IncludeNextMemberKeeps ==
  ASSUME ReadInv, IncludeNextMember, WholeApart
  PROVE  ReadInv' /\ AL!Next
<1> DEFINE f == Members[rd.ar][rd.idx]
           s == ars[rd.ar].status
           ST == {"Unknown", "Include", "Exclude"}
<1>1. /\ rd.ar \in link.whole /\ rd.idx =< Len(Members[rd.ar]) /\ IncludeMember(f, s)
      /\ rd' = [rd EXCEPT !.idx = @ + 1] /\ UNCHANGED <<link, libs, at, cnt>>
  BY DEF IncludeNextMember, NextEntry
<1>2. /\ TypeOK /\ DecisionInv /\ FilesInv /\ ArchivesInv /\ link \in Links
      /\ link.whole \subseteq Archives /\ MemberFiles \cap DOMAIN Kind = {}
      /\ None \notin Archives
  BY InputAssumption DEF ReadInv
<1>3. rd.ar \in Archives /\ rd.ar # None /\ rd.idx \in 1..Len(Members[rd.ar])
  <2>1. rd.ar \in Archives /\ Len(Members[rd.ar]) \in Nat /\ rd.idx \in Nat \ {0}
    BY SMTT(60), <1>1, <1>2, InputAssumption DEF TypeOK
  <2> QED BY <1>1, <1>2, <2>1
<1>4. f \in AL!MembersOf(rd.ar)
  BY <1>3 DEF AL!MembersOf
<1>5. f \notin Files
  <2>1. SUFFICES ASSUME f \in Files PROVE FALSE
    OBVIOUS
  <2>2. f \notin DOMAIN Kind
    BY <1>2, <1>3, <1>4, MembersFinite
  <2>3. PICK c \in Archives : f \in ars[c].members
    BY <1>2, <2>1, <2>2 DEF FilesInv
  <2>4. ars[c].members \subseteq AL!MembersOf(c)
    BY <1>2 DEF TypeOK
  <2>5. c = rd.ar
    BY <1>1, <1>2, <1>4, <2>3, <2>4 DEF WholeApart
  <2>6. PICK k \in 1..(rd.idx - 1) : f = Members[rd.ar][k]
    BY <1>1, <1>2, <2>3, <2>5 DEF ArchivesInv, Included
  <2>7. k \in 1..Len(Members[rd.ar]) /\ k # rd.idx
    BY <1>3, InputAssumption
  <2> QED BY <1>1, <1>2, <1>3, <2>6, <2>7 DEF WholeApart
<1>6. s \in Seq(ST)
  BY <1>2, <1>3 DEF TypeOK
<1>7. \A k \in 1..Len(s) :
        /\ s[k] = "Include" => Armap(rd.ar)[k].file \in Included \cup {f}
        /\ s[k] = "Exclude" => Defined(Armap(rd.ar)[k].name)
  BY <1>2, <1>3 DEF DecisionInv, Included
<1>8. /\ rd'.ar = rd.ar /\ rd'.idx = rd.idx + 1
      /\ rd' \in [ar : Archives \cup {None}, idx : Nat \ {0}, again : BOOLEAN]
  <2>1. /\ rd \in [ar : Archives \cup {None}, idx : Nat \ {0}, again : BOOLEAN]
        /\ rd.idx + 1 \in Nat \ {0}
    BY <1>2, <1>3 DEF TypeOK
  <2>2. rd' = [rd EXCEPT !.idx = rd.idx + 1]
    BY <1>1
  <2> QED BY <2>1, <2>2
<1>9. Len(s) = Len(ars[rd.ar].status) /\ f = Members[rd.ar][rd.idx]
  OBVIOUS
<1> HIDE DEF s, f
<1>10. ReadInv' /\ pool' = AL!Entered(pool, f, FALSE) /\ Files' = Files \cup {f}
  BY <1>1, <1>3, <1>4, <1>5, <1>6, <1>7, <1>8, <1>9, IncludeKeeps
<1>11. AL!Next
  BY <1>1, <1>3, <1>4, <1>5, <1>10, Extracts
<1> QED BY <1>10, <1>11

-----------------------------------------------------------------------------
(* Inputs that are not archives.                                           *)

\* The pass goes on: an input that is no archive has no members to count.
LEMMA CountsOn ==
  ASSUME ReadInv, at.mode \in {"group", "rescan"}, at.input \in 1..Len(Node.inputs),
         Node.inputs[at.input] \notin CountedArchives, NEW x, x = at.input
  PROVE  Cardinality(Counted(x)) = Cardinality(Counted(x - 1))
<1>1. PICK s, A, mem, m : s = Node.inputs /\ A = CountedArchives /\ mem = MembersRead /\ m = x
  OBVIOUS
<1>2. at.node =< Len(Cmd)
  BY DEF ReadInv, PlaceInv
<1>3. Len(Node.inputs) \in Nat
  BY <1>2, NodeInputs
<1>4. m \in Nat \ {0} /\ s[m] \notin A
  BY <1>1, <1>3
<1>5. Pairs(s, A, mem, m) = Pairs(s, A, mem, m - 1)
  <2>1. 1..m = (1..(m - 1)) \cup {m}
    BY <1>4
  <2> QED BY <1>4, <2>1 DEF Pairs
<1> QED BY <1>1, <1>5 DEF Counted

LEMMA ReadInput ==
  ASSUME ReadInv, rd.ar = None, Place(at.node, at.input), at.mode # "rescan",
         NEW f, f = Input(at.node, at.input), Kind[f] \in {"object", "shared"},
         pool' = AL!Entered(pool, f, Kind[f] = "shared"),
         IF Kind[f] = "object" THEN objs' = Append(objs, f) /\ libs' = libs
         ELSE libs' = Append(libs, f) /\ objs' = objs,
         at' = [at EXCEPT !.input = @ + 1], UNCHANGED <<link, ars, rd>>,
         at.mode = "normalize" => at.input = 1 /\ ~Node.group,
         cnt' \in [cur : Nat, last : Nat, nonAr : Nat], FirstPassInv', CountInv'
  PROVE  ReadInv' /\ AL!Next
<1>1. /\ link \in Links /\ TypeOK /\ PoolInv /\ PlaceInv /\ FilesInv /\ ArchivesInv
      /\ DefinedInv /\ DecisionInv /\ OnceInv
      /\ None \notin Archives /\ MemberFiles \cap DOMAIN Kind = {}
  BY InputAssumption DEF ReadInv
<1>2. /\ f \in DOMAIN Kind /\ f \notin Archives /\ f \notin MemberFiles
      /\ (Kind[f] = "shared") \in BOOLEAN /\ Kind[f] # "archive"
  <2>1. Input(at.node, at.input) \in DOMAIN Kind
    BY <1>1, Places
  <2> QED BY <1>1, <2>1 DEF Archives
<1>3. /\ at.node \in Nat \ {0} /\ at.input \in Nat \ {0} /\ at.node \in 1..(Len(link.cmd) + 1)
      /\ at \in [mode : {"normalize", "group", "rescan"}, node : 1..(Len(link.cmd) + 1),
                 input : Nat \ {0}]
      /\ at.node =< Len(Cmd) /\ at.input \in 1..Len(Node.inputs)
  <2>1. at \in [mode : {"normalize", "group", "rescan"}, node : 1..(Len(link.cmd) + 1),
                 input : Nat \ {0}]
    BY <1>1 DEF TypeOK
  <2>2. at.node \in 1..(Len(link.cmd) + 1) /\ at.input \in Nat \ {0}
    BY <2>1
  <2> QED BY <2>1, <2>2 DEF Place, Cmd, Node
<1>4. /\ at'.mode = at.mode /\ at'.node = at.node /\ at'.input = at.input + 1
      /\ at' \in [mode : {"normalize", "group", "rescan"}, node : 1..(Len(link.cmd) + 1),
                  input : Nat \ {0}]
  <2>1. at' = [at EXCEPT !.input = at.input + 1] /\ at.input + 1 \in Nat \ {0}
    BY <1>3
  <2> QED BY <1>3, <2>1
<1>5. Cmd' = Cmd /\ Node' = Node
  BY <1>4 DEF Cmd, Node
<1>6. /\ \A i, j : (Place(i, j)' <=> Place(i, j)) /\ Input(i, j)' = Input(i, j)
      /\ \A i, j \in Nat : Done(i, j)' <=> Done(i, j) \/ (i = at.node /\ j = at.input)
  <2>1. ASSUME NEW i \in Nat, NEW j \in Nat
        PROVE  Done(i, j)' <=> Done(i, j) \/ (i = at.node /\ j = at.input)
    <3>1. j < at'.input <=> j < at.input \/ j = at.input
      BY SMTT(60), <1>3, <1>4
    <3>2. Done(i, j)' <=> i < at.node \/ (i = at.node /\ j < at'.input)
      BY <1>4 DEF Done
    <3>3. Done(i, j) <=> i < at.node \/ (i = at.node /\ j < at.input)
      BY DEF Done
    <3> QED BY <3>1, <3>2, <3>3
  <2> QED BY <1>5, <2>1 DEF Place, Input
<1>7. f \notin Files
  <2>1. ~Done(at.node, at.input)
    BY <1>3 DEF Done
  <2> QED BY <1>1, <1>2, <1>3, <2>1 DEF FilesInv
<1>8. /\ Files' = Files \cup {f} /\ NoFileTwice'
      /\ objs' \in Seq(MemberFiles \cup DOMAIN Kind) /\ libs' \in Seq(DOMAIN Kind)
  <2> DEFINE S == MemberFiles \cup DOMAIN Kind
             T == DOMAIN Kind
  <2>1. /\ objs \in Seq(S) /\ libs \in Seq(T) /\ f \in S /\ f \in T
        /\ f \notin RangeOf(objs) /\ f \notin RangeOf(libs)
    BY <1>1, <1>2, <1>7 DEF TypeOK, Files
  <2>2. \A i, j \in 1..Len(objs) : objs[i] = objs[j] => i = j
    BY <1>1 DEF OnceInv, NoFileTwice
  <2> HIDE DEF S, T
  <2>3. /\ Append(objs, f) \in Seq(S) /\ RangeOf(Append(objs, f)) = RangeOf(objs) \cup {f}
        /\ \A i, j \in 1..Len(Append(objs, f)) :
             Append(objs, f)[i] = Append(objs, f)[j] => i = j
    <3> PICK q : q = objs
      OBVIOUS
    <3>1. q \in Seq(S) /\ f \in S /\ f \notin RangeOf(q)
      BY <2>1
    <3>2. \A i, j \in 1..Len(q) : q[i] = q[j] => i = j
      BY <2>2
    <3>3. Append(q, f) \in Seq(S) /\ RangeOf(Append(q, f)) = RangeOf(q) \cup {f}
      BY <3>1, AppendedFiles
    <3>4. \A i, j \in 1..Len(Append(q, f)) : Append(q, f)[i] = Append(q, f)[j] => i = j
      BY <3>1, <3>2, AppendedFiles
    <3> QED BY <3>3, <3>4
  <2>4. Append(libs, f) \in Seq(T) /\ RangeOf(Append(libs, f)) = RangeOf(libs) \cup {f}
    BY <2>1, AppendedFiles
  <2>5. CASE Kind[f] = "object"
    <3>1. objs' = Append(objs, f) /\ libs' = libs
      BY <2>5
    <3> QED BY <2>1, <2>3, <3>1 DEF Files, NoFileTwice, S, T
  <2>6. CASE Kind[f] # "object"
    <3>1. libs' = Append(libs, f) /\ objs' = objs
      BY <2>6
    <3> QED BY <2>1, <2>2, <2>4, <3>1 DEF Files, NoFileTwice, S, T
  <2> QED BY <2>5, <2>6
<1>9. /\ PoolInv' /\ pool' \in [Names -> AL!Info \cup {AL!NoInfo}] /\ DefinedInv'
      /\ AL!Info' = AL!Info /\ AL!NoInfo' = AL!NoInfo
      /\ \A a \in Archives : \A k \in 1..Len(Armap(a)) :
           Defined(Armap(a)[k].name) => Defined(Armap(a)[k].name)'
  <2>1. PICK dyn \in BOOLEAN : dyn = (Kind[f] = "shared")
    BY <1>2
  <2>2. f \in (MemberFiles \cup DOMAIN Kind) \ Archives /\ pool' = AL!Entered(pool, f, dyn)
    BY <1>2, <2>1
  <2> QED BY <1>8, <2>2, EnterKeeps
<1>10. \A a : Armap(a)' = Armap(a) /\ AL!MembersOf(a)' = AL!MembersOf(a)
  BY DEF Armap, AL!MembersOf
<1>11. TypeOK'
  <2>1. /\ ars' \in [Archives -> [status : Seq({"Unknown", "Include", "Exclude"}),
                                  members : SUBSET MemberFiles]]
        /\ \A a \in Archives : ars'[a].members \subseteq AL!MembersOf(a)
        /\ rd' \in [ar : Archives \cup {None}, idx : Nat \ {0}, again : BOOLEAN]
    BY <1>1 DEF TypeOK
  <2> QED BY <1>4, <1>8, <1>9, <1>10, <2>1 DEF TypeOK
<1>12. PlaceInv'
  <2>1. CASE at.mode = "normalize"
    <3>0. at.input = 1 /\ ~Node.group
      BY <2>1
    <3>1. at'.input = 2 /\ at.input = 1 /\ ~Node.group /\ Node.inputs[1] = f
      <4>1. at'.input = 2
        BY <1>4, <3>0
      <4>2. Node.inputs[at.input] = f
        BY DEF Input, Node, Cmd
      <4> QED BY <3>0, <4>1, <4>2
    <3> QED BY <1>2, <1>3, <1>4, <1>5, <2>1, <3>1 DEF PlaceInv
  <2>2. CASE at.mode # "normalize"
    <3>1. Node.group
      BY <1>1, <2>2 DEF PlaceInv
    <3>2. at'.input =< Len(Node.inputs) + 1
      BY <1>3, <1>4
    <3> QED BY <1>3, <1>4, <1>5, <2>2, <3>1, <3>2 DEF PlaceInv
  <2> QED BY <2>1, <2>2
<1>13. FilesInv'
  <2>1. ASSUME NEW i \in Nat, NEW j \in Nat, Place(i, j), Kind[Input(i, j)] # "archive"
        PROVE  Input(i, j) \in Files' <=> Done(i, j)'
    <3>1. Input(i, j) \in Files <=> Done(i, j)
      BY <1>1, <2>1 DEF FilesInv
    <3>2. Input(i, j) = f <=> i = at.node /\ j = at.input
      <4>1. \A k, m : Place(k, m) /\ Input(i, j) = Input(k, m) => i = k /\ j = m
        BY <1>1, <2>1, Places
      <4> QED BY <4>1
    <3> QED BY <1>6, <1>8, <3>1, <3>2
  <2>2. \A g \in Files' : g \in DOMAIN Kind \/ \E a \in Archives : g \in ars'[a].members
    BY <1>1, <1>2, <1>8 DEF FilesInv
  <2>3. \A a \in Archives : ars'[a].members \subseteq Files'
    BY <1>1, <1>8 DEF FilesInv
  <2> QED BY <1>6, <2>1, <2>2, <2>3 DEF FilesInv
<1>14. ArchivesInv'
  <2>1. ASSUME NEW i \in Nat, NEW j \in Nat, Place(i, j)', Input(i, j)' \in Archives
        PROVE  /\ ~Done(i, j)' /\ rd'.ar # Input(i, j)' => ars'[Input(i, j)'].members = {}
               /\ Done(i, j)' \/ rd'.ar = Input(i, j)'
                    => Len(ars'[Input(i, j)'].status) = Len(Armap(Input(i, j))')
               /\ Done(i, j)' /\ Input(i, j)' \in link.whole
                    => AL!MembersOf(Input(i, j))' \subseteq ars'[Input(i, j)'].members
    <3> DEFINE c == Input(i, j)
    <3>1. c \in Archives /\ Place(i, j) /\ c' = c
      BY <1>6, <2>1
    <3>2. Armap(c)' = Armap(c) /\ AL!MembersOf(c)' = AL!MembersOf(c)
      BY <3>1 DEF Armap, AL!MembersOf
    <3>3. /\ ~Done(i, j) /\ rd.ar # c => ars[c].members = {}
          /\ Done(i, j) \/ rd.ar = c => Len(ars[c].status) = Len(Armap(c))
          /\ Done(i, j) /\ c \in link.whole => AL!MembersOf(c) \subseteq ars[c].members
      BY <1>1, <3>1 DEF ArchivesInv
    <3>4. Done(i, j)' <=> Done(i, j)
      <4>1. ~(i = at.node /\ j = at.input)
        BY <1>2, <3>1
      <4> QED BY <1>6, <4>1
    <3> HIDE DEF c
    <3> QED BY <3>1, <3>2, <3>3, <3>4 DEF c
  <2>2. rd'.ar \notin link.whole
    BY <1>1, Places
  <2> QED BY <2>1, <2>2 DEF ArchivesInv
<1>15. DecisionInv'
  <2>1. ASSUME NEW a \in Archives, NEW k \in 1..Len(ars[a].status)
        PROVE  /\ Len(ars[a].status) = Len(Armap(a))
               /\ ars[a].status[k] = "Exclude" => Defined(Armap(a)[k].name)'
               /\ ars[a].status[k] = "Include" => Armap(a)[k].file \in ars[a].members
    <3>1. /\ Len(ars[a].status) = Len(Armap(a))
          /\ ars[a].status[k] = "Exclude" => Defined(Armap(a)[k].name)
          /\ ars[a].status[k] = "Include" => Armap(a)[k].file \in ars[a].members
      BY <1>1 DEF DecisionInv
    <3>2. k \in 1..Len(Armap(a))
      BY <3>1
    <3> QED BY <1>9, <3>1, <3>2
  <2> QED BY <1>10, <2>1 DEF DecisionInv
<1>16. ScanInv' /\ OnceInv' /\ RescanInv'
  BY <1>1, <1>4, <1>8 DEF ScanInv, Scanning, OnceInv, RescanInv
<1>17. AL!Next
  <2>1. f \in AL!InputsOf(at.node)
    BY <1>3 DEF AL!InputsOf, Input, Cmd, Node
  <2>2. AL!ReadFile(f)
    BY <1>3, <1>4, <1>7, <1>8, <2>1 DEF AL!ReadFile, Cmd
  <2> QED BY <2>1, <2>2 DEF AL!Next
<1> QED BY <1>1, <1>9, <1>11, <1>12, <1>13, <1>14, <1>15, <1>16, <1>17 DEF ReadInv

LEMMA NormalizingFacts ==
  ASSUME ReadInv, NEW kind, Normalizing(kind)
  PROVE  /\ rd.ar = None /\ at.mode = "normalize" /\ at.input = 1 /\ ~Node.group
         /\ Place(at.node, at.input) /\ Node.inputs[1] = Input(at.node, at.input)
         /\ Kind[Node.inputs[1]] = kind
<1>1. /\ rd.ar = None /\ at.mode = "normalize" /\ at.input = 1 /\ ~Node.group
      /\ at.node =< Len(Cmd) /\ Kind[Node.inputs[1]] = kind
  BY DEF Normalizing, NotReading, Node, Cmd
<1>2. 1 \in 1..Len(Node.inputs)
  BY <1>1, NodeInputs
<1>3. Place(at.node, 1) /\ Node.inputs[1] = Input(at.node, 1)
  BY <1>1, <1>2, NodeInputs
<1> QED BY <1>1, <1>3

LEMMA NormalizeFileKeeps ==
  ASSUME ReadInv, NormalizeObject \/ NormalizeShared
  PROVE  ReadInv' /\ AL!Next
<1> DEFINE f == Node.inputs[1]
<1>1. TypeOK
  BY DEF ReadInv
<1>2. /\ rd.ar = None /\ at.mode = "normalize" /\ at.input = 1 /\ ~Node.group
      /\ Place(at.node, at.input) /\ f = Input(at.node, at.input)
      /\ Kind[f] \in {"object", "shared"}
      /\ NormalizeObject <=> Kind[f] = "object"
  <2>1. NormalizeObject => Normalizing("object")
    BY DEF NormalizeObject
  <2>2. NormalizeShared => Normalizing("shared")
    BY DEF NormalizeShared
  <2>3. PICK kind \in {"object", "shared"} :
          Normalizing(kind) /\ (NormalizeObject => kind = "object")
                            /\ (NormalizeShared => kind = "shared")
    <3>1. Normalizing("object") /\ Normalizing("shared") => FALSE
      BY DEF Normalizing
    <3> QED BY <2>1, <2>2, <3>1
  <2>4. /\ rd.ar = None /\ at.mode = "normalize" /\ at.input = 1 /\ ~Node.group
        /\ Place(at.node, at.input) /\ f = Input(at.node, at.input) /\ Kind[f] = kind
    BY <2>3, NormalizingFacts
  <2> QED BY <2>3, <2>4
<1>3. /\ pool' = AL!Entered(pool, f, Kind[f] = "shared")
      /\ IF Kind[f] = "object" THEN objs' = Append(objs, f) /\ libs' = libs
         ELSE libs' = Append(libs, f) /\ objs' = objs
      /\ at' = [at EXCEPT !.input = @ + 1] /\ UNCHANGED <<link, ars, rd, cnt>>
  <2>1. CASE Kind[f] = "object"
    <3>1. /\ pool' = AL!Entered(pool, f, FALSE) /\ objs' = Append(objs, f) /\ libs' = libs
          /\ at' = [at EXCEPT !.input = @ + 1] /\ UNCHANGED <<link, ars, rd, cnt>>
      BY <1>2, <2>1 DEF NormalizeObject, NextInput
    <3>2. (Kind[f] = "shared") = FALSE
      BY <2>1
    <3> QED BY <2>1, <3>1, <3>2
  <2>2. CASE Kind[f] = "shared"
    <3>1. /\ pool' = AL!Entered(pool, f, TRUE) /\ libs' = Append(libs, f) /\ objs' = objs
          /\ at' = [at EXCEPT !.input = @ + 1] /\ UNCHANGED <<link, ars, rd, cnt>>
      BY <1>2, <2>2 DEF NormalizeShared, NextInput
    <3>2. (Kind[f] = "shared") = TRUE
      BY <2>2
    <3> QED BY <2>2, <3>1, <3>2
  <2> QED BY <1>2, <2>1, <2>2
<1> HIDE DEF f
<1>4. cnt' \in [cur : Nat, last : Nat, nonAr : Nat]
  BY <1>1, <1>3 DEF TypeOK
<1>5. at'.mode = "normalize"
  <2>1. at \in [mode : {"normalize", "group", "rescan"}, node : 1..(Len(link.cmd) + 1),
                input : Nat \ {0}]
    BY <1>1 DEF TypeOK
  <2> QED BY <1>2, <1>3, <2>1
<1>6. FirstPassInv' /\ CountInv'
  BY <1>5 DEF FirstPassInv, CountInv
<1> QED BY <1>2, <1>3, <1>4, <1>6, ReadInput

LEMMA InGroupFacts ==
  ASSUME ReadInv, NEW kind, InGroup(kind)
  PROVE  /\ rd.ar = None /\ at.mode = "group" /\ Node.group /\ at.node \in 1..Len(Cmd)
         /\ at.input \in 1..Len(Node.inputs) /\ Len(Node.inputs) \in Nat
         /\ Place(at.node, at.input) /\ Node.inputs[at.input] = Input(at.node, at.input)
         /\ Kind[Node.inputs[at.input]] = kind
<1>1. /\ rd.ar = None /\ at.mode = "group" /\ at.input =< Len(Node.inputs)
      /\ Kind[Node.inputs[at.input]] = kind /\ at.node =< Len(Cmd) /\ Node.group
  BY DEF InGroup, NotReading, ReadInv, PlaceInv
<1>2. at.node \in 1..Len(Cmd) /\ at.input \in Nat \ {0} /\ Len(Node.inputs) \in Nat
  BY <1>1, NodeInputs
<1>3. PICK x : x = at.input
  OBVIOUS
<1>4. x \in 1..Len(Node.inputs)
  BY <1>1, <1>2, <1>3
<1>5. Place(at.node, x) /\ Node.inputs[x] = Input(at.node, x)
  BY <1>1, <1>4, NodeInputs
<1> QED BY <1>1, <1>2, <1>3, <1>4, <1>5

\* The count goes on after an object or a shared object of the group.
LEMMA GroupFileCounts ==
  ASSUME ReadInv, at.mode = "group", at.input \in 1..Len(Node.inputs),
         Kind[Node.inputs[at.input]] # "archive", UNCHANGED <<link, ars>>,
         at' = [at EXCEPT !.input = @ + 1], cnt'.cur - cnt'.nonAr = cnt.cur - cnt.nonAr,
         cnt' \in [cur : Nat, last : Nat, nonAr : Nat]
  PROVE  /\ CountInv' /\ Node' = Node
         /\ at'.mode = "group" /\ at'.input = at.input + 1 /\ at'.input - 1 = at.input
<1>1. TypeOK /\ CountInv /\ at.node =< Len(Cmd) /\ at.input \in Nat
  BY DEF ReadInv, TypeOK, PlaceInv
<1>2. at'.mode = at.mode /\ at'.node = at.node /\ at'.input = at.input + 1
  <2>1. at \in [mode : {"normalize", "group", "rescan"}, node : 1..(Len(link.cmd) + 1),
                input : Nat \ {0}]
    BY <1>1 DEF TypeOK
  <2> QED BY <2>1
<1>3. Node' = Node /\ CountedArchives' = CountedArchives /\ MembersRead' = MembersRead
  BY <1>2 DEF Node, CountedArchives, MembersRead
<1>4. Node.inputs[at.input] \notin CountedArchives
  BY DEF CountedArchives, Archives
<1>5. PICK x \in Nat : x = at.input
  BY <1>1
<1>6. Cardinality(Counted(x)) = Cardinality(Counted(x - 1))
  BY <1>4, <1>5, CountsOn
<1>7. at'.input - 1 = x
  BY <1>2, <1>5
<1>8. Counted(at.input - 1)' = Counted(x)
  BY <1>3, <1>7 DEF Counted
<1>9. cnt.cur = cnt.nonAr + Cardinality(Counted(x - 1))
  BY <1>1, <1>5 DEF CountInv
<1>10. Cardinality(Counted(x - 1)) \in Nat
  <2>1. x - 1 \in Nat
    BY <1>5
  <2> QED BY <2>1, PairsFinite DEF Counted
<1>11. cnt'.cur = cnt'.nonAr + Cardinality(Counted(x))
  <2>1. /\ cnt.cur \in Nat /\ cnt.nonAr \in Nat /\ cnt'.cur \in Nat /\ cnt'.nonAr \in Nat
    BY <1>1 DEF TypeOK
  <2>2. \A c, n, c2, n2, k \in Nat : c = n + k /\ c2 - n2 = c - n => c2 = n2 + k
    OBVIOUS
  <2>3. cnt.cur = cnt.nonAr + Cardinality(Counted(x)) /\ Cardinality(Counted(x)) \in Nat
    BY <1>6, <1>9, <1>10
  <2> QED BY <2>1, <2>2, <2>3
<1>12. CountInv'
  BY <1>8, <1>11 DEF CountInv
<1> QED BY <1>2, <1>3, <1>5, <1>7, <1>12

LEMMA GroupObjectKeeps ==
  ASSUME ReadInv, GroupObject
  PROVE  ReadInv' /\ AL!Next
<1> DEFINE f == Node.inputs[at.input]
<1>1. /\ TypeOK /\ FirstPassInv
  BY DEF ReadInv
<1>2. /\ rd.ar = None /\ at.mode = "group" /\ at.input \in 1..Len(Node.inputs)
      /\ Place(at.node, at.input) /\ f = Input(at.node, at.input) /\ Kind[f] = "object"
  BY InGroupFacts DEF GroupObject
<1>3. /\ pool' = AL!Entered(pool, f, Kind[f] = "shared") /\ objs' = Append(objs, f)
      /\ cnt' = [cnt EXCEPT !.cur = @ + 1, !.nonAr = @ + 1]
      /\ at' = [at EXCEPT !.input = @ + 1] /\ UNCHANGED <<link, libs, ars, rd>>
  <2>1. (Kind[f] = "shared") = FALSE
    BY <1>2
  <2> QED BY <2>1 DEF GroupObject, NextInput
<1>4. /\ cnt'.cur = cnt.cur + 1 /\ cnt'.nonAr = cnt.nonAr + 1 /\ cnt'.last = cnt.last
      /\ cnt.cur \in Nat /\ cnt.nonAr \in Nat
      /\ cnt' \in [cur : Nat, last : Nat, nonAr : Nat]
  <2>1. /\ cnt \in [cur : Nat, last : Nat, nonAr : Nat]
        /\ cnt.cur + 1 \in Nat /\ cnt.nonAr + 1 \in Nat
    BY <1>1 DEF TypeOK
  <2>2. cnt' = [cnt EXCEPT !.cur = cnt.cur + 1, !.nonAr = cnt.nonAr + 1]
    BY <1>3
  <2> QED BY <2>1, <2>2
<1>5. cnt'.cur - cnt'.nonAr = cnt.cur - cnt.nonAr
  BY <1>4
<1>6. CountInv' /\ Node' = Node /\ at'.mode = "group"
  BY <1>2, <1>3, <1>4, <1>5, GroupFileCounts
<1>7. FirstPassInv'
  <2>1. ~NothingRead'
    BY <1>2, <1>6 DEF NothingRead
  <2>2. cnt'.last = 0 /\ cnt'.nonAr # 0
    BY <1>1, <1>2, <1>4 DEF FirstPassInv
  <2> QED BY <2>1, <2>2 DEF FirstPassInv
<1> HIDE DEF f
<1> QED BY <1>2, <1>3, <1>4, <1>6, <1>7, ReadInput

\* Behind the shared object there is no archive whose members it could need,
\* unless there is an object too.
LEMMA GroupSharedKeeps ==
  ASSUME ReadInv, GroupShared, GroupsCounted
  PROVE  ReadInv' /\ AL!Next
<1> DEFINE f == Node.inputs[at.input]
<1>1. /\ TypeOK /\ FirstPassInv /\ link \in Links
  BY DEF ReadInv
<1>2. /\ rd.ar = None /\ at.mode = "group" /\ at.input \in 1..Len(Node.inputs)
      /\ Len(Node.inputs) \in Nat /\ Node.group /\ at.node \in 1..Len(Cmd)
      /\ Place(at.node, at.input) /\ f = Input(at.node, at.input) /\ Kind[f] = "shared"
  BY InGroupFacts DEF GroupShared
<1>3. /\ pool' = AL!Entered(pool, f, Kind[f] = "shared") /\ libs' = Append(libs, f)
      /\ at' = [at EXCEPT !.input = @ + 1] /\ UNCHANGED <<link, objs, ars, rd, cnt>>
  <2>1. (Kind[f] = "shared") = TRUE
    BY <1>2
  <2> QED BY <2>1 DEF GroupShared, NextInput
<1>4. cnt' \in [cur : Nat, last : Nat, nonAr : Nat] /\ cnt'.cur - cnt'.nonAr = cnt.cur - cnt.nonAr
  BY <1>1, <1>3 DEF TypeOK
<1>5. /\ CountInv' /\ Node' = Node /\ at'.mode = "group" /\ at'.input - 1 = at.input
  BY <1>2, <1>3, <1>4, GroupFileCounts
<1>6. FirstPassInv'
  <2>1. cnt.last = 0
    BY <1>1, <1>2 DEF FirstPassInv
  <2>2. ASSUME cnt.nonAr = 0, NEW j \in 1..at.input
        PROVE  Kind[Node.inputs[j]] # "object"
    <3>1. CASE j = at.input
      BY <1>2, <3>1
    <3>2. CASE j # at.input
      <4>1. j \in 1..(at.input - 1)
        BY <1>2, <3>2
      <4> QED BY <1>1, <1>2, <2>2, <4>1 DEF FirstPassInv
    <3> QED BY <3>1, <3>2
  <2>3. ASSUME NothingRead, NEW j \in 1..at.input, IsScanned(j)
        PROVE  FALSE
    <3>1. \A k \in 1..Len(Node.inputs) : Kind[Node.inputs[k]] # "object"
      BY <2>3 DEF NothingRead
    <3>2. j \in 1..Len(Node.inputs) /\ Node.inputs[j] \in Archives \ link.whole
      BY <1>2, <2>3 DEF IsScanned
    <3>3. \/ \E k \in 1..Len(Node.inputs) : Kind[Node.inputs[k]] = "object"
          \/ \A i \in {i \in 1..Len(Node.inputs) : Node.inputs[i] \in Archives \ link.whole} :
               \A k \in 1..Len(Node.inputs) : Kind[Node.inputs[k]] = "shared" => k < i
      BY <1>1, <1>2 DEF GroupsCounted, Node, Cmd
    <3>4. at.input < j
      BY <1>2, <3>1, <3>2, <3>3
    <3> QED BY <1>2, <3>4
  <2>4. (NothingRead' <=> NothingRead) /\ \A j : IsScanned(j)' <=> IsScanned(j)
    BY <1>3, <1>5 DEF NothingRead, IsScanned
  <2>5. NothingRead' => Quiet'
    BY <1>5, <2>3, <2>4 DEF Quiet
  <2> QED BY <1>3, <1>5, <2>1, <2>2, <2>5 DEF FirstPassInv
<1> HIDE DEF f
<1> QED BY <1>2, <1>3, <1>4, <1>5, <1>6, ReadInput

-----------------------------------------------------------------------------
(* Steps of the loops over the inputs.                                     *)

LEMMA NormalizeArchiveKeeps ==
  ASSUME ReadInv, NormalizeArchive
  PROVE  ReadInv' /\ UNCHANGED AL!vars
<1>1. /\ rd.ar = None /\ at.mode = "normalize" /\ at.input = 1 /\ ~Node.group
      /\ Place(at.node, at.input) /\ Node.inputs[1] = Input(at.node, at.input)
      /\ Kind[Node.inputs[1]] = "archive"
  BY NormalizingFacts DEF NormalizeArchive
<1>2. PICK a : a = Node.inputs[1]
  OBVIOUS
<1>3. a \in Archives
  BY <1>1, <1>2, Places DEF ReadInv
<1>4. /\ StartReading(a) /\ ars' = SetStatuses(a)
      /\ UNCHANGED <<link, pool, objs, libs, at, cnt>>
  BY <1>2 DEF NormalizeArchive
<1> QED BY <1>1, <1>2, <1>3, <1>4, BeginScan

LEMMA GroupArchiveKeeps ==
  ASSUME ReadInv, GroupArchive
  PROVE  ReadInv' /\ UNCHANGED AL!vars
<1>1. /\ rd.ar = None /\ at.mode = "group"
      /\ Place(at.node, at.input) /\ Node.inputs[at.input] = Input(at.node, at.input)
      /\ Kind[Node.inputs[at.input]] = "archive"
  BY InGroupFacts DEF GroupArchive
<1>2. PICK a : a = Node.inputs[at.input]
  OBVIOUS
<1>3. a \in Archives
  BY <1>1, <1>2, Places DEF ReadInv
<1>4. /\ StartReading(a) /\ ars' = SetStatuses(a)
      /\ UNCHANGED <<link, pool, objs, libs, at, cnt>>
  BY <1>2 DEF GroupArchive
<1> QED BY <1>1, <1>2, <1>3, <1>4, BeginScan

\* The scan of an archive has ended: nothing of it is needed any more.
LEMMA ArchiveDone ==
  ASSUME ReadInv, rd.ar # None, ArchiveIsRead
  PROVE  /\ rd.ar \in link.whole => AL!MembersOf(rd.ar) \subseteq Included
         /\ AL!Needed(rd.ar) = {}
<1>1. /\ link \in Links /\ TypeOK /\ FilesInv /\ ArchivesInv /\ ScanInv
      /\ rd.ar \in Archives /\ rd.idx \in Nat \ {0}
  BY Reading DEF ReadInv, TypeOK
<1>2. Included \subseteq Files
  BY <1>1 DEF FilesInv, Included
<1>3. CASE rd.ar \in link.whole
  <2>1. /\ rd.idx > Len(Members[rd.ar]) /\ rd.idx =< Len(Members[rd.ar]) + 1
        /\ Included = {Members[rd.ar][k] : k \in 1..(rd.idx - 1)}
    BY <1>1, <1>3 DEF ArchiveIsRead, Scanning, ArchivesInv
  <2>2. Len(Members[rd.ar]) \in Nat
    BY <1>1, InputAssumption
  <2>3. rd.idx - 1 = Len(Members[rd.ar])
    BY <1>1, <2>1, <2>2
  <2>4. AL!MembersOf(rd.ar) = Included
    BY <2>1, <2>3 DEF AL!MembersOf
  <2> QED BY <1>2, <2>4 DEF AL!Needed
<1>4. CASE rd.ar \notin link.whole
  <2>1. Scanning /\ rd.idx > Len(Armap(rd.ar)) /\ ~rd.again
    BY <1>4 DEF ArchiveIsRead
  <2>2. Armap(rd.ar) \in Seq([file : AL!MembersOf(rd.ar), name : Names])
    BY Reading
  <2>3. \A k \in 1..Len(Armap(rd.ar)) :
          AL!Wanted(Armap(rd.ar)[k].name) => Armap(rd.ar)[k].file \in Included
    <3>1. \A k \in 1..Len(Armap(rd.ar)) : k < rd.idx
      BY <1>1, <2>1, <2>2
    <3> QED BY <1>1, <2>1, <3>1 DEF ScanInv
  <2>4. SUFFICES ASSUME NEW f \in AL!Needed(rd.ar) PROVE FALSE
    BY <1>4
  <2>5. PICK n \in Names : AL!Wanted(n) /\ AL!Defines(f, n)
    BY DEF AL!Needed
  <2>6. f \in AL!MembersOf(rd.ar) /\ f \notin Files
    BY DEF AL!Needed
  <2>7. \E k \in 1..Len(link.map[rd.ar]) : link.map[rd.ar][k] = [file |-> f, name |-> n]
    <3>1. MapsDefinitions(link)
      BY <1>1, InputAssumption
    <3>2. link.syms[f][n] \in {"def", "weakdef"}
      BY <2>5 DEF AL!Defines
    <3> QED BY <1>1, <2>6, <3>1, <3>2 DEF MapsDefinitions
  <2>8. PICK k \in 1..Len(Armap(rd.ar)) : Armap(rd.ar)[k] = [file |-> f, name |-> n]
    BY <2>7 DEF Armap
  <2>9. Armap(rd.ar)[k].file = f /\ Armap(rd.ar)[k].name = n
    BY <2>8
  <2> QED BY <1>2, <2>3, <2>5, <2>6, <2>9
<1> QED BY <1>3, <1>4

\* A loop goes on: the archive that has been read, if any, is done with.
LEMMA Moves ==
  ASSUME ReadInv, UNCHANGED <<link, pool, objs, libs, ars>>, rd'.ar = None,
         \A i, j \in Nat : Place(i, j) =>
           (Done(i, j)' <=> Done(i, j) \/ (rd.ar # None /\ Input(i, j) = rd.ar)),
         rd.ar \in link.whole => AL!MembersOf(rd.ar) \subseteq Included,
         at' \in [mode : {"normalize", "group", "rescan"}, node : 1..(Len(link.cmd) + 1),
                  input : Nat \ {0}],
         rd' \in [ar : Archives \cup {None}, idx : Nat \ {0}, again : BOOLEAN],
         cnt' \in [cur : Nat, last : Nat, nonAr : Nat],
         PlaceInv', FirstPassInv', RescanInv', CountInv'
  PROVE  ReadInv' /\ Files' = Files
<1>1. /\ link \in Links /\ TypeOK /\ PoolInv /\ FilesInv /\ ArchivesInv
      /\ DefinedInv /\ DecisionInv /\ OnceInv /\ None \notin Archives
      /\ rd.ar \in Archives \cup {None}
  BY InputAssumption DEF ReadInv, TypeOK
<1>2. /\ Files' = Files /\ Cmd' = Cmd
      /\ \A a : Armap(a)' = Armap(a) /\ AL!MembersOf(a)' = AL!MembersOf(a)
  BY DEF Files, Cmd, Armap, AL!MembersOf
<1>3. \A i, j : (Place(i, j)' <=> Place(i, j)) /\ Input(i, j)' = Input(i, j)
  BY <1>2 DEF Place, Input
<1>4. PoolInv' /\ DefinedInv' /\ OnceInv' /\ DecisionInv'
  <2>1. PoolInv'
    BY <1>1 DEF PoolInv
  <2>2. DefinedInv'
    BY <1>1, <1>2 DEF DefinedInv, Defined, AL!Defines
  <2>3. OnceInv'
    BY <1>1 DEF OnceInv, NoFileTwice
  <2>4. DecisionInv'
    BY SMTT(60), <1>1, <1>2 DEF DecisionInv, Defined, Armap
  <2> QED BY <2>1, <2>2, <2>3, <2>4
<1>5. TypeOK'
  BY <1>1, <1>2 DEF TypeOK
<1>6. FilesInv'
  <2>1. ASSUME NEW i \in Nat, NEW j \in Nat, Place(i, j), Kind[Input(i, j)] # "archive"
        PROVE  Input(i, j) \in Files <=> Done(i, j)'
    <3>1. Input(i, j) \in Files <=> Done(i, j)
      BY <1>1, <2>1 DEF FilesInv
    <3>2. rd.ar # None => Input(i, j) # rd.ar
      BY <1>1, <2>1 DEF Archives
    <3> QED BY <2>1, <3>1, <3>2
  <2> QED BY <1>1, <1>2, <1>3, <2>1 DEF FilesInv
<1>7. ArchivesInv'
  <2>1. ASSUME NEW i \in Nat, NEW j \in Nat, Place(i, j)', Input(i, j)' \in Archives
        PROVE  /\ ~Done(i, j)' /\ rd'.ar # Input(i, j)' => ars'[Input(i, j)'].members = {}
               /\ Done(i, j)' \/ rd'.ar = Input(i, j)'
                    => Len(ars'[Input(i, j)'].status) = Len(Armap(Input(i, j))')
               /\ Done(i, j)' /\ Input(i, j)' \in link.whole
                    => AL!MembersOf(Input(i, j))' \subseteq ars'[Input(i, j)'].members
    <3> DEFINE c == Input(i, j)
    <3>1. c \in Archives /\ Place(i, j) /\ c' = c
      BY <1>3, <2>1
    <3>2. Armap(c)' = Armap(c) /\ AL!MembersOf(c)' = AL!MembersOf(c)
      BY <3>1 DEF Armap, AL!MembersOf
    <3>3. /\ ~Done(i, j) /\ rd.ar # c => ars[c].members = {}
          /\ Done(i, j) \/ rd.ar = c => Len(ars[c].status) = Len(Armap(c))
          /\ Done(i, j) /\ c \in link.whole => AL!MembersOf(c) \subseteq ars[c].members
      BY <1>1, <3>1 DEF ArchivesInv
    <3>4. Done(i, j)' <=> Done(i, j) \/ rd.ar = c
      BY <1>1, <3>1
    <3>5. rd.ar = c /\ c \in link.whole => AL!MembersOf(c) \subseteq ars[c].members
      BY DEF Included
    <3> HIDE DEF c
    <3> QED BY <1>1, <3>1, <3>2, <3>3, <3>4, <3>5 DEF c
  <2>2. rd'.ar \notin link.whole
    BY <1>1, Places
  <2> QED BY <2>1, <2>2 DEF ArchivesInv
<1>8. ScanInv'
  BY <1>1 DEF ScanInv, Scanning
<1> QED BY <1>1, <1>2, <1>4, <1>5, <1>6, <1>7, <1>8 DEF ReadInv

\* What the abstract specification asks of the end of a node.
LEMMA Leaves ==
  ASSUME ReadInv, at.node =< Len(Cmd), at'.node = at.node + 1, UNCHANGED <<link, pool>>,
         Files' = Files,
         \A j \in 1..Len(Node.inputs) :
           /\ Kind[Node.inputs[j]] # "archive" => Node.inputs[j] \in Files
           /\ Node.inputs[j] \in link.whole => AL!MembersOf(Node.inputs[j]) \subseteq Files
           /\ Kind[Node.inputs[j]] = "archive" => AL!Needed(Node.inputs[j]) = {}
  PROVE  AL!Next
<1>1. AL!InputsOf(at.node) = {Node.inputs[j] : j \in 1..Len(Node.inputs)}
  BY DEF AL!InputsOf, Node
<1>2. \A f \in AL!InputsOf(at.node) :
        /\ Kind[f] # "archive" => f \in Files
        /\ f \in link.whole => AL!MembersOf(f) \subseteq Files
        /\ Kind[f] = "archive" => AL!Needed(f) = {}
  BY <1>1
<1>3. {f \in AL!InputsOf(at.node) : Kind[f] \in {"object", "shared"}} \subseteq Files
  BY <1>2
<1>4. \A a \in AL!ArchivesOf(at.node) \cap link.whole : AL!MembersOf(a) \subseteq Files
  BY <1>2 DEF AL!ArchivesOf
<1>5. AL!Closed(at.node)
  BY <1>2 DEF AL!Closed, AL!ArchivesOf
<1>6. AL!Leave
  BY <1>3, <1>4, <1>5 DEF AL!Leave, Cmd
<1> QED BY <1>6 DEF AL!Next

LEMMA NextNodeFacts ==
  ASSUME ReadInv, at.node =< Len(Cmd), NextNode, link' = link
  PROVE  /\ at'.node = at.node + 1 /\ at.node \in 1..Len(Cmd)
         /\ at' \in [mode : {"normalize", "group", "rescan"}, node : 1..(Len(link.cmd) + 1),
                     input : Nat \ {0}]
         /\ \A i, j \in Nat : Place(i, j) => (Done(i, j)' <=> i < at.node \/ i = at.node)
         /\ rd'.ar = None => PlaceInv'
         /\ FirstPassInv' /\ RescanInv' /\ CountInv'
<1>1. at' = [mode |-> "normalize", node |-> at.node + 1, input |-> 1]
  BY DEF NextNode
<1>2. at.node \in 1..Len(Cmd) /\ Len(Cmd) \in Nat
  BY NodeInputs, Places DEF ReadInv
<1>3. at.node + 1 \in 1..(Len(link.cmd) + 1)
  BY <1>2 DEF Cmd
<1>4. /\ at'.mode = "normalize" /\ at'.node = at.node + 1 /\ at'.input = 1
      /\ at' \in [mode : {"normalize", "group", "rescan"}, node : 1..(Len(link.cmd) + 1),
                  input : Nat \ {0}]
  BY <1>1, <1>3
<1>5. ASSUME NEW i \in Nat, NEW j \in Nat, Place(i, j)
      PROVE  Done(i, j)' <=> i < at.node \/ i = at.node
  <2>1. i < at.node + 1 <=> i < at.node \/ i = at.node
    BY <1>2
  <2>2. Done(i, j)' <=> i < at.node + 1 \/ (i = at.node + 1 /\ j < 1)
    BY <1>4 DEF Done
  <2>3. ~(j < 1)
    BY <1>5 DEF Place
  <2> QED BY <2>1, <2>2, <2>3
<1>6. rd'.ar = None => PlaceInv'
  BY <1>4 DEF PlaceInv
<1>7. FirstPassInv' /\ RescanInv' /\ CountInv'
  BY <1>4 DEF FirstPassInv, RescanInv, CountInv
<1> QED BY <1>2, <1>4, <1>5, <1>6, <1>7

LEMMA LeaveNodeKeeps ==
  ASSUME ReadInv, LeaveNode
  PROVE  ReadInv' /\ AL!Next
<1>1. /\ rd.ar = None /\ at.mode = "normalize" /\ at.input > 1 /\ NextNode
      /\ UNCHANGED <<link, pool, objs, libs, ars, rd, cnt>>
  BY DEF LeaveNode, NotReading
<1>2. TypeOK /\ PlaceInv /\ FilesInv /\ link \in Links /\ None \notin Archives
  BY InputAssumption DEF ReadInv
<1>3. at.input = 2 /\ at.node =< Len(Cmd) /\ ~Node.group /\ Kind[Node.inputs[1]] # "archive"
  BY <1>1, <1>2 DEF PlaceInv
<1>4. /\ at'.node = at.node + 1 /\ at.node \in 1..Len(Cmd)
      /\ at' \in [mode : {"normalize", "group", "rescan"}, node : 1..(Len(link.cmd) + 1),
                  input : Nat \ {0}]
      /\ \A i, j \in Nat : Place(i, j) => (Done(i, j)' <=> i < at.node \/ i = at.node)
      /\ PlaceInv' /\ FirstPassInv' /\ RescanInv' /\ CountInv'
  BY <1>1, <1>3, NextNodeFacts
<1>5. Len(Node.inputs) = 1 /\ Place(at.node, 1) /\ Node.inputs[1] = Input(at.node, 1)
  BY <1>3, NodeInputs
<1>6. ASSUME NEW i \in Nat, NEW j \in Nat, Place(i, j), i = at.node
      PROVE  j = 1
  <2>1. j \in 1..Len(Node.inputs)
    BY <1>6 DEF Place, Node, Cmd
  <2> QED BY <1>5, <2>1
<1>7. \A i, j \in Nat : Place(i, j) =>
        (Done(i, j) <=> i < at.node \/ i = at.node)
  BY <1>1, <1>3, <1>6 DEF Done
<1>8. \A i, j \in Nat : Place(i, j) =>
        (Done(i, j)' <=> Done(i, j) \/ (rd.ar # None /\ Input(i, j) = rd.ar))
  BY <1>1, <1>4, <1>7
<1>9. ReadInv' /\ Files' = Files
  <2>1. rd.ar \notin link.whole
    BY <1>1, <1>2, Places
  <2>2. /\ rd' \in [ar : Archives \cup {None}, idx : Nat \ {0}, again : BOOLEAN]
        /\ cnt' \in [cur : Nat, last : Nat, nonAr : Nat] /\ rd'.ar = None
    BY <1>1, <1>2 DEF TypeOK
  <2> QED BY <1>1, <1>4, <1>8, <2>1, <2>2, Moves
<1>10. Node.inputs[1] \in Files
  <2>1. at.node \in Nat /\ Done(at.node, 1)
    BY <1>4, <1>5, <1>7
  <2> QED BY <1>2, <1>3, <1>5, <2>1 DEF FilesInv
<1>11. Node.inputs[1] \notin link.whole
  BY <1>2, <1>3, Places DEF Archives
<1>12. AL!Next
  <2>1. \A j \in 1..Len(Node.inputs) : j = 1
    BY <1>5
  <2>2. \A j \in 1..Len(Node.inputs) :
           /\ Kind[Node.inputs[j]] # "archive" => Node.inputs[j] \in Files
           /\ Node.inputs[j] \in link.whole => AL!MembersOf(Node.inputs[j]) \subseteq Files
           /\ Kind[Node.inputs[j]] = "archive" => AL!Needed(Node.inputs[j]) = {}
    BY <1>3, <1>10, <1>11, <2>1
  <2> QED BY <1>1, <1>3, <1>4, <1>9, <2>2, Leaves
<1> QED BY <1>9, <1>12

LEMMA ArchiveNormalizedKeeps ==
  ASSUME ReadInv, ArchiveNormalized
  PROVE  ReadInv' /\ AL!Next
<1>1. /\ rd.ar # None /\ ArchiveIsRead /\ at.mode = "normalize" /\ NextNode
      /\ rd' = [rd EXCEPT !.ar = None] /\ UNCHANGED <<link, pool, objs, libs, ars, cnt>>
  BY DEF ArchiveNormalized
<1>2. TypeOK /\ PlaceInv /\ FilesInv /\ link \in Links /\ None \notin Archives
  BY InputAssumption DEF ReadInv
<1>3. /\ at.input = 1 /\ ~Node.group /\ rd.ar \in Archives
      /\ Place(at.node, 1) /\ rd.ar = Input(at.node, 1) /\ at.node =< Len(Cmd)
  BY <1>1, <1>2, Reading DEF PlaceInv, Place
<1>4. /\ at'.node = at.node + 1 /\ at.node \in 1..Len(Cmd)
      /\ at' \in [mode : {"normalize", "group", "rescan"}, node : 1..(Len(link.cmd) + 1),
                  input : Nat \ {0}]
      /\ \A i, j \in Nat : Place(i, j) => (Done(i, j)' <=> i < at.node \/ i = at.node)
      /\ rd'.ar = None => PlaceInv'
      /\ FirstPassInv' /\ RescanInv' /\ CountInv'
  BY <1>1, <1>3, NextNodeFacts
<1>5. Len(Node.inputs) = 1 /\ Node.inputs[1] = rd.ar
  BY <1>3, NodeInputs
<1>6. /\ rd' \in [ar : Archives \cup {None}, idx : Nat \ {0}, again : BOOLEAN]
      /\ rd'.ar = None
  BY <1>1, <1>2 DEF TypeOK
<1>7. ASSUME NEW i \in Nat, NEW j \in Nat, Place(i, j)
      PROVE  Done(i, j)' <=> Done(i, j) \/ (rd.ar # None /\ Input(i, j) = rd.ar)
  <2>1. ASSUME i = at.node PROVE j = 1
    <3>1. j \in 1..Len(Node.inputs)
      BY <1>7, <2>1 DEF Place, Node, Cmd
    <3> QED BY <1>5, <3>1
  <2>2. Input(i, j) = rd.ar <=> i = at.node
    <3>1. Input(i, j) = Input(at.node, 1) => i = at.node
      BY <1>2, <1>3, <1>7, Places
    <3> QED BY <1>3, <2>1, <3>1
  <2>3. Done(i, j) <=> i < at.node
    <3>1. i = at.node => ~(j < at.input)
      BY <1>3, <2>1
    <3> QED BY <1>1, <3>1 DEF Done
  <2> QED BY <1>1, <1>4, <1>7, <2>2, <2>3
<1>8. /\ rd.ar \in link.whole => AL!MembersOf(rd.ar) \subseteq Included
      /\ AL!Needed(rd.ar) = {}
  BY <1>1, ArchiveDone
<1>9. ReadInv' /\ Files' = Files
  <2>1. cnt' \in [cur : Nat, last : Nat, nonAr : Nat]
    BY <1>1, <1>2 DEF TypeOK
  <2> QED BY <1>1, <1>4, <1>6, <1>7, <1>8, <2>1, Moves
<1>10. AL!Next
  <2>1. \A j \in 1..Len(Node.inputs) : j = 1
    BY <1>5
  <2>2. Kind[rd.ar] = "archive" /\ Included \subseteq Files
    BY <1>2, <1>3 DEF Archives, FilesInv, Included
  <2>3. \A j \in 1..Len(Node.inputs) :
           /\ Kind[Node.inputs[j]] # "archive" => Node.inputs[j] \in Files
           /\ Node.inputs[j] \in link.whole => AL!MembersOf(Node.inputs[j]) \subseteq Files
           /\ Kind[Node.inputs[j]] = "archive" => AL!Needed(Node.inputs[j]) = {}
    BY <1>5, <1>8, <2>1, <2>2
  <2> QED BY <1>1, <1>3, <1>4, <1>9, <2>3, Leaves
<1> QED BY <1>9, <1>10

LEMMA EnterGroupKeeps ==
  ASSUME ReadInv, EnterGroup
  PROVE  ReadInv' /\ UNCHANGED AL!vars
<1>1. /\ rd.ar = None /\ at.mode = "normalize" /\ at.node =< Len(Cmd) /\ Node.group
      /\ at' = [at EXCEPT !.mode = "group", !.input = 1]
      /\ cnt' = [cur |-> 0, last |-> 0, nonAr |-> 0]
      /\ UNCHANGED <<link, pool, objs, libs, ars, rd>>
  BY DEF EnterGroup, NotReading, Cmd
<1>2. TypeOK /\ PlaceInv /\ link \in Links /\ None \notin Archives
  BY InputAssumption DEF ReadInv
<1>3. at.input = 1 /\ Len(Node.inputs) \in Nat
  BY <1>1, <1>2, NodeInputs DEF PlaceInv
<1>4. /\ at'.mode = "group" /\ at'.node = at.node /\ at'.input = 1
      /\ at' \in [mode : {"normalize", "group", "rescan"}, node : 1..(Len(link.cmd) + 1),
                  input : Nat \ {0}]
  <2>1. at \in [mode : {"normalize", "group", "rescan"}, node : 1..(Len(link.cmd) + 1),
                input : Nat \ {0}]
    BY <1>2 DEF TypeOK
  <2>2. at'.mode = "group" /\ at'.node = at.node /\ at'.input = 1
    BY <1>1, <2>1
  <2>3. "group" \in {"normalize", "group", "rescan"} /\ 1 \in Nat \ {0}
    OBVIOUS
  <2>4. at' \in [mode : {"normalize", "group", "rescan"}, node : 1..(Len(link.cmd) + 1),
                 input : Nat \ {0}]
    BY <1>1, <2>1, <2>3
  <2> QED BY <2>2, <2>4
<1>5. Cmd' = Cmd /\ Node' = Node
  BY <1>1, <1>4 DEF Cmd, Node
<1>6. \A i, j \in Nat : Place(i, j) =>
        (Done(i, j)' <=> Done(i, j) \/ (rd.ar # None /\ Input(i, j) = rd.ar))
  BY <1>1, <1>3, <1>4 DEF Done
<1>7. PlaceInv'
  BY <1>1, <1>3, <1>4, <1>5 DEF PlaceInv
<1>8. cnt'.cur = 0 /\ cnt'.last = 0 /\ cnt'.nonAr = 0 /\ cnt' \in [cur : Nat, last : Nat, nonAr : Nat]
  BY <1>1
<1>9. FirstPassInv' /\ RescanInv'
  BY <1>4, <1>8 DEF FirstPassInv, RescanInv, Quiet
<1>10. CountInv'
  <2>1. Cardinality(Counted(0)') = 0
    <3>1. PICK s, A, mem : s = Node'.inputs /\ A = CountedArchives' /\ mem = MembersRead'
      OBVIOUS
    <3>2. Counted(0)' = Pairs(s, A, mem, 0)
      BY <3>1 DEF Counted
    <3> QED BY <3>2, PairsNone
  <2>2. Counted(at.input - 1)' = Counted(0)'
    BY <1>4 DEF Counted
  <2> QED BY <1>8, <2>1, <2>2 DEF CountInv
<1>11. ReadInv' /\ Files' = Files
  <2>1. rd.ar \notin link.whole
    BY <1>1, <1>2, Places
  <2>2. rd' \in [ar : Archives \cup {None}, idx : Nat \ {0}, again : BOOLEAN] /\ rd'.ar = None
    BY <1>1, <1>2 DEF TypeOK
  <2> QED BY <1>1, <1>4, <1>6, <1>7, <1>8, <1>9, <1>10, <2>1, <2>2, Moves
<1> QED BY <1>1, <1>4, <1>11 DEF AL!vars

\* A step to the next input of the group changes no member, so that the needs
\* and the counts of the inputs passed before stay what they were.
LEMMA NextInputFacts ==
  ASSUME ReadInv, at.mode \in {"group", "rescan"}, NextInput,
         UNCHANGED <<link, pool, objs, libs, ars>>, at.input =< Len(Node.inputs)
  PROVE  /\ at'.mode = at.mode /\ at'.node = at.node /\ at'.input = at.input + 1
         /\ at'.input - 1 = at.input /\ at.input \in 1..Len(Node.inputs)
         /\ at' \in [mode : {"normalize", "group", "rescan"}, node : 1..(Len(link.cmd) + 1),
                     input : Nat \ {0}]
         /\ Cmd' = Cmd /\ Node' = Node
         /\ rd'.ar = None => PlaceInv'
         /\ \A m : Counted(m)' = Counted(m)
         /\ \A a : AL!Needed(a)' = AL!Needed(a)
         /\ (NothingRead' <=> NothingRead) /\ (NoWhole' <=> NoWhole)
         /\ (OneScanned' <=> OneScanned) /\ \A j : IsScanned(j)' <=> IsScanned(j)
<1>1. TypeOK /\ PlaceInv /\ link \in Links
  BY DEF ReadInv
<1>2. at.node =< Len(Cmd) /\ Node.group
  BY <1>1 DEF PlaceInv
<1>3. Len(Node.inputs) \in Nat
  BY <1>2, NodeInputs
<1>4. /\ at \in [mode : {"normalize", "group", "rescan"}, node : 1..(Len(link.cmd) + 1),
                 input : Nat \ {0}]
      /\ at.input \in Nat \ {0}
  BY <1>1 DEF TypeOK
<1>5. /\ at'.mode = at.mode /\ at'.node = at.node /\ at'.input = at.input + 1
      /\ at' \in [mode : {"normalize", "group", "rescan"}, node : 1..(Len(link.cmd) + 1),
                  input : Nat \ {0}]
  <2>1. at' = [at EXCEPT !.input = at.input + 1] /\ at.input + 1 \in Nat \ {0}
    BY <1>4 DEF NextInput
  <2> QED BY <1>4, <2>1
<1>6. /\ at'.input - 1 = at.input /\ at.input \in 1..Len(Node.inputs)
      /\ at'.input =< Len(Node.inputs) + 1
  BY <1>3, <1>4, <1>5
<1>7. Cmd' = Cmd /\ Node' = Node
  BY <1>5 DEF Cmd, Node
<1>8. rd'.ar = None => PlaceInv'
  BY <1>2, <1>5, <1>6, <1>7 DEF PlaceInv
<1>9. \A m : Counted(m)' = Counted(m)
  <2>1. CountedArchives' = CountedArchives /\ MembersRead' = MembersRead
    BY <1>5 DEF CountedArchives, MembersRead
  <2> QED BY <1>7, <2>1 DEF Counted
<1>10. \A a : AL!Needed(a)' = AL!Needed(a)
  <2>1. Files' = Files
    BY DEF Files
  <2> QED BY <2>1 DEF AL!Needed, AL!MembersOf, AL!Wanted, AL!IsUndef, AL!IsWeak, AL!Defines
<1>11. /\ (NothingRead' <=> NothingRead) /\ (NoWhole' <=> NoWhole)
       /\ (OneScanned' <=> OneScanned) /\ \A j : IsScanned(j)' <=> IsScanned(j)
  BY <1>7 DEF NothingRead, NoWhole, OneScanned, IsScanned
<1> QED BY <1>5, <1>6, <1>7, <1>8, <1>9, <1>10, <1>11

\* Nothing is needed of the inputs passed, the one that is passed now included.
LEMMA QuietOn ==
  ASSUME ReadInv, at.mode \in {"group", "rescan"}, NextInput,
         UNCHANGED <<link, pool, objs, libs, ars>>, at.input =< Len(Node.inputs),
         IsScanned(at.input) => AL!Needed(Node.inputs[at.input]) = {},
         Kind[Node.inputs[at.input]] # "object",
         cnt'.last = cnt.last, cnt'.nonAr = cnt.nonAr
  PROVE  FirstPassInv' /\ RescanInv'
<1>1. /\ at'.mode = at.mode /\ at'.input - 1 = at.input /\ at.input \in 1..Len(Node.inputs)
      /\ Node' = Node
      /\ \A m : Counted(m)' = Counted(m)
      /\ \A a : AL!Needed(a)' = AL!Needed(a)
      /\ (NothingRead' <=> NothingRead) /\ (NoWhole' <=> NoWhole)
      /\ (OneScanned' <=> OneScanned) /\ \A j : IsScanned(j)' <=> IsScanned(j)
  BY NextInputFacts
<1>2. FirstPassInv /\ RescanInv /\ at.input \in Nat
  BY DEF ReadInv, TypeOK
<1>3. Quiet => Quiet'
  <2>1. ASSUME Quiet, NEW j \in 1..at.input, IsScanned(j)
        PROVE  AL!Needed(Node.inputs[j]) = {}
    <3>1. CASE j = at.input
      BY <2>1, <3>1
    <3>2. CASE j # at.input
      <4>1. j \in 1..(at.input - 1)
        BY <1>2, <3>2
      <4> QED BY <2>1, <4>1 DEF Quiet
    <3> QED BY <3>1, <3>2
  <2>2. ASSUME Quiet, NEW j \in 1..at.input, IsScanned(j)'
        PROVE  AL!Needed(Node.inputs[j])' = {}
    <3>1. AL!Needed(Node.inputs[j]) = {}
      BY <1>1, <2>1, <2>2
    <3>2. PICK a : a = Node.inputs[j]
      OBVIOUS
    <3>3. AL!Needed(a)' = {}
      BY <1>1, <3>1, <3>2
    <3> QED BY <1>1, <3>2, <3>3 DEF AL!Needed, AL!MembersOf
  <2> QED BY <1>1, <2>2 DEF Quiet
<1>4. FirstPassInv'
  <2>1. ASSUME at.mode = "group", cnt.nonAr = 0, NEW j \in 1..at.input
        PROVE  Kind[Node.inputs[j]] # "object"
    <3>1. CASE j # at.input
      <4>1. j \in 1..(at.input - 1)
        BY <1>2, <3>1
      <4> QED BY <1>2, <2>1, <4>1 DEF FirstPassInv
    <3> QED BY <3>1
  <2> QED BY <1>1, <1>2, <1>3, <2>1 DEF FirstPassInv
<1>5. RescanInv'
  BY <1>1, <1>2, <1>3 DEF RescanInv
<1> QED BY <1>4, <1>5

LEMMA GroupArchiveReadKeeps ==
  ASSUME ReadInv, GroupArchiveRead
  PROVE  ReadInv' /\ UNCHANGED AL!vars
<1> DEFINE a == rd.ar
           x == at.input
<1>1. /\ a # None /\ ArchiveIsRead /\ at.mode \in {"group", "rescan"} /\ NextInput
      /\ cnt' = [cnt EXCEPT !.cur = @ + Cardinality(Included)]
      /\ rd' = [rd EXCEPT !.ar = None] /\ UNCHANGED <<link, pool, objs, libs, ars>>
  BY DEF GroupArchiveRead
<1>2. TypeOK /\ PlaceInv /\ CountInv /\ link \in Links /\ None \notin Archives
  BY InputAssumption DEF ReadInv
<1>3. /\ a \in Archives /\ Place(at.node, x) /\ a = Input(at.node, x)
      /\ at.node \in Nat /\ x \in Nat \ {0}
  BY <1>1, Reading
<1>4. at.node =< Len(Cmd) /\ Node.inputs[x] = a /\ x =< Len(Node.inputs)
  <2>1. x \in 1..Len(Node.inputs) /\ at.node \in 1..Len(Cmd)
    BY <1>3 DEF Place, Node, Cmd
  <2>2. Node.inputs[x] = a
    BY <1>3 DEF Input, Node, Cmd
  <2>3. at.node =< Len(Cmd)
    BY <1>2, <1>1 DEF PlaceInv
  <2>4. Len(Node.inputs) \in Nat
    BY <2>3, NodeInputs
  <2> QED BY <2>1, <2>2, <2>3, <2>4
<1>5. /\ at'.mode = at.mode /\ at'.node = at.node /\ at'.input = x + 1 /\ at'.input - 1 = x
      /\ at' \in [mode : {"normalize", "group", "rescan"}, node : 1..(Len(link.cmd) + 1),
                  input : Nat \ {0}]
      /\ rd'.ar = None => PlaceInv'
      /\ \A m : Counted(m)' = Counted(m)
  BY <1>1, <1>4, NextInputFacts
<1>6. /\ rd' \in [ar : Archives \cup {None}, idx : Nat \ {0}, again : BOOLEAN]
      /\ rd'.ar = None
  BY <1>1, <1>2 DEF TypeOK
<1>7. /\ a \in link.whole => AL!MembersOf(a) \subseteq Included
      /\ AL!Needed(a) = {}
  BY <1>1, ArchiveDone
<1>8. Included \subseteq MemberFiles /\ Cardinality(Included) \in Nat
  <2>1. Included \subseteq MemberFiles
    BY <1>2, <1>3 DEF TypeOK, Included
  <2>2. IsFiniteSet(Included)
    BY <2>1, MembersFinite, FS_Subset
  <2> QED BY <2>1, <2>2, FS_CardinalityType
<1>9. /\ cnt'.cur = cnt.cur + Cardinality(Included) /\ cnt'.last = cnt.last
      /\ cnt'.nonAr = cnt.nonAr /\ cnt.cur \in Nat /\ cnt.nonAr \in Nat
      /\ cnt' \in [cur : Nat, last : Nat, nonAr : Nat]
  <2>1. cnt \in [cur : Nat, last : Nat, nonAr : Nat] /\ cnt.cur + Cardinality(Included) \in Nat
    BY <1>2, <1>8 DEF TypeOK
  <2>2. cnt' = [cnt EXCEPT !.cur = cnt.cur + Cardinality(Included)]
    BY <1>1
  <2> QED BY <2>1, <2>2
<1>10. CountInv'
  <2>1. PICK s, A, mem, m : s = Node.inputs /\ A = CountedArchives /\ mem = MembersRead /\ m = x
    OBVIOUS
  <2>2. s[m] \in A
    BY <1>1, <1>2, <1>3, <1>4, <2>1 DEF CountedArchives, PlaceInv
  <2>3. mem[s[m]] = Included
    BY <1>3, <1>4, <2>1 DEF MembersRead, Included
  <2>4. m \in Nat \ {0} /\ mem[s[m]] \subseteq MemberFiles
    BY <1>3, <1>8, <2>1, <2>3
  <2>5. Cardinality(Pairs(s, A, mem, m))
          = Cardinality(Pairs(s, A, mem, m - 1))
            + IF s[m] \in A THEN Cardinality(mem[s[m]]) ELSE 0
    BY <2>4, PairsNext
  <2>6. Cardinality(Counted(x)) = Cardinality(Counted(x - 1)) + Cardinality(Included)
    BY <2>1, <2>2, <2>3, <2>5 DEF Counted
  <2>7. cnt.cur = cnt.nonAr + Cardinality(Counted(x - 1))
    BY <1>1, <1>2 DEF CountInv
  <2>8. Cardinality(Counted(x - 1)) \in Nat
    <3>1. m - 1 \in Nat
      BY <2>4
    <3> QED BY <2>1, <3>1, PairsFinite DEF Counted
  <2>9. cnt'.cur = cnt'.nonAr + Cardinality(Counted(x))
    <3>1. \A c, n, k, l, p \in Nat : c = n + k /\ p = k + l => c + l = n + p
      OBVIOUS
    <3>2. Cardinality(Counted(x)) \in Nat
      BY <1>8, <2>6, <2>8
    <3> QED BY <1>8, <1>9, <2>6, <2>7, <2>8, <3>1, <3>2
  <2>10. Cardinality(Counted(at.input - 1)') = Cardinality(Counted(x))
    BY <1>5 DEF Counted
  <2> QED BY <2>9, <2>10 DEF CountInv
<1>11. FirstPassInv' /\ RescanInv'
  <2>1. Kind[Node.inputs[at.input]] # "object" /\ AL!Needed(Node.inputs[at.input]) = {}
    BY <1>3, <1>4, <1>7 DEF Archives
  <2> QED BY <1>1, <1>4, <1>9, <2>1, QuietOn
<1>12. ASSUME NEW i \in Nat, NEW j \in Nat, Place(i, j)
       PROVE  Done(i, j)' <=> Done(i, j) \/ (rd.ar # None /\ Input(i, j) = rd.ar)
  <2>1. Input(i, j) = a <=> i = at.node /\ j = x
    <3>1. \A k, m : Place(k, m) /\ Input(i, j) = Input(k, m) => i = k /\ j = m
      BY <1>2, <1>12, Places
    <3> QED BY <1>3, <3>1
  <2>2. j < x + 1 <=> j < x \/ j = x
    BY <1>3
  <2> QED BY <1>1, <1>5, <2>1, <2>2 DEF Done
<1>13. ReadInv' /\ Files' = Files
  BY <1>1, <1>5, <1>6, <1>7, <1>9, <1>10, <1>11, <1>12, Moves
<1> QED BY <1>1, <1>5, <1>13 DEF AL!vars

LEMMA RescanArchiveKeeps ==
  ASSUME ReadInv, RescanArchive
  PROVE  ReadInv' /\ UNCHANGED AL!vars
<1> DEFINE a == Node.inputs[at.input]
           x == at.input
<1>1. /\ rd.ar = None /\ at.mode = "rescan" /\ ~(x > Len(Node.inputs))
      /\ UNCHANGED <<link, pool, objs, libs, ars, cnt>>
      /\ \/ a \in Archives \ link.whole /\ StartReading(a) /\ UNCHANGED at
         \/ a \notin Archives \ link.whole /\ NextInput /\ UNCHANGED rd
  BY DEF RescanArchive, NotReading, ListEnds
<1>2. TypeOK /\ PlaceInv /\ CountInv /\ link \in Links /\ None \notin Archives
  BY InputAssumption DEF ReadInv
<1>3. at.node =< Len(Cmd) /\ x \in Nat \ {0}
  BY <1>1, <1>2 DEF PlaceInv, TypeOK
<1>4. x \in 1..Len(Node.inputs) /\ Place(at.node, x) /\ a = Input(at.node, x) /\ at.node \in Nat
  <2>1. Len(Node.inputs) \in Nat /\ at.node \in 1..Len(Cmd)
    BY <1>3, NodeInputs
  <2>2. PICK k : k = x
    OBVIOUS
  <2>3. k \in 1..Len(Node.inputs)
    BY <1>1, <1>3, <2>1, <2>2
  <2>4. Place(at.node, k) /\ Node.inputs[k] = Input(at.node, k)
    BY <1>3, <2>3, NodeInputs
  <2> QED BY <2>1, <2>2, <2>3, <2>4
<1>5. CASE a \in Archives \ link.whole /\ StartReading(a) /\ UNCHANGED at
  <2>1. PICK b \in Archives : b = a
    BY <1>5
  <2>2. /\ b = Input(at.node, at.input) /\ StartReading(b) /\ b \notin link.whole
        /\ UNCHANGED <<link, pool, objs, libs, at, cnt>> /\ ars' = ars
    BY <1>1, <1>4, <1>5, <2>1
  <2> QED BY <1>1, <1>4, <2>2, BeginScan
<1>6. CASE a \notin Archives \ link.whole /\ NextInput /\ UNCHANGED rd
  <2>1. x =< Len(Node.inputs)
    BY <1>4
  <2>2. /\ at'.mode = at.mode /\ at'.node = at.node /\ at'.input = x + 1 /\ at'.input - 1 = x
        /\ at' \in [mode : {"normalize", "group", "rescan"}, node : 1..(Len(link.cmd) + 1),
                    input : Nat \ {0}]
        /\ rd'.ar = None => PlaceInv'
        /\ \A m : Counted(m)' = Counted(m)
        /\ Node' = Node
        /\ (NoWhole' <=> NoWhole) /\ (OneScanned' <=> OneScanned)
        /\ \A j : IsScanned(j)' <=> IsScanned(j)
        /\ \A c : AL!Needed(c)' = AL!Needed(c)
    BY <1>1, <1>6, <2>1, NextInputFacts
  <2>3. /\ rd' \in [ar : Archives \cup {None}, idx : Nat \ {0}, again : BOOLEAN]
        /\ rd'.ar = None /\ cnt' \in [cur : Nat, last : Nat, nonAr : Nat]
    BY <1>1, <1>2, <1>6 DEF TypeOK
  <2>4. CountInv'
    <3>1. a \notin CountedArchives
      BY <1>1, <1>6 DEF CountedArchives
    <3>2. Cardinality(Counted(x)) = Cardinality(Counted(x - 1))
      BY <1>1, <1>4, <3>1, CountsOn
    <3>3. cnt.cur = cnt.nonAr + Cardinality(Counted(x))
      BY <1>1, <1>2, <3>2 DEF CountInv
    <3>4. Cardinality(Counted(at.input - 1)') = Cardinality(Counted(x))
      BY <2>2 DEF Counted
    <3> QED BY <1>1, <3>3, <3>4 DEF CountInv
  <2>5. FirstPassInv'
    BY <1>1, <2>2 DEF FirstPassInv
  <2>6. RescanInv'
    <3>1. RescanInv
      BY DEF ReadInv
    <3>2. ASSUME Quiet, NEW j \in 1..x, IsScanned(j)
          PROVE  AL!Needed(Node.inputs[j]) = {}
      <4>1. j # x
        BY <1>6, <3>2 DEF IsScanned
      <4>2. j \in 1..(x - 1)
        BY <1>3, <4>1
      <4> QED BY <3>2, <4>2 DEF Quiet
    <3>3. ASSUME Quiet, NEW j \in 1..x, IsScanned(j)'
          PROVE  AL!Needed(Node.inputs[j])' = {}
      <4>1. AL!Needed(Node.inputs[j]) = {}
        BY <2>2, <3>2, <3>3
      <4>2. PICK c : c = Node.inputs[j]
        OBVIOUS
      <4>3. AL!Needed(c)' = {}
        BY <2>2, <4>1, <4>2
      <4> QED BY <2>2, <4>2, <4>3 DEF AL!Needed, AL!MembersOf
    <3>4. Quiet => Quiet'
      BY <2>2, <3>3 DEF Quiet
    <3> QED BY <1>1, <2>2, <3>1, <3>4 DEF RescanInv
  <2>7. ASSUME NEW i \in Nat, NEW j \in Nat, Place(i, j)
        PROVE  Done(i, j)' <=> Done(i, j) \/ (rd.ar # None /\ Input(i, j) = rd.ar)
    BY <1>1, <2>2 DEF Done
  <2>8. rd.ar \notin link.whole
    BY <1>1, <1>2, Places
  <2>9. ReadInv' /\ Files' = Files
    BY <1>1, <2>2, <2>3, <2>4, <2>5, <2>6, <2>7, <2>8, Moves
  <2> QED BY <1>1, <2>2, <2>9 DEF AL!vars
<1> QED BY <1>1, <1>5, <1>6

\* The list of the group has been gone through.
LEMMA ListEndsFacts ==
  ASSUME ReadInv, rd.ar = None, at.mode \in {"group", "rescan"}, ListEnds
  PROVE  /\ at.node =< Len(Cmd) /\ at.node \in 1..Len(Cmd) /\ Len(Node.inputs) \in Nat
         /\ at.input = Len(Node.inputs) + 1 /\ at.input - 1 = Len(Node.inputs)
         /\ \A i, j \in Nat : Place(i, j) => (Done(i, j) <=> i < at.node \/ i = at.node)
         /\ rd.ar \notin link.whole
         /\ cnt.cur = cnt.nonAr + Cardinality(Counted(Len(Node.inputs)))
         /\ Cardinality(Counted(Len(Node.inputs))) \in Nat
         /\ cnt.cur \in Nat /\ cnt.last \in Nat /\ cnt.nonAr \in Nat
<1>1. TypeOK /\ PlaceInv /\ CountInv /\ link \in Links /\ None \notin Archives
  BY InputAssumption DEF ReadInv
<1>2. at.node =< Len(Cmd) /\ at.input =< Len(Node.inputs) + 1 /\ at.input > Len(Node.inputs)
  BY <1>1 DEF PlaceInv, ListEnds
<1>3. at.node \in 1..Len(Cmd) /\ Len(Node.inputs) \in Nat /\ at.input \in Nat
  BY <1>2, NodeInputs
<1>4. at.input = Len(Node.inputs) + 1 /\ at.input - 1 = Len(Node.inputs)
  BY <1>2, <1>3
<1>5. ASSUME NEW i \in Nat, NEW j \in Nat, Place(i, j)
      PROVE  Done(i, j) <=> i < at.node \/ i = at.node
  <2>1. ASSUME i = at.node PROVE j < at.input
    <3>1. j \in 1..Len(Node.inputs)
      BY <1>5, <2>1 DEF Place, Node, Cmd
    <3> QED BY <1>3, <1>4, <3>1
  <2> QED BY <2>1 DEF Done
<1>6. rd.ar \notin link.whole
  BY <1>1, Places
<1>7. cnt.cur = cnt.nonAr + Cardinality(Counted(Len(Node.inputs)))
  BY <1>1, <1>4 DEF CountInv
<1>8. Cardinality(Counted(Len(Node.inputs))) \in Nat
  BY <1>3, PairsFinite DEF Counted
<1>9. cnt.cur \in Nat /\ cnt.last \in Nat /\ cnt.nonAr \in Nat
  BY <1>1 DEF TypeOK
<1> QED BY <1>2, <1>3, <1>4, <1>5, <1>6, <1>7, <1>8, <1>9

\* The next pass counts from the objects on, and is done when it counts no more
\* than this one.
LEMMA RescanKeeps ==
  ASSUME ReadInv, Rescan
  PROVE  ReadInv' /\ UNCHANGED AL!vars
<1> DEFINE n == Len(Node.inputs)
<1>1. /\ rd.ar = None /\ at.mode \in {"group", "rescan"} /\ ListEnds
      /\ at' = [at EXCEPT !.mode = "rescan", !.input = 1]
      /\ cnt' = [cnt EXCEPT !.last = cnt.cur, !.cur = cnt.nonAr]
      /\ UNCHANGED <<link, pool, objs, libs, ars, rd>>
  BY DEF Rescan, NotReading
<1>2. TypeOK /\ PlaceInv /\ link \in Links
  BY DEF ReadInv
<1>3. /\ at.node =< Len(Cmd) /\ n \in Nat
      /\ \A i, j \in Nat : Place(i, j) => (Done(i, j) <=> i < at.node \/ i = at.node)
      /\ rd.ar \notin link.whole
      /\ cnt.cur = cnt.nonAr + Cardinality(Counted(n))
      /\ Cardinality(Counted(n)) \in Nat
      /\ cnt.cur \in Nat /\ cnt.last \in Nat /\ cnt.nonAr \in Nat
  BY <1>1, ListEndsFacts
<1>4. /\ at'.mode = "rescan" /\ at'.node = at.node /\ at'.input = 1
      /\ at' \in [mode : {"normalize", "group", "rescan"}, node : 1..(Len(link.cmd) + 1),
                  input : Nat \ {0}]
  <2>1. at \in [mode : {"normalize", "group", "rescan"}, node : 1..(Len(link.cmd) + 1),
                input : Nat \ {0}]
    BY <1>2 DEF TypeOK
  <2>2. at'.mode = "rescan" /\ at'.node = at.node /\ at'.input = 1
    BY <1>1, <2>1
  <2>3. "rescan" \in {"normalize", "group", "rescan"} /\ 1 \in Nat \ {0}
    OBVIOUS
  <2>4. at' \in [mode : {"normalize", "group", "rescan"}, node : 1..(Len(link.cmd) + 1),
                 input : Nat \ {0}]
    BY <1>1, <2>1, <2>3
  <2> QED BY <2>2, <2>4
<1>5. /\ cnt'.cur = cnt.nonAr /\ cnt'.last = cnt.cur /\ cnt'.nonAr = cnt.nonAr
      /\ cnt' \in [cur : Nat, last : Nat, nonAr : Nat]
  <2>1. cnt \in [cur : Nat, last : Nat, nonAr : Nat]
    BY <1>2 DEF TypeOK
  <2>2. cnt'.cur = cnt.nonAr /\ cnt'.last = cnt.cur /\ cnt'.nonAr = cnt.nonAr
    BY <1>1, <2>1
  <2>3. cnt' \in [cur : Nat, last : Nat, nonAr : Nat]
    BY <1>1, <1>3, <2>1
  <2> QED BY <2>2, <2>3
<1>6. Cmd' = Cmd /\ Node' = Node
  BY <1>1, <1>4 DEF Cmd, Node
<1>7. PlaceInv'
  <2>1. Node.group
    BY <1>1, <1>2 DEF PlaceInv
  <2>2. 1 =< n + 1
    BY <1>3
  <2> QED BY <1>1, <1>3, <1>4, <1>6, <2>1, <2>2 DEF PlaceInv
<1>8. ASSUME NEW i \in Nat, NEW j \in Nat, Place(i, j)
      PROVE  Done(i, j)' <=> Done(i, j) \/ (rd.ar # None /\ Input(i, j) = rd.ar)
  <2>1. Done(i, j)' <=> i < at.node \/ i = at.node
    BY <1>4 DEF Done
  <2> QED BY <1>1, <1>3, <1>8, <2>1
<1>9. Quiet'
  BY <1>4 DEF Quiet
<1>10. NoWhole => Counted(n)' = Counted(n)
  <2>1. ASSUME NoWhole, NEW j \in 1..n
        PROVE  Node.inputs[j] \in CountedArchives' <=> Node.inputs[j] \in CountedArchives
    BY <1>1, <1>4, <2>1 DEF NoWhole, CountedArchives
  <2>2. MembersRead' = MembersRead
    BY <1>1 DEF MembersRead
  <2>3. n' = n
    BY <1>6
  <2>4. PICK s, A, B, mem : s = Node.inputs /\ A = CountedArchives /\ B = CountedArchives'
                            /\ mem = MembersRead
    OBVIOUS
  <2>5. Counted(n)' = Pairs(s, B, mem, n) /\ Counted(n) = Pairs(s, A, mem, n)
    BY <1>6, <2>2, <2>3, <2>4 DEF Counted
  <2>6. ASSUME NoWhole PROVE Pairs(s, B, mem, n) = Pairs(s, A, mem, n)
    <3>1. \A j \in 1..n : s[j] \in B <=> s[j] \in A
      BY <2>1, <2>4, <2>6
    <3>2. \A jf \in (1..n) \X MemberFiles : jf[1] \in 1..n
      OBVIOUS
    <3> HIDE DEF n
    <3> QED BY <3>1, <3>2 DEF Pairs
  <2> QED BY <2>5, <2>6
<1>11. RescanInv'
  <2>1. NoWhole' <=> NoWhole
    BY <1>1, <1>6 DEF NoWhole
  <2>2. NoWhole => cnt'.last = cnt'.nonAr + Cardinality(Counted(n)')
    BY <1>3, <1>5, <1>10
  <2>3. NoWhole => cnt'.last =< cnt'.nonAr + Cardinality(Counted(n)')
    BY <1>3, <1>5, <2>2
  <2> QED BY <1>6, <1>9, <2>1, <2>3 DEF RescanInv
<1>12. FirstPassInv'
  BY <1>4 DEF FirstPassInv
<1>13. CountInv'
  <2>1. Cardinality(Counted(0)') = 0
    <3>1. PICK s, A, mem : s = Node'.inputs /\ A = CountedArchives' /\ mem = MembersRead'
      OBVIOUS
    <3>2. Counted(0)' = Pairs(s, A, mem, 0)
      BY <3>1 DEF Counted
    <3> QED BY <3>2, PairsNone
  <2>2. Counted(at.input - 1)' = Counted(0)'
    BY <1>4 DEF Counted
  <2>3. cnt'.cur = cnt'.nonAr + 0
    BY <1>3, <1>5
  <2> QED BY <2>1, <2>2, <2>3 DEF CountInv
<1>14. ReadInv' /\ Files' = Files
  <2>1. rd' \in [ar : Archives \cup {None}, idx : Nat \ {0}, again : BOOLEAN] /\ rd'.ar = None
    BY <1>1, <1>2 DEF TypeOK
  <2> QED BY <1>1, <1>3, <1>4, <1>5, <1>7, <1>8, <1>11, <1>12, <1>13, <2>1, Moves
<1> QED BY <1>1, <1>4, <1>14 DEF AL!vars

\* A group is left when the counts agree: nothing of it is needed then.
LEMMA LastPassQuiet ==
  ASSUME ReadInv, GroupsCounted, rd.ar = None, at.mode \in {"group", "rescan"}, ListEnds,
         cnt.cur = cnt.last
  PROVE  Quiet
<1> DEFINE n == Len(Node.inputs)
<1>1. /\ at.node \in 1..Len(Cmd) /\ n \in Nat /\ at.input - 1 = n
      /\ cnt.cur = cnt.nonAr + Cardinality(Counted(n)) /\ Cardinality(Counted(n)) \in Nat
      /\ cnt.nonAr \in Nat
  BY ListEndsFacts
<1>2. /\ FirstPassInv /\ RescanInv /\ TypeOK /\ link \in Links
  BY DEF ReadInv
<1>3. CASE at.mode = "rescan"
  <2>1. Node.group
    BY <1>3 DEF ReadInv, PlaceInv
  <2>2. NoWhole \/ OneScanned
    <3>1. \/ \A j \in 1..n : Node.inputs[j] \notin link.whole
          \/ \A j, k \in {j \in 1..n : Node.inputs[j] \in Archives \ link.whole} : j = k
      BY <1>1, <1>2, <2>1 DEF GroupsCounted, Node, Cmd
    <3> QED BY <3>1 DEF NoWhole, OneScanned, IsScanned
  <2>3. cnt.last = cnt.nonAr + Cardinality(Counted(n))
    BY <1>1
  <2> QED BY <1>2, <1>3, <2>2, <2>3 DEF RescanInv
<1>4. CASE at.mode = "group"
  <2>1. cnt.last = 0 /\ (NothingRead => Quiet)
        /\ (cnt.nonAr = 0 => \A j \in 1..(at.input - 1) : Kind[Node.inputs[j]] # "object")
    BY <1>2, <1>4 DEF FirstPassInv
  <2>2. cnt.nonAr = 0 /\ Cardinality(Counted(n)) = 0
    <3>1. \A k, l \in Nat : k + l = 0 => k = 0 /\ l = 0
      OBVIOUS
    <3>2. cnt.nonAr + Cardinality(Counted(n)) = 0
      BY <1>1, <2>1
    <3> QED BY <1>1, <3>1, <3>2
  <2>3. Counted(n) = {}
    <3>1. IsFiniteSet(Counted(n))
      BY <1>1, PairsFinite DEF Counted
    <3> QED BY <2>2, <3>1, FS_EmptySet
  <2>4. ASSUME NEW j \in 1..n, Node.inputs[j] \in Archives, NEW f \in ars[Node.inputs[j]].members
        PROVE  FALSE
    <3>1. f \in MemberFiles
      BY <1>2, <2>4 DEF TypeOK
    <3>2. MembersRead[Node.inputs[j]] = ars[Node.inputs[j]].members
      BY <2>4 DEF MembersRead
    <3>3. Node.inputs[j] \in CountedArchives
      BY <1>4, <2>4 DEF CountedArchives
    <3>4. <<j, f>> \in Counted(n)
      BY <2>4, <3>1, <3>2, <3>3 DEF Counted, Pairs
    <3> QED BY <2>3, <3>4
  <2>5. NothingRead
    BY <1>1, <2>1, <2>2, <2>4 DEF NothingRead
  <2> QED BY <2>1, <2>5
<1> QED BY <1>3, <1>4

LEMMA LeaveGroupKeeps ==
  ASSUME ReadInv, LeaveGroup, GroupsCounted
  PROVE  ReadInv' /\ AL!Next
<1> DEFINE n == Len(Node.inputs)
<1>1. /\ rd.ar = None /\ at.mode \in {"group", "rescan"} /\ ListEnds /\ cnt.cur = cnt.last
      /\ NextNode /\ UNCHANGED <<link, pool, objs, libs, ars, rd, cnt>>
  BY DEF LeaveGroup, NotReading
<1>2. TypeOK /\ FilesInv /\ ArchivesInv /\ link \in Links
  BY DEF ReadInv
<1>3. /\ at.node =< Len(Cmd) /\ at.node \in 1..Len(Cmd) /\ n \in Nat /\ at.input - 1 = n
      /\ \A i, j \in Nat : Place(i, j) => (Done(i, j) <=> i < at.node \/ i = at.node)
      /\ rd.ar \notin link.whole
  BY <1>1, ListEndsFacts
<1>4. /\ at'.node = at.node + 1
      /\ at' \in [mode : {"normalize", "group", "rescan"}, node : 1..(Len(link.cmd) + 1),
                  input : Nat \ {0}]
      /\ \A i, j \in Nat : Place(i, j) => (Done(i, j)' <=> i < at.node \/ i = at.node)
      /\ PlaceInv' /\ FirstPassInv' /\ RescanInv' /\ CountInv'
  BY <1>1, <1>3, NextNodeFacts
<1>5. \A i, j \in Nat : Place(i, j) =>
        (Done(i, j)' <=> Done(i, j) \/ (rd.ar # None /\ Input(i, j) = rd.ar))
  BY <1>1, <1>3, <1>4
<1>6. ReadInv' /\ Files' = Files
  <2>1. /\ rd' \in [ar : Archives \cup {None}, idx : Nat \ {0}, again : BOOLEAN]
        /\ cnt' \in [cur : Nat, last : Nat, nonAr : Nat] /\ rd'.ar = None
    BY <1>1, <1>2 DEF TypeOK
  <2> QED BY <1>1, <1>3, <1>4, <1>5, <2>1, Moves
<1>7. Quiet
  BY <1>1, LastPassQuiet
<1>8. ASSUME NEW j \in 1..n
      PROVE  /\ Kind[Node.inputs[j]] # "archive" => Node.inputs[j] \in Files
             /\ Node.inputs[j] \in link.whole => AL!MembersOf(Node.inputs[j]) \subseteq Files
             /\ Kind[Node.inputs[j]] = "archive" => AL!Needed(Node.inputs[j]) = {}
  <2>1. PICK c : c = Node.inputs[j]
    OBVIOUS
  <2>2. Place(at.node, j) /\ c = Input(at.node, j) /\ (c \in Archives <=> Kind[c] = "archive")
    BY <1>3, <2>1, NodeInputs
  <2>3. at.node \in Nat /\ j \in Nat /\ Done(at.node, j)
    BY <1>3, <2>2
  <2>4. Kind[c] # "archive" => c \in Files
    BY <1>2, <2>2, <2>3 DEF FilesInv
  <2>5. c \in link.whole => AL!MembersOf(c) \subseteq Files
    <3>1. link.whole \subseteq Archives
      BY <1>2, Places
    <3>2. c \in link.whole => AL!MembersOf(c) \subseteq ars[c].members
      BY <1>2, <2>2, <2>3, <3>1 DEF ArchivesInv
    <3>3. c \in Archives => ars[c].members \subseteq Files
      BY <1>2 DEF FilesInv
    <3> QED BY <3>1, <3>2, <3>3
  <2>6. c \in Archives => AL!Needed(c) = {}
    <3>1. CASE c \in link.whole
      BY <2>5, <3>1 DEF AL!Needed
    <3>2. CASE c \in Archives \ link.whole
      BY <1>3, <1>7, <2>1, <3>2 DEF Quiet, IsScanned
    <3> QED BY <3>1, <3>2
  <2> QED BY <2>1, <2>2, <2>4, <2>5, <2>6
<1>9. AL!Next
  BY <1>1, <1>3, <1>4, <1>6, <1>8, Leaves
<1> QED BY <1>6, <1>9

-----------------------------------------------------------------------------
(* The theorems.                                                           *)

LEMMA InitRead ==
  ASSUME Init
  PROVE  ReadInv /\ AL!Init
<1>1. /\ link \in Links /\ pool = [n \in Names |-> AL!NoInfo] /\ objs = <<>> /\ libs = <<>>
      /\ ars = [a \in Archives |-> [status |-> <<>>, members |-> {}]]
      /\ at = [mode |-> "normalize", node |-> 1, input |-> 1]
      /\ rd = [ar |-> None, idx |-> 1, again |-> FALSE]
      /\ cnt = [cur |-> 0, last |-> 0, nonAr |-> 0]
      /\ None \notin Archives /\ link.whole \subseteq Archives
  BY InputAssumption DEF Init
<1>2. /\ at.mode = "normalize" /\ at.node = 1 /\ at.input = 1 /\ rd.ar = None
      /\ \A a \in Archives : ars[a].status = <<>> /\ ars[a].members = {}
  BY <1>1
<1>3. Files = {}
  BY <1>1 DEF Files, RangeOf
<1>4. \A i, j \in Nat : Place(i, j) => ~Done(i, j)
  BY <1>2 DEF Place, Done
<1>5. TypeOK
  <2>1. at \in [mode : {"normalize", "group", "rescan"},
                node : 1..(Len(link.cmd) + 1), input : Nat \ {0}]
    <3>1. Len(link.cmd) \in Nat
      BY <1>1, Places DEF Cmd
    <3>2. 1 \in 1..(Len(link.cmd) + 1)
      BY <3>1
    <3> QED BY <1>1, <3>2
  <2>2. ars \in [Archives -> [status : Seq({"Unknown", "Include", "Exclude"}),
                              members : SUBSET MemberFiles]]
    <3> DEFINE ST == {"Unknown", "Include", "Exclude"}
    <3> HIDE DEF ST
    <3>1. <<>> \in Seq(ST)
      OBVIOUS
    <3>2. [status |-> <<>>, members |-> {}] \in [status : Seq(ST), members : SUBSET MemberFiles]
      BY <3>1
    <3>3. ars \in [Archives -> [status : Seq(ST), members : SUBSET MemberFiles]]
      BY <1>1, <3>2
    <3> QED BY <3>3 DEF ST
  <2>3. objs \in Seq(MemberFiles \cup DOMAIN Kind) /\ libs \in Seq(DOMAIN Kind)
    BY <1>1
  <2>4. pool \in [Names -> AL!Info \cup {AL!NoInfo}]
    BY <1>1
  <2>5. /\ rd \in [ar : Archives \cup {None}, idx : Nat \ {0}, again : BOOLEAN]
        /\ cnt \in [cur : Nat, last : Nat, nonAr : Nat]
    BY <1>1
  <2> QED BY <1>2, <2>1, <2>2, <2>3, <2>4, <2>5 DEF TypeOK
<1>6. PoolInv /\ DefinedInv /\ OnceInv /\ PlaceInv
  <2>1. PoolInv
    BY <1>1 DEF PoolInv
  <2>2. DefinedInv
    BY <1>3 DEF DefinedInv
  <2>3. OnceInv
    BY <1>1 DEF OnceInv, NoFileTwice
  <2>4. PlaceInv
    BY <1>2 DEF PlaceInv
  <2> QED BY <2>1, <2>2, <2>3, <2>4
<1>7. FilesInv /\ ArchivesInv
  BY <1>1, <1>2, <1>3, <1>4 DEF FilesInv, ArchivesInv
<1>8. DecisionInv
  <2>1. \A a \in Archives : 1..Len(ars[a].status) = {}
    BY <1>2
  <2> QED BY <2>1 DEF DecisionInv
<1>9. ScanInv /\ FirstPassInv /\ RescanInv /\ CountInv
  BY <1>1, <1>2 DEF ScanInv, Scanning, FirstPassInv, RescanInv, CountInv
<1>10. AL!Init
  BY <1>1, <1>2, <1>3 DEF AL!Init
<1> QED BY <1>1, <1>5, <1>6, <1>7, <1>8, <1>9, <1>10 DEF ReadInv

LEMMA NextRead ==
  ASSUME WholeApart, GroupsCounted, ReadInv, [Next]_vars
  PROVE  ReadInv' /\ [AL!Next]_(AL!vars)
<1>1. CASE SkipDecided
  BY <1>1, SkipDecidedKeeps
<1>2. CASE IncludeSibling
  BY <1>2, IncludeSiblingKeeps
<1>3. CASE PassSymbol
  BY <1>3, PassSymbolKeeps
<1>4. CASE IncludeSymbol
  BY <1>4, IncludeSymbolKeeps
<1>5. CASE IncludeNextMember
  BY <1>5, IncludeNextMemberKeeps
<1>6. CASE ScanAgain
  BY <1>6, ScanAgainKeeps
<1>7. CASE NormalizeObject \/ NormalizeShared
  BY <1>7, NormalizeFileKeeps
<1>8. CASE NormalizeArchive
  BY <1>8, NormalizeArchiveKeeps
<1>9. CASE ArchiveNormalized
  BY <1>9, ArchiveNormalizedKeeps
<1>10. CASE LeaveNode
  BY <1>10, LeaveNodeKeeps
<1>11. CASE EnterGroup
  BY <1>11, EnterGroupKeeps
<1>12. CASE GroupObject
  BY <1>12, GroupObjectKeeps
<1>13. CASE GroupShared
  BY <1>13, GroupSharedKeeps
<1>14. CASE GroupArchive
  BY <1>14, GroupArchiveKeeps
<1>15. CASE GroupArchiveRead
  BY <1>15, GroupArchiveReadKeeps
<1>16. CASE Rescan
  BY <1>16, RescanKeeps
<1>17. CASE RescanArchive
  BY <1>17, RescanArchiveKeeps
<1>18. CASE LeaveGroup
  BY <1>18, LeaveGroupKeeps
<1>19. CASE UNCHANGED vars
  <2>1. UNCHANGED <<link, pool, objs, libs, ars, at, rd, cnt>>
    BY <1>19 DEF vars
  <2>2. /\ PoolInv' /\ FilesInv' /\ DefinedInv' /\ OnceInv'
        /\ FirstPassInv' /\ RescanInv' /\ CountInv' /\ UNCHANGED AL!vars
    BY <2>1, SameMembers
  <2>3. link \in Links /\ TypeOK /\ PlaceInv /\ ArchivesInv /\ DecisionInv /\ ScanInv
    BY DEF ReadInv
  <2>4. TypeOK'
    BY <2>1, <2>3 DEF TypeOK, AL!MembersOf
  <2>5. PlaceInv'
    BY <2>1, <2>3 DEF PlaceInv, Place, Input, Cmd, Node
  <2>6. ArchivesInv'
    <3>1. \A i, j : /\ Place(i, j)' <=> Place(i, j)
                    /\ Done(i, j)' <=> Done(i, j)
                    /\ Input(i, j)' = Input(i, j)
      BY <2>1 DEF Place, Input, Cmd, Done
    <3>2. ASSUME NEW i \in Nat, NEW j \in Nat, Place(i, j)', Input(i, j)' \in Archives
          PROVE  /\ ~Done(i, j)' /\ rd'.ar # Input(i, j)' => ars'[Input(i, j)'].members = {}
                 /\ Done(i, j)' \/ rd'.ar = Input(i, j)'
                      => Len(ars'[Input(i, j)'].status) = Len(Armap(Input(i, j))')
                 /\ Done(i, j)' /\ Input(i, j)' \in link.whole
                      => AL!MembersOf(Input(i, j))' \subseteq ars'[Input(i, j)'].members
      <4> DEFINE c == Input(i, j)
      <4>1. c \in Archives /\ Place(i, j) /\ c' = c
        BY <3>1, <3>2
      <4>2. Armap(c)' = Armap(c) /\ AL!MembersOf(c)' = AL!MembersOf(c)
        BY <2>1, <4>1 DEF Armap, AL!MembersOf
      <4>3. /\ ~Done(i, j) /\ rd.ar # c => ars[c].members = {}
            /\ Done(i, j) \/ rd.ar = c => Len(ars[c].status) = Len(Armap(c))
            /\ Done(i, j) /\ c \in link.whole => AL!MembersOf(c) \subseteq ars[c].members
        BY <2>3, <4>1 DEF ArchivesInv
      <4> HIDE DEF c
      <4> QED BY <2>1, <3>1, <4>1, <4>2, <4>3 DEF c
    <3> QED BY <2>1, <2>3, <3>2 DEF ArchivesInv, Included
  <2>7. DecisionInv'
    BY <2>1, <2>3 DEF DecisionInv, Armap, Defined
  <2>8. ScanInv'
    BY <2>1, <2>3 DEF ScanInv, Scanning, Armap, Included, AL!Wanted, AL!IsUndef, AL!IsWeak
  <2> QED BY <2>1, <2>2, <2>3, <2>4, <2>5, <2>6, <2>7, <2>8 DEF ReadInv
<1> QED
  BY <1>1, <1>2, <1>3, <1>4, <1>5, <1>6, <1>7, <1>8, <1>9, <1>10, <1>11, <1>12, <1>13,
     <1>14, <1>15, <1>16, <1>17, <1>18, <1>19 DEF Next

\* The pool, the lists of inputs, the statuses of the map entries and the
\* counters of readGroup keep their types, whatever the command line.
THEOREM TypeCorrect ==
  ASSUME WholeApart, GroupsCounted
  PROVE  Spec => []TypeOK
<1>1. Init => ReadInv
  BY InitRead
<1>2. ReadInv /\ [Next]_vars => ReadInv'
  BY NextRead
<1>3. ReadInv => TypeOK
  BY DEF ReadInv
<1> QED BY <1>1, <1>2, <1>3, PTL DEF Spec

\* What GNUArchiveReader::readArchive has decided about an entry of a symbol map
\* stays right over all its scans, and no member is read twice.
THEOREM MembersAlwaysReadOnce ==
  ASSUME WholeApart, GroupsCounted
  PROVE  Spec => []MembersReadOnce
<1>1. Init => ReadInv
  BY InitRead
<1>2. ReadInv /\ [Next]_vars => ReadInv'
  BY NextRead
<1>3. ReadInv => MembersReadOnce
  <2>1. SUFFICES ASSUME ReadInv PROVE MembersReadOnce
    OBVIOUS
  <2>2. DecisionInv /\ OnceInv
    BY <2>1 DEF ReadInv
  <2>3. DecisionsHold
    BY <2>2 DEF DecisionInv, DecisionsHold, Defined, AL!IsUndef
  <2> QED BY <2>2, <2>3 DEF OnceInv, MembersReadOnce
<1> QED BY <1>1, <1>2, <1>3, PTL DEF Spec

\* The scans of readArchive and the passes of readGroup read the members that
\* are needed and no others, and ObjectLinker::normalize leaves no node, nor
\* readGroup a group, while one of its archives has a member that is needed.
THEOREM ScansImplementArchiveLinking ==
  ASSUME WholeApart, GroupsCounted
  PROVE  Spec => ImplementsArchiveLinking
<1>1. Init => ReadInv /\ AL!Init
  BY InitRead
<1>2. ReadInv /\ [Next]_vars => ReadInv' /\ [AL!Next]_(AL!vars)
  BY NextRead
<1> QED BY <1>1, <1>2, PTL DEF Spec, AL!Spec, ImplementsArchiveLinking
=============================================================================
