----------------------------- MODULE InputReading -----------------------------
(***************************************************************************)
(* Reading the inputs: ObjectLinker::normalize walks the nodes of the      *)
(* input tree, GroupReader::readGroup those of a --start-group, and        *)
(* GNUArchiveReader::readArchive scans the symbol map of an archive until  *)
(* a scan extracts nothing.  One scanned map entry is one step.            *)
(*                                                                         *)
(* The tree that the members are merged into, nested archives (a member is *)
(* named by the map entry, however many archives it lies in) and linker    *)
(* scripts are left out; reading the symbols of a file is one step, which  *)
(* resolves each of its names by StaticResolver.                           *)
(***************************************************************************)
EXTENDS Integers, Sequences, FiniteSets

CONSTANTS
  Names, Kind, Members,  (* see ArchiveLinking                             *)
  Links                  (* the links: see ArchiveLinking; map holds the   *)
                         (* symbol map of each archive                     *)

VARIABLES
  link,    (* the command line and what the files hold                     *)
  pool,    (* NamePool                                                     *)
  objs,    (* Module::getObjectList                                        *)
  libs,    (* Module::getLibraryList                                       *)
  ars,     (* of each archive: the status of its map entries, and the      *)
           (* members that have been included (the ObjectMemberMap)        *)
  at,      (* [mode, node, input]: the loop that runs, and its position    *)
  rd,      (* [ar, idx, again]: the archive being scanned, the entry, and  *)
           (* willSymResolved                                              *)
  cnt      (* [cur, last, nonAr]: the counters of readGroup                *)

vars == <<link, pool, objs, libs, ars, at, rd, cnt>>

RangeOf(s) == {s[i] : i \in 1..Len(s)}
Files == RangeOf(objs) \cup RangeOf(libs)

AL == INSTANCE ArchiveLinking WITH node <- at.node, files <- Files

Archives == {a \in DOMAIN Kind : Kind[a] = "archive"}
None == "no archive"

MemberFiles == UNION {AL!MembersOf(a) : a \in Archives}

MapsDefinitions(l) ==
  \A a \in Archives : \A f \in AL!MembersOf(a), n \in Names :
    l.syms[f][n] \in {"def", "weakdef"}
      <=> \E k \in 1..Len(l.map[a]) : l.map[a][k] = [file |-> f, name |-> n]

\* A place (i, j) of a command line is one input, which has a file and a list
\* of members of its own: a file given twice is two inputs.  A member is listed
\* once, and the symbol map of an archive has the definitions of its members.
ASSUME InputAssumption ==
  /\ IsFiniteSet(DOMAIN Kind)
  /\ \A i \in DOMAIN Kind : Kind[i] \in {"object", "shared", "archive"}
  /\ None \notin Archives
  /\ \A a \in Archives : Members[a] \in Seq(MemberFiles)
  /\ MemberFiles \cap DOMAIN Kind = {}
  /\ \A l \in Links :
       /\ l.cmd \in Seq([group : BOOLEAN, inputs : Seq(DOMAIN Kind)])
       /\ \A i \in 1..Len(l.cmd) : ~l.cmd[i].group => Len(l.cmd[i].inputs) = 1
       /\ \A i, k \in 1..Len(l.cmd) : \A j \in 1..Len(l.cmd[i].inputs) :
            \A m \in 1..Len(l.cmd[k].inputs) :
              l.cmd[i].inputs[j] = l.cmd[k].inputs[m] => i = k /\ j = m
       /\ l.whole \subseteq Archives
       /\ \A f \in MemberFiles \cup DOMAIN Kind : \A n \in Names :
            f \notin Archives => l.syms[f][n] \in AL!Kinds
       /\ \A a \in Archives : l.map[a] \in Seq([file : AL!MembersOf(a), name : Names])
       /\ MapsDefinitions(l)

-----------------------------------------------------------------------------
(* The archive                                                             *)

\* The symbol map: a sequence of [file, name], a definition of a member each.
Armap(a) == link.map[a]

\* Mutant: a weak definition does not keep a member from being extracted.
ShouldIncludeOverWeak(n) ==
  IF pool[n] = AL!NoInfo THEN "Unknown"
  ELSE IF AL!IsUndef(n) = AL!IsWeak(n)
       THEN IF AL!IsWeak(n) THEN "Unknown" ELSE "Exclude" ELSE "Include"

ShouldIncludeSymbol(n) ==
  IF pool[n] = AL!NoInfo THEN "Unknown"
  ELSE IF ~AL!IsUndef(n) THEN "Exclude"
  ELSE IF AL!IsWeak(n) THEN "Unknown" ELSE "Include"

\* Mutant: the first entry of the map is taken for the second.
StartReadingSecond(a) == rd' = [ar |-> a, idx |-> 0, again |-> FALSE]

StartReading(a) == rd' = [ar |-> a, idx |-> 1, again |-> FALSE]
NotReading == rd.ar = None
Scanning == rd.ar \in Archives \ link.whole
Entry == Armap(rd.ar)[rd.idx]
EntryIs(status) == ars[rd.ar].status[rd.idx] = status
Included == ars[rd.ar].members

SetStatus(status) == [ars EXCEPT ![rd.ar].status[rd.idx] = status]
NextEntry == rd' = [rd EXCEPT !.idx = @ + 1]

InMap == Scanning /\ rd.idx =< Len(Armap(rd.ar))

\* An earlier scan has decided.
SkipDecided ==
  /\ InMap
  /\ ~EntryIs("Unknown")
  /\ NextEntry
  /\ UNCHANGED <<link, pool, objs, libs, ars, at, cnt>>

\* Another symbol has brought the member in.
IncludeSibling ==
  /\ InMap
  /\ EntryIs("Unknown")
  /\ Entry.file \in Included
  /\ ars' = SetStatus("Include")
  /\ NextEntry
  /\ UNCHANGED <<link, pool, objs, libs, at, cnt>>

\* The name is defined or need not be: nothing is read.
PassSymbol ==
  /\ InMap
  /\ EntryIs("Unknown")
  /\ Entry.file \notin Included
  /\ ShouldIncludeSymbol(Entry.name) # "Include"
  /\ ars' = SetStatus(ShouldIncludeSymbol(Entry.name))
  /\ NextEntry
  /\ UNCHANGED <<link, pool, objs, libs, at, cnt>>

\* includeMember: s is the new status of the map.
IncludeMember(f, s) ==
  /\ ars' = [ars EXCEPT ![rd.ar] = [status |-> s, members |-> @.members \cup {f}]]
  /\ pool' = AL!Entered(pool, f, FALSE)
  /\ objs' = Append(objs, f)

IncludeSymbol ==
  /\ InMap
  /\ EntryIs("Unknown")
  /\ Entry.file \notin Included
  /\ ShouldIncludeSymbol(Entry.name) = "Include"
  /\ IncludeMember(Entry.file, SetStatus("Include")[rd.ar].status)
  /\ rd' = [rd EXCEPT !.idx = @ + 1, !.again = TRUE]
  /\ UNCHANGED <<link, libs, at, cnt>>

\* includeAllMembers
IncludeNextMember ==
  /\ rd.ar \in link.whole
  /\ rd.idx =< Len(Members[rd.ar])
  /\ IncludeMember(Members[rd.ar][rd.idx], ars[rd.ar].status)
  /\ NextEntry
  /\ UNCHANGED <<link, libs, at, cnt>>

ScanAgain ==
  /\ Scanning
  /\ rd.idx > Len(Armap(rd.ar))
  /\ rd.again
  /\ StartReading(rd.ar)
  /\ UNCHANGED <<link, pool, objs, libs, ars, at, cnt>>

\* Mutant: the symbol map is scanned once.
ArchiveIsReadAtOnce ==
  \/ rd.ar \in link.whole /\ rd.idx > Len(Members[rd.ar])
  \/ Scanning /\ rd.idx > Len(Armap(rd.ar))

ArchiveIsRead ==
  \/ rd.ar \in link.whole /\ rd.idx > Len(Members[rd.ar])
  \/ Scanning /\ rd.idx > Len(Armap(rd.ar)) /\ ~rd.again

-----------------------------------------------------------------------------
(* ObjectLinker::normalize                                                 *)

Normalizing(kind) ==
  /\ NotReading
  /\ at.mode = "normalize"
  /\ at.node =< Len(link.cmd)
  /\ ~link.cmd[at.node].group
  /\ at.input = 1
  /\ Kind[link.cmd[at.node].inputs[1]] = kind

Node == link.cmd[at.node]
NextNode == at' = [mode |-> "normalize", node |-> at.node + 1, input |-> 1]
NextInput == at' = [at EXCEPT !.input = @ + 1]
SetStatuses(a) ==
  [ars EXCEPT ![a].status = [k \in 1..Len(Armap(a)) |-> "Unknown"]]

NormalizeObject ==
  /\ Normalizing("object")
  /\ pool' = AL!Entered(pool, Node.inputs[1], FALSE)
  /\ objs' = Append(objs, Node.inputs[1])
  /\ NextInput
  /\ UNCHANGED <<link, libs, ars, rd, cnt>>

NormalizeShared ==
  /\ Normalizing("shared")
  /\ pool' = AL!Entered(pool, Node.inputs[1], TRUE)
  /\ libs' = Append(libs, Node.inputs[1])
  /\ NextInput
  /\ UNCHANGED <<link, objs, ars, rd, cnt>>

NormalizeArchive ==
  /\ Normalizing("archive")
  /\ StartReading(Node.inputs[1])
  /\ ars' = SetStatuses(Node.inputs[1])
  /\ UNCHANGED <<link, pool, objs, libs, at, cnt>>

ArchiveNormalized ==
  /\ at.mode = "normalize"
  /\ rd.ar # None /\ ArchiveIsRead
  /\ rd' = [rd EXCEPT !.ar = None]
  /\ NextNode
  /\ UNCHANGED <<link, pool, objs, libs, ars, cnt>>

\* The increment of normalize's loop.
LeaveNode ==
  /\ NotReading
  /\ at.mode = "normalize" /\ at.input > 1
  /\ NextNode
  /\ UNCHANGED <<link, pool, objs, libs, ars, rd, cnt>>

EnterGroup ==
  /\ NotReading
  /\ at.mode = "normalize"
  /\ at.node =< Len(link.cmd)
  /\ Node.group
  /\ at' = [at EXCEPT !.mode = "group", !.input = 1]
  /\ cnt' = [cur |-> 0, last |-> 0, nonAr |-> 0]
  /\ UNCHANGED <<link, pool, objs, libs, ars, rd>>

-----------------------------------------------------------------------------
(* GroupReader::readGroup                                                  *)

InGroup(kind) ==
  /\ NotReading
  /\ at.mode = "group"
  /\ at.input =< Len(Node.inputs)
  /\ Kind[Node.inputs[at.input]] = kind

GroupObject ==
  /\ InGroup("object")
  /\ pool' = AL!Entered(pool, Node.inputs[at.input], FALSE)
  /\ objs' = Append(objs, Node.inputs[at.input])
  /\ cnt' = [cnt EXCEPT !.cur = @ + 1, !.nonAr = @ + 1]
  /\ NextInput
  /\ UNCHANGED <<link, libs, ars, rd>>

GroupShared ==
  /\ InGroup("shared")
  /\ pool' = AL!Entered(pool, Node.inputs[at.input], TRUE)
  /\ libs' = Append(libs, Node.inputs[at.input])
  /\ NextInput
  /\ UNCHANGED <<link, objs, ars, rd, cnt>>

GroupArchive ==
  /\ InGroup("archive")
  /\ StartReading(Node.inputs[at.input])
  /\ ars' = SetStatuses(Node.inputs[at.input])
  /\ UNCHANGED <<link, pool, objs, libs, at, cnt>>

\* Both loops of readGroup count the members an archive has by now.
GroupArchiveRead ==
  /\ at.mode \in {"group", "rescan"}
  /\ rd.ar # None /\ ArchiveIsRead
  /\ cnt' = [cnt EXCEPT !.cur = @ + Cardinality(Included)]
  /\ rd' = [rd EXCEPT !.ar = None]
  /\ NextInput
  /\ UNCHANGED <<link, pool, objs, libs, ars>>

ListEnds == at.input > Len(Node.inputs)

\* Mutant: last_obj_cnt is not brought up to date.
RescanForEver ==
  /\ NotReading /\ at.mode \in {"group", "rescan"} /\ ListEnds
  /\ cnt.cur # cnt.last
  /\ at' = [at EXCEPT !.mode = "rescan", !.input = 1]
  /\ cnt' = [cnt EXCEPT !.cur = cnt.nonAr]
  /\ UNCHANGED <<link, pool, objs, libs, ars, rd>>

\* Some member has been added since the counters were last compared.
Rescan ==
  /\ NotReading /\ at.mode \in {"group", "rescan"} /\ ListEnds
  /\ cnt.cur # cnt.last
  /\ at' = [at EXCEPT !.mode = "rescan", !.input = 1]
  /\ cnt' = [cnt EXCEPT !.last = cnt.cur, !.cur = cnt.nonAr]
  /\ UNCHANGED <<link, pool, objs, libs, ars, rd>>

RescanArchive ==
  /\ NotReading /\ at.mode = "rescan" /\ ~ListEnds
  /\ LET i == Node.inputs[at.input] IN
       \/ /\ i \in Archives \ link.whole
          /\ StartReading(i)
          /\ UNCHANGED at
       \/ /\ i \notin Archives \ link.whole
          /\ NextInput
          /\ UNCHANGED rd
  /\ UNCHANGED <<link, pool, objs, libs, ars, cnt>>

LeaveGroup ==
  /\ NotReading /\ at.mode \in {"group", "rescan"} /\ ListEnds
  /\ cnt.cur = cnt.last
  /\ NextNode
  /\ UNCHANGED <<link, pool, objs, libs, ars, rd, cnt>>

-----------------------------------------------------------------------------
Init ==
  /\ link \in Links
  /\ pool = [n \in Names |-> AL!NoInfo]
  /\ objs = <<>>
  /\ libs = <<>>
  /\ ars = [a \in Archives |-> [status |-> <<>>, members |-> {}]]
  /\ at = [mode |-> "normalize", node |-> 1, input |-> 1]
  /\ rd = [ar |-> None, idx |-> 1, again |-> FALSE]
  /\ cnt = [cur |-> 0, last |-> 0, nonAr |-> 0]

Next ==
  \/ SkipDecided \/ IncludeSibling \/ PassSymbol \/ IncludeSymbol
  \/ IncludeNextMember \/ ScanAgain
  \/ NormalizeObject \/ NormalizeShared \/ NormalizeArchive
  \/ ArchiveNormalized \/ LeaveNode \/ EnterGroup
  \/ GroupObject \/ GroupShared \/ GroupArchive
  \/ GroupArchiveRead \/ Rescan \/ RescanArchive \/ LeaveGroup

\* One thread runs the loops.
Spec == Init /\ [][Next]_vars /\ WF_vars(Next)

-----------------------------------------------------------------------------
(* Links that the theorems are about: the code counts wrong in others.     *)

\* A whole archive has members of its own, each listed once: what is read of
\* it is not read by a second mention.
WholeApart ==
  \A l \in Links : \A a \in l.whole :
    /\ \A i, j \in 1..Len(Members[a]) : Members[a][i] = Members[a][j] => i = j
    /\ \A c \in Archives : AL!MembersOf(a) \cap AL!MembersOf(c) # {} => a = c

\* readGroup notices the members that a scan extracts.  It would not, without
\* an object in the group, for what a shared object behind an archive needs,
\* nor when the members of a whole archive drop out of the second count.
GroupsCounted ==
  \A l \in Links : \A i \in 1..Len(l.cmd) :
    LET inputs == l.cmd[i].inputs
        scanned == {j \in 1..Len(inputs) : inputs[j] \in Archives \ l.whole}
    IN  l.cmd[i].group =>
          /\ \/ \E j \in 1..Len(inputs) : Kind[inputs[j]] = "object"
             \/ \A j \in scanned, k \in 1..Len(inputs) :
                  Kind[inputs[k]] = "shared" => k < j
          /\ \/ \A j \in 1..Len(inputs) : inputs[j] \notin l.whole
             \/ \A j, k \in scanned : j = k

-----------------------------------------------------------------------------
(* Properties                                                              *)

TypeOK ==
  /\ pool \in [Names -> AL!Info \cup {AL!NoInfo}]
  /\ objs \in Seq(MemberFiles \cup DOMAIN Kind)
  /\ libs \in Seq(DOMAIN Kind)
  /\ ars \in [Archives -> [status : Seq({"Unknown", "Include", "Exclude"}),
                           members : SUBSET MemberFiles]]
  /\ \A a \in Archives : ars[a].members \subseteq AL!MembersOf(a)
  /\ at \in [mode : {"normalize", "group", "rescan"},
             node : 1..(Len(link.cmd) + 1), input : Nat \ {0}]
  /\ rd \in [ar : Archives \cup {None}, idx : Nat \ {0}, again : BOOLEAN]
  /\ cnt \in [cur : Nat, last : Nat, nonAr : Nat]

\* The scans, the statuses that are remembered between them and the counters
\* of readGroup amount to this: members are read when and only when needed,
\* and no archive or group is left while one of its members is needed.
ImplementsArchiveLinking == AL!Spec

\* A decision about a map entry is never revised, so it must not become
\* stale: an excluded name stays defined, and of an included one the member
\* has been read.
DecisionsHold ==
  \A a \in Archives : \A k \in 1..Len(ars[a].status) :
    /\ ars[a].status[k] = "Exclude" => ~AL!IsUndef(Armap(a)[k].name)
    /\ ars[a].status[k] = "Include" => Armap(a)[k].file \in ars[a].members

\* No file is read twice, although an archive may be scanned many times, by
\* several symbols, and stand on the command line more than once.
NoFileTwice ==
  \A i, j \in 1..Len(objs) : objs[i] = objs[j] => i = j

\* The statuses GNUArchiveReader keeps over its scans stay right, and make it
\* read each member once.
MembersReadOnce ==
  /\ DecisionsHold
  /\ NoFileTwice

\* The loops of normalize, readGroup and readArchive come to an end.
AllInputsRead == <>(at.node > Len(link.cmd))
=============================================================================
