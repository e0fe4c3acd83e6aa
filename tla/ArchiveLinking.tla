---------------------------- MODULE ArchiveLinking ----------------------------
(***************************************************************************)
(* What reading the inputs promises, whatever the order of the scans:      *)
(* the nodes of the command line are read from left to right; a member of  *)
(* an archive is read only when a name that it defines is undefined and    *)
(* not weak, or under --whole-archive; and a node is left only when none   *)
(* of its archives has a member that is still needed.                      *)
(***************************************************************************)
EXTENDS StaticResolver, Sequences

CONSTANTS
  Names,    (* the names of non-local symbols                              *)
  Kind,     (* what each input is: "object", "shared", "archive", ...      *)
  Members   (* the members of each archive, a sequence of files            *)

VARIABLES
  link,     (* the command line and what the files hold                    *)
  node,     (* the node that is being read                                 *)
  pool,     (* NamePool: the ResolveInfo of each name                      *)
  files     (* the files that have been read                               *)

vars == <<link, node, pool, files>>

(* A link: cmd is a sequence of nodes [group, inputs]; whole holds the     *)
(* archives under --whole-archive; syms says of each file what it has for  *)
(* each name.                                                              *)

Kinds == {"none", "ref", "weakref", "def", "weakdef"}

NewInfo(k, dyn) ==
  [desc |-> IF k \in {"ref", "weakref"} THEN "Undefined" ELSE "Define",
   bind |-> IF k \in {"weakref", "weakdef"} THEN "Weak" ELSE "Global",
   dyn |-> dyn, vis |-> Default, size |-> 0, inDyn |-> FALSE]

\* The pool after the symbols of f have been read into p.
Entered(p, f, dyn) ==
  [n \in Names |->
     LET k == link.syms[f][n] IN
     IF k = "none" THEN p[n]
     ELSE IF p[n] = NoInfo THEN NewInfo(k, dyn)
     ELSE Resolve(p[n], NewInfo(k, dyn), 0, 0).info]

Defines(f, n) == link.syms[f][n] \in {"def", "weakdef"}

IsUndef(n) == pool[n] # NoInfo /\ pool[n].desc = "Undefined"
IsWeak(n) == pool[n] # NoInfo /\ pool[n].bind = "Weak"

Wanted(n) == IsUndef(n) /\ ~IsWeak(n)

InputsOf(i) == {link.cmd[i].inputs[j] : j \in 1..Len(link.cmd[i].inputs)}
MembersOf(a) == {Members[a][j] : j \in 1..Len(Members[a])}
ArchivesOf(i) == {a \in InputsOf(i) : Kind[a] = "archive"}

Needed(a) == {f \in MembersOf(a) \ files : \E n \in Names : Wanted(n) /\ Defines(f, n)}

-----------------------------------------------------------------------------
ReadFile(f) ==
  /\ node =< Len(link.cmd)
  /\ f \in InputsOf(node) \ files
  /\ Kind[f] \in {"object", "shared"}
  /\ pool' = Entered(pool, f, Kind[f] = "shared")
  /\ files' = files \cup {f}
  /\ UNCHANGED <<link, node>>

Extract(a, f) ==
  /\ node =< Len(link.cmd)
  /\ a \in ArchivesOf(node)
  /\ f \in IF a \in link.whole THEN MembersOf(a) \ files ELSE Needed(a)
  /\ pool' = Entered(pool, f, FALSE)
  /\ files' = files \cup {f}
  /\ UNCHANGED <<link, node>>

\* No archive of node i has a member that is needed and has not been read.
Closed(i) == \A a \in ArchivesOf(i) : Needed(a) = {}

Leave ==
  /\ node =< Len(link.cmd)
  /\ {f \in InputsOf(node) : Kind[f] \in {"object", "shared"}} \subseteq files
  /\ \A a \in ArchivesOf(node) \cap link.whole : MembersOf(a) \subseteq files
  /\ Closed(node)
  /\ node' = node + 1
  /\ UNCHANGED <<link, pool, files>>

Init ==
  /\ node = 1
  /\ pool = [n \in Names |-> NoInfo]
  /\ files = {}

Next ==
  \/ \E f \in InputsOf(node) : ReadFile(f)
  \/ \E a \in ArchivesOf(node) : \E f \in MembersOf(a) : Extract(a, f)
  \/ Leave

Spec == Init /\ [][Next]_vars
=============================================================================
