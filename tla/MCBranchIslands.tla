---------------------------- MODULE MCBranchIslands ----------------------------
(* Small programs for BranchIslands: two code sections of a few functions,   *)
(* which branch to each other, to .plt and to an undefined symbol.           *)
EXTENDS BranchIslands, TLC

Data(id, n) == [k |-> "data", id |-> id, n |-> n, at |-> 0]
Pad(id, n) == [k |-> "align", id |-> id, n |-> n, at |-> 0]
Sym(name, object) == [name |-> <<name>>, object |-> object]
At(frag, at) == [frag |-> frag, at |-> at, plt |-> 0]

Text == {<<Data(1, 14), Pad(2, 4), Data(3, 12), Data(4, 16), Pad(5, 8), Data(6, 12), Data(7, 10)>>,
         <<Data(1, 8), Data(3, 10), Pad(2, 4), Data(4, 8), Data(6, 16), Data(7, 16)>>}
Init1 == <<Data(8, 12), Pad(9, 4), Data(10, 16)>>

(* f and g at the ends of the first section, t and h in Thumb code.          *)
Names == Sym("f", 1) :> At(1, 0) @@ Sym("t", 1) :> At(4, 5) @@ Sym("g", 2) :> At(7, 4)
         @@ Sym("h", 2) :> At(10, 1) @@ Sym("p", 0) :> [frag |-> 0, at |-> 0, plt |-> 8]
         @@ Sym("u", 0) :> At(0, 0)

B(frag, at, kind, symbol) == [frag |-> frag, at |-> at, kind |-> kind, symbol |-> symbol, addend |-> 0]
Pool == {B(1, 2, "THM_CALL", Sym("g", 2)), B(1, 6, "THM_JUMP24", Sym("g", 2)), B(1, 0, "CALL", Sym("h", 2)),
         B(3, 2, "JUMP24", Sym("t", 1)), B(4, 8, "THM_CALL", Sym("h", 2)), B(4, 2, "THM_JUMP24", Sym("f", 1)),
         B(6, 8, "THM_CALL", Sym("f", 1)), B(7, 6, "CALL", Sym("p", 0)), B(7, 2, "THM_CALL", Sym("f", 1)),
         B(8, 0, "THM_CALL", Sym("f", 1)), B(10, 4, "JUMP24", Sym("u", 0)), B(8, 4, "THM_JUMP24", Sym("t", 1))}

Written(texts, pool, size) == {[sections |-> <<text, Init1>>, symbols |-> Names, branches |-> written] :
                                   text \in texts, written \in [1..size -> pool]}
Three == Written(Text, Pool, 3)

(* More branches than the last island of the first section has room for.     *)
Crowd == {B(1, 2, "THM_CALL", Sym("g", 2)), B(7, 6, "THM_CALL", Sym("f", 1)), B(7, 2, "THM_CALL", Sym("u", 0)),
          B(7, 0, "THM_CALL", Sym("p", 0)), B(6, 2, "THM_CALL", Sym("f", 1))}
Crowded == Written({CHOOSE text \in Text : Len(text) = 7}, Crowd, 4)

Usual == Three \cup Crowded

\* The hypotheses of the theorems hold of these programs.
ASSUME TheoremsApply == \A program \in Programs : OwnNames(program) /\ PaddingInReach(program)
=============================================================================
