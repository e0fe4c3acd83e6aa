------------------------------- MODULE Fragments -------------------------------
(* The fragments a section of the output consists of, each placed behind the *)
(* one before it.                                                            *)
EXTENDS Integers, Sequences

(* An AlignFragment is as long as its offset requires.                       *)
FragmentSize(frag) == IF frag.k = "align" THEN (0 - frag.at) % frag.n ELSE frag.n
EndOfFragment(frag) == frag.at + FragmentSize(frag)

(* Every fragment is put behind the one before it.                           *)
Chain(frags, start) ==
    LET At[p \in DOMAIN frags] ==
            IF p = 1 THEN start ELSE EndOfFragment([frags[p - 1] EXCEPT !.at = At[p - 1]])
    IN  [p \in DOMAIN frags |-> [frags[p] EXCEPT !.at = At[p]]]
=============================================================================
