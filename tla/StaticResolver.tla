--------------------------- MODULE StaticResolver ---------------------------
(***************************************************************************)
(* The attributes of a name (ResolveInfo), the rules by which one symbol   *)
(* overrides another, and the state table and actions of the resolver      *)
(* (StaticResolver::resolve).                                              *)
(***************************************************************************)
EXTENDS Integers

Default == 0
Internal == 1
Hidden == 2
Protected == 3

Descs == {"Undefined", "Define", "Common"}
Bindings == {"Global", "Weak", "Absolute"}

Info == [desc : Descs, bind : Bindings, dyn : BOOLEAN, vis : 0..3,
         size : Nat, inDyn : BOOLEAN]

\* The entry of a name that is not in the table.
NoInfo == [desc |-> "None"]

\* Mutant: the new symbol's visibility simply replaces the old one.
OverrideVisibilityAlways(old, new) == [old EXCEPT !.vis = new.vis]

\* ELF visibility 0 is the default; otherwise smaller is more constrained.
OverrideVisibility(old, new) ==
  IF new.vis # Default /\ (old.vis = Default \/ old.vis > new.vis)
  THEN [old EXCEPT !.vis = new.vis]
  ELSE old

\* The attributes of RESOLVE_MASK without the visibility; InDyn lies outside.
OverrideAttributes(old, new) ==
  [old EXCEPT !.desc = new.desc, !.bind = new.bind, !.dyn = new.dyn]

Override(old, new) ==
  OverrideVisibility([OverrideAttributes(old, new) EXCEPT !.size = new.size],
                     new)

-----------------------------------------------------------------------------
(* StaticResolver                                                          *)

Undefs == {"U", "w_U", "d_U", "wd_U"}
Commons == {"C", "w_C", "Cs"}
Ordinates == Undefs \cup {"D", "w_D", "d_D", "wd_D"} \cup Commons

Ordinate(info) ==
  CASE info.bind = "Absolute" -> IF info.dyn THEN "d_D" ELSE "D"
    [] info.bind # "Absolute" /\ info.desc = "Common" ->
         IF info.dyn THEN "Cs" ELSE IF info.bind = "Weak" THEN "w_C" ELSE "C"
    [] info.bind # "Absolute" /\ info.desc = "Define" ->
         IF info.dyn THEN IF info.bind = "Weak" THEN "wd_D" ELSE "d_D"
                     ELSE IF info.bind = "Weak" THEN "w_D" ELSE "D"
    [] OTHER ->
         IF info.dyn THEN IF info.bind = "Weak" THEN "wd_U" ELSE "d_U"
                     ELSE IF info.bind = "Weak" THEN "w_U" ELSE "U"

(* The state table: what a new symbol of some ordinate does to an old one. *)

RowOfU(old) ==
  IF old \in {"w_U", "d_U", "wd_U"} THEN "UND"
  ELSE IF old \in {"d_D", "wd_D"} THEN "DUND" ELSE "NOACT"

RowOfWeakU(old) ==
  IF old = "wd_U" THEN "WEAK"
  ELSE IF old \in {"d_D", "wd_D"} THEN "DUNDW" ELSE "NOACT"

RowOfD(old) ==
  IF old = "D" THEN "MDEF" ELSE IF old \in Commons THEN "CDEF" ELSE "DEF"

\* Mutant: a weak definition overrides everything but a strong one.
RowOfWeakDOverCommon(old) == IF old = "D" THEN "NOACT" ELSE "DEFW"

RowOfWeakD(old) ==
  IF old \in Undefs \cup {"d_D", "wd_D"} THEN "DEFW" ELSE "NOACT"

RowOfDynD(old) ==
  IF old \in {"U", "w_U"} THEN "MDEFD"
  ELSE IF old \in {"d_U", "wd_U"} THEN "DEFD" ELSE "NOACT"

RowOfWeakDynD(old) ==
  IF old \in {"U", "w_U"} THEN "MDEFWD"
  ELSE IF old \in {"d_U", "wd_U"} THEN "DEFWD" ELSE "NOACT"

RowOfC(old) ==
  IF old = "D" THEN "CREF"
  ELSE IF old = "C" THEN "MBIG"
  ELSE IF old = "Cs" THEN "BIG" ELSE "COM"

RowOfWeakC(old) ==
  IF old \in Undefs THEN "COM" ELSE "NOACT"

RowOfDynC(old) ==
  IF old \in Undefs THEN "COM"
  ELSE IF old \in Commons THEN "MBIG" ELSE "NOACT"

LinkAction(new, old) ==
  CASE new = "U"              -> RowOfU(old)
    [] new = "w_U"            -> RowOfWeakU(old)
    [] new \in {"d_U", "wd_U"} -> "NOACT"
    [] new = "D"              -> RowOfD(old)
    [] new = "w_D"            -> RowOfWeakD(old)
    [] new = "d_D"            -> RowOfDynD(old)
    [] new = "wd_D"           -> RowOfWeakDynD(old)
    [] new = "C"              -> RowOfC(old)
    [] new = "w_C"            -> RowOfWeakC(old)
    [] OTHER                  -> RowOfDynC(old)

Overriding == {"UND", "WEAK", "DEF", "DEFW", "DEFD", "DEFWD", "COM", "CDEF"}

Larger(old, new) ==
  IF old.size < new.size THEN [old EXCEPT !.size = new.size] ELSE old

\* Two absolute definitions are one when they agree on the value.
SameAbsolute(old, new, outValue, value) ==
  old.bind = "Absolute" /\ new.bind = "Absolute" /\ outValue = value

\* StaticResolver::resolve: the resolved entry, whether the new symbol
\* overrides the old one, and whether an error is reported.  outValue is the
\* value of the old symbol's output symbol, read only by MDEF.
Resolve(old, new, outValue, value) ==
  LET act  == LinkAction(Ordinate(new), Ordinate(old))
      same == SameAbsolute(old, new, outValue, value)
      Result(info, overriden, error) ==
        [info |-> info, overriden |-> overriden, error |-> error]
  IN CASE act \in Overriding ->
            Result(Override(old, new), TRUE, FALSE)
       [] act \in {"MDEFD", "MDEFWD"} ->
            Result([Override(old, new) EXCEPT !.bind = old.bind], TRUE, FALSE)
       [] act = "NOACT" ->
            Result(OverrideVisibility(old, new), FALSE, FALSE)
       [] act \in {"DUND", "DUNDW"} ->
            Result([OverrideVisibility(old, new) EXCEPT !.dyn = TRUE],
                   FALSE, FALSE)
       [] act = "CREF" ->
            Result(old, FALSE, FALSE)
       [] act = "BIG" ->
            Result(OverrideVisibility(
                     OverrideAttributes(Larger(old, new), new), new),
                   TRUE, FALSE)
       [] act = "MBIG" ->
            Result(OverrideVisibility(Larger(old, new), new), FALSE, FALSE)
       [] OTHER -> \* MDEF
            IF same THEN Result(Override(old, new), TRUE, FALSE)
                    ELSE Result(old, FALSE, TRUE)
=============================================================================
