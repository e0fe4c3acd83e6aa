------------------------- MODULE MCSymbolResolution -------------------------
(* Small instances of SymbolResolution.                                    *)
EXTENDS SymbolResolution

CONSTANTS bar, wrap_bar, o1, o2, d1, d2

WrapBar == [n \in Names |-> wrap_bar]

Plain(s) == s.vis = Default /\ s.bind = "Global"

\* Under --wrap=bar -u bar: every symbol of the wrapper from the objects and
\* the first library, a definition or common symbol of it from the second one,
\* and a symbol of bar from one object, whose reference becomes one to the
\* wrapper.  A symbol's size and value are equal, so that each takes two values,
\* and one of the two objects, which come in either order, has no protected ones and
\* only common symbols of size one.
WrapSymbols == {s \in Symbols : s.value = s.size}

WrapNext ==
  \/ AddUndefinedSymbols
  \/ \E i \in Objects, s \in WrapSymbols :
       (i = o2 => s.vis # Protected /\ (s.size = 0 \/ s.desc = "Common")) /\ AddSymbolFromObject(i, wrap_bar, s)
  \/ \E s \in WrapSymbols :
       Plain(s) /\ s.desc = "Undefined" /\ AddSymbolFromObject(o1, bar, s)
  \/ \E s \in WrapSymbols :
       s.vis = Default /\ AddSymbolFromDynObj(d1, wrap_bar, s)
  \/ \E s \in WrapSymbols :
       Plain(s) /\ s.desc # "Undefined" /\ AddSymbolFromDynObj(d2, wrap_bar, s)

WrapSpec == Init /\ [][WrapNext]_vars
=============================================================================
