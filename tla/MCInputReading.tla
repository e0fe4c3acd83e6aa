---------------------------- MODULE MCInputReading ----------------------------
(* Small instances of InputReading: an object, a shared library, and the   *)
(* archives a1, a2 and a3; a3 is a1 given a second time.                   *)
EXTENDS InputReading

CONSTANTS o, d, a1, a2, a3, m1, m2, m3, p, q, r

NamesDef == {p, q, r}
OrderDef == <<p, q, r>>
KindDef == [i \in {o, d, a1, a2, a3} |->
  IF i = o THEN "object" ELSE IF i = d THEN "shared" ELSE "archive"]
MembersDef == [a \in {a1, a2, a3} |-> IF a = a2 THEN <<m3>> ELSE <<m1, m2>>]

Syms(P, Q, R) == [n \in NamesDef |-> IF n = p THEN P ELSE IF n = q THEN Q ELSE R]

One(i) == [group |-> FALSE, inputs |-> <<i>>]
Group(s) == [group |-> TRUE, inputs |-> s]

Refs == {"none", "ref", "weakref"}

\* m1 defines p, m2 defines q and m3 defines r; all may also refer to the
\* others, and m3 may define q as well.
AllSyms(objects, shared) ==
  {[f \in {o, d, m1, m2, m3} |->
      CASE f = o -> so [] f = d -> sd
        [] f = m1 -> s1 [] f = m2 -> s2 [] f = m3 -> s3] :
     so \in objects, sd \in shared,
     s1 \in {Syms("def", x, y) : x \in {"none", "ref"}, y \in Refs},
     s2 \in {Syms(x, y, z) : x \in {"none", "ref"}, y \in {"def", "weakdef"},
                             z \in {"none", "ref"}},
     s3 \in {Syms(x, y, "def") : x \in Refs, y \in {"none", "ref", "weakdef"}}}

\* The symbol map: the definitions of the members in their order.
MapOf(files, s) ==
  LET width == Len(OrderDef)
      pairs == [k \in 1..(Len(files) * width) |->
                  [file |-> files[((k - 1) \div width) + 1],
                   name |-> OrderDef[((k - 1) % width) + 1]]]
      defined(e) == s[e.file][e.name] \in {"def", "weakdef"}
  IN  SelectSeq(pairs, defined)

LinkWith(cmds, wholes, syms) ==
  {[cmd |-> c, whole |-> w, syms |-> s,
    map |-> [a \in {a1, a2, a3} |-> MapOf(MembersDef[a], s)]] :
     c \in cmds, w \in wholes, s \in syms}

Mains == {Syms("ref", "weakref", "none"), Syms("weakref", "none", "ref"),
          Syms("def", "ref", "none")}

PassLinks ==
  LinkWith({<<One(o), Group(<<a1, a2>>)>>,
            <<Group(<<a2, o, a1>>), One(a3)>>,
            <<One(o), One(a1), One(a2), One(a3)>>},
           {{}}, AllSyms(Mains, {Syms("none", "none", "none")}))
  \cup
  LinkWith({<<One(d), One(o), One(a2), One(a1)>>, <<One(o), Group(<<d, a1, a2>>)>>},
           {{}, {a2}},
           AllSyms({Syms("weakref", "none", "ref")},
                   {Syms("def", "ref", "none"), Syms("weakref", "weakdef", "none")}))

ASSUME TheoremsApply == WholeApart /\ GroupsCounted
=============================================================================
