-------------------------- MODULE SymbolResolution --------------------------
(***************************************************************************)
(* The name pool of MCLinker and the resolution of the symbols read from   *)
(* the inputs: NamePool::insertSymbol, StaticResolver::resolve, the        *)
(* ResolveInfo overriding rules, IRBuilder::AddSymbol for an Input and     *)
(* ObjectLinker::addUndefinedSymbols (the -u options).                     *)
(*                                                                         *)
(* Inputs are read one symbol at a time in an arbitrary order, which       *)
(* covers every order of the command line and of archive members.  Local   *)
(* symbols never enter the pool and indirect symbols are produced by no    *)
(* reader (ELFReaderIF::getSymDesc), so neither is modelled.               *)
(***************************************************************************)
EXTENDS StaticResolver, FiniteSets

CONSTANTS
  Names,         (* names of non-local symbols                             *)
  Objects,       (* relocatable inputs (also extracted archive members)    *)
  DynObjs,       (* shared objects                                         *)
  Sizes,         (* st_size of a symbol                                    *)
  Values,        (* st_value: offset, absolute value or common alignment   *)
  Visibilities,  (* st_other of the symbols that the inputs hold           *)
  NoExport,      (* inputs under --exclude-libs                            *)
  RenameMap,     (* --wrap, --portable: the new name of an undefined name  *)
  UndefSyms      (* the names given by -u                                  *)

Inputs == Objects \cup DynObjs

ASSUME ResolutionAssumption ==
  /\ Objects \cap DynObjs = {}
  /\ Sizes \subseteq Nat /\ 0 \in Sizes
  /\ Values \subseteq Nat /\ 0 \in Values
  /\ Visibilities \subseteq 0..3
  /\ NoExport \subseteq Objects
  /\ RenameMap \in [Names -> Names]
  /\ UndefSyms \subseteq Names
  /\ "-u" \notin Inputs /\ "Null" \notin Inputs

VARIABLES
  phase,    (* "options" before addUndefinedSymbols, then "reading"        *)
  pool,     (* NamePool: the ResolveInfo of each name                      *)
  outSym,   (* ResolveInfo::outSymbol of each name                         *)
  needed,   (* shared objects marked by Input::setNeeded                   *)
  errors,   (* names with a multiple definition diagnostic                 *)
  read,     (* history: the <<input, name>> pairs already read             *)
  given     (* history: what the inputs said of each name                  *)

vars == <<phase, pool, outSym, needed, errors, read, given>>

-----------------------------------------------------------------------------
(* Output symbols                                                          *)

\* An output symbol: the input its fragment lies in ("Null" for a null
\* fragment reference) and its value.
OutSymbols == [frag : Inputs \cup {"Null"}, value : Nat]
NoOut == [frag |-> "None"]

-----------------------------------------------------------------------------
(* What the inputs hold                                                    *)

\* The symbols that ELFReaderIF::getSymDesc and getSymBinding produce for the
\* bindings and section indices of the ELF standard: only a definition (SHN_ABS)
\* is absolute.  Left out are NoneBinding (ELFReaderIf.cpp:91), that of an
\* STB_GNU_UNIQUE symbol, and NoneDesc (ELFReaderIf.cpp:70), that of a reserved
\* index such as SHN_XINDEX: the table has no row for either.
SymbolsOf(bindings, desc, sizes, values) ==
  [desc : {desc}, bind : bindings, vis : Visibilities,
   size : sizes, value : values]

\* Mutant: a reserved section index yields a symbol of no description.
SymbolsWithNoneDesc ==
  SymbolsOf({"Global", "Weak"}, "Undefined", {0}, {0})
    \cup SymbolsOf({"Global"}, "NoneDesc", {0}, {0})

Symbols ==
  SymbolsOf({"Global", "Weak"}, "Undefined", {0}, {0})
    \cup SymbolsOf(Bindings, "Define", Sizes, Values)
    \cup SymbolsOf({"Global", "Weak"}, "Common", Sizes, Values)

\* --wrap and --portable rename references only.
Renamed(m, s) == IF s.desc = "Undefined" THEN RenameMap[m] ELSE m

\* An input that must not export hides its definitions.
FixedVisibility(i, s) ==
  IF i \in NoExport /\ s.desc # "Undefined" /\ s.vis \in {Default, Protected}
  THEN Hidden
  ELSE s.vis

\* A protected symbol of a shared object is a normal one outside of it.
SeenVisibility(i, s) ==
  IF i \in DynObjs /\ s.vis = Protected THEN Default ELSE FixedVisibility(i, s)

NewInfo(i, s) ==
  [desc |-> s.desc, bind |-> s.bind, dyn |-> i \in DynObjs,
   vis |-> SeenVisibility(i, s), size |-> s.size, inDyn |-> FALSE]

NewOut(i, s) ==
  [frag |-> IF s.desc = "Define" /\ s.bind # "Absolute" THEN i ELSE "Null",
   value |-> s.value]

Contribution(i, s) ==
  [from |-> i, desc |-> s.desc, bind |-> s.bind,
   vis |-> SeenVisibility(i, s), size |-> s.size, value |-> s.value]

\* NamePool::insertSymbol
InsertSymbol(n, new, value) ==
  IF pool[n] = NoInfo
  THEN [info |-> new, existent |-> FALSE, overriden |-> TRUE, error |-> FALSE]
  ELSE LET out == IF outSym[n] = NoOut THEN 0 ELSE outSym[n].value
           r   == Resolve(pool[n], new, out, value)
       IN  [info |-> r.info, existent |-> TRUE, overriden |-> r.overriden,
            error |-> r.error]

-----------------------------------------------------------------------------
(* Actions                                                                 *)

\* ObjectLinker::addUndefinedSymbols: runs before any input is read, so the
\* names are new.
UndefInfo == [desc |-> "Undefined", bind |-> "Global", dyn |-> FALSE,
              vis |-> Default, size |-> 0, inDyn |-> FALSE]

UndefContribution == [from |-> "-u", desc |-> "Undefined", bind |-> "Global",
                      vis |-> Default, size |-> 0, value |-> 0]

AddUndefinedSymbols ==
  /\ phase = "options"
  /\ phase' = "reading"
  /\ pool' = [n \in Names |-> IF n \in UndefSyms THEN UndefInfo ELSE pool[n]]
  /\ outSym' = [n \in Names |-> IF n \in UndefSyms
                                THEN [frag |-> "Null", value |-> 0]
                                ELSE outSym[n]]
  /\ given' = [n \in Names |-> IF n \in UndefSyms
                               THEN {UndefContribution} ELSE given[n]]
  /\ UNCHANGED <<needed, errors, read>>

Record(i, m, s, n, info, error) ==
  /\ pool' = [pool EXCEPT ![n] = info]
  /\ errors' = IF error THEN errors \cup {n} ELSE errors
  /\ read' = read \cup {<<i, m>>}
  /\ given' = [given EXCEPT ![n] = @ \cup {Contribution(i, s)}]
  /\ UNCHANGED phase

\* Mutant: an overriding symbol leaves the output symbol alone.
AddSymbolFromObjectOnce(i, m, s) ==
  LET n == Renamed(m, s)
      r == InsertSymbol(n, NewInfo(i, s), s.value)
  IN  /\ phase = "reading"
      /\ <<i, m>> \notin read
      /\ Record(i, m, s, n, r.info, r.error)
      /\ outSym' = IF outSym[n] = NoOut
                   THEN [outSym EXCEPT ![n] = NewOut(i, s)]
                   ELSE outSym
      /\ UNCHANGED needed

AddSymbolFromObject(i, m, s) ==
  LET n == Renamed(m, s)
      r == InsertSymbol(n, NewInfo(i, s), s.value)
  IN  /\ phase = "reading"
      /\ <<i, m>> \notin read
      /\ Record(i, m, s, n, r.info, r.error)
      /\ outSym' = IF r.overriden \/ outSym[n] = NoOut
                   THEN [outSym EXCEPT ![n] = NewOut(i, s)]
                   ELSE outSym
      /\ UNCHANGED needed

AddSymbolFromDynObj(i, m, s) ==
  LET n == Renamed(m, s)
      r == InsertSymbol(n, NewInfo(i, s), s.value)
  IN  /\ phase = "reading"
      /\ <<i, m>> \notin read
      /\ s.vis \notin {Internal, Hidden}
      /\ Record(i, m, s, n, [r.info EXCEPT !.inDyn = TRUE], r.error)
      /\ needed' = IF r.overriden \/ ~r.existent
                   THEN needed \cup {i} ELSE needed
      /\ outSym' = IF r.existent THEN outSym ELSE [outSym EXCEPT ![n] = NoOut]

Init ==
  /\ phase = "options"
  /\ pool = [n \in Names |-> NoInfo]
  /\ outSym = [n \in Names |-> NoOut]
  /\ needed = {}
  /\ errors = {}
  /\ read = {}
  /\ given = [n \in Names |-> {}]

Next ==
  \/ AddUndefinedSymbols
  \/ \E i \in Objects, m \in Names, s \in Symbols : AddSymbolFromObject(i, m, s)
  \/ \E i \in DynObjs, m \in Names, s \in Symbols : AddSymbolFromDynObj(i, m, s)

Spec == Init /\ [][Next]_vars

-----------------------------------------------------------------------------
(* Properties                                                              *)

Contributions ==
  [from : Inputs \cup {"-u"}, desc : Descs, bind : Bindings, vis : 0..3,
   size : Nat, value : Nat]

\* Type correctness of the pool, the output symbols and the histories.
TypeOK ==
  /\ phase \in {"options", "reading"}
  /\ pool \in [Names -> Info \cup {NoInfo}]
  /\ outSym \in [Names -> OutSymbols \cup {NoOut}]
  /\ needed \subseteq DynObjs
  /\ errors \subseteq Names
  /\ read \subseteq Inputs \X Names
  /\ given \in [Names -> SUBSET Contributions]

IsRegular(c) == c.from \notin DynObjs

OrdinateOf(c) ==
  Ordinate([desc |-> c.desc, bind |-> c.bind, dyn |-> ~IsRegular(c)])

Rank(ord) == CASE ord = "D" -> 3 [] ord = "C" -> 2
               [] ord \in Undefs -> 0 [] OTHER -> 1

\* Whatever the order of the inputs, the pool holds a symbol of the highest
\* class that some input gave: a strong regular definition before a strong
\* common, that before the weak, shared and dynamic-common ones, and any of
\* them before a reference.
StrongestWins ==
  \A n \in Names : pool[n] # NoInfo =>
    /\ \E c \in given[n] : Rank(OrdinateOf(c)) = Rank(Ordinate(pool[n]))
    /\ \A c \in given[n] : Rank(OrdinateOf(c)) =< Rank(Ordinate(pool[n]))

\* A regular definition, even a weak one, is never replaced by or hidden
\* behind a shared library's definition, whichever was read first.
RegularBeatsShared ==
  \A n \in Names :
    ( /\ \E c \in given[n] : OrdinateOf(c) = "w_D"
      /\ \A c \in given[n] : OrdinateOf(c) \notin Commons )
    => /\ pool[n].desc = "Define"
       /\ ~pool[n].dyn

Conflict(c, d) ==
  /\ c # d
  /\ OrdinateOf(c) = "D" /\ OrdinateOf(d) = "D"
  /\ ~(c.bind = "Absolute" /\ d.bind = "Absolute" /\ c.value = d.value)

\* A multiple definition is diagnosed exactly when two inputs define the name
\* strongly and the two are not absolute symbols of one value.
DuplicatesReported ==
  \A n \in Names :
    n \in errors <=> \E c, d \in given[n] : Conflict(c, d)

\* A common symbol gets room for every strong common declaration.
CommonSizeCoversAll ==
  \A n \in Names : \A c \in given[n] :
    (pool[n] # NoInfo /\ Ordinate(pool[n]) = "C" /\ OrdinateOf(c) = "C")
    => c.size =< pool[n].size

\* The output symbol of a name that a regular input defines (or declares
\* common) carries the section and value of one input of the winning class;
\* an undefined or absolute one has no section.
OutputFollowsWinner ==
  \A n \in Names :
    (pool[n] # NoInfo /\ ~pool[n].dyn /\ outSym[n] # NoOut) =>
      \E c \in given[n] :
        /\ IsRegular(c)
        /\ c.desc = pool[n].desc
        /\ c.bind = pool[n].bind
        /\ c.value = outSym[n].value
        /\ outSym[n].frag = IF c.desc = "Define" /\ c.bind # "Absolute"
                            THEN c.from ELSE "Null"

\* A strong reference of a regular input is not forgotten: while the name is
\* undefined it stays a strong regular reference, which the relocator reports.
StrongReferenceKept ==
  \A n \in Names :
    ( /\ pool[n] # NoInfo /\ pool[n].desc = "Undefined"
      /\ \E c \in given[n] : OrdinateOf(c) = "U" )
    => Ordinate(pool[n]) = "U"

\* A definition taken from a shared object comes from one that is recorded as
\* needed (DT_NEEDED under --as-needed).
ProviderNeeded ==
  \A n \in Names :
    (pool[n] # NoInfo /\ pool[n].dyn /\ pool[n].desc # "Undefined") =>
      \E c \in given[n] : /\ c.from \in needed
                          /\ c.desc = pool[n].desc
                          /\ c.size =< pool[n].size

\* Whatever the order of the inputs, the symbol the pool has settled on beats
\* the shared objects, has room for every common declaration and remembers a
\* strong reference: what Resolver::resolve owes to each input.  And what
\* IRBuilder keeps beside the pool agrees with it: the output symbols follow
\* the winner, the library that provides it is needed, and the errors name
\* exactly the conflicts.
InputsSettled ==
  /\ RegularBeatsShared
  /\ CommonSizeCoversAll
  /\ StrongReferenceKept
  /\ OutputFollowsWinner
  /\ ProviderNeeded
  /\ DuplicatesReported

AtLeastAsStrict(new, old) == old = Default \/ (new # Default /\ new =< old)

\* No step relaxes the visibility of a resolved symbol.
VisibilityNeverRelaxed ==
  [][\A n \in Names : pool[n] # NoInfo =>
       AtLeastAsStrict(pool'[n].vis, pool[n].vis)]_vars
=============================================================================
