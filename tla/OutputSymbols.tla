---------------------------- MODULE OutputSymbols ----------------------------
(***************************************************************************)
(* From the resolved name pool to the emitted symbol tables: the passes of *)
(* Linker::resolve, Linker::layout and Linker::emit that fill, change,     *)
(* measure and write the output symbol table (module SymbolCategory).      *)
(*                                                                         *)
(* Every pass is a stage, entered when the one before has handled all its  *)
(* symbols.  Inside a stage the order is left open: it is the order of     *)
(* hash tables, of sections or of relocations.                             *)
(***************************************************************************)
EXTENDS StaticResolver, Sequences, FiniteSets

CONSTANTS
  Configs,       (* options and symbols of the link: a set of records      *)
  InputNames,    (* symbols that the inputs may hold                       *)
  Inputs,        (* what they may be: a set of [info, frag]                *)
  Files,         (* the input symbols of type STT_FILE                     *)
  Droppable,     (* symbols whose section the strippers may discard        *)
  SectionSyms,   (* symbols of the output sections                         *)
  StubOf         (* the stub symbol that each long branch goes through     *)

(* The fields of a configuration c:                                        *)
(*   codeGen       "Exec", "DynObj" or "Object"                            *)
(*   codeStatic    LinkerConfig::isCodeStatic: no shared object is linked  *)
(*   defineCommon  -d: allocate common symbols in a partial link           *)
(*   strip         "Keep", "StripLocals" or "StripAll"                     *)
(*   standard      standard and target symbols: name -> ResolveInfo        *)
(*   script        symbol assignments: name -> kind of assignment          *)

LinkerNames(c) == DOMAIN c.standard \cup DOMAIN c.script

Branches == DOMAIN StubOf
Stubs == {StubOf[b] : b \in Branches}
Names == InputNames \cup SectionSyms \cup Stubs
           \cup (UNION {LinkerNames(c) : c \in Configs})

\* The entries of the pool: local symbols have one as well.
Infos == [desc : Descs, bind : Bindings \cup {"Local"}, dyn : BOOLEAN,
          vis : 0..3, size : Nat, inDyn : BOOLEAN]

Frags == {"None", "Null", "kept", "dropped", "linker"}

\* An output symbol has an entry; an absolute symbol is defined and a local one
\* is not common; the standard symbols of all the targets are definitions, and
\* not weak ones.
ASSUME OutputAssumption ==
  /\ Files \subseteq InputNames
  /\ \A i \in Inputs : /\ i.info \in Infos \cup {NoInfo} /\ i.frag \in Frags
                       /\ i.info = NoInfo => i.frag = "None"
                       /\ i.info # NoInfo /\ i.info.bind = "Absolute"
                            => i.info.desc = "Define"
                       /\ i.info # NoInfo /\ i.info.bind = "Local"
                            => i.info.desc # "Common"
  /\ \A c \in Configs :
       /\ c.codeGen \in {"Exec", "DynObj", "Object"}
       /\ c.codeStatic \in BOOLEAN
       /\ c.defineCommon \in BOOLEAN
       /\ c.strip \in {"Keep", "StripLocals", "StripAll"}
       /\ \A n \in DOMAIN c.standard :
            /\ c.standard[n] \in Infos
            /\ c.standard[n].desc = "Define" /\ ~c.standard[n].dyn
            /\ c.standard[n].bind # "Weak"
       /\ (SectionSyms \cup Stubs) \cap (InputNames \cup LinkerNames(c)) = {}
  /\ SectionSyms \cap Stubs = {}

VARIABLES
  cfg,    (* the configuration of this link                                *)
  info,   (* NamePool: the ResolveInfo of each name                        *)
  frag,   (* fragment of the output symbol; "None": no output symbol       *)
  table,  (* the output symbol table: see SymbolCategory                   *)
  home,   (* history: the range a symbol was last put into                 *)
  stage,
  todo,   (* what the pass has not handled yet                             *)
  sizes   (* [symtab, shInfo, dynsym]: sizeNamePools and doRelax           *)

vars == <<cfg, info, frag, table, home, stage, todo, sizes>>

Allocates == cfg.codeGen # "Object" \/ cfg.defineCommon
HasDynsym == cfg.codeGen # "Object" /\ ~cfg.codeStatic

(* ResolveInfo *)

Category(n, i) ==
  CASE n \in Files -> 0
    [] n \notin Files /\ i.bind = "Local" -> 1
    [] n \notin Files /\ i.bind # "Local" /\ i.desc = "Common" -> 3
    [] OTHER -> IF i.vis \in {Default, Protected} THEN 4 ELSE 5

CategoryOf(n) == IF info[n] = NoInfo THEN 0 ELSE Category(n, info[n])

SC == INSTANCE SymbolCategory WITH
        Symbols <- Names,
        cat <- [n \in Names |-> CategoryOf(n)],
        phase <- IF stage = "changing" THEN "changing" ELSE "open"

InTable(n) == SC!InTable(table, n)

ShouldForceLocal(i) ==
  /\ cfg.codeGen # "Object"
  /\ i.vis \in {Hidden, Internal}
  /\ i.bind \in {"Global", "Weak"}
  /\ i.desc \in {"Define", "Common"}

-----------------------------------------------------------------------------
(* The three ways a symbol gets its place; the new ResolveInfo is i.       *)

AddSymbol(n, i) ==
  /\ table' = SC!AddTo(table, n, Category(n, i))
  /\ home' = [home EXCEPT ![n] = Category(n, i)]

ForceLocal(n) ==
  /\ table' = SC!AddTo(table, n, SC!Local)
  /\ home' = [home EXCEPT ![n] = SC!Local]

\* Mutant: a symbol keeps the place it has.
ArrangeNothing(n, i) == UNCHANGED <<table, home>>

\* The guard is the assertion of SymbolCategory::arrange.
Arrange(n, i) ==
  /\ CategoryOf(n) # Category(n, i) => InTable(n)
  /\ table' = SC!Arrange(table, n, CategoryOf(n), Category(n, i))
  /\ home' = IF CategoryOf(n) = Category(n, i) THEN home
             ELSE [home EXCEPT ![n] = Category(n, i)]

-----------------------------------------------------------------------------
(* IRBuilder::AddSymbol for the symbols the linker defines                 *)

Overridden(n, new) ==
  [info[n] EXCEPT !.desc = new.desc, !.bind = new.bind, !.dyn = FALSE,
                  !.vis = new.vis, !.size = new.size]

\* AddSymbol<Force, Unresolve>
ForceUnresolve(n, new) ==
  LET i == IF info[n] = NoInfo THEN new ELSE Overridden(n, new)
  IN  /\ info' = [info EXCEPT ![n] = i]
      /\ frag' = [frag EXCEPT ![n] = "linker"]
      /\ IF info[n] = NoInfo /\ ShouldForceLocal(new) THEN ForceLocal(n)
         ELSE IF frag[n] = "None" THEN AddSymbol(n, i)
         ELSE Arrange(n, i)

\* Mutant: a shared object's symbol is no reference.
ReferredUndefined(n) == info[n] # NoInfo /\ info[n].desc = "Undefined"

\* Only an undefined symbol or one of a shared object is a reference.
Referred(n) ==
  /\ info[n] # NoInfo
  /\ info[n].desc = "Undefined" \/ info[n].dyn

\* AddSymbol<AsReferred, Unresolve>
AsReferredUnresolve(n, new) ==
  IF Referred(n)
  THEN /\ info' = [info EXCEPT ![n] = Overridden(n, new)]
       /\ frag' = [frag EXCEPT ![n] = "linker"]
       /\ IF frag[n] = "None" THEN AddSymbol(n, Overridden(n, new))
          ELSE Arrange(n, Overridden(n, new))
  ELSE UNCHANGED <<info, frag, table, home>>

\* AddSymbol<Force, Resolve>, of a name that is referred to
ForceResolve(n, new) ==
  LET r == Resolve(info[n], new, 0, 0)
  IN  /\ info' = [info EXCEPT ![n] = r.info]
      /\ frag' = [frag EXCEPT ![n] = IF r.overriden \/ @ = "None"
                                     THEN "linker" ELSE @]
      /\ IF ShouldForceLocal(r.info) THEN ForceLocal(n)
         ELSE IF frag[n] # "None" THEN Arrange(n, r.info)
         ELSE AddSymbol(n, r.info)

\* AddSymbol<AsReferred, Resolve>
AsReferredResolve(n, new) ==
  IF Referred(n) THEN ForceResolve(n, new)
  ELSE UNCHANGED <<info, frag, table, home>>

-----------------------------------------------------------------------------
(* The passes                                                              *)

Enter(s, work) ==
  /\ stage' = s
  /\ todo' = work
  /\ UNCHANGED cfg

Handle(s, n) ==
  /\ stage = s
  /\ n \in todo
  /\ todo' = todo \ {n}
  /\ UNCHANGED <<cfg, stage>>

\* Local symbols are no names of the pool: the linker finds none of them.  A
\* link is static (Linker::link) when no shared object is among the inputs.
InputOf(n) ==
  {i \in Inputs :
     /\ i.frag = "dropped" => n \in Droppable
     /\ cfg.codeStatic /\ i.info # NoInfo => ~i.info.inDyn
     /\ IF i.info = NoInfo \/ i.info.bind # "Local" THEN n \notin Files
        ELSE n \notin LinkerNames(cfg)}

Init ==
  /\ cfg \in Configs
  /\ \E inputs \in {f \in [InputNames -> Inputs] :
                      \A n \in InputNames : f[n] \in InputOf(n)} :
       /\ info = [n \in Names |-> IF n \in InputNames THEN inputs[n].info
                                  ELSE NoInfo]
       /\ frag = [n \in Names |-> IF n \in InputNames THEN inputs[n].frag
                                  ELSE "None"]
  /\ table = SC!EmptyTable
  /\ home = [n \in Names |-> CategoryOf(n)]
  /\ stage = "adding"
  /\ todo = InputNames
  /\ sizes = [symtab |-> 0, shInfo |-> 0, dynsym |-> 0]

\* ObjectLinker::addSymbolToOutput: not the symbols of discarded sections.
AddSymbolToOutput(n) ==
  /\ Handle("adding", n)
  /\ IF frag[n] \in {"None", "dropped"} THEN UNCHANGED <<table, home>>
     ELSE IF ShouldForceLocal(info[n]) THEN ForceLocal(n)
     ELSE AddSymbol(n, info[n])
  /\ UNCHANGED <<info, frag, sizes>>

\* GNULDBackend::allocateCommonSymbols gives the common symbols of the Local
\* and Common ranges a fragment in .bss or .tbss.
AllocateCommonSymbols ==
  LET commons == {n \in Names : /\ info[n] # NoInfo /\ info[n].desc = "Common"
                                /\ InTable(n)
                                /\ home[n] \in {SC!Local, SC!Common}}
  IN  /\ stage = "adding" /\ todo = {} /\ Allocates
      /\ info' = [n \in Names |-> IF n \in commons
                                  THEN [info[n] EXCEPT !.desc = "Define"]
                                  ELSE info[n]]
      /\ frag' = [n \in Names |-> IF n \in commons THEN "kept" ELSE frag[n]]
      /\ Enter("changing", {})
      /\ UNCHANGED <<table, home, sizes>>

KeepCommonSymbols ==
  /\ stage = "adding" /\ todo = {} /\ ~Allocates
  /\ Enter("standard", {})
  /\ UNCHANGED <<info, frag, table, home, sizes>>

ChangeCommonToGlobal ==
  /\ UNCHANGED <<cfg, info, frag, stage, todo, sizes>>
  /\ SC!ChangeCommonToGlobal

CommonsChanged ==
  /\ stage = "changing"
  /\ table.begin[SC!Common] = table.end[SC!Common]
  /\ Enter("standard", IF cfg.codeGen = "Object" THEN {} ELSE DOMAIN cfg.standard)
  /\ UNCHANGED <<info, frag, table, home, sizes>>

\* initStandardSymbols and initTargetSymbols
DefineStandard(n) ==
  /\ Handle("standard", n)
  /\ AsReferredResolve(n, cfg.standard[n])
  /\ UNCHANGED sizes

StandardDefined ==
  /\ stage = "standard" /\ todo = {}
  /\ Enter("script", DOMAIN cfg.script)
  /\ UNCHANGED <<info, frag, table, home, sizes>>

\* ObjectLinker::addScriptSymbols: an assignment keeps the visibility of the
\* name unless it is a HIDDEN one.
AssignedInfo(n) ==
  [desc |-> "Define", bind |-> "Absolute", dyn |-> FALSE,
   vis |-> IF cfg.script[n] \in {"HIDDEN", "PROVIDE_HIDDEN"} THEN Hidden
           ELSE IF info[n] = NoInfo THEN Default ELSE info[n].vis,
   size |-> IF info[n] = NoInfo THEN 0 ELSE info[n].size, inDyn |-> FALSE]

AssignScriptSymbol(n) ==
  /\ Handle("script", n)
  /\ IF cfg.script[n] \in {"DEFAULT", "HIDDEN"}
     THEN ForceUnresolve(n, AssignedInfo(n))
     ELSE AsReferredUnresolve(n, AssignedInfo(n))
  /\ UNCHANGED sizes

ScriptAssigned ==
  /\ stage = "script" /\ todo = {}
  /\ Enter("scanning", {})
  /\ UNCHANGED <<info, frag, table, home, sizes>>

\* OutputRelocSection::addSymbolToDynSym, for the local symbol of a dynamic
\* TLS relocation.
AddSymbolToDynSym(n) ==
  /\ stage = "scanning" /\ cfg.codeGen # "Object"
  /\ InTable(n) /\ n \notin Files /\ info[n].bind = "Local"
  /\ table' = SC!Arrange(table, n, CategoryOf(n), SC!LocalDyn)
  /\ home' = [home EXCEPT ![n] = SC!LocalDyn]
  /\ UNCHANGED <<cfg, info, frag, stage, todo, sizes>>

RelocationsScanned ==
  /\ stage = "scanning"
  /\ Enter("prelayout", SectionSyms)
  /\ UNCHANGED <<info, frag, table, home, sizes>>

LocalInfo == [desc |-> "Define", bind |-> "Local", dyn |-> FALSE,
              vis |-> Default, size |-> 0, inDyn |-> FALSE]

\* SectionSymbolSet::finalize, for the output sections that are not empty
FinalizeSectionSymbol(n) ==
  /\ Handle("prelayout", n)
  /\ info' = [info EXCEPT ![n] = LocalInfo]
  /\ frag' = [frag EXCEPT ![n] = "kept"]
  /\ AddSymbol(n, LocalInfo)
  /\ UNCHANGED sizes

\* Mutant: the borders are swapped.
NumOfSwapped(c) == table.begin[c] - table.end[c]

NumOf(c) == table.end[c] - table.begin[c]

\* GNULDBackend::sizeNamePools
SizeNamePools ==
  /\ stage = "prelayout" /\ todo = {}
  /\ sizes' =
       [symtab |-> IF cfg.strip = "StripAll" THEN 0 ELSE 1 + Len(table.syms),
        shInfo |-> IF cfg.strip = "StripAll" THEN 0
                   ELSE 1 + NumOf(SC!File) + NumOf(SC!Local)
                          + NumOf(SC!LocalDyn),
        dynsym |-> IF HasDynsym
                   THEN 1 + table.end[SC!Dynamic] - table.begin[SC!LocalDyn]
                   ELSE 0]
  /\ Enter("relaxing", IF cfg.codeGen = "Object" THEN {} ELSE Branches)
  /\ UNCHANGED <<info, frag, table, home>>

\* Mutant: the tables do not grow with the stubs.
GrowNothing == sizes' = sizes

\* doRelax: the tables grow once per branch that goes through a stub.
GrowForStub ==
  sizes' = IF cfg.strip = "Keep"
           THEN [sizes EXCEPT !.symtab = @ + 1, !.shInfo = @ + 1] ELSE sizes

\* StubFactory::create: the island has the stub already, or gets a new one
\* whose symbol Stub::applyFixup adds.
RelaxBranch(b) ==
  /\ Handle("relaxing", b)
  /\ IF info[StubOf[b]] = NoInfo THEN ForceUnresolve(StubOf[b], LocalInfo)
     ELSE UNCHANGED <<info, frag, table, home>>
  /\ GrowForStub

EmitNamePools ==
  /\ stage = "relaxing" /\ todo = {}
  /\ Enter("emitted", {})
  /\ UNCHANGED <<info, frag, table, home, sizes>>

Next ==
  \/ \E n \in Names : \/ AddSymbolToOutput(n)
                      \/ DefineStandard(n)
                      \/ AssignScriptSymbol(n)
                      \/ AddSymbolToDynSym(n)
                      \/ FinalizeSectionSymbol(n)
  \/ \E b \in Branches : RelaxBranch(b)
  \/ AllocateCommonSymbols \/ KeepCommonSymbols
  \/ ChangeCommonToGlobal \/ CommonsChanged
  \/ StandardDefined \/ ScriptAssigned \/ RelocationsScanned
  \/ SizeNamePools \/ EmitNamePools

Spec == Init /\ [][Next]_vars

-----------------------------------------------------------------------------
(* What is emitted: emitRegNamePools and emitDynNamePools                  *)

\* GNULDBackend::getSymbolInfo
Bind(n) ==
  IF \/ info[n].bind = "Local"
     \/ cfg.codeGen # "Object" /\ info[n].vis \in {Hidden, Internal}
  THEN "STB_LOCAL"
  ELSE IF info[n].bind = "Weak" THEN "STB_WEAK" ELSE "STB_GLOBAL"

Symtab == table.syms

Dynsym == SubSeq(table.syms, table.begin[SC!LocalDyn] + 1,
                             table.end[SC!Dynamic])

-----------------------------------------------------------------------------
(* Links that the theorems are about: the code breaks its tables in others. *)

\* What the entry of an input may be once commons have been allocated.
Allocated(i) ==
  {i.info} \cup (IF i.info.desc = "Common" THEN {[i.info EXCEPT !.desc = "Define"]}
                 ELSE {})

\* No standard symbol makes a reference hidden: AddSymbol<Force, Resolve> would
\* add it, as a local symbol, to the table that it is in.
StandardStaysVisible ==
  \A c \in Configs, i \in Inputs :
    i.info # NoInfo /\ i.frag # "None" =>
      \A n \in DOMAIN c.standard, old \in Allocated(i) :
        old.desc = "Undefined" \/ old.dyn =>
          LET r == Resolve(old, c.standard[n], 0, 0).info
          IN  ~ (/\ r.vis \in {Hidden, Internal}
                 /\ r.bind \in {"Global", "Weak"}
                 /\ r.desc \in {"Define", "Common"})

\* The linker does not define a symbol whose section it may discard:
\* SymbolCategory::arrange looks for symbols that have been added.
LinkerNamesStay == \A c \in Configs : Droppable \cap LinkerNames(c) = {}

\* doRelax counts one symbol for each branch with a stub, none under -x.
StubsCounted ==
  /\ \A b, d \in Branches : StubOf[b] = StubOf[d] => b = d
  /\ Branches # {} => \A c \in Configs : c.strip # "StripLocals"

-----------------------------------------------------------------------------
(* Properties                                                              *)

Emitted == stage = "emitted" /\ cfg.strip # "StripAll"

TypeOK ==
  /\ info \in [Names -> Infos \cup {NoInfo}]
  /\ frag \in [Names -> Frags]
  /\ table.syms \in Seq(Names)
  /\ home \in [Names -> SC!Cats]
  /\ sizes \in [symtab : Nat, shInfo : Nat, dynsym : Nat]

\* The output symbol table behaves as SymbolCategory says: in particular no
\* pass adds a symbol that is in the table already.
ImplementsSymbolCategory == SC!Spec

\* From the time the pool has been walked, the symbols of the table are those
\* with an output symbol in a section that is kept.
TableHoldsKeptSymbols ==
  stage \notin {"adding", "changing"} =>
    \A n \in Names :
      InTable(n) <=> info[n] # NoInfo /\ frag[n] \notin {"None", "dropped"}

\* No common symbol is left once they have been allocated, in whatever range
\* its visibility has put it.
CommonsAllocated ==
  (Allocates /\ stage \notin {"adding", "changing"}) =>
    \A n \in Names : InTable(n) => info[n].desc # "Common"

\* What is emitted fits what sizeNamePools and doRelax have reserved: .symtab
\* has room, and .dynsym, which the stubs are not in, has no entry to spare.
TablesFit ==
  Emitted =>
    /\ 1 + Len(Symtab) =< sizes.symtab
    /\ HasDynsym => 1 + Len(Dynsym) = sizes.dynsym

\* getSymbolInfo writes every hidden symbol as a local one, but only those that
\* shouldForceLocal accepts were put among the locals: not the undefined ones,
\* nor the absolute ones, which a script assigned or an input defined.
LocalByVisibility(n) ==
  /\ cfg.codeGen # "Object"
  /\ info[n].vis \in {Hidden, Internal}
  /\ info[n].desc = "Undefined" \/ info[n].bind = "Absolute"

\* sh_info separates the local entries from the others, as ELF has it: all
\* below it are local, and none from it on.  The exception are the hidden
\* symbols of LocalByVisibility, for which "one greater than the symbol table
\* index of the last local symbol" (GNULDBackend.cpp:853) is not what
\* sizeNamePools counts.
LocalsBeforeShInfo ==
  Emitted => \A p \in 1 .. Len(Symtab) :
    /\ p < sizes.shInfo => Bind(Symtab[p]) = "STB_LOCAL"
    /\ p >= sizes.shInfo /\ Bind(Symtab[p]) = "STB_LOCAL"
         => LocalByVisibility(Symtab[p])

\* .dynsym has every symbol that another module may bind to or must provide,
\* the visible global ones, whatever defined or redefined them last; and a
\* global symbol of hidden visibility is never in it.
DynsymIsVisible ==
  stage = "emitted" /\ HasDynsym =>
    \A n \in Names :
      (InTable(n) /\ info[n].bind # "Local") =>
        (info[n].vis \in {Default, Protected}
           <=> \E p \in 1 .. Len(Dynsym) : Dynsym[p] = n)

\* What the passes that size the tables assume and what the writers emit
\* agree, although symbols change category, section and visibility between.
TablesAgree ==
  /\ TableHoldsKeptSymbols
  /\ TablesFit
  /\ LocalsBeforeShInfo
  /\ DynsymIsVisible

\* A name that the linker defines on demand is its own once it is referred to:
\* not left undefined, and not left to a shared object.
LinkerDefinedResolved ==
  (cfg.codeGen # "Object" /\ stage \in {"scanning", "emitted"}) =>
    \A n \in LinkerNames(cfg) :
      info[n] # NoInfo => info[n].desc # "Undefined" /\ ~info[n].dyn

\* Before relocations are scanned every common symbol and every symbol the
\* linker provides has a definition of its own.
DefinitionsSettled ==
  /\ CommonsAllocated
  /\ LinkerDefinedResolved

\* The emitted tables hold the symbols they have room for, and those symbols
\* are settled.
OutputTablesRight ==
  /\ TablesAgree
  /\ DefinitionsSettled
=============================================================================
