--------------------------- MODULE DynamicLinkage ---------------------------
(***************************************************************************)
(* What GNULDBackend decides about a reference to a symbol: whether it may *)
(* be preempted at load time, needs an entry of the PLT, a dynamic         *)
(* relocation or a copy relocation, or has its final value at link time.   *)
(*                                                                         *)
(* o is the output of the link:                                            *)
(*   codeGen    "Exec", "DynObj" or "Binary"; -shared and -pie both are    *)
(*              "DynObj"                                                   *)
(*   pie, bsymbolic, nocopyreloc, noUndefined: the options                 *)
(*   libs       whether a shared object is linked                          *)
(* y is the ResolveInfo of a symbol.                                       *)
(***************************************************************************)

Outputs ==
  {o \in [codeGen : {"Exec", "DynObj", "Binary"}, pie : BOOLEAN, libs : BOOLEAN,
          bsymbolic : BOOLEAN, nocopyreloc : BOOLEAN, noUndefined : BOOLEAN] :
     o.pie => o.codeGen = "DynObj"}

SymbolInfos ==
  [desc : {"Undefined", "Define"}, dyn : BOOLEAN,
   bind : {"Global", "Weak", "Local", "Absolute"},
   type : {"NoType", "Object", "Function", "IndirectFunc"},
   vis : {"Default", "Protected", "Hidden"}, empty : BOOLEAN]

Undef(y) == y.desc = "Undefined"

(* Linker::normalize, 5: the code position. *)
CodePosition(o) ==
  IF o.codeGen = "DynObj" \/ o.pie THEN "Independent"
  ELSE IF ~o.libs THEN "StaticDependent" ELSE "DynamicDependent"

isCodeIndep(o) == CodePosition(o) = "Independent"
isCodeStatic(o) == CodePosition(o) = "StaticDependent"
isNoUndefined(o) == o.noUndefined \/ (isCodeStatic(o) /\ o.codeGen = "Exec")

isExecutable(o) == o.codeGen \in {"Exec", "Binary"}

isDynamicSymbol(o, y) == y.bind # "Local" /\ y.vis \in {"Default", "Protected"}

isSymbolPreemptible(o, y) ==
  /\ y.vis = "Default"
  /\ ~o.pie
  /\ o.codeGen = "DynObj"
  /\ ~o.bsymbolic
  /\ ~(y.desc = "Define" /\ y.bind = "Local")

\* Another link unit may, or has to, provide the symbol.
Foreign(o, y) == y.dyn \/ Undef(y) \/ isSymbolPreemptible(o, y)

symbolNeedsDynRel(o, y, hasPLT, isAbsReloc) ==
  /\ ~(Undef(y) /\ ~y.dyn /\ isExecutable(o))
  /\ ~(y.bind = "Absolute" /\ isCodeStatic(o))
  /\ \/ isCodeIndep(o) /\ isAbsReloc
     \/ /\ ~(hasPLT /\ y.type = "Function")
        /\ ~(hasPLT /\ ~isCodeIndep(o))
        /\ Foreign(o, y)

symbolNeedsPLT(o, y) ==
  /\ ~(Undef(y) /\ ~y.dyn /\ o.codeGen # "DynObj")
  /\ \/ y.type = "IndirectFunc"
     \/ y.type = "Function" /\ ~isCodeStatic(o) /\ ~o.pie /\ Foreign(o, y)

\* Mutant: the value of an undefined symbol is never known.
symbolFinalValueIsKnown_Never(o, y) ==
  /\ ~isCodeIndep(o)
  /\ isExecutable(o)
  /\ ~y.dyn
  /\ ~Undef(y)

symbolFinalValueIsKnown(o, y) ==
  /\ ~isCodeIndep(o)
  /\ isExecutable(o)
  /\ ~y.dyn
  /\ Undef(y) => isCodeStatic(o)

symbolNeedsCopyReloc(o, y, writable) ==
  /\ ~isCodeIndep(o)
  /\ y.dyn
  /\ y.type # "Function"
  /\ ~y.empty
  /\ ~o.nocopyreloc
  /\ ~writable

\* Mutant: preemption is forgotten.
helper_use_relative_reloc_Defined(o, y) == ~y.dyn /\ ~Undef(y)

(* X86Relocator.cpp: helper_use_relative_reloc *)
helper_use_relative_reloc(o, y) == ~Foreign(o, y)

(* Relocator::issueUndefRef with the severity DiagnosticInfos gives it. *)
UndefinedIsError(o, y) ==
  /\ Undef(y) /\ ~y.dyn /\ y.bind # "Weak"
  /\ o.codeGen = "DynObj" => isNoUndefined(o)
=============================================================================
