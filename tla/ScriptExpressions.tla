-------------------------- MODULE ScriptExpressions --------------------------
(* Expressions of linker scripts (lib/Script): a sequence of tokens in      *)
(* reverse Polish notation, evaluated with a stack of operands.             *)
(*                                                                          *)
(* A token is a tuple: <<"int", n>>, <<"sym", name>> (a symbol other than   *)
(* `.'), <<"dot">> (a `.' nothing has been substituted for), <<"of", k>>    *)
(* (the symbol `.' of assignment k), <<"desc", k>> (output description k),  *)
(* <<"sect", name>>, <<"frag", k, i>> (the first fragment of input i of     *)
(* description k) or <<operator>>.                                          *)
EXTENDS Integers, Sequences

LOCAL INSTANCE SequencesExt
LOCAL INSTANCE FiniteSetsExt

CONSTANTS
    Word,             \* 2^64 in the code: every value is kept modulo Word
    PageSize,         \* abiPageSize()
    CommonPageSize    \* commonPageSize()

ASSUME PageAssumption ==
    /\ Word \in Nat \ {0} /\ PageSize \in Nat \ {0} /\ CommonPageSize \in Nat \ {0}
    /\ Word % PageSize = 0 /\ PageSize % CommonPageSize = 0

Truth(b) == IF b THEN 1 ELSE 0

(* alignAddress: rounds up; the constraint is a power of two, or 0.         *)
Align(address, constraint) ==
    IF constraint = 0 THEN address
    ELSE ((((address + constraint - 1) \div constraint) * constraint) % Word)

(* The bits two values have in common, in one of them, in one only.         *)
Bitwise(Keep(_, _), x, y) ==
    LET bits == {i \in 0..30 : 2^i < Word /\ Keep((x \div 2^i) % 2 = 1, (y \div 2^i) % 2 = 1)}
    IN  FoldSet(LAMBDA i, sum : sum + 2^i, 0, bits)

(* NullaryOp.cpp; headers is sectionStartOffset() at the time.              *)
Nullary(op, headers) ==
    CASE op = "SIZEOF_HEADERS" -> headers
      [] op = "MAXPAGESIZE"    -> PageSize
      [] op = "COMMONPAGESIZE" -> CommonPageSize

(* UnaryOp.cpp, the operators on values.                                    *)
Unary(op, x) ==
    CASE op = "UNARY_PLUS"       -> x
      [] op = "UNARY_MINUS"      -> (0 - x) % Word
      [] op = "LOGICAL_NOT"      -> Truth(x = 0)
      [] op = "BITWISE_NOT"      -> Word - 1 - x
      [] op = "DATA_SEGMENT_END" -> x

(* UnaryOp.cpp, the operators on sections.                                  *)
OfSection(op, section) ==
    CASE op = "ADDR"    -> section.addr
      [] op = "SIZEOF"  -> section.size
      [] op = "ALIGNOF" -> section.align

(* BinaryOp.cpp.                                                            *)
Binary(op, x, y) ==
    CASE op = "MUL" -> (x * y) % Word
      [] op = "DIV" -> x \div y
      [] op = "MOD" -> x % y
      [] op = "ADD" -> (x + y) % Word
      [] op = "SUB" -> (x - y) % Word
      [] op = "LSHIFT" -> (x * 2^y) % Word
      [] op = "RSHIFT" -> x \div 2^y
      [] op = "LT" -> Truth(x < y)
      [] op = "LE" -> Truth(x <= y)
      [] op = "GT" -> Truth(x > y)
      [] op = "GE" -> Truth(x >= y)
      [] op = "EQ" -> Truth(x = y)
      [] op = "NE" -> Truth(x # y)
      [] op = "BITWISE_AND" -> Bitwise(LAMBDA a, b : a /\ b, x, y)
      [] op = "BITWISE_XOR" -> Bitwise(LAMBDA a, b : a # b, x, y)
      [] op = "BITWISE_OR"  -> Bitwise(LAMBDA a, b : a \/ b, x, y)
      [] op = "LOGICAL_AND" -> Truth(x # 0 /\ y # 0)
      [] op = "LOGICAL_OR"  -> Truth(x # 0 \/ y # 0)
      [] op = "ALIGN" -> Align(x, y)
      [] op = "DATA_SEGMENT_RELRO_END" -> Align((x + y) % Word, CommonPageSize)
      [] op = "MAX" -> IF x >= y THEN x ELSE y
      [] op = "MIN" -> IF x <= y THEN x ELSE y

(* SEGMENT_START(segment, default) looks the address up among those of the  *)
(* options -Ttext, -Tdata, -Tbss and --section-start.                       *)
SegmentStart(addressMap, name, default) ==
    LET key == CASE name = "text-segment" -> ".text"
                 [] name = "data-segment" -> ".data"
                 [] name = "bss-segment"  -> ".bss"
                 [] OTHER -> name
    IN  IF key \in DOMAIN addressMap THEN addressMap[key] ELSE default

(* DATA_SEGMENT_ALIGN(maxpagesize, commonpagesize): the position is aligned *)
(* before either form is computed from it.                                  *)
DataSegmentAlign(dot, maxPage, commonPage) ==
    LET aligned == Align(dot, maxPage)
        And(x, y) == Bitwise(LAMBDA a, b : a /\ b, x, y)
        form1 == (aligned + And(aligned, maxPage - 1)) % Word
        form2 == (aligned + And(aligned, (maxPage - commonPage) % Word)) % Word
    IN  IF form1 <= form2 THEN form1 ELSE form2

(* TernaryOp.cpp: both branches have been evaluated.                        *)
Ternary(op, x, y, z) ==
    CASE op = "TERNARY_IF" -> IF x # 0 THEN y ELSE z
      [] op = "DATA_SEGMENT_ALIGN" -> DataSegmentAlign(x, y, z)

NullaryOps == {"SIZEOF_HEADERS", "MAXPAGESIZE", "COMMONPAGESIZE"}
SectionOps == {"ADDR", "SIZEOF", "ALIGNOF"}
UnaryOps == {"UNARY_PLUS", "UNARY_MINUS", "LOGICAL_NOT", "BITWISE_NOT", "DATA_SEGMENT_END"}
TernaryOps == {"TERNARY_IF", "DATA_SEGMENT_ALIGN"}

(* RpnEvaluator::eval.  env answers for the state the operators read:       *)
(* env.values[k], the value of the symbol of assignment k; env.symbols, the *)
(* values of the symbols of the link; env.Desc and env.Named, the sections  *)
(* of the descriptions and of the module; env.frags, the addresses of the   *)
(* fragments; env.headers and env.addressMap.                               *)
Push(env, stack, token) ==
    LET kind == token[1]
        n == Len(stack)
        x == stack[n]
        Section(operand) == IF operand[1] = "desc" THEN env.descs[operand[2]]
                            ELSE env.named[operand[2]]
    IN  CASE kind = "int"  -> Append(stack, token)
          [] kind \in {"desc", "sect"} -> Append(stack, token)
          [] kind = "sym"  -> Append(stack, <<"int", env.symbols[token[2]]>>)
          [] kind = "dot"  -> Append(stack, <<"int", 0>>)
          [] kind = "of"   -> Append(stack, <<"int", env.values[token[2]]>>)
          [] kind = "frag" -> Append(stack, <<"int", env.frags[<<token[2], token[3]>>]>>)
          [] kind \in NullaryOps -> Append(stack, <<"int", Nullary(kind, env.headers)>>)
          [] kind \in UnaryOps   -> [stack EXCEPT ![n] = <<"int", Unary(kind, x[2])>>]
          [] kind \in SectionOps -> [stack EXCEPT ![n] = <<"int", OfSection(kind, Section(x))>>]
          [] kind = "SEGMENT_START" ->
                 Append(SubSeq(stack, 1, n - 2),
                        <<"int", SegmentStart(env.addressMap, stack[n - 1][2], x[2])>>)
          [] kind \in TernaryOps ->
                 Append(SubSeq(stack, 1, n - 3),
                        <<"int", Ternary(kind, stack[n - 2][2], stack[n - 1][2], x[2])>>)
          [] OTHER ->
                 Append(SubSeq(stack, 1, n - 2), <<"int", Binary(kind, stack[n - 1][2], x[2])>>)

Eval(env, expr) ==
    LET stack == FoldLeft(LAMBDA s, token : Push(env, s, token), <<>>, expr)
    IN  stack[Len(stack)][2]

(* RpnExpr::hasDot and buildHelperExpr; the substitution of a `.'.          *)
HasDot(expr) == \E i \in DOMAIN expr : expr[i] = <<"dot">>
EndOf(k) == <<<<"desc", k>>, <<"ADDR">>, <<"desc", k>>, <<"SIZEOF">>, <<"ADD">>>>
Substitute(expr, k) ==
    [i \in DOMAIN expr |-> IF expr[i] = <<"dot">> THEN <<"of", k>> ELSE expr[i]]
=============================================================================
