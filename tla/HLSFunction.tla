---------------------------- MODULE HLSFunction ----------------------------
(***************************************************************************)
(* The data the passes of the high-level synthesis tool share: class       *)
(* function with its basic blocks and statements (src/HLS/src/Basic.hpp).  *)
(* A name stands for the text of a variable, an operand, an array or a     *)
(* block label; NoVar is the empty _var of a store, br or return.          *)
(***************************************************************************)
EXTENDS Integers, Sequences, FiniteSets

CONSTANT Names        \* every name the program under synthesis mentions

NoVar == ""

ASSUME NamesAssumption == NoVar \notin Names

\* enum class OP_TYPE.
OpTypes == {"ASSIGN", "ADD", "SUB", "MUL", "DIV", "LOAD", "STORE", "BR",
            "LT", "GT", "LE", "GE", "EQ", "PHI", "RET"}

\* class statement, without the fields the scheduler computes; the parser gives
\* a store, a br and a return no variable, and every other statement one.
NoResult == {"STORE", "BR", "RET"}
Statement == [type: OpTypes \ NoResult, var: Names, ops: Seq(Names)]
             \cup [type: NoResult, var: {NoVar}, ops: Seq(Names)]

\* class basic_block, as the parser leaves it.
BasicBlock == [label: Names, statements: Seq(Statement)]

\* function::global_regs: variables with a register of their own, by position.
GlobalRegs == <<"c", "cl", "i", "cr", "i_inc">>

\* is_global_reg: the position of v in global_regs, or -1 (0-based as in the code).
is_global_reg(v) ==
    IF \E g \in 1..5 : GlobalRegs[g] = v
    THEN (CHOOSE g \in 1..5 : GlobalRegs[g] = v) - 1
    ELSE -1

\* std::max of two cycle numbers.
MaxOf(x, y) == IF x >= y THEN x ELSE y

\* What reg_map holds for a name that is no register: nothing (get_reg_map
\* answers -1), a block label, an array, or the length argument n.
Absent == -1
LabelCode == -2
ArrayCode == -3
LengthCode == -4
=============================================================================
