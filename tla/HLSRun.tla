------------------------------- MODULE HLSRun -------------------------------
(***************************************************************************)
(* HLSHandler::run: the parser reads the file; if it answers 0 the passes  *)
(* of HLSGenerator work on the blocks it left and write top.v.             *)
(***************************************************************************)
EXTENDS HLSParser, HLSGenerator

\* What only the passes write; they leave the parser's variables alone.
passes == <<pc, b, si, oi, graph, issue, cursor, regs, result, text>>
runVars == <<parserVars, passes>>

RunInit == ParserInit /\ NothingBound /\ GenerateInit

Parse == ParserNext /\ UNCHANGED passes

\* Faulty: what parse answered is not looked at.
ParsedAnyhow == where = "returned"

Parsed == where = "returned" /\ parse_error = 0

Schedule == Parsed /\ Next /\ UNCHANGED <<parserVars, text>>

WriteTop == Parsed /\ Generate /\ UNCHANGED parserVars

RunNext == Parse \/ Schedule \/ WriteTop

\* run is sequential; a file that can be opened is.
RunSpec ==
    /\ RunInit /\ [][RunNext]_runVars
    /\ WF_runVars(Parse) /\ WF_runVars(Schedule) /\ WF_runVars(WriteTop)

-----------------------------------------------------------------------------
(* Properties.                                                             *)

\* No block is scheduled and top.v is not touched unless the whole file was
\* read and no line of it offends: the half-built function that parse leaves
\* behind an error goes no further.
NothingFromRefused ==
    pc # "enter" \/ b # 1 \/ design # "none" =>
        ln > Len(file) /\ \A i \in 1..Len(file) : ~Offends(i)

Lines == {i \in 1..Len(file) : Text(i)}

\* A file in the grammar with a branch or a return somewhere gets its design,
\* or run could not open top.v: nothing the parser accepts from the grammar
\* makes the passes hang, read a missing operand or write a counter of no bits.
GrammarIsSynthesised ==
    /\ \A i \in 1..Len(file) : InGrammar(file[i])
    /\ \E i \in Lines : file[i].keys[1] \in {"br", "return"}
    ~> design \in {"written", "unopened"}

AllStatements == UNION {{blocks[l].statements[i] : i \in 1..Len(blocks[l].statements)} :
                            l \in 1..Len(blocks)}
Written == {s \in AllStatements : s.type \in Emitted \cup {"BR"}}
Assigned == {s.var : s \in Written} \ {NoVar}
Scalars == {signature.params[c].name : c \in {c \in 1..Len(signature.params) :
                                                  ~signature.params[c].array}}

\* The names in a statement's expressions, the labels and the arrays.
ValuesIn(s) ==
    CASE s.type = "PHI" -> {s.ops[j] : j \in {j \in 1..Len(s.ops) : j % 2 = 1}}
      [] s.type = "BR" -> IF Len(s.ops) = 3 THEN {s.ops[1]} ELSE {}
      [] s.type = "LOAD" -> {s.ops[2]}
      [] OTHER -> {s.ops[j] : j \in 1..Len(s.ops)}
LabelsIn(s) ==
    CASE s.type = "PHI" -> {s.ops[j] : j \in {j \in 1..Len(s.ops) : j % 2 = 0}}
      [] OTHER -> {}
ArraysIn(s) == IF s.type = "LOAD" THEN {s.ops[1]} ELSE {}
ValuesWritten == Assigned \cup {return_name} \cup UNION {ValuesIn(s) : s \in Written}

\* Every value of the file is a number the generator writes, n as a port, or
\* the variable of a statement it writes; no name has two uses, and each block
\* defines its variables once, before their use, and no operand is repeated.
Plain ==
    /\ ValuesWritten \subseteq {"0", "1"} \cup (Scalars \cap {"n"}) \cup Assigned
    /\ Assigned \cap (Scalars \cup {"0", "1"}) = {}
    /\ \A s, t \in AllStatements : ((LabelsIn(s) \ {"0"}) \cup ArraysIn(s)) \cap (ValuesIn(t) \cup {t.var}) = {}
    /\ \A l \in 1..Len(blocks) : /\ StraightLine(blocks[l].statements)
                                 /\ RepeatFree(blocks[l].statements)

\* Everything top.v names in an expression is there: a variable is a register,
\* through all blocks and whatever the order of the hash table, and the rest
\* are numbers and n.
DesignCloses ==
    design = "written" /\ Plain =>
        \A v \in ValuesWritten : regMap[v] >= 0 <=> v \in Assigned
=============================================================================
