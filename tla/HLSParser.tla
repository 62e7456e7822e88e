------------------------------ MODULE HLSParser ------------------------------
(***************************************************************************)
(* parser::parse: a file is read line by line, one action per line.  A     *)
(* line is what strtok leaves of it, its keys; the separators, the spaces  *)
(* and the letters of a key are left out, but for the ':' that makes a     *)
(* label of a key and the '[' that makes an array of a parameter.          *)
(***************************************************************************)
EXTENDS HLSBlocks

CONSTANTS Files,      \* the files to parse: sequences of lines
          LabelOf,    \* for each key with a ':', the key without its last character
          ArrayOf,    \* for each key with a '[', what comes before it
          Stray       \* strings that may lie behind the keys in memory

ASSUME KeysAssumption ==
    /\ DOMAIN LabelOf \subseteq Names /\ \A w \in DOMAIN LabelOf : LabelOf[w] \in Names
    /\ DOMAIN ArrayOf \subseteq Names /\ \A w \in DOMAIN ArrayOf : ArrayOf[w] \in Names
    /\ Stray \subseteq Names
    /\ "0" \in Names          \* the label of the first block

\* A blank line has no words; one of separators only has words but no keys.
TextLine == [blank: {FALSE}, keys: Seq(Names)]
BlankLine == [blank |-> TRUE, keys |-> <<>>]

ASSUME FilesAssumption == Files \subseteq Seq(TextLine \cup {BlankLine})

VARIABLES
    file,             \* the lines of _filename
    ln,               \* the line that is read next
    where,            \* "parse", "returned", or "crashed" after undefined behaviour
    function_parse,   \* what parse_function said of the last define, 0 before one
    parse_error,
    bb,               \* the basic block being filled
    signature         \* function::_ret_type, _name and _params

parserVars == <<file, ln, where, function_parse, parse_error, bb, blocks, signature>>

Keys == file[ln].keys

ParserInit ==
    /\ file \in Files
    /\ ln = 1 /\ where = "parse" /\ function_parse = 0 /\ parse_error = 0
    /\ bb = [label |-> "0", statements |-> <<>>]
    /\ blocks = <<>>
    /\ signature \in [ret: {"INT", "VOID"}, name: {NoVar}, params: {<<>>}]

-----------------------------------------------------------------------------
(* parse_function, given the keys after "define".                          *)

\* The error it returns: the first key is no return type.
BadSignature(ks) == ks # <<>> /\ ks[1] \notin {"int", "void"}

\* "int" counts in front, "void" anywhere; the last one stays.
ReturnTypes(ks) == {c \in 1..Len(ks) : ks[c] = "void" \/ (c = 1 /\ ks[c] = "int")}

\* Faulty: the key itself.
ReturnTypeKey(ks) ==
    IF ReturnTypes(ks) = {} THEN signature.ret
    ELSE ks[CHOOSE c \in ReturnTypes(ks) : \A d \in ReturnTypes(ks) : d <= c]

ReturnType(ks) ==
    IF ReturnTypes(ks) = {} THEN signature.ret
    ELSE LET c == CHOOSE c \in ReturnTypes(ks) : \A d \in ReturnTypes(ks) : d <= c
         IN  IF ks[c] = "void" THEN "VOID" ELSE "INT"

FunctionName(ks) == IF Len(ks) >= 2 /\ ks[2] # "void" THEN ks[2] ELSE signature.name

\* Every second key from the fourth on names a parameter.
Param(w) == IF w \in DOMAIN ArrayOf THEN [name |-> ArrayOf[w], array |-> TRUE]
                                    ELSE [name |-> w, array |-> FALSE]
Parameters(ks) == {c \in 4..Len(ks) : c % 2 = 0 /\ ks[c] # "void"}
NewParams(ks) ==
    LET nth(p) == CHOOSE c \in Parameters(ks) : Cardinality({d \in Parameters(ks) : d <= c}) = p
    IN  [p \in 1..Cardinality(Parameters(ks)) |-> Param(ks[nth(p)])]

-----------------------------------------------------------------------------
(* parse_statement.                                                        *)

Operators == [w \in {"+", "-", "*", "/", ">", "<", "==", ">=", "<="} |->
    CASE w = "+" -> "ADD" [] w = "-" -> "SUB" [] w = "*" -> "MUL" [] w = "/" -> "DIV"
      [] w = ">" -> "GT" [] w = "<" -> "LT" [] w = "==" -> "EQ"
      [] w = ">=" -> "GE" [] w = "<=" -> "LE"]

Stmt(t, v, o) == [type |-> t, var |-> v, ops |-> o]
IsLabelLine(ks) == ks # <<>> /\ ks[1] \in DOMAIN LabelOf
IsAssignment(ks) == ks # <<>> /\ ~IsLabelLine(ks) /\ ks[1] \notin {"store", "br", "return"}
IsOperation(ks) == IsAssignment(ks) /\ Len(ks) > 3 /\ ks[3] \notin {"phi", "load"}

\* The line makes the code read past the keys it has.
NoKeys(ks) == ks = <<>>
ShortStore(ks) == ks # <<>> /\ ~IsLabelLine(ks) /\ ks[1] = "store" /\ Len(ks) < 4
ShortAssignment(ks) == IsAssignment(ks) /\ Len(ks) < 3
ShortOperation(ks) == IsOperation(ks) /\ ks[4] \in DOMAIN Operators /\ Len(ks) = 4
Undefined(ks) == NoKeys(ks) \/ ShortStore(ks) \/ ShortAssignment(ks) \/ ShortOperation(ks)

\* Faulty: comparisons are not looked for.
MalformedArithmetic(ks) == IsOperation(ks) /\ ks[4] \notin {"+", "-", "*", "/"}

\* The line is reported: an operation with an unknown operator.
Malformed(ks) == IsOperation(ks) /\ ks[4] \notin DOMAIN Operators

IsStatement(ks) == ~Undefined(ks) /\ ~Malformed(ks) /\ ~IsLabelLine(ks)

\* The statement of such a line; keys past the ones it needs are dropped.
StatementOf(ks) ==
    CASE ks[1] = "store" -> Stmt("STORE", NoVar, SubSeq(ks, 2, 4))
      [] ks[1] = "br" -> Stmt("BR", NoVar, Tail(ks))
      [] ks[1] = "return" -> Stmt("RET", NoVar, Tail(ks))
      [] IsAssignment(ks) /\ ks[3] = "phi" -> Stmt("PHI", ks[1], SubSeq(ks, 4, Len(ks)))
      [] IsAssignment(ks) /\ ks[3] = "load" -> Stmt("LOAD", ks[1], SubSeq(ks, 4, Len(ks)))
      [] IsAssignment(ks) /\ Len(ks) = 3 /\ ks[3] \notin {"phi", "load"} ->
             Stmt("ASSIGN", ks[1], <<ks[3]>>)
      [] IsOperation(ks) -> Stmt(Operators[ks[4]], ks[1], <<ks[3], ks[5]>>)

-----------------------------------------------------------------------------
(* The loop of parse.                                                      *)

Reading == where = "parse" /\ ln <= Len(file)
IsDefine == Keys # <<>> /\ Keys[1] = "define"
StatementLine == Reading /\ ~file[ln].blank /\ ~IsDefine /\ function_parse = 0

NextLine == ln' = ln + 1 /\ UNCHANGED <<file, where, parse_error>>

\* Behind the loop the last block is added, whether it ended well or not.
Return(error) ==
    /\ where' = "returned" /\ parse_error' = error
    /\ blocks' = Append(blocks, bb)
    /\ UNCHANGED <<file, ln, function_parse, bb, signature>>

SkipBlank ==
    /\ Reading /\ file[ln].blank
    /\ NextLine /\ UNCHANGED <<function_parse, bb, blocks, signature>>

\* Faulty: an error stays when another define follows.
DefineLineSticky ==
    /\ Reading /\ ~file[ln].blank /\ IsDefine
    /\ function_parse' = IF BadSignature(Tail(Keys)) THEN 1 ELSE function_parse
    /\ signature' = [ret |-> ReturnType(Tail(Keys)), name |-> FunctionName(Tail(Keys)),
                     params |-> signature.params \o NewParams(Tail(Keys))]
    /\ NextLine /\ UNCHANGED <<bb, blocks>>

\* A second define changes the same function, and adds to its parameters.
DefineLine ==
    /\ Reading /\ ~file[ln].blank /\ IsDefine
    /\ function_parse' = IF BadSignature(Tail(Keys)) THEN 1 ELSE 0
    /\ signature' = [ret |-> ReturnType(Tail(Keys)), name |-> FunctionName(Tail(Keys)),
                     params |-> signature.params \o NewParams(Tail(Keys))]
    /\ NextLine /\ UNCHANGED <<bb, blocks>>

AfterBadDefine ==
    /\ Reading /\ ~file[ln].blank /\ ~IsDefine /\ function_parse # 0
    /\ Return(1)

\* Faulty: the statements of the block that ends stay.
LabelLineKeep ==
    /\ StatementLine /\ IsLabelLine(Keys)
    /\ blocks' = Append(blocks, bb)
    /\ bb' = [bb EXCEPT !.label = LabelOf[Keys[1]]]
    /\ NextLine /\ UNCHANGED <<function_parse, signature>>

\* A label ends the block; what else is on its line is dropped.
LabelLine ==
    /\ StatementLine /\ IsLabelLine(Keys)
    /\ blocks' = Append(blocks, bb)
    /\ bb' = [label |-> LabelOf[Keys[1]], statements |-> <<>>]
    /\ NextLine /\ UNCHANGED <<function_parse, signature>>

AddStatement(s) ==
    /\ bb' = [bb EXCEPT !.statements = Append(@, s)]
    /\ NextLine /\ UNCHANGED <<function_parse, blocks, signature>>

ParseStatement == StatementLine /\ IsStatement(Keys) /\ AddStatement(StatementOf(Keys))

ReportStatement == StatementLine /\ Malformed(Keys) /\ Return(1)

\* keys[4] is whatever follows the vector.
ReadPastOperation == StatementLine /\ ShortOperation(Keys) /\
    \E w \in Stray : AddStatement(Stmt(Operators[Keys[4]], Keys[1], <<Keys[3], w>>))

\* keys[2] and keys[3] are, and equal no operator.
ReadPastAssignment == StatementLine /\ ShortAssignment(Keys) /\ Return(1)

\* A null string throws; what follows a vector may be no string.
Crash ==
    /\ StatementLine /\ Undefined(Keys)
    /\ where' = "crashed"
    /\ UNCHANGED <<file, ln, function_parse, parse_error, bb, blocks, signature>>

EndOfFile == where = "parse" /\ ln > Len(file) /\ Return(0)

Stopped == where # "parse" /\ UNCHANGED parserVars

ParserNext ==
    \/ SkipBlank \/ DefineLine \/ AfterBadDefine \/ LabelLine
    \/ ParseStatement \/ ReportStatement
    \/ ReadPastOperation \/ ReadPastAssignment \/ Crash
    \/ EndOfFile \/ Stopped

ParserSpec == ParserInit /\ [][ParserNext]_parserVars /\ WF_parserVars(ParserNext)

-----------------------------------------------------------------------------
(* Properties.                                                             *)

\* The types of the variables; what is handed to the passes is a sequence of
\* basic blocks, never empty once parse has returned.
ParserTypeOK ==
    /\ file \in Files /\ ln \in 1..(Len(file) + 1)
    /\ where \in {"parse", "returned", "crashed"}
    /\ function_parse \in {0, 1} /\ parse_error \in {0, 1}
    /\ bb \in BasicBlock /\ blocks \in Seq(BasicBlock)
    /\ where = "returned" => blocks # <<>>
    /\ signature.ret \in {"INT", "VOID"}
    /\ signature.name \in Names \cup {NoVar}
    /\ signature.params \in Seq([name: Names, array: BOOLEAN])

\* Lines with a part in the blocks, among the ones read so far.
Text(i) == ~file[i].blank /\ ~(Len(file[i].keys) > 0 /\ file[i].keys[1] = "define")
LabelLines == {i \in 1..(ln - 1) : Text(i) /\ IsLabelLine(file[i].keys)}
StatementLines == {i \in 1..(ln - 1) : Text(i) /\ ~IsLabelLine(file[i].keys)}
BlockOf(i) == 1 + Cardinality({j \in LabelLines : j <= i})
PlaceOf(i) == Cardinality({j \in StatementLines : j <= i /\ BlockOf(j) = BlockOf(i)})

\* Every statement line read is one statement, at its place in the block of the
\* nearest label before it, or in block "0"; there is nothing else in the
\* blocks.  The block being filled lives outside the function until a label, an
\* error or the end of the file adds a copy of it: none may be lost, added
\* twice or carried over.
BlocksDenoteFile ==
    LET parsed == IF where = "returned" THEN blocks ELSE Append(blocks, bb) IN
    /\ Len(parsed) = 1 + Cardinality(LabelLines)
    /\ parsed[1].label = "0"
    /\ \A i \in LabelLines : parsed[BlockOf(i)].label = LabelOf[file[i].keys[1]]
    /\ \A l \in 1..Len(parsed) :
         Len(parsed[l].statements) = Cardinality({i \in StatementLines : BlockOf(i) = l})
    /\ \A i \in StatementLines : ~Undefined(file[i].keys) =>
         parsed[BlockOf(i)].statements[PlaceOf(i)] = StatementOf(file[i].keys)

\* The last define before a line names no return type.
Defines(i) == {h \in 1..(i - 1) : ~Text(h) /\ ~file[h].blank}
BadlyDefined(i) ==
    \E h \in Defines(i) : /\ \A g \in Defines(i) : g <= h
                          /\ Len(file[h].keys) > 1 /\ file[h].keys[2] \notin {"int", "void"}
Offends(i) ==
    Text(i) /\ (BadlyDefined(i) \/ Malformed(file[i].keys) \/ ShortAssignment(file[i].keys))

\* parse answers 0 only if no line of the file offends, and otherwise it has
\* stopped at the first that does: run() synthesises nothing else, and what
\* get_current_line shows is the culprit.
ErrorIsFirstOffence ==
    where = "returned" =>
        IF parse_error = 0 THEN ln > Len(file) /\ \A i \in 1..Len(file) : ~Offends(i)
        ELSE Offends(ln) /\ \A i \in 1..(ln - 1) : ~Offends(i)

\* The forms of test/readme.md that the parser knows, with the keys they need.
InGrammar(line) ==
    LET ks == line.keys IN
    \/ line.blank
    \/ Len(ks) >= 3 /\ ks[1] = "define" /\ ks[2] \in {"int", "void"}
    \/ Len(ks) = 1 /\ ks[1] \in DOMAIN LabelOf
    \/ Len(ks) = 4 /\ ks[1] = "store"
    \/ Len(ks) \in {2, 4} /\ ks[1] = "br"
    \/ Len(ks) = 2 /\ ks[1] = "return"
    \/ /\ Len(ks) >= 3 /\ ks[1] \notin DOMAIN LabelOf \cup {"store", "br", "return"}
       /\ \/ Len(ks) = 3 /\ ks[3] \notin {"phi", "load"}
          \/ Len(ks) = 5 /\ ks[3] = "load"
          \/ Len(ks) > 3 /\ Len(ks) % 2 = 1 /\ ks[3] = "phi"
          \/ Len(ks) = 5 /\ ks[3] \notin {"phi", "load"}
             /\ ks[4] \in {"+", "-", "*", "/", "==", "<", ">", ">=", "<="}

\* A file of such lines is parsed to its end and accepted.
ParsesGrammar ==
    (\A i \in 1..Len(file) : InGrammar(file[i])) ~> (where = "returned" /\ parse_error = 0)

\* No file is refused: what the documentation promises of its own lines.
Accepted == where # "crashed" /\ parse_error = 0
=============================================================================
