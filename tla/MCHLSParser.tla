----------------------------- MODULE MCHLSParser -----------------------------
(* Files for the parser: the repository's test, every file of up to three   *)
(* lines of one kind each, and the lines the documentation shows.           *)
EXTENDS HLSRun

L(ks) == [blank |-> FALSE, keys |-> ks]

\* test/test.ll
DotProductFile == <<
    L(<<"define", "int", "f", "int", "a[]", "int", "b[]", "int", "n">>),
    L(<<"c", "=", "0">>),
    BlankLine,
    L(<<"start:">>),
    L(<<"i", "=", "phi", "0", "0", "i_inc", "calc">>),
    L(<<"cl", "=", "phi", "c", "0", "cr", "calc">>),
    L(<<"cond", "=", "i", ">=", "n">>),
    L(<<"br", "cond", "ret", "calc">>),
    L(<<"calc:">>),
    L(<<"ai", "=", "load", "a", "i">>),
    L(<<"bi", "=", "load", "b", "i">>),
    L(<<"ci", "=", "ai", "*", "bi">>),
    L(<<"cr", "=", "cl", "+", "ci">>),
    L(<<"i_inc", "=", "i", "+", "1">>),
    L(<<"br", "start">>),
    L(<<"ret:">>),
    L(<<"return", "cl">>)>>

Good == {BlankLine,
    L(<<"define", "int", "f", "int", "a[]">>), L(<<"define", "void", "f", "int", "n">>),
    L(<<"start:">>), L(<<"calc:">>),
    L(<<"i", "=", "phi", "0", "0">>), L(<<"c", "=", "i", ">=", "n">>), L(<<"br", "start">>)}
\* A define without a type, text after a label, a statement that stops short.
Bad == {L(<<"define", "f", "int", "n">>), L(<<"ret:", "c", "=", "0">>),
    L(<<>>), L(<<"c">>), L(<<"c", "=", "i", ">=">>), L(<<"c", "=", "i", "<=n">>),
    L(<<"store", "a", "i">>), L(<<"return">>)}

Short(lines) == UNION {[1..m -> lines] : m \in 0..3}
Longer == {<<d, l>> \o f : d \in Good, l \in {L(<<"start:">>), L(<<"define", "f", "int", "n">>)},
                           f \in [1..2 -> Good \cup {L(<<"c", "=", "i", "<=n">>)}]}

\* A phi of three pairs, loads that two statements read, a loop, one of two returns.
Whole(v, w) == <<
    L(<<"define", "int", "f", "int", "a[]", "int", "n">>),
    L(<<"c", "=", "1", "+", "n">>), L(<<"br", "c", "start", "calc">>),
    L(<<"start:">>), L(<<"ai", "=", "load", "a", v>>), L(<<"cl", "=", "ai", "*", v>>),
    L(<<"i", "=", "ai", "+", "cl">>), L(<<"br", "i", "calc", "ret">>),
    L(<<"calc:">>), L(<<"cr", "=", "phi", "c", "0", "i", "start", "1", "calc">>),
    L(<<"bi", "=", w, "+", "cr">>), L(<<"br", "calc">>),
    L(<<"ret:">>), L(<<"return", "cl">>)>>
WholeFiles == {Whole(v, w) : v \in {"c", "n", "0"}, w \in {"c", "i", "10"}}

MCFiles == {DotProductFile} \cup WholeFiles \cup Short(Good \cup Bad) \cup Longer

\* The lines of test/readme.md (6 to 35), with their own spacing.
DocumentedLines == {
    L(<<"int", "a[100]">>),
    L(<<"define", "int", "f", "int", "a[]", "int", "b[]", "int", "n">>),
    L(<<"store", "a", "10", "c">>), L(<<"c", "=", "a", "+", "b">>), L(<<"c", "=", "a", "-", "b">>),
    L(<<"cond", "=", "a", "==", "b">>), L(<<"cond", "=", "a", "<=b">>),
    L(<<"br", "start">>), L(<<"br", "cond", "start", "calc">>)}
DocumentedFiles == [1..3 -> DocumentedLines]

MCLabelOf == [w \in {"start:", "calc:", "ret:"} |->
    CASE w = "start:" -> "start" [] w = "calc:" -> "calc" [] w = "ret:" -> "ret"]
MCArrayOf == [w \in {"a[]", "b[]", "a[100]"} |-> IF w = "b[]" THEN "b" ELSE "a"]
MCStray == {"c", "store"}
MCPrograms == {}       \* the passes get what the parser leaves
MCJunk == {2}
MCIntMin == -128
MCNames == {"define", "int", "void", "f", "a[]", "b[]", "a[100]", "a", "b", "n", "c", "i", "cl",
    "cr", "ai", "bi", "ci", "i_inc", "cond", "start:", "calc:", "ret:", "start", "calc", "ret",
    "phi", "load", "store", "br", "return", "=", "+", "-", "*", ">=", "==", "<=b", "<=n",
    "0", "1", "10"}
=============================================================================
