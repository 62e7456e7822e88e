---------------------------- MODULE MCHLSBinding ----------------------------
(* Small programs for TLC: the repository's dot product, blocks of the     *)
(* shapes the pass treats specially, and all blocks of three statements.   *)
EXTENDS HLSBinding

St(t, v, o) == [type |-> t, var |-> v, ops |-> o]
Block(l, ss) == [label |-> l, statements |-> ss]

\* test/test.ll
DotProduct == <<
    Block("0", <<St("ASSIGN", "c", <<"0">>)>>),
    Block("start", <<St("PHI", "i", <<"0", "0", "i_inc", "calc">>),
                     St("PHI", "cl", <<"c", "0", "cr", "calc">>),
                     St("GE", "cond", <<"i", "n">>),
                     St("BR", NoVar, <<"cond", "ret", "calc">>)>>),
    Block("calc", <<St("LOAD", "ai", <<"a", "i">>),
                    St("LOAD", "bi", <<"b", "i">>),
                    St("MUL", "ci", <<"ai", "bi">>),
                    St("ADD", "cr", <<"cl", "ci">>),
                    St("ADD", "i_inc", <<"i", "1">>),
                    St("BR", NoVar, <<"start">>)>>),
    Block("ret", <<St("RET", NoVar, <<"cl">>)>>)>>

One(ss) == <<Block("0", ss)>>
Br == <<St("BR", NoVar, <<"start">>)>>

\* A function that opens with a label; a block that loops on itself (the phi's
\* operand gets a point that its definition replaces); a cyclic phi pair; a
\* block without points; the same variable in two blocks.
ShapePrograms == {
    <<Block("0", <<>>), Block("start", <<St("PHI", "x", <<"0", "0", "y", "start">>),
        St("ADD", "y", <<"x", "1">>), St("GT", "z", <<"y", "n">>),
        St("BR", NoVar, <<"z", "start", "ret">>)>>), Block("ret", <<St("RET", NoVar, <<"x">>)>>)>>,
    One(<<St("PHI", "x", <<"y", "0", "1", "start">>), St("PHI", "y", <<"x", "0", "u", "start">>)>>),
    One(<<St("STORE", NoVar, <<"a", "u", "x">>), St("BR", NoVar, <<"0">>)>>),
    <<Block("0", <<St("ADD", "x", <<"u", "1">>), St("ADD", "y", <<"u", "n">>)>>),
      Block("start", <<St("SUB", "z", <<"y", "x">>), St("STORE", NoVar, <<"a", "z", "y">>),
                       St("RET", NoVar, <<"z">>)>>)>>}

Binary(v, os) == {St("ADD", v, <<o, p>>) : o \in os, p \in os}
Loads(v, os) == {St("LOAD", v, <<"a", o>>) : o \in os}
Constants(v) == {St("ASSIGN", v, <<"1">>)}

\* All blocks of three statements, later ones reading earlier ones.
Straight(x, y, z, end) ==
    {One(<<s1, s2, s3>> \o end) :
        s1 \in Constants(x) \cup {St("ADD", x, <<"u", "1">>), St("SUB", x, <<"w", "u">>)} \cup Loads(x, {"u"}),
        s2 \in Constants(y) \cup Binary(y, {"u", x}) \cup Loads(y, {x}),
        s3 \in Binary(z, {"u", "w", x, y}) \cup Loads(z, {"u", y})}

StraightPrograms ==
    Straight("x", "y", "z", <<>>)
    \cup Straight("x", "i", "z", <<St("BR", NoVar, <<"z", "start", "ret">>)>>)
    \cup Straight("ai", "y", "z", Br)

MCPrograms == {DotProduct} \cup ShapePrograms \cup StraightPrograms
MCNames == {"0", "1", "n", "a", "b", "u", "w", "c", "cl", "i", "cr", "i_inc", "ai", "bi", "ci",
            "cond", "x", "y", "z", "start", "calc", "ret"}
\* A stale int can look like a register of a global, or like none at all.
MCJunk == {2, -9}
MCIntMin == -128

\* One program that repeats an operand, as x * x does.
RepeatPrograms == {DotProduct} \cup
    {One(<<St("MUL", "x", <<"u", "u">>), St("ADD", "y", <<"x", "1">>),
           St("ADD", "z", <<"u", "y">>), St("RET", NoVar, <<"z">>)>>)}
\* The dot product, and programs with other variables in two blocks.
SharedPrograms == {DotProduct} \cup ShapePrograms
\* A return that reads a value after the last operation that reads it.
ReturnedAfterUse ==
    One(<<St("ADD", "x", <<"u", "1">>), St("ADD", "y", <<"x", "1">>),
          St("RET", NoVar, <<"x">>)>>)
\* Every three-statement block without a terminator, and one with.
LivePrograms == {DotProduct, ReturnedAfterUse} \cup Straight("x", "y", "z", <<>>)
=============================================================================
