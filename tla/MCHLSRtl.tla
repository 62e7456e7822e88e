------------------------------ MODULE MCHLSRtl ------------------------------
(* Programs for the hardware: the dot product and control-flow graphs whose *)
(* blocks end in their first cycle, the only ones the design leaves.        *)
EXTENDS HLSRtl

St(t, v, o) == [type |-> t, var |-> v, ops |-> o]
Block_(l, ss) == [label |-> l, statements |-> ss]
Br(l) == St("BR", NoVar, <<l>>)
BrIf(v, l, m) == St("BR", NoVar, <<v, l, m>>)
Ret(v) == St("RET", NoVar, <<v>>)

DotProduct == <<
    Block_("0", <<St("ASSIGN", "c", <<"0">>)>>),
    Block_("start", <<St("PHI", "i", <<"0", "0", "i_inc", "calc">>),
                      St("PHI", "cl", <<"c", "0", "cr", "calc">>),
                      St("GE", "cond", <<"i", "n">>),
                      BrIf("cond", "ret", "calc")>>),
    Block_("calc", <<St("LOAD", "ai", <<"a", "i">>),
                     St("LOAD", "bi", <<"b", "i">>),
                     St("MUL", "ci", <<"ai", "bi">>),
                     St("ADD", "cr", <<"cl", "ci">>),
                     St("ADD", "i_inc", <<"i", "1">>),
                     Br("start")>>),
    Block_("ret", <<Ret("cl")>>)>>

\* A condition computed before, in a register of its own, decides a branch.
Conditions == {St("ASSIGN", "c", <<"1">>), St("LOAD", "c", <<"a", "1">>),
               St("ADD", "c", <<"1", "1">>), St("MUL", "c", <<"0", "1">>),
               St("GT", "c", <<"0", "1">>), St("ASSIGN", "c", <<"n">>)}
Phis == {<<>>, <<St("PHI", "x", <<"1", "0", "0", "calc">>)>>,
         <<St("PHI", "cl", <<"0", "calc", "1", "start">>), St("ASSIGN", "z", <<"1">>)>>}

Diamonds ==
    {<<Block_("0", <<s, Br("start")>>),
       Block_("start", p \o <<BrIf("c", l, m)>>),
       Block_("calc", t \o <<Br(n)>>),
       Block_("ret", <<Ret("cl")>>)>> :
        s \in Conditions, p \in Phis, t \in Phis,
        l \in {"calc", "ret"}, m \in {"ret", "lost"}, n \in {"ret", "start"}}

\* A function that opens with a label, one that falls off its end, one of one block.
Edges ==
    {<<Block_("0", <<>>), Block_("start", <<Br("start")>>)>>,
     <<Block_("0", <<St("ASSIGN", "c", <<"1">>), Br("calc")>>), Block_("calc", <<St("ASSIGN", "x", <<"0">>)>>)>>,
     <<Block_("0", <<St("SUB", "x", <<"1", "n">>), Ret("x")>>)>>}

\* Values: registers, numbers and n through phis, sums, loads and comparisons.
Phi3 == St("PHI", "i", <<"1", "0", "c", "start", "cl", "ret">>)
Firsts == {St("LOAD", "cl", <<"a", "n">>), St("GT", "cl", <<"1", "0">>), St("GT", "cl", <<"n", "n">>),
           St("ASSIGN", "cl", <<"2">>), St("SUB", "cl", <<"1", "0">>)}
Seconds == {St("ADD", "cr", <<"n", "cl">>), St("MUL", "cr", <<"cl", "cl">>), St("LOAD", "cr", <<"a", "cl">>),
            St("LOAD", "cr", <<"b", "cl">>)}
Computations ==
    {<<Block_("0", <<s, St("ASSIGN", "c", <<"1">>), Br("calc")>>),
       Block_("calc", <<Phi3, t, BrIf("cl", "start", "ret")>>),
       Block_("start", <<St("ADD", "c", <<"cr", "i">>), BrIf("c", "calc", "ret")>>),
       Block_("ret", <<u, Ret(v)>>)>> :
        s \in Firsts, t \in Seconds, v \in {"cr", "i", "2"},
        u \in {St("LOAD", "x", <<"a", "n">>), St("ASSIGN", "z", <<"cr">>)}}

\* Statements of one cycle that depend on each other, share a register or a port,
\* overwrite what is returned or decides a branch; two branches, two returns, two
\* blocks of one name.
Crowded == {
    <<Block_("0", <<St("ADD", "x", <<"1", "1">>), Br("calc")>>),
      Block_("calc", <<St("ASSIGN", "z", <<"1">>), Ret("x")>>)>>,
    <<Block_("0", <<St("ASSIGN", "c", <<"0">>), Br("calc")>>),
      Block_("calc", <<BrIf("c", "calc", "0"), St("ASSIGN", "c", <<"1">>)>>)>>,
    <<Block_("0", <<St("ASSIGN", "c", <<"1">>), Br("start")>>),
      Block_("start", <<St("PHI", "i", <<"1", "0", "1", "start">>), St("ADD", "cr", <<"i", "1">>), BrIf("c", "start", "start")>>)>>,
    <<Block_("0", <<St("LOAD", "cl", <<"a", "0">>), St("LOAD", "cr", <<"a", "1">>), Br("0")>>)>>,
    <<Block_("0", <<St("ADD", "cl", <<"1", "1">>), St("ADD", "i", <<"1", "0">>), Br("calc")>>),
      Block_("calc", <<St("GT", "c", <<"cl", "i">>), Ret("cl")>>)>>,
    <<Block_("0", <<St("ADD", "x", <<"a", "b">>), St("ADD", "z", <<"a", "1">>), Br("0")>>)>>,
    <<Block_("0", <<St("ASSIGN", "c", <<"1">>), BrIf("1", "calc", "ret")>>),
      Block_("calc", <<Ret("c")>>), Block_("ret", <<Ret("0")>>)>>,
    <<Block_("0", <<Br("calc"), Br("ret")>>), Block_("calc", <<Br("ret")>>), Block_("ret", <<Br("start")>>),
      Block_("ret", <<Br("0")>>)>>}

\* Statements without the operands the generator reads; nothing that lasts a
\* cycle; a branch to nowhere; a block that returns and branches.
Incomplete ==
    {<<Block_("0", <<St("RET", NoVar, <<>>)>>)>>, <<Block_("0", <<>>)>>,
     <<Block_("0", <<St("BR", NoVar, <<"0", "c">>)>>)>>,
     <<Block_("0", <<Br("calc")>>), Block_("calc", <<St("BR", NoVar, <<"ret", "c">>)>>),
       Block_("ret", <<Ret("c")>>)>>,
     <<Block_("0", <<Ret("1"), Br("calc")>>), Block_("calc", <<Ret("0")>>)>>}

MCPrograms == {DotProduct} \cup Diamonds \cup Edges \cup Computations \cup Crowded \cup Incomplete
DotProductOnly == {DotProduct}
MCNames == {"0", "1", "n", "a", "b", "c", "cl", "i", "cr", "i_inc", "ai", "bi", "ci", "cond",
            "2", "x", "z", "start", "calc", "ret", "lost"}
MCLiterals == [w \in {"0", "1", "2"} |-> CASE w = "0" -> 0 [] w = "1" -> 1 [] w = "2" -> 2]
Ram(w) == [v \in MCNames |-> [x \in 0..3 |-> IF x < 3 THEN (x + w) % 4 ELSE w]]
MCEnvironments == {[n |-> 1, ram |-> Ram(1)], [n |-> 2, ram |-> Ram(0)]}
MCJunk == {2}
MCIntMin == -128
=============================================================================
