------------------------------ MODULE IRMachine ------------------------------
(***************************************************************************)
(* What a function in the tool's input language means: an interpreter.  It *)
(* executes the statements of a basic block in order, some of them or all  *)
(* in one step: a phi reads what the block before left, any other          *)
(* statement what the ones before it leave; then a branch leads on, or a   *)
(* return ends the run.  An int has Width bits.                            *)
(***************************************************************************)
EXTENDS HLSFunction

CONSTANTS Width,      \* the bits of an int
          Literals    \* the numbers among the names, with their words

VARIABLES program,    \* the basic blocks
          memory,     \* for each array, its words
          at, from,   \* the block control is at, and the one it came from
          env,        \* the values of the variables and parameters
          returned    \* what the function returned

machineVars == <<program, memory, at, from, env, returned>>

Word(x) == x % 2^Width
SignedOf(x) == IF x >= 2^(Width - 1) THEN x - 2^Width ELSE x
Truth(p) == IF p THEN 1 ELSE 0

ValueIn(e, name) == IF name \in DOMAIN Literals THEN Literals[name] ELSE e[name]

\* The value of an operation that has one; Came is the label of the block before.
Result(e, s, came) ==
    LET x == ValueIn(e, s.ops[1])
        y == ValueIn(e, s.ops[2])
    IN  CASE s.type = "ASSIGN" -> x
          [] s.type = "ADD" -> Word(x + y)
          [] s.type = "SUB" -> Word(x - y)
          [] s.type = "MUL" -> Word(x * y)
          [] s.type = "GT" -> Truth(SignedOf(x) > SignedOf(y))
          [] s.type = "LT" -> Truth(SignedOf(x) < SignedOf(y))
          [] s.type = "GE" -> Truth(SignedOf(x) >= SignedOf(y))
          [] s.type = "LE" -> Truth(SignedOf(x) <= SignedOf(y))
          [] s.type = "EQ" -> Truth(x = y)
          [] s.type = "LOAD" -> memory[s.ops[1]][y]
          [] s.type = "PHI" ->
                 ValueIn(e, s.ops[2 * (CHOOSE h \in 1..(Len(s.ops) \div 2) :
                                           s.ops[2 * h] = came) - 1])

Statements == program[at + 1].statements
Came == program[from + 1].label

\* What one statement leaves of the values, where the ones before it left e.
Assign(e, i) ==
    LET s == Statements[i] IN
    IF s.var = NoVar THEN e
    ELSE [e EXCEPT ![s.var] = Result(IF s.type = "PHI" THEN env ELSE e, s, Came)]

\* What a group of the block's statements leaves of them, executed in order.
After(group) ==
    LET upTo[i \in 0..Len(Statements)] ==
            IF i = 0 THEN env
            ELSE LET e == upTo[i - 1] IN IF i \in group THEN Assign(e, i) ELSE e
    IN  upTo[Len(Statements)]

\* The statement of the group that ends the block, and where a branch leads.
Ends(group) == {i \in group : Statements[i].type \in {"BR", "RET"}}
End(group) == Statements[CHOOSE i \in Ends(group) : TRUE]
Taken(e, s) ==
    IF Len(s.ops) = 1 THEN s.ops[1] ELSE IF ValueIn(e, s.ops[1]) # 0 THEN s.ops[2] ELSE s.ops[3]

\* Execute a group, as far as the observed variables show it.
Execute(group, observed) ==
    LET e == After(group) s == End(group) IN
    /\ \A v \in observed : env'[v] = e[v]
    /\ \/ Ends(group) = {} /\ at' = at /\ from' = from
       \/ /\ Ends(group) # {} /\ s.type = "BR"
          /\ program[at' + 1].label = Taken(e, s) /\ from' = at
       \/ /\ Ends(group) # {} /\ s.type = "RET"
          /\ at' = at /\ from' = from
          /\ returned' = ValueIn(e, s.ops[1])
=============================================================================
