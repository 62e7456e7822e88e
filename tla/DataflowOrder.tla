---------------------------- MODULE DataflowOrder ----------------------------
(***************************************************************************)
(* What a scheduler of one basic block after another promises: while it    *)
(* reads a block it collects which values each value depends on; then it   *)
(* issues every value at most once and none before all it depends on.      *)
(* HLSBinding implements it (the "topological order" of the report).       *)
(***************************************************************************)
EXTENDS FiniteSets

CONSTANT Values

VARIABLES deps, issued
dataflowVars == <<deps, issued>>

NoDeps == [v \in Values |-> {}]

DataflowTypeOK == deps \in [Values -> SUBSET Values] /\ issued \subseteq Values

DataflowInit == deps = NoDeps /\ issued = {}

\* A new block forgets the previous one.
NewGraph == deps' = NoDeps /\ issued' = {}

\* Before anything of the block is issued, dependences come and are redefined.
Depend(v, o) ==
    issued = {} /\ deps' = [deps EXCEPT ![v] = @ \cup {o}] /\ UNCHANGED issued
Redefine(v) ==
    issued = {} /\ deps' = [deps EXCEPT ![v] = {}] /\ UNCHANGED issued

Issue(v) ==
    /\ v \notin issued /\ deps[v] \subseteq issued
    /\ issued' = issued \cup {v}
    /\ UNCHANGED deps

DataflowNext ==
    \/ NewGraph
    \/ \E v \in Values : Redefine(v) \/ Issue(v) \/ \E o \in Values : Depend(v, o)

DataflowSpec == DataflowInit /\ [][DataflowNext]_dataflowVars
=============================================================================
