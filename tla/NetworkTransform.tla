--------------------------- MODULE NetworkTransform ---------------------------
(***************************************************************************)
(* What an optimisation of a logic network promises: whenever it has taken *)
(* a network it delivers one with the same functions, in the same order,   *)
(* that costs no more.                                                     *)
(***************************************************************************)
EXTENDS Naturals

VARIABLES outputs,   \* the functions of the outputs
          size,      \* what the network costs
          working    \* a network is being transformed

transformVars == <<outputs, size, working>>

TransformInit == ~working

Idle == ~working /\ ~working'

Take == ~working /\ working'

Deliver ==
    /\ working /\ ~working'
    /\ outputs' = outputs
    /\ size' <= size

TransformSpec == TransformInit /\ [][Idle \/ Take \/ Deliver]_transformVars
=============================================================================
