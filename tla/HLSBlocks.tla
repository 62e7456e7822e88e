------------------------------ MODULE HLSBlocks ------------------------------
(***************************************************************************)
(* What the parser and the passes behind it share: the blocks of the       *)
(* function under synthesis.                                               *)
(***************************************************************************)
EXTENDS HLSFunction

VARIABLE blocks     \* function::_blocks
=============================================================================
