------------------------------- MODULE AigPass -------------------------------
(***************************************************************************)
(* What the passes have in common: they go through the gates of a network  *)
(* in order and build them again in another one.                           *)
(***************************************************************************)
EXTENDS Aig

VARIABLES
    ntk,    \* the network
    gate    \* the gate whose turn it is
=============================================================================
