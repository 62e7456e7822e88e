------------------------------ MODULE AigSession ------------------------------
(***************************************************************************)
(* A session of the shell: a network is read, and the commands rewrite,    *)
(* balance and resub work on the current one, each adding what it makes to *)
(* the store.  The passes run step by step; AigStore, which knows them by  *)
(* what they promise, is what a session implements.                        *)
(***************************************************************************)
EXTENDS AigRewrite, AigBalance

CONSTANTS MaxElements,  \* a bound on the elements of the store
          MaxSize       \* from here on AigStore does not tell sizes apart

ASSUME SessionAssumption ==
    /\ Networks # {}
    /\ MaxElements \in Nat \ {0} /\ MaxSize \in Nat

VARIABLES
    heap,    \* the storages of the networks in the store, with what they compute
    aigs     \* its elements; the last one is current

storeVars == <<heap, aigs>>
balanceLocals == <<dest, old_to_new, phase, left, best>>
rewriteLocals == <<ntk_value, res, res_value, old2new, where, value, best_gain, best_signal, trials>>
sessionVars == <<rewriteVars, balanceLocals, storeVars>>

SessionInit ==
    /\ RewriteInit /\ BalanceInit
    /\ heap = <<>> /\ aigs = <<>>

Prompt == where = "done" /\ phase = "done"
Ready == Prompt /\ aigs # <<>> /\ Len(aigs) < MaxElements

Stored(net) == [net |-> net, outputs |-> Outputs(net), size |-> costs(net)]

Read ==
    /\ Prompt /\ aigs = <<>>
    /\ \E net \in Networks :
          /\ heap' = <<Stored(net)>>
          /\ aigs' = <<[handle |-> 1, origin |-> Outputs(net)]>>
    /\ UNCHANGED <<rewriteVars, balanceLocals>>

\* store().current(), which the commands copy.
Aig == heap[aigs[Len(aigs)].handle].net

\* Faulty: current() is assigned before extend().
AddSwapped(net) ==
    /\ heap' = Append(heap, Stored(net))
    /\ aigs' = [i \in 1..(Len(aigs) + 1) |->
                    IF i < Len(aigs) THEN aigs[i]
                    ELSE [handle |-> Len(heap) + 1, origin |-> Last(aigs).origin]]

\* extend(), current() = aig.
Add(net) ==
    /\ heap' = Append(heap, Stored(net))
    /\ aigs' = Append(aigs, [handle |-> Len(heap) + 1, origin |-> Last(aigs).origin])

StartRewrite == Ready /\ BeginRewrite(Aig) /\ UNCHANGED <<balanceLocals, storeVars>>
StepRewrite == RewriteStep /\ UNCHANGED <<balanceLocals, storeVars>>
EndRewrite == Finish /\ Add(ntk') /\ UNCHANGED balanceLocals

StartBalance == Ready /\ BeginBalance(Aig) /\ UNCHANGED <<rewriteLocals, storeVars>>
StepBalance == BalanceStep /\ UNCHANGED <<rewriteLocals, storeVars>>
EndBalance == FinishBalance /\ Add(ntk') /\ UNCHANGED rewriteLocals

\* aig_resub is empty, and a copy of a network shares its storage.
Resub ==
    /\ Ready
    /\ aigs' = Append(aigs, Last(aigs))
    /\ UNCHANGED <<rewriteVars, balanceLocals, heap>>

SessionNext ==
    \/ Read \/ StartRewrite \/ StepRewrite \/ EndRewrite
    \/ StartBalance \/ StepBalance \/ EndBalance \/ Resub

SessionSpec == SessionInit /\ [][SessionNext]_sessionVars

-----------------------------------------------------------------------------
(* Properties.                                                             *)

BalanceTransform == INSTANCE NetworkTransform WITH
    outputs <- Outputs(ntk), size <- NetworkDepth(ntk), working <- (phase # "done")

\* Balancing delivers the same functions, and a network that is no deeper.
ImplementsBalance == BalanceTransform!TransformSpec

Functions == {Outputs(net) : net \in Networks}
Unread == [outputs |-> CHOOSE f \in Functions : TRUE, size |-> 0]

\* What AigStore knows of a storage.
Capped(size) == IF size > MaxSize THEN MaxSize ELSE size
storage == [h \in 1..MaxElements |->
               IF h <= Len(heap) THEN [outputs |-> heap[h].outputs, size |-> Capped(heap[h].size)]
               ELSE Unread]

Store == INSTANCE AigStore WITH
    Unknown <- <<>>, Handles <- 1..MaxElements,
    current <- Len(aigs), library <- FALSE,
    mapped <- [outputs |-> Unread.outputs, origin |-> <<>>]

\* The passes, run step by step one after the other, do what AigStore says of
\* the commands: each adds one element, made from the current one, with its
\* functions, and no other network of the store changes.  (This is Store!Spec,
\* with the steps within a pass singled out.)
ImplementsStore == Store!Init /\ [][UNCHANGED storeVars \/ Store!Next]_(Store!storeVars)
=============================================================================
