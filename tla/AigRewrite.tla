------------------------------ MODULE AigRewrite ------------------------------
(***************************************************************************)
(* phyLS::aig_rewrite: the gates of a network are rebuilt one by one in a  *)
(* new network; a gate that is the root of more than one gate may be       *)
(* replaced by another implementation of one of its cuts, if this is not   *)
(* dearer.  Implementations come from the resynthesis database, costs from *)
(* counters that the nodes of both networks carry.                         *)
(***************************************************************************)
EXTENDS AigPass

CONSTANTS Networks,     \* the networks to rewrite
          Structures,   \* the database: networks with one output
          MaxTrials     \* a bound on the candidates tried for one gate

ASSUME RewriteAssumption ==
    /\ \A net \in Networks : IsNetwork(net) /\ net.pos # <<>>
    /\ \A s \in Structures : IsNetwork(s) /\ Len(s.pos) = 1
    /\ MaxTrials \in Nat

VARIABLES
    ntk_value,    \* the counters of the nodes of ntk
    res,          \* the new network
    res_value,    \* the counters of its nodes
    old2new,      \* the signals of the new network, for the nodes done
    where,        \* "gate", "cuts" while candidates are tried, or "done"
    value,        \* the gates that would go with this gate
    best_gain, best_signal,
    trials        \* candidates tried for this gate

rewriteVars == <<ntk, ntk_value, res, res_value, old2new, gate, where, value,
                 best_gain, best_signal, trials>>

-----------------------------------------------------------------------------
(* Counting.  A visit of a node changes the counters of its fanins by one, *)
(* and goes on to those that have got their first or lost their last       *)
(* reader.                                                                 *)

Counters(net) == [Nodes(net) -> Int]

\* One fanin: lower is the visit of the nodes before.
VisitFanin(lower, acc, n, step) ==
    LET next == [acc.count EXCEPT ![n] = @ + step]
        sub == lower[n][next]
    IN  IF {acc.count[n], next[n]} = {0, 1}
        THEN [count |-> sub.count, cost |-> acc.cost + sub.cost]
        ELSE [acc EXCEPT !.count = next]

Visits(net, step) ==
    LET Visit[n \in Nodes(net)] == [count \in Counters(net) |->
            IF IsGate(net, n)
            THEN VisitFanin(Visit,
                            VisitFanin(Visit, [count |-> count, cost |-> 1],
                                       Fanins(net, n)[1].index, step),
                            Fanins(net, n)[2].index, step)
            ELSE [count |-> count, cost |-> 0]]
    IN  Visit

\* How many gates are visited, and what becomes of the counters.
recursive_ref(net, count, n) == Visits(net, 1)[n][count]
recursive_deref(net, count, n) == Visits(net, -1)[n][count]

\* Faulty: the gates are taken away and not put back.
mffc_size_deref(net, count, n) == recursive_deref(net, count, n)

\* The gates that only n needs, n included, and the counters afterwards.
mffc_size(net, count, n) ==
    LET down == recursive_deref(net, count, n)
    IN  [count |-> recursive_ref(net, down.count, n).count, cost |-> down.cost]

fanout_size(net, n) ==
    Cardinality({m \in Gates(net) : n \in FaninNodes(net, m)})
    + Cardinality({i \in DOMAIN net.pos : net.pos[i].index = n})

\* Counters for nodes that have been added are zero.
Extended(count, net) == [n \in Nodes(net) |-> IF n \in DOMAIN count THEN count[n] ELSE 0]

-----------------------------------------------------------------------------
(* The cuts of a gate, with the leaves its function depends on, and their  *)
(* implementations.  Which of them are tried, in which order, is left      *)
(* open.                                                                   *)

min_cand_cut_size == 3

\* Tables are minimised before they are merged as well, so that the leaves that are
\* kept may come from a cut of more than cut_size.
MinimisedCuts(net, n) ==
    {Support(truth_table(net, Signal(n, FALSE), leaves), leaves) : leaves \in AllCuts(net, n)}
Cuts(net, n) == {c \in MinimisedCuts(net, n) : Cardinality(c) <= cut_size}

CandidateCuts(net, n) == {c \in Cuts(net, n) : Cardinality(c) >= min_cand_cut_size}

StructureTable == [s \in Structures |-> Function(s, s.pos[1])]

\* A structure with its inputs placed on the leaves, some of them complemented:
\* what canonization finds, and any other way that gives the function.
Places(cut, s) == {p \in [Inputs(s) -> cut] : \A i, j \in Inputs(s) : p[i] = p[j] => i = j}
Implements(table, cut, s, place, phase, inverted) ==
    \A a \in SUBSET cut :
        (a \in table) <=>
            (({i \in Inputs(s) : (place[i] \in a) # (i \in phase)} \in StructureTable[s]) # inverted)

\* The signal it has in the new network, and that network with its gates.
resync(s, place, phase, inverted) ==
    LET child == [i \in 0..s.pis |->
                    IF i = 0 THEN get_constant
                    ELSE Image(old2new, Signal(place[i], i \in phase))]
        copy == Copy(s, Gates(s), res, child)
        f == Image(copy.map, s.pos[1])
    IN  [net |-> copy.net, f |-> IF inverted THEN create_not(f) ELSE f]

-----------------------------------------------------------------------------

\* No pass is under way.
RewriteInit ==
    /\ ntk = EmptyNetwork(0) /\ ntk_value = <<>>
    /\ res = EmptyNetwork(0) /\ res_value = [n \in {0} |-> 0] /\ old2new = <<>>
    /\ gate = 0 /\ where = "done"
    /\ value = 0 /\ best_gain = -1 /\ best_signal = get_constant /\ trials = 0

\* The pass returns, and its locals are gone.
Return ==
    /\ ntk_value' = <<>>
    /\ res' = EmptyNetwork(0) /\ res_value' = [n \in {0} |-> 0] /\ old2new' = <<>>
    /\ gate' = 0 /\ where' = "done"
    /\ value' = 0 /\ best_gain' = -1 /\ best_signal' = get_constant /\ trials' = 0

BeginRewrite(net) ==
    /\ ntk' = net
    /\ ntk_value' = [n \in Nodes(net) |-> fanout_size(net, n)]
    /\ res' = EmptyNetwork(net.pis) /\ res_value' = [n \in 0..net.pis |-> 0]
    /\ old2new' = [n \in 0..net.pis |-> Signal(n, FALSE)]
    /\ gate' = net.pis + 1 /\ where' = "gate"
    /\ value' = 0 /\ best_gain' = -1 /\ best_signal' = get_constant /\ trials' = 0

AtGate == where = "gate" /\ gate \in Gates(ntk)

\* old2new[gate] is known: its gates are counted in, and the next gate follows
\* with locals of its own.
Settle(net, f) ==
    /\ res' = net
    /\ old2new' = Known(old2new, gate, f)
    /\ res_value' = recursive_ref(net, Extended(res_value, net), f.index).count
    /\ gate' = gate + 1 /\ where' = "gate"
    /\ value' = 0 /\ best_gain' = -1 /\ best_signal' = get_constant /\ trials' = 0
    /\ UNCHANGED ntk

\* Faulty: complements are lost.
CloneUncomplemented ==
    LET new == create_and(res, old2new[Fanins(ntk, gate)[1].index],
                               old2new[Fanins(ntk, gate)[2].index])
    IN  Settle(new.net, new.f)

\* The gate itself, over what its fanins have become.
Clone ==
    LET new == create_and(res, Image(old2new, Fanins(ntk, gate)[1]),
                               Image(old2new, Fanins(ntk, gate)[2]))
    IN  Settle(new.net, new.f)

\* Nothing to optimise.
CloneSmall ==
    /\ AtGate
    /\ LET mffc == mffc_size(ntk, ntk_value, gate)
       IN  mffc.cost = 1 /\ ntk_value' = mffc.count
    /\ Clone

OpenCuts ==
    /\ AtGate
    /\ LET mffc == mffc_size(ntk, ntk_value, gate)
       IN  mffc.cost # 1 /\ ntk_value' = mffc.count /\ value' = mffc.cost
    /\ where' = "cuts"
    /\ UNCHANGED <<ntk, res, res_value, old2new, gate, best_gain, best_signal, trials>>

\* Faulty: a candidate that is kept is not counted out.
TryCountedIn(candidate) ==
    LET up == recursive_ref(candidate.net, Extended(res_value, candidate.net), candidate.f.index)
        down == recursive_deref(candidate.net, up.count, candidate.f.index)
        gain == value - up.cost
        better == gain >= 0 /\ gain > best_gain
    IN  /\ res' = candidate.net
        /\ res_value' = IF better THEN up.count ELSE down.count
        /\ best_gain' = IF better THEN gain ELSE best_gain
        /\ best_signal' = IF better THEN candidate.f ELSE best_signal

\* on_signal: a candidate is counted in and out again.
Try(candidate) ==
    LET up == recursive_ref(candidate.net, Extended(res_value, candidate.net), candidate.f.index)
        down == recursive_deref(candidate.net, up.count, candidate.f.index)
        gain == value - up.cost
        better == gain >= 0 /\ gain > best_gain
    IN  /\ res' = candidate.net
        /\ res_value' = down.count
        /\ best_gain' = IF better THEN gain ELSE best_gain
        /\ best_signal' = IF better THEN candidate.f ELSE best_signal

TryCandidate ==
    /\ where = "cuts" /\ trials < MaxTrials
    /\ \E cut \in CandidateCuts(ntk, gate) :
          LET table == truth_table(ntk, Signal(gate, FALSE), cut)
          IN  \E s \in {t \in Structures : t.pis = Cardinality(cut)}, inverted \in BOOLEAN :
                \E place \in Places(cut, s), phase \in SUBSET Inputs(s) :
                    /\ Implements(table, cut, s, place, phase, inverted)
                    /\ Try(resync(s, place, phase, inverted))
    /\ trials' = trials + 1
    /\ UNCHANGED <<ntk, ntk_value, old2new, gate, where, value>>

CloneUnimproved ==
    /\ where = "cuts" /\ best_gain = -1
    /\ Clone
    /\ UNCHANGED ntk_value

TakeBest ==
    /\ where = "cuts" /\ best_gain # -1
    /\ Settle(res, best_signal)
    /\ UNCHANGED ntk_value

\* Faulty: the gains are trusted.
FinishTrusting ==
    /\ where = "gate" /\ gate \notin Gates(ntk)
    /\ LET built == [res EXCEPT !.pos = [i \in DOMAIN ntk.pos |-> Image(old2new, ntk.pos[i])]]
       IN  ntk' = cleanup_dangling(built)
    /\ Return

\* The outputs are created; the new network replaces the old one unless it is
\* dearer, and what no output needs is dropped.
Finish ==
    /\ where = "gate" /\ gate \notin Gates(ntk)
    /\ LET built == [res EXCEPT !.pos = [i \in DOMAIN ntk.pos |-> Image(old2new, ntk.pos[i])]]
           ret == cleanup_dangling(built)
       IN  ntk' = cleanup_dangling(IF costs(ret) > costs(ntk) THEN ntk ELSE ret)
    /\ Return

RewriteStep == CloneSmall \/ OpenCuts \/ TryCandidate \/ CloneUnimproved \/ TakeBest

-----------------------------------------------------------------------------
(* Properties.                                                             *)

Counts(net) == [Nodes(net) -> Nat]

\* Types: networks stay in topological order, no counter falls below zero, and
\* every signal that is kept exists in the new network.
RewriteTypeOK ==
    /\ IsNetwork(ntk) /\ IsNetwork(res)
    /\ where \in {"gate", "cuts", "done"}
    /\ where # "done" => ntk_value \in Counts(ntk)
    /\ res_value \in Counts(res)
    /\ where # "done" => DOMAIN old2new = 0..(gate - 1)
    /\ \A n \in DOMAIN old2new : old2new[n].index \in Nodes(res)
    /\ best_signal.index \in Nodes(res)
    /\ value \in Nat /\ best_gain \in -1..value /\ trials \in 0..MaxTrials

\* What a node has become computes what the node computes, and so does the
\* candidate that is kept for the gate in turn: through strashing, complements,
\* the places of the leaves, and candidates of candidates.
FunctionsPreserved ==
    where # "done" =>
        /\ \A n \in DOMAIN old2new : Function(res, old2new[n]) = Function(ntk, Signal(n, FALSE))
        /\ best_gain # -1 => Function(res, best_signal) = Function(ntk, Signal(gate, FALSE))

\* Whatever has been tried, kept or thrown away, the counters are those of the
\* gates that have been settled, and of what these need; and those of the old
\* network are its fanouts.
CountersExact ==
    where # "done" =>
        /\ \A n \in Nodes(ntk) : ntk_value[n] = fanout_size(ntk, n)
        /\ \A n \in Nodes(res) : res_value[n] =
              Cardinality({m \in Gates(ntk) : m < gate /\ IsGate(res, old2new[m].index)
                                              /\ n \in FaninNodes(res, old2new[m].index)})
              + Cardinality({m \in Gates(res) : res_value[m] > 0 /\ n \in FaninNodes(res, m)})

Transform == INSTANCE NetworkTransform WITH
    outputs <- Outputs(ntk), size <- costs(ntk), working <- (where # "done")

\* The pass delivers a network with the same outputs and no more gates, though
\* gains are estimates: a gate that is free when it is counted may be needed by
\* nothing in the end, and the sum of accepted gains may be a loss.
ImplementsTransform == Transform!TransformSpec
=============================================================================
