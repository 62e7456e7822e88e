--------------------------------- MODULE Aig ---------------------------------
(***************************************************************************)
(* And-inverter graphs: mockturtle::aig_network, the functions and cuts of *)
(* its nodes, and cleanup_dangling.  Node 0 is the constant false, then    *)
(* come the inputs, then the and-gates; a signal is a node or its          *)
(* complement.  A gate that is there already is always found (the hash     *)
(* table of the storage).                                                  *)
(***************************************************************************)
EXTENDS Integers, Sequences, FiniteSets, SequencesExt

Signal(n, c) == [index |-> n, complement |-> c]
get_constant == Signal(0, FALSE)
create_not(f) == [f EXCEPT !.complement = ~@]

\* A network: the number of its inputs, its gates and its outputs.
Nodes(net) == 0..(net.pis + Len(net.gates))
Inputs(net) == 1..net.pis
Gates(net) == (net.pis + 1)..(net.pis + Len(net.gates))
IsGate(net, n) == n > net.pis
Fanins(net, n) == net.gates[n - net.pis]
FaninNodes(net, n) == {Fanins(net, n)[i].index : i \in 1..2}
EmptyNetwork(pis) == [pis |-> pis, gates |-> <<>>, pos |-> <<>>]

Signals == [index: Nat, complement: BOOLEAN]
IsNetwork(net) ==
    /\ net \in [pis: Nat, gates: Seq(Signals \X Signals), pos: Seq(Signals)]
    /\ \A n \in Gates(net) :
          /\ 0 < Fanins(net, n)[1].index /\ Fanins(net, n)[1].index < Fanins(net, n)[2].index
          /\ Fanins(net, n)[2].index < n
    /\ \A i \in DOMAIN net.pos : net.pos[i].index \in Nodes(net)

\* The and of two signals: a constant or one of them, a gate that is there
\* already, or a new one.
create_and(net, f, g) ==
    LET a == IF f.index > g.index THEN g ELSE f
        b == IF f.index > g.index THEN f ELSE g
        same == {n \in Gates(net) : Fanins(net, n) = <<a, b>>}
        Old(s) == [net |-> net, f |-> s]
    IN  CASE a = b -> Old(a)
          [] a = create_not(b) -> Old(get_constant)
          [] a.index = 0 /\ b.index > 0 -> Old(IF a.complement THEN b ELSE get_constant)
          [] a.index \in 1..(b.index - 1) ->
                 IF same # {} THEN Old(Signal(CHOOSE n \in same : TRUE, FALSE))
                 ELSE [net |-> [net EXCEPT !.gates = Append(@, <<a, b>>)],
                       f |-> Signal(net.pis + Len(net.gates) + 1, FALSE)]

\* The image of a signal under a map from nodes to signals.
Image(map, f) == IF f.complement THEN create_not(map[f.index]) ELSE map[f.index]

\* A map with one more node.
Known(map, n, f) == [m \in DOMAIN map \cup {n} |-> IF m = n THEN f ELSE map[m]]

\* Some gates of a network, added to another one in order; map says what its
\* other nodes are there.
CopyGate(net, n, part, acc) ==
    LET new == create_and(acc.net, Image(acc.map, Fanins(net, n)[1]), Image(acc.map, Fanins(net, n)[2]))
    IN  IF n \in part THEN [net |-> new.net, map |-> Known(acc.map, n, new.f)] ELSE acc
CopyUpto(net, part, into, map) ==
    LET Upto[k \in 0..Len(net.gates)] ==
            IF k = 0 THEN [net |-> into, map |-> map]
            ELSE CopyGate(net, net.pis + k, part, Upto[k - 1])
    IN  Upto
Copy(net, part, into, map) == CopyUpto(net, part, into, map)[Len(net.gates)]

\* The gates that some output depends on, and a copy with these only, in the
\* order of their indices (mockturtle's is depth first: other indices, the same
\* gates).
Needed(net) ==
    LET Reach[n \in Gates(net)] ==
            \/ \E i \in DOMAIN net.pos : net.pos[i].index = n
            \/ \E m \in Gates(net) : m > n /\ n \in FaninNodes(net, m) /\ Reach[m]
    IN  Reach
LiveGates(net) == {n \in Gates(net) : Needed(net)[n]}

cleanup_dangling(net) ==
    LET copy == Copy(net, LiveGates(net), EmptyNetwork(net.pis),
                     [n \in 0..net.pis |-> Signal(n, FALSE)])
    IN  [copy.net EXCEPT !.pos = [i \in DOMAIN net.pos |-> Image(copy.map, net.pos[i])]]

costs(net) == Len(net.gates)

\* How many gates follow each other up to a node, and up to any output.
Depth(net, n) ==
    LET D[m \in Nodes(net)] ==
            IF IsGate(net, m) THEN 1 + Max({D[l] : l \in FaninNodes(net, m)}) ELSE 0
    IN  D[n]
NetworkDepth(net) == Max({0} \cup {Depth(net, net.pos[i].index) : i \in DOMAIN net.pos})

-----------------------------------------------------------------------------
(* Functions.  An assignment is the set of leaves that are true.           *)

Values(net, leaves, assignment) ==
    LET Value[n \in Nodes(net)] ==
            IF n \in leaves THEN n \in assignment
            ELSE IsGate(net, n) /\ \A i \in 1..2 :
                     Value[Fanins(net, n)[i].index] # Fanins(net, n)[i].complement
    IN  Value

Holds(net, f, leaves, assignment) ==
    Values(net, leaves, assignment)[f.index] # f.complement

truth_table(net, f, leaves) == {a \in SUBSET leaves : Holds(net, f, leaves, a)}

Function(net, f) == truth_table(net, f, Inputs(net))
Outputs(net) == [i \in DOMAIN net.pos |-> Function(net, net.pos[i])]

\* Leaves such that every path from an input to n meets one of them.
CoveredBy(net, leaves) ==
    LET Covered[m \in Nodes(net)] ==
            m \in leaves \/ (IsGate(net, m) /\ \A l \in FaninNodes(net, m) : Covered[l])
    IN  Covered
IsCut(net, n, leaves) == CoveredBy(net, leaves)[n]

\* Both passes ask for cuts of up to four leaves.
cut_size == 4

\* Every cut; those with at most cut_size leaves; of these, the ones that contain no
\* smaller one.  (The limits on the number of cuts of a gate, 12 and 25, are out of
\* reach here.)
AllCuts(net, n) == {l \in SUBSET (1..(n - 1)) : IsCut(net, n, l)}
LeafSets(net, n) == {l \in AllCuts(net, n) : Cardinality(l) <= cut_size}
IrredundantCuts(net, n) ==
    LET cuts == LeafSets(net, n) IN {c \in cuts : \A d \in cuts : d \subseteq c => d = c}

\* The leaves a table depends on.
Support(table, leaves) ==
    {l \in leaves : \E a \in SUBSET (leaves \ {l}) : (a \in table) # (a \cup {l} \in table)}
=============================================================================
