------------------------------ MODULE AigProofs ------------------------------
(***************************************************************************)
(* Facts about and-inverter graphs of any size: the recursive definitions  *)
(* of Aig are sound, a network that grows computes what it computed, and   *)
(* create_and, Copy and cleanup_dangling compute what they should.         *)
(***************************************************************************)
EXTENDS Aig, WellFoundedInduction, FiniteSetTheorems, TLAPS

\* A set of naturals with a member has a least one.
LEMMA LeastMember ==
  ASSUME NEW A \in SUBSET Nat, A # {} PROVE \E m \in A : \A a \in A : m <= a
<1>1. PICK m \in A : \A a \in A : ~ (<<a, m>> \in OpToRel(<, Nat))
  BY NatLessThanWellFounded, WFMin
<1>2. \A a \in A : ~ (a < m)
  BY <1>1 DEF OpToRel
<1> QED BY <1>2

\* The largest of some numbers.
LEMMA MaxFacts ==
  ASSUME NEW n \in Nat, NEW S \in SUBSET (0..n), S # {}
  PROVE  Max(S) \in S /\ \A x \in S : x <= Max(S)
<1> DEFINE A == {k \in Nat : \A x \in S : x <= k}
<1>1. n \in A
  OBVIOUS
<1>2. PICK k \in A : \A m \in A : k <= m
  <2>1. A \in SUBSET Nat /\ A # {}
    BY <1>1
  <2> HIDE DEF A
  <2> QED BY <2>1, LeastMember
<1>3. k \in Nat /\ \A x \in S : x <= k /\ x \in Nat
  BY <1>2
<1>4. k \in S
  <2> SUFFICES ASSUME k \notin S PROVE FALSE
    OBVIOUS
  <2>1. \A x \in S : x <= k - 1
    BY <1>3
  <2>2. k - 1 \in Nat
    <3>1. PICK x \in S : TRUE
      OBVIOUS
    <3>2. x \in Nat /\ x <= k - 1
      BY <1>3, <2>1
    <3> QED BY <1>3, <3>2
  <2>3. k - 1 \in A
    BY <2>1, <2>2
  <2> QED BY <1>2, <1>3, <2>3
<1>5. \E x \in S : \A y \in S : x >= y
  BY <1>3, <1>4
<1>6. Max(S) \in S /\ \A y \in S : Max(S) >= y
  BY <1>5 DEF Max
<1> QED BY <1>3, <1>6

\* A truth value for each number up to N, given by those of the smaller ones.
LooksBelow(N, G) ==
    /\ G \in [[0..N -> BOOLEAN] \X (0..N) -> BOOLEAN]
    /\ \A f, g \in [0..N -> BOOLEAN], n \in 0..N :
          (\A h \in 0..(n - 1) : f[h] = g[h]) => G[<<f, n>>] = G[<<g, n>>]

LEMMA RecursionExists ==
  ASSUME NEW N \in Nat, NEW G, LooksBelow(N, G)
  PROVE  \E V \in [0..N -> BOOLEAN] : \A n \in 0..N : V[n] = G[<<V, n>>]
<1> USE DEF LooksBelow
<1> DEFINE Below(k) == \E V \in [0..N -> BOOLEAN] : \A n \in 0..N : n < k => V[n] = G[<<V, n>>]
<1>1. Below(0)
  <2>1. [n \in 0..N |-> FALSE] \in [0..N -> BOOLEAN]
    OBVIOUS
  <2>2. \A n \in 0..N : ~(n < 0)
    OBVIOUS
  <2> QED BY <2>1, <2>2
<1>2. ASSUME NEW k \in 0..N, Below(k) PROVE Below(k + 1)
  <2>1. PICK V \in [0..N -> BOOLEAN] : \A n \in 0..N : n < k => V[n] = G[<<V, n>>]
    BY <1>2
  <2> DEFINE W == [V EXCEPT ![k] = G[<<V, k>>]]
  <2>2. W \in [0..N -> BOOLEAN] /\ W[k] = G[<<V, k>>] /\ \A h \in 0..N : h # k => W[h] = V[h]
    OBVIOUS
  <2> HIDE DEF W
  <2>3. ASSUME NEW n \in 0..N, n < k + 1 PROVE W[n] = G[<<W, n>>]
    <3>1. \A h \in 0..(n - 1) : W[h] = V[h]
      BY <2>2, <2>3
    <3>2. G[<<W, n>>] = G[<<V, n>>]
      BY <2>2, <3>1
    <3>3. n = k \/ (n # k /\ n < k)
      BY <2>3
    <3>4. CASE n = k
      BY <2>2, <3>2, <3>4
    <3>5. CASE n # k /\ n < k
      BY <2>1, <2>2, <3>2, <3>5
    <3> QED BY <3>3, <3>4, <3>5
  <2> QED BY <2>2, <2>3
<1> HIDE DEF Below
<1>3. \A k \in 0..(N + 1) : Below(k)
  <2> DEFINE A == {k \in 0..(N + 1) : ~ Below(k)}
  <2> SUFFICES ASSUME A # {} PROVE FALSE
    OBVIOUS
  <2>0. A \subseteq Nat
    OBVIOUS
  <2>1. PICK k \in A : \A a \in A : k <= a
    BY <2>0, LeastMember
  <2>2. k # 0 /\ k - 1 \in 0..N /\ k - 1 \notin A
    BY <1>1, <2>1
  <2> QED BY <1>2, <2>1, <2>2
<1>4. Below(N + 1)
  BY <1>3
<1>5. \A n \in 0..N : n < N + 1
  OBVIOUS
<1> QED BY <1>4, <1>5 DEF Below

-----------------------------------------------------------------------------
(* Networks.                                                               *)

SignalsOf(net) == {f \in Signals : f.index \in Nodes(net)}

\* What is written over the inputs and the gates, whatever the outputs are.
Grows(net, big) ==
    /\ IsNetwork(big) /\ big.pis = net.pis /\ Len(net.gates) <= Len(big.gates)
    /\ \A k \in 1..Len(net.gates) : big.gates[k] = net.gates[k]

LEMMA NetworkFacts ==
  ASSUME NEW net, IsNetwork(net)
  PROVE  /\ net.pis \in Nat /\ Len(net.gates) \in Nat
         /\ net.gates \in Seq(Signals \X Signals) /\ net.pos \in Seq(Signals)
         /\ \A n \in Gates(net), i \in 1..2 :
              /\ Fanins(net, n)[i] \in Signals
              /\ 0 < Fanins(net, n)[i].index /\ Fanins(net, n)[i].index < n
              /\ Fanins(net, n)[i].index \in Nodes(net)
         /\ \A n \in Gates(net) : Fanins(net, n) = <<Fanins(net, n)[1], Fanins(net, n)[2]>>
         /\ \A n \in Nodes(net) : n \in Nat /\ (IsGate(net, n) <=> n \in Gates(net))
<1>1. /\ net.pis \in Nat /\ net.gates \in Seq(Signals \X Signals) /\ net.pos \in Seq(Signals)
      /\ Len(net.gates) \in Nat
  BY DEF IsNetwork
<1>2. \A n \in Gates(net) : Fanins(net, n) \in Signals \X Signals
  BY <1>1 DEF Gates, Fanins
<1>3. ASSUME NEW n \in Gates(net), NEW i \in 1..2
      PROVE  /\ Fanins(net, n)[i] \in Signals
             /\ 0 < Fanins(net, n)[i].index /\ Fanins(net, n)[i].index < n
             /\ Fanins(net, n)[i].index \in Nodes(net)
  <2>1. Fanins(net, n)[1] \in Signals /\ Fanins(net, n)[2] \in Signals
    BY <1>2
  <2>2. Fanins(net, n)[1].index \in Nat /\ Fanins(net, n)[2].index \in Nat
    BY <2>1 DEF Signals
  <2>3. /\ 0 < Fanins(net, n)[1].index /\ Fanins(net, n)[1].index < Fanins(net, n)[2].index
        /\ Fanins(net, n)[2].index < n
    BY DEF IsNetwork
  <2> QED BY <1>1, <2>1, <2>2, <2>3 DEF Gates, Nodes
<1> QED BY <1>1, <1>2, <1>3 DEF Nodes, Gates, IsGate

LEMMA GrowsFacts ==
  ASSUME NEW net, IsNetwork(net), NEW big, Grows(net, big)
  PROVE  /\ Inputs(big) = Inputs(net) /\ Nodes(net) \subseteq Nodes(big)
         /\ SignalsOf(net) \subseteq SignalsOf(big)
         /\ \A n \in Gates(net) : n \in Gates(big) /\ Fanins(big, n) = Fanins(net, n)
<1>1. /\ net.pis \in Nat /\ Len(net.gates) \in Nat /\ Len(big.gates) \in Nat
      /\ big.pis = net.pis /\ Len(net.gates) <= Len(big.gates)
  BY NetworkFacts DEF Grows
<1>2. Inputs(big) = Inputs(net) /\ Nodes(net) \subseteq Nodes(big)
  BY <1>1 DEF Inputs, Nodes
<1>3. SignalsOf(net) \subseteq SignalsOf(big)
  BY <1>2 DEF SignalsOf
<1>4. ASSUME NEW n \in Gates(net) PROVE n \in Gates(big) /\ Fanins(big, n) = Fanins(net, n)
  <2>1. n - net.pis \in 1..Len(net.gates)
    BY <1>1 DEF Gates
  <2> QED BY <1>1, <2>1 DEF Grows, Gates, Fanins
<1> QED BY <1>2, <1>3, <1>4, <1>1

LEMMA GrowsTransitive ==
  ASSUME NEW net, IsNetwork(net), NEW mid, Grows(net, mid), NEW big, Grows(mid, big)
  PROVE  Grows(net, big)
BY NetworkFacts DEF Grows

LEMMA GrowsReflexive == ASSUME NEW net, IsNetwork(net) PROVE Grows(net, net)
BY NetworkFacts DEF Grows

\* The outputs do not matter to the gates.
LEMMA GrowsWithOutputs ==
  ASSUME NEW net, IsNetwork(net), NEW pos \in Seq(SignalsOf(net))
  PROVE  /\ Grows(net, [net EXCEPT !.pos = pos])
         /\ [net EXCEPT !.pos = pos].gates = net.gates /\ [net EXCEPT !.pos = pos].pos = pos
<1> DEFINE big == [net EXCEPT !.pos = pos]
<1>1. net \in [pis: Nat, gates: Seq(Signals \X Signals), pos: Seq(Signals)]
  BY DEF IsNetwork
<1>2. pos \in Seq(Signals) /\ \A i \in DOMAIN pos : pos[i].index \in Nodes(net)
  BY DEF SignalsOf
<1>3. big.pis = net.pis /\ big.gates = net.gates /\ big.pos = pos
  BY <1>1
<1>4. big \in [pis: Nat, gates: Seq(Signals \X Signals), pos: Seq(Signals)]
  BY <1>1, <1>2
<1> HIDE DEF big
<1>5. Nodes(big) = Nodes(net) /\ Gates(big) = Gates(net)
  BY <1>3 DEF Nodes, Gates
<1>6. \A n \in Gates(net) : Fanins(big, n) = Fanins(net, n)
  BY <1>3 DEF Fanins
<1>7. IsNetwork(big)
  BY <1>2, <1>3, <1>4, <1>5, <1>6 DEF IsNetwork
<1>8. Grows(net, big)
  BY <1>3, <1>7, NetworkFacts DEF Grows
<1> QED BY <1>3, <1>8 DEF big

-----------------------------------------------------------------------------
(* The recursive definitions.                                              *)

\* A node that is no leaf is true if it is a gate with true fanins.
ValueAt(net, leaves, a, V, n) ==
    IF n \in leaves THEN n \in a
    ELSE IsGate(net, n) /\ \A i \in 1..2 : V[Fanins(net, n)[i].index] # Fanins(net, n)[i].complement

LEMMA ValuesEquation ==
  ASSUME NEW net, IsNetwork(net), NEW leaves, NEW a
  PROVE  /\ Values(net, leaves, a) \in [Nodes(net) -> BOOLEAN]
         /\ \A n \in Nodes(net) :
              Values(net, leaves, a)[n] <=> ValueAt(net, leaves, a, Values(net, leaves, a), n)
<1> DEFINE N == net.pis + Len(net.gates)
<1>1. N \in Nat /\ Nodes(net) = 0..N
  BY NetworkFacts DEF Nodes
<1> DEFINE G == [p \in [0..N -> BOOLEAN] \X (0..N) |-> ValueAt(net, leaves, a, p[1], p[2])]
<1>2. \A V, n : ValueAt(net, leaves, a, V, n) \in BOOLEAN
  <2> TAKE V, n
  <2>1. CASE n \in leaves
    <3>1. ValueAt(net, leaves, a, V, n) = (n \in a)
      BY <2>1 DEF ValueAt
    <3> QED BY <3>1
  <2>2. CASE n \notin leaves
    BY <2>2, Zenon DEF ValueAt
  <2> QED BY <2>1, <2>2
<1> HIDE DEF N
<1>3. G \in [[0..N -> BOOLEAN] \X (0..N) -> BOOLEAN]
  BY <1>2
<1>4. \A f \in [0..N -> BOOLEAN], n \in 0..N : G[<<f, n>>] = ValueAt(net, leaves, a, f, n)
  OBVIOUS
<1> HIDE DEF G
<1>5. ASSUME NEW f \in [0..N -> BOOLEAN], NEW g \in [0..N -> BOOLEAN], NEW n \in 0..N,
             \A h \in 0..(n - 1) : f[h] = g[h]
      PROVE  G[<<f, n>>] = G[<<g, n>>]
  <2>1. IsGate(net, n) => \A i \in 1..2 : f[Fanins(net, n)[i].index] = g[Fanins(net, n)[i].index]
    <3> SUFFICES ASSUME IsGate(net, n), NEW i \in 1..2
                 PROVE  f[Fanins(net, n)[i].index] = g[Fanins(net, n)[i].index]
      OBVIOUS
    <3>1. Fanins(net, n)[i].index \in 0..(n - 1)
      BY <1>1, NetworkFacts DEF Nodes
    <3> QED BY <1>5, <3>1
  <2>2. ValueAt(net, leaves, a, f, n) = ValueAt(net, leaves, a, g, n)
    BY <2>1, Zenon DEF ValueAt
  <2> QED BY <1>4, <2>2
<1>6. \E V \in [0..N -> BOOLEAN] : \A n \in 0..N : V[n] = G[<<V, n>>]
  <2>1. \A f, g \in [0..N -> BOOLEAN], n \in 0..N :
          (\A h \in 0..(n - 1) : f[h] = g[h]) => G[<<f, n>>] = G[<<g, n>>]
    BY <1>5
  <2>2. LooksBelow(N, G)
    BY <1>3, <2>1 DEF LooksBelow
  <2>3. N \in Nat
    BY <1>1
  <2> QED BY <2>2, <2>3, RecursionExists
<1>7. PICK V \in [0..N -> BOOLEAN] : \A n \in 0..N : V[n] = ValueAt(net, leaves, a, V, n)
  BY <1>4, <1>6
<1>8. V = [n \in 0..N |-> ValueAt(net, leaves, a, V, n)]
  BY <1>7
<1> DEFINE Sound(U) == U = [n \in 0..N |-> ValueAt(net, leaves, a, U, n)]
<1>9. Values(net, leaves, a) = CHOOSE U : Sound(U)
  BY <1>1, Zenon DEF Values, ValueAt
<1>10. Sound(Values(net, leaves, a))
  <2>1. Sound(V)
    BY <1>8
  <2> HIDE DEF Sound
  <2> QED BY <1>9, <2>1
<1> QED BY <1>1, <1>2, <1>10

\* A node is covered by leaves below it.
LEMMA CoveredEquation ==
  ASSUME NEW net, IsNetwork(net), NEW leaves
  PROVE  \A n \in Nodes(net) :
            CoveredBy(net, leaves)[n] <=>
               \/ n \in leaves
               \/ n \in Gates(net) /\ \A i \in 1..2 : CoveredBy(net, leaves)[Fanins(net, n)[i].index]
<1> DEFINE N == net.pis + Len(net.gates)
<1> DEFINE At(C, n) == n \in leaves \/ (IsGate(net, n) /\ \A l \in FaninNodes(net, n) : C[l])
<1>1. N \in Nat /\ Nodes(net) = 0..N
  BY NetworkFacts DEF Nodes
<1> DEFINE G == [p \in [0..N -> BOOLEAN] \X (0..N) |-> At(p[1], p[2])]
<1>2. \A V, n : At(V, n) \in BOOLEAN
  OBVIOUS
<1> HIDE DEF N, At
<1>3. G \in [[0..N -> BOOLEAN] \X (0..N) -> BOOLEAN]
  BY <1>2
<1>4. \A f \in [0..N -> BOOLEAN], n \in 0..N : G[<<f, n>>] = At(f, n)
  OBVIOUS
<1> HIDE DEF G
<1>5. ASSUME NEW f \in [0..N -> BOOLEAN], NEW g \in [0..N -> BOOLEAN], NEW n \in 0..N,
             \A h \in 0..(n - 1) : f[h] = g[h]
      PROVE  G[<<f, n>>] = G[<<g, n>>]
  <2>1. IsGate(net, n) => \A l \in FaninNodes(net, n) : f[l] = g[l]
    <3> SUFFICES ASSUME IsGate(net, n), NEW i \in 1..2
                 PROVE  f[Fanins(net, n)[i].index] = g[Fanins(net, n)[i].index]
      BY DEF FaninNodes
    <3>1. Fanins(net, n)[i].index \in 0..(n - 1)
      BY <1>1, NetworkFacts DEF Nodes
    <3> QED BY <1>5, <3>1
  <2>2. At(f, n) = At(g, n)
    BY <2>1, Zenon DEF At
  <2> QED BY <1>4, <2>2
<1>6. \E V \in [0..N -> BOOLEAN] : \A n \in 0..N : V[n] = G[<<V, n>>]
  <2>1. \A f, g \in [0..N -> BOOLEAN], n \in 0..N :
          (\A h \in 0..(n - 1) : f[h] = g[h]) => G[<<f, n>>] = G[<<g, n>>]
    BY <1>5
  <2>2. LooksBelow(N, G)
    BY <1>3, <2>1 DEF LooksBelow
  <2>3. N \in Nat
    BY <1>1
  <2> QED BY <2>2, <2>3, RecursionExists
<1>7. PICK V \in [0..N -> BOOLEAN] : \A n \in 0..N : V[n] = At(V, n)
  BY <1>4, <1>6
<1>8. V = [n \in 0..N |-> At(V, n)]
  BY <1>7
<1> DEFINE Sound(U) == U = [n \in 0..N |-> At(U, n)]
<1>9. CoveredBy(net, leaves) = CHOOSE U : Sound(U)
  BY <1>1, Zenon DEF CoveredBy, At
<1>10. Sound(CoveredBy(net, leaves))
  <2>1. Sound(V)
    BY <1>8
  <2> HIDE DEF Sound
  <2> QED BY <1>9, <2>1
<1>11. \A n \in Nodes(net) : CoveredBy(net, leaves)[n] <=> At(CoveredBy(net, leaves), n)
  BY <1>1, <1>2, <1>10
<1> QED BY <1>11, NetworkFacts DEF At, FaninNodes

\* A gate is needed by an output, or by a gate over it that is needed.
NeededAt(net, R, n) ==
    \/ \E i \in DOMAIN net.pos : net.pos[i].index = n
    \/ \E m \in Gates(net) : m > n /\ n \in FaninNodes(net, m) /\ R[m]

LEMMA NeededEquation ==
  ASSUME NEW net, IsNetwork(net)
  PROVE  \A n \in Gates(net) : Needed(net)[n] <=> NeededAt(net, Needed(net), n)
<1> DEFINE L == Len(net.gates)
<1> DEFINE N == net.pis + L
<1>1. L \in Nat /\ N \in Nat /\ Gates(net) = (net.pis + 1)..N /\ net.pis \in Nat
  BY NetworkFacts DEF Gates
<1> DEFINE At(f, j) == NeededAt(net, [n \in Gates(net) |-> f[N - n]], N - j)
<1> DEFINE G == [p \in [0..L -> BOOLEAN] \X (0..L) |-> At(p[1], p[2])]
<1>2. \A f, j : At(f, j) \in BOOLEAN
  BY DEF NeededAt
<1> HIDE DEF L, N, At
<1>3. G \in [[0..L -> BOOLEAN] \X (0..L) -> BOOLEAN]
  BY <1>2
<1>4. \A f \in [0..L -> BOOLEAN], j \in 0..L : G[<<f, j>>] = At(f, j)
  OBVIOUS
<1> HIDE DEF G
<1>5. ASSUME NEW f \in [0..L -> BOOLEAN], NEW g \in [0..L -> BOOLEAN], NEW j \in 0..L,
             \A h \in 0..(j - 1) : f[h] = g[h]
      PROVE  G[<<f, j>>] = G[<<g, j>>]
  <2>1. \A m \in Gates(net) : m > N - j => f[N - m] = g[N - m]
    BY <1>1, <1>5 DEF N
  <2>2. At(f, j) = At(g, j)
    BY <2>1 DEF At, NeededAt
  <2> QED BY <1>4, <2>2
<1>6. \E V \in [0..L -> BOOLEAN] : \A j \in 0..L : V[j] = G[<<V, j>>]
  <2>1. LooksBelow(L, G)
    BY <1>3, <1>5 DEF LooksBelow
  <2> QED BY <1>1, <2>1, RecursionExists
<1>7. PICK V \in [0..L -> BOOLEAN] : \A j \in 0..L : V[j] = At(V, j)
  BY <1>4, <1>6
<1> DEFINE R == [n \in Gates(net) |-> V[N - n]]
<1>8. R = [n \in Gates(net) |-> NeededAt(net, R, n)]
  <2>1. ASSUME NEW n \in Gates(net) PROVE R[n] = NeededAt(net, R, n)
    <3>1. N - n \in 0..L /\ N - (N - n) = n
      BY <1>1 DEF N
    <3>2. V[N - n] = At(V, N - n)
      BY <1>7, <3>1
    <3> QED BY <3>1, <3>2 DEF At
  <2>2. R = [n \in Gates(net) |-> R[n]]
    OBVIOUS
  <2> HIDE DEF R
  <2> QED BY <2>1, <2>2
<1> HIDE DEF R
<1> DEFINE Sound(U) == U = [n \in Gates(net) |-> NeededAt(net, U, n)]
<1>9. Needed(net) = CHOOSE U : Sound(U)
  BY Zenon DEF Needed, NeededAt
<1>10. Sound(Needed(net))
  <2>1. Sound(R)
    BY <1>8
  <2> HIDE DEF Sound
  <2> QED BY <1>9, <2>1
<1>11. \A n \in Gates(net) : Needed(net)[n] = NeededAt(net, Needed(net), n)
  BY <1>10
<1> QED BY <1>11

\* What a gate that is needed reads is needed.
LEMMA LiveClosed ==
  ASSUME NEW net, IsNetwork(net)
  PROVE  /\ LiveGates(net) \subseteq Gates(net)
         /\ \A n \in LiveGates(net), i \in 1..2 :
              Fanins(net, n)[i].index \in 1..net.pis \/ Fanins(net, n)[i].index \in LiveGates(net)
         /\ \A i \in DOMAIN net.pos :
              net.pos[i].index \in 0..net.pis \/ net.pos[i].index \in LiveGates(net)
<1>1. LiveGates(net) \subseteq Gates(net)
  BY DEF LiveGates
<1>2. ASSUME NEW n \in LiveGates(net), NEW i \in 1..2, Fanins(net, n)[i].index \notin 1..net.pis
      PROVE  Fanins(net, n)[i].index \in LiveGates(net)
  <2> DEFINE l == Fanins(net, n)[i].index
  <2>1. n \in Gates(net) /\ Needed(net)[n]
    BY DEF LiveGates
  <2>2. l \in Gates(net) /\ l < n
    BY <1>2, <2>1, NetworkFacts DEF Nodes, Gates
  <2>3. n > l /\ l \in FaninNodes(net, n)
    BY <2>1, <2>2 DEF FaninNodes, Gates
  <2>4. Needed(net)[l]
    BY <2>1, <2>2, <2>3, NeededEquation DEF NeededAt
  <2> QED BY <2>2, <2>4 DEF LiveGates
<1>3. ASSUME NEW i \in DOMAIN net.pos, net.pos[i].index \notin 0..net.pis
      PROVE  net.pos[i].index \in LiveGates(net)
  <2>1. net.pos[i].index \in Gates(net)
    BY <1>3, NetworkFacts DEF IsNetwork, Nodes, Gates
  <2>2. Needed(net)[net.pos[i].index]
    BY <2>1, NeededEquation DEF NeededAt
  <2> QED BY <2>1, <2>2 DEF LiveGates
<1> QED BY <1>1, <1>2, <1>3

-----------------------------------------------------------------------------
(* Values.                                                                 *)

\* Whatever agrees with the leaves and with the gates over them on a set of nodes
\* that is closed gives their values.
Agrees(net, leaves, a, u, C) ==
    /\ C \subseteq Nodes(net) /\ \A n \in C : u[n] \in BOOLEAN
    /\ \A n \in C \cap leaves : u[n] <=> n \in a
    /\ \A n \in C \ leaves : ~ IsGate(net, n) => ~ u[n]
    /\ \A n \in C \ leaves : IsGate(net, n) =>
          /\ \A i \in 1..2 : Fanins(net, n)[i].index \in C
          /\ u[n] <=> \A i \in 1..2 : u[Fanins(net, n)[i].index] # Fanins(net, n)[i].complement

LEMMA ValuesDetermined ==
  ASSUME NEW net, IsNetwork(net), NEW leaves, NEW a, NEW u, NEW C, Agrees(net, leaves, a, u, C)
  PROVE  \A n \in C : Values(net, leaves, a)[n] = u[n]
<1> USE DEF Agrees
<1> DEFINE V == Values(net, leaves, a)
<1> DEFINE A == {n \in C : V[n] # u[n]}
<1> SUFFICES ASSUME A # {} PROVE FALSE
  OBVIOUS
<1>1. A \subseteq Nat
  BY NetworkFacts
<1>2. PICK n \in A : \A m \in A : n <= m
  BY <1>1, LeastMember
<1>3. V[n] \in BOOLEAN /\ (V[n] <=> ValueAt(net, leaves, a, V, n))
  BY ValuesEquation
<1>4. CASE n \in leaves
  BY <1>2, <1>3, <1>4 DEF ValueAt
<1>5. CASE n \notin leaves /\ ~ IsGate(net, n)
  BY <1>2, <1>3, <1>5 DEF ValueAt
<1>6. CASE n \notin leaves /\ IsGate(net, n)
  <2>1. ASSUME NEW i \in 1..2 PROVE V[Fanins(net, n)[i].index] = u[Fanins(net, n)[i].index]
    <3>1. Fanins(net, n)[i].index \in C /\ Fanins(net, n)[i].index \notin A
      <4>1. n \in Gates(net) /\ n \in Nat
        BY <1>6, NetworkFacts
      <4>2. Fanins(net, n)[i].index \in Nat /\ Fanins(net, n)[i].index < n
        BY <4>1, NetworkFacts DEF Signals
      <4> QED BY <1>2, <1>6, <4>1, <4>2
    <3> QED BY <3>1
  <2>2. V[n] <=> u[n]
    <3> HIDE DEF V
    <3>1. V[n] <=> \A i \in 1..2 : V[Fanins(net, n)[i].index] # Fanins(net, n)[i].complement
      BY <1>3, <1>6 DEF ValueAt
    <3>2. u[n] <=> \A i \in 1..2 : u[Fanins(net, n)[i].index] # Fanins(net, n)[i].complement
      BY <1>2, <1>6
    <3> QED BY <2>1, <3>1, <3>2
  <2> QED BY <1>2, <1>3, <2>2
<1> QED BY <1>4, <1>5, <1>6

\* The value of a signal as a function of the inputs that are true.
On(net, a, f) == Holds(net, f, Inputs(net), a)

\* Inputs are what they are assigned, the constant is false, a gate is the and of its
\* fanins.
LEMMA NodeValues ==
  ASSUME NEW net, IsNetwork(net), NEW a
  PROVE  /\ Values(net, Inputs(net), a) \in [Nodes(net) -> BOOLEAN]
         /\ ~ Values(net, Inputs(net), a)[0]
         /\ \A n \in Inputs(net) : Values(net, Inputs(net), a)[n] <=> n \in a
         /\ \A n \in Gates(net) : Values(net, Inputs(net), a)[n] <=>
              On(net, a, Fanins(net, n)[1]) /\ On(net, a, Fanins(net, n)[2])
<1> DEFINE V == Values(net, Inputs(net), a)
<1>1. /\ V \in [Nodes(net) -> BOOLEAN]
      /\ \A n \in Nodes(net) : V[n] <=> ValueAt(net, Inputs(net), a, V, n)
  BY ValuesEquation
<1>2. /\ net.pis \in Nat /\ 0 \in Nodes(net) /\ 0 \notin Inputs(net) /\ ~ IsGate(net, 0)
      /\ Inputs(net) \subseteq Nodes(net)
      /\ \A n \in Gates(net) : n \in Nodes(net) /\ n \notin Inputs(net) /\ IsGate(net, n)
  BY NetworkFacts DEF Nodes, Inputs, IsGate, Gates
<1> HIDE DEF V
<1>3. ~ V[0]
  BY <1>1, <1>2 DEF ValueAt
<1>4. \A n \in Inputs(net) : V[n] <=> n \in a
  BY <1>1, <1>2 DEF ValueAt
<1>5. ASSUME NEW n \in Gates(net)
      PROVE  V[n] <=> On(net, a, Fanins(net, n)[1]) /\ On(net, a, Fanins(net, n)[2])
  <2>1. V[n] <=> \A i \in 1..2 : V[Fanins(net, n)[i].index] # Fanins(net, n)[i].complement
    BY <1>1, <1>2 DEF ValueAt
  <2>2. \A i \in 1..2 : i = 1 \/ i = 2
    OBVIOUS
  <2> QED BY <2>1, <2>2 DEF On, Holds, V
<1> QED BY <1>1, <1>3, <1>4, <1>5 DEF V

\* A network that grows computes what it computed.
LEMMA GrowsKeeps ==
  ASSUME NEW net, IsNetwork(net), NEW big, Grows(net, big), NEW a
  PROVE  /\ \A n \in Nodes(net) : Values(big, Inputs(big), a)[n] = Values(net, Inputs(net), a)[n]
         /\ \A f \in SignalsOf(net) : On(big, a, f) = On(net, a, f)
<1> DEFINE u == Values(big, Inputs(big), a)
<1>1. /\ Inputs(big) = Inputs(net) /\ Nodes(net) \subseteq Nodes(big) /\ IsNetwork(big)
      /\ \A n \in Gates(net) : n \in Gates(big) /\ Fanins(big, n) = Fanins(net, n)
  BY GrowsFacts DEF Grows
<1>2. /\ u \in [Nodes(big) -> BOOLEAN]
      /\ \A n \in Nodes(big) : u[n] <=> ValueAt(big, Inputs(big), a, u, n)
  BY <1>1, ValuesEquation
<1>3. \A n \in Nodes(net) : (IsGate(net, n) <=> n \in Gates(net)) /\ (IsGate(big, n) <=> IsGate(net, n))
  BY <1>1, NetworkFacts DEF Grows, IsGate
<1> HIDE DEF u
<1>4. \A n \in Nodes(net) \cap Inputs(net) : u[n] <=> n \in a
  BY <1>1, <1>2 DEF ValueAt
<1>5. \A n \in Nodes(net) \ Inputs(net) : ~ IsGate(net, n) => ~ u[n]
  BY <1>1, <1>2, <1>3 DEF ValueAt
<1>6. ASSUME NEW n \in Nodes(net) \ Inputs(net), IsGate(net, n)
      PROVE  /\ \A i \in 1..2 : Fanins(net, n)[i].index \in Nodes(net)
             /\ u[n] <=> \A i \in 1..2 : u[Fanins(net, n)[i].index] # Fanins(net, n)[i].complement
  <2>1. n \in Gates(net) /\ n \in Nodes(big) /\ n \notin Inputs(big) /\ IsGate(big, n)
    BY <1>1, <1>3, <1>6
  <2>2. Fanins(big, n) = Fanins(net, n)
    BY <1>1, <2>1
  <2> QED BY <1>2, <2>1, <2>2, NetworkFacts DEF ValueAt
<1>7. \A n \in Nodes(net) : u[n] \in BOOLEAN
  BY <1>1, <1>2
<1>8. \A n \in Nodes(net) : Values(net, Inputs(net), a)[n] = u[n]
  <2>1. Agrees(net, Inputs(net), a, u, Nodes(net))
    BY <1>4, <1>5, <1>6, <1>7 DEF Agrees
  <2> QED BY <2>1, ValuesDetermined
<1> QED BY <1>8 DEF On, Holds, SignalsOf, u

-----------------------------------------------------------------------------
(* Signals and gates.                                                      *)

LEMMA SignalFacts ==
  /\ \A n \in Nat, c \in BOOLEAN :
       Signal(n, c) \in Signals /\ Signal(n, c).index = n /\ Signal(n, c).complement = c
  /\ \A f \in Signals :
       /\ f.index \in Nat /\ f.complement \in BOOLEAN
       /\ create_not(f) \in Signals /\ create_not(f).index = f.index
       /\ create_not(f).complement = ~ f.complement
  /\ \A f, g \in Signals : f.index = g.index /\ f.complement = g.complement => f = g
<1>1. \A n \in Nat, c \in BOOLEAN :
        Signal(n, c) \in Signals /\ Signal(n, c).index = n /\ Signal(n, c).complement = c
  BY DEF Signal, Signals
<1>2. ASSUME NEW f \in Signals
      PROVE  /\ f.index \in Nat /\ f.complement \in BOOLEAN
             /\ create_not(f) \in Signals /\ create_not(f).index = f.index
             /\ create_not(f).complement = ~ f.complement
  <2>1. f.index \in Nat /\ f.complement \in BOOLEAN
    BY DEF Signals
  <2>2. (~ f.complement) \in BOOLEAN
    OBVIOUS
  <2> QED BY <2>1, <2>2 DEF Signals, create_not
<1>3. ASSUME NEW f \in Signals, NEW g \in Signals, f.index = g.index, f.complement = g.complement
      PROVE  f = g
  <2>1. f = [index |-> f.index, complement |-> f.complement]
    BY DEF Signals
  <2>2. g = [index |-> g.index, complement |-> g.complement]
    BY DEF Signals
  <2> QED BY <1>3, <2>1, <2>2
<1> QED BY <1>1, <1>2, <1>3

LEMMA SignalValues ==
  ASSUME NEW net, IsNetwork(net), NEW a
  PROVE  /\ \A f \in SignalsOf(net) :
              /\ On(net, a, f) \in BOOLEAN
              /\ On(net, a, f) <=> (Values(net, Inputs(net), a)[f.index] # f.complement)
              /\ create_not(f) \in SignalsOf(net)
              /\ On(net, a, create_not(f)) <=> ~ On(net, a, f)
         /\ get_constant \in SignalsOf(net) /\ ~ On(net, a, get_constant)
         /\ \A n \in Nodes(net) : Signal(n, FALSE) \in SignalsOf(net)
                /\ (On(net, a, Signal(n, FALSE)) <=> Values(net, Inputs(net), a)[n])
<1> DEFINE V == Values(net, Inputs(net), a)
<1>1. V \in [Nodes(net) -> BOOLEAN] /\ ~ V[0]
  BY NodeValues
<1>2. \A f : On(net, a, f) = (V[f.index] # f.complement)
  BY DEF On, Holds
<1>3. Nodes(net) \subseteq Nat /\ 0 \in Nodes(net)
  BY NetworkFacts DEF Nodes
<1> HIDE DEF V
<1>4. ASSUME NEW f \in SignalsOf(net)
      PROVE  /\ On(net, a, f) \in BOOLEAN
             /\ create_not(f) \in SignalsOf(net)
             /\ On(net, a, create_not(f)) <=> ~ On(net, a, f)
  <2>1. f \in Signals /\ f.index \in Nodes(net) /\ V[f.index] \in BOOLEAN
    BY <1>1 DEF SignalsOf
  <2>2. create_not(f) \in Signals /\ create_not(f).index = f.index
        /\ create_not(f).complement = ~ f.complement /\ f.complement \in BOOLEAN
    BY <2>1, SignalFacts
  <2> QED BY <1>2, <2>1, <2>2 DEF SignalsOf
<1>5. ASSUME NEW n \in Nodes(net)
      PROVE  Signal(n, FALSE) \in SignalsOf(net) /\ (On(net, a, Signal(n, FALSE)) <=> V[n])
  <2>1. Signal(n, FALSE) \in Signals /\ Signal(n, FALSE).index = n
        /\ Signal(n, FALSE).complement = FALSE
    BY <1>3, SignalFacts
  <2> QED BY <1>1, <1>2, <2>1 DEF SignalsOf
<1> QED BY <1>1, <1>2, <1>3, <1>4, <1>5 DEF get_constant, V

LEMMA ImageFacts ==
  ASSUME NEW net, IsNetwork(net), NEW map, NEW f \in Signals, map[f.index] \in SignalsOf(net), NEW a
  PROVE  /\ Image(map, f) \in SignalsOf(net)
         /\ On(net, a, Image(map, f)) <=> (On(net, a, map[f.index]) # f.complement)
<1>1. f.complement \in BOOLEAN
  BY SignalFacts
<1>2. /\ On(net, a, map[f.index]) \in BOOLEAN
      /\ create_not(map[f.index]) \in SignalsOf(net)
      /\ On(net, a, create_not(map[f.index])) <=> ~ On(net, a, map[f.index])
  BY SignalValues
<1>3. CASE f.complement
  BY <1>1, <1>2, <1>3 DEF Image
<1>4. CASE ~ f.complement
  BY <1>1, <1>2, <1>4 DEF Image
<1> QED BY <1>1, <1>3, <1>4

\* A new gate.
LEMMA AppendGrows ==
  ASSUME NEW net, IsNetwork(net), NEW a \in SignalsOf(net), NEW b \in SignalsOf(net),
         0 < a.index, a.index < b.index,
         NEW big, big = [net EXCEPT !.gates = Append(@, <<a, b>>)],
         NEW n, n = net.pis + Len(net.gates) + 1
  PROVE  /\ Grows(net, big) /\ Len(big.gates) = Len(net.gates) + 1
         /\ n \in Gates(big) /\ Fanins(big, n) = <<a, b>> /\ Signal(n, FALSE) \in SignalsOf(big)
<1>1. /\ net \in [pis: Nat, gates: Seq(Signals \X Signals), pos: Seq(Signals)]
      /\ net.pis \in Nat /\ net.gates \in Seq(Signals \X Signals) /\ Len(net.gates) \in Nat
  BY NetworkFacts DEF IsNetwork
<1>2. a \in Signals /\ b \in Signals /\ a.index \in 0..(n - 1) /\ b.index \in 0..(n - 1)
  BY <1>1 DEF SignalsOf, Nodes
<1>3. /\ big.pis = net.pis /\ big.pos = net.pos /\ big.gates = Append(net.gates, <<a, b>>)
      /\ big \in [pis: Nat, gates: Seq(Signals \X Signals), pos: Seq(Signals)]
  <2>1. <<a, b>> \in Signals \X Signals
    BY <1>2
  <2>2. Append(net.gates, <<a, b>>) \in Seq(Signals \X Signals)
    BY <1>1, <2>1
  <2> QED BY <1>1, <2>2
<1>4. /\ Len(big.gates) = Len(net.gates) + 1 /\ big.gates[Len(net.gates) + 1] = <<a, b>>
      /\ \A k \in 1..Len(net.gates) : big.gates[k] = net.gates[k]
  BY <1>1, <1>2, <1>3
<1>5. /\ n \in Nat /\ n \in Gates(big) /\ n \in Nodes(big) /\ Fanins(big, n) = <<a, b>>
      /\ \A m \in Gates(big) : m = n \/ (m \in Gates(net) /\ Fanins(big, m) = Fanins(net, m))
  BY <1>1, <1>3, <1>4 DEF Gates, Nodes, Fanins
<1>6. \A m \in Gates(big) :
        /\ 0 < Fanins(big, m)[1].index /\ Fanins(big, m)[1].index < Fanins(big, m)[2].index
        /\ Fanins(big, m)[2].index < m
  <2> TAKE m \in Gates(big)
  <2>1. CASE m = n
    <3>1. Fanins(big, m)[1] = a /\ Fanins(big, m)[2] = b
      BY <1>5, <2>1
    <3> QED BY <1>1, <1>2, <2>1, <3>1
  <2>2. CASE m \in Gates(net) /\ Fanins(big, m) = Fanins(net, m)
    BY <2>2 DEF IsNetwork
  <2> QED BY <1>5, <2>1, <2>2
<1>7. \A i \in DOMAIN big.pos : big.pos[i].index \in Nodes(big)
  BY <1>1, <1>3, <1>4 DEF IsNetwork, Nodes
<1>8. IsNetwork(big)
  BY <1>3, <1>6, <1>7 DEF IsNetwork
<1>9. Signal(n, FALSE) \in SignalsOf(big)
  BY <1>5, SignalFacts DEF SignalsOf
<1>10. Grows(net, big)
  BY <1>1, <1>3, <1>4, <1>8 DEF Grows
<1> QED BY <1>4, <1>5, <1>9, <1>10

\* create_and gives the and of two signals, with at most one gate more.
LEMMA AndCorrect ==
  ASSUME NEW net, IsNetwork(net), NEW f \in SignalsOf(net), NEW g \in SignalsOf(net),
         NEW new, new = create_and(net, f, g)
  PROVE  /\ Grows(net, new.net) /\ Len(new.net.gates) <= Len(net.gates) + 1
         /\ new.f \in SignalsOf(new.net)
         /\ \A x : On(new.net, x, new.f) <=> On(net, x, f) /\ On(net, x, g)
<1> DEFINE a == IF f.index > g.index THEN g ELSE f
<1> DEFINE b == IF f.index > g.index THEN f ELSE g
<1> DEFINE same == {n \in Gates(net) : Fanins(net, n) = <<a, b>>}
<1> DEFINE Old(s) == [net |-> net, f |-> s]
<1>1. new = CASE a = b -> Old(a)
              [] a = create_not(b) -> Old(get_constant)
              [] a.index = 0 /\ b.index > 0 -> Old(IF a.complement THEN b ELSE get_constant)
              [] a.index \in 1..(b.index - 1) ->
                 IF same # {} THEN Old(Signal(CHOOSE n \in same : TRUE, FALSE))
                 ELSE [net |-> [net EXCEPT !.gates = Append(@, <<a, b>>)],
                       f |-> Signal(net.pis + Len(net.gates) + 1, FALSE)]
  BY DEF create_and
<1>2. /\ a \in SignalsOf(net) /\ b \in SignalsOf(net) /\ a.index \in Nat /\ b.index \in Nat
      /\ a \in Signals /\ b \in Signals /\ a.complement \in BOOLEAN /\ b.complement \in BOOLEAN
      /\ a.index <= b.index
      /\ \A x : On(net, x, a) /\ On(net, x, b) <=> On(net, x, f) /\ On(net, x, g)
  <2>1. f \in Signals /\ g \in Signals /\ f.index \in Nat /\ g.index \in Nat
        /\ f.complement \in BOOLEAN /\ g.complement \in BOOLEAN
    BY SignalFacts DEF SignalsOf
  <2> QED BY <2>1
<1> HIDE DEF a, b
<1>3. Grows(net, net) /\ Len(net.gates) \in Nat
  BY GrowsReflexive, NetworkFacts
<1>4. ASSUME NEW s \in SignalsOf(net), new = Old(s),
             \A x : On(net, x, s) <=> On(net, x, a) /\ On(net, x, b)
      PROVE  /\ Grows(net, new.net) /\ Len(new.net.gates) <= Len(net.gates) + 1
             /\ new.f \in SignalsOf(new.net)
             /\ \A x : On(new.net, x, new.f) <=> On(net, x, f) /\ On(net, x, g)
  <2>1. new.net = net /\ new.f = s
    BY <1>4
  <2> QED BY <1>2, <1>3, <1>4, <2>1
<1> HIDE DEF Old, same
<1>5. CASE a = b
  <2>1. new = Old(a)
    <3>1. a # create_not(b)
      BY <1>2, <1>5, SignalFacts
    <3>2. ~(a.index = 0 /\ b.index > 0) /\ a.index \notin 1..(b.index - 1)
      BY <1>2, <1>5
    <3> QED BY <1>1, <1>5, <3>1, <3>2
  <2>2. \A x : On(net, x, a) <=> On(net, x, a) /\ On(net, x, b)
    BY <1>5
  <2> QED BY <1>2, <1>4, <2>1, <2>2
<1>6. CASE a # b /\ a = create_not(b)
  <2>1. new = Old(get_constant)
    <3>1. a.index = b.index
      BY <1>2, <1>6, SignalFacts
    <3>2. ~(a.index = 0 /\ b.index > 0) /\ a.index \notin 1..(b.index - 1)
      BY <1>2, <3>1
    <3> QED BY <1>1, <1>6, <3>2
  <2>2. get_constant \in SignalsOf(net) /\ \A x : ~ On(net, x, get_constant)
    BY SignalValues
  <2>3. \A x : On(net, x, a) <=> ~ On(net, x, b)
    BY <1>2, <1>6, SignalValues
  <2> QED BY <1>4, <2>1, <2>2, <2>3
<1>7. CASE a # b /\ a # create_not(b)
  <2>0. a.index < b.index
    BY <1>2, <1>7, SignalFacts
  <2>1. CASE a.index = 0
    <3>1. new = Old(IF a.complement THEN b ELSE get_constant)
      BY <1>1, <1>7, <2>0, <2>1
    <3>2. \A x : On(net, x, a) <=> a.complement
      <4>1. \A x : On(net, x, a) <=> (Values(net, Inputs(net), x)[0] # a.complement)
        BY <1>2, <2>1, SignalValues
      <4>2. \A x : Values(net, Inputs(net), x)[0] = FALSE
        <5>1. 0 \in Nodes(net)
          BY NetworkFacts DEF Nodes
        <5> QED BY <5>1, NodeValues
      <4> QED BY <1>2, <4>1, <4>2
    <3>3. get_constant \in SignalsOf(net) /\ \A x : ~ On(net, x, get_constant)
      BY SignalValues
    <3>4. CASE a.complement
      BY <1>2, <1>4, <3>1, <3>2, <3>4
    <3>5. CASE ~ a.complement
      BY <1>2, <1>4, <3>1, <3>2, <3>3, <3>5
    <3> QED BY <3>4, <3>5
  <2>2. CASE a.index # 0
    <3>1. a.index \in 1..(b.index - 1) /\ ~(a.index = 0 /\ b.index > 0)
      BY <1>2, <2>0, <2>2
    <3>2. CASE same # {}
      <4> DEFINE n == CHOOSE n \in same : TRUE
      <4>1. new = Old(Signal(n, FALSE))
        BY <1>1, <1>7, <3>1, <3>2
      <4>2. n \in Gates(net) /\ Fanins(net, n) = <<a, b>>
        BY <3>2 DEF same
      <4> HIDE DEF n
      <4>3. n \in Nodes(net) /\ Fanins(net, n)[1] = a /\ Fanins(net, n)[2] = b
        BY <4>2, NetworkFacts DEF Gates, Nodes
      <4>4. \A x : On(net, x, Signal(n, FALSE)) <=> On(net, x, a) /\ On(net, x, b)
        BY <4>2, <4>3, NodeValues, SignalValues
      <4>5. Signal(n, FALSE) \in SignalsOf(net)
        BY <4>3, SignalValues
      <4> QED BY <1>4, <4>1, <4>4, <4>5
    <3>3. CASE same = {}
      <4> DEFINE big == [net EXCEPT !.gates = Append(@, <<a, b>>)]
      <4> DEFINE n == net.pis + Len(net.gates) + 1
      <4>1. new = [net |-> big, f |-> Signal(n, FALSE)]
        BY <1>1, <1>7, <3>1, <3>3
      <4>2. 0 < a.index
        BY <1>2, <2>2
      <4>3. /\ Grows(net, big) /\ Len(big.gates) = Len(net.gates) + 1
            /\ n \in Gates(big) /\ Fanins(big, n) = <<a, b>> /\ Signal(n, FALSE) \in SignalsOf(big)
        BY <1>2, <2>0, <4>2, AppendGrows
      <4> HIDE DEF big, n
      <4>4. new.net = big /\ new.f = Signal(n, FALSE)
        BY <4>1
      <4>5. IsNetwork(big) /\ n \in Nodes(big) /\ Fanins(big, n)[1] = a /\ Fanins(big, n)[2] = b
        <5>1. IsNetwork(big)
          BY <4>3 DEF Grows
        <5> QED BY <4>3, <5>1, NetworkFacts DEF Gates, Nodes
      <4>6. \A x : On(big, x, Signal(n, FALSE)) <=> On(big, x, a) /\ On(big, x, b)
        BY <4>3, <4>5, NodeValues, SignalValues
      <4>7. \A x : On(big, x, a) = On(net, x, a) /\ On(big, x, b) = On(net, x, b)
        BY <1>2, <4>3, GrowsKeeps
      <4>8. \A x : On(big, x, new.f) <=> On(net, x, f) /\ On(net, x, g)
        BY <1>2, <4>4, <4>6, <4>7
      <4>9. Len(big.gates) <= Len(net.gates) + 1
        BY <1>3, <4>3
      <4> QED BY <4>3, <4>4, <4>8, <4>9
    <3> QED BY <3>2, <3>3
  <2> QED BY <2>1, <2>2
<1> QED BY <1>5, <1>6, <1>7

-----------------------------------------------------------------------------
(* Depths.                                                                 *)

\* One more than the later of two levels.
Over(p, q) == (IF p < q THEN q ELSE p) + 1

\* A gate is one deeper than the deeper one of its fanins.
LEMMA DepthEquation ==
  ASSUME NEW net, IsNetwork(net)
  PROVE  /\ \A n \in Nodes(net) : Depth(net, n) \in Nat
         /\ \A n \in 0..net.pis : Depth(net, n) = 0
         /\ \A n \in Gates(net) : Depth(net, n) =
              Over(Depth(net, Fanins(net, n)[1].index), Depth(net, Fanins(net, n)[2].index))
<1> DEFINE N == net.pis + Len(net.gates)
           At(U, n) == IF IsGate(net, n) THEN 1 + Max({U[l] : l \in FaninNodes(net, n)}) ELSE 0
           Sound(m, U) == U = [n \in 0..m |-> At(U, n)]
<1>1. N \in Nat /\ Nodes(net) = 0..N /\ net.pis \in Nat
  BY NetworkFacts DEF Nodes
<1>2. \A n \in Nodes(net) : IsGate(net, n) =>
         /\ FaninNodes(net, n) = {Fanins(net, n)[1].index, Fanins(net, n)[2].index}
         /\ FaninNodes(net, n) \subseteq 0..(n - 1)
  <2> SUFFICES ASSUME NEW n \in Nodes(net), IsGate(net, n)
               PROVE  /\ FaninNodes(net, n) = {Fanins(net, n)[1].index, Fanins(net, n)[2].index}
                      /\ FaninNodes(net, n) \subseteq 0..(n - 1)
    OBVIOUS
  <2>1. n \in Gates(net) /\ n \in Nat
    BY NetworkFacts
  <2>2. \A i \in 1..2 : Fanins(net, n)[i].index \in 0..(n - 1)
    BY <2>1, NetworkFacts DEF Signals
  <2>3. 1..2 = {1, 2}
    OBVIOUS
  <2> QED BY <2>2, <2>3 DEF FaninNodes
<1>3. \A U, W, n : n \in Nodes(net) /\ (\A l \in 0..(n - 1) : U[l] = W[l]) => At(U, n) = At(W, n)
  <2> SUFFICES ASSUME NEW U, NEW W, NEW n \in Nodes(net), \A l \in 0..(n - 1) : U[l] = W[l]
               PROVE  At(U, n) = At(W, n)
    OBVIOUS
  <2>1. CASE IsGate(net, n)
    <3>1. {U[l] : l \in FaninNodes(net, n)} = {W[l] : l \in FaninNodes(net, n)}
      BY <1>2, <2>1
    <3> QED BY <3>1
  <2>2. CASE ~ IsGate(net, n)
    BY <2>2
  <2> QED BY <2>1, <2>2
<1> HIDE DEF N, At
<1>4. ASSUME NEW m \in 1..N, NEW U, Sound(m - 1, U) PROVE \E W : Sound(m, W)
  <2> DEFINE W == [n \in 0..m |-> At(U, n)]
  <2>1. \A n \in 0..(m - 1) : U[n] = At(U, n)
    BY <1>4
  <2>2. \A n \in 0..(m - 1) : U[n] = W[n]
    BY <2>1
  <2>3. W = [n \in 0..m |-> At(U, n)]
    OBVIOUS
  <2> HIDE DEF W
  <2>4. \A n \in 0..m : At(U, n) = At(W, n)
    BY <1>1, <1>3, <2>2
  <2>5. W = [n \in 0..m |-> At(W, n)]
    BY <2>3, <2>4
  <2> QED BY <2>5
<1>5. \E U : Sound(0, U)
  <2> DEFINE U == [n \in 0..0 |-> At(<<>>, n)]
  <2>1. U = [n \in 0..0 |-> At(<<>>, n)]
    OBVIOUS
  <2> HIDE DEF U
  <2>2. \A n \in 0..0 : At(<<>>, n) = At(U, n)
    BY <1>1, <1>3
  <2>3. U = [n \in 0..0 |-> At(U, n)]
    BY <2>1, <2>2
  <2> QED BY <2>3
<1> HIDE DEF Sound
<1>6. \A m \in 0..N : \E U : Sound(m, U)
  <2> DEFINE A == {m \in 0..N : ~ \E U : Sound(m, U)}
  <2> SUFFICES ASSUME A # {} PROVE FALSE
    OBVIOUS
  <2>1. PICK m \in A : \A a \in A : m <= a
    <3>1. A \in SUBSET Nat
      OBVIOUS
    <3> HIDE DEF A
    <3> QED BY <3>1, LeastMember
  <2>2. m \in 1..N /\ m - 1 \in 0..N /\ m - 1 \notin A
    BY <1>1, <1>5, <2>1
  <2> QED BY <1>4, <2>1, <2>2
<1> DEFINE D == CHOOSE U : Sound(N, U)
<1>7. \A n : Depth(net, n) = D[n]
  BY <1>1, Zenon DEF Depth, Sound, At
<1>8. Sound(N, D)
  <2>1. N \in 0..N
    BY <1>1
  <2> QED BY <1>6, <2>1
<1>9. \A n \in Nodes(net) : D[n] = At(D, n)
  BY <1>1, <1>8 DEF Sound
<1> HIDE DEF D
<1>10. ASSUME NEW n \in Gates(net), D[Fanins(net, n)[1].index] \in Nat, D[Fanins(net, n)[2].index] \in Nat
       PROVE  D[n] = Over(D[Fanins(net, n)[1].index], D[Fanins(net, n)[2].index])
  <2> DEFINE p == D[Fanins(net, n)[1].index]
             q == D[Fanins(net, n)[2].index]
  <2>1. n \in Nodes(net) /\ IsGate(net, n)
    BY NetworkFacts DEF Nodes, Gates
  <2>2. {D[l] : l \in FaninNodes(net, n)} = {p, q}
    BY <1>2, <2>1
  <2>3. D[n] = 1 + Max({p, q})
    BY <1>9, <2>1, <2>2 DEF At
  <2>4. p \in Nat /\ q \in Nat
    BY <1>10
  <2> HIDE DEF p, q
  <2>5. Max({p, q}) \in {p, q} /\ p <= Max({p, q}) /\ q <= Max({p, q})
    <3>1. {p, q} \in SUBSET (0..(p + q)) /\ p + q \in Nat /\ {p, q} # {}
      BY <2>4
    <3>2. Max({p, q}) \in {p, q} /\ \A x \in {p, q} : x <= Max({p, q})
      BY <3>1, MaxFacts
    <3> QED BY <3>2
  <2>6. D[n] = Over(p, q)
    BY <2>3, <2>4, <2>5 DEF Over
  <2> QED BY <2>6 DEF p, q
<1>11. \A n \in Nodes(net) : D[n] \in Nat
  <2> DEFINE A == {n \in Nodes(net) : D[n] \notin Nat}
  <2> SUFFICES ASSUME A # {} PROVE FALSE
    OBVIOUS
  <2>1. PICK n \in A : \A a \in A : n <= a
    <3>1. A \in SUBSET Nat
      BY <1>1
    <3> HIDE DEF A
    <3> QED BY <3>1, LeastMember
  <2>2. CASE n \in Gates(net)
    <3>1. \A i \in 1..2 : D[Fanins(net, n)[i].index] \in Nat
      <4> TAKE i \in 1..2
      <4>1. Fanins(net, n)[i].index \in Nodes(net) /\ Fanins(net, n)[i].index < n
        BY <2>2, NetworkFacts
      <4>2. Fanins(net, n)[i].index \notin A
        BY <1>1, <2>1, <4>1
      <4> QED BY <4>1, <4>2
    <3>2. D[n] = Over(D[Fanins(net, n)[1].index], D[Fanins(net, n)[2].index])
      BY <1>10, <2>2, <3>1
    <3>3. \A p, q \in Nat : Over(p, q) \in Nat
      BY DEF Over
    <3>4. 1 \in 1..2 /\ 2 \in 1..2
      OBVIOUS
    <3>5. D[n] \in Nat
      BY <3>1, <3>2, <3>3, <3>4
    <3> QED BY <2>1, <3>5
  <2>3. CASE n \notin Gates(net)
    <3>1. ~ IsGate(net, n)
      BY <2>1, <2>3, NetworkFacts
    <3>2. n \in Nodes(net) /\ D[n] \notin Nat
      BY <2>1
    <3>3. D[n] = 0
      BY <1>9, <3>1, <3>2 DEF At
    <3> QED BY <3>2, <3>3
  <2> QED BY <2>2, <2>3
<1>12. \A n \in 0..net.pis : D[n] = 0
  <2> TAKE n \in 0..net.pis
  <2>1. n \in Nodes(net) /\ ~ IsGate(net, n)
    BY <1>1, NetworkFacts DEF Nodes, IsGate
  <2> QED BY <1>9, <2>1 DEF At
<1>13. \A n \in Gates(net) : D[n] = Over(D[Fanins(net, n)[1].index], D[Fanins(net, n)[2].index])
  BY <1>10, <1>11, NetworkFacts
<1> QED BY <1>7, <1>11, <1>12, <1>13

\* The gates that are there stay as deep as they are.
LEMMA GrowsDepth ==
  ASSUME NEW net, IsNetwork(net), NEW big, Grows(net, big)
  PROVE  \A n \in Nodes(net) : Depth(big, n) = Depth(net, n)
<1> DEFINE A == {n \in Nodes(net) : Depth(big, n) # Depth(net, n)}
<1> SUFFICES ASSUME A # {} PROVE FALSE
  OBVIOUS
<1>1. /\ IsNetwork(big) /\ big.pis = net.pis /\ net.pis \in Nat
      /\ \A n \in Gates(net) : n \in Gates(big) /\ Fanins(big, n) = Fanins(net, n)
      /\ \A n \in Nodes(net) : n \in Nat /\ (n \in Gates(net) \/ n \in 0..net.pis)
  BY GrowsFacts, NetworkFacts DEF Grows, Nodes, Gates
<1>2. PICK n \in A : \A a \in A : n <= a
  <2>1. A \in SUBSET Nat
    BY <1>1
  <2> HIDE DEF A
  <2> QED BY <2>1, LeastMember
<1>3. CASE n \in 0..net.pis
  <2>1. Depth(net, n) = 0
    BY <1>3, DepthEquation
  <2>2. Depth(big, n) = 0
    BY <1>1, <1>3, DepthEquation
  <2> QED BY <1>2, <2>1, <2>2
<1>4. CASE n \in Gates(net)
  <2> DEFINE p == Fanins(net, n)[1].index
             q == Fanins(net, n)[2].index
  <2>1. p \in Nodes(net) /\ p < n /\ q \in Nodes(net) /\ q < n
    <3>1. \A i \in 1..2 : Fanins(net, n)[i].index \in Nodes(net) /\ Fanins(net, n)[i].index < n
      BY <1>4, NetworkFacts
    <3>2. 1 \in 1..2 /\ 2 \in 1..2
      OBVIOUS
    <3> QED BY <3>1, <3>2
  <2> HIDE DEF p, q
  <2>2. p \notin A /\ q \notin A
    <3>1. p \in Nat /\ q \in Nat /\ n \in Nat
      BY <1>1, <1>2, <2>1
    <3> HIDE DEF A
    <3> QED BY <1>2, <2>1, <3>1
  <2>3. Depth(big, p) = Depth(net, p) /\ Depth(big, q) = Depth(net, q)
    BY <2>1, <2>2
  <2>4. Depth(net, n) = Over(Depth(net, p), Depth(net, q))
    BY <1>4, DepthEquation DEF p, q
  <2>5. Depth(big, n) = Over(Depth(big, p), Depth(big, q))
    <3>1. n \in Gates(big) /\ Fanins(big, n)[1].index = p /\ Fanins(big, n)[2].index = q
      BY <1>1, <1>4 DEF p, q
    <3> QED BY <1>1, <3>1, DepthEquation
  <2> QED BY <1>2, <2>3, <2>4, <2>5
<1> QED BY <1>1, <1>2, <1>3, <1>4

\* The and of two signals is at most one deeper than the deeper one.
LEMMA AndDepth ==
  ASSUME NEW net, IsNetwork(net), NEW f \in SignalsOf(net), NEW g \in SignalsOf(net),
         NEW new, new = create_and(net, f, g)
  PROVE  Depth(new.net, new.f.index) <= Over(Depth(net, f.index), Depth(net, g.index))
<1> DEFINE a == IF f.index > g.index THEN g ELSE f
<1> DEFINE b == IF f.index > g.index THEN f ELSE g
<1> DEFINE same == {n \in Gates(net) : Fanins(net, n) = <<a, b>>}
<1> DEFINE Old(s) == [net |-> net, f |-> s]
<1> DEFINE bound == Over(Depth(net, f.index), Depth(net, g.index))
<1>1. new = CASE a = b -> Old(a)
              [] a = create_not(b) -> Old(get_constant)
              [] a.index = 0 /\ b.index > 0 -> Old(IF a.complement THEN b ELSE get_constant)
              [] a.index \in 1..(b.index - 1) ->
                 IF same # {} THEN Old(Signal(CHOOSE n \in same : TRUE, FALSE))
                 ELSE [net |-> [net EXCEPT !.gates = Append(@, <<a, b>>)],
                       f |-> Signal(net.pis + Len(net.gates) + 1, FALSE)]
  BY DEF create_and
<1>2. /\ a \in SignalsOf(net) /\ b \in SignalsOf(net) /\ a.index \in Nat /\ b.index \in Nat
      /\ a \in Signals /\ b \in Signals /\ a.index <= b.index
      /\ a.index \in Nodes(net) /\ b.index \in Nodes(net) /\ 0 \in Nodes(net)
  <2>1. f \in Signals /\ g \in Signals /\ f.index \in Nat /\ g.index \in Nat
    BY SignalFacts DEF SignalsOf
  <2>2. 0 \in Nodes(net)
    BY NetworkFacts DEF Nodes
  <2> QED BY <2>1, <2>2 DEF SignalsOf
<1>3. /\ \A n \in Nodes(net) : Depth(net, n) \in Nat
      /\ Depth(net, 0) = 0 /\ get_constant.index = 0
      /\ bound \in Nat /\ Depth(net, a.index) <= bound /\ Depth(net, b.index) <= bound
      /\ Over(Depth(net, a.index), Depth(net, b.index)) = bound
  <2>1. \A n \in Nodes(net) : Depth(net, n) \in Nat
    BY DepthEquation
  <2>2. Depth(net, 0) = 0
    <3>1. 0 \in 0..net.pis
      BY NetworkFacts
    <3> QED BY <3>1, DepthEquation
  <2>3. Depth(net, f.index) \in Nat /\ Depth(net, g.index) \in Nat
    BY <2>1 DEF SignalsOf
  <2>4. get_constant.index = 0
    BY DEF get_constant, Signal
  <2> QED BY <2>1, <2>2, <2>3, <2>4 DEF Over
<1>4. ASSUME NEW s, s.index \in {0, a.index, b.index}, new = Old(s)
      PROVE  Depth(new.net, new.f.index) <= bound
  <2>1. new.net = net /\ new.f = s
    BY <1>4
  <2> HIDE DEF a, b, Old, bound
  <2> QED BY <1>3, <1>4, <2>1
<1> HIDE DEF a, b, Old, same, bound
<1>5. CASE a = b
  <2>1. new = Old(a)
    <3>1. a # create_not(b)
      BY <1>2, <1>5, SignalFacts
    <3>2. ~(a.index = 0 /\ b.index > 0) /\ a.index \notin 1..(b.index - 1)
      BY <1>2, <1>5
    <3> QED BY <1>1, <1>5, <3>1, <3>2
  <2> QED BY <1>4, <2>1 DEF bound
<1>6. CASE a # b /\ a = create_not(b)
  <2>1. new = Old(get_constant)
    <3>1. a.index = b.index
      BY <1>2, <1>6, SignalFacts
    <3>2. ~(a.index = 0 /\ b.index > 0) /\ a.index \notin 1..(b.index - 1)
      BY <1>2, <3>1
    <3> QED BY <1>1, <1>6, <3>2
  <2> QED BY <1>3, <1>4, <2>1 DEF bound
<1>7. CASE a # b /\ a # create_not(b)
  <2>0. a.index < b.index
    BY <1>2, <1>7, SignalFacts
  <2>1. CASE a.index = 0
    <3>1. new = Old(IF a.complement THEN b ELSE get_constant)
      BY <1>1, <1>7, <2>0, <2>1
    <3>2. CASE a.complement
      BY <1>4, <3>1, <3>2 DEF bound
    <3>3. CASE ~ a.complement
      BY <1>3, <1>4, <3>1, <3>3 DEF bound
    <3> QED BY <3>2, <3>3
  <2>2. CASE a.index # 0
    <3>1. a.index \in 1..(b.index - 1) /\ ~(a.index = 0 /\ b.index > 0)
      BY <1>2, <2>0, <2>2
    <3>2. CASE same # {}
      <4> DEFINE n == CHOOSE n \in same : TRUE
      <4>1. new = Old(Signal(n, FALSE))
        BY <1>1, <1>7, <3>1, <3>2
      <4>2. n \in Gates(net) /\ Fanins(net, n) = <<a, b>>
        BY <3>2 DEF same
      <4> HIDE DEF n
      <4>3. Fanins(net, n)[1] = a /\ Fanins(net, n)[2] = b
        BY <4>2
      <4>4. Depth(net, n) = bound
        BY <1>3, <4>2, <4>3, DepthEquation
      <4>5. new.net = net /\ new.f.index = n
        BY <4>1 DEF Old, Signal
      <4> QED BY <1>3, <4>4, <4>5 DEF bound
    <3>3. CASE same = {}
      <4> DEFINE big == [net EXCEPT !.gates = Append(@, <<a, b>>)]
      <4> DEFINE n == net.pis + Len(net.gates) + 1
      <4>1. new = [net |-> big, f |-> Signal(n, FALSE)]
        BY <1>1, <1>7, <3>1, <3>3
      <4>2. 0 < a.index
        BY <1>2, <2>2
      <4>3. /\ Grows(net, big) /\ Len(big.gates) = Len(net.gates) + 1
            /\ n \in Gates(big) /\ Fanins(big, n) = <<a, b>> /\ Signal(n, FALSE) \in SignalsOf(big)
        BY <1>2, <2>0, <4>2, AppendGrows
      <4> HIDE DEF big, n
      <4>4. new.net = big /\ new.f.index = n /\ IsNetwork(big)
            /\ Fanins(big, n)[1] = a /\ Fanins(big, n)[2] = b
        BY <4>1, <4>3 DEF Signal, Grows
      <4>5. Depth(big, n) = Over(Depth(big, a.index), Depth(big, b.index))
        BY <4>3, <4>4, DepthEquation
      <4>6. Depth(big, a.index) = Depth(net, a.index) /\ Depth(big, b.index) = Depth(net, b.index)
        <5>1. \A m \in Nodes(net) : Depth(big, m) = Depth(net, m)
          BY <4>3, GrowsDepth
        <5> QED BY <1>2, <5>1
      <4> QED BY <1>3, <4>4, <4>5, <4>6 DEF bound
    <3> QED BY <3>2, <3>3
  <2> QED BY <2>1, <2>2
<1> QED BY <1>5, <1>6, <1>7 DEF bound

-----------------------------------------------------------------------------
(* Copies.                                                                 *)

LEMMA CopyEquation ==
  ASSUME NEW net, IsNetwork(net), NEW part, NEW into, NEW map
  PROVE  LET Upto == CopyUpto(net, part, into, map)
         IN  /\ Upto[0] = [net |-> into, map |-> map]
             /\ \A k \in 1..Len(net.gates) : Upto[k] = CopyGate(net, net.pis + k, part, Upto[k - 1])
<1> DEFINE At(U, k) == IF k = 0 THEN [net |-> into, map |-> map]
                       ELSE CopyGate(net, net.pis + k, part, U[k - 1])
<1> DEFINE Sound(m, U) == U = [k \in 0..m |-> At(U, k)]
<1>1. \A U, W, k : (k # 0 => U[k - 1] = W[k - 1]) => At(U, k) = At(W, k)
  OBVIOUS
<1> HIDE DEF At
<1>2. ASSUME NEW m \in Nat, m # 0, NEW U, Sound(m - 1, U) PROVE \E W : Sound(m, W)
  <2> DEFINE W == [k \in 0..m |-> At(U, k)]
  <2>1. \A k \in 0..(m - 1) : U[k] = At(U, k)
    BY <1>2
  <2>2. \A k \in 0..m : k # 0 => U[k - 1] = W[k - 1]
    BY <1>2, <2>1
  <2>3. W = [k \in 0..m |-> At(U, k)]
    OBVIOUS
  <2> HIDE DEF W
  <2>4. \A k \in 0..m : At(U, k) = At(W, k)
    BY <1>1, <2>2
  <2>5. W = [k \in 0..m |-> At(W, k)]
    BY <2>3, <2>4
  <2> QED BY <2>5
<1>3. \E U : Sound(0, U)
  <2> DEFINE U == [k \in 0..0 |-> At(<<>>, k)]
  <2>1. U = [k \in 0..0 |-> At(<<>>, k)]
    OBVIOUS
  <2> HIDE DEF U
  <2>2. \A k \in 0..0 : At(<<>>, k) = At(U, k)
    BY <1>1
  <2>3. U = [k \in 0..0 |-> At(U, k)]
    BY <2>1, <2>2
  <2> QED BY <2>3
<1> HIDE DEF Sound
<1>4. \A m \in Nat : \E U : Sound(m, U)
  <2> DEFINE A == {m \in Nat : ~ \E U : Sound(m, U)}
  <2> SUFFICES ASSUME A # {} PROVE FALSE
    OBVIOUS
  <2>1. PICK m \in A : \A a \in A : m <= a
    BY LeastMember
  <2>2. m # 0 /\ m - 1 \in Nat /\ m - 1 \notin A
    BY <1>3, <2>1
  <2> QED BY <1>2, <2>1, <2>2
<1>5. Len(net.gates) \in Nat
  BY NetworkFacts
<1>6. CopyUpto(net, part, into, map) = CHOOSE U : Sound(Len(net.gates), U)
  BY Zenon DEF CopyUpto, Sound, At
<1>7. Sound(Len(net.gates), CopyUpto(net, part, into, map))
  BY <1>4, <1>5, <1>6
<1> DEFINE Upto == CopyUpto(net, part, into, map)
<1>8. \A k \in 0..Len(net.gates) : Upto[k] = At(Upto, k)
  BY <1>7 DEF Sound
<1>9. Upto[0] = At(Upto, 0) /\ \A k \in 1..Len(net.gates) : Upto[k] = At(Upto, k) /\ k # 0
  BY <1>5, <1>8
<1> QED BY <1>9 DEF At

\* The first k gates have been copied: their images compute what they compute, when
\* the other nodes' images do.
CopyOf(net, part, into, map, k, acc) ==
    /\ Grows(into, acc.net) /\ Len(acc.net.gates) <= Len(into.gates) + k
    /\ DOMAIN acc.map = 0..net.pis \cup {n \in part : n <= net.pis + k}
    /\ \A n \in DOMAIN acc.map : acc.map[n] \in SignalsOf(acc.net)
    /\ \A a, b :
         (\A n \in 0..net.pis : On(into, a, map[n]) <=> Values(net, Inputs(net), b)[n])
         => \A n \in DOMAIN acc.map : On(acc.net, a, acc.map[n]) <=> Values(net, Inputs(net), b)[n]

LEMMA CopyStep ==
  ASSUME NEW net, IsNetwork(net), NEW into, IsNetwork(into), NEW map, NEW part \in SUBSET Gates(net),
         \A n \in part, i \in 1..2 :
            Fanins(net, n)[i].index \in 1..net.pis \/ Fanins(net, n)[i].index \in part,
         NEW k \in 1..Len(net.gates), NEW acc, CopyOf(net, part, into, map, k - 1, acc)
  PROVE  CopyOf(net, part, into, map, k, CopyGate(net, net.pis + k, part, acc))
<1> DEFINE n == net.pis + k
<1>1. /\ n \in Gates(net) /\ n \in Nat /\ net.pis \in Nat /\ Len(net.gates) \in Nat /\ k \in Nat
      /\ \A m \in Gates(net) : m \in Nat
      /\ \A m \in Gates(net) : m <= n <=> m = n \/ m <= net.pis + (k - 1)
  BY NetworkFacts DEF Gates
<1>2. /\ IsNetwork(acc.net) /\ Len(acc.net.gates) \in Nat /\ Len(into.gates) \in Nat
      /\ Len(acc.net.gates) <= Len(into.gates) + (k - 1)
  BY NetworkFacts DEF CopyOf, Grows
<1>3. CASE n \notin part
  <2>1. CopyGate(net, n, part, acc) = acc
    BY <1>3 DEF CopyGate
  <2>2. {m \in part : m <= n} = {m \in part : m <= net.pis + (k - 1)}
    BY <1>1, <1>3
  <2>3. Len(acc.net.gates) <= Len(into.gates) + k
    BY <1>1, <1>2
  <2>4. DOMAIN acc.map = 0..net.pis \cup {m \in part : m <= n}
    BY <2>2 DEF CopyOf
  <2>5. CopyOf(net, part, into, map, k, acc)
    BY <2>3, <2>4 DEF CopyOf
  <2> QED BY <2>1, <2>5
<1>4. CASE n \in part
  <2> DEFINE f == Image(acc.map, Fanins(net, n)[1])
  <2> DEFINE g == Image(acc.map, Fanins(net, n)[2])
  <2> DEFINE new == create_and(acc.net, f, g)
  <2> DEFINE next == [net |-> new.net, map |-> Known(acc.map, n, new.f)]
  <2>1. CopyGate(net, n, part, acc) = next
    BY <1>4 DEF CopyGate
  <2>2. \A i \in 1..2 : /\ Fanins(net, n)[i] \in Signals
                        /\ Fanins(net, n)[i].index \in DOMAIN acc.map
    <3> TAKE i \in 1..2
    <3>1. /\ Fanins(net, n)[i] \in Signals /\ Fanins(net, n)[i].index < n
          /\ Fanins(net, n)[i].index \in Nodes(net)
      BY <1>1, NetworkFacts
    <3>2. Fanins(net, n)[i].index \in 1..net.pis => Fanins(net, n)[i].index \in 0..net.pis
      BY <1>1
    <3>3. Fanins(net, n)[i].index \in part => Fanins(net, n)[i].index <= net.pis + (k - 1)
      BY <1>1, <3>1
    <3> QED BY <1>4, <3>1, <3>2, <3>3 DEF CopyOf
  <2>3. /\ f \in SignalsOf(acc.net) /\ g \in SignalsOf(acc.net)
        /\ \A a : On(acc.net, a, f) <=> (On(acc.net, a, acc.map[Fanins(net, n)[1].index])
                                           # Fanins(net, n)[1].complement)
        /\ \A a : On(acc.net, a, g) <=> (On(acc.net, a, acc.map[Fanins(net, n)[2].index])
                                           # Fanins(net, n)[2].complement)
    <3>1. \A i \in 1..2 : /\ Fanins(net, n)[i] \in Signals
                          /\ acc.map[Fanins(net, n)[i].index] \in SignalsOf(acc.net)
      BY <2>2 DEF CopyOf
    <3>2. 1 \in 1..2 /\ 2 \in 1..2
      OBVIOUS
    <3> HIDE DEF n
    <3>3. /\ f \in SignalsOf(acc.net)
          /\ \A a : On(acc.net, a, f) <=> (On(acc.net, a, acc.map[Fanins(net, n)[1].index])
                                             # Fanins(net, n)[1].complement)
      BY <1>2, <3>1, <3>2, ImageFacts
    <3>4. /\ g \in SignalsOf(acc.net)
          /\ \A a : On(acc.net, a, g) <=> (On(acc.net, a, acc.map[Fanins(net, n)[2].index])
                                             # Fanins(net, n)[2].complement)
      BY <1>2, <3>1, <3>2, ImageFacts
    <3> QED BY <3>3, <3>4
  <2> HIDE DEF f, g
  <2>4. /\ Grows(acc.net, new.net) /\ Len(new.net.gates) <= Len(acc.net.gates) + 1
        /\ new.f \in SignalsOf(new.net)
        /\ \A x : On(new.net, x, new.f) <=> On(acc.net, x, f) /\ On(acc.net, x, g)
    BY <1>2, <2>3, AndCorrect
  <2> HIDE DEF new
  <2>5. /\ next.net = new.net /\ DOMAIN next.map = DOMAIN acc.map \cup {n}
        /\ next.map[n] = new.f
        /\ \A m \in DOMAIN acc.map : m # n => next.map[m] = acc.map[m]
    BY DEF Known
  <2> HIDE DEF next
  <2>6. Grows(into, new.net) /\ Len(new.net.gates) <= Len(into.gates) + k
    <3>1. Grows(into, new.net)
      BY <1>2, <2>4, GrowsTransitive DEF CopyOf
    <3>2. Len(new.net.gates) \in Nat
      BY <3>1, NetworkFacts DEF Grows
    <3> QED BY <1>1, <1>2, <2>4, <3>1, <3>2
  <2>7. DOMAIN next.map = 0..net.pis \cup {m \in part : m <= n}
    BY <1>1, <1>4, <2>5 DEF CopyOf
  <2>8. \A m \in DOMAIN next.map : next.map[m] \in SignalsOf(new.net)
    <3>1. SignalsOf(acc.net) \subseteq SignalsOf(new.net)
      BY <1>2, <2>4, GrowsFacts
    <3> QED BY <2>4, <2>5, <3>1 DEF CopyOf
  <2>9. ASSUME NEW a, NEW b,
               \A m \in 0..net.pis : On(into, a, map[m]) <=> Values(net, Inputs(net), b)[m],
               NEW m \in DOMAIN next.map
        PROVE  On(new.net, a, next.map[m]) <=> Values(net, Inputs(net), b)[m]
    <3>1. \A l \in DOMAIN acc.map : On(acc.net, a, acc.map[l]) <=> Values(net, Inputs(net), b)[l]
      BY <2>9 DEF CopyOf
    <3>2. CASE m = n
      <4>1. \A i \in 1..2 : On(net, b, Fanins(net, n)[i]) <=>
              (Values(net, Inputs(net), b)[Fanins(net, n)[i].index] # Fanins(net, n)[i].complement)
        BY DEF On, Holds
      <4>2. \A i \in 1..2 :
              /\ Values(net, Inputs(net), b)[Fanins(net, n)[i].index] \in BOOLEAN
              /\ On(acc.net, a, acc.map[Fanins(net, n)[i].index]) \in BOOLEAN
        <5>1. \A i \in 1..2 : Fanins(net, n)[i].index \in Nodes(net)
          BY <1>1, NetworkFacts
        <5>2. \A i \in 1..2 : acc.map[Fanins(net, n)[i].index] \in SignalsOf(acc.net)
          BY <2>2 DEF CopyOf
        <5>3. \A l \in Nodes(net) : Values(net, Inputs(net), b)[l] \in BOOLEAN
          BY NodeValues
        <5>4. \A s \in SignalsOf(acc.net) : On(acc.net, a, s) \in BOOLEAN
          BY <1>2, SignalValues
        <5> QED BY <5>1, <5>2, <5>3, <5>4
      <4>3. On(acc.net, a, f) <=> On(net, b, Fanins(net, n)[1])
        BY <2>2, <2>3, <3>1, <4>1, <4>2
      <4>4. On(acc.net, a, g) <=> On(net, b, Fanins(net, n)[2])
        BY <2>2, <2>3, <3>1, <4>1, <4>2
      <4>5. Values(net, Inputs(net), b)[n] <=>
              On(net, b, Fanins(net, n)[1]) /\ On(net, b, Fanins(net, n)[2])
        BY <1>1, NodeValues
      <4> QED BY <2>4, <2>5, <3>2, <4>3, <4>4, <4>5
    <3>3. CASE m # n
      <4>1. m \in DOMAIN acc.map /\ next.map[m] = acc.map[m] /\ acc.map[m] \in SignalsOf(acc.net)
        BY <2>5, <3>3 DEF CopyOf
      <4>2. On(new.net, a, acc.map[m]) = On(acc.net, a, acc.map[m])
        <5>1. \A s \in SignalsOf(acc.net) : On(new.net, a, s) = On(acc.net, a, s)
          <6>1. IsNetwork(acc.net) /\ Grows(acc.net, new.net)
            BY <1>2, <2>4
          <6> QED BY <6>1, GrowsKeeps
        <5> QED BY <4>1, <5>1
      <4> QED BY <3>1, <4>1, <4>2
    <3> QED BY <3>2, <3>3
  <2>10. CopyOf(net, part, into, map, k, next)
    BY <2>5, <2>6, <2>7, <2>8, <2>9 DEF CopyOf
  <2> QED BY <2>1, <2>10
<1> QED BY <1>3, <1>4

\* Gates that can be copied: the other nodes they read have images.
Copyable(net, part, into, map) ==
    /\ part \subseteq Gates(net)
    /\ \A n \in part, i \in 1..2 :
          Fanins(net, n)[i].index \in 1..net.pis \/ Fanins(net, n)[i].index \in part
    /\ DOMAIN map = 0..net.pis /\ \A n \in 0..net.pis : map[n] \in SignalsOf(into)

\* They have been copied.
Copied(net, part, into, map, copy) ==
    /\ Grows(into, copy.net) /\ Len(copy.net.gates) <= Len(into.gates) + Len(net.gates)
    /\ DOMAIN copy.map = 0..net.pis \cup part
    /\ \A n \in DOMAIN copy.map : copy.map[n] \in SignalsOf(copy.net)
    /\ \A a, b :
         (\A n \in 0..net.pis : On(into, a, map[n]) <=> Values(net, Inputs(net), b)[n])
         => \A n \in DOMAIN copy.map : On(copy.net, a, copy.map[n]) <=> Values(net, Inputs(net), b)[n]

LEMMA CopiedUpto ==
  ASSUME NEW net, IsNetwork(net), NEW into, IsNetwork(into), NEW map, NEW part,
         Copyable(net, part, into, map)
  PROVE  \A k \in 0..Len(net.gates) :
            CopyOf(net, part, into, map, k, CopyUpto(net, part, into, map)[k])
<1> DEFINE Upto == CopyUpto(net, part, into, map)
<1> DEFINE P(k) == CopyOf(net, part, into, map, k, Upto[k])
<1>1. /\ Upto[0] = [net |-> into, map |-> map]
      /\ \A k \in 1..Len(net.gates) : Upto[k] = CopyGate(net, net.pis + k, part, Upto[k - 1])
  BY CopyEquation
<1>2. Len(net.gates) \in Nat /\ net.pis \in Nat /\ Len(into.gates) \in Nat
  BY NetworkFacts
<1> HIDE DEF Upto
<1>3. P(0)
  <2>1. Upto[0].net = into /\ Upto[0].map = map
    BY <1>1
  <2>2. {n \in part : n <= net.pis + 0} = {}
    <3>1. \A n \in Gates(net) : ~(n <= net.pis + 0)
      BY <1>2 DEF Gates
    <3> QED BY <3>1 DEF Copyable
  <2> QED BY <1>2, <2>1, <2>2, GrowsReflexive DEF CopyOf, Copyable
<1>4. \A k \in 0..Len(net.gates) : P(k)
  <2> DEFINE A == {k \in 0..Len(net.gates) : ~ P(k)}
  <2> SUFFICES ASSUME A # {} PROVE FALSE
    OBVIOUS
  <2>1. A \subseteq Nat
    OBVIOUS
  <2>2. PICK k \in A : \A a \in A : k <= a
    BY <2>1, LeastMember
  <2>3. k \in 1..Len(net.gates) /\ k - 1 \in 0..Len(net.gates) /\ k - 1 \notin A
    BY <1>2, <1>3, <2>2
  <2>4. P(k - 1)
    BY <2>3
  <2>5. P(k)
    <3>1. Upto[k] = CopyGate(net, net.pis + k, part, Upto[k - 1])
      BY <1>1, <2>3
    <3> QED BY <2>3, <2>4, <3>1, CopyStep DEF Copyable
  <2> QED BY <2>2, <2>5
<1> QED BY <1>4 DEF Upto

LEMMA CopyCorrect ==
  ASSUME NEW net, IsNetwork(net), NEW into, IsNetwork(into), NEW map, NEW part,
         Copyable(net, part, into, map)
  PROVE  Copied(net, part, into, map, Copy(net, part, into, map))
<1> DEFINE copy == Copy(net, part, into, map)
<1>1. Len(net.gates) \in Nat /\ net.pis \in Nat
  BY NetworkFacts
<1>2. CopyOf(net, part, into, map, Len(net.gates), copy)
  <2>1. Len(net.gates) \in 0..Len(net.gates)
    BY <1>1
  <2> QED BY <2>1, CopiedUpto DEF Copy
<1>3. {n \in part : n <= net.pis + Len(net.gates)} = part
  <2>1. \A n \in Gates(net) : n <= net.pis + Len(net.gates)
    BY <1>1 DEF Gates
  <2> QED BY <2>1 DEF Copyable
<1> HIDE DEF copy
<1>4. Copied(net, part, into, map, copy)
  BY <1>2, <1>3 DEF CopyOf, Copied
<1> QED BY <1>4 DEF copy

\* A node's image in the copy is no deeper than the node.
Shallow(net, acc) == \A n \in DOMAIN acc.map : Depth(acc.net, acc.map[n].index) <= Depth(net, n)

LEMMA ShallowStep ==
  ASSUME NEW net, IsNetwork(net), NEW into, NEW map, NEW part,
         NEW k \in 1..Len(net.gates), NEW acc, CopyOf(net, part, into, map, k - 1, acc),
         \A n \in part, i \in 1..2 :
            Fanins(net, n)[i].index \in 1..net.pis \/ Fanins(net, n)[i].index \in part,
         Shallow(net, acc)
  PROVE  Shallow(net, CopyGate(net, net.pis + k, part, acc))
<1> DEFINE n == net.pis + k
<1>1. n \in Gates(net) /\ n \in Nat /\ net.pis \in Nat /\ k \in Nat
  BY NetworkFacts DEF Gates
<1>2. /\ IsNetwork(acc.net)
      /\ DOMAIN acc.map = 0..net.pis \cup {m \in part : m <= net.pis + (k - 1)}
      /\ \A m \in DOMAIN acc.map : acc.map[m] \in SignalsOf(acc.net)
  BY DEF CopyOf, Grows
<1>3. CASE n \notin part
  BY <1>3 DEF CopyGate
<1>4. CASE n \in part
  <2> DEFINE l(i) == Fanins(net, n)[i].index
             f == Image(acc.map, Fanins(net, n)[1])
             g == Image(acc.map, Fanins(net, n)[2])
             new == create_and(acc.net, f, g)
             next == [net |-> new.net, map |-> Known(acc.map, n, new.f)]
  <2>1. CopyGate(net, n, part, acc) = next
    BY <1>4 DEF CopyGate
  <2>2. \A i \in 1..2 : l(i) \in DOMAIN acc.map /\ l(i) \in Nodes(net) /\ Fanins(net, n)[i] \in Signals
    <3> TAKE i \in 1..2
    <3>1. l(i) < n /\ l(i) \in Nodes(net) /\ Fanins(net, n)[i] \in Signals
      BY <1>1, NetworkFacts
    <3>2. l(i) \in Nat
      BY <3>1, NetworkFacts
    <3>3. l(i) \in 1..net.pis => l(i) \in 0..net.pis
      BY <1>1
    <3>4. l(i) \in part => l(i) <= net.pis + (k - 1)
      BY <1>1, <3>1, <3>2
    <3> QED BY <1>2, <1>4, <3>1, <3>3, <3>4
  <2>3. \A i \in 1..2 : /\ Image(acc.map, Fanins(net, n)[i]) \in SignalsOf(acc.net)
                        /\ Image(acc.map, Fanins(net, n)[i]).index = acc.map[l(i)].index
    <3> TAKE i \in 1..2
    <3>1. acc.map[l(i)] \in SignalsOf(acc.net) /\ Fanins(net, n)[i] \in Signals
      BY <1>2, <2>2
    <3>2. create_not(acc.map[l(i)]).index = acc.map[l(i)].index
          /\ create_not(acc.map[l(i)]) \in SignalsOf(acc.net)
      BY <3>1, SignalFacts DEF SignalsOf
    <3> QED BY <3>1, <3>2 DEF Image
  <2>4. 1 \in 1..2 /\ 2 \in 1..2
    OBVIOUS
  <2>5. /\ f \in SignalsOf(acc.net) /\ g \in SignalsOf(acc.net)
        /\ f.index = acc.map[l(1)].index /\ g.index = acc.map[l(2)].index
    BY <2>3, <2>4
  <2>6. \A i \in 1..2 : /\ Depth(acc.net, acc.map[l(i)].index) <= Depth(net, l(i))
                        /\ Depth(acc.net, acc.map[l(i)].index) \in Nat /\ Depth(net, l(i)) \in Nat
    <3> TAKE i \in 1..2
    <3>1. acc.map[l(i)].index \in Nodes(acc.net)
      BY <1>2, <2>2 DEF SignalsOf
    <3>2. Depth(acc.net, acc.map[l(i)].index) \in Nat
      BY <1>2, <3>1, DepthEquation
    <3>3. Depth(net, l(i)) \in Nat
      BY <2>2, DepthEquation
    <3> QED BY <2>2, <3>2, <3>3 DEF Shallow
  <2>7. Depth(net, n) = Over(Depth(net, l(1)), Depth(net, l(2)))
    BY <1>1, DepthEquation
  <2> HIDE DEF f, g, l
  <2>8. Grows(acc.net, new.net) /\ new.f \in SignalsOf(new.net)
    BY <1>2, <2>5, AndCorrect
  <2>9. Depth(new.net, new.f.index) <= Over(Depth(acc.net, f.index), Depth(acc.net, g.index))
    BY <1>2, <2>5, AndDepth
  <2> HIDE DEF new
  <2>10. Depth(new.net, new.f.index) <= Depth(net, n)
    <3>1. Depth(new.net, new.f.index) \in Nat
      <4>1. IsNetwork(new.net) /\ new.f.index \in Nodes(new.net)
        BY <2>8 DEF Grows, SignalsOf
      <4> QED BY <4>1, DepthEquation
    <3> DEFINE p == Depth(acc.net, f.index)
               q == Depth(acc.net, g.index)
               r == Depth(net, l(1))
               s == Depth(net, l(2))
               d == Depth(new.net, new.f.index)
    <3>2. p \in Nat /\ q \in Nat /\ r \in Nat /\ s \in Nat /\ p <= r /\ q <= s
      BY <2>4, <2>5, <2>6
    <3>3. d <= Over(p, q) /\ Depth(net, n) = Over(r, s) /\ d \in Nat
      BY <2>7, <2>9, <3>1
    <3> HIDE DEF p, q, r, s, d
    <3>4. d <= Depth(net, n)
      BY <3>2, <3>3 DEF Over
    <3> QED BY <3>4 DEF d
  <2>11. \A m \in Nodes(acc.net) : Depth(new.net, m) = Depth(acc.net, m)
    BY <1>2, <2>8, GrowsDepth
  <2>12. /\ next.net = new.net /\ DOMAIN next.map = DOMAIN acc.map \cup {n} /\ next.map[n] = new.f
         /\ \A m \in DOMAIN acc.map : m # n => next.map[m] = acc.map[m]
    BY DEF Known
  <2> HIDE DEF next
  <2>13. \A m \in DOMAIN acc.map : acc.map[m].index \in Nodes(acc.net)
    BY <1>2 DEF SignalsOf
  <2>14. Shallow(net, next)
    BY <2>10, <2>11, <2>12, <2>13 DEF Shallow
  <2> QED BY <2>1, <2>14
<1> QED BY <1>3, <1>4

LEMMA CopyShallow ==
  ASSUME NEW net, IsNetwork(net), NEW into, IsNetwork(into), NEW map, NEW part,
         Copyable(net, part, into, map),
         \A n \in 0..net.pis : Depth(into, map[n].index) <= Depth(net, n)
  PROVE  Shallow(net, Copy(net, part, into, map))
<1> DEFINE Upto == CopyUpto(net, part, into, map)
           A == {k \in 0..Len(net.gates) : ~ Shallow(net, Upto[k])}
<1>1. /\ Upto[0] = [net |-> into, map |-> map]
      /\ \A k \in 1..Len(net.gates) : Upto[k] = CopyGate(net, net.pis + k, part, Upto[k - 1])
  BY CopyEquation
<1>2. \A k \in 0..Len(net.gates) : CopyOf(net, part, into, map, k, Upto[k])
  BY CopiedUpto
<1>3. Len(net.gates) \in Nat
  BY NetworkFacts
<1> HIDE DEF Upto
<1>4. A = {}
  <2> SUFFICES ASSUME A # {} PROVE FALSE
    OBVIOUS
  <2>1. PICK k \in A : \A a \in A : k <= a
    <3>1. A \in SUBSET Nat
      OBVIOUS
    <3> HIDE DEF A
    <3> QED BY <3>1, LeastMember
  <2>2. Shallow(net, Upto[0])
    BY <1>1 DEF Shallow, Copyable
  <2>3. k \in 1..Len(net.gates) /\ k - 1 \in 0..Len(net.gates) /\ k - 1 \notin A
    BY <1>3, <2>1, <2>2
  <2>4. Shallow(net, Upto[k - 1]) /\ CopyOf(net, part, into, map, k - 1, Upto[k - 1])
    BY <1>2, <2>3
  <2>5. Shallow(net, CopyGate(net, net.pis + k, part, Upto[k - 1]))
    BY <2>3, <2>4, ShallowStep DEF Copyable
  <2> QED BY <1>1, <2>1, <2>3, <2>5
<1>5. Len(net.gates) \in 0..Len(net.gates)
  BY <1>3
<1> QED BY <1>4, <1>5 DEF Copy, Upto

LEMMA EmptyIsNetwork ==
  ASSUME NEW pis \in Nat
  PROVE  IsNetwork(EmptyNetwork(pis)) /\ Len(EmptyNetwork(pis).gates) = 0
         /\ EmptyNetwork(pis).pis = pis /\ Nodes(EmptyNetwork(pis)) = 0..pis
<1> DEFINE e == EmptyNetwork(pis)
<1>1. e.pis = pis /\ e.gates = <<>> /\ e.pos = <<>>
      /\ e \in [pis: Nat, gates: Seq(Signals \X Signals), pos: Seq(Signals)]
  BY DEF EmptyNetwork
<1> HIDE DEF e
<1>2. Len(e.gates) = 0 /\ Gates(e) = {} /\ Nodes(e) = 0..pis /\ DOMAIN e.pos = {}
  BY <1>1 DEF Gates, Nodes
<1>3. IsNetwork(e)
  BY <1>1, <1>2 DEF IsNetwork
<1> QED BY <1>1, <1>2, <1>3 DEF e

\* The inputs of a network, or of one that grew from it.
LEMMA InputValues ==
  ASSUME NEW net, IsNetwork(net), NEW a, NEW n \in 0..net.pis
  PROVE  /\ Signal(n, FALSE) \in SignalsOf(net)
         /\ On(net, a, Signal(n, FALSE)) <=> n \in Inputs(net) /\ n \in a
         /\ Values(net, Inputs(net), a)[n] <=> n \in Inputs(net) /\ n \in a
<1>1. n \in Nodes(net) /\ (n = 0 \/ n \in Inputs(net)) /\ 0 \notin Inputs(net)
  BY NetworkFacts DEF Nodes, Inputs
<1>2. Values(net, Inputs(net), a)[n] <=> n \in Inputs(net) /\ n \in a
  BY <1>1, NodeValues
<1> QED BY <1>1, <1>2, SignalValues

\* Two networks with the same inputs and outputs that are on together.
LEMMA SameOutputs ==
  ASSUME NEW net, NEW other, Inputs(other) = Inputs(net), DOMAIN other.pos = DOMAIN net.pos,
         \A i \in DOMAIN net.pos : \A a : On(other, a, other.pos[i]) <=> On(net, a, net.pos[i])
  PROVE  Outputs(other) = Outputs(net)
<1>1. \A i \in DOMAIN net.pos : Function(other, other.pos[i]) = Function(net, net.pos[i])
  BY DEF Function, truth_table, On
<1> QED BY <1>1 DEF Outputs

\* A network built elsewhere, where the nodes behind the outputs have images.
OutputsMapped(net, into, map) ==
    \A i \in DOMAIN net.pos :
       /\ map[net.pos[i].index] \in SignalsOf(into)
       /\ \A a : On(into, a, map[net.pos[i].index]) <=> Values(net, Inputs(net), a)[net.pos[i].index]

LEMMA MappedOutputs ==
  ASSUME NEW net, IsNetwork(net), NEW into, IsNetwork(into), into.pis = net.pis,
         NEW map, OutputsMapped(net, into, map),
         NEW built, built = [into EXCEPT !.pos = [i \in DOMAIN net.pos |-> Image(map, net.pos[i])]]
  PROVE  /\ IsNetwork(built) /\ built.pis = net.pis /\ built.gates = into.gates
         /\ Len(built.pos) = Len(net.pos) /\ Outputs(built) = Outputs(net)
<1> DEFINE pos == [i \in DOMAIN net.pos |-> Image(map, net.pos[i])]
<1>1. net.pos \in Seq(Signals) /\ \A i \in DOMAIN net.pos : net.pos[i].index \in Nodes(net)
  BY NetworkFacts DEF IsNetwork
<1>2. ASSUME NEW i \in DOMAIN net.pos
      PROVE  /\ Image(map, net.pos[i]) \in SignalsOf(into)
             /\ \A a : On(into, a, Image(map, net.pos[i])) <=> On(net, a, net.pos[i])
  <2>1. net.pos[i] \in Signals /\ net.pos[i].complement \in BOOLEAN
    BY <1>1, SignalFacts
  <2>2. /\ Image(map, net.pos[i]) \in SignalsOf(into)
        /\ \A a : On(into, a, Image(map, net.pos[i]))
                    <=> (On(into, a, map[net.pos[i].index]) # net.pos[i].complement)
    BY <2>1, ImageFacts DEF OutputsMapped
  <2>3. \A a : On(net, a, net.pos[i]) <=>
                 (Values(net, Inputs(net), a)[net.pos[i].index] # net.pos[i].complement)
    BY DEF On, Holds
  <2>4. \A a : /\ On(into, a, map[net.pos[i].index]) \in BOOLEAN
               /\ Values(net, Inputs(net), a)[net.pos[i].index] \in BOOLEAN
    <3>1. net.pos[i].index \in Nodes(net) /\ map[net.pos[i].index] \in SignalsOf(into)
      BY <1>1 DEF OutputsMapped
    <3>2. \A a, s : s \in SignalsOf(into) => On(into, a, s) \in BOOLEAN
      BY SignalValues
    <3>3. \A a, n : n \in Nodes(net) => Values(net, Inputs(net), a)[n] \in BOOLEAN
      BY NodeValues
    <3> QED BY <3>1, <3>2, <3>3
  <2> QED BY <2>2, <2>3, <2>4 DEF OutputsMapped
<1>3. pos \in Seq(SignalsOf(into)) /\ Len(pos) = Len(net.pos) /\ DOMAIN pos = DOMAIN net.pos
  <2>1. DOMAIN net.pos = 1..Len(net.pos) /\ Len(net.pos) \in Nat
    BY <1>1
  <2> QED BY <1>2, <2>1
<1>4. \A i \in DOMAIN net.pos : pos[i] = Image(map, net.pos[i])
  OBVIOUS
<1> HIDE DEF pos
<1>5. Grows(into, built) /\ built.gates = into.gates /\ built.pos = pos
  BY <1>3, GrowsWithOutputs DEF pos
<1>6. IsNetwork(built) /\ built.pis = net.pis /\ Inputs(built) = Inputs(net)
  BY <1>5 DEF Grows, Inputs
<1>7. \A i \in DOMAIN net.pos : \A a : On(built, a, pos[i]) <=> On(net, a, net.pos[i])
  BY <1>2, <1>4, <1>5, GrowsKeeps
<1>8. Outputs(built) = Outputs(net)
  BY <1>3, <1>5, <1>6, <1>7, SameOutputs
<1> QED BY <1>3, <1>5, <1>6, <1>8

\* Dropping what no output needs changes no output, and adds no gate.
LEMMA CleanupCorrect ==
  ASSUME NEW net, IsNetwork(net), NEW clean, clean = cleanup_dangling(net)
  PROVE  /\ IsNetwork(clean) /\ clean.pis = net.pis /\ Len(clean.pos) = Len(net.pos)
         /\ Outputs(clean) = Outputs(net) /\ costs(clean) <= costs(net)
<1> DEFINE into == EmptyNetwork(net.pis)
<1> DEFINE map == [n \in 0..net.pis |-> Signal(n, FALSE)]
<1> DEFINE copy == Copy(net, LiveGates(net), into, map)
<1>1. /\ net.pis \in Nat /\ IsNetwork(into) /\ Len(into.gates) = 0 /\ into.pis = net.pis
      /\ Inputs(into) = Inputs(net) /\ Len(net.gates) \in Nat
  BY NetworkFacts, EmptyIsNetwork DEF Inputs
<1>2. clean = [copy.net EXCEPT !.pos = [i \in DOMAIN net.pos |-> Image(copy.map, net.pos[i])]]
  BY DEF cleanup_dangling
<1>11. copy = Copy(net, LiveGates(net), into, map)
  OBVIOUS
<1> HIDE DEF into, copy
<1>3. DOMAIN map = 0..net.pis /\ \A n \in 0..net.pis : map[n] = Signal(n, FALSE)
  OBVIOUS
<1> HIDE DEF map
<1>4. \A n \in 0..net.pis : map[n] \in SignalsOf(into)
  BY <1>1, <1>3, InputValues
<1>5. Copied(net, LiveGates(net), into, map, copy)
  <2>1. Copyable(net, LiveGates(net), into, map)
    BY <1>3, <1>4, LiveClosed DEF Copyable
  <2> QED BY <1>1, <1>11, <2>1, CopyCorrect
<1>6. \A a : \A n \in 0..net.pis : On(into, a, map[n]) <=> Values(net, Inputs(net), a)[n]
  <2> TAKE a
  <2> TAKE n \in 0..net.pis
  <2>1. On(into, a, Signal(n, FALSE)) <=> n \in Inputs(into) /\ n \in a
    BY <1>1, InputValues
  <2>2. Values(net, Inputs(net), a)[n] <=> n \in Inputs(net) /\ n \in a
    BY InputValues
  <2> QED BY <1>1, <1>3, <2>1, <2>2
<1>7. OutputsMapped(net, copy.net, copy.map)
  <2>1. \A i \in DOMAIN net.pos : net.pos[i].index \in DOMAIN copy.map
    BY <1>5, LiveClosed DEF Copied
  <2>2. \A a : \A n \in DOMAIN copy.map : On(copy.net, a, copy.map[n]) <=> Values(net, Inputs(net), a)[n]
    BY <1>5, <1>6 DEF Copied
  <2> QED BY <1>5, <2>1, <2>2 DEF Copied, OutputsMapped
<1>8. IsNetwork(copy.net) /\ copy.net.pis = net.pis
  BY <1>1, <1>5 DEF Copied, Grows
<1>9. /\ IsNetwork(clean) /\ clean.pis = net.pis /\ clean.gates = copy.net.gates
      /\ Len(clean.pos) = Len(net.pos) /\ Outputs(clean) = Outputs(net)
  BY <1>2, <1>7, <1>8, MappedOutputs
<1>10. costs(clean) <= costs(net)
  BY <1>1, <1>5, <1>9 DEF Copied, costs
<1> QED BY <1>9, <1>10

\* The depth of a network is that of its deepest output.
LEMMA NetworkDepthFacts ==
  ASSUME NEW net, IsNetwork(net)
  PROVE  /\ NetworkDepth(net) \in Nat
         /\ \A i \in DOMAIN net.pos : Depth(net, net.pos[i].index) <= NetworkDepth(net)
         /\ \A k \in Nat : (\A i \in DOMAIN net.pos : Depth(net, net.pos[i].index) <= k)
                              => NetworkDepth(net) <= k
<1> DEFINE S == {0} \cup {Depth(net, net.pos[i].index) : i \in DOMAIN net.pos}
           N == net.pis + Len(net.gates)
<1>1. /\ N \in Nat /\ Nodes(net) = 0..N /\ net.pis \in Nat
      /\ \A n \in Nodes(net) : n \in Gates(net) \/ n \in 0..net.pis
  BY NetworkFacts DEF Nodes, Gates
<1>2. \A n \in Nodes(net) : Depth(net, n) \in 0..n
  <2> DEFINE A == {n \in Nodes(net) : Depth(net, n) \notin 0..n}
  <2> SUFFICES ASSUME A # {} PROVE FALSE
    OBVIOUS
  <2>1. PICK n \in A : \A a \in A : n <= a
    <3>1. A \in SUBSET Nat
      BY <1>1
    <3> HIDE DEF A
    <3> QED BY <3>1, LeastMember
  <2>2. CASE n \in 0..net.pis
    <3>1. Depth(net, n) = 0 /\ n \in Nat
      BY <1>1, <2>2, DepthEquation
    <3> QED BY <2>1, <3>1
  <2>3. CASE n \in Gates(net)
    <3>1. \A i \in 1..2 : Depth(net, Fanins(net, n)[i].index) \in 0..(n - 1)
      <4> TAKE i \in 1..2
      <4> DEFINE l == Fanins(net, n)[i].index
      <4>1. l \in Nodes(net) /\ l < n /\ l \in Nat /\ n \in Nat
        BY <1>1, <2>1, <2>3, NetworkFacts
      <4> HIDE DEF l
      <4>2. l \notin A
        <5> HIDE DEF A
        <5> QED BY <2>1, <4>1
      <4>3. Depth(net, l) \in 0..l
        BY <4>1, <4>2
      <4>4. Depth(net, l) \in 0..(n - 1)
        BY <4>1, <4>3
      <4> QED BY <4>4 DEF l
    <3>2. 1 \in 1..2 /\ 2 \in 1..2
      OBVIOUS
    <3> DEFINE p == Depth(net, Fanins(net, n)[1].index)
               q == Depth(net, Fanins(net, n)[2].index)
    <3>3. p \in 0..(n - 1) /\ q \in 0..(n - 1) /\ Depth(net, n) = Over(p, q) /\ n \in Nat
      BY <1>1, <2>1, <2>3, <3>1, <3>2, DepthEquation
    <3> HIDE DEF p, q
    <3>4. Depth(net, n) \in 0..n
      BY <3>3 DEF Over
    <3> QED BY <2>1, <3>4
  <2> QED BY <1>1, <2>1, <2>2, <2>3
<1>3. \A i \in DOMAIN net.pos : Depth(net, net.pos[i].index) \in 0..N
  <2> TAKE i \in DOMAIN net.pos
  <2>1. net.pos[i].index \in 0..N
    BY <1>1 DEF IsNetwork
  <2>2. \A n \in 0..N : \A d \in 0..n : d \in 0..N
    BY <1>1
  <2> QED BY <1>1, <1>2, <2>1, <2>2
<1>4. S \in SUBSET (0..N) /\ S # {}
  BY <1>1, <1>3
<1>5. NetworkDepth(net) = Max(S)
  BY DEF NetworkDepth
<1>6. \A i \in DOMAIN net.pos : Depth(net, net.pos[i].index) \in S
  OBVIOUS
<1>7. \A x \in S : x = 0 \/ \E i \in DOMAIN net.pos : x = Depth(net, net.pos[i].index)
  OBVIOUS
<1> HIDE DEF S, N
<1>8. Max(S) \in S /\ \A x \in S : x <= Max(S)
  BY <1>1, <1>4, MaxFacts
<1>9. NetworkDepth(net) \in Nat
  <2>1. Max(S) \in 0..N
    BY <1>4, <1>8
  <2> QED BY <1>1, <1>5, <2>1
<1>10. \A k \in Nat : (\A i \in DOMAIN net.pos : Depth(net, net.pos[i].index) <= k)
                         => NetworkDepth(net) <= k
  BY <1>5, <1>7, <1>8
<1> QED BY <1>5, <1>6, <1>8, <1>9, <1>10

LEMMA MappedDepth ==
  ASSUME NEW net, IsNetwork(net), NEW into, IsNetwork(into), into.pis = net.pis,
         NEW map, OutputsMapped(net, into, map),
         \A i \in DOMAIN net.pos : Depth(into, map[net.pos[i].index].index) <= Depth(net, net.pos[i].index),
         NEW built, built = [into EXCEPT !.pos = [i \in DOMAIN net.pos |-> Image(map, net.pos[i])]]
  PROVE  NetworkDepth(built) <= NetworkDepth(net)
<1> DEFINE pos == [i \in DOMAIN net.pos |-> Image(map, net.pos[i])]
<1>1. net.pos \in Seq(Signals) /\ \A i \in DOMAIN net.pos : net.pos[i].index \in Nodes(net)
  BY NetworkFacts DEF IsNetwork
<1>2. ASSUME NEW i \in DOMAIN net.pos
      PROVE  /\ pos[i] \in SignalsOf(into) /\ pos[i].index = map[net.pos[i].index].index
  <2>1. map[net.pos[i].index] \in SignalsOf(into)
    BY DEF OutputsMapped
  <2>2. create_not(map[net.pos[i].index]).index = map[net.pos[i].index].index
        /\ create_not(map[net.pos[i].index]) \in SignalsOf(into)
    BY <2>1, SignalFacts DEF SignalsOf
  <2> QED BY <2>1, <2>2 DEF Image
<1>3. pos \in Seq(SignalsOf(into)) /\ DOMAIN pos = DOMAIN net.pos
  <2>1. DOMAIN net.pos = 1..Len(net.pos) /\ Len(net.pos) \in Nat
    BY <1>1
  <2>2. DOMAIN pos = DOMAIN net.pos
    OBVIOUS
  <2> HIDE DEF SignalsOf, pos
  <2>3. pos = [i \in 1..Len(net.pos) |-> pos[i]]
    BY <2>1, <2>2 DEF pos
  <2>4. \A i \in 1..Len(net.pos) : pos[i] \in SignalsOf(into)
    BY <1>2, <2>1
  <2> QED BY <2>1, <2>2, <2>3, <2>4
<1> HIDE DEF pos
<1>4. Grows(into, built) /\ built.pos = pos
  BY <1>3, GrowsWithOutputs DEF pos
<1>5. IsNetwork(built) /\ \A n \in Nodes(into) : Depth(built, n) = Depth(into, n)
  BY <1>4, GrowsDepth DEF Grows
<1>6. \A i \in DOMAIN built.pos : Depth(built, built.pos[i].index) <= Depth(net, net.pos[i].index)
  BY <1>2, <1>3, <1>4, <1>5 DEF SignalsOf
<1>7. /\ NetworkDepth(net) \in Nat
      /\ \A i \in DOMAIN net.pos : Depth(net, net.pos[i].index) <= NetworkDepth(net)
  BY NetworkDepthFacts
<1>8. \A i \in DOMAIN built.pos : Depth(built, built.pos[i].index) <= NetworkDepth(net)
  <2> TAKE i \in DOMAIN built.pos
  <2>1. i \in DOMAIN net.pos /\ net.pos[i].index \in Nodes(net) /\ built.pos[i].index \in Nodes(built)
    BY <1>1, <1>3, <1>4, <1>5 DEF IsNetwork
  <2>2. Depth(built, built.pos[i].index) \in Nat /\ Depth(net, net.pos[i].index) \in Nat
    BY <1>5, <2>1, DepthEquation
  <2> DEFINE d == Depth(built, built.pos[i].index)
             e == Depth(net, net.pos[i].index)
  <2>3. d \in Nat /\ e \in Nat /\ d <= e /\ e <= NetworkDepth(net) /\ NetworkDepth(net) \in Nat
    BY <1>6, <1>7, <2>1, <2>2
  <2> HIDE DEF d, e
  <2>4. d <= NetworkDepth(net)
    BY <2>3
  <2> QED BY <2>4 DEF d
<1> QED BY <1>5, <1>7, <1>8, NetworkDepthFacts

\* Dropping what no output needs makes no output deeper.
LEMMA CleanupDepth ==
  ASSUME NEW net, IsNetwork(net), NEW clean, clean = cleanup_dangling(net)
  PROVE  NetworkDepth(clean) <= NetworkDepth(net)
<1> DEFINE into == EmptyNetwork(net.pis)
<1> DEFINE map == [n \in 0..net.pis |-> Signal(n, FALSE)]
<1> DEFINE copy == Copy(net, LiveGates(net), into, map)
<1>1. /\ net.pis \in Nat /\ IsNetwork(into) /\ into.pis = net.pis /\ Inputs(into) = Inputs(net)
  BY NetworkFacts, EmptyIsNetwork DEF Inputs
<1>2. clean = [copy.net EXCEPT !.pos = [i \in DOMAIN net.pos |-> Image(copy.map, net.pos[i])]]
  BY DEF cleanup_dangling
<1>3. copy = Copy(net, LiveGates(net), into, map)
  OBVIOUS
<1> HIDE DEF into, copy
<1>4. DOMAIN map = 0..net.pis /\ \A n \in 0..net.pis : map[n] = Signal(n, FALSE)
  OBVIOUS
<1> HIDE DEF map
<1>5. \A n \in 0..net.pis : map[n] \in SignalsOf(into) /\ map[n].index = n
  <2> TAKE n \in 0..net.pis
  <2>1. Signal(n, FALSE) \in SignalsOf(into)
    BY <1>1, InputValues
  <2>2. map[n] = Signal(n, FALSE)
    BY <1>4
  <2> QED BY <2>1, <2>2 DEF Signal
<1>6. Copyable(net, LiveGates(net), into, map)
  BY <1>4, <1>5, LiveClosed DEF Copyable
<1>7. Copied(net, LiveGates(net), into, map, copy)
  BY <1>1, <1>3, <1>6, CopyCorrect
<1>8. \A n \in 0..net.pis : Depth(into, map[n].index) <= Depth(net, n)
  <2> TAKE n \in 0..net.pis
  <2>1. map[n].index = n
    BY <1>5
  <2>2. Depth(into, n) = 0
    BY <1>1, DepthEquation
  <2>3. Depth(net, n) = 0
    BY DepthEquation
  <2> QED BY <2>1, <2>2, <2>3
<1>9. Shallow(net, copy)
  BY <1>1, <1>3, <1>6, <1>8, CopyShallow
<1>10. \A a : \A n \in 0..net.pis : On(into, a, map[n]) <=> Values(net, Inputs(net), a)[n]
  <2> TAKE a
  <2> TAKE n \in 0..net.pis
  <2>1. On(into, a, Signal(n, FALSE)) <=> n \in Inputs(into) /\ n \in a
    BY <1>1, InputValues
  <2>2. Values(net, Inputs(net), a)[n] <=> n \in Inputs(net) /\ n \in a
    BY InputValues
  <2> QED BY <1>1, <1>4, <2>1, <2>2
<1>11. \A i \in DOMAIN net.pos : net.pos[i].index \in DOMAIN copy.map
  BY <1>7, LiveClosed DEF Copied
<1>12. OutputsMapped(net, copy.net, copy.map)
  <2>1. \A a : \A n \in DOMAIN copy.map : On(copy.net, a, copy.map[n]) <=> Values(net, Inputs(net), a)[n]
    BY <1>7, <1>10 DEF Copied
  <2> QED BY <1>7, <1>11, <2>1 DEF Copied, OutputsMapped
<1>13. \A i \in DOMAIN net.pos : Depth(copy.net, copy.map[net.pos[i].index].index) <= Depth(net, net.pos[i].index)
  BY <1>9, <1>11 DEF Shallow
<1>14. IsNetwork(copy.net) /\ copy.net.pis = net.pis
  BY <1>1, <1>7 DEF Copied, Grows
<1> QED BY <1>2, <1>12, <1>13, <1>14, MappedDepth

-----------------------------------------------------------------------------
(* Cuts.                                                                   *)

\* The leaves of a cut decide about its root.
Consistent(net, leaves, u) ==
    /\ u \in [Nodes(net) -> BOOLEAN]
    /\ \A m \in Gates(net) : m \notin leaves =>
          (u[m] <=> \A i \in 1..2 : u[Fanins(net, m)[i].index] # Fanins(net, m)[i].complement)

LEMMA CutDecides ==
  ASSUME NEW net, IsNetwork(net), NEW leaves, NEW u, Consistent(net, leaves, u),
         NEW n \in Nodes(net), IsCut(net, n, leaves)
  PROVE  Values(net, leaves, {l \in leaves : u[l]})[n] = u[n]
<1> USE DEF Consistent
<1> DEFINE C == {m \in Nodes(net) : CoveredBy(net, leaves)[m]}
<1> DEFINE a == {l \in leaves : u[l]}
<1>1. n \in C
  BY DEF IsCut
<1>2. \A m \in C : /\ m \in Nodes(net)
                   /\ \/ m \in leaves
                      \/ m \in Gates(net) /\ \A i \in 1..2 : CoveredBy(net, leaves)[Fanins(net, m)[i].index]
  BY CoveredEquation
<1>3. \A m \in C \cap leaves : u[m] <=> m \in a
  OBVIOUS
<1>4. \A m \in Nodes(net) : IsGate(net, m) <=> m \in Gates(net)
  BY NetworkFacts
<1>5. \A m \in C \ leaves : ~ IsGate(net, m) => ~ u[m]
  BY <1>2, <1>4
<1>6. \A m \in C \ leaves : IsGate(net, m) =>
        /\ \A i \in 1..2 : Fanins(net, m)[i].index \in C
        /\ u[m] <=> \A i \in 1..2 : u[Fanins(net, m)[i].index] # Fanins(net, m)[i].complement
  BY <1>2, <1>4, NetworkFacts
<1>7. \A m \in C : u[m] \in BOOLEAN
  OBVIOUS
<1>8. C \in SUBSET Nodes(net)
  OBVIOUS
<1> HIDE DEF C, a
<1>9. \A m \in C : Values(net, leaves, a)[m] = u[m]
  <2>1. Agrees(net, leaves, a, u, C)
    BY <1>3, <1>5, <1>6, <1>7, <1>8 DEF Agrees
  <2> QED BY <2>1, ValuesDetermined
<1> QED BY <1>1, <1>9 DEF a

\* A table does not depend on the leaves outside its support.
LEMMA SupportDecides ==
  ASSUME NEW leaves, IsFiniteSet(leaves), NEW table,
         NEW a \in SUBSET leaves, NEW b \in SUBSET leaves,
         a \cap Support(table, leaves) = b \cap Support(table, leaves)
  PROVE  a \in table <=> b \in table
<1> DEFINE cut == Support(table, leaves)
<1> DEFINE Apart(c, d) == (c \ d) \cup (d \ c)
<1> DEFINE Bad(c, d) == c \cap cut = d \cap cut /\ ~(c \in table <=> d \in table)
<1> DEFINE A == {k \in Nat : \E c, d \in SUBSET leaves : Bad(c, d) /\ Cardinality(Apart(c, d)) = k}
<1> SUFFICES ASSUME Bad(a, b) PROVE FALSE
  OBVIOUS
<1>1. \A c, d \in SUBSET leaves : IsFiniteSet(Apart(c, d)) /\ Cardinality(Apart(c, d)) \in Nat
  <2> TAKE c, d \in SUBSET leaves
  <2>1. Apart(c, d) \subseteq leaves
    OBVIOUS
  <2> HIDE DEF Apart
  <2> QED BY <2>1, FS_Subset, FS_CardinalityType
<1>2. A # {} /\ A \subseteq Nat
  <2>1. Cardinality(Apart(a, b)) \in A
    <3> HIDE DEF Apart, Bad
    <3> QED BY <1>1
  <2> QED BY <2>1
<1>3. PICK k \in A : \A m \in A : k <= m
  BY <1>2, LeastMember
<1>4. PICK c, d \in SUBSET leaves : Bad(c, d) /\ Cardinality(Apart(c, d)) = k
  BY <1>3
<1>5. PICK x : x \in Apart(c, d)
  <2>1. c # d
    BY <1>4
  <2> QED BY <2>1
<1>6. x \in leaves /\ x \notin cut
  BY <1>4, <1>5
<1>7. \A e \in SUBSET (leaves \ {x}) : (e \in table) <=> (e \cup {x} \in table)
  BY <1>6 DEF Support
<1> DEFINE e == IF x \in c THEN c \ {x} ELSE c \cup {x}
<1>8. e \in SUBSET leaves /\ e \cap cut = c \cap cut /\ Apart(e, d) = Apart(c, d) \ {x}
  BY <1>5, <1>6
<1>9. e \in table <=> c \in table
  <2>1. CASE x \in c
    <3>1. c \ {x} \in SUBSET (leaves \ {x}) /\ (c \ {x}) \cup {x} = c
      BY <2>1
    <3>2. (c \ {x} \in table) <=> ((c \ {x}) \cup {x} \in table)
      BY <1>7, <3>1
    <3> QED BY <2>1, <3>1, <3>2
  <2>2. CASE x \notin c
    <3>1. c \in SUBSET (leaves \ {x})
      BY <2>2
    <3> QED BY <1>7, <2>2, <3>1
  <2> QED BY <2>1, <2>2
<1>10. Bad(e, d)
  BY <1>4, <1>8, <1>9
<1>11. Cardinality(Apart(e, d)) = k - 1
  <2> DEFINE S == Apart(c, d)
  <2>1. IsFiniteSet(S) /\ x \in S /\ Cardinality(S) = k /\ Apart(e, d) = S \ {x}
    <3> HIDE DEF Apart, e, A
    <3> QED BY <1>1, <1>4, <1>5, <1>8
  <2> HIDE DEF S, e, Apart
  <2>2. Cardinality(S \ {x}) = Cardinality(S) - 1
    BY <2>1, FS_RemoveElement
  <2> QED BY <2>1, <2>2
<1>12. k - 1 \in A
  <2> HIDE DEF Apart, Bad, e
  <2>1. k - 1 \in Nat
    BY <1>1, <1>8, <1>11
  <2> QED BY <1>8, <1>10, <1>11, <2>1
<1>13. k \in Nat /\ k <= k - 1
  <2> HIDE DEF A
  <2> QED BY <1>2, <1>3, <1>12
<1> QED BY <1>13

\* The table over the leaves a gate's function depends on decides about the gate,
\* although they need not be a cut any more: the leaves that were dropped are gates or
\* inputs whose values are made up.
LEMMA CutCorrect ==
  ASSUME NEW net, IsNetwork(net), NEW n \in Gates(net), NEW cut \in
            {Support(truth_table(net, Signal(n, FALSE), leaves), leaves) : leaves \in AllCuts(net, n)},
         NEW a
  PROVE  /\ cut \subseteq 1..(n - 1)
         /\ {l \in cut : Values(net, Inputs(net), a)[l]} \in truth_table(net, Signal(n, FALSE), cut)
              <=> Values(net, Inputs(net), a)[n]
<1>1. PICK leaves \in AllCuts(net, n) : cut = Support(truth_table(net, Signal(n, FALSE), leaves), leaves)
  OBVIOUS
<1> DEFINE table == truth_table(net, Signal(n, FALSE), leaves)
<1> DEFINE V == Values(net, Inputs(net), a)
<1> DEFINE given == {l \in cut : V[l]}
<1> DEFINE u == Values(net, cut, given)
<1> DEFINE old == {l \in leaves : V[l]}
<1> DEFINE new == {l \in leaves : u[l]}
<1>2. leaves \in SUBSET (1..(n - 1)) /\ IsCut(net, n, leaves) /\ cut \subseteq leaves
  BY <1>1 DEF AllCuts, Support
<1>3. n \in Nat /\ n \in Nodes(net) /\ 1..(n - 1) \subseteq Nodes(net) /\ IsFiniteSet(leaves)
  <2>1. n \in Nat /\ n \in Nodes(net) /\ 1..(n - 1) \subseteq Nodes(net)
    BY NetworkFacts DEF Gates, Nodes
  <2>2. IsFiniteSet(1..(n - 1))
    BY <2>1, FS_Interval
  <2>3. IsFiniteSet(leaves)
    BY <1>2, <2>2, FS_Subset
  <2> QED BY <2>1, <2>3
<1>4. /\ V \in [Nodes(net) -> BOOLEAN]
      /\ \A m \in Nodes(net) : V[m] <=> ValueAt(net, Inputs(net), a, V, m)
  BY ValuesEquation
<1>5. /\ u \in [Nodes(net) -> BOOLEAN]
      /\ \A m \in Nodes(net) : u[m] <=> ValueAt(net, cut, given, u, m)
  BY ValuesEquation
<1>6. \A m \in Gates(net) : m \in Nodes(net) /\ IsGate(net, m) /\ m \notin Inputs(net)
  BY NetworkFacts DEF Gates, Nodes, Inputs, IsGate
<1> HIDE DEF V
<1>7. Values(net, leaves, old)[n] = V[n]
  <2>1. Consistent(net, leaves, V)
    BY <1>4, <1>6 DEF ValueAt, Consistent
  <2> QED BY <1>2, <1>3, <2>1, CutDecides
<1>8. \A l \in cut : u[l] <=> V[l]
  <2>1. cut \subseteq Nodes(net)
    BY <1>2, <1>3
  <2>2. \A l \in cut : ValueAt(net, cut, given, u, l) = (l \in given)
    <3> HIDE DEF u, given
    <3> QED BY DEF ValueAt
  <2> HIDE DEF u
  <2> QED BY <1>4, <1>5, <2>1, <2>2
<1> HIDE DEF u
<1>9. Values(net, leaves, new)[n] = u[n]
  <2>1. Consistent(net, leaves, u)
    BY <1>2, <1>5, <1>6 DEF ValueAt, Consistent
  <2> QED BY <1>2, <1>3, <2>1, CutDecides
<1>10. old \in table <=> new \in table
  <2>1. old \in SUBSET leaves /\ new \in SUBSET leaves
    OBVIOUS
  <2>2. old \cap cut = new \cap cut
    BY <1>2, <1>8
  <2>3. cut = Support(table, leaves)
    BY <1>1
  <2> HIDE DEF old, new, table
  <2>4. old \cap Support(table, leaves) = new \cap Support(table, leaves)
    BY <2>2, <2>3
  <2> QED BY <1>3, <2>1, <2>4, SupportDecides
<1>11. \A m \in Nat : Signal(m, FALSE).index = m /\ Signal(m, FALSE).complement = FALSE
  BY SignalFacts
<1>12. (old \in table <=> V[n]) /\ (new \in table <=> u[n])
  BY <1>3, <1>4, <1>5, <1>7, <1>9, <1>11 DEF truth_table, Holds
<1>13. given \in truth_table(net, Signal(n, FALSE), cut) <=> u[n]
  BY <1>3, <1>5, <1>11 DEF truth_table, Holds, u
<1> QED BY <1>2, <1>10, <1>12, <1>13 DEF V

\* The leaves of a network's cut give its root.
LEMMA CutValues ==
  ASSUME NEW net, IsNetwork(net), NEW n \in Gates(net), NEW cut \in LeafSets(net, n), NEW a
  PROVE  {l \in cut : Values(net, Inputs(net), a)[l]} \in truth_table(net, Signal(n, FALSE), cut)
            <=> Values(net, Inputs(net), a)[n]
<1> DEFINE V == Values(net, Inputs(net), a)
           given == {l \in cut : V[l]}
<1>1. n \in Nat /\ n \in Nodes(net) /\ IsCut(net, n, cut)
  BY NetworkFacts DEF Gates, Nodes, LeafSets, AllCuts
<1>2. /\ V \in [Nodes(net) -> BOOLEAN]
      /\ \A m \in Nodes(net) : V[m] <=> ValueAt(net, Inputs(net), a, V, m)
  BY ValuesEquation
<1>3. \A m \in Gates(net) : m \in Nodes(net) /\ IsGate(net, m) /\ m \notin Inputs(net)
  BY NetworkFacts DEF Gates, Nodes, Inputs, IsGate
<1> HIDE DEF V
<1>4. Values(net, cut, given)[n] = V[n]
  <2>1. Consistent(net, cut, V)
    BY <1>2, <1>3 DEF ValueAt, Consistent
  <2> QED BY <1>1, <2>1, CutDecides
<1>5. Signal(n, FALSE).index = n /\ Signal(n, FALSE).complement = FALSE
  BY <1>1, SignalFacts
<1>6. given \in SUBSET cut
  OBVIOUS
<1> HIDE DEF given
<1> QED BY <1>1, <1>2, <1>4, <1>5, <1>6 DEF truth_table, Holds, given, V

\* Fewer leaves that still are on every path there was a leaf of, are enough.
LEMMA CutWithout ==
  ASSUME NEW net, IsNetwork(net), NEW n \in LiveGates(net), NEW cut, IsCut(net, n, cut),
         NEW l, l \notin 1..net.pis, l \notin LiveGates(net)
  PROVE  IsCut(net, n, cut \ {l})
<1> DEFINE less == cut \ {l}
           Kept == LiveGates(net) \cup (1..net.pis)
           A == {m \in Kept : CoveredBy(net, cut)[m] /\ ~ CoveredBy(net, less)[m]}
<1>1. Kept \subseteq Nodes(net) /\ l \notin Kept /\ n \in Kept
  BY NetworkFacts, LiveClosed DEF Nodes, Gates
<1> HIDE DEF less
<1>2. A = {}
  <2> SUFFICES ASSUME A # {} PROVE FALSE
    OBVIOUS
  <2>1. PICK m \in A : \A a \in A : m <= a
    <3>1. A \in SUBSET Nat
      BY <1>1, NetworkFacts
    <3> HIDE DEF A
    <3> QED BY <3>1, LeastMember
  <2>2. m \in Nodes(net) /\ m \in Kept /\ m # l /\ m \in Nat
    BY <1>1, <2>1, NetworkFacts
  <2>3. m \notin cut
    <3>1. m \in less => CoveredBy(net, less)[m]
      BY <2>2, CoveredEquation
    <3> QED BY <2>1, <2>2, <3>1 DEF less
  <2>4. m \in Gates(net) /\ \A i \in 1..2 : CoveredBy(net, cut)[Fanins(net, m)[i].index]
    BY <2>1, <2>2, <2>3, CoveredEquation
  <2>5. m \in LiveGates(net)
    BY <2>2, <2>4, NetworkFacts DEF Gates
  <2>6. \A i \in 1..2 : CoveredBy(net, less)[Fanins(net, m)[i].index]
    <3> TAKE i \in 1..2
    <3> DEFINE k == Fanins(net, m)[i].index
    <3>1. k \in Kept /\ k < m /\ k \in Nat
      BY <2>4, <2>5, LiveClosed, NetworkFacts
    <3>2. k \notin A
      BY <2>1, <2>2, <3>1
    <3> QED BY <2>4, <3>1, <3>2
  <2>7. CoveredBy(net, less)[m]
    BY <2>2, <2>4, <2>6, CoveredEquation
  <2> QED BY <2>1, <2>7
<1> QED BY <1>1, <1>2 DEF IsCut, less

\* The leaves of a cut that contains no smaller one are inputs, or needed.
LEMMA CutLeaves ==
  ASSUME NEW net, IsNetwork(net), NEW n \in LiveGates(net), NEW cut \in IrredundantCuts(net, n)
  PROVE  /\ cut \in LeafSets(net, n) /\ cut \in SUBSET (1..(n - 1)) /\ cut # {}
         /\ \A l \in cut : l \in 1..net.pis \/ l \in LiveGates(net)
<1>1. /\ cut \in LeafSets(net, n) /\ cut \in SUBSET (1..(n - 1)) /\ Cardinality(cut) <= cut_size
      /\ IsCut(net, n, cut)
      /\ \A d \in LeafSets(net, n) : d \subseteq cut => d = cut
  BY DEF IrredundantCuts, LeafSets, AllCuts
<1>2. n \in Gates(net) /\ n \in Nat /\ n \in Nodes(net)
  BY LiveClosed, NetworkFacts DEF Gates, Nodes
<1>3. IsFiniteSet(cut)
  <2>1. IsFiniteSet(1..(n - 1))
    BY <1>2, FS_Interval
  <2> QED BY <1>1, <2>1, FS_Subset
<1>4. ASSUME NEW l \in cut, l \notin 1..net.pis, l \notin LiveGates(net) PROVE FALSE
  <2>1. IsCut(net, n, cut \ {l})
    BY <1>1, <1>4, CutWithout
  <2>2. Cardinality(cut \ {l}) <= cut_size
    <3>1. Cardinality(cut \ {l}) = Cardinality(cut) - 1 /\ Cardinality(cut) \in Nat
      BY <1>3, FS_RemoveElement, FS_CardinalityType
    <3> QED BY <1>1, <3>1 DEF cut_size
  <2>3. cut \ {l} \in LeafSets(net, n)
    BY <1>1, <2>1, <2>2 DEF LeafSets, AllCuts
  <2> QED BY <1>1, <2>3
<1>5. cut # {}
  <2> SUFFICES ASSUME cut = {} PROVE FALSE
    OBVIOUS
  <2> DEFINE A == {m \in Nodes(net) : CoveredBy(net, {})[m]}
  <2>1. PICK m \in A : \A a \in A : m <= a
    <3>1. A \in SUBSET Nat /\ A # {}
      BY <1>1, <1>2, NetworkFacts DEF IsCut
    <3> HIDE DEF A
    <3> QED BY <3>1, LeastMember
  <2>2. m \in Gates(net) /\ \A i \in 1..2 : CoveredBy(net, {})[Fanins(net, m)[i].index]
    BY <2>1, CoveredEquation
  <2>3. /\ Fanins(net, m)[1].index \in Nodes(net) /\ Fanins(net, m)[1].index < m
        /\ Fanins(net, m)[1].index \in Nat /\ m \in Nat /\ 1 \in 1..2
    BY <2>2, NetworkFacts DEF Nodes, Gates
  <2> QED BY <2>1, <2>2, <2>3
<1> QED BY <1>1, <1>4, <1>5

\* The fanins of a gate are such a cut.
LEMMA FaninCut ==
  ASSUME NEW net, IsNetwork(net), NEW n \in Gates(net)
  PROVE  /\ FaninNodes(net, n) \in IrredundantCuts(net, n)
         /\ FaninNodes(net, n) = {Fanins(net, n)[1].index, Fanins(net, n)[2].index}
         /\ Cardinality(FaninNodes(net, n)) = 2
<1> DEFINE x == Fanins(net, n)[1].index
           y == Fanins(net, n)[2].index
           cut == FaninNodes(net, n)
<1>1. cut = {x, y}
  <2>1. 1..2 = {1, 2}
    OBVIOUS
  <2> QED BY <2>1 DEF FaninNodes
<1>2. /\ x \in Nat /\ y \in Nat /\ n \in Nat /\ 0 < x /\ x < y /\ y < n
      /\ n \in Nodes(net) /\ x \in Nodes(net) /\ y \in Nodes(net)
  <2>1. 1 \in 1..2 /\ 2 \in 1..2
    OBVIOUS
  <2>2. n \in Nat /\ n \in Nodes(net)
    BY NetworkFacts DEF Nodes, Gates
  <2>3. x < y /\ y < n
    BY DEF IsNetwork
  <2>4. x \in Nodes(net) /\ y \in Nodes(net) /\ 0 < x
    BY <2>1, NetworkFacts
  <2> QED BY <2>2, <2>3, <2>4, NetworkFacts
<1>3. \A i \in 1..2 : Fanins(net, n)[i].index \in {x, y}
  <2>1. \A i \in 1..2 : i = 1 \/ i = 2
    OBVIOUS
  <2> QED BY <2>1
<1> HIDE DEF x, y
<1>4. Cardinality(cut) = 2
  <2>1. Cardinality({x}) = 1 /\ IsFiniteSet({x})
    BY FS_Singleton
  <2>2. cut = {x} \cup {y} /\ y \notin {x}
    BY <1>1, <1>2
  <2>3. Cardinality({x} \cup {y}) = Cardinality({x}) + 1
    BY <2>1, <2>2, FS_AddElement
  <2> QED BY <2>1, <2>2, <2>3
<1>5. cut \in LeafSets(net, n)
  <2>1. \A l \in cut : CoveredBy(net, cut)[l]
    BY <1>1, <1>2, CoveredEquation
  <2>2. CoveredBy(net, cut)[n]
    BY <1>1, <1>2, <1>3, <2>1, CoveredEquation
  <2>3. cut \in SUBSET (1..(n - 1))
    BY <1>1, <1>2
  <2> QED BY <1>4, <2>2, <2>3 DEF LeafSets, AllCuts, IsCut, cut_size
<1>6. ASSUME NEW d \in LeafSets(net, n), d \subseteq cut, d # cut PROVE FALSE
  <2>1. \E l : d \subseteq {l} /\ l \in Nat /\ l < n
    BY <1>1, <1>2, <1>6
  <2>2. PICK l : d \subseteq {l} /\ l \in Nat /\ l < n
    BY <2>1
  <2> DEFINE A == {m \in Nodes(net) : m # l /\ CoveredBy(net, d)[m]}
  <2>3. PICK m \in A : \A a \in A : m <= a
    <3>1. A \in SUBSET Nat
      BY NetworkFacts
    <3>2. n \in A
      BY <1>2, <1>6, <2>2 DEF LeafSets, AllCuts, IsCut
    <3> HIDE DEF A
    <3> QED BY <3>1, <3>2, LeastMember
  <2>4. m \in Gates(net) /\ \A i \in 1..2 : CoveredBy(net, d)[Fanins(net, m)[i].index]
    BY <2>2, <2>3, CoveredEquation
  <2>5. \A i \in 1..2 : Fanins(net, m)[i].index = l
    <3> TAKE i \in 1..2
    <3>1. Fanins(net, m)[i].index \in Nodes(net) /\ Fanins(net, m)[i].index < m
      BY <2>4, NetworkFacts
    <3>2. Fanins(net, m)[i].index \in Nat /\ m \in Nat
      BY <2>3, <3>1, NetworkFacts
    <3>3. Fanins(net, m)[i].index \notin A
      BY <2>3, <3>1, <3>2
    <3> QED BY <2>4, <3>1, <3>3
  <2>6. Fanins(net, m)[1].index = l /\ Fanins(net, m)[2].index = l
    <3>1. 1 \in 1..2 /\ 2 \in 1..2
      OBVIOUS
    <3> QED BY <2>5, <3>1
  <2>7. Fanins(net, m)[1].index < Fanins(net, m)[2].index
    BY <2>4 DEF IsNetwork
  <2> QED BY <2>2, <2>6, <2>7
<1> HIDE DEF cut
<1>7. cut \in IrredundantCuts(net, n)
  BY <1>5, <1>6 DEF IrredundantCuts
<1> QED BY <1>1, <1>4, <1>7 DEF cut, x, y

\* Over the fanins a gate is true for the one assignment that makes them true.
LEMMA FaninTable ==
  ASSUME NEW net, IsNetwork(net), NEW n \in Gates(net)
  PROVE  truth_table(net, Signal(n, FALSE), FaninNodes(net, n)) =
            {{Fanins(net, n)[i].index : i \in {j \in 1..2 : ~ Fanins(net, n)[j].complement}}}
<1> DEFINE s(i) == Fanins(net, n)[i]
           cut == FaninNodes(net, n)
           a0 == {s(i).index : i \in {j \in 1..2 : ~ s(j).complement}}
<1>1. n \in Nodes(net) /\ n \in Nat /\ IsGate(net, n)
  BY NetworkFacts DEF Nodes, Gates
<1>2. \A i \in 1..2 : /\ s(i) \in Signals /\ s(i).index < n /\ s(i).index \in Nodes(net)
                      /\ s(i).index \in cut /\ s(i).complement \in BOOLEAN
  BY NetworkFacts DEF FaninNodes, Signals
<1>3. \A i, j \in 1..2 : s(i).index = s(j).index => i = j
  <2>1. s(1).index < s(2).index /\ s(1).index \in Nat /\ s(2).index \in Nat
    <3>1. s(1).index < s(2).index
      BY DEF IsNetwork
    <3>2. 1 \in 1..2 /\ 2 \in 1..2
      OBVIOUS
    <3> QED BY <1>2, <3>1, <3>2, NetworkFacts
  <2>2. \A i \in 1..2 : i = 1 \/ i = 2
    OBVIOUS
  <2> HIDE DEF s
  <2> QED BY <2>1, <2>2
<1>4. n \notin cut
  <2>1. \A l \in cut : \E i \in 1..2 : l = s(i).index
    BY DEF FaninNodes
  <2>2. \A l \in cut : l \in Nat /\ l < n
    BY <1>2, <2>1, NetworkFacts
  <2> QED BY <1>1, <2>2
<1>5. \A l \in cut : \E i \in 1..2 : l = s(i).index
  BY DEF FaninNodes
<1> HIDE DEF s
<1>6. \A i \in 1..2 : s(i).index \in a0 <=> ~ s(i).complement
  BY <1>3
<1>7. a0 \in SUBSET cut
  BY <1>2
<1> HIDE DEF cut, a0
<1>8. ASSUME NEW a \in SUBSET cut PROVE Holds(net, Signal(n, FALSE), cut, a) <=> a = a0
  <2> DEFINE V == Values(net, cut, a)
  <2>1. \A m \in Nodes(net) : V[m] <=> ValueAt(net, cut, a, V, m)
    BY ValuesEquation
  <2>2. V \in [Nodes(net) -> BOOLEAN]
    BY ValuesEquation
  <2> HIDE DEF V
  <2>3. \A i \in 1..2 : V[s(i).index] <=> s(i).index \in a
    BY <1>2, <2>1 DEF ValueAt
  <2>4. V[n] <=> \A i \in 1..2 : V[s(i).index] # s(i).complement
    BY <1>1, <1>4, <2>1 DEF ValueAt, s
  <2>5. \A i \in 1..2 : V[s(i).index] \in BOOLEAN
    BY <1>2, <2>2
  <2>6. V[n] <=> \A i \in 1..2 : s(i).index \in a <=> ~ s(i).complement
    BY <1>2, <2>3, <2>4, <2>5
  <2>7. V[n] <=> \A i \in 1..2 : s(i).index \in a <=> s(i).index \in a0
    BY <1>6, <2>6
  <2>8. V[n] <=> a = a0
    BY <1>5, <1>7, <2>7
  <2>9. Signal(n, FALSE).index = n /\ Signal(n, FALSE).complement = FALSE
    BY <1>1, SignalFacts
  <2>10. V[n] \in BOOLEAN
    BY <1>1, <2>2
  <2> QED BY <2>8, <2>9, <2>10 DEF Holds, V
<1>9. truth_table(net, Signal(n, FALSE), cut) = {a0}
  BY <1>7, <1>8 DEF truth_table
<1> QED BY <1>9 DEF cut, a0, s

-----------------------------------------------------------------------------
(* Passes.                                                                 *)

\* The signals that nodes of a network have become compute what the nodes compute.
Tracks(net, into, n, f) ==
    /\ f \in SignalsOf(into)
    /\ \A a : On(into, a, f) <=> Values(net, Inputs(net), a)[n]

\* It keeps doing so while the new network grows.
LEMMA TracksGrows ==
  ASSUME NEW net, NEW into, IsNetwork(into), NEW big, Grows(into, big), NEW n, NEW f,
         Tracks(net, into, n, f)
  PROVE  Tracks(net, big, n, f)
<1>1. SignalsOf(into) \subseteq SignalsOf(big)
  BY GrowsFacts
<1>2. \A a : \A s \in SignalsOf(into) : On(big, a, s) = On(into, a, s)
  BY GrowsKeeps
<1> QED BY <1>1, <1>2 DEF Tracks

\* Then it has the function of the node.
LEMMA TracksFunction ==
  ASSUME NEW net, IsNetwork(net), NEW into, into.pis = net.pis, NEW n \in Nodes(net), NEW f,
         Tracks(net, into, n, f)
  PROVE  Function(into, f) = Function(net, Signal(n, FALSE))
<1>1. Inputs(into) = Inputs(net)
  BY DEF Inputs
<1>2. \A a : On(net, a, Signal(n, FALSE)) <=> Values(net, Inputs(net), a)[n]
  BY SignalValues
<1>3. \A a : On(into, a, f) <=> On(net, a, Signal(n, FALSE))
  BY <1>2 DEF Tracks
<1> QED BY <1>1, <1>3 DEF Function, truth_table, On
=============================================================================
