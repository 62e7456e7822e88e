--------------------------- MODULE AigSessionProofs ---------------------------
(***************************************************************************)
(* A session: whatever network is read and whichever passes are run on it, *)
(* one after the other, functions are kept, counters are exact, nothing    *)
(* gets deeper or larger that may not, and the store is what AigStore      *)
(* says.                                                                   *)
(***************************************************************************)
EXTENDS AigSession, AigBalanceProofs

-----------------------------------------------------------------------------
(* Counting.                                                               *)

\* A visit of n, given those of the nodes before.
VisitOf(net, step, lower, n) ==
    [count \in Counters(net) |->
        IF IsGate(net, n)
        THEN VisitFanin(lower,
                        VisitFanin(lower, [count |-> count, cost |-> 1],
                                   Fanins(net, n)[1].index, step),
                        Fanins(net, n)[2].index, step)
        ELSE [count |-> count, cost |-> 0]]

\* The recursive definition of the visits satisfies its equation (recursive_ref and
\* recursive_deref of mffc_utils.hpp).
LEMMA VisitsEquation ==
  ASSUME NEW net, IsNetwork(net), NEW step
  PROVE  \A n \in Nodes(net) : Visits(net, step)[n] = VisitOf(net, step, Visits(net, step), n)
<1> DEFINE N == net.pis + Len(net.gates)
           At(U, n) == VisitOf(net, step, U, n)
           Sound(m, U) == U = [n \in 0..m |-> At(U, n)]
<1>0. N \in Nat /\ Nodes(net) = 0..N
  BY NetworkFacts DEF Nodes
<1>1. \A U, W : \A n \in 0..N : (\A l \in 0..(n - 1) : U[l] = W[l]) => At(U, n) = At(W, n)
  <2> SUFFICES ASSUME NEW U, NEW W, NEW n \in 0..N, \A l \in 0..(n - 1) : U[l] = W[l]
               PROVE  At(U, n) = At(W, n)
    OBVIOUS
  <2>1. CASE IsGate(net, n)
    <3> DEFINE a == Fanins(net, n)[1].index
               b == Fanins(net, n)[2].index
    <3>1. n \in Gates(net) /\ 1 \in 1..2 /\ 2 \in 1..2
      BY <1>0, <2>1, NetworkFacts
    <3>2. U[a] = W[a] /\ U[b] = W[b]
      <4>1. a \in Nodes(net) /\ b \in Nodes(net) /\ a < n /\ b < n
        BY <3>1, NetworkFacts
      <4> QED BY <1>0, <4>1
    <3> HIDE DEF a, b
    <3>3. \A acc : VisitFanin(U, acc, a, step) = VisitFanin(W, acc, a, step)
                   /\ VisitFanin(U, acc, b, step) = VisitFanin(W, acc, b, step)
      BY <3>2 DEF VisitFanin
    <3> QED BY <3>3 DEF VisitOf, a, b
  <2>2. CASE ~ IsGate(net, n)
    BY <2>2 DEF VisitOf
  <2> QED BY <2>1, <2>2
<1> HIDE DEF At, N
<1>2. ASSUME NEW m \in 0..N, m # 0, NEW U, Sound(m - 1, U) PROVE \E W : Sound(m, W)
  <2> DEFINE W == [n \in 0..m |-> At(U, n)]
  <2>1. \A n \in 0..(m - 1) : U[n] = At(U, n)
    BY <1>2
  <2>2. \A n \in 0..(m - 1) : W[n] = U[n]
    BY <1>2, <2>1
  <2>3. W = [n \in 0..m |-> At(U, n)]
    OBVIOUS
  <2> HIDE DEF W
  <2>4. \A n \in 0..m : At(U, n) = At(W, n)
    <3> SUFFICES ASSUME NEW n \in 0..m PROVE At(U, n) = At(W, n)
      OBVIOUS
    <3>1. n \in 0..N /\ \A l \in 0..(n - 1) : l \in 0..(m - 1)
      BY <1>0
    <3> QED BY <1>1, <2>2, <3>1
  <2>5. W = [n \in 0..m |-> At(W, n)]
    BY <2>3, <2>4
  <2> QED BY <2>5
<1>3. \E U : Sound(0, U)
  <2> DEFINE U == [n \in 0..0 |-> At(<<>>, n)]
  <2>1. U = [n \in 0..0 |-> At(<<>>, n)]
    OBVIOUS
  <2> HIDE DEF U
  <2>2. \A n \in 0..0 : At(<<>>, n) = At(U, n)
    BY <1>0, <1>1
  <2>3. U = [n \in 0..0 |-> At(U, n)]
    BY <2>1, <2>2
  <2> QED BY <2>3
<1> HIDE DEF Sound
<1>4. \A m \in 0..N : \E U : Sound(m, U)
  <2> DEFINE A == {m \in 0..N : ~ \E U : Sound(m, U)}
  <2> SUFFICES ASSUME A # {} PROVE FALSE
    OBVIOUS
  <2>0. A \in SUBSET Nat
    BY <1>0
  <2>1. PICK m \in A : \A a \in A : m <= a
    BY <2>0, LeastMember
  <2>2. m # 0 /\ m - 1 \in 0..N /\ m - 1 \notin A
    BY <1>0, <1>3, <2>1
  <2> QED BY <1>2, <2>1, <2>2
<1>5. Visits(net, step) = CHOOSE U : Sound(N, U)
  BY <1>0, Zenon DEF Visits, Sound, At, VisitOf
<1>6. Sound(N, Visits(net, step))
  BY <1>0, <1>4, <1>5
<1> QED BY <1>0, <1>6 DEF Sound, At

\* The gates of U that read m; how often the counter of m changes when the nodes
\* of X are read and the gates of U are visited.
Readers(net, U, m) == {u \in U : m \in FaninNodes(net, u)}
Load(net, X, U, m) == (IF m \in X THEN 1 ELSE 0) + Cardinality(Readers(net, U, m))

\* A counter that changes that often passes between 0 and 1.
Passes(step, c, load) == IF step = 1 THEN c <= 0 /\ 0 < c + load ELSE 0 < c /\ c - load <= 0

\* U is what is visited when the nodes of X, none of them behind top, are read,
\* and after is what becomes of the counters.
Visited(net, step, X, top, before, U, after) ==
    /\ U \subseteq Gates(net) /\ IsFiniteSet(U) /\ \A u \in U : u <= top
    /\ after \in Counters(net)
    /\ \A m \in Nodes(net) :
          after[m] = IF step = 1 THEN before[m] + Load(net, X, U, m) ELSE before[m] - Load(net, X, U, m)
    /\ \A m \in Gates(net) : m \in U <=> Passes(step, before[m], Load(net, X, U, m))

\* A load is a natural number; it is 0 or 1 for what no visited gate reads.
LEMMA LoadFacts ==
  ASSUME NEW net, NEW X, NEW U, IsFiniteSet(U), NEW m
  PROVE  /\ IsFiniteSet(Readers(net, U, m)) /\ Cardinality(Readers(net, U, m)) \in Nat
         /\ Load(net, X, U, m) \in Nat
         /\ m \notin X /\ (\A u \in U : m \notin FaninNodes(net, u)) => Load(net, X, U, m) = 0
         /\ m \in X /\ (\A u \in U : m \notin FaninNodes(net, u)) => Load(net, X, U, m) = 1
<1>1. Readers(net, U, m) \in SUBSET U
  BY DEF Readers
<1>2. IsFiniteSet(Readers(net, U, m)) /\ Cardinality(Readers(net, U, m)) \in Nat
  BY <1>1, FS_Subset, FS_CardinalityType
<1>3. (\A u \in U : m \notin FaninNodes(net, u)) => Readers(net, U, m) = {}
  BY DEF Readers
<1>4. (\A u \in U : m \notin FaninNodes(net, u)) => Cardinality(Readers(net, U, m)) = 0
  BY <1>3, FS_EmptySet
<1> QED BY <1>2, <1>4 DEF Load

\* Loads add up.
LEMMA LoadsAdd ==
  ASSUME NEW net, NEW X, NEW Y, X \cap Y = {},
         NEW U, IsFiniteSet(U), NEW V, IsFiniteSet(V), U \cap V = {}, NEW m
  PROVE  Load(net, X \cup Y, U \cup V, m) = Load(net, X, U, m) + Load(net, Y, V, m)
<1>1. Readers(net, U \cup V, m) = Readers(net, U, m) \cup Readers(net, V, m)
  BY DEF Readers
<1>2. Readers(net, U, m) \cap Readers(net, V, m) = {}
  BY DEF Readers
<1>3. /\ IsFiniteSet(Readers(net, U, m)) /\ Cardinality(Readers(net, U, m)) \in Nat
      /\ IsFiniteSet(Readers(net, V, m)) /\ Cardinality(Readers(net, V, m)) \in Nat
  BY LoadFacts
<1>4. Cardinality(Readers(net, U \cup V, m)) = Cardinality(Readers(net, U, m)) + Cardinality(Readers(net, V, m))
  <2> DEFINE R == Readers(net, U, m)
             S == Readers(net, V, m)
  <2>1. Cardinality(R \cap S) = 0
    BY <1>2, FS_EmptySet
  <2>2. IsFiniteSet(R) /\ IsFiniteSet(S) /\ Cardinality(R) \in Nat /\ Cardinality(S) \in Nat
    BY <1>3
  <2> HIDE DEF R, S
  <2>3. Cardinality(R \cup S) = Cardinality(R) + Cardinality(S) - Cardinality(R \cap S)
    BY <2>2, FS_Union
  <2>4. Cardinality(R \cup S) = Cardinality(R) + Cardinality(S)
    BY <2>1, <2>2, <2>3
  <2> QED BY <1>1, <2>4 DEF R, S
<1>5. m \in X \cup Y <=> (m \in X \/ m \in Y)
  OBVIOUS
<1>6. ~ (m \in X /\ m \in Y)
  OBVIOUS
<1> QED BY <1>3, <1>4, <1>5, <1>6 DEF Load

\* Fanins come before their gates.
LEMMA FaninsBefore ==
  ASSUME NEW net, IsNetwork(net), NEW n \in Gates(net)
  PROVE  /\ FaninNodes(net, n) = {Fanins(net, n)[1].index, Fanins(net, n)[2].index}
         /\ Fanins(net, n)[1].index # Fanins(net, n)[2].index
         /\ \A l \in FaninNodes(net, n) : l \in Nodes(net) /\ l \in Nat /\ l < n
         /\ Fanins(net, n)[1].index \in FaninNodes(net, n) /\ Fanins(net, n)[2].index \in FaninNodes(net, n)
<1>1. FaninNodes(net, n) = {Fanins(net, n)[1].index, Fanins(net, n)[2].index}
  BY DEF FaninNodes
<1>2. 1 \in 1..2 /\ 2 \in 1..2
  OBVIOUS
<1>3. \A l \in FaninNodes(net, n) : l \in Nodes(net) /\ l < n
  BY <1>1, <1>2, NetworkFacts
<1>4. \A l \in Nodes(net) : l \in Nat
  BY NetworkFacts
<1>5. Fanins(net, n)[1].index < Fanins(net, n)[2].index
  BY DEF IsNetwork
<1>6. Fanins(net, n)[1].index \in Nat /\ Fanins(net, n)[2].index \in Nat
  BY <1>1, <1>3, <1>4
<1> QED BY <1>1, <1>3, <1>4, <1>5, <1>6

\* Two visits, one after the other.
LEMMA VisitedTwice ==
  ASSUME NEW net, IsNetwork(net), NEW step \in {1, -1}, NEW top \in Nat,
         NEW X, NEW Y, X \cap Y = {}, NEW a \in Counters(net), NEW b, NEW c, NEW U, NEW V,
         Visited(net, step, X, top, a, U, b), Visited(net, step, Y, top, b, V, c)
  PROVE  /\ Visited(net, step, X \cup Y, top, a, U \cup V, c)
         /\ Cardinality(U \cup V) = Cardinality(U) + Cardinality(V)
<1>1. /\ U \subseteq Gates(net) /\ IsFiniteSet(U) /\ \A u \in U : u <= top
      /\ V \subseteq Gates(net) /\ IsFiniteSet(V) /\ \A u \in V : u <= top
      /\ b \in Counters(net) /\ c \in Counters(net)
  BY DEF Visited
<1>2. \A m \in Gates(net) : m \in Nodes(net)
  BY NetworkFacts DEF Gates, Nodes
<1>3. ASSUME NEW m \in Nodes(net)
      PROVE  /\ Load(net, X, U, m) \in Nat /\ Load(net, Y, V, m) \in Nat
             /\ a[m] \in Int /\ b[m] \in Int /\ c[m] \in Int
             /\ b[m] = IF step = 1 THEN a[m] + Load(net, X, U, m) ELSE a[m] - Load(net, X, U, m)
             /\ c[m] = IF step = 1 THEN b[m] + Load(net, Y, V, m) ELSE b[m] - Load(net, Y, V, m)
  BY <1>1, LoadFacts DEF Visited, Counters
<1>4. \A x, y \in Int : \A k, l \in Nat :
         (y = IF step = 1 THEN x + k ELSE x - k) =>
            /\ Passes(step, x, k + l) <=> (Passes(step, x, k) \/ Passes(step, y, l))
            /\ ~ (Passes(step, x, k) /\ Passes(step, y, l))
  BY DEF Passes
<1>5. ASSUME NEW m \in Gates(net)
      PROVE  /\ ~ (m \in U /\ m \in V)
             /\ m \in U \cup V <=> Passes(step, a[m], Load(net, X, U, m) + Load(net, Y, V, m))
  <2>1. (m \in U <=> Passes(step, a[m], Load(net, X, U, m)))
        /\ (m \in V <=> Passes(step, b[m], Load(net, Y, V, m)))
    BY DEF Visited
  <2> QED BY <1>2, <1>3, <1>4, <2>1
<1>6. U \cap V = {}
  BY <1>1, <1>5
<1>7. \A m : Load(net, X \cup Y, U \cup V, m) = Load(net, X, U, m) + Load(net, Y, V, m)
  BY <1>1, <1>6, LoadsAdd
<1>8. IsFiniteSet(U \cup V) /\ Cardinality(U \cup V) = Cardinality(U) + Cardinality(V)
  <2>1. Cardinality(U \cap V) = 0
    BY <1>6, FS_EmptySet
  <2>2. Cardinality(U) \in Nat /\ Cardinality(V) \in Nat
    BY <1>1, FS_CardinalityType
  <2>3. IsFiniteSet(U \cup V) /\ Cardinality(U \cup V) = Cardinality(U) + Cardinality(V) - Cardinality(U \cap V)
    BY <1>1, FS_Union
  <2> QED BY <2>1, <2>2, <2>3
<1>9. ASSUME NEW m \in Nodes(net)
      PROVE  c[m] = IF step = 1 THEN a[m] + Load(net, X \cup Y, U \cup V, m)
                    ELSE a[m] - Load(net, X \cup Y, U \cup V, m)
  <2> DEFINE k == Load(net, X, U, m)
             l == Load(net, Y, V, m)
  <2>1. /\ k \in Nat /\ l \in Nat /\ a[m] \in Int
        /\ b[m] = IF step = 1 THEN a[m] + k ELSE a[m] - k
        /\ c[m] = IF step = 1 THEN b[m] + l ELSE b[m] - l
    BY <1>3
  <2>2. Load(net, X \cup Y, U \cup V, m) = k + l
    BY <1>7
  <2> HIDE DEF k, l
  <2>3. c[m] = IF step = 1 THEN a[m] + (k + l) ELSE a[m] - (k + l)
    BY <2>1
  <2> QED BY <2>2, <2>3
<1>10. \A m \in Gates(net) : m \in U \cup V <=> Passes(step, a[m], Load(net, X \cup Y, U \cup V, m))
  BY <1>5, <1>7
<1>11. U \cup V \subseteq Gates(net) /\ \A u \in U \cup V : u <= top
  BY <1>1
<1> QED BY <1>1, <1>8, <1>9, <1>10, <1>11 DEF Visited

-----------------------------------------------------------------------------

\* A visit of n reads its fanins; it returns n and the gates that have been visited.
Returned(net, step, count, n, r) ==
    IF IsGate(net, n)
    THEN \E U : /\ Visited(net, step, FaninNodes(net, n), n - 1, count, U, r.count)
                /\ r.cost = 1 + Cardinality(U)
    ELSE r.count = count /\ r.cost = 0

VisitRight(net, step, n) ==
    \A count \in Counters(net) : Returned(net, step, count, n, Visits(net, step)[n][count])

\* A visit that stays before s stays before t.
LEMMA FartherTop ==
  ASSUME NEW net, IsNetwork(net), NEW step, NEW X, NEW a, NEW U, NEW b, NEW s \in Int, NEW t \in Int, s <= t,
         Visited(net, step, X, s, a, U, b)
  PROVE  Visited(net, step, X, t, a, U, b)
<1>1. \A u \in U : u \in Int /\ u <= s
  BY NetworkFacts DEF Visited, Gates
<1>2. \A u \in U : u <= t
  BY <1>1
<1> QED BY <1>2 DEF Visited

\* When f is visited, its gate goes on to its fanins.
LEMMA LoadOfVisit ==
  ASSUME NEW net, IsNetwork(net), NEW f \in Gates(net), NEW U, IsFiniteSet(U),
         U \subseteq Gates(net), \A u \in U : u <= f - 1, NEW m
  PROVE  /\ f \notin U
         /\ Load(net, {f}, U \cup {f}, m) = (IF m = f THEN 1 ELSE 0) + Load(net, FaninNodes(net, f), U, m)
         /\ Load(net, FaninNodes(net, f), U, f) = 0
<1>1. f \in Nat /\ \A u \in U : u \in Nat /\ u < f
  BY NetworkFacts DEF Gates
<1>2. f \notin U
  BY <1>1
<1>3. f \notin FaninNodes(net, f) /\ \A u \in U : f \notin FaninNodes(net, u)
  <2>1. \A u \in Gates(net) : \A l \in FaninNodes(net, u) : l \in Nat /\ l < u
    BY FaninsBefore
  <2> QED BY <1>1, <2>1
<1>4. Load(net, FaninNodes(net, f), U, f) = 0
  BY <1>3, LoadFacts
<1>5. Load(net, {} \cup {f}, U \cup {f}, m) = Load(net, {}, U, m) + Load(net, {f}, {f}, m)
  <2>1. IsFiniteSet({f}) /\ {} \cap {f} = {} /\ U \cap {f} = {}
    BY <1>2, FS_Singleton
  <2> QED BY <2>1, LoadsAdd
<1>6. Load(net, {f}, {f}, m) = (IF m = f THEN 1 ELSE 0) + (IF m \in FaninNodes(net, f) THEN 1 ELSE 0)
  <2>1. CASE m \in FaninNodes(net, f)
    <3>1. Readers(net, {f}, m) = {f}
      BY <2>1 DEF Readers
    <3>2. Cardinality(Readers(net, {f}, m)) = 1
      BY <3>1, FS_Singleton
    <3> QED BY <2>1, <3>2 DEF Load
  <2>2. CASE m \notin FaninNodes(net, f)
    <3>1. Readers(net, {f}, m) = {}
      BY <2>2 DEF Readers
    <3>2. Cardinality(Readers(net, {f}, m)) = 0
      BY <3>1, FS_EmptySet
    <3> QED BY <2>2, <3>2 DEF Load
  <2> QED BY <2>1, <2>2
<1>7. Cardinality(Readers(net, U, m)) \in Nat
  BY LoadFacts
<1>8. Load(net, {}, U, m) = Cardinality(Readers(net, U, m))
  BY <1>7 DEF Load
<1>9. {} \cup {f} = {f}
  OBVIOUS
<1>10. Load(net, {f}, U \cup {f}, m)
         = (IF m = f THEN 1 ELSE 0) + ((IF m \in FaninNodes(net, f) THEN 1 ELSE 0) + Cardinality(Readers(net, U, m)))
  BY <1>5, <1>6, <1>7, <1>8, <1>9
<1> QED BY <1>2, <1>4, <1>10 DEF Load

\* Reading one fanin.
LEMMA VisitFaninCorrect ==
  ASSUME NEW net, IsNetwork(net), NEW step \in {1, -1}, NEW f \in Nodes(net), VisitRight(net, step, f),
         NEW acc, acc.count \in Counters(net), acc.cost \in Nat,
         NEW r, r = VisitFanin(Visits(net, step), acc, f, step)
  PROVE  \E U : /\ Visited(net, step, {f}, f, acc.count, U, r.count)
                /\ r.cost = acc.cost + Cardinality(U)
<1> DEFINE a == acc.count
           next == [a EXCEPT ![f] = @ + step]
           sub == Visits(net, step)[f][next]
<1>0. /\ f \in Nat /\ a[f] \in Int /\ next \in Counters(net) /\ next[f] = a[f] + step
      /\ \A m \in Nodes(net) : m # f => next[m] = a[m]
  BY NetworkFacts DEF Counters
<1>1. \A m \in Nodes(net) : a[m] \in Int /\ (m # f => next[m] = a[m])
  BY DEF Counters
<1>2. Gates(net) \subseteq Nodes(net)
  BY NetworkFacts DEF Gates, Nodes
<1>3. Passes(step, a[f], 1) <=> {a[f], next[f]} = {0, 1}
  BY <1>0 DEF Passes
<1>4. \A m \in Nodes(net) : ~ Passes(step, a[m], 0)
  BY <1>1 DEF Passes
<1>5. \A m : Load(net, {f}, {}, m) = IF m = f THEN 1 ELSE 0
  <2>1. IsFiniteSet({})
    BY FS_EmptySet
  <2> QED BY <2>1, LoadFacts
<1>6. IsFiniteSet({}) /\ Cardinality({}) = 0
  BY FS_EmptySet
<1>7. CASE {a[f], next[f]} # {0, 1}
  <2>1. r.count = next /\ r.cost = acc.cost
    BY <1>7 DEF VisitFanin
  <2>2. \A m \in Nodes(net) : next[m] = IF step = 1 THEN a[m] + Load(net, {f}, {}, m) ELSE a[m] - Load(net, {f}, {}, m)
    BY <1>0, <1>1, <1>5
  <2>3. \A m \in Gates(net) : ~ Passes(step, a[m], Load(net, {f}, {}, m))
    BY <1>2, <1>3, <1>4, <1>5, <1>7
  <2> HIDE DEF next
  <2>4. Visited(net, step, {f}, f, a, {}, r.count)
    BY <1>0, <1>6, <2>1, <2>2, <2>3 DEF Visited
  <2> QED BY <1>6, <2>1, <2>4
<1>8. CASE {a[f], next[f]} = {0, 1} /\ ~ IsGate(net, f)
  <2>1. sub.count = next /\ sub.cost = 0
    BY <1>0, <1>8 DEF VisitRight, Returned
  <2>2. r.count = next /\ r.cost = acc.cost
    BY <1>8, <2>1 DEF VisitFanin
  <2>3. f \notin Gates(net)
    BY <1>8, NetworkFacts
  <2>4. \A m \in Nodes(net) : next[m] = IF step = 1 THEN a[m] + Load(net, {f}, {}, m) ELSE a[m] - Load(net, {f}, {}, m)
    BY <1>0, <1>1, <1>5
  <2>5. \A m \in Gates(net) : ~ Passes(step, a[m], Load(net, {f}, {}, m))
    BY <1>2, <1>4, <1>5, <2>3
  <2> HIDE DEF next
  <2>6. Visited(net, step, {f}, f, a, {}, r.count)
    BY <1>0, <1>6, <2>2, <2>4, <2>5 DEF Visited
  <2> QED BY <1>6, <2>2, <2>6
<1>9. CASE {a[f], next[f]} = {0, 1} /\ IsGate(net, f)
  <2>0. f \in Gates(net)
    BY <1>9, NetworkFacts
  <2>1. PICK V : Visited(net, step, FaninNodes(net, f), f - 1, next, V, sub.count) /\ sub.cost = 1 + Cardinality(V)
    BY <1>0, <1>9 DEF VisitRight, Returned
  <2>2. r.count = sub.count /\ r.cost = acc.cost + sub.cost
    BY <1>9 DEF VisitFanin
  <2> HIDE DEF next, sub, a
  <2> DEFINE U == V \cup {f}
             F == FaninNodes(net, f)
  <2>3. V \subseteq Gates(net) /\ IsFiniteSet(V) /\ (\A u \in V : u <= f - 1) /\ sub.count \in Counters(net)
    BY <2>1 DEF Visited
  <2>4. /\ f \notin V /\ Load(net, F, V, f) = 0
        /\ \A m : Load(net, {f}, U, m) = (IF m = f THEN 1 ELSE 0) + Load(net, F, V, m)
    BY <2>0, <2>3, LoadOfVisit
  <2>5. IsFiniteSet(U) /\ Cardinality(U) = Cardinality(V) + 1 /\ Cardinality(V) \in Nat
    BY <2>3, <2>4, FS_AddElement, FS_CardinalityType
  <2>6. U \subseteq Gates(net) /\ \A u \in U : u <= f
    BY <1>0, <2>0, <2>3, NetworkFacts DEF Gates
  <2>7. ASSUME NEW m \in Nodes(net)
        PROVE  sub.count[m] = IF step = 1 THEN a[m] + Load(net, {f}, U, m) ELSE a[m] - Load(net, {f}, U, m)
    <3>1. Load(net, F, V, m) \in Nat
      BY <2>3, LoadFacts
    <3>2. sub.count[m] = IF step = 1 THEN next[m] + Load(net, F, V, m) ELSE next[m] - Load(net, F, V, m)
      BY <2>1 DEF Visited
    <3>3. a[m] \in Int /\ next[m] = IF m = f THEN a[m] + step ELSE a[m]
      BY <1>0, <1>1
    <3> DEFINE k == Load(net, F, V, m)
               l == Load(net, {f}, U, m)
    <3>4. k \in Nat /\ l = (IF m = f THEN 1 ELSE 0) + k
      BY <2>4, <3>1
    <3>5. sub.count[m] = IF step = 1 THEN next[m] + k ELSE next[m] - k
      BY <3>2
    <3> HIDE DEF U, F, k, l
    <3>6. CASE m = f
      <4>1. l = 1 + k /\ next[m] = a[m] + step
        BY <3>3, <3>4, <3>6
      <4> QED BY <3>3, <3>4, <3>5, <4>1 DEF l
    <3>7. CASE m # f
      <4>1. l = k /\ next[m] = a[m]
        BY <3>3, <3>4, <3>7
      <4> QED BY <3>5, <4>1 DEF l
    <3> QED BY <3>6, <3>7
  <2>8. ASSUME NEW m \in Gates(net)
        PROVE  m \in U <=> Passes(step, a[m], Load(net, {f}, U, m))
    <3>1. CASE m = f
      <4>1. Load(net, {f}, U, m) = 1
        BY <2>4, <3>1
      <4> QED BY <1>3, <1>9, <3>1, <4>1
    <3>2. CASE m # f
      <4>1. Load(net, F, V, m) \in Nat
        BY <2>3, LoadFacts
      <4>2. Load(net, {f}, U, m) = Load(net, F, V, m)
        BY <2>4, <3>2, <4>1
      <4>3. next[m] = a[m]
        BY <1>1, <1>2, <3>2
      <4>4. m \in V <=> Passes(step, next[m], Load(net, F, V, m))
        BY <2>1 DEF Visited
      <4> QED BY <3>2, <4>2, <4>3, <4>4
    <3> QED BY <3>1, <3>2
  <2> HIDE DEF U
  <2>9. Visited(net, step, {f}, f, a, U, r.count)
    BY <2>2, <2>3, <2>5, <2>6, <2>7, <2>8 DEF Visited
  <2>10. r.cost = acc.cost + Cardinality(U)
    BY <2>1, <2>2, <2>5
  <2> QED BY <2>9, <2>10 DEF a
<1> QED BY <1>7, <1>8, <1>9

\* Counting in and counting out visit exactly the gates whose counters pass between
\* 0 and 1.
LEMMA CountingCorrect ==
  ASSUME NEW net, IsNetwork(net), NEW step \in {1, -1}
  PROVE  \A n \in Nodes(net) : VisitRight(net, step, n)
<1> DEFINE A == {n \in Nodes(net) : ~ VisitRight(net, step, n)}
<1> SUFFICES ASSUME A # {} PROVE FALSE
  OBVIOUS
<1>0. A \in SUBSET Nat
  BY NetworkFacts
<1>1. PICK n \in A : \A m \in A : n <= m
  BY <1>0, LeastMember
<1>2. n \in Nodes(net) /\ n \in Nat /\ ~ VisitRight(net, step, n)
  BY <1>0
<1>3. \A l \in Nodes(net) : l < n => VisitRight(net, step, l)
  <2> SUFFICES ASSUME NEW l \in Nodes(net), l < n, ~ VisitRight(net, step, l) PROVE FALSE
    OBVIOUS
  <2>1. l \in A /\ l \in Nat
    BY <1>0
  <2> QED BY <1>1, <1>2, <2>1
<1>4. PICK count \in Counters(net) : ~ Returned(net, step, count, n, Visits(net, step)[n][count])
  BY <1>2 DEF VisitRight
<1>5. Visits(net, step)[n] = VisitOf(net, step, Visits(net, step), n)
  BY <1>2, VisitsEquation
<1>6. IsGate(net, n)
  BY <1>4, <1>5 DEF VisitOf, Returned
<1>7. n \in Gates(net)
  BY <1>2, <1>6, NetworkFacts
<1> DEFINE a == Fanins(net, n)[1].index
           b == Fanins(net, n)[2].index
           start == [count |-> count, cost |-> 1]
           mid == VisitFanin(Visits(net, step), start, a, step)
           end == VisitFanin(Visits(net, step), mid, b, step)
<1>8. /\ FaninNodes(net, n) = {a, b} /\ a # b
      /\ a \in Nodes(net) /\ b \in Nodes(net) /\ a \in Nat /\ b \in Nat /\ a < n /\ b < n
  BY <1>7, FaninsBefore
<1>9. Visits(net, step)[n][count] = end
  BY <1>5, <1>6 DEF VisitOf
<1>10. start.count = count /\ start.cost = 1
  OBVIOUS
<1> HIDE DEF a, b, start, mid, end
<1> DEFINE Counted(acc) == acc.count \in Counters(net) /\ acc.cost \in Nat
           FaninRead(f, acc, r, W) ==
               Visited(net, step, {f}, f, acc.count, W, r.count) /\ r.cost = acc.cost + Cardinality(W)
<1>11. \A f \in Nodes(net) : \A acc : VisitRight(net, step, f) /\ Counted(acc) =>
           \E W : FaninRead(f, acc, VisitFanin(Visits(net, step), acc, f, step), W)
  <2> SUFFICES ASSUME NEW f \in Nodes(net), NEW acc, VisitRight(net, step, f), Counted(acc),
                      NEW r, r = VisitFanin(Visits(net, step), acc, f, step)
               PROVE  \E W : FaninRead(f, acc, r, W)
    OBVIOUS
  <2>1. acc.count \in Counters(net) /\ acc.cost \in Nat
    OBVIOUS
  <2>2. \E W : /\ Visited(net, step, {f}, f, acc.count, W, r.count)
               /\ r.cost = acc.cost + Cardinality(W)
    BY <2>1, VisitFaninCorrect
  <2> QED BY <2>2
<1> HIDE DEF Counted, FaninRead
<1>12. PICK U : FaninRead(a, start, mid, U)
  BY <1>3, <1>8, <1>10, <1>11 DEF Counted, mid
<1>13. mid.count \in Counters(net) /\ mid.cost \in Nat /\ Cardinality(U) \in Nat /\ mid.cost = 1 + Cardinality(U)
  <2>1. Cardinality(U) \in Nat
    BY <1>12, FS_CardinalityType DEF FaninRead, Visited
  <2> QED BY <1>10, <1>12, <2>1 DEF FaninRead, Visited
<1>14. PICK V : FaninRead(b, mid, end, V)
  BY <1>3, <1>8, <1>13, <1>11 DEF Counted, end
<1>15. Cardinality(V) \in Nat
  BY <1>14, FS_CardinalityType DEF FaninRead, Visited
<1>16. Visited(net, step, {a}, n - 1, count, U, mid.count) /\ Visited(net, step, {b}, n - 1, mid.count, V, end.count)
  <2>1. a \in Int /\ b \in Int /\ n - 1 \in Int /\ a <= n - 1 /\ b <= n - 1
    BY <1>2, <1>8
  <2> QED BY <1>10, <1>12, <1>14, <2>1, FartherTop DEF FaninRead
<1>17. /\ Visited(net, step, {a} \cup {b}, n - 1, count, U \cup V, end.count)
       /\ Cardinality(U \cup V) = Cardinality(U) + Cardinality(V)
  <2>1. n - 1 \in Nat /\ {a} \cap {b} = {}
    BY <1>2, <1>8
  <2> DEFINE X == {a}
             Y == {b}
             t == n - 1
             d == mid.count
             e == end.count
  <2>2. t \in Nat /\ X \cap Y = {} /\ Visited(net, step, X, t, count, U, d) /\ Visited(net, step, Y, t, d, V, e)
    BY <1>16, <2>1
  <2> HIDE DEF X, Y, t, d, e
  <2>3. /\ Visited(net, step, X \cup Y, t, count, U \cup V, e)
        /\ Cardinality(U \cup V) = Cardinality(U) + Cardinality(V)
    BY <2>2, VisitedTwice
  <2> QED BY <2>3 DEF X, Y, t, d, e
<1>18. end.cost = 1 + Cardinality(U \cup V)
  BY <1>13, <1>14, <1>15, <1>17 DEF FaninRead
<1>19. {a} \cup {b} = FaninNodes(net, n)
  BY <1>8
<1> QED BY <1>4, <1>6, <1>9, <1>17, <1>18, <1>19 DEF Returned

Opposite(step, back) == (step = 1 /\ back = -1) \/ (step = -1 /\ back = 1)

\* Counting out what has been counted in, or the other way round, visits the same
\* gates and restores the counters.
LEMMA UndoneVisit ==
  ASSUME NEW net, IsNetwork(net), NEW step, NEW back, Opposite(step, back), NEW X, NEW top,
         NEW a \in Counters(net), NEW b, NEW c, NEW U, NEW T,
         Visited(net, step, X, top, a, U, b), Visited(net, back, X, top, b, T, c)
  PROVE  T = U /\ c = a
<1> DEFINE N == net.pis + Len(net.gates)
           Differ(m) == (m \in U) # (m \in T)
<1>1. /\ U \subseteq Gates(net) /\ IsFiniteSet(U) /\ T \subseteq Gates(net) /\ IsFiniteSet(T)
      /\ b \in Counters(net) /\ c \in Counters(net)
  BY DEF Visited
<1>2. N \in Nat /\ Gates(net) \subseteq 0..N /\ Gates(net) \subseteq Nodes(net)
  BY NetworkFacts DEF Gates, Nodes
<1>3. (step = 1 /\ back = -1) \/ (step = -1 /\ back = 1)
  BY DEF Opposite
<1>4. \A x \in Int : \A k \in Nat :
         /\ step = 1 => (Passes(1, x, k) <=> Passes(back, x + k, k))
         /\ step # 1 => (Passes(step, x, k) <=> Passes(1, x - k, k))
  BY <1>3 DEF Passes
<1>5. \A m \in Nodes(net) : a[m] \in Int /\ b[m] \in Int /\ c[m] \in Int
  BY <1>1 DEF Counters
<1>6. \A m : Load(net, X, U, m) \in Nat /\ Load(net, X, T, m) \in Nat
  BY <1>1, LoadFacts
<1> HIDE DEF N
<1>7. ASSUME NEW m \in Gates(net), \A u \in Gates(net) : u > m => ~ Differ(u)
      PROVE  ~ Differ(m) /\ Load(net, X, T, m) = Load(net, X, U, m)
  <2>1. \A u \in Gates(net) : m \in FaninNodes(net, u) => u > m
    BY FaninsBefore, <1>2
  <2>2. Readers(net, U, m) = Readers(net, T, m)
    BY <1>1, <1>7, <2>1 DEF Readers
  <2>3. Load(net, X, U, m) = Load(net, X, T, m)
    BY <2>2 DEF Load
  <2> DEFINE k == Load(net, X, U, m)
  <2>4. (m \in U <=> Passes(step, a[m], k)) /\ (m \in T <=> Passes(back, b[m], k))
    BY <2>3 DEF Visited
  <2>5. b[m] = IF step = 1 THEN a[m] + k ELSE a[m] - k
    BY <1>2 DEF Visited
  <2>6. k \in Nat /\ a[m] \in Int
    BY <1>2, <1>5, <1>6
  <2> HIDE DEF k
  <2>7. Passes(step, a[m], k) <=> Passes(back, b[m], k)
    <3>1. CASE step = 1
      <4>1. Passes(1, a[m], k) <=> Passes(back, a[m] + k, k)
        BY <1>4, <2>6, <3>1
      <4>2. b[m] = a[m] + k
        BY <2>5, <3>1
      <4> QED BY <3>1, <4>1, <4>2
    <3>2. CASE step # 1
      BY <1>3, <1>4, <2>5, <2>6, <3>2
    <3> QED BY <3>1, <3>2
  <2> QED BY <2>3, <2>4, <2>7
<1>8. \A m \in Gates(net) : ~ Differ(m)
  <2> DEFINE D == {i \in 0..N : N - i \in Gates(net) /\ Differ(N - i)}
  <2> SUFFICES ASSUME NEW m \in Gates(net), Differ(m) PROVE FALSE
    OBVIOUS
  <2>1. m \in Nat /\ N - m \in 0..N /\ N - (N - m) = m
    BY <1>2
  <2>2. N - m \in D
    BY <2>1
  <2>3. D \in SUBSET Nat /\ D # {}
    BY <1>2, <2>2
  <2>4. PICK i \in D : \A j \in D : i <= j
    BY <2>3, LeastMember
  <2>5. i \in 0..N /\ N - i \in Gates(net) /\ Differ(N - i)
    OBVIOUS
  <2>6. ASSUME NEW u \in Gates(net), u > N - i, Differ(u) PROVE FALSE
    <3>1. u \in 0..N /\ N - u \in 0..N /\ N - (N - u) = u
      BY <1>2
    <3>2. N - u \in D
      BY <2>6, <3>1
    <3>3. N - u < i
      BY <1>2, <2>5, <2>6, <3>1
    <3> QED BY <1>2, <2>4, <2>5, <3>1, <3>2, <3>3
  <2> QED BY <1>7, <2>5, <2>6
<1>9. T = U
  BY <1>1, <1>8
<1>10. ASSUME NEW m \in Nodes(net) PROVE c[m] = a[m]
  <2> DEFINE k == Load(net, X, U, m)
  <2>1. /\ k \in Nat /\ a[m] \in Int
        /\ b[m] = IF step = 1 THEN a[m] + k ELSE a[m] - k
        /\ c[m] = IF back = 1 THEN b[m] + k ELSE b[m] - k
    BY <1>5, <1>6, <1>9 DEF Visited
  <2> HIDE DEF k
  <2> QED BY <1>3, <2>1
<1>11. c = a
  BY <1>1, <1>10 DEF Counters
<1> QED BY <1>9, <1>11

\* The same of the two operations; this is what the assertion of mffc_size says.
LEMMA CountingUndone ==
  ASSUME NEW net, IsNetwork(net), NEW n \in Nodes(net), NEW count \in Counters(net),
         NEW step, NEW back, Opposite(step, back),
         NEW once, once = Visits(net, step)[n][count],
         NEW twice, twice = Visits(net, back)[n][once.count]
  PROVE  /\ once.count \in Counters(net) /\ once.cost \in Nat
         /\ twice.count = count /\ twice.cost = once.cost
<1>1. step \in {1, -1} /\ back \in {1, -1}
  BY DEF Opposite
<1>2. Returned(net, step, count, n, once)
  BY <1>1, CountingCorrect DEF VisitRight
<1>3. CASE ~ IsGate(net, n)
  <2>1. once.count = count /\ once.cost = 0
    BY <1>2, <1>3 DEF Returned
  <2>2. Returned(net, back, once.count, n, twice)
    BY <1>1, <2>1, CountingCorrect DEF VisitRight
  <2> QED BY <1>3, <2>1, <2>2 DEF Returned
<1>4. CASE IsGate(net, n)
  <2>1. PICK U : Visited(net, step, FaninNodes(net, n), n - 1, count, U, once.count)
                 /\ once.cost = 1 + Cardinality(U)
    BY <1>2, <1>4 DEF Returned
  <2>2. once.count \in Counters(net) /\ Cardinality(U) \in Nat
    BY <2>1, FS_CardinalityType DEF Visited
  <2>3. Returned(net, back, once.count, n, twice)
    BY <1>1, <2>2, CountingCorrect DEF VisitRight
  <2>4. PICK T : Visited(net, back, FaninNodes(net, n), n - 1, once.count, T, twice.count)
                 /\ twice.cost = 1 + Cardinality(T)
    BY <1>4, <2>3 DEF Returned
  <2>5. T = U /\ twice.count = count
    BY <2>1, <2>4, UndoneVisit
  <2> QED BY <2>1, <2>2, <2>4, <2>5
<1> QED BY <1>3, <1>4

-----------------------------------------------------------------------------
(* What the counters of a new network say.                                 *)

\* The gates of old that have been settled on a gate that reads n.
Settled(old, net, map, k, n) ==
    {m \in Gates(old) : m < k /\ IsGate(net, map[m].index) /\ n \in FaninNodes(net, map[m].index)}

\* The gates that are in use.
Alive(net, count) == {m \in Gates(net) : count[m] > 0}

\* The counters are those of the gates settled before k, and of what these need.
Exact(old, net, count, map, k) ==
    /\ count \in Counts(net)
    /\ \A n \in Nodes(net) :
          count[n] = Cardinality(Settled(old, net, map, k, n))
                     + Cardinality(Readers(net, Alive(net, count), n))

\* Sets of gates are finite.
LEMMA FiniteGates ==
  ASSUME NEW net, IsNetwork(net), NEW S \in SUBSET Gates(net)
  PROVE  IsFiniteSet(S) /\ Cardinality(S) \in Nat
<1>1. net.pis + 1 \in Int /\ net.pis + Len(net.gates) \in Int
  BY NetworkFacts
<1>2. IsFiniteSet(Gates(net))
  BY <1>1, FS_Interval DEF Gates
<1> QED BY <1>2, FS_Subset, FS_CardinalityType

\* New nodes come with counters of zero.
LEMMA ExtendedExact ==
  ASSUME NEW old, NEW net, IsNetwork(net), NEW big, Grows(net, big), NEW map, NEW k, NEW count,
         \A m \in Gates(old) : m < k => map[m].index \in Nodes(net),
         Exact(old, net, count, map, k)
  PROVE  Exact(old, big, Extended(count, big), map, k)
<1> DEFINE new == Extended(count, big)
<1>1. /\ IsNetwork(big) /\ big.pis = net.pis /\ Nodes(net) \subseteq Nodes(big)
      /\ \A n \in Gates(net) : n \in Gates(big) /\ Fanins(big, n) = Fanins(net, n)
  BY GrowsFacts DEF Grows
<1>2. /\ count \in [Nodes(net) -> Nat]
      /\ \A n \in Nodes(net) : count[n] = Cardinality(Settled(old, net, map, k, n))
                                          + Cardinality(Readers(net, Alive(net, count), n))
  BY DEF Exact, Counts
<1>3. /\ new \in Counts(big)
      /\ \A n \in Nodes(big) : new[n] = IF n \in Nodes(net) THEN count[n] ELSE 0
  BY <1>2 DEF Extended, Counts
<1> HIDE DEF new
<1>4. \A n \in Nodes(net) : IsGate(net, n) <=> n \in Gates(net)
  BY NetworkFacts
<1>5. Gates(net) \subseteq Nodes(net)
  BY NetworkFacts DEF Gates, Nodes
<1>6. ASSUME NEW n \in Gates(big), n \in Nodes(net) PROVE n \in Gates(net)
  BY <1>1, <1>6, NetworkFacts DEF Gates, Nodes
<1>7. Alive(big, new) = Alive(net, count)
  <2>1. \A m \in Gates(big) : new[m] > 0 <=> m \in Gates(net) /\ count[m] > 0
    <3> SUFFICES ASSUME NEW m \in Gates(big) PROVE new[m] > 0 <=> m \in Gates(net) /\ count[m] > 0
      OBVIOUS
    <3>1. m \in Nodes(big)
      BY <1>1, NetworkFacts DEF Gates, Nodes
    <3>2. CASE m \in Nodes(net)
      BY <1>3, <1>6, <3>1, <3>2
    <3>3. CASE m \notin Nodes(net)
      BY <1>3, <1>5, <3>1, <3>3
    <3> QED BY <3>2, <3>3
  <2> QED BY <1>1, <2>1 DEF Alive
<1>8. \A m \in Gates(net) : FaninNodes(big, m) = FaninNodes(net, m)
  BY <1>1 DEF FaninNodes
<1>9. \A n : Readers(big, Alive(big, new), n) = Readers(net, Alive(net, count), n)
  BY <1>7, <1>8 DEF Readers, Alive
<1>10. \A n : Settled(old, big, map, k, n) = Settled(old, net, map, k, n)
  <2>1. \A m : IsGate(big, m) <=> IsGate(net, m)
    BY <1>1 DEF IsGate
  <2> QED BY <1>4, <1>8, <2>1 DEF Settled
<1>11. ASSUME NEW n, n \notin Nodes(net)
       PROVE  /\ Cardinality(Settled(old, net, map, k, n)) = 0
              /\ Cardinality(Readers(net, Alive(net, count), n)) = 0
  <2>1. \A m \in Gates(net) : n \notin FaninNodes(net, m)
    BY <1>11, FaninsBefore
  <2>2. Settled(old, net, map, k, n) = {} /\ Readers(net, Alive(net, count), n) = {}
    BY <1>4, <2>1 DEF Settled, Readers, Alive
  <2> QED BY <2>2, FS_EmptySet
<1>12. \A n \in Nodes(big) :
          new[n] = Cardinality(Settled(old, big, map, k, n)) + Cardinality(Readers(big, Alive(big, new), n))
  BY <1>2, <1>3, <1>9, <1>10, <1>11
<1> QED BY <1>3, <1>12 DEF Exact, new

\* Settling a gate counts it in.
LEMMA SettledExact ==
  ASSUME NEW old, IsNetwork(old), NEW k \in Gates(old), NEW net, IsNetwork(net),
         NEW map, DOMAIN map = 0..(k - 1), NEW f, f.index \in Nodes(net), NEW count,
         Exact(old, net, count, map, k)
  PROVE  Exact(old, net, recursive_ref(net, count, f.index).count, Known(map, k, f), k + 1)
<1> DEFINE top == f.index
           new == Known(map, k, f)
           once == Visits(net, 1)[top][count]
           after == once.count
<1>1. k \in Nat /\ \A m \in Gates(old) : m \in Nat /\ m \in DOMAIN map <=> m < k
  BY NetworkFacts DEF Gates
<1>2. new[k] = f /\ \A m \in Gates(old) : m < k => new[m] = map[m]
  BY <1>1 DEF Known
<1>3. /\ count \in [Nodes(net) -> Nat] /\ count \in Counters(net)
      /\ \A n \in Nodes(net) : count[n] = Cardinality(Settled(old, net, map, k, n))
                                          + Cardinality(Readers(net, Alive(net, count), n))
  BY DEF Exact, Counts, Counters
<1>4. Returned(net, 1, count, top, once)
  BY <1>3, CountingCorrect DEF VisitRight
<1>5. recursive_ref(net, count, top).count = after
  BY DEF recursive_ref
<1> HIDE DEF top, new, once
<1>6. \A n : /\ Cardinality(Settled(old, net, map, k, n)) \in Nat /\ IsFiniteSet(Settled(old, net, map, k, n))
             /\ \A c : Cardinality(Readers(net, Alive(net, c), n)) \in Nat
  <2>1. \A n : Settled(old, net, map, k, n) \in SUBSET Gates(old)
    BY DEF Settled
  <2>2. \A n, c : Readers(net, Alive(net, c), n) \in SUBSET Gates(net)
    BY DEF Readers, Alive
  <2> QED BY <2>1, <2>2, FiniteGates
<1>7. CASE ~ IsGate(net, top)
  <2>1. after = count
    BY <1>4, <1>7 DEF Returned
  <2>2. \A n : Settled(old, net, new, k + 1, n) = Settled(old, net, map, k, n)
    <3> TAKE n
    <3>1. ASSUME NEW m \in Gates(old)
          PROVE  m < k + 1 /\ IsGate(net, new[m].index) /\ n \in FaninNodes(net, new[m].index)
                 <=> m < k /\ IsGate(net, map[m].index) /\ n \in FaninNodes(net, map[m].index)
      <4>1. CASE m = k
        BY <1>1, <1>2, <1>7, <4>1 DEF top
      <4>2. CASE m # k
        <5>1. m < k + 1 <=> m < k
          BY <1>1, <4>2
        <5>2. m < k => new[m] = map[m]
          BY <1>2
        <5> QED BY <5>1, <5>2
      <4> QED BY <4>1, <4>2
    <3> QED BY <3>1 DEF Settled
  <2>3. Exact(old, net, after, new, k + 1)
    BY <2>1, <2>2 DEF Exact
  <2> QED BY <1>5, <2>3 DEF new, top
<1>8. CASE IsGate(net, top)
  <2>1. top \in Gates(net)
    BY <1>8, NetworkFacts DEF top
  <2> DEFINE F == FaninNodes(net, top)
  <2>2. PICK U : Visited(net, 1, F, top - 1, count, U, after)
    BY <1>4, <1>8 DEF Returned
  <2>3. /\ U \subseteq Gates(net) /\ IsFiniteSet(U) /\ after \in Counters(net)
        /\ \A n \in Nodes(net) : after[n] = count[n] + Load(net, F, U, n)
        /\ \A m \in Gates(net) : m \in U <=> Passes(1, count[m], Load(net, F, U, m))
    BY <2>2 DEF Visited
  <2> HIDE DEF after
  <2>4. \A n : Load(net, F, U, n) \in Nat /\ Cardinality(Readers(net, U, n)) \in Nat
               /\ IsFiniteSet(Readers(net, U, n))
    BY <2>3, LoadFacts
  <2>5. after \in Counts(net)
    BY <1>3, <2>3, <2>4 DEF Counters, Counts
  <2>6. Gates(net) \subseteq Nodes(net)
    BY NetworkFacts DEF Gates, Nodes
  <2>7. Alive(net, after) = Alive(net, count) \cup U /\ Alive(net, count) \cap U = {}
    <3>1. ASSUME NEW m \in Gates(net)
          PROVE  /\ after[m] > 0 <=> (count[m] > 0 \/ m \in U)
                 /\ ~ (count[m] > 0 /\ m \in U)
      <4>1. /\ count[m] \in Nat /\ Load(net, F, U, m) \in Nat
            /\ after[m] = count[m] + Load(net, F, U, m)
            /\ m \in U <=> Passes(1, count[m], Load(net, F, U, m))
        BY <1>3, <2>3, <2>4, <2>6
      <4> QED BY <4>1 DEF Passes
    <3> QED BY <2>3, <3>1 DEF Alive
  <2>8. ASSUME NEW n \in Nodes(net)
        PROVE  Cardinality(Readers(net, Alive(net, after), n))
                 = Cardinality(Readers(net, Alive(net, count), n)) + Cardinality(Readers(net, U, n))
    <3> DEFINE R == Readers(net, Alive(net, count), n)
               S == Readers(net, U, n)
    <3>1. R \cap S = {} /\ R \cup S = Readers(net, Alive(net, after), n)
      BY <2>7 DEF Readers
    <3>2. IsFiniteSet(R) /\ IsFiniteSet(S)
      <4>1. R \in SUBSET Gates(net)
        BY DEF Readers, Alive
      <4> QED BY <2>4, <4>1, FiniteGates
    <3>3. Cardinality(R \cap S) = 0 /\ Cardinality(R) \in Nat /\ Cardinality(S) \in Nat
      BY <3>1, <3>2, FS_EmptySet, FS_CardinalityType
    <3> HIDE DEF R, S
    <3>4. Cardinality(R \cup S) = Cardinality(R) + Cardinality(S) - Cardinality(R \cap S)
      BY <3>2, FS_Union
    <3>5. Cardinality(R \cup S) = Cardinality(R) + Cardinality(S)
      BY <3>3, <3>4
    <3> QED BY <3>1, <3>5 DEF R, S
  <2>9. ASSUME NEW n \in Nodes(net)
        PROVE  Cardinality(Settled(old, net, new, k + 1, n))
                 = Cardinality(Settled(old, net, map, k, n)) + (IF n \in F THEN 1 ELSE 0)
    <3> DEFINE R == Settled(old, net, map, k, n)
    <3>1. k \notin R /\ IsFiniteSet(R) /\ Cardinality(R) \in Nat
      BY <1>1, <1>6 DEF Settled
    <3>2. Settled(old, net, new, k + 1, n) = IF n \in F THEN R \cup {k} ELSE R
      <4>1. ASSUME NEW m \in Gates(old)
            PROVE  m < k + 1 /\ IsGate(net, new[m].index) /\ n \in FaninNodes(net, new[m].index)
                   <=> (m = k /\ n \in F)
                       \/ (m < k /\ IsGate(net, map[m].index) /\ n \in FaninNodes(net, map[m].index))
        <5>1. CASE m = k
          BY <1>1, <1>2, <1>8, <5>1 DEF top
        <5>2. CASE m # k
          BY <1>1, <1>2, <5>2
        <5> QED BY <5>1, <5>2
      <4>2. Settled(old, net, new, k + 1, n)
              = {m \in Gates(old) : (m = k /\ n \in F)
                     \/ (m < k /\ IsGate(net, map[m].index) /\ n \in FaninNodes(net, map[m].index))}
        BY <4>1 DEF Settled
      <4> QED BY <4>2 DEF Settled
    <3> HIDE DEF R
    <3>3. Cardinality(R \cup {k}) = Cardinality(R) + 1
      BY <3>1, FS_AddElement
    <3> QED BY <3>1, <3>2, <3>3 DEF R
  <2>10. ASSUME NEW n \in Nodes(net)
         PROVE  after[n] = Cardinality(Settled(old, net, new, k + 1, n))
                           + Cardinality(Readers(net, Alive(net, after), n))
    <3> DEFINE p == Cardinality(Settled(old, net, map, k, n))
               q == Cardinality(Readers(net, Alive(net, count), n))
               r == Cardinality(Readers(net, U, n))
               i == IF n \in F THEN 1 ELSE 0
               s == Cardinality(Settled(old, net, new, k + 1, n))
               t == Cardinality(Readers(net, Alive(net, after), n))
    <3>1. p \in Nat /\ q \in Nat /\ r \in Nat /\ i \in Nat
      BY <1>6, <2>4
    <3>2. count[n] = p + q
      BY <1>3
    <3>3. after[n] = count[n] + (i + r)
      BY <2>3 DEF Load
    <3>4. s = p + i /\ t = q + r
      BY <2>8, <2>9
    <3> HIDE DEF p, q, r, i, s, t
    <3>5. after[n] = s + t
      BY <3>1, <3>2, <3>3, <3>4
    <3> QED BY <3>5 DEF s, t
  <2>11. Exact(old, net, after, new, k + 1)
    BY <2>5, <2>10 DEF Exact
  <2> QED BY <1>5, <2>11 DEF new, top
<1> QED BY <1>7, <1>8

-----------------------------------------------------------------------------
(* Rewriting.                                                              *)

RewriteInv ==
    /\ where \in {"gate", "cuts", "done"}
    /\ where # "done" =>
          /\ IsNetwork(ntk) /\ IsNetwork(res) /\ res.pis = ntk.pis
          /\ gate \in (ntk.pis + 1)..(ntk.pis + Len(ntk.gates) + 1)
          /\ where = "cuts" => gate \in Gates(ntk)
          /\ DOMAIN old2new = 0..(gate - 1)
          /\ \A n \in DOMAIN old2new : Tracks(ntk, res, n, old2new[n])
          /\ best_gain # -1 => where = "cuts" /\ Tracks(ntk, res, gate, best_signal)

-----------------------------------------------------------------------------
(* What a gate may become.                                                 *)

\* The gate itself over what its fanins have become.
LEMMA CloneCorrect ==
  ASSUME RewriteInv, where # "done", gate \in Gates(ntk), NEW new,
         new = create_and(res, Image(old2new, Fanins(ntk, gate)[1]), Image(old2new, Fanins(ntk, gate)[2]))
  PROVE  Grows(res, new.net) /\ Tracks(ntk, new.net, gate, new.f)
<1> DEFINE f(i) == Image(old2new, Fanins(ntk, gate)[i])
<1>1. IsNetwork(ntk) /\ IsNetwork(res) /\ gate \in Nat
  BY NetworkFacts DEF RewriteInv, Gates
<1>2. ASSUME NEW i \in 1..2
      PROVE  f(i) \in SignalsOf(res) /\ \A a : On(res, a, f(i)) <=> On(ntk, a, Fanins(ntk, gate)[i])
  <2> DEFINE g == Fanins(ntk, gate)[i]
  <2>1. g \in Signals /\ g.index < gate /\ g.index \in Nodes(ntk) /\ g.index \in Nat
    BY <1>1, NetworkFacts DEF Signals
  <2>2. g.index \in DOMAIN old2new
    BY <1>1, <2>1 DEF RewriteInv
  <2>3. /\ old2new[g.index] \in SignalsOf(res)
        /\ \A a : On(res, a, old2new[g.index]) <=> Values(ntk, Inputs(ntk), a)[g.index]
    BY <2>2 DEF RewriteInv, Tracks
  <2> HIDE DEF g
  <2>4. /\ Image(old2new, g) \in SignalsOf(res)
        /\ \A a : On(res, a, Image(old2new, g)) <=> (On(res, a, old2new[g.index]) # g.complement)
    BY <1>1, <2>1, <2>3, ImageFacts
  <2>5. \A a : /\ On(res, a, old2new[g.index]) \in BOOLEAN
               /\ Values(ntk, Inputs(ntk), a)[g.index] \in BOOLEAN
    <3>1. \A a, n : n \in Nodes(ntk) => Values(ntk, Inputs(ntk), a)[n] \in BOOLEAN
      BY <1>1, NodeValues
    <3>2. \A a, h : h \in SignalsOf(res) => On(res, a, h) \in BOOLEAN
      BY <1>1, SignalValues
    <3> QED BY <2>1, <2>3, <3>1, <3>2
  <2>6. \A a : On(ntk, a, g) <=> (Values(ntk, Inputs(ntk), a)[g.index] # g.complement)
    BY DEF On, Holds
  <2> QED BY <2>3, <2>4, <2>5, <2>6 DEF g
<1>3. f(1) \in SignalsOf(res) /\ f(2) \in SignalsOf(res)
  BY <1>2
<1>4. /\ Grows(res, new.net) /\ new.f \in SignalsOf(new.net)
      /\ \A a : On(new.net, a, new.f) <=> On(res, a, f(1)) /\ On(res, a, f(2))
  <2>1. new = create_and(res, f(1), f(2))
    OBVIOUS
  <2> HIDE DEF f
  <2> QED BY <1>1, <1>3, <2>1, AndCorrect
<1>5. \A a : Values(ntk, Inputs(ntk), a)[gate]
               <=> On(ntk, a, Fanins(ntk, gate)[1]) /\ On(ntk, a, Fanins(ntk, gate)[2])
  BY <1>1, NodeValues
<1>6. \A a : /\ On(res, a, f(1)) <=> On(ntk, a, Fanins(ntk, gate)[1])
             /\ On(res, a, f(2)) <=> On(ntk, a, Fanins(ntk, gate)[2])
  BY <1>2
<1> QED BY <1>4, <1>5, <1>6 DEF Tracks

\* An implementation of one of its cuts.
LEMMA ResyncCorrect ==
  ASSUME RewriteInv, where # "done", gate \in Gates(ntk), NEW cut \in CandidateCuts(ntk, gate),
         NEW s \in Structures, NEW place \in Places(cut, s), NEW flips \in SUBSET Inputs(s),
         NEW inverted \in BOOLEAN,
         Implements(truth_table(ntk, Signal(gate, FALSE), cut), cut, s, place, flips, inverted),
         NEW new, new = resync(s, place, flips, inverted)
  PROVE  Grows(res, new.net) /\ Tracks(ntk, new.net, gate, new.f)
<1> DEFINE child == [i \in 0..s.pis |-> IF i = 0 THEN get_constant
                                        ELSE Image(old2new, Signal(place[i], i \in flips))]
<1> DEFINE copy == Copy(s, Gates(s), res, child)
<1> DEFINE root == s.pos[1]
<1> DEFINE V(a) == Values(ntk, Inputs(ntk), a)
<1> DEFINE given(a) == {l \in cut : V(a)[l]}
<1> DEFINE under(a) == {i \in Inputs(s) : (place[i] \in given(a)) # (i \in flips)}
<1>1. /\ IsNetwork(ntk) /\ IsNetwork(res) /\ IsNetwork(s) /\ Len(s.pos) = 1 /\ s.pis \in Nat
      /\ gate \in Nat
  BY RewriteAssumption, NetworkFacts DEF RewriteInv, Gates
<1>2. /\ cut \subseteq 1..(gate - 1)
      /\ \A a : given(a) \in truth_table(ntk, Signal(gate, FALSE), cut) <=> V(a)[gate]
  <2>1. cut \in {Support(truth_table(ntk, Signal(gate, FALSE), leaves), leaves) :
                    leaves \in AllCuts(ntk, gate)}
    BY DEF CandidateCuts, Cuts, MinimisedCuts
  <2> QED BY <1>1, <2>1, CutCorrect
<1>3. \A i \in Inputs(s) :
        /\ place[i] \in cut /\ i \in 0..s.pis /\ i # 0
        /\ place[i] \in Nat /\ place[i] \in DOMAIN old2new
        /\ Signal(place[i], i \in flips) \in Signals
        /\ Signal(place[i], i \in flips).index = place[i]
        /\ Signal(place[i], i \in flips).complement = (i \in flips)
  <2> TAKE i \in Inputs(s)
  <2>1. place[i] \in cut /\ i \in 0..s.pis /\ i # 0
    BY <1>1 DEF Places, Inputs
  <2>2. place[i] \in Nat /\ place[i] \in DOMAIN old2new
    <3>1. DOMAIN old2new = 0..(gate - 1)
      BY DEF RewriteInv
    <3>2. place[i] \in 1..(gate - 1)
      BY <1>2, <2>1
    <3> QED BY <1>1, <3>1, <3>2
  <2>3. (i \in flips) \in BOOLEAN
    OBVIOUS
  <2> QED BY <2>1, <2>2, <2>3, SignalFacts
<1> HIDE DEF V
<1>4. ASSUME NEW i \in 0..s.pis
      PROVE  /\ child[i] \in SignalsOf(res)
             /\ \A a : On(res, a, child[i]) <=> Values(s, Inputs(s), under(a))[i]
  <2>1. CASE i = 0
    <3>1. child[i] = get_constant
      BY <1>1, <2>1
    <3>2. get_constant \in SignalsOf(res) /\ \A a : ~ On(res, a, get_constant)
      BY <1>1, SignalValues
    <3> HIDE DEF child, under
    <3>3. \A a : ~ Values(s, Inputs(s), under(a))[0]
      BY <1>1, NodeValues
    <3> QED BY <2>1, <3>1, <3>2, <3>3
  <2>2. CASE i # 0
    <3> DEFINE g == Signal(place[i], i \in flips)
    <3>1. i \in Inputs(s) /\ child[i] = Image(old2new, g)
      BY <1>1, <2>2 DEF Inputs
    <3>2. /\ g \in Signals /\ g.index = place[i] /\ g.complement = (i \in flips)
          /\ place[i] \in DOMAIN old2new /\ place[i] \in cut
      BY <1>3, <3>1
    <3> HIDE DEF g, child
    <3>3. /\ old2new[g.index] \in SignalsOf(res)
          /\ \A a : On(res, a, old2new[g.index]) <=> V(a)[place[i]]
      BY <3>2 DEF RewriteInv, Tracks, V
    <3>4. /\ Image(old2new, g) \in SignalsOf(res)
          /\ \A a : On(res, a, Image(old2new, g)) <=> (On(res, a, old2new[g.index]) # g.complement)
      BY <1>1, <3>2, <3>3, ImageFacts
    <3>5. \A a : On(res, a, old2new[g.index]) \in BOOLEAN
      BY <1>1, <3>3, SignalValues
    <3>6. \A a : place[i] \in given(a) <=> V(a)[place[i]]
      BY <3>2
    <3>7. \A a : i \in under(a) <=> ((place[i] \in given(a)) # (i \in flips))
      BY <3>1
    <3> HIDE DEF given, under
    <3>8. \A a : Values(s, Inputs(s), under(a))[i] <=> i \in under(a)
      BY <1>1, <3>1, NodeValues
    <3>9. \A a : (On(res, a, old2new[g.index]) # g.complement) <=> ((place[i] \in given(a)) # (i \in flips))
      BY <3>2, <3>3, <3>5, <3>6
    <3> QED BY <3>1, <3>4, <3>7, <3>8, <3>9
  <2> QED BY <2>1, <2>2
<1>5. DOMAIN child = 0..s.pis
  OBVIOUS
<1>6. copy = Copy(s, Gates(s), res, child) /\ root = s.pos[1]
  OBVIOUS
<1>7. new = [net |-> copy.net, f |-> IF inverted THEN create_not(Image(copy.map, root))
                                    ELSE Image(copy.map, root)]
  BY DEF resync
<1>8. \A a : given(a) \in SUBSET cut /\ under(a) \in SUBSET Inputs(s)
  OBVIOUS
<1>9. \A a : (given(a) \in truth_table(ntk, Signal(gate, FALSE), cut))
               <=> ((under(a) \in StructureTable[s]) # inverted)
  <2>1. \A x \in SUBSET cut :
          (x \in truth_table(ntk, Signal(gate, FALSE), cut)) <=>
             (({i \in Inputs(s) : (place[i] \in x) # (i \in flips)} \in StructureTable[s]) # inverted)
    BY DEF Implements
  <2> QED BY <1>8, <2>1
<1> HIDE DEF child, copy, root, given, under
<1>10. Copied(s, Gates(s), res, child, copy)
  <2>1. \A n \in Gates(s), i \in 1..2 :
          Fanins(s, n)[i].index \in 1..s.pis \/ Fanins(s, n)[i].index \in Gates(s)
    <3> TAKE n \in Gates(s), i \in 1..2
    <3>1. 0 < Fanins(s, n)[i].index /\ Fanins(s, n)[i].index \in Nodes(s)
      BY <1>1, NetworkFacts
    <3> QED BY <1>1, <3>1, NetworkFacts DEF Nodes, Gates
  <2>2. Copyable(s, Gates(s), res, child)
    BY <1>4, <1>5, <2>1 DEF Copyable
  <2> QED BY <1>1, <1>6, <2>2, CopyCorrect
<1>11. \A a : \A n \in DOMAIN copy.map : On(copy.net, a, copy.map[n]) <=> Values(s, Inputs(s), under(a))[n]
  BY <1>4, <1>10 DEF Copied
<1>12. root \in Signals /\ root.index \in Nodes(s) /\ root.index \in DOMAIN copy.map
  <2>1. 1 \in DOMAIN s.pos /\ s.pos \in Seq(Signals)
    BY <1>1, NetworkFacts
  <2>2. root \in Signals /\ root.index \in Nodes(s)
    BY <1>1, <1>6, <2>1 DEF IsNetwork
  <2> QED BY <1>1, <1>10, <2>2, NetworkFacts DEF Copied, Nodes, Gates
<1>13. Grows(res, copy.net) /\ IsNetwork(copy.net)
  BY <1>10 DEF Copied, Grows
<1> DEFINE f == Image(copy.map, root)
<1>14. f \in SignalsOf(copy.net) /\ \A a : On(copy.net, a, f) <=> under(a) \in StructureTable[s]
  <2>1. /\ f \in SignalsOf(copy.net)
        /\ \A a : On(copy.net, a, f) <=> (On(copy.net, a, copy.map[root.index]) # root.complement)
    BY <1>10, <1>12, <1>13, ImageFacts DEF Copied
  <2>2. \A a : On(s, under(a), root) <=> (Values(s, Inputs(s), under(a))[root.index] # root.complement)
    BY DEF On, Holds
  <2>3. \A a : /\ On(copy.net, a, copy.map[root.index]) \in BOOLEAN
               /\ Values(s, Inputs(s), under(a))[root.index] \in BOOLEAN
    <3>1. \A a, h : h \in SignalsOf(copy.net) => On(copy.net, a, h) \in BOOLEAN
      BY <1>13, SignalValues
    <3>2. \A b, n : n \in Nodes(s) => Values(s, Inputs(s), b)[n] \in BOOLEAN
      BY <1>1, NodeValues
    <3> QED BY <1>10, <1>12, <3>1, <3>2 DEF Copied
  <2>4. \A a : On(copy.net, a, f) <=> On(s, under(a), root)
    <3> HIDE DEF f
    <3> QED BY <1>11, <1>12, <2>1, <2>2, <2>3
  <2>5. \A b \in SUBSET Inputs(s) : b \in StructureTable[s] <=> On(s, b, root)
    BY <1>6 DEF StructureTable, Function, truth_table, On
  <2> QED BY <1>8, <2>1, <2>4, <2>5
<1> HIDE DEF f
<1>15. /\ new.net = copy.net /\ new.f \in SignalsOf(copy.net)
       /\ \A a : On(copy.net, a, new.f) <=> ((under(a) \in StructureTable[s]) # inverted)
  <2>1. new.net = copy.net /\ new.f = IF inverted THEN create_not(f) ELSE f
    BY <1>7 DEF f
  <2>2. create_not(f) \in SignalsOf(copy.net) /\ \A a : On(copy.net, a, create_not(f)) <=> ~ On(copy.net, a, f)
    BY <1>13, <1>14, SignalValues
  <2>3. CASE inverted
    BY <1>14, <2>1, <2>2, <2>3
  <2>4. CASE ~ inverted
    BY <1>14, <2>1, <2>4
  <2> QED BY <2>3, <2>4
<1> QED BY <1>2, <1>9, <1>13, <1>15 DEF Tracks, V

-----------------------------------------------------------------------------
(* The steps of the pass.                                                  *)

LEMMA SettleInv ==
  ASSUME RewriteInv, where # "done", gate \in Gates(ntk), NEW net, Grows(res, net), NEW f,
         Tracks(ntk, net, gate, f), Settle(net, f)
  PROVE  RewriteInv'
<1>1. /\ res' = net /\ old2new' = Known(old2new, gate, f) /\ gate' = gate + 1 /\ where' = "gate"
      /\ best_gain' = -1 /\ ntk' = ntk
  BY DEF Settle
<1>2. /\ IsNetwork(ntk) /\ IsNetwork(res) /\ IsNetwork(net) /\ net.pis = ntk.pis
      /\ ntk.pis \in Nat /\ Len(ntk.gates) \in Nat
  BY NetworkFacts DEF RewriteInv, Grows
<1>3. gate \in Nat /\ gate' \in (ntk.pis + 1)..(ntk.pis + Len(ntk.gates) + 1) /\ gate' - 1 = gate
  BY <1>1, <1>2 DEF Gates
<1>4. DOMAIN old2new = 0..(gate - 1)
  BY DEF RewriteInv
<1>5. /\ DOMAIN old2new' = DOMAIN old2new \cup {gate} /\ old2new'[gate] = f
      /\ \A n \in DOMAIN old2new : n # gate => old2new'[n] = old2new[n]
  BY <1>1 DEF Known
<1>6. DOMAIN old2new' = 0..(gate' - 1)
  <2>1. gate \in Nat /\ gate' = gate + 1
    BY <1>1, <1>3
  <2>2. 0..(gate' - 1) = 0..(gate - 1) \cup {gate}
    BY <2>1
  <2> QED BY <1>4, <1>5, <2>2
<1>7. ASSUME NEW n \in DOMAIN old2new' PROVE Tracks(ntk, net, n, old2new'[n])
  <2>1. CASE n = gate
    BY <1>5, <2>1
  <2>2. CASE n # gate
    <3>1. n \in DOMAIN old2new /\ old2new'[n] = old2new[n] /\ Tracks(ntk, res, n, old2new[n])
      BY <1>5, <2>2 DEF RewriteInv
    <3> QED BY <1>2, <3>1, TracksGrows
  <2> QED BY <2>1, <2>2
<1> QED BY <1>1, <1>2, <1>3, <1>6, <1>7 DEF RewriteInv

LEMMA CloneInv == ASSUME RewriteInv, where # "done", gate \in Gates(ntk), Clone PROVE RewriteInv'
<1> DEFINE new == create_and(res, Image(old2new, Fanins(ntk, gate)[1]),
                                  Image(old2new, Fanins(ntk, gate)[2]))
<1>1. Settle(new.net, new.f)
  BY DEF Clone
<1>2. Grows(res, new.net) /\ Tracks(ntk, new.net, gate, new.f)
  BY CloneCorrect
<1> HIDE DEF new
<1> QED BY <1>1, <1>2, SettleInv

LEMMA TryInv == ASSUME RewriteInv, TryCandidate PROVE RewriteInv'
<1>1. where = "cuts" /\ gate \in Gates(ntk)
  BY DEF TryCandidate, RewriteInv
<1>2. PICK cut \in CandidateCuts(ntk, gate) : \E s \in Structures, inverted \in BOOLEAN :
         \E place \in Places(cut, s), flips \in SUBSET Inputs(s) :
            /\ Implements(truth_table(ntk, Signal(gate, FALSE), cut), cut, s, place, flips, inverted)
            /\ Try(resync(s, place, flips, inverted))
  BY Zenon DEF TryCandidate
<1>9. PICK s \in Structures, inverted \in BOOLEAN :
         \E place \in Places(cut, s), flips \in SUBSET Inputs(s) :
            /\ Implements(truth_table(ntk, Signal(gate, FALSE), cut), cut, s, place, flips, inverted)
            /\ Try(resync(s, place, flips, inverted))
  BY <1>2
<1>10. PICK place \in Places(cut, s), flips \in SUBSET Inputs(s) :
         /\ Implements(truth_table(ntk, Signal(gate, FALSE), cut), cut, s, place, flips, inverted)
         /\ Try(resync(s, place, flips, inverted))
  BY <1>9
<1> DEFINE new == resync(s, place, flips, inverted)
<1>3. Grows(res, new.net) /\ Tracks(ntk, new.net, gate, new.f)
  BY <1>1, <1>10, ResyncCorrect
<1>4. /\ res' = new.net
      /\ \/ best_signal' = new.f
         \/ best_signal' = best_signal /\ best_gain' = best_gain
  BY <1>10 DEF Try
<1> HIDE DEF new
<1>5. UNCHANGED <<ntk, old2new, gate, where>>
  BY DEF TryCandidate
<1>6. /\ IsNetwork(ntk) /\ IsNetwork(res) /\ IsNetwork(new.net) /\ new.net.pis = ntk.pis
  BY <1>1, <1>3 DEF RewriteInv, Grows
<1>7. \A n \in DOMAIN old2new : Tracks(ntk, new.net, n, old2new[n])
  BY <1>1, <1>3, <1>6, TracksGrows DEF RewriteInv
<1>8. best_gain' # -1 => Tracks(ntk, new.net, gate, best_signal')
  <2>1. best_gain # -1 => Tracks(ntk, new.net, gate, best_signal)
    BY <1>1, <1>3, <1>6, TracksGrows DEF RewriteInv
  <2> QED BY <1>3, <1>4, <2>1
<1> QED BY <1>1, <1>4, <1>5, <1>6, <1>7, <1>8 DEF RewriteInv

LEMMA BeginInv == ASSUME NEW net, IsNetwork(net), BeginRewrite(net) PROVE RewriteInv'
<1>1. /\ ntk' = net /\ res' = EmptyNetwork(net.pis) /\ gate' = net.pis + 1 /\ where' = "gate"
      /\ old2new' = [n \in 0..net.pis |-> Signal(n, FALSE)] /\ best_gain' = -1
  BY DEF BeginRewrite
<1>2. net.pis \in Nat /\ Len(net.gates) \in Nat
  BY NetworkFacts
<1> DEFINE e == EmptyNetwork(net.pis)
<1>3. IsNetwork(e) /\ e.pis = net.pis /\ Inputs(e) = Inputs(net)
  BY <1>2, EmptyIsNetwork DEF Inputs
<1> HIDE DEF e
<1>4. ASSUME NEW n \in 0..net.pis PROVE Tracks(net, e, n, Signal(n, FALSE))
  <2>1. Signal(n, FALSE) \in SignalsOf(e)
        /\ \A a : On(e, a, Signal(n, FALSE)) <=> n \in Inputs(e) /\ n \in a
    BY <1>3, InputValues
  <2>2. \A a : Values(net, Inputs(net), a)[n] <=> n \in Inputs(net) /\ n \in a
    BY InputValues
  <2> QED BY <1>3, <2>1, <2>2 DEF Tracks
<1>5. /\ DOMAIN old2new' = 0..(gate' - 1)
      /\ \A n \in DOMAIN old2new' : Tracks(net, e, n, old2new'[n])
  BY <1>1, <1>2, <1>4
<1>6. gate' \in (net.pis + 1)..(net.pis + Len(net.gates) + 1)
  BY <1>1, <1>2
<1> QED BY <1>1, <1>3, <1>5, <1>6 DEF RewriteInv, e

LEMMA RewriteStepInv == RewriteInv /\ RewriteStep => RewriteInv'
<1> SUFFICES ASSUME RewriteInv, RewriteStep PROVE RewriteInv'
  OBVIOUS
<1>1. CASE CloneSmall
  BY <1>1, CloneInv DEF CloneSmall, AtGate
<1>2. CASE OpenCuts
  BY <1>2 DEF OpenCuts, AtGate, RewriteInv
<1>3. CASE TryCandidate
  BY <1>3, TryInv
<1>4. CASE CloneUnimproved
  <2>1. where = "cuts" /\ gate \in Gates(ntk) /\ Clone
    BY <1>4 DEF CloneUnimproved, RewriteInv
  <2> QED BY <2>1, CloneInv
<1>5. CASE TakeBest
  <2>1. where = "cuts" /\ gate \in Gates(ntk) /\ Settle(res, best_signal)
    BY <1>5 DEF TakeBest, RewriteInv
  <2>2. Tracks(ntk, res, gate, best_signal) /\ IsNetwork(res)
    BY <1>5 DEF TakeBest, RewriteInv
  <2> QED BY <2>1, <2>2, GrowsReflexive, SettleInv
<1> QED BY <1>1, <1>2, <1>3, <1>4, <1>5 DEF RewriteStep

\* What rewriting delivers.
LEMMA FinishDelivers ==
  ASSUME RewriteInv, Finish
  PROVE  IsNetwork(ntk') /\ Outputs(ntk') = Outputs(ntk) /\ costs(ntk') <= costs(ntk)
<1> DEFINE built == [res EXCEPT !.pos = [i \in DOMAIN ntk.pos |-> Image(old2new, ntk.pos[i])]]
<1> DEFINE ret == cleanup_dangling(built)
<1> DEFINE kept == IF costs(ret) > costs(ntk) THEN ntk ELSE ret
<1>1. ntk' = cleanup_dangling(kept) /\ where # "done" /\ gate \notin Gates(ntk)
  BY DEF Finish
<1>2. /\ IsNetwork(ntk) /\ IsNetwork(res) /\ res.pis = ntk.pis
      /\ DOMAIN old2new = Nodes(ntk)
  <2>1. /\ IsNetwork(ntk) /\ IsNetwork(res) /\ res.pis = ntk.pis /\ DOMAIN old2new = 0..(gate - 1)
        /\ gate \in (ntk.pis + 1)..(ntk.pis + Len(ntk.gates) + 1)
        /\ ntk.pis \in Nat /\ Len(ntk.gates) \in Nat
    BY <1>1, NetworkFacts DEF RewriteInv
  <2>2. gate = ntk.pis + Len(ntk.gates) + 1
    BY <1>1, <2>1 DEF Gates
  <2> QED BY <2>1, <2>2 DEF Nodes
<1>3. OutputsMapped(ntk, res, old2new)
  <2>1. \A i \in DOMAIN ntk.pos : ntk.pos[i].index \in Nodes(ntk)
    BY <1>2 DEF IsNetwork
  <2> QED BY <1>1, <1>2, <2>1 DEF RewriteInv, Tracks, OutputsMapped
<1>4. IsNetwork(built) /\ Outputs(built) = Outputs(ntk)
  BY <1>2, <1>3, MappedOutputs
<1> HIDE DEF built
<1>5. IsNetwork(ret) /\ Outputs(ret) = Outputs(ntk)
  BY <1>4, CleanupCorrect
<1> HIDE DEF ret
<1>6. costs(ret) \in Nat /\ costs(ntk) \in Nat
  BY <1>2, <1>5, NetworkFacts DEF costs
<1>7. IsNetwork(kept) /\ Outputs(kept) = Outputs(ntk) /\ costs(kept) \in Nat /\ costs(kept) <= costs(ntk)
  BY <1>2, <1>5, <1>6
<1> HIDE DEF kept
<1>8. /\ IsNetwork(ntk') /\ Outputs(ntk') = Outputs(kept) /\ costs(ntk') <= costs(kept)
  BY <1>1, <1>7, CleanupCorrect
<1>9. costs(ntk') \in Nat
  BY <1>8, NetworkFacts DEF costs
<1> QED BY <1>6, <1>7, <1>8, <1>9

\* The invariant says what the property does.
LEMMA RewriteKeepsFunctions == RewriteInv => FunctionsPreserved
<1> SUFFICES ASSUME RewriteInv, where # "done" PROVE FunctionsPreserved
  BY DEF FunctionsPreserved
<1>1. /\ IsNetwork(ntk) /\ res.pis = ntk.pis /\ DOMAIN old2new = 0..(gate - 1)
      /\ gate \in (ntk.pis + 1)..(ntk.pis + Len(ntk.gates) + 1)
      /\ ntk.pis \in Nat /\ Len(ntk.gates) \in Nat
  BY NetworkFacts DEF RewriteInv
<1>2. ASSUME NEW n \in DOMAIN old2new PROVE Function(res, old2new[n]) = Function(ntk, Signal(n, FALSE))
  <2>1. n \in Nodes(ntk)
    BY <1>1 DEF Nodes
  <2>2. Tracks(ntk, res, n, old2new[n])
    BY DEF RewriteInv
  <2> QED BY <1>1, <2>1, <2>2, TracksFunction
<1>3. ASSUME best_gain # -1 PROVE Function(res, best_signal) = Function(ntk, Signal(gate, FALSE))
  <2>1. gate \in Nodes(ntk) /\ Tracks(ntk, res, gate, best_signal)
    BY <1>1, <1>3 DEF RewriteInv, Gates, Nodes
  <2> QED BY <1>1, <2>1, TracksFunction
<1> QED BY <1>2, <1>3 DEF FunctionsPreserved

-----------------------------------------------------------------------------
(* The counters through the pass.                                          *)

\* Between passes the locals are as at the start; during one, the counters of both
\* networks are exact.
CountInv ==
    /\ IsNetwork(ntk) /\ IsNetwork(res)
    /\ res_value \in Counts(res) /\ best_signal.index \in Nodes(res)
    /\ value \in Nat /\ best_gain \in -1..value /\ trials \in 0..MaxTrials
    /\ where = "done" => old2new = <<>>
    /\ where # "done" =>
          /\ ntk_value \in Counts(ntk) /\ \A n \in Nodes(ntk) : ntk_value[n] = fanout_size(ntk, n)
          /\ Exact(ntk, res, res_value, old2new, gate)

\* mffc_size leaves the counters as they were.
LEMMA MffcCounted ==
  ASSUME NEW net, IsNetwork(net), NEW count \in Counts(net), NEW n \in Nodes(net),
         NEW mffc, mffc = mffc_size(net, count, n)
  PROVE  mffc.count = count /\ mffc.cost \in Nat
<1> DEFINE once == Visits(net, -1)[n][count]
           twice == Visits(net, 1)[n][once.count]
<1>1. mffc.count = twice.count /\ mffc.cost = once.cost
  BY DEF mffc_size, recursive_deref, recursive_ref
<1>2. count \in Counters(net) /\ Opposite(-1, 1)
  <2>1. count \in Counters(net)
    BY DEF Counts, Counters
  <2>2. Opposite(-1, 1)
    BY DEF Opposite
  <2> QED BY <2>1, <2>2
<1>3. /\ once.count \in Counters(net) /\ once.cost \in Nat
      /\ twice.count = count /\ twice.cost = once.cost
  BY <1>2, CountingUndone
<1> QED BY <1>1, <1>3

\* on_signal leaves them as they were, too.
LEMMA TriedCounted ==
  ASSUME NEW net, IsNetwork(net), NEW count \in Counts(net), NEW n \in Nodes(net),
         NEW up, up = recursive_ref(net, count, n), NEW down, down = recursive_deref(net, up.count, n)
  PROVE  down.count = count /\ up.cost \in Nat
<1> DEFINE once == Visits(net, 1)[n][count]
           twice == Visits(net, -1)[n][once.count]
<1>1. down.count = twice.count /\ up.cost = once.cost
  BY DEF recursive_deref, recursive_ref
<1>2. count \in Counters(net) /\ Opposite(1, -1)
  <2>1. count \in Counters(net)
    BY DEF Counts, Counters
  <2>2. Opposite(1, -1)
    BY DEF Opposite
  <2> QED BY <2>1, <2>2
<1>3. /\ once.count \in Counters(net) /\ once.cost \in Nat
      /\ twice.count = count /\ twice.cost = once.cost
  BY <1>2, CountingUndone
<1> QED BY <1>1, <1>3

\* Fanouts can be counted.
LEMMA FanoutsCount == ASSUME NEW net, IsNetwork(net), NEW n PROVE fanout_size(net, n) \in Nat
<1>1. Cardinality({m \in Gates(net) : n \in FaninNodes(net, m)}) \in Nat
  BY FiniteGates
<1>2. DOMAIN net.pos = 1..Len(net.pos) /\ Len(net.pos) \in Nat
  BY NetworkFacts
<1>3. IsFiniteSet(1..Len(net.pos))
  <2>1. 1 \in Int /\ Len(net.pos) \in Int
    BY <1>2
  <2> QED BY <2>1, FS_Interval
<1>4. Cardinality({i \in DOMAIN net.pos : net.pos[i].index = n}) \in Nat
  BY <1>2, <1>3, FS_Subset, FS_CardinalityType
<1> QED BY <1>1, <1>4 DEF fanout_size

\* A pass begins with exact counters.
LEMMA BeginCounts == ASSUME NEW net, IsNetwork(net), BeginRewrite(net) PROVE CountInv'
<1> DEFINE e == EmptyNetwork(net.pis)
           zero == [n \in 0..net.pis |-> 0]
           map == [n \in 0..net.pis |-> Signal(n, FALSE)]
           k == net.pis + 1
<1>1. /\ ntk' = net /\ res' = e /\ gate' = k /\ where' = "gate" /\ old2new' = map
      /\ res_value' = zero /\ ntk_value' = [n \in Nodes(net) |-> fanout_size(net, n)]
      /\ value' = 0 /\ best_gain' = -1 /\ best_signal' = get_constant /\ trials' = 0
  BY DEF BeginRewrite
<1>2. net.pis \in Nat /\ MaxTrials \in Nat
  BY NetworkFacts, RewriteAssumption
<1>3. IsNetwork(e) /\ Nodes(e) = 0..net.pis /\ Gates(e) = {}
  <2>1. IsNetwork(e) /\ Nodes(e) = 0..net.pis /\ e.pis = net.pis /\ Len(e.gates) = 0
    BY <1>2, EmptyIsNetwork
  <2> HIDE DEF e
  <2> QED BY <1>2, <2>1 DEF Gates
<1>4. zero \in Counts(e) /\ \A n \in Nodes(e) : zero[n] = 0
  BY <1>3 DEF Counts
<1> HIDE DEF e, zero, map
<1>5. \A n : /\ Cardinality(Settled(net, e, map, k, n)) = 0
             /\ Cardinality(Readers(e, Alive(e, zero), n)) = 0
  <2>1. \A m \in Gates(net) : ~ (m < k)
    BY <1>2 DEF Gates
  <2>2. \A n : Settled(net, e, map, k, n) = {} /\ Readers(e, Alive(e, zero), n) = {}
    BY <1>3, <2>1 DEF Settled, Readers, Alive
  <2> QED BY <2>2, FS_EmptySet
<1>6. Exact(net, e, zero, map, k)
  BY <1>4, <1>5 DEF Exact
<1>7. /\ ntk_value' \in Counts(net)
      /\ \A n \in Nodes(net) : ntk_value'[n] = fanout_size(net, n)
  BY <1>1, FanoutsCount DEF Counts
<1>8. get_constant.index \in Nodes(e)
  BY <1>2, <1>3 DEF get_constant, Signal
<1>9. value' \in Nat /\ best_gain' \in -1..value' /\ trials' \in 0..MaxTrials
  BY <1>1, <1>2
<1>10. /\ IsNetwork(ntk') /\ IsNetwork(res') /\ res_value' \in Counts(res')
       /\ best_signal'.index \in Nodes(res') /\ where' # "done"
       /\ ntk_value' \in Counts(ntk') /\ \A n \in Nodes(ntk') : ntk_value'[n] = fanout_size(ntk', n)
       /\ Exact(ntk', res', res_value', old2new', gate')
  BY <1>1, <1>3, <1>4, <1>6, <1>7, <1>8
<1> HIDE DEF k
<1> QED BY <1>9, <1>10 DEF CountInv

\* A gate that is settled on a signal is counted in.
LEMMA SettleCounts ==
  ASSUME RewriteInv, CountInv, where # "done", gate \in Gates(ntk), NEW net, Grows(res, net),
         NEW f, f \in SignalsOf(net), Settle(net, f), ntk_value' = ntk_value
  PROVE  CountInv'
<1> DEFINE new == Extended(res_value, net)
<1>1. /\ res' = net /\ old2new' = Known(old2new, gate, f) /\ gate' = gate + 1 /\ where' = "gate"
      /\ res_value' = recursive_ref(net, new, f.index).count /\ ntk' = ntk
      /\ value' = 0 /\ best_gain' = -1 /\ best_signal' = get_constant /\ trials' = 0
  BY DEF Settle
<1>2. IsNetwork(ntk) /\ IsNetwork(res) /\ IsNetwork(net) /\ f.index \in Nodes(net) /\ MaxTrials \in Nat
  BY RewriteAssumption DEF CountInv, Grows, SignalsOf
<1>3. /\ DOMAIN old2new = 0..(gate - 1)
      /\ \A m \in Gates(ntk) : m < gate => old2new[m].index \in Nodes(res)
  <2>1. DOMAIN old2new = 0..(gate - 1) /\ gate \in Nat /\ \A m \in Gates(ntk) : m \in Nat
    BY <1>2, NetworkFacts DEF RewriteInv, Gates
  <2> QED BY <2>1 DEF RewriteInv, Tracks, SignalsOf
<1>4. Exact(ntk, res, res_value, old2new, gate)
  BY DEF CountInv
<1> HIDE DEF new
<1>5. Exact(ntk, net, new, old2new, gate)
  BY <1>2, <1>3, <1>4, ExtendedExact DEF new
<1>6. Exact(ntk, net, res_value', old2new', gate')
  BY <1>1, <1>2, <1>3, <1>5, SettledExact
<1>7. res_value' \in Counts(net)
  BY <1>6 DEF Exact
<1>8. get_constant.index \in Nodes(net)
  BY <1>2, NetworkFacts DEF get_constant, Signal, Nodes
<1>9. value' \in Nat /\ best_gain' \in -1..value' /\ trials' \in 0..MaxTrials
  BY <1>1, <1>2
<1>10. ntk_value' \in Counts(ntk') /\ \A n \in Nodes(ntk') : ntk_value'[n] = fanout_size(ntk', n)
  BY <1>1 DEF CountInv
<1>11. /\ IsNetwork(ntk') /\ IsNetwork(res') /\ res_value' \in Counts(res')
       /\ best_signal'.index \in Nodes(res') /\ where' # "done"
       /\ Exact(ntk', res', res_value', old2new', gate')
  BY <1>1, <1>2, <1>6, <1>7, <1>8
<1> QED BY <1>9, <1>10, <1>11 DEF CountInv

\* A gate that is cloned is counted in.
LEMMA CloneCounts ==
  ASSUME RewriteInv, CountInv, where # "done", gate \in Gates(ntk), Clone, ntk_value' = ntk_value
  PROVE  CountInv'
<1> DEFINE new == create_and(res, Image(old2new, Fanins(ntk, gate)[1]),
                                  Image(old2new, Fanins(ntk, gate)[2]))
<1>1. Settle(new.net, new.f)
  BY DEF Clone
<1>2. Grows(res, new.net) /\ new.f \in SignalsOf(new.net)
  BY CloneCorrect DEF Tracks
<1> HIDE DEF new
<1> QED BY <1>1, <1>2, SettleCounts

\* A candidate, kept or not, leaves gates behind that count nothing.
LEMMA TryCounts == ASSUME RewriteInv, CountInv, TryCandidate PROVE CountInv'
<1>1. /\ where = "cuts" /\ gate \in Gates(ntk) /\ trials < MaxTrials /\ trials' = trials + 1
      /\ UNCHANGED <<ntk, ntk_value, old2new, gate, where, value>>
  BY DEF TryCandidate, RewriteInv
<1>2. PICK cut \in CandidateCuts(ntk, gate) : \E s \in Structures, inverted \in BOOLEAN :
         \E place \in Places(cut, s), flips \in SUBSET Inputs(s) :
            /\ Implements(truth_table(ntk, Signal(gate, FALSE), cut), cut, s, place, flips, inverted)
            /\ Try(resync(s, place, flips, inverted))
  BY Zenon DEF TryCandidate
<1>3. PICK s \in Structures, inverted \in BOOLEAN :
         \E place \in Places(cut, s), flips \in SUBSET Inputs(s) :
            /\ Implements(truth_table(ntk, Signal(gate, FALSE), cut), cut, s, place, flips, inverted)
            /\ Try(resync(s, place, flips, inverted))
  BY <1>2
<1>4. PICK place \in Places(cut, s), flips \in SUBSET Inputs(s) :
         /\ Implements(truth_table(ntk, Signal(gate, FALSE), cut), cut, s, place, flips, inverted)
         /\ Try(resync(s, place, flips, inverted))
  BY <1>3
<1> DEFINE new == resync(s, place, flips, inverted)
           net == new.net
           n == new.f.index
           wide == Extended(res_value, net)
           up == recursive_ref(net, wide, n)
           down == recursive_deref(net, up.count, n)
           gain == value - up.cost
<1>5. Grows(res, net) /\ n \in Nodes(net)
  BY <1>1, <1>4, ResyncCorrect DEF Tracks, SignalsOf
<1>6. /\ res' = net /\ res_value' = down.count
      /\ \/ best_gain' = gain /\ gain >= 0 /\ best_signal' = new.f
         \/ best_gain' = best_gain /\ best_signal' = best_signal
  BY <1>4 DEF Try
<1> HIDE DEF new, net, n, wide, up, down, gain
<1>7. IsNetwork(ntk) /\ IsNetwork(res) /\ IsNetwork(net) /\ Exact(ntk, res, res_value, old2new, gate)
  BY <1>1, <1>5 DEF CountInv, Grows
<1>8. \A m \in Gates(ntk) : m < gate => old2new[m].index \in Nodes(res)
  <2>1. DOMAIN old2new = 0..(gate - 1) /\ gate \in Nat /\ \A m \in Gates(ntk) : m \in Nat
    BY <1>1, <1>7, NetworkFacts DEF RewriteInv, Gates
  <2> QED BY <1>1, <2>1 DEF RewriteInv, Tracks, SignalsOf
<1>9. Exact(ntk, net, wide, old2new, gate)
  BY <1>5, <1>7, <1>8, ExtendedExact DEF wide
<1>10. wide \in Counts(net)
  BY <1>9 DEF Exact
<1>11. down.count = wide /\ up.cost \in Nat
  BY <1>5, <1>7, <1>10, TriedCounted DEF up, down
<1>12. best_gain' \in -1..value' /\ value' \in Nat /\ trials' \in 0..MaxTrials
  <2>1. value \in Nat /\ best_gain \in -1..value /\ trials \in 0..MaxTrials /\ MaxTrials \in Nat
    BY RewriteAssumption DEF CountInv
  <2>2. gain <= value /\ gain \in Int
    BY <1>11, <2>1 DEF gain
  <2> QED BY <1>1, <1>6, <2>1, <2>2
<1>13. best_signal'.index \in Nodes(net)
  <2>1. best_signal.index \in Nodes(net)
    BY <1>5, <1>7, GrowsFacts DEF CountInv
  <2> QED BY <1>5, <1>6, <2>1 DEF n
<1>14. ntk_value' \in Counts(ntk') /\ \A m \in Nodes(ntk') : ntk_value'[m] = fanout_size(ntk', m)
  BY <1>1 DEF CountInv
<1>15. /\ IsNetwork(ntk') /\ IsNetwork(res') /\ res_value' \in Counts(res')
       /\ best_signal'.index \in Nodes(res') /\ where' # "done"
       /\ Exact(ntk', res', res_value', old2new', gate')
  BY <1>1, <1>6, <1>7, <1>9, <1>10, <1>11, <1>13
<1> QED BY <1>12, <1>14, <1>15 DEF CountInv

\* Every step of the pass keeps the counters exact.
LEMMA StepCounts == ASSUME RewriteInv, CountInv, RewriteStep PROVE CountInv'
<1> DEFINE mffc == mffc_size(ntk, ntk_value, gate)
<1>1. ASSUME where # "done", gate \in Gates(ntk) PROVE mffc.count = ntk_value /\ mffc.cost \in Nat
  <2>1. IsNetwork(ntk) /\ ntk_value \in Counts(ntk)
    BY <1>1 DEF CountInv
  <2>2. gate \in Nodes(ntk)
    BY <1>1, <2>1, NetworkFacts DEF Gates, Nodes
  <2> QED BY <2>1, <2>2, MffcCounted
<1>2. CASE CloneSmall
  <2>1. where # "done" /\ gate \in Gates(ntk) /\ Clone /\ ntk_value' = mffc.count
    BY <1>2 DEF CloneSmall, AtGate
  <2> HIDE DEF mffc
  <2> QED BY <1>1, <2>1, CloneCounts
<1>3. CASE OpenCuts
  <2>1. /\ where # "done" /\ gate \in Gates(ntk) /\ ntk_value' = mffc.count /\ value' = mffc.cost
        /\ where' = "cuts"
        /\ UNCHANGED <<ntk, res, res_value, old2new, gate, best_gain, best_signal, trials>>
    BY <1>3 DEF OpenCuts, AtGate
  <2> HIDE DEF mffc
  <2>2. ntk_value' = ntk_value /\ value' \in Nat
    BY <1>1, <2>1
  <2>3. best_gain' \in -1..value'
    BY <1>3, <2>1, <2>2 DEF CountInv, OpenCuts, AtGate, RewriteInv
  <2> QED BY <2>1, <2>2, <2>3 DEF CountInv
<1>4. CASE TryCandidate
  BY <1>4, TryCounts
<1>5. CASE CloneUnimproved
  <2>1. where # "done" /\ gate \in Gates(ntk) /\ Clone /\ ntk_value' = ntk_value
    BY <1>5 DEF CloneUnimproved, RewriteInv
  <2> QED BY <2>1, CloneCounts
<1>6. CASE TakeBest
  <2>1. /\ where # "done" /\ gate \in Gates(ntk) /\ Settle(res, best_signal) /\ ntk_value' = ntk_value
        /\ best_signal \in SignalsOf(res) /\ Grows(res, res)
    BY <1>6, GrowsReflexive DEF TakeBest, RewriteInv, Tracks
  <2> QED BY <2>1, SettleCounts
<1> QED BY <1>2, <1>3, <1>4, <1>5, <1>6 DEF RewriteStep

\* The locals of the next pass start afresh.
LEMMA ReturnCounts == ASSUME IsNetwork(ntk'), Return PROVE CountInv'
<1> DEFINE e == EmptyNetwork(0)
           zero == [n \in {0} |-> 0]
<1>1. /\ res' = e /\ res_value' = zero /\ old2new' = <<>> /\ where' = "done"
      /\ value' = 0 /\ best_gain' = -1 /\ best_signal' = get_constant /\ trials' = 0
  BY DEF Return
<1>2. IsNetwork(e) /\ Nodes(e) = 0..0
  BY EmptyIsNetwork
<1>3. zero \in Counts(e)
  <2>1. Nodes(e) = {0}
    BY <1>2
  <2> HIDE DEF e
  <2> QED BY <2>1 DEF Counts
<1>4. get_constant.index \in Nodes(e)
  BY <1>2 DEF get_constant, Signal
<1>5. value' \in Nat /\ best_gain' \in -1..value' /\ trials' \in 0..MaxTrials
  BY <1>1, RewriteAssumption
<1>6. /\ IsNetwork(res') /\ res_value' \in Counts(res') /\ best_signal'.index \in Nodes(res')
      /\ where' = "done" /\ old2new' = <<>>
  BY <1>1, <1>2, <1>3, <1>4
<1> QED BY <1>5, <1>6 DEF CountInv

\* Before the first pass.
LEMMA InitCounts == RewriteInit => CountInv
<1> SUFFICES ASSUME RewriteInit PROVE CountInv
  OBVIOUS
<1> DEFINE e == EmptyNetwork(0)
           zero == [n \in {0} |-> 0]
<1>1. /\ ntk = e /\ res = e /\ res_value = zero /\ old2new = <<>> /\ where = "done"
      /\ value = 0 /\ best_gain = -1 /\ best_signal = get_constant /\ trials = 0
  BY DEF RewriteInit
<1>2. IsNetwork(e) /\ Nodes(e) = 0..0
  BY EmptyIsNetwork
<1>3. zero \in Counts(e)
  <2>1. Nodes(e) = {0}
    BY <1>2
  <2> HIDE DEF e
  <2> QED BY <2>1 DEF Counts
<1>4. get_constant.index \in Nodes(e)
  BY <1>2 DEF get_constant, Signal
<1>5. value \in Nat /\ best_gain \in -1..value /\ trials \in 0..MaxTrials
  BY <1>1, RewriteAssumption
<1>6. /\ IsNetwork(ntk) /\ IsNetwork(res) /\ res_value \in Counts(res) /\ best_signal.index \in Nodes(res)
  BY <1>1, <1>2, <1>3, <1>4
<1> QED BY <1>1, <1>5, <1>6 DEF CountInv

\* The invariants say what the properties do.
LEMMA CountsAreExact == CountInv => CountersExact
<1> SUFFICES ASSUME CountInv, where # "done" PROVE CountersExact
  BY DEF CountersExact
<1>1. \A n \in Nodes(ntk) : ntk_value[n] = fanout_size(ntk, n)
  BY DEF CountInv
<1>2. \A n \in Nodes(res) : res_value[n] = Cardinality(Settled(ntk, res, old2new, gate, n))
                                           + Cardinality(Readers(res, Alive(res, res_value), n))
  BY DEF CountInv, Exact
<1>3. \A n : Readers(res, Alive(res, res_value), n)
               = {m \in Gates(res) : res_value[m] > 0 /\ n \in FaninNodes(res, m)}
  BY DEF Readers, Alive
<1> QED BY <1>1, <1>2, <1>3 DEF CountersExact, Settled

\* The same of the types.
LEMMA CountsAreTyped == RewriteInv /\ CountInv => RewriteTypeOK
<1> SUFFICES ASSUME RewriteInv, CountInv PROVE RewriteTypeOK
  OBVIOUS
<1>1. /\ IsNetwork(ntk) /\ IsNetwork(res)
      /\ where \in {"gate", "cuts", "done"}
      /\ where # "done" => ntk_value \in Counts(ntk)
      /\ res_value \in Counts(res)
      /\ where # "done" => DOMAIN old2new = 0..(gate - 1)
      /\ best_signal.index \in Nodes(res)
      /\ value \in Nat /\ best_gain \in -1..value /\ trials \in 0..MaxTrials
  BY DEF RewriteInv, CountInv
<1>2. \A n \in DOMAIN old2new : old2new[n].index \in Nodes(res)
  <2>1. CASE where = "done"
    BY <2>1 DEF CountInv
  <2>2. CASE where # "done"
    BY <2>2 DEF RewriteInv, Tracks, SignalsOf
  <2> QED BY <2>1, <2>2
<1> QED BY <1>1, <1>2 DEF RewriteTypeOK

\* Between passes, and while the other one runs.
LEMMA IdleCounts ==
  ASSUME CountInv, where = "done", UNCHANGED rewriteLocals, IsNetwork(ntk')
  PROVE  CountInv'
BY DEF CountInv, rewriteLocals, Counts, Nodes

-----------------------------------------------------------------------------
(* The session.                                                            *)

\* What the store keeps of a network: one that computes what some network that was
\* read does.
Origins == {net \in [pis: Nat, gates: Seq(Signals \X Signals), pos: Seq(Signals)] :
                IsNetwork(net) /\ Outputs(net) \in Functions}
Storages == {Stored(net) : net \in Origins}

\* One pass runs at a time, on the current network, and there is room for what it
\* makes; every element has a storage.
StoreInv ==
    /\ heap \in Seq(Storages)
    /\ aigs \in Seq([handle: Nat, origin: Functions])
    /\ Len(heap) <= Len(aigs) /\ Len(aigs) <= MaxElements
    /\ \A i \in 1..Len(aigs) : aigs[i].handle \in 1..Len(heap)

SessionInv ==
    /\ RewriteInv /\ CountInv /\ BalanceInv /\ StoreInv
    /\ where = "done" \/ phase = "done"
    /\ ~ Prompt => aigs # <<>> /\ Len(aigs) < MaxElements /\ ntk = Aig

LEMMA StorageFacts ==
  /\ \A net : IsNetwork(net) /\ Outputs(net) \in Functions => Stored(net) \in Storages
  /\ \A e \in Storages : /\ IsNetwork(e.net) /\ e.outputs = Outputs(e.net) /\ e.outputs \in Functions
                         /\ e.size = costs(e.net) /\ e.size \in Nat
<1>1. ASSUME NEW net, IsNetwork(net), Outputs(net) \in Functions PROVE Stored(net) \in Storages
  <2>1. net \in Origins
    BY <1>1 DEF IsNetwork, Origins
  <2> QED BY <2>1 DEF Storages
<1>2. ASSUME NEW e \in Storages
      PROVE  /\ IsNetwork(e.net) /\ e.outputs = Outputs(e.net) /\ e.outputs \in Functions
             /\ e.size = costs(e.net) /\ e.size \in Nat
  <2>1. PICK net \in Origins : e = Stored(net)
    BY DEF Storages
  <2>2. IsNetwork(net) /\ Outputs(net) \in Functions
    BY DEF Origins
  <2>3. costs(net) \in Nat
    BY <2>2, NetworkFacts DEF costs
  <2>4. e.net = net /\ e.outputs = Outputs(net) /\ e.size = costs(net)
    BY <2>1 DEF Stored
  <2> QED BY <2>2, <2>3, <2>4
<1> QED BY <1>1, <1>2

\* The current network.
LEMMA AigFacts ==
  ASSUME StoreInv, aigs # <<>>
  PROVE  /\ Len(aigs) \in 1..MaxElements /\ Len(heap) \in Nat
         /\ aigs[Len(aigs)].handle \in 1..Len(heap)
         /\ heap[aigs[Len(aigs)].handle] \in Storages
         /\ IsNetwork(Aig) /\ Outputs(Aig) \in Functions
         /\ heap[aigs[Len(aigs)].handle].outputs = Outputs(Aig)
         /\ heap[aigs[Len(aigs)].handle].size = costs(Aig)
         /\ Last(aigs) = aigs[Len(aigs)] /\ Last(aigs).origin \in Functions
<1> DEFINE Elements == [handle: Nat, origin: Functions]
<1>1. aigs \in Seq(Elements) /\ heap \in Seq(Storages) /\ Len(aigs) <= MaxElements /\ MaxElements \in Nat
  BY SessionAssumption DEF StoreInv
<1>2. \A e \in Elements : e.origin \in Functions
  OBVIOUS
<1> HIDE DEF Elements
<1>3. Len(aigs) # 0 /\ Len(aigs) \in Nat /\ Len(heap) \in Nat
  BY <1>1
<1>4. Len(aigs) \in 1..MaxElements /\ Len(aigs) \in 1..Len(aigs)
  BY <1>1, <1>3
<1>5. aigs[Len(aigs)] \in Elements
  BY <1>1, <1>4, ElementOfSeq
<1>6. aigs[Len(aigs)].handle \in 1..Len(heap)
  BY <1>4 DEF StoreInv
<1>7. heap[aigs[Len(aigs)].handle] \in Storages
  BY <1>1, <1>6, ElementOfSeq
<1>8. Last(aigs) = aigs[Len(aigs)]
  BY DEF Last
<1> QED BY <1>2, <1>3, <1>4, <1>5, <1>6, <1>7, <1>8, StorageFacts DEF Aig

LEMMA NetworksFacts ==
  \A net \in Networks : IsNetwork(net) /\ Outputs(net) \in Functions /\ Stored(net) \in Storages
BY RewriteAssumption, StorageFacts DEF Functions

LEMMA AddInv ==
  ASSUME StoreInv, aigs # <<>>, Len(aigs) < MaxElements,
         NEW net, IsNetwork(net), Outputs(net) \in Functions, Add(net)
  PROVE  StoreInv'
<1> DEFINE Elements == [handle: Nat, origin: Functions]
           e == [handle |-> Len(heap) + 1, origin |-> Last(aigs).origin]
<1>1. heap' = Append(heap, Stored(net)) /\ aigs' = Append(aigs, e)
  BY DEF Add
<1>2. Stored(net) \in Storages
  BY StorageFacts
<1>3. Len(heap) \in Nat /\ Last(aigs).origin \in Functions
  BY AigFacts
<1>4. e \in Elements /\ e.handle = Len(heap) + 1
  BY <1>3
<1>5. heap \in Seq(Storages) /\ aigs \in Seq(Elements) /\ Len(aigs) \in Nat /\ MaxElements \in Nat
      /\ Len(heap) <= Len(aigs)
  BY SessionAssumption DEF StoreInv
<1> HIDE DEF Elements, e
<1>6. /\ heap' \in Seq(Storages) /\ Len(heap') = Len(heap) + 1
      /\ aigs' \in Seq(Elements) /\ Len(aigs') = Len(aigs) + 1
      /\ \A i \in 1..Len(aigs) : aigs'[i] = aigs[i]
      /\ aigs'[Len(aigs) + 1] = e
  BY <1>1, <1>2, <1>4, <1>5
<1>7. ASSUME NEW i \in 1..Len(aigs') PROVE aigs'[i].handle \in 1..Len(heap')
  <2>1. CASE i = Len(aigs) + 1
    BY <1>3, <1>4, <1>6, <2>1
  <2>2. CASE i # Len(aigs) + 1
    <3>1. i \in 1..Len(aigs)
      BY <1>5, <1>6, <2>2
    <3>2. aigs[i].handle \in 1..Len(heap)
      BY <3>1 DEF StoreInv
    <3> QED BY <1>3, <1>6, <3>1, <3>2
  <2> QED BY <2>1, <2>2
<1>8. Len(heap') <= Len(aigs') /\ Len(aigs') <= MaxElements
  BY <1>3, <1>5, <1>6
<1> QED BY <1>6, <1>7, <1>8 DEF StoreInv, Elements

LEMMA ReadInv == ASSUME SessionInv, Read PROVE SessionInv'
<1>1. PICK net \in Networks : heap' = <<Stored(net)>> /\ aigs' = <<[handle |-> 1, origin |-> Outputs(net)]>>
  BY DEF Read
<1>2. where' = "done" /\ phase' = "done" /\ dest' = dest /\ dest = EmptyNetwork(0)
  BY DEF Read, Prompt, rewriteVars, balanceLocals, SessionInv, BalanceInv
<1>3. Stored(net) \in Storages /\ Outputs(net) \in Functions
  BY NetworksFacts
<1> DEFINE e == [handle |-> 1, origin |-> Outputs(net)]
<1>4. e \in [handle: Nat, origin: Functions] /\ e.handle = 1
  BY <1>3
<1> HIDE DEF e
<1>5. /\ heap' \in Seq(Storages) /\ Len(heap') = 1
      /\ aigs' \in Seq([handle: Nat, origin: Functions]) /\ Len(aigs') = 1 /\ aigs'[1] = e
  BY <1>1, <1>3, <1>4 DEF e
<1>6. StoreInv'
  BY <1>4, <1>5, SessionAssumption DEF StoreInv
<1>7. RewriteInv' /\ BalanceInv'
  BY <1>2 DEF RewriteInv, BalanceInv
<1>8. CountInv'
  <2>1. where = "done" /\ UNCHANGED rewriteLocals /\ ntk' = ntk
    BY DEF Read, Prompt, rewriteVars, rewriteLocals
  <2> QED BY <2>1, IdleCounts DEF SessionInv, CountInv
<1> QED BY <1>2, <1>6, <1>7, <1>8 DEF SessionInv, Prompt

LEMMA ResubInv == ASSUME SessionInv, Resub PROVE SessionInv'
<1>1. /\ aigs' = Append(aigs, Last(aigs)) /\ heap' = heap /\ aigs # <<>> /\ Len(aigs) < MaxElements
      /\ where' = "done" /\ phase' = "done" /\ dest' = dest /\ dest = EmptyNetwork(0)
  BY DEF Resub, Ready, Prompt, rewriteVars, balanceLocals, SessionInv, BalanceInv
<1> DEFINE Elements == [handle: Nat, origin: Functions]
<1>2. /\ aigs \in Seq(Elements) /\ heap \in Seq(Storages) /\ MaxElements \in Nat
      /\ Len(aigs) \in Nat /\ Len(aigs) # 0 /\ Len(aigs) \in 1..Len(aigs)
      /\ Last(aigs) = aigs[Len(aigs)] /\ Len(heap) \in Nat /\ Len(heap) <= Len(aigs)
  <2>1. aigs \in Seq(Elements) /\ heap \in Seq(Storages) /\ MaxElements \in Nat /\ StoreInv
        /\ Len(heap) <= Len(aigs)
    BY SessionAssumption DEF SessionInv, StoreInv
  <2>2. Len(aigs) \in 1..MaxElements /\ Last(aigs) = aigs[Len(aigs)] /\ Len(heap) \in Nat
    BY <1>1, <2>1, AigFacts
  <2> HIDE DEF Elements
  <2> QED BY <2>1, <2>2
<1> HIDE DEF Elements
<1>3. aigs[Len(aigs)] \in Elements
  BY <1>2, ElementOfSeq
<1>4. /\ aigs' \in Seq(Elements) /\ Len(aigs') = Len(aigs) + 1
      /\ \A i \in 1..Len(aigs) : aigs'[i] = aigs[i]
      /\ aigs'[Len(aigs) + 1] = aigs[Len(aigs)]
  BY <1>1, <1>2, <1>3
<1>5. ASSUME NEW i \in 1..Len(aigs') PROVE aigs'[i].handle \in 1..Len(heap')
  <2>1. PICK j \in 1..Len(aigs) : aigs'[i] = aigs[j]
    <3>1. i \in 1..Len(aigs) \/ i = Len(aigs) + 1
      BY <1>2, <1>4
    <3> QED BY <1>2, <1>4, <3>1
  <2>2. aigs[j].handle \in 1..Len(heap)
    BY <2>1 DEF SessionInv, StoreInv
  <2> QED BY <1>1, <2>1, <2>2
<1>6. Len(heap') <= Len(aigs') /\ Len(aigs') <= MaxElements
  BY <1>1, <1>2, <1>4
<1>7. StoreInv'
  BY <1>1, <1>2, <1>4, <1>5, <1>6 DEF StoreInv, Elements
<1>8. RewriteInv' /\ BalanceInv'
  BY <1>1 DEF RewriteInv, BalanceInv
<1>9. CountInv'
  <2>1. where = "done" /\ UNCHANGED rewriteLocals /\ ntk' = ntk
    BY DEF Resub, Ready, Prompt, rewriteVars, rewriteLocals
  <2> QED BY <2>1, IdleCounts DEF SessionInv, CountInv
<1> QED BY <1>1, <1>7, <1>8, <1>9 DEF SessionInv, Prompt

\* A command takes the current network.
LEMMA StartInv ==
  ASSUME SessionInv, StartRewrite \/ StartBalance
  PROVE  SessionInv' /\ where = "done" /\ phase = "done" /\ UNCHANGED storeVars
<1>1. /\ aigs # <<>> /\ Len(aigs) < MaxElements /\ where = "done" /\ phase = "done"
      /\ UNCHANGED storeVars /\ heap' = heap /\ aigs' = aigs
  BY DEF StartRewrite, StartBalance, Ready, Prompt, storeVars
<1>2. IsNetwork(Aig) /\ StoreInv' /\ Aig' = Aig
  BY <1>1, AigFacts DEF SessionInv, StoreInv, Aig
<1>3. CASE StartRewrite
  <2>1. BeginRewrite(Aig) /\ phase' = "done" /\ dest' = dest
    BY <1>3 DEF StartRewrite, balanceLocals, Ready, Prompt
  <2>2. RewriteInv'
    BY <1>2, <2>1, BeginInv
  <2>3. BalanceInv'
    BY <1>1, <2>1 DEF SessionInv, BalanceInv
  <2>4. ntk' = Aig /\ where' = "gate"
    BY <2>1 DEF BeginRewrite
  <2>5. CountInv'
    BY <1>2, <2>1, BeginCounts
  <2> QED BY <1>1, <1>2, <2>1, <2>2, <2>3, <2>4, <2>5 DEF SessionInv, Prompt
<1>4. CASE StartBalance
  <2>1. BeginBalance(Aig) /\ where' = "done"
    BY <1>1, <1>4 DEF StartBalance, rewriteLocals
  <2>2. BalanceInv'
    BY <1>2, <2>1, BeginBalanceInv
  <2>3. RewriteInv'
    BY <2>1 DEF RewriteInv
  <2>4. ntk' = Aig
    BY <2>1 DEF BeginBalance
  <2>5. CountInv'
    <3>1. CountInv /\ UNCHANGED rewriteLocals
      BY <1>4 DEF StartBalance, SessionInv
    <3> QED BY <1>1, <1>2, <2>4, <3>1, IdleCounts
  <2> QED BY <1>1, <1>2, <2>1, <2>2, <2>3, <2>4, <2>5 DEF SessionInv, Prompt
<1> QED BY <1>1, <1>3, <1>4

\* A step within a pass changes neither the network it works on nor the store.
LEMMA StepInv ==
  ASSUME SessionInv, StepRewrite \/ StepBalance
  PROVE  /\ SessionInv' /\ ntk' = ntk /\ UNCHANGED storeVars
         /\ where # "done" <=> where' # "done"
         /\ phase # "done" <=> phase' # "done"
<1>1. UNCHANGED storeVars /\ heap' = heap /\ aigs' = aigs
  BY DEF StepRewrite, StepBalance, storeVars
<1>2. StoreInv' /\ Aig' = Aig
  BY <1>1 DEF SessionInv, StoreInv, Aig
<1>3. CASE StepRewrite
  <2>1. RewriteStep /\ phase' = phase /\ dest' = dest
    BY <1>3 DEF StepRewrite, balanceLocals
  <2>2. ntk' = ntk /\ where # "done" /\ where' # "done"
    BY <2>1 DEF RewriteStep, CloneSmall, OpenCuts, TryCandidate, CloneUnimproved, TakeBest, AtGate, Clone, Settle
  <2>3. phase = "done" /\ dest = EmptyNetwork(0)
    BY <2>2 DEF SessionInv, BalanceInv
  <2>4. RewriteInv'
    BY <2>1, RewriteStepInv DEF SessionInv
  <2>5. BalanceInv'
    BY <2>1, <2>3 DEF BalanceInv
  <2>6. aigs' # <<>> /\ Len(aigs') < MaxElements /\ ntk' = Aig'
    BY <1>1, <1>2, <2>2 DEF SessionInv, Prompt
  <2>7. CountInv'
    BY <2>1, StepCounts DEF SessionInv
  <2> QED BY <1>1, <1>2, <2>1, <2>2, <2>3, <2>4, <2>5, <2>6, <2>7 DEF SessionInv
<1>4. CASE StepBalance
  <2>1. BalanceStep /\ where' = where
    BY <1>4 DEF StepBalance, rewriteLocals
  <2>2. ntk' = ntk /\ phase # "done" /\ phase' # "done"
    BY <2>1 DEF BalanceStep, SkipGate, VisitGate, TryCut, SettleGate
  <2>3. where = "done"
    BY <2>2 DEF SessionInv
  <2>4. BalanceInv'
    BY <2>1, BalanceStepInv DEF SessionInv
  <2>5. RewriteInv'
    BY <2>1, <2>3 DEF RewriteInv
  <2>6. aigs' # <<>> /\ Len(aigs') < MaxElements /\ ntk' = Aig'
    BY <1>1, <1>2, <2>2 DEF SessionInv, Prompt
  <2>7. CountInv'
    <3>1. CountInv /\ UNCHANGED rewriteLocals
      BY <1>4 DEF StepBalance, SessionInv
    <3>2. IsNetwork(ntk')
      BY <2>2, <3>1 DEF CountInv
    <3> QED BY <2>3, <3>1, <3>2, IdleCounts
  <2> QED BY <1>1, <1>2, <2>1, <2>2, <2>3, <2>4, <2>5, <2>6, <2>7 DEF SessionInv
<1> QED BY <1>1, <1>3, <1>4

\* The pass that ends delivers a network with the outputs of the current one.
LEMMA EndInv ==
  ASSUME SessionInv, EndRewrite \/ EndBalance
  PROVE  /\ SessionInv' /\ where' = "done" /\ phase' = "done"
         /\ aigs # <<>> /\ Len(aigs) < MaxElements /\ ntk = Aig
         /\ Add(ntk') /\ IsNetwork(ntk') /\ Outputs(ntk') = Outputs(ntk)
         /\ EndRewrite => where # "done" /\ phase = "done" /\ costs(ntk') <= costs(ntk)
         /\ EndBalance => phase # "done" /\ where = "done" /\ NetworkDepth(ntk') <= NetworkDepth(ntk)
<1>1. Add(ntk') /\ (EndRewrite => Finish) /\ (EndBalance => FinishBalance)
  BY DEF EndRewrite, EndBalance
<1>2. /\ EndRewrite => where # "done" /\ where' = "done" /\ phase' = phase /\ dest' = dest
      /\ EndBalance => phase # "done" /\ phase' = "done" /\ where' = where /\ dest' = EmptyNetwork(0)
  BY DEF EndRewrite, EndBalance, Finish, Return, FinishBalance, balanceLocals, rewriteLocals
<1>3. /\ where' = "done" /\ phase' = "done" /\ dest' = EmptyNetwork(0)
      /\ EndRewrite => phase = "done" /\ where # "done"
      /\ EndBalance => where = "done" /\ phase # "done"
      /\ aigs # <<>> /\ Len(aigs) < MaxElements /\ ntk = Aig
  BY <1>2 DEF SessionInv, BalanceInv, Prompt
<1>4. /\ IsNetwork(ntk') /\ Outputs(ntk') = Outputs(ntk)
      /\ EndRewrite => costs(ntk') <= costs(ntk)
      /\ EndBalance => NetworkDepth(ntk') <= NetworkDepth(ntk)
  <2>1. Finish => IsNetwork(ntk') /\ Outputs(ntk') = Outputs(ntk) /\ costs(ntk') <= costs(ntk)
    BY FinishDelivers DEF SessionInv
  <2>2. FinishBalance => /\ IsNetwork(ntk') /\ Outputs(ntk') = Outputs(ntk)
                         /\ NetworkDepth(ntk') <= NetworkDepth(ntk)
    BY FinishBalanceDelivers DEF SessionInv
  <2>3. ~ (EndRewrite /\ EndBalance)
    BY <1>3
  <2> QED BY <1>1, <2>1, <2>2, <2>3
<1>5. StoreInv'
  <2>1. Outputs(ntk') \in Functions /\ StoreInv
    BY <1>3, <1>4, AigFacts DEF SessionInv
  <2> QED BY <1>1, <1>3, <1>4, <2>1, AddInv
<1>6. RewriteInv' /\ BalanceInv'
  BY <1>3 DEF RewriteInv, BalanceInv
<1>7. CountInv'
  <2>1. CASE EndRewrite
    <3>1. Return
      BY <2>1 DEF EndRewrite, Finish
    <3> QED BY <1>4, <3>1, ReturnCounts
  <2>2. CASE EndBalance
    <3>1. CountInv /\ UNCHANGED rewriteLocals
      BY <2>2 DEF EndBalance, SessionInv
    <3> QED BY <1>3, <1>4, <2>2, <3>1, IdleCounts
  <2> QED BY <2>1, <2>2
<1> QED BY <1>1, <1>3, <1>4, <1>5, <1>6, <1>7 DEF SessionInv, Prompt

LEMMA SessionInvariant == SessionSpec => []SessionInv
<1>1. SessionInit => SessionInv
  <2> SUFFICES ASSUME SessionInit PROVE SessionInv
    OBVIOUS
  <2>1. where = "done" /\ phase = "done" /\ dest = EmptyNetwork(0) /\ heap = <<>> /\ aigs = <<>>
    BY DEF SessionInit, RewriteInit, BalanceInit
  <2>2. StoreInv
    BY <2>1, SessionAssumption DEF StoreInv
  <2>3. CountInv
    BY InitCounts DEF SessionInit
  <2> QED BY <2>1, <2>2, <2>3 DEF SessionInv, RewriteInv, BalanceInv, Prompt
<1>2. SessionInv /\ [SessionNext]_sessionVars => SessionInv'
  <2> SUFFICES ASSUME SessionInv, [SessionNext]_sessionVars PROVE SessionInv'
    OBVIOUS
  <2>1. CASE Read
    BY <2>1, ReadInv
  <2>2. CASE StartRewrite \/ StartBalance
    BY <2>2, StartInv
  <2>3. CASE StepRewrite \/ StepBalance
    BY <2>3, StepInv
  <2>4. CASE EndRewrite \/ EndBalance
    BY <2>4, EndInv
  <2>5. CASE Resub
    BY <2>5, ResubInv
  <2>6. CASE UNCHANGED sessionVars
    BY <2>6 DEF sessionVars, rewriteVars, balanceLocals, storeVars, SessionInv, RewriteInv, CountInv, BalanceInv,
                StoreInv, Prompt, Aig, CutsToTry
  <2> QED BY <2>1, <2>2, <2>3, <2>4, <2>5, <2>6 DEF SessionNext
<1> QED BY <1>1, <1>2, PTL DEF SessionSpec

-----------------------------------------------------------------------------
(* The theorems.                                                           *)

\* Through every pass, on every network and with every database, what a node has become
\* computes what the node computes, and so does the candidate that is kept.
THEOREM RewritePreserves == SessionSpec => []FunctionsPreserved
<1>1. SessionInv => FunctionsPreserved
  BY RewriteKeepsFunctions DEF SessionInv
<1> QED BY SessionInvariant, <1>1, PTL

\* Whatever has been tried, kept or thrown away, the counters of the new network are
\* those of the gates that have been settled and of what these need, and those of the
\* old one are its fanouts: counting out undoes counting in, gate by gate, also after
\* the candidate has been built into a network that others share.
THEOREM CountersStayExact == SessionSpec => []CountersExact
<1>1. SessionInv => CountersExact
  BY CountsAreExact DEF SessionInv
<1> QED BY SessionInvariant, <1>1, PTL

\* Through every session the networks stay in topological order, no counter falls
\* below zero, every signal that is kept exists in the new network, and no gain is
\* larger than what the gate is worth.
THEOREM RewriteTyped == SessionSpec => []RewriteTypeOK
<1>1. SessionInv => RewriteTypeOK
  BY CountsAreTyped DEF SessionInv
<1> QED BY SessionInvariant, <1>1, PTL

\* The same of balancing, through sums of products and the trees they become.
THEOREM BalanceKeeps == SessionSpec => []BalancePreserves
<1>1. SessionInv => BalancePreserves
  BY BalanceKeepsFunctions DEF SessionInv
<1> QED BY SessionInvariant, <1>1, PTL

\* The levels that balancing compares by are never too early, and no gate gets a later
\* one than it had, whichever cuts are tried in which order.
THEOREM BalanceLevelsSound == SessionSpec => []LevelsSound
<1>1. SessionInv => LevelsSound
  BY BalanceLevels DEF SessionInv
<1> QED BY SessionInvariant, <1>1, PTL

\* Rewriting delivers a network with the outputs of the one it took and no more gates:
\* a node's new signal computes what the node did, nothing is added but copies of the
\* gates that are needed, and the result is only taken when it is not dearer.
THEOREM RewriteImplementsTransform == SessionSpec => ImplementsTransform
<1>1. SessionInit => Transform!TransformInit
  BY DEF SessionInit, RewriteInit, Transform!TransformInit
<1>2. SessionInv /\ [SessionNext]_sessionVars =>
        [Transform!Idle \/ Transform!Take \/ Transform!Deliver]_(Transform!transformVars)
  <2> SUFFICES ASSUME SessionInv, [SessionNext]_sessionVars
               PROVE  [Transform!Idle \/ Transform!Take \/ Transform!Deliver]_(Transform!transformVars)
    OBVIOUS
  <2>1. CASE Read \/ Resub
    <3>1. where = "done" /\ where' = "done"
      BY <2>1 DEF Read, Resub, Ready, Prompt, rewriteVars
    <3> QED BY <3>1 DEF Transform!Idle
  <2>2. CASE StartRewrite
    <3>1. where = "done" /\ where' # "done"
      BY <2>2 DEF StartRewrite, Ready, Prompt, BeginRewrite
    <3> QED BY <3>1 DEF Transform!Take
  <2>3. CASE StartBalance
    <3>1. where = "done" /\ where' = "done"
      BY <2>3 DEF StartBalance, Ready, Prompt, rewriteLocals
    <3> QED BY <3>1 DEF Transform!Idle
  <2>4. CASE StepRewrite \/ StepBalance
    <3>1. ntk' = ntk /\ (where # "done" <=> where' # "done")
      BY <2>4, StepInv
    <3> QED BY <3>1 DEF Transform!transformVars
  <2>5. CASE EndRewrite
    <3>1. where # "done" /\ where' = "done" /\ Outputs(ntk') = Outputs(ntk) /\ costs(ntk') <= costs(ntk)
      BY <2>5, EndInv
    <3> QED BY <3>1 DEF Transform!Deliver
  <2>6. CASE EndBalance
    <3>1. where = "done" /\ where' = "done"
      BY <2>6, EndInv
    <3> QED BY <3>1 DEF Transform!Idle
  <2>7. CASE UNCHANGED sessionVars
    BY <2>7 DEF sessionVars, rewriteVars, Transform!transformVars
  <2> QED BY <2>1, <2>2, <2>3, <2>4, <2>5, <2>6, <2>7 DEF SessionNext
<1> QED BY SessionInvariant, <1>1, <1>2, PTL DEF SessionSpec, ImplementsTransform, Transform!TransformSpec

\* Balancing delivers a network with the outputs of the one it took that is no deeper:
\* over its fanins a gate becomes a product of two literals, which is no later than the
\* gate was, and a later candidate never replaces an earlier one.
THEOREM BalanceImplementsTransform == SessionSpec => ImplementsBalance
<1>1. SessionInit => BalanceTransform!TransformInit
  BY DEF SessionInit, BalanceInit, BalanceTransform!TransformInit
<1>2. SessionInv /\ [SessionNext]_sessionVars =>
        [BalanceTransform!Idle \/ BalanceTransform!Take \/ BalanceTransform!Deliver]_(BalanceTransform!transformVars)
  <2> SUFFICES ASSUME SessionInv, [SessionNext]_sessionVars
               PROVE  [BalanceTransform!Idle \/ BalanceTransform!Take
                       \/ BalanceTransform!Deliver]_(BalanceTransform!transformVars)
    OBVIOUS
  <2>1. CASE Read \/ Resub
    <3>1. phase = "done" /\ phase' = "done"
      BY <2>1 DEF Read, Resub, Ready, Prompt, balanceLocals
    <3> QED BY <3>1 DEF BalanceTransform!Idle
  <2>2. CASE StartRewrite
    <3>1. phase = "done" /\ phase' = "done"
      BY <2>2 DEF StartRewrite, Ready, Prompt, balanceLocals
    <3> QED BY <3>1 DEF BalanceTransform!Idle
  <2>3. CASE StartBalance
    <3>1. phase = "done" /\ phase' # "done"
      BY <2>3 DEF StartBalance, Ready, Prompt, BeginBalance
    <3> QED BY <3>1 DEF BalanceTransform!Take
  <2>4. CASE StepRewrite \/ StepBalance
    <3>1. ntk' = ntk /\ (phase # "done" <=> phase' # "done")
      BY <2>4, StepInv
    <3> QED BY <3>1 DEF BalanceTransform!transformVars
  <2>5. CASE EndRewrite
    <3>1. phase = "done" /\ phase' = "done"
      BY <2>5, EndInv
    <3> QED BY <3>1 DEF BalanceTransform!Idle
  <2>6. CASE EndBalance
    <3>1. /\ phase # "done" /\ phase' = "done" /\ Outputs(ntk') = Outputs(ntk)
          /\ NetworkDepth(ntk') <= NetworkDepth(ntk)
      BY <2>6, EndInv
    <3> QED BY <3>1 DEF BalanceTransform!Deliver
  <2>7. CASE UNCHANGED sessionVars
    BY <2>7 DEF sessionVars, rewriteVars, balanceLocals, BalanceTransform!transformVars
  <2> QED BY <2>1, <2>2, <2>3, <2>4, <2>5, <2>6, <2>7 DEF SessionNext
<1> QED BY SessionInvariant, <1>1, <1>2, PTL
    DEF SessionSpec, ImplementsBalance, BalanceTransform!TransformSpec

-----------------------------------------------------------------------------
(* The store.                                                              *)

\* What AigStore sees.
LEMMA SeenFacts ==
  ASSUME StoreInv
  PROVE  /\ storage \in [1..MaxElements -> Store!Nets]
         /\ Len(heap) \in 0..MaxElements
         /\ \A h \in 1..Len(heap) : storage[h].outputs = heap[h].outputs /\ storage[h].size = Capped(heap[h].size)
         /\ Unread \in Store!Nets
         /\ \A e \in Storages : [outputs |-> e.outputs, size |-> Capped(e.size)] \in Store!Nets
<1>1. MaxElements \in Nat /\ MaxSize \in Nat /\ Functions # {}
  BY SessionAssumption DEF Functions
<1>2. \A n \in Nat : Capped(n) \in 0..MaxSize
  BY <1>1 DEF Capped
<1>3. ASSUME NEW e \in Storages PROVE [outputs |-> e.outputs, size |-> Capped(e.size)] \in Store!Nets
  BY <1>2, StorageFacts DEF Store!Nets
<1>4. Unread \in Store!Nets
  BY <1>1 DEF Unread, Store!Nets
<1>5. Len(heap) \in 0..MaxElements /\ heap \in Seq(Storages)
  <2>1. heap \in Seq(Storages) /\ Len(heap) <= Len(aigs) /\ Len(aigs) <= MaxElements
        /\ aigs \in Seq([handle: Nat, origin: Functions])
    BY DEF StoreInv
  <2>2. Len(heap) \in Nat /\ Len(aigs) \in Nat
    BY <2>1
  <2> QED BY <1>1, <2>1, <2>2
<1>6. ASSUME NEW h \in 1..MaxElements PROVE storage[h] \in Store!Nets
  <2>1. CASE h <= Len(heap)
    <3>1. h \in 1..Len(heap)
      BY <1>1, <1>5, <2>1
    <3>2. heap[h] \in Storages
      BY <1>5, <3>1, ElementOfSeq
    <3>3. storage[h] = [outputs |-> heap[h].outputs, size |-> Capped(heap[h].size)]
      BY <2>1 DEF storage
    <3> QED BY <1>3, <3>2, <3>3
  <2>2. CASE ~ (h <= Len(heap))
    BY <1>4, <2>2 DEF storage
  <2> QED BY <2>1, <2>2
<1>7. ASSUME NEW h \in 1..Len(heap)
      PROVE  storage[h].outputs = heap[h].outputs /\ storage[h].size = Capped(heap[h].size)
  <2>1. h \in 1..MaxElements /\ h <= Len(heap)
    BY <1>1, <1>5
  <2> QED BY <2>1 DEF storage
<1>8. storage = [h \in 1..MaxElements |-> storage[h]]
  BY DEF storage
<1> QED BY <1>3, <1>4, <1>5, <1>6, <1>7, <1>8

\* Adding a network is adding an element over a fresh storage.
LEMMA AddSeen ==
  ASSUME StoreInv, aigs # <<>>, Len(aigs) < MaxElements,
         NEW net, IsNetwork(net), Outputs(net) = Outputs(Aig), Add(net),
         NEW h, h = Len(heap) + 1, NEW seen, seen = [outputs |-> Outputs(net), size |-> Capped(costs(net))]
  PROVE  /\ h \in 1..MaxElements /\ seen \in Store!Nets /\ ~ Store!Empty
         /\ Store!Fresh(h)
         /\ storage' = [storage EXCEPT ![h] = seen]
         /\ Store!Extend(Store!Derived(h))
         /\ Store!Aig.outputs = Outputs(Aig) /\ Store!Aig.size = Capped(costs(Aig))
<1>1. heap' = Append(heap, Stored(net))
      /\ aigs' = Append(aigs, [handle |-> Len(heap) + 1, origin |-> Last(aigs).origin])
  BY DEF Add
<1>2. /\ Len(aigs) \in 1..MaxElements /\ Len(heap) \in Nat /\ MaxElements \in Nat
      /\ aigs[Len(aigs)].handle \in 1..Len(heap)
      /\ heap[aigs[Len(aigs)].handle].outputs = Outputs(Aig)
      /\ heap[aigs[Len(aigs)].handle].size = costs(Aig)
      /\ Last(aigs) = aigs[Len(aigs)] /\ Outputs(Aig) \in Functions
  BY AigFacts, SessionAssumption
<1>3. heap \in Seq(Storages) /\ Len(heap) <= Len(aigs) /\ aigs \in Seq([handle: Nat, origin: Functions])
      /\ \A i \in 1..Len(aigs) : aigs[i].handle \in 1..Len(heap)
  BY DEF StoreInv
<1>4. h \in 1..MaxElements
  BY <1>2, <1>3
<1>5. Stored(net) \in Storages /\ Stored(net).outputs = Outputs(net) /\ Stored(net).size = costs(net)
  BY <1>2, StorageFacts DEF Stored
<1>6. seen \in Store!Nets
  BY <1>5, SeenFacts
<1>7. Store!Fresh(h)
  <2>1. DOMAIN aigs = 1..Len(aigs)
    BY <1>3
  <2>2. \A i \in DOMAIN aigs : aigs[i].handle # h
    BY <1>2, <1>3, <2>1
  <2> QED BY <1>4, <2>2 DEF Store!Fresh
<1>8. /\ Len(heap') = h /\ heap'[h] = Stored(net)
      /\ \A i \in 1..Len(heap) : heap'[i] = heap[i]
  BY <1>1, <1>2, <1>3, <1>5
<1>9. storage' = [storage EXCEPT ![h] = seen]
  <2>1. ASSUME NEW i \in 1..MaxElements PROVE storage'[i] = [storage EXCEPT ![h] = seen][i]
    <3>0. /\ storage[i] = IF i <= Len(heap) THEN [outputs |-> heap[i].outputs, size |-> Capped(heap[i].size)]
                          ELSE Unread
          /\ storage'[i] = IF i <= Len(heap') THEN [outputs |-> heap'[i].outputs, size |-> Capped(heap'[i].size)]
                           ELSE Unread
          /\ i \in DOMAIN storage
      BY DEF storage, Capped, Unread, Functions
    <3>1. CASE i = h
      BY <1>2, <1>5, <1>8, <3>0, <3>1
    <3>2. CASE i # h
      <4>1. i <= Len(heap') <=> i <= Len(heap)
        BY <1>2, <1>8, <3>2
      <4>2. i <= Len(heap) => heap'[i] = heap[i]
        BY <1>2, <1>8
      <4> QED BY <3>0, <3>2, <4>1, <4>2
    <3> QED BY <3>1, <3>2
  <2>2. storage' = [i \in 1..MaxElements |-> storage'[i]]
    BY DEF storage
  <2>3. [storage EXCEPT ![h] = seen] = [i \in 1..MaxElements |-> [storage EXCEPT ![h] = seen][i]]
    BY DEF storage
  <2> HIDE DEF storage
  <2> QED BY <2>1, <2>2, <2>3
<1>10. Store!Extend(Store!Derived(h))
  <2> DEFINE e == [handle |-> h, origin |-> aigs[Len(aigs)].origin]
  <2>1. aigs' = Append(aigs, e)
    BY <1>1, <1>2
  <2>2. e \in [handle: Nat, origin: Functions]
    BY <1>2, AigFacts
  <2> HIDE DEF e
  <2>3. Len(aigs') = Len(aigs) + 1
    BY <1>3, <2>1, <2>2
  <2> QED BY <2>1, <2>3 DEF Store!Extend, Store!Derived, e
<1>11. ~ Store!Empty
  BY DEF Store!Empty
<1>12. Store!Aig.outputs = Outputs(Aig) /\ Store!Aig.size = Capped(costs(Aig))
  BY <1>2, SeenFacts DEF Store!Aig
<1> QED BY <1>4, <1>6, <1>7, <1>9, <1>10, <1>11, <1>12

\* The passes, run step by step, do what AigStore says of the commands: each adds one
\* element, over a storage of its own that nothing refers to, with the functions of the
\* current network; rewriting adds none that is larger.
THEOREM SessionImplementsStore == SessionSpec => ImplementsStore
<1>1. SessionInit => Store!Init
  <2> SUFFICES ASSUME SessionInit PROVE Store!Init
    OBVIOUS
  <2>1. heap = <<>> /\ aigs = <<>> /\ Len(aigs) = 0
    BY DEF SessionInit
  <2>2. StoreInv
    BY <2>1, SessionAssumption DEF StoreInv
  <2>3. storage \in [1..MaxElements -> Store!Nets] /\ Unread \in Store!Nets
    BY <2>2, SeenFacts
  <2>4. Unread.outputs \in Functions
    BY <2>3 DEF Store!Nets
  <2> QED BY <2>1, <2>3, <2>4 DEF Store!Init
<1>2. SessionInv /\ [SessionNext]_sessionVars => [UNCHANGED storeVars \/ Store!Next]_(Store!storeVars)
  <2> SUFFICES ASSUME SessionInv, [SessionNext]_sessionVars
               PROVE  UNCHANGED storeVars \/ Store!Next
    OBVIOUS
  <2>1. CASE Read
    <3>1. PICK net \in Networks :
            /\ heap' = <<Stored(net)>> /\ aigs' = <<[handle |-> 1, origin |-> Outputs(net)]>> /\ aigs = <<>>
      BY <2>1 DEF Read
    <3> DEFINE seen == [outputs |-> Outputs(net), size |-> Capped(costs(net))]
               e == [handle |-> 1, origin |-> Outputs(net)]
    <3>2. heap = <<>> /\ Len(heap) = 0 /\ Len(aigs) = 0 /\ StoreInv /\ 1 \in 1..MaxElements /\ 0 < MaxElements
      <4>1. StoreInv /\ heap \in Seq(Storages) /\ Len(heap) <= Len(aigs)
        BY DEF SessionInv, StoreInv
      <4>2. Len(aigs) = 0
        BY <3>1
      <4>3. Len(heap) = 0
        BY <4>1, <4>2
      <4>4. heap = <<>>
        BY <4>1, <4>3
      <4>5. 1 \in 1..MaxElements /\ 0 < MaxElements
        BY SessionAssumption
      <4> QED BY <4>1, <4>2, <4>3, <4>4, <4>5
    <3>3. Stored(net) \in Storages /\ Stored(net).outputs = Outputs(net) /\ Stored(net).size = costs(net)
      BY NetworksFacts DEF Stored
    <3>4. seen \in Store!Nets
      BY <3>2, <3>3, SeenFacts
    <3>5. Store!Fresh(1)
      BY <3>1, <3>2 DEF Store!Fresh
    <3>6. storage' = [storage EXCEPT ![1] = seen]
      <4>1. Len(heap') = 1 /\ heap'[1] = Stored(net)
        BY <3>1
      <4>2. ASSUME NEW i \in 1..MaxElements PROVE storage'[i] = [storage EXCEPT ![1] = seen][i]
        <5>1. /\ storage[i] = IF i <= Len(heap) THEN [outputs |-> heap[i].outputs, size |-> Capped(heap[i].size)]
                              ELSE Unread
              /\ storage'[i] = IF i <= Len(heap')
                               THEN [outputs |-> heap'[i].outputs, size |-> Capped(heap'[i].size)]
                               ELSE Unread
              /\ i \in DOMAIN storage
          BY DEF storage, Capped, Unread, Functions
        <5>2. CASE i = 1
          BY <3>3, <4>1, <5>1, <5>2
        <5>3. CASE i # 1
          BY <3>2, <4>1, <5>1, <5>3
        <5> QED BY <5>2, <5>3
      <4>3. storage' = [i \in 1..MaxElements |-> storage'[i]]
        BY DEF storage
      <4>4. [storage EXCEPT ![1] = seen] = [i \in 1..MaxElements |-> [storage EXCEPT ![1] = seen][i]]
        BY DEF storage
      <4> HIDE DEF storage, seen
      <4> QED BY <4>2, <4>3, <4>4
    <3>7. Store!Extend(e)
      BY <3>1, <3>2 DEF Store!Extend
    <3>8. Store!ElementRead(seen, 1, TRUE) = e
      BY DEF Store!ElementRead
    <3> HIDE DEF seen, e
    <3>9. Store!ReadInto(Store!ElementRead(seen, 1, TRUE), TRUE)
      BY <3>7, <3>8 DEF Store!ReadInto
    <3>10. UNCHANGED <<FALSE, [outputs |-> Unread.outputs, origin |-> <<>>]>>
      BY DEF Unread, Functions
    <3>11. Store!ReadAig
      <4>1. TRUE \in BOOLEAN
        OBVIOUS
      <4> QED BY <3>2, <3>4, <3>5, <3>6, <3>9, <3>10, <4>1 DEF Store!ReadAig
    <3> QED BY <3>11 DEF Store!Next
  <2>2. CASE StartRewrite \/ StartBalance
    BY <2>2, StartInv
  <2>3. CASE StepRewrite \/ StepBalance
    BY <2>3, StepInv
  <2>4. CASE EndRewrite \/ EndBalance
    <3> DEFINE h == Len(heap) + 1
               seen == [outputs |-> Outputs(ntk'), size |-> Capped(costs(ntk'))]
    <3>1. /\ StoreInv /\ aigs # <<>> /\ Len(aigs) < MaxElements /\ ntk = Aig
          /\ Add(ntk') /\ IsNetwork(ntk') /\ Outputs(ntk') = Outputs(Aig)
          /\ EndRewrite => costs(ntk') <= costs(Aig)
      BY <2>4, EndInv DEF SessionInv
    <3>2. /\ h \in 1..MaxElements /\ seen \in Store!Nets /\ ~ Store!Empty
          /\ Store!Fresh(h)
          /\ storage' = [storage EXCEPT ![h] = seen]
          /\ Store!Extend(Store!Derived(h))
          /\ Store!Aig.outputs = Outputs(Aig) /\ Store!Aig.size = Capped(costs(Aig))
      BY <3>1, AddSeen
    <3>3. seen.outputs = Outputs(Aig) /\ seen.size = Capped(costs(ntk'))
      BY <3>1
    <3>4. UNCHANGED <<FALSE, [outputs |-> Unread.outputs, origin |-> <<>>]>>
      BY DEF Unread, Functions
    <3>5. EndRewrite => seen.size <= Store!Aig.size
      <4>1. costs(ntk') \in Nat /\ costs(Aig) \in Nat
        <5>1. IsNetwork(Aig)
          BY <3>1, AigFacts
        <5> QED BY <3>1, <5>1, NetworkFacts DEF costs
      <4>2. MaxSize \in Nat
        BY SessionAssumption
      <4>3. \A m, n \in Nat : m <= n => Capped(m) <= Capped(n)
        BY <4>2 DEF Capped
      <4> QED BY <3>1, <3>2, <3>3, <4>1, <4>3
    <3> HIDE DEF h, seen
    <3>6. CASE EndRewrite
      <4>1. Store!Rewrite
        BY <3>2, <3>3, <3>4, <3>5, <3>6 DEF Store!Rewrite
      <4> QED BY <4>1 DEF Store!Next
    <3>7. CASE EndBalance
      <4>1. Store!Balance
        BY <3>2, <3>3, <3>4 DEF Store!Balance
      <4> QED BY <4>1 DEF Store!Next
    <3> QED BY <2>4, <3>6, <3>7
  <2>5. CASE Resub
    <3>1. /\ aigs' = Append(aigs, Last(aigs)) /\ heap' = heap /\ aigs # <<>> /\ Len(aigs) < MaxElements
      BY <2>5 DEF Resub, Ready
    <3>2. Last(aigs) = aigs[Len(aigs)] /\ storage' = storage
      BY <3>1 DEF Last, storage, Capped, Unread, Functions
    <3>3. Len(aigs') = Len(aigs) + 1
      <4> DEFINE Elements == [handle: Nat, origin: Functions]
      <4>1. aigs \in Seq(Elements)
        BY DEF SessionInv, StoreInv
      <4> HIDE DEF Elements
      <4>2. Len(aigs) \in 1..Len(aigs)
        BY <3>1, <4>1
      <4>3. Last(aigs) \in Elements
        BY <3>2, <4>1, <4>2, ElementOfSeq
      <4> QED BY <3>1, <4>1, <4>3
    <3>4. UNCHANGED <<FALSE, [outputs |-> Unread.outputs, origin |-> <<>>]>>
      BY DEF Unread, Functions
    <3>5. Store!Extend(aigs[Len(aigs)])
      BY <3>1, <3>2, <3>3 DEF Store!Extend
    <3>6. Store!Resub
      BY <3>1, <3>2, <3>4, <3>5 DEF Store!Resub, Store!Empty
    <3> QED BY <3>6 DEF Store!Next
  <2>6. CASE UNCHANGED sessionVars
    BY <2>6 DEF sessionVars, storeVars
  <2> QED BY <2>1, <2>2, <2>3, <2>4, <2>5, <2>6 DEF SessionNext, storeVars
<1> QED BY SessionInvariant, <1>1, <1>2, PTL DEF SessionSpec, ImplementsStore
=============================================================================
