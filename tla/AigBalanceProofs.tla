--------------------------- MODULE AigBalanceProofs ---------------------------
(***************************************************************************)
(* Balancing: sums of products that compute the functions they are made    *)
(* for, levels that are real, and a pass whose networks have the outputs   *)
(* of those it took and are no deeper.                                     *)
(***************************************************************************)
EXTENDS AigBalance, AigProofs, SequenceTheorems

-----------------------------------------------------------------------------
(* Trees.                                                                  *)

LEMMA RemoveFacts ==
  ASSUME NEW S, NEW q \in Seq(S), NEW i \in 1..Len(q), NEW r, r = RemoveAt(q, i)
  PROVE  /\ r \in Seq(S) /\ Len(r) = Len(q) - 1
         /\ \A j \in 1..Len(r) : r[j] = q[IF j < i THEN j ELSE j + 1]
<1> DEFINE u == SubSeq(q, 1, i - 1)
           v == SubSeq(q, i + 1, Len(q))
<1>1. Len(q) \in Nat /\ \A j \in 1..Len(q) : q[j] \in S
  OBVIOUS
<1>2. u \in Seq(S) /\ Len(u) = i - 1 /\ \A j \in 1..(i - 1) : u[j] = q[j]
  OBVIOUS
<1>3. v \in Seq(S) /\ Len(v) = Len(q) - i /\ \A j \in 1..(Len(q) - i) : v[j] = q[i + j]
  OBVIOUS
<1>4. r = u \o v
  BY DEF RemoveAt
<1> HIDE DEF u, v
<1>5. r \in Seq(S) /\ Len(r) = Len(q) - 1
  BY <1>1, <1>2, <1>3, <1>4
<1>6. \A j \in 1..Len(r) : r[j] = IF j <= Len(u) THEN u[j] ELSE v[j - Len(u)]
  BY <1>2, <1>3, <1>4
<1> QED BY <1>1, <1>2, <1>3, <1>5, <1>6

\* A signal of a network with a level that it does not exceed.
Timed(net) == {p \in [f: SignalsOf(net), level: Nat] : Depth(net, p.f.index) <= p.level}

LEMMA TopFacts ==
  ASSUME NEW net, NEW q \in Seq(Timed(net)), Len(q) # 0
  PROVE  /\ Top(q) \in 1..Len(q)
         /\ \A j \in 1..Len(q) : q[Top(q)].level <= q[j].level
<1>1. Len(q) \in Nat /\ DOMAIN q = 1..Len(q) /\ \A j \in 1..Len(q) : q[j].level \in Nat
  <2>1. \A p \in Timed(net) : p.level \in Nat
    BY DEF Timed
  <2> HIDE DEF Timed
  <2> QED BY <2>1
<1> DEFINE A == {q[j].level : j \in 1..Len(q)}
<1>2. A \in SUBSET Nat /\ A # {}
  BY <1>1
<1>3. PICK m \in A : \A b \in A : m <= b
  BY <1>2, LeastMember
<1>4. PICK i \in 1..Len(q) : q[i].level = m
  BY <1>3
<1>5. \A j \in DOMAIN q : ~ Earlier(q[j], q[i])
  <2>1. \A j \in 1..Len(q) : m <= q[j].level /\ m \in Nat
    BY <1>2, <1>3
  <2> HIDE DEF A
  <2> QED BY <1>1, <1>4, <2>1 DEF Earlier
<1>6. Top(q) \in DOMAIN q /\ \A j \in DOMAIN q : ~ Earlier(q[j], q[Top(q)])
  BY <1>1, <1>5 DEF Top
<1> QED BY <1>1, <1>6 DEF Earlier

\* A queue in a network: its signals together, or one of them, are on.
Meets(net, a, q, and) ==
    IF and THEN \A i \in DOMAIN q : On(net, a, q[i].f) ELSE \E i \in DOMAIN q : On(net, a, q[i].f)

LEMMA OrCorrect ==
  ASSUME NEW net, IsNetwork(net), NEW f \in SignalsOf(net), NEW g \in SignalsOf(net),
         NEW new, new = create_or(net, f, g)
  PROVE  /\ Grows(net, new.net) /\ new.f \in SignalsOf(new.net)
         /\ \A a : On(new.net, a, new.f) <=> On(net, a, f) \/ On(net, a, g)
         /\ Depth(new.net, new.f.index) <= Over(Depth(net, f.index), Depth(net, g.index))
<1> DEFINE conj == create_and(net, create_not(f), create_not(g))
<1>1. /\ create_not(f) \in SignalsOf(net) /\ create_not(g) \in SignalsOf(net)
      /\ \A a : /\ On(net, a, create_not(f)) <=> ~ On(net, a, f)
                /\ On(net, a, create_not(g)) <=> ~ On(net, a, g)
  BY SignalValues
<1>2. /\ Grows(net, conj.net) /\ conj.f \in SignalsOf(conj.net)
      /\ \A a : On(conj.net, a, conj.f) <=> On(net, a, create_not(f)) /\ On(net, a, create_not(g))
  BY <1>1, AndCorrect
<1>5. Depth(conj.net, conj.f.index) <= Over(Depth(net, create_not(f).index), Depth(net, create_not(g).index))
  BY <1>1, AndDepth
<1>3. IsNetwork(conj.net) /\ new.net = conj.net /\ new.f = create_not(conj.f)
  BY <1>2 DEF create_or, Grows
<1> HIDE DEF conj
<1>6. /\ create_not(f).index = f.index /\ create_not(g).index = g.index
      /\ create_not(conj.f).index = conj.f.index
  BY <1>2, SignalFacts DEF SignalsOf
<1>4. /\ create_not(conj.f) \in SignalsOf(conj.net)
      /\ \A a : On(conj.net, a, create_not(conj.f)) <=> ~ On(conj.net, a, conj.f)
  BY <1>2, <1>3, SignalValues
<1> QED BY <1>1, <1>2, <1>3, <1>4, <1>5, <1>6

\* A queue means the same while its network grows.
LEMMA MeetsGrows ==
  ASSUME NEW net, IsNetwork(net), NEW big, Grows(net, big), NEW q \in Seq(Timed(net)),
         NEW and \in BOOLEAN
  PROVE  /\ Timed(net) \subseteq Timed(big) /\ q \in Seq(Timed(big))
         /\ \A a : Meets(big, a, q, and) <=> Meets(net, a, q, and)
<1>1. SignalsOf(net) \subseteq SignalsOf(big)
  BY GrowsFacts
<1>2. Timed(net) \subseteq Timed(big)
  <2>1. \A n \in Nodes(net) : Depth(big, n) = Depth(net, n)
    BY GrowsDepth
  <2> QED BY <1>1, <2>1 DEF Timed, SignalsOf
<1>3. \A i \in DOMAIN q : q[i].f \in SignalsOf(net)
  <2>1. \A p \in Timed(net) : p.f \in SignalsOf(net)
    BY DEF Timed
  <2> HIDE DEF Timed
  <2> QED BY <2>1
<1>4. \A a : \A i \in DOMAIN q : On(big, a, q[i].f) = On(net, a, q[i].f)
  BY <1>3, GrowsKeeps
<1>5. q \in Seq(Timed(big))
  <2> HIDE DEF Timed
  <2> QED BY <1>2
<1> QED BY <1>2, <1>4, <1>5 DEF Meets

\* A queue without one of its signals.
LEMMA MeetsRemoved ==
  ASSUME NEW net, IsNetwork(net), NEW q \in Seq(Timed(net)), NEW i \in 1..Len(q), NEW and \in BOOLEAN, NEW a
  PROVE  /\ and => (Meets(net, a, q, and) <=>
                      On(net, a, q[i].f) /\ Meets(net, a, RemoveAt(q, i), and))
         /\ ~ and => (Meets(net, a, q, and) <=>
                        On(net, a, q[i].f) \/ Meets(net, a, RemoveAt(q, i), and))
<1> DEFINE r == RemoveAt(q, i)
<1>1. /\ r \in Seq(Timed(net)) /\ Len(r) = Len(q) - 1 /\ Len(q) \in Nat
      /\ \A j \in 1..Len(r) : r[j] = q[IF j < i THEN j ELSE j + 1]
  BY RemoveFacts
<1>2. DOMAIN q = 1..Len(q) /\ DOMAIN r = 1..Len(r)
  BY <1>1
<1> HIDE DEF r
<1>3. \A j \in DOMAIN r : (IF j < i THEN j ELSE j + 1) \in DOMAIN q
  BY <1>1, <1>2
<1>4. \A k \in DOMAIN q : k = i \/ \E j \in DOMAIN r : r[j] = q[k]
  <2> TAKE k \in DOMAIN q
  <2>1. CASE k < i
    <3>1. k \in DOMAIN r /\ r[k] = q[k]
      BY <1>1, <1>2, <2>1
    <3> QED BY <3>1
  <2>2. CASE k > i
    <3>1. k - 1 \in DOMAIN r /\ ~ (k - 1 < i) /\ (k - 1) + 1 = k
      BY <1>1, <1>2, <2>2
    <3>2. r[k - 1] = q[k]
      BY <1>1, <1>2, <3>1
    <3> QED BY <3>1, <3>2
  <2> QED BY <1>2, <2>1, <2>2
<1>5. \A j \in DOMAIN r : \E k \in DOMAIN q : r[j] = q[k]
  BY <1>1, <1>2, <1>3
<1>6. i \in DOMAIN q
  BY <1>2
<1> QED BY <1>4, <1>5, <1>6 DEF Meets, r

\* A queue with one more.
LEMMA MeetsAppended ==
  ASSUME NEW net, IsNetwork(net), NEW q \in Seq(Timed(net)), NEW p \in Timed(net),
         NEW and \in BOOLEAN, NEW a
  PROVE  /\ Append(q, p) \in Seq(Timed(net)) /\ Len(Append(q, p)) = Len(q) + 1
         /\ and => (Meets(net, a, Append(q, p), and) <=> Meets(net, a, q, and) /\ On(net, a, p.f))
         /\ ~ and => (Meets(net, a, Append(q, p), and) <=> Meets(net, a, q, and) \/ On(net, a, p.f))
<1> DEFINE r == Append(q, p)
<1> HIDE DEF Timed
<1>1. /\ r \in Seq(Timed(net)) /\ Len(r) = Len(q) + 1 /\ Len(q) \in Nat
      /\ r[Len(q) + 1] = p /\ \A j \in 1..Len(q) : r[j] = q[j]
  OBVIOUS
<1>2. DOMAIN q = 1..Len(q) /\ DOMAIN r = 1..(Len(q) + 1)
  BY <1>1
<1> HIDE DEF r
<1>3. \A j \in DOMAIN r : j \in DOMAIN q \/ j = Len(q) + 1
  BY <1>1, <1>2
<1>4. (Len(q) + 1) \in DOMAIN r /\ \A j \in DOMAIN q : j \in DOMAIN r /\ r[j] = q[j]
  BY <1>1, <1>2
<1> QED BY <1>1, <1>3, <1>4 DEF Meets, r

\* A tree under way: its queue means what the first one did.
TreeOf(net, queue, and, acc) ==
    /\ Grows(net, acc.net) /\ acc.queue \in Seq(Timed(acc.net))
    /\ \A a : Meets(acc.net, a, acc.queue, and) <=> Meets(net, a, queue, and)

LEMMA JoinCorrect ==
  ASSUME NEW acc, IsNetwork(acc.net), acc.queue \in Seq(Timed(acc.net)), Len(acc.queue) >= 2,
         NEW and \in BOOLEAN, NEW new, new = Join(acc, and)
  PROVE  TreeOf(acc.net, acc.queue, and, new) /\ Len(new.queue) = Len(acc.queue) - 1
<1> DEFINE net == acc.net
           q == acc.queue
           i == Top(q)
           others == RemoveAt(q, i)
           j == Top(others)
           rest == RemoveAt(others, j)
           s == q[i]
           t == others[j]
           made == IF and THEN create_and(net, s.f, t.f) ELSE create_or(net, s.f, t.f)
           p == [f |-> made.f, level |-> JoinLevel(s, t)]
<1>1. new = [net |-> made.net, queue |-> Append(rest, p)]
  BY DEF Join
<1>2. IsNetwork(net) /\ q \in Seq(Timed(net)) /\ Len(q) >= 2 /\ Len(q) \in Nat
  OBVIOUS
<1> HIDE DEF net, q, p
<1>3. i \in 1..Len(q)
  BY <1>2, TopFacts
<1> HIDE DEF i
<1>4. others \in Seq(Timed(net)) /\ Len(others) = Len(q) - 1
  BY <1>2, <1>3, RemoveFacts
<1> HIDE DEF others
<1>5. j \in 1..Len(others)
  BY <1>2, <1>4, TopFacts
<1> HIDE DEF j
<1>6. rest \in Seq(Timed(net)) /\ Len(rest) = Len(others) - 1
  BY <1>4, <1>5, RemoveFacts
<1> HIDE DEF rest
<1>7. s \in Timed(net) /\ t \in Timed(net)
  BY <1>2, <1>3, <1>4, <1>5
<1> HIDE DEF s, t
<1>8. /\ s.f \in SignalsOf(net) /\ t.f \in SignalsOf(net) /\ s.level \in Nat /\ t.level \in Nat
      /\ Depth(net, s.f.index) <= s.level /\ Depth(net, t.f.index) <= t.level
  BY <1>7 DEF Timed
<1>9. /\ Grows(net, made.net) /\ made.f \in SignalsOf(made.net)
      /\ \A a : On(made.net, a, made.f) <=> IF and THEN On(net, a, s.f) /\ On(net, a, t.f)
                                            ELSE On(net, a, s.f) \/ On(net, a, t.f)
      /\ Depth(made.net, made.f.index) <= Over(Depth(net, s.f.index), Depth(net, t.f.index))
  <2>1. CASE and
    <3>1. made = create_and(net, s.f, t.f)
      BY <2>1
    <3> HIDE DEF made
    <3>2. /\ Grows(net, made.net) /\ made.f \in SignalsOf(made.net)
          /\ \A a : On(made.net, a, made.f) <=> On(net, a, s.f) /\ On(net, a, t.f)
      BY <1>2, <1>8, <3>1, AndCorrect
    <3>3. Depth(made.net, made.f.index) <= Over(Depth(net, s.f.index), Depth(net, t.f.index))
      BY <1>2, <1>8, <3>1, AndDepth
    <3> QED BY <2>1, <3>2, <3>3
  <2>2. CASE ~ and
    <3>1. made = create_or(net, s.f, t.f)
      BY <2>2
    <3> HIDE DEF made
    <3> QED BY <1>2, <1>8, <2>2, <3>1, OrCorrect
  <2> QED BY <2>1, <2>2
<1> HIDE DEF made
<1>10. p \in Timed(made.net) /\ p.f = made.f
  <2>1. JoinLevel(s, t) \in Nat
    BY <1>8 DEF JoinLevel, Earlier
  <2>2. Depth(made.net, made.f.index) <= JoinLevel(s, t)
    <3> DEFINE d == Depth(made.net, made.f.index)
               b == Depth(net, s.f.index)
               c == Depth(net, t.f.index)
    <3>1. d \in Nat /\ b \in Nat /\ c \in Nat
      <4>1. IsNetwork(made.net) /\ made.f.index \in Nodes(made.net)
        BY <1>9 DEF Grows, SignalsOf
      <4>2. s.f.index \in Nodes(net) /\ t.f.index \in Nodes(net)
        BY <1>8 DEF SignalsOf
      <4>3. d \in Nat
        BY <4>1, DepthEquation
      <4>4. b \in Nat /\ c \in Nat
        BY <1>2, <4>2, DepthEquation
      <4> QED BY <4>3, <4>4
    <3>2. d <= Over(b, c) /\ b <= s.level /\ c <= t.level
      BY <1>8, <1>9
    <3> HIDE DEF b, c, d
    <3>3. d <= JoinLevel(s, t)
      BY <1>8, <3>1, <3>2 DEF Over, JoinLevel, Earlier
    <3> QED BY <3>3 DEF d
  <2> QED BY <1>9, <2>1, <2>2 DEF Timed, p
<1>11. IsNetwork(made.net)
  BY <1>9 DEF Grows
<1>12. rest \in Seq(Timed(made.net)) /\ \A a : Meets(made.net, a, rest, and) <=> Meets(net, a, rest, and)
  BY <1>2, <1>6, <1>9, MeetsGrows
<1>13. Append(rest, p) \in Seq(Timed(made.net)) /\ Len(Append(rest, p)) = Len(rest) + 1
  BY <1>10, <1>11, <1>12, MeetsAppended
<1>14. ASSUME NEW a PROVE Meets(made.net, a, Append(rest, p), and) <=> Meets(net, a, q, and)
  <2>1. /\ and => (Meets(made.net, a, Append(rest, p), and)
                     <=> Meets(made.net, a, rest, and) /\ On(made.net, a, p.f))
        /\ ~ and => (Meets(made.net, a, Append(rest, p), and)
                     <=> Meets(made.net, a, rest, and) \/ On(made.net, a, p.f))
    BY <1>10, <1>11, <1>12, MeetsAppended
  <2>2. /\ and => (Meets(net, a, q, and) <=> On(net, a, s.f) /\ Meets(net, a, others, and))
        /\ ~ and => (Meets(net, a, q, and) <=> On(net, a, s.f) \/ Meets(net, a, others, and))
    BY <1>2, <1>3, MeetsRemoved DEF s, others
  <2>3. /\ and => (Meets(net, a, others, and) <=> On(net, a, t.f) /\ Meets(net, a, rest, and))
        /\ ~ and => (Meets(net, a, others, and) <=> On(net, a, t.f) \/ Meets(net, a, rest, and))
    BY <1>2, <1>4, <1>5, MeetsRemoved DEF t, rest
  <2>4. Meets(made.net, a, rest, and) <=> Meets(net, a, rest, and)
    BY <1>12
  <2>5. On(made.net, a, p.f) <=> IF and THEN On(net, a, s.f) /\ On(net, a, t.f)
                                 ELSE On(net, a, s.f) \/ On(net, a, t.f)
    BY <1>9, <1>10
  <2> QED BY <2>1, <2>2, <2>3, <2>4, <2>5
<1>15. Len(new.queue) = Len(q) - 1
  BY <1>1, <1>2, <1>4, <1>6, <1>13
<1>16. TreeOf(net, q, and, new)
  BY <1>1, <1>9, <1>13, <1>14 DEF TreeOf
<1> QED BY <1>15, <1>16 DEF net, q

LEMMA JoinsEquation ==
  ASSUME NEW net, NEW queue, Len(queue) \in Nat, NEW and
  PROVE  LET U == Joins(net, queue, and)
         IN  /\ U[0] = [net |-> net, queue |-> queue]
             /\ \A k \in 1..Len(queue) : U[k] = Join(U[k - 1], and)
<1> DEFINE At(U, k) == IF k = 0 THEN [net |-> net, queue |-> queue] ELSE Join(U[k - 1], and)
<1> DEFINE Sound(m, U) == U = [k \in 0..m |-> At(U, k)]
<1>1. \A U, W, k : (k # 0 => U[k - 1] = W[k - 1]) => At(U, k) = At(W, k)
  OBVIOUS
<1> HIDE DEF At
<1>2. ASSUME NEW m \in Nat, m # 0, NEW U, Sound(m - 1, U) PROVE \E W : Sound(m, W)
  <2> DEFINE W == [k \in 0..m |-> At(U, k)]
  <2>1. \A k \in 0..(m - 1) : U[k] = At(U, k)
    BY <1>2
  <2>2. \A k \in 0..m : k # 0 => U[k - 1] = W[k - 1]
    BY <1>2, <2>1
  <2>3. W = [k \in 0..m |-> At(U, k)]
    OBVIOUS
  <2> HIDE DEF W
  <2>4. \A k \in 0..m : At(U, k) = At(W, k)
    BY <1>1, <2>2
  <2>5. W = [k \in 0..m |-> At(W, k)]
    BY <2>3, <2>4
  <2> QED BY <2>5
<1>3. \E U : Sound(0, U)
  <2> DEFINE U == [k \in 0..0 |-> At(<<>>, k)]
  <2>1. U = [k \in 0..0 |-> At(<<>>, k)]
    OBVIOUS
  <2> HIDE DEF U
  <2>2. \A k \in 0..0 : At(<<>>, k) = At(U, k)
    BY <1>1
  <2>3. U = [k \in 0..0 |-> At(U, k)]
    BY <2>1, <2>2
  <2> QED BY <2>3
<1> HIDE DEF Sound
<1>4. \A m \in Nat : \E U : Sound(m, U)
  <2> DEFINE A == {m \in Nat : ~ \E U : Sound(m, U)}
  <2> SUFFICES ASSUME A # {} PROVE FALSE
    OBVIOUS
  <2>1. PICK m \in A : \A a \in A : m <= a
    BY LeastMember
  <2>2. m # 0 /\ m - 1 \in Nat /\ m - 1 \notin A
    BY <1>3, <2>1
  <2> QED BY <1>2, <2>1, <2>2
<1>5. Joins(net, queue, and) = CHOOSE U : Sound(Len(queue), U)
  BY Zenon DEF Joins, Sound, At
<1>6. Sound(Len(queue), Joins(net, queue, and))
  BY <1>4, <1>5
<1> DEFINE U == Joins(net, queue, and)
<1>7. \A k \in 0..Len(queue) : U[k] = At(U, k)
  BY <1>6 DEF Sound
<1>8. U[0] = At(U, 0) /\ \A k \in 1..Len(queue) : U[k] = At(U, k) /\ k # 0
  BY <1>7
<1> QED BY <1>8 DEF At

\* A tree is the and, or the or, of what is in the queue.
TreeIs(net, queue, and, tree) ==
    /\ Grows(net, tree.net) /\ tree.cand \in Timed(tree.net)
    /\ \A a : On(tree.net, a, tree.cand.f) <=> Meets(net, a, queue, and)

LEMMA TreeCorrect ==
  ASSUME NEW net, IsNetwork(net), NEW queue \in Seq(Timed(net)), NEW and \in BOOLEAN,
         and \/ queue # <<>>
  PROVE  TreeIs(net, queue, and, balanced_tree(net, queue, and))
<1> DEFINE U == Joins(net, queue, and)
           size == Len(queue)
<1> HIDE DEF Timed
<1>1. size \in Nat /\ (size = 0 <=> queue = <<>>)
  OBVIOUS
<1>2. U[0] = [net |-> net, queue |-> queue] /\ \A k \in 1..size : U[k] = Join(U[k - 1], and)
  BY <1>1, JoinsEquation
<1>3. CASE queue = <<>>
  <2> DEFINE T == create_not(get_constant)
  <2>1. balanced_tree(net, queue, and) = [net |-> net, cand |-> [f |-> T, level |-> 0]]
    BY <1>3 DEF balanced_tree
  <2>2. \A a : /\ get_constant \in SignalsOf(net) /\ ~ On(net, a, get_constant)
               /\ T \in SignalsOf(net)
               /\ On(net, a, T) <=> ~ On(net, a, get_constant)
    BY SignalValues
  <2>5. Depth(net, T.index) = 0
    <3>1. T.index = 0 /\ 0 \in 0..net.pis
      BY NetworkFacts DEF get_constant, create_not, Signal
    <3> HIDE DEF T
    <3> QED BY <3>1, DepthEquation
  <2> HIDE DEF T
  <2>3. [f |-> T, level |-> 0] \in Timed(net)
    <3> DEFINE r == [f |-> T, level |-> 0]
    <3>1. r \in [f: SignalsOf(net), level: Nat] /\ r.f = T /\ r.level = 0
      BY <2>2
    <3> HIDE DEF r
    <3>2. r \in Timed(net)
      BY <2>5, <3>1 DEF Timed
    <3> QED BY <3>2 DEF r
  <2>4. \A a : Meets(net, a, queue, and)
    BY <1>1, <1>3 DEF Meets
  <2> QED BY <2>1, <2>2, <2>3, <2>4, GrowsReflexive DEF TreeIs
<1>4. CASE queue # <<>>
  <2> DEFINE Good(k) == TreeOf(net, queue, and, U[k]) /\ Len(U[k].queue) = size - k
             A == {k \in 0..(size - 1) : ~ Good(k)}
  <2> HIDE DEF U
  <2>1. A = {}
    <3> SUFFICES ASSUME A # {} PROVE FALSE
      OBVIOUS
    <3>1. PICK k \in A : \A b \in A : k <= b
      <4>1. A \in SUBSET Nat
        BY <1>1
      <4> HIDE DEF A
      <4> QED BY <4>1, LeastMember
    <3>2. CASE k = 0
      <4>1. TreeOf(net, queue, and, U[0])
        BY <1>2, GrowsReflexive DEF TreeOf
      <4> QED BY <1>1, <1>2, <3>1, <3>2, <4>1
    <3>3. CASE k # 0
      <4>1. k - 1 \in 0..(size - 1) /\ k - 1 \notin A /\ k \in 1..size /\ k <= size - 1
        BY <1>1, <3>1, <3>3
      <4>2. TreeOf(net, queue, and, U[k - 1]) /\ Len(U[k - 1].queue) = size - (k - 1)
        BY <4>1
      <4>3. U[k] = Join(U[k - 1], and)
        BY <1>2, <4>1
      <4> DEFINE acc == U[k - 1]
      <4>4. IsNetwork(acc.net) /\ acc.queue \in Seq(Timed(acc.net)) /\ Len(acc.queue) >= 2
        BY <1>1, <4>1, <4>2 DEF TreeOf, Grows
      <4>5. TreeOf(acc.net, acc.queue, and, U[k]) /\ Len(U[k].queue) = Len(acc.queue) - 1
        <5> HIDE DEF acc
        <5>1. U[k] = Join(acc, and)
          BY <4>3 DEF acc
        <5> HIDE DEF size, Good, A
        <5> QED BY <4>4, <5>1, JoinCorrect
      <4>6. Grows(net, U[k].net)
        BY <4>2, <4>5, GrowsTransitive DEF TreeOf
      <4>7. TreeOf(net, queue, and, U[k])
        BY <4>2, <4>5, <4>6 DEF TreeOf
      <4> QED BY <1>1, <3>1, <4>1, <4>2, <4>5, <4>7
    <3> QED BY <3>2, <3>3
  <2>2. Good(size - 1)
    <3>1. size - 1 \in 0..(size - 1)
      BY <1>1, <1>4
    <3> QED BY <2>1, <3>1
  <2> DEFINE tree == U[size - 1]
  <2>3. balanced_tree(net, queue, and) = [net |-> tree.net, cand |-> tree.queue[1]]
    BY <1>4 DEF balanced_tree, U
  <2>4. TreeOf(net, queue, and, tree) /\ Len(tree.queue) = 1
    BY <1>1, <2>2
  <2> HIDE DEF tree
  <2>5. DOMAIN tree.queue = {1} /\ tree.queue[1] \in Timed(tree.net)
    BY <2>4 DEF TreeOf
  <2>6. \A a : On(tree.net, a, tree.queue[1].f) <=> Meets(tree.net, a, tree.queue, and)
    BY <2>5 DEF Meets
  <2> QED BY <2>3, <2>4, <2>5, <2>6 DEF TreeIs, TreeOf
<1> QED BY <1>3, <1>4

-----------------------------------------------------------------------------
(* Sums of products.                                                       *)

LEMMA IsopEquation ==
  ASSUME NEW leaves, Max(leaves) \in Nat
  PROVE  \A k \in 0..Max(leaves) : isop(leaves)[k] =
            [f \in Tables(leaves) \X Tables(leaves) |->
                isop_rec(leaves, isop(leaves)[k - 1], k, f[1], f[2])]
<1> DEFINE At(U, k) == [f \in Tables(leaves) \X Tables(leaves) |->
                           isop_rec(leaves, U[k - 1], k, f[1], f[2])]
<1>0. \A L, M, tt, dc : isop_rec(leaves, L, 0, tt, dc) = isop_rec(leaves, M, 0, tt, dc)
  <2> TAKE L, M, tt, dc
  <2>1. \A K : isop_rec(leaves, K, 0, tt, dc) =
           IF tt = {} THEN [cubes |-> <<>>, cover |-> tt] ELSE [cubes |-> << <<>> >>, cover |-> dc]
    BY DEF isop_rec
  <2> QED BY <2>1
<1> DEFINE Sound(m, U) == U = [k \in 0..m |-> At(U, k)]
<1>1. \A U, W, k : (k # 0 => U[k - 1] = W[k - 1]) => At(U, k) = At(W, k)
  <2> SUFFICES ASSUME NEW U, NEW W, NEW k, k # 0 => U[k - 1] = W[k - 1] PROVE At(U, k) = At(W, k)
    OBVIOUS
  <2>1. CASE k = 0
    BY <1>0, <2>1
  <2>2. CASE k # 0
    BY <2>2
  <2> QED BY <2>1, <2>2
<1> HIDE DEF At
<1>2. ASSUME NEW m \in Nat, m # 0, NEW U, Sound(m - 1, U) PROVE \E W : Sound(m, W)
  <2> DEFINE W == [k \in 0..m |-> At(U, k)]
  <2>1. \A k \in 0..(m - 1) : U[k] = At(U, k)
    BY <1>2
  <2>2. \A k \in 0..m : k # 0 => U[k - 1] = W[k - 1]
    BY <1>2, <2>1
  <2>3. W = [k \in 0..m |-> At(U, k)]
    OBVIOUS
  <2> HIDE DEF W
  <2>4. \A k \in 0..m : At(U, k) = At(W, k)
    BY <1>1, <2>2
  <2>5. W = [k \in 0..m |-> At(W, k)]
    BY <2>3, <2>4
  <2> QED BY <2>5
<1>3. \E U : Sound(0, U)
  <2> DEFINE U == [k \in 0..0 |-> At(<<>>, k)]
  <2>1. U = [k \in 0..0 |-> At(<<>>, k)]
    OBVIOUS
  <2> HIDE DEF U
  <2>2. \A k \in 0..0 : At(<<>>, k) = At(U, k)
    BY <1>1
  <2>3. U = [k \in 0..0 |-> At(U, k)]
    BY <2>1, <2>2
  <2> QED BY <2>3
<1> HIDE DEF Sound
<1>4. \A m \in Nat : \E U : Sound(m, U)
  <2> DEFINE A == {m \in Nat : ~ \E U : Sound(m, U)}
  <2> SUFFICES ASSUME A # {} PROVE FALSE
    OBVIOUS
  <2>1. PICK m \in A : \A a \in A : m <= a
    BY LeastMember
  <2>2. m # 0 /\ m - 1 \in Nat /\ m - 1 \notin A
    BY <1>3, <2>1
  <2> QED BY <1>2, <2>1, <2>2
<1>5. isop(leaves) = CHOOSE U : Sound(Max(leaves), U)
  BY Zenon DEF isop, Sound, At
<1>6. Sound(Max(leaves), isop(leaves))
  BY <1>4, <1>5
<1> DEFINE U == isop(leaves)
<1>7. \A k \in 0..Max(leaves) : isop(leaves)[k] = At(isop(leaves), k)
  BY <1>6 DEF Sound
<1> QED BY <1>7 DEF At

Literals(leaves) == {s \in Signals : s.index \in leaves}

Cubes(leaves) == Seq(Seq(Literals(leaves)))
\* An assignment makes a literal true, the literals of a cube, some cube.
Meant(a, lit) == IF lit.complement THEN lit.index \notin a ELSE lit.index \in a
Satisfies(a, cube) == \A j \in DOMAIN cube : Meant(a, cube[j])
Covers(cubes, a) == \E i \in DOMAIN cubes : Satisfies(a, cubes[i])

LEMMA LiteralFacts ==
  ASSUME NEW leaves \in SUBSET Nat, NEW var \in leaves
  PROVE  /\ Signal(var, TRUE) \in Literals(leaves) /\ Signal(var, FALSE) \in Literals(leaves)
         /\ \A a : /\ Meant(a, Signal(var, TRUE)) <=> var \notin a
                   /\ Meant(a, Signal(var, FALSE)) <=> var \in a
<1>1. /\ Signal(var, TRUE) \in Literals(leaves) /\ Signal(var, FALSE) \in Literals(leaves)
  BY DEF Literals, Signal, Signals
<1>2. \A a : Meant(a, Signal(var, TRUE)) <=> var \notin a
  BY DEF Meant, Signal
<1>3. \A a : Meant(a, Signal(var, FALSE)) <=> var \in a
  BY DEF Meant, Signal
<1> QED BY <1>1, <1>2, <1>3

LEMMA AddLiteralCorrect ==
  ASSUME NEW leaves, NEW cubes \in Cubes(leaves), NEW lit \in Literals(leaves)
  PROVE  /\ add_literal(cubes, lit) \in Cubes(leaves)
         /\ \A a : Covers(add_literal(cubes, lit), a) <=> Meant(a, lit) /\ Covers(cubes, a)
<1> DEFINE more == add_literal(cubes, lit)
<1>2. more = [i \in DOMAIN cubes |-> Append(cubes[i], lit)]
  BY DEF add_literal
<1> HIDE DEF more, Literals
<1>3. /\ DOMAIN cubes = 1..Len(cubes) /\ Len(cubes) \in Nat
      /\ \A i \in DOMAIN cubes : cubes[i] \in Seq(Literals(leaves))
  BY DEF Cubes
<1>4. \A i \in DOMAIN cubes : Append(cubes[i], lit) \in Seq(Literals(leaves))
  BY <1>3
<1>5. more \in Cubes(leaves)
  BY <1>2, <1>3, <1>4 DEF Cubes
<1>6. ASSUME NEW i \in DOMAIN cubes, NEW a
      PROVE  Satisfies(a, more[i]) <=> Meant(a, lit) /\ Satisfies(a, cubes[i])
  <2> DEFINE c == cubes[i]
             d == Append(c, lit)
  <2>1. c \in Seq(Literals(leaves)) /\ more[i] = d
    BY <1>2, <1>3
  <2> HIDE DEF c
  <2>2. /\ DOMAIN c = 1..Len(c) /\ Len(c) \in Nat /\ DOMAIN d = 1..(Len(c) + 1)
        /\ d[Len(c) + 1] = lit /\ \A j \in 1..Len(c) : d[j] = c[j]
    BY <2>1
  <2> HIDE DEF d
  <2>3. (Len(c) + 1) \in DOMAIN d /\ \A j \in DOMAIN d : j \in DOMAIN c \/ j = Len(c) + 1
    BY <2>2
  <2>4. \A j \in DOMAIN c : j \in DOMAIN d /\ d[j] = c[j]
    BY <2>2
  <2> QED BY <2>1, <2>2, <2>3, <2>4 DEF Satisfies, c
<1>7. DOMAIN more = DOMAIN cubes
  BY <1>2
<1> QED BY <1>5, <1>6, <1>7 DEF Covers, more

LEMMA CoversBoth ==
  ASSUME NEW leaves, NEW u \in Cubes(leaves), NEW v \in Cubes(leaves)
  PROVE  u \o v \in Cubes(leaves) /\ \A a : Covers(u \o v, a) <=> Covers(u, a) \/ Covers(v, a)
<1> DEFINE w == u \o v
           S == Seq(Literals(leaves))
<1>1. /\ w \in Cubes(leaves) /\ Len(u) \in Nat /\ Len(v) \in Nat
      /\ DOMAIN u = 1..Len(u) /\ DOMAIN v = 1..Len(v) /\ DOMAIN w = 1..(Len(u) + Len(v))
      /\ \A j \in DOMAIN w : w[j] = IF j <= Len(u) THEN u[j] ELSE v[j - Len(u)]
  <2>1. u \in Seq(S) /\ v \in Seq(S)
    BY DEF Cubes
  <2> HIDE DEF S
  <2>2. w \in Seq(S)
    BY <2>1
  <2>3. w \in Cubes(leaves)
    BY <2>2 DEF Cubes, S
  <2> QED BY <2>1, <2>3
<1> HIDE DEF w
<1>2. \A j \in DOMAIN u : j \in DOMAIN w /\ w[j] = u[j]
  BY <1>1
<1>3. \A j \in DOMAIN v : (Len(u) + j) \in DOMAIN w /\ w[Len(u) + j] = v[j]
  <2> TAKE j \in DOMAIN v
  <2>1. (Len(u) + j) \in DOMAIN w /\ ~ (Len(u) + j <= Len(u)) /\ (Len(u) + j) - Len(u) = j
    BY <1>1
  <2> QED BY <1>1, <2>1
<1>4. \A j \in DOMAIN w : \/ j \in DOMAIN u /\ w[j] = u[j]
                          \/ j - Len(u) \in DOMAIN v /\ w[j] = v[j - Len(u)]
  BY <1>1
<1>5. \A a : Covers(w, a) => Covers(u, a) \/ Covers(v, a)
  BY <1>4 DEF Covers
<1>6. \A a : Covers(u, a) \/ Covers(v, a) => Covers(w, a)
  BY <1>2, <1>3 DEF Covers
<1> QED BY <1>1, <1>5, <1>6 DEF w

\* A table that only the leaves up to var matter to.
UpTo(leaves, t, var) ==
    \A a, b \in SUBSET leaves :
        (\A l \in leaves : l <= var => (l \in a <=> l \in b)) => (a \in t <=> b \in t)

LEMMA CofactorsCorrect ==
  ASSUME NEW leaves \in SUBSET Nat, NEW t \in Tables(leaves), NEW var \in leaves, UpTo(leaves, t, var)
  PROVE  /\ Cofactor0(leaves, t, var) \in Tables(leaves) /\ Cofactor1(leaves, t, var) \in Tables(leaves)
         /\ UpTo(leaves, Cofactor0(leaves, t, var), var - 1)
         /\ UpTo(leaves, Cofactor1(leaves, t, var), var - 1)
         /\ \A a \in SUBSET leaves :
              /\ var \notin a => (a \in Cofactor0(leaves, t, var) <=> a \in t)
              /\ var \in a => (a \in Cofactor1(leaves, t, var) <=> a \in t)
<1>1. Cofactor0(leaves, t, var) \in Tables(leaves) /\ Cofactor1(leaves, t, var) \in Tables(leaves)
  BY DEF Tables, Cofactor0, Cofactor1
<1>2. \A a \in SUBSET leaves : /\ a \ {var} \in SUBSET leaves /\ a \cup {var} \in SUBSET leaves
                               /\ var \notin a => a \ {var} = a
                               /\ var \in a => a \cup {var} = a
  OBVIOUS
<1>3. ASSUME NEW a \in SUBSET leaves, NEW b \in SUBSET leaves,
             \A l \in leaves : l <= var - 1 => (l \in a <=> l \in b)
      PROVE  /\ a \ {var} \in t <=> b \ {var} \in t
             /\ a \cup {var} \in t <=> b \cup {var} \in t
  <2>1. \A l \in leaves : l <= var => l <= var - 1 \/ l = var
    OBVIOUS
  <2>2. \A l \in leaves : l <= var => (l \in a \ {var} <=> l \in b \ {var})
    BY <1>3, <2>1
  <2>3. \A l \in leaves : l <= var => (l \in a \cup {var} <=> l \in b \cup {var})
    BY <1>3, <2>1
  <2>4. a \ {var} \in t <=> b \ {var} \in t
    BY <1>2, <2>2 DEF UpTo
  <2>5. a \cup {var} \in t <=> b \cup {var} \in t
    BY <1>2, <2>3 DEF UpTo
  <2> QED BY <2>4, <2>5
<1>4. \A a \in SUBSET leaves : /\ a \in Cofactor0(leaves, t, var) <=> a \ {var} \in t
                               /\ a \in Cofactor1(leaves, t, var) <=> a \cup {var} \in t
  BY DEF Cofactor0, Cofactor1
<1>5. UpTo(leaves, Cofactor0(leaves, t, var), var - 1)
  BY <1>3, <1>4 DEF UpTo
<1>6. UpTo(leaves, Cofactor1(leaves, t, var), var - 1)
  BY <1>3, <1>4 DEF UpTo
<1>7. \A a \in SUBSET leaves :
         /\ var \notin a => (a \in Cofactor0(leaves, t, var) <=> a \in t)
         /\ var \in a => (a \in Cofactor1(leaves, t, var) <=> a \in t)
  <2> TAKE a \in SUBSET leaves
  <2>1. /\ a \in Cofactor0(leaves, t, var) <=> a \ {var} \in t
        /\ a \in Cofactor1(leaves, t, var) <=> a \cup {var} \in t
    BY <1>4
  <2>2. CASE var \in a
    <3>1. a \cup {var} = a
      BY <1>2, <2>2
    <3> QED BY <2>1, <2>2, <3>1
  <2>3. CASE var \notin a
    <3>1. a \ {var} = a
      BY <1>2, <2>3
    <3> QED BY <2>1, <2>3, <3>1
  <2> QED BY <2>2, <2>3
<1> QED BY <1>1, <1>5, <1>6, <1>7

\* What isop may be asked, and what it has to answer.
Asked(leaves, var, tt, dc) ==
    /\ tt \in Tables(leaves) /\ dc \in Tables(leaves) /\ tt \subseteq dc
    /\ UpTo(leaves, tt, var) /\ UpTo(leaves, dc, var)
Answered(leaves, var, tt, dc, ans) ==
    /\ tt \subseteq ans.cover /\ ans.cover \subseteq dc
    /\ UpTo(leaves, ans.cover, var)
    /\ ans.cubes \in Cubes(leaves)
    /\ \A a \in SUBSET leaves : a \in ans.cover <=> Covers(ans.cubes, a)

\* The three recursive calls, put together.
LEMMA IsopStep ==
  ASSUME NEW leaves \in SUBSET Nat, NEW var \in leaves, NEW tt, NEW dc, Asked(leaves, var, tt, dc),
         NEW lower, \A t, d : Asked(leaves, var - 1, t, d) => Answered(leaves, var - 1, t, d, lower[<<t, d>>]),
         tt # {}, ~ (dc = SUBSET leaves \/ var = 0)
  PROVE  Answered(leaves, var, tt, dc, isop_rec(leaves, lower, var, tt, dc))
<1> DEFINE tt0 == Cofactor0(leaves, tt, var)
           tt1 == Cofactor1(leaves, tt, var)
           dc0 == Cofactor0(leaves, dc, var)
           dc1 == Cofactor1(leaves, dc, var)
           res0 == lower[<<tt0 \ dc1, dc0>>]
           res1 == lower[<<tt1 \ dc0, dc1>>]
           rest == (tt0 \ res0.cover) \cup (tt1 \ res1.cover)
           res2 == lower[<<rest, dc0 \cap dc1>>]
           cubes0 == add_literal(res0.cubes, Signal(var, TRUE))
           cubes1 == add_literal(res1.cubes, Signal(var, FALSE))
           ans == [cubes |-> cubes0 \o cubes1 \o res2.cubes,
                   cover |-> {a \in res0.cover : var \notin a} \cup {a \in res1.cover : var \in a}
                             \cup res2.cover]
<1>1. isop_rec(leaves, lower, var, tt, dc) = ans
  BY DEF isop_rec
<1>2. /\ tt \in Tables(leaves) /\ dc \in Tables(leaves) /\ tt \subseteq dc
      /\ UpTo(leaves, tt, var) /\ UpTo(leaves, dc, var)
  BY DEF Asked
<1>3. /\ tt0 \in Tables(leaves) /\ tt1 \in Tables(leaves)
      /\ UpTo(leaves, tt0, var - 1) /\ UpTo(leaves, tt1, var - 1)
      /\ \A a \in SUBSET leaves : /\ var \notin a => (a \in tt0 <=> a \in tt)
                                  /\ var \in a => (a \in tt1 <=> a \in tt)
  BY <1>2, CofactorsCorrect
<1>4. /\ dc0 \in Tables(leaves) /\ dc1 \in Tables(leaves)
      /\ UpTo(leaves, dc0, var - 1) /\ UpTo(leaves, dc1, var - 1)
      /\ \A a \in SUBSET leaves : /\ var \notin a => (a \in dc0 <=> a \in dc)
                                  /\ var \in a => (a \in dc1 <=> a \in dc)
  BY <1>2, CofactorsCorrect
<1>5. tt0 \subseteq dc0 /\ tt1 \subseteq dc1
  BY <1>2 DEF Cofactor0, Cofactor1
<1> HIDE DEF tt0, tt1, dc0, dc1
<1>6. Answered(leaves, var - 1, tt0 \ dc1, dc0, res0)
  <2>1. UpTo(leaves, tt0 \ dc1, var - 1)
    BY <1>3, <1>4 DEF UpTo
  <2>2. Asked(leaves, var - 1, tt0 \ dc1, dc0)
    BY <1>3, <1>4, <1>5, <2>1 DEF Asked, Tables
  <2> QED BY <2>2
<1>7. Answered(leaves, var - 1, tt1 \ dc0, dc1, res1)
  <2>1. UpTo(leaves, tt1 \ dc0, var - 1)
    BY <1>3, <1>4 DEF UpTo
  <2>2. Asked(leaves, var - 1, tt1 \ dc0, dc1)
    BY <1>3, <1>4, <1>5, <2>1 DEF Asked, Tables
  <2> QED BY <2>2
<1> HIDE DEF res0, res1
<1>8. Answered(leaves, var - 1, rest, dc0 \cap dc1, res2)
  <2>1. rest \subseteq dc0 \cap dc1
    BY <1>5, <1>6, <1>7 DEF Answered
  <2>2. UpTo(leaves, rest, var - 1)
    BY <1>3, <1>6, <1>7 DEF UpTo, Answered
  <2>3. UpTo(leaves, dc0 \cap dc1, var - 1)
    BY <1>4 DEF UpTo
  <2>4. Asked(leaves, var - 1, rest, dc0 \cap dc1)
    BY <1>3, <1>4, <2>1, <2>2, <2>3 DEF Asked, Tables
  <2> QED BY <2>4
<1> HIDE DEF res2
<1>9. ASSUME NEW a \in SUBSET leaves
      PROVE  a \in ans.cover <=> \/ var \notin a /\ a \in res0.cover
                                 \/ var \in a /\ a \in res1.cover
                                 \/ a \in res2.cover
  OBVIOUS
<1>10. tt \subseteq ans.cover
  <2> SUFFICES ASSUME NEW a \in tt PROVE a \in ans.cover
    OBVIOUS
  <2>1. a \in SUBSET leaves
    BY <1>2 DEF Tables
  <2>2. CASE var \in a
    <3>1. a \in tt1
      BY <1>3, <2>1, <2>2
    <3>2. a \in res1.cover \/ a \in rest
      BY <3>1
    <3> QED BY <1>8, <1>9, <2>1, <2>2, <3>2 DEF Answered
  <2>3. CASE var \notin a
    <3>1. a \in tt0
      BY <1>3, <2>1, <2>3
    <3>2. a \in res0.cover \/ a \in rest
      BY <3>1
    <3> QED BY <1>8, <1>9, <2>1, <2>3, <3>2 DEF Answered
  <2> QED BY <2>2, <2>3
<1>11. ans.cover \subseteq dc
  <2> SUFFICES ASSUME NEW a \in ans.cover PROVE a \in dc
    OBVIOUS
  <2>1. a \in SUBSET leaves
    BY <1>4, <1>6, <1>7, <1>8 DEF Answered, Tables
  <2>2. \/ var \notin a /\ a \in dc0
        \/ var \in a /\ a \in dc1
        \/ a \in dc0 /\ a \in dc1
    BY <1>6, <1>7, <1>8, <1>9, <2>1 DEF Answered
  <2> QED BY <1>4, <2>1, <2>2
<1>12. UpTo(leaves, ans.cover, var)
  <2> SUFFICES ASSUME NEW a \in SUBSET leaves, NEW b \in SUBSET leaves,
                      \A l \in leaves : l <= var => (l \in a <=> l \in b)
               PROVE  a \in ans.cover <=> b \in ans.cover
    BY DEF UpTo
  <2>1. var \in a <=> var \in b
    OBVIOUS
  <2>2. \A l \in leaves : l <= var - 1 => l <= var
    OBVIOUS
  <2>3. /\ a \in res0.cover <=> b \in res0.cover
        /\ a \in res1.cover <=> b \in res1.cover
        /\ a \in res2.cover <=> b \in res2.cover
    BY <1>6, <1>7, <1>8, <2>2 DEF Answered, UpTo
  <2> QED BY <1>9, <2>1, <2>3
<1>13. cubes0 \in Cubes(leaves)
       /\ \A a : Covers(cubes0, a) <=> var \notin a /\ Covers(res0.cubes, a)
  <2> DEFINE lit == Signal(var, TRUE)
  <2>1. res0.cubes \in Cubes(leaves) /\ cubes0 = add_literal(res0.cubes, lit)
    BY <1>6 DEF Answered, cubes0
  <2>2. lit \in Literals(leaves) /\ \A a : Meant(a, lit) <=> var \notin a
    BY LiteralFacts
  <2> HIDE DEF lit
  <2> QED BY <2>1, <2>2, AddLiteralCorrect
<1>14. cubes1 \in Cubes(leaves)
       /\ \A a : Covers(cubes1, a) <=> var \in a /\ Covers(res1.cubes, a)
  <2> DEFINE lit == Signal(var, FALSE)
  <2>1. res1.cubes \in Cubes(leaves) /\ cubes1 = add_literal(res1.cubes, lit)
    BY <1>7 DEF Answered, cubes1
  <2>2. lit \in Literals(leaves) /\ \A a : Meant(a, lit) <=> var \in a
    BY LiteralFacts
  <2> HIDE DEF lit
  <2> QED BY <2>1, <2>2, AddLiteralCorrect
<1> HIDE DEF cubes0, cubes1
<1>15. ans.cubes \in Cubes(leaves)
       /\ \A a : Covers(ans.cubes, a) <=> Covers(cubes0, a) \/ Covers(cubes1, a) \/ Covers(res2.cubes, a)
  <2>1. ans.cubes = (cubes0 \o cubes1) \o res2.cubes /\ res2.cubes \in Cubes(leaves)
    BY <1>8 DEF Answered
  <2>2. /\ cubes0 \o cubes1 \in Cubes(leaves)
        /\ \A a : Covers(cubes0 \o cubes1, a) <=> Covers(cubes0, a) \/ Covers(cubes1, a)
    BY <1>13, <1>14, CoversBoth
  <2> HIDE DEF ans
  <2>3. /\ (cubes0 \o cubes1) \o res2.cubes \in Cubes(leaves)
        /\ \A a : Covers((cubes0 \o cubes1) \o res2.cubes, a)
                     <=> Covers(cubes0 \o cubes1, a) \/ Covers(res2.cubes, a)
    BY <2>1, <2>2, CoversBoth
  <2> QED BY <2>1, <2>2, <2>3
<1>16. \A a \in SUBSET leaves : a \in ans.cover <=> Covers(ans.cubes, a)
  <2> TAKE a \in SUBSET leaves
  <2>1. /\ a \in res0.cover <=> Covers(res0.cubes, a)
        /\ a \in res1.cover <=> Covers(res1.cubes, a)
        /\ a \in res2.cover <=> Covers(res2.cubes, a)
    BY <1>6, <1>7, <1>8 DEF Answered
  <2> QED BY <1>9, <1>13, <1>14, <1>15, <2>1
<1> QED BY <1>1, <1>10, <1>11, <1>12, <1>15, <1>16 DEF Answered

\* The cubes of a table cover it, and nothing else.
LEMMA IsopCorrect ==
  ASSUME NEW n \in Nat, NEW leaves \in SUBSET (1..n), leaves # {}, NEW table \in Tables(leaves)
  PROVE  /\ create_sop_form(table, leaves) \in Cubes(leaves)
         /\ \A a \in SUBSET leaves : a \in table <=> Covers(create_sop_form(table, leaves), a)
<1> DEFINE last == Max(leaves)
           I == isop(leaves)
<1>1. /\ leaves \in SUBSET Nat /\ 0 \notin leaves
      /\ last \in Nat /\ \A l \in leaves : l <= last
  <2>1. leaves \in SUBSET (0..n) /\ 0 \notin leaves
    OBVIOUS
  <2>2. last \in leaves /\ \A l \in leaves : l <= last
    BY <2>1, MaxFacts
  <2> HIDE DEF last
  <2>3. last \in 1..n
    BY <2>2
  <2> QED BY <2>1, <2>2, <2>3
<1>2. \A k \in 0..last : I[k] = [f \in Tables(leaves) \X Tables(leaves) |->
                                    isop_rec(leaves, I[k - 1], k, f[1], f[2])]
  BY <1>1, IsopEquation
<1> HIDE DEF last, I
<1>3. ASSUME NEW k \in 0..last, NEW t, NEW d, Asked(leaves, k, t, d)
      PROVE  I[k][<<t, d>>] = isop_rec(leaves, I[k - 1], k, t, d)
  <2>1. <<t, d>> \in Tables(leaves) \X Tables(leaves)
    BY <1>3 DEF Asked
  <2> QED BY <1>2, <2>1
<1> DEFINE Good(k) == \A t, d : Asked(leaves, k, t, d) => Answered(leaves, k, t, d, I[k][<<t, d>>])
           A == {k \in 0..last : ~ Good(k)}
<1>4. A = {}
  <2> SUFFICES ASSUME A # {} PROVE FALSE
    OBVIOUS
  <2>1. PICK k \in A : \A m \in A : k <= m
    <3>1. A \in SUBSET Nat
      BY <1>1
    <3> HIDE DEF A
    <3> QED BY <3>1, LeastMember
  <2>2. k \in 0..last /\ (k = 0 \/ (k - 1 \in 0..last /\ k - 1 \notin A))
    BY <1>1, <2>1
  <2>3. k # 0 => Good(k - 1)
    BY <2>2
  <2> SUFFICES ASSUME NEW t, NEW d, Asked(leaves, k, t, d)
               PROVE  Answered(leaves, k, t, d, I[k][<<t, d>>])
    BY <2>1
  <2> HIDE DEF A, Good
  <2> DEFINE ans == isop_rec(leaves, I[k - 1], k, t, d)
  <2>4. I[k][<<t, d>>] = ans
    BY <1>3, <2>2
  <2>5. /\ t \in Tables(leaves) /\ d \in Tables(leaves) /\ t \subseteq d
        /\ UpTo(leaves, t, k) /\ UpTo(leaves, d, k)
    BY DEF Asked
  <2>6. CASE t = {}
    <3>1. ans = [cubes |-> <<>>, cover |-> {}]
      BY <2>6 DEF isop_rec
    <3>2. <<>> \in Cubes(leaves) /\ \A a : ~ Covers(<<>>, a)
      BY DEF Cubes, Covers
    <3>3. UpTo(leaves, {}, k)
      BY DEF UpTo
    <3> HIDE DEF ans
    <3> QED BY <2>4, <2>6, <3>1, <3>2, <3>3 DEF Answered
  <2>7. CASE t # {} /\ (d = SUBSET leaves \/ k = 0)
    <3>1. ans = [cubes |-> << <<>> >>, cover |-> d]
      BY <2>7 DEF isop_rec
    <3>2. << <<>> >> \in Cubes(leaves) /\ \A a : Covers(<< <<>> >>, a)
      BY DEF Cubes, Covers, Satisfies
    <3>3. d = SUBSET leaves
      <4> SUFFICES ASSUME k = 0 PROVE d = SUBSET leaves
        BY <2>7
      <4>1. \A l \in leaves : ~ (l <= k)
        BY <1>1
      <4>2. \A a, b \in SUBSET leaves : a \in t <=> b \in t
        BY <2>5, <4>1 DEF UpTo
      <4> QED BY <2>5, <2>7, <4>2 DEF Tables
    <3> HIDE DEF ans
    <3> QED BY <2>4, <2>5, <3>1, <3>2, <3>3 DEF Answered
  <2>8. CASE t # {} /\ ~ (d = SUBSET leaves \/ k = 0) /\ k \notin leaves
    <3>1. ans = I[k - 1][<<t, d>>]
      BY <2>8 DEF isop_rec
    <3>2. \A l \in leaves : l <= k <=> l <= k - 1
      BY <1>1, <2>2, <2>8
    <3>3. \A u : UpTo(leaves, u, k) <=> UpTo(leaves, u, k - 1)
      BY <3>2 DEF UpTo
    <3>4. Asked(leaves, k - 1, t, d)
      BY <2>5, <3>3 DEF Asked
    <3>5. Answered(leaves, k - 1, t, d, ans)
      BY <2>3, <2>8, <3>1, <3>4 DEF Good
    <3> HIDE DEF ans
    <3> QED BY <2>4, <3>3, <3>5 DEF Answered
  <2>9. CASE t # {} /\ ~ (d = SUBSET leaves \/ k = 0) /\ k \in leaves
    <3>1. \A u, e : Asked(leaves, k - 1, u, e) => Answered(leaves, k - 1, u, e, I[k - 1][<<u, e>>])
      BY <2>3, <2>9 DEF Good
    <3>2. Answered(leaves, k, t, d, ans)
      BY <1>1, <2>9, <3>1, IsopStep
    <3> QED BY <2>4, <3>2
  <2> QED BY <2>6, <2>7, <2>8, <2>9
<1>5. Asked(leaves, last, table, table)
  <2>1. UpTo(leaves, table, last)
    <3>1. \A a, b \in SUBSET leaves : (\A l \in leaves : l \in a <=> l \in b) => a = b
      OBVIOUS
    <3> QED BY <1>1, <3>1 DEF UpTo
  <2> QED BY <2>1 DEF Asked
<1>6. Answered(leaves, last, table, table, I[last][<<table, table>>])
  <2>1. last \in 0..last
    BY <1>1
  <2> QED BY <1>4, <1>5, <2>1
<1>7. create_sop_form(table, leaves) = I[last][<<table, table>>].cubes
  BY DEF create_sop_form, I, last
<1>8. I[last][<<table, table>>].cover = table
  BY <1>6 DEF Answered
<1> QED BY <1>6, <1>7, <1>8 DEF Answered

LEMMA ProductsEquation ==
  ASSUME NEW net, NEW cubes, Len(cubes) \in Nat
  PROVE  LET U == Products(net, cubes)
         IN  /\ U[0] = [net |-> net, and_terms |-> <<>>, size |-> 0]
             /\ \A k \in 1..Len(cubes) : U[k] = Product(U[k - 1], cubes[k])
<1> DEFINE At(U, k) == IF k = 0 THEN [net |-> net, and_terms |-> <<>>, size |-> 0] ELSE Product(U[k - 1], cubes[k])
<1> DEFINE Sound(m, U) == U = [k \in 0..m |-> At(U, k)]
<1>1. \A U, W, k : (k # 0 => U[k - 1] = W[k - 1]) => At(U, k) = At(W, k)
  OBVIOUS
<1> HIDE DEF At
<1>2. ASSUME NEW m \in Nat, m # 0, NEW U, Sound(m - 1, U) PROVE \E W : Sound(m, W)
  <2> DEFINE W == [k \in 0..m |-> At(U, k)]
  <2>1. \A k \in 0..(m - 1) : U[k] = At(U, k)
    BY <1>2
  <2>2. \A k \in 0..m : k # 0 => U[k - 1] = W[k - 1]
    BY <1>2, <2>1
  <2>3. W = [k \in 0..m |-> At(U, k)]
    OBVIOUS
  <2> HIDE DEF W
  <2>4. \A k \in 0..m : At(U, k) = At(W, k)
    BY <1>1, <2>2
  <2>5. W = [k \in 0..m |-> At(W, k)]
    BY <2>3, <2>4
  <2> QED BY <2>5
<1>3. \E U : Sound(0, U)
  <2> DEFINE U == [k \in 0..0 |-> At(<<>>, k)]
  <2>1. U = [k \in 0..0 |-> At(<<>>, k)]
    OBVIOUS
  <2> HIDE DEF U
  <2>2. \A k \in 0..0 : At(<<>>, k) = At(U, k)
    BY <1>1
  <2>3. U = [k \in 0..0 |-> At(U, k)]
    BY <2>1, <2>2
  <2> QED BY <2>3
<1> HIDE DEF Sound
<1>4. \A m \in Nat : \E U : Sound(m, U)
  <2> DEFINE A == {m \in Nat : ~ \E U : Sound(m, U)}
  <2> SUFFICES ASSUME A # {} PROVE FALSE
    OBVIOUS
  <2>1. PICK m \in A : \A a \in A : m <= a
    BY LeastMember
  <2>2. m # 0 /\ m - 1 \in Nat /\ m - 1 \notin A
    BY <1>3, <2>1
  <2> QED BY <1>2, <2>1, <2>2
<1>5. Products(net, cubes) = CHOOSE U : Sound(Len(cubes), U)
  BY Zenon DEF Products, Sound, At
<1>6. Sound(Len(cubes), Products(net, cubes))
  BY <1>4, <1>5
<1> DEFINE U == Products(net, cubes)
<1>7. \A k \in 0..Len(cubes) : U[k] = At(U, k)
  BY <1>6 DEF Sound
<1>8. U[0] = At(U, 0) /\ \A k \in 1..Len(cubes) : U[k] = At(U, k) /\ k # 0
  BY <1>7
<1> QED BY <1>8 DEF At

\* The leaves of a cut that are on, and what is known of the signals for its literals.
Given(leaves, a) == {l \in leaves : Values(ntk, Inputs(ntk), a)[l]}
Arrived(leaves) ==
    \A s \in Literals(leaves) :
        /\ Arrival(s) \in Timed(dest)
        /\ \A a : On(dest, a, Arrival(s).f) <=> Meant(Given(leaves, a), s)

LEMMA ProductCorrect ==
  ASSUME NEW leaves, Arrived(leaves), IsNetwork(dest), NEW acc, Grows(dest, acc.net),
         NEW cube \in Seq(Literals(leaves)), NEW new, new = Product(acc, cube),
         acc.size \in Nat
  PROVE  /\ Grows(acc.net, new.net) /\ new.size \in Nat
         /\ \E cand \in Timed(new.net) :
              /\ new.and_terms = Append(acc.and_terms, cand)
              /\ \A a : On(new.net, a, cand.f) <=> Satisfies(Given(leaves, a), cube)
<1> DEFINE q == [i \in DOMAIN cube |-> Arrival(cube[i])]
           tree == balanced_tree(acc.net, q, TRUE)
<1> HIDE DEF Literals, Timed
<1>1. IsNetwork(acc.net)
  BY DEF Grows
<1>2. Len(cube) \in Nat /\ DOMAIN cube = 1..Len(cube) /\ \A i \in DOMAIN cube : cube[i] \in Literals(leaves)
  OBVIOUS
<1>3. q \in Seq(Timed(dest)) /\ DOMAIN q = DOMAIN cube /\ \A i \in DOMAIN cube : q[i] = Arrival(cube[i])
  BY <1>2 DEF Arrived
<1>4. TRUE \in BOOLEAN
  OBVIOUS
<1>5. q \in Seq(Timed(acc.net))
  BY <1>3, <1>4, MeetsGrows
<1>6. \A a : Meets(acc.net, a, q, TRUE) <=> Meets(dest, a, q, TRUE)
  BY <1>3, <1>4, MeetsGrows
<1>7. \A a : Meets(dest, a, q, TRUE) <=> Satisfies(Given(leaves, a), cube)
  BY <1>2, <1>3 DEF Meets, Satisfies, Arrived
<1>8. new = [net |-> tree.net, and_terms |-> Append(acc.and_terms, tree.cand),
             size |-> acc.size + (IF cube = <<>> THEN 0 ELSE Len(cube) - 1)]
  BY DEF Product
<1> HIDE DEF q
<1>9. TreeIs(acc.net, q, TRUE, tree)
  BY <1>1, <1>4, <1>5, TreeCorrect
<1> HIDE DEF tree
<1>10. acc.size + (IF cube = <<>> THEN 0 ELSE Len(cube) - 1) \in Nat
  <2>1. cube # <<>> => Len(cube) - 1 \in Nat
    BY <1>2
  <2> QED BY <2>1
<1>11. /\ new.net = tree.net /\ new.and_terms = Append(acc.and_terms, tree.cand)
       /\ new.size = acc.size + (IF cube = <<>> THEN 0 ELSE Len(cube) - 1)
  BY <1>8
<1>12. /\ Grows(acc.net, new.net) /\ tree.cand \in Timed(new.net)
       /\ \A a : On(new.net, a, tree.cand.f) <=> Satisfies(Given(leaves, a), cube)
  BY <1>6, <1>7, <1>9, <1>11 DEF TreeIs
<1> QED BY <1>10, <1>11, <1>12

\* The first k cubes have become products.
ProductsOf(leaves, cubes, k, acc) ==
    /\ Grows(dest, acc.net) /\ acc.size \in Nat
    /\ acc.and_terms \in Seq(Timed(acc.net)) /\ Len(acc.and_terms) = k
    /\ \A i \in 1..k : \A a : On(acc.net, a, acc.and_terms[i].f) <=> Satisfies(Given(leaves, a), cubes[i])

LEMMA ProductsStep ==
  ASSUME NEW leaves, Arrived(leaves), IsNetwork(dest), NEW cubes \in Cubes(leaves),
         NEW k \in 1..Len(cubes), NEW acc, ProductsOf(leaves, cubes, k - 1, acc)
  PROVE  ProductsOf(leaves, cubes, k, Product(acc, cubes[k]))
<1> DEFINE new == Product(acc, cubes[k])
<1> HIDE DEF Timed, Literals
<1>1. /\ Grows(dest, acc.net) /\ acc.size \in Nat /\ IsNetwork(acc.net)
      /\ acc.and_terms \in Seq(Timed(acc.net)) /\ Len(acc.and_terms) = k - 1
  BY DEF ProductsOf, Grows
<1>2. cubes[k] \in Seq(Literals(leaves)) /\ k \in Nat /\ k # 0
  BY DEF Cubes
<1>3. /\ Grows(acc.net, new.net) /\ new.size \in Nat
      /\ \E cand \in Timed(new.net) :
           /\ new.and_terms = Append(acc.and_terms, cand)
           /\ \A a : On(new.net, a, cand.f) <=> Satisfies(Given(leaves, a), cubes[k])
  BY <1>1, <1>2, ProductCorrect
<1> HIDE DEF new
<1>4. PICK cand \in Timed(new.net) :
         /\ new.and_terms = Append(acc.and_terms, cand)
         /\ \A a : On(new.net, a, cand.f) <=> Satisfies(Given(leaves, a), cubes[k])
  BY <1>3
<1>5. acc.and_terms \in Seq(Timed(new.net)) /\ Grows(dest, new.net)
  <2>1. TRUE \in BOOLEAN
    OBVIOUS
  <2> QED BY <1>1, <1>3, <2>1, MeetsGrows, GrowsTransitive
<1>6. /\ new.and_terms \in Seq(Timed(new.net)) /\ Len(new.and_terms) = k
      /\ new.and_terms[k] = cand /\ \A i \in 1..(k - 1) : new.and_terms[i] = acc.and_terms[i]
  BY <1>1, <1>2, <1>4, <1>5
<1>7. ASSUME NEW i \in 1..k, NEW a
      PROVE  On(new.net, a, new.and_terms[i].f) <=> Satisfies(Given(leaves, a), cubes[i])
  <2>1. CASE i = k
    BY <1>4, <1>6, <2>1
  <2>2. CASE i # k
    <3>1. i \in 1..(k - 1) /\ new.and_terms[i] = acc.and_terms[i] /\ acc.and_terms[i] \in Timed(acc.net)
      BY <1>1, <1>2, <1>6, <2>2
    <3>2. acc.and_terms[i].f \in SignalsOf(acc.net)
      BY <3>1 DEF Timed
    <3>3. On(new.net, a, acc.and_terms[i].f) = On(acc.net, a, acc.and_terms[i].f)
      <4>1. \A s \in SignalsOf(acc.net) : On(new.net, a, s) = On(acc.net, a, s)
        <5>1. IsNetwork(acc.net) /\ Grows(acc.net, new.net)
          BY <1>1, <1>3
        <5> QED BY <5>1, GrowsKeeps
      <4> QED BY <3>2, <4>1
    <3> QED BY <3>1, <3>3 DEF ProductsOf
  <2> QED BY <2>1, <2>2
<1>8. ProductsOf(leaves, cubes, k, new)
  BY <1>3, <1>5, <1>6, <1>7 DEF ProductsOf
<1> QED BY <1>8 DEF new

LEMMA ProductsCorrect ==
  ASSUME NEW leaves, Arrived(leaves), IsNetwork(dest), NEW cubes \in Cubes(leaves)
  PROVE  ProductsOf(leaves, cubes, Len(cubes), Products(dest, cubes)[Len(cubes)])
<1> DEFINE U == Products(dest, cubes)
           Good(k) == ProductsOf(leaves, cubes, k, U[k])
           A == {k \in 0..Len(cubes) : ~ Good(k)}
<1>1. Len(cubes) \in Nat
  BY DEF Cubes
<1>2. /\ U[0] = [net |-> dest, and_terms |-> <<>>, size |-> 0]
      /\ \A k \in 1..Len(cubes) : U[k] = Product(U[k - 1], cubes[k])
  BY <1>1, ProductsEquation
<1> HIDE DEF U
<1>3. Good(0)
  <2> HIDE DEF Timed
  <2>1. <<>> \in Seq(Timed(dest)) /\ Len(<<>>) = 0 /\ \A i \in 1..0 : FALSE
    OBVIOUS
  <2> QED BY <1>2, <2>1, GrowsReflexive DEF ProductsOf
<1>4. A = {}
  <2> SUFFICES ASSUME A # {} PROVE FALSE
    OBVIOUS
  <2>1. PICK k \in A : \A m \in A : k <= m
    <3>1. A \in SUBSET Nat
      OBVIOUS
    <3> HIDE DEF A
    <3> QED BY <3>1, LeastMember
  <2>2. k \in 1..Len(cubes) /\ k - 1 \in 0..Len(cubes) /\ k - 1 \notin A
    BY <1>1, <1>3, <2>1
  <2>3. Good(k - 1) /\ U[k] = Product(U[k - 1], cubes[k])
    BY <1>2, <2>2
  <2>4. Good(k)
    BY <2>2, <2>3, ProductsStep
  <2> QED BY <2>1, <2>4
<1>5. Len(cubes) \in 0..Len(cubes)
  BY <1>1
<1> QED BY <1>4, <1>5 DEF U

\* A candidate for the gate: a signal in a network over the one there was, that
\* computes what the table says of the leaves.
LEMMA RebalancedCorrect ==
  ASSUME NEW n \in Nat, NEW leaves \in SUBSET (1..n), leaves # {}, Arrived(leaves), IsNetwork(dest),
         NEW table \in Tables(leaves), table # {}, NEW new, new = Rebalanced(dest, table, leaves)
  PROVE  /\ Grows(dest, new.net) /\ new.cand \in Timed(new.net) /\ new.size \in Nat
         /\ \A a : On(new.net, a, new.cand.f) <=> Given(leaves, a) \in table
<1> DEFINE cubes == create_sop_form(table, leaves)
           sop == create_function(dest, table, leaves)
           sum == balanced_tree(sop.net, sop.and_terms, FALSE)
<1>1. /\ cubes \in Cubes(leaves)
      /\ \A a \in SUBSET leaves : a \in table <=> Covers(cubes, a)
  BY IsopCorrect
<1>2. sop = Products(dest, cubes)[Len(cubes)]
  BY DEF create_function
<1>3. new = [net |-> sum.net, cand |-> sum.cand,
             size |-> sop.size + (IF sop.and_terms = <<>> THEN 0 ELSE Len(sop.and_terms) - 1)]
  BY DEF Rebalanced
<1> HIDE DEF cubes, sop
<1>4. ProductsOf(leaves, cubes, Len(cubes), sop)
  BY <1>1, <1>2, ProductsCorrect
<1> HIDE DEF Timed, sum
<1>5. Len(cubes) # 0 /\ Len(cubes) \in Nat /\ DOMAIN cubes = 1..Len(cubes)
  <2>1. PICK a \in SUBSET leaves : Covers(cubes, a)
    BY <1>1 DEF Tables
  <2>2. Len(cubes) \in Nat /\ DOMAIN cubes = 1..Len(cubes)
    BY <1>1 DEF Cubes
  <2> QED BY <2>1, <2>2 DEF Covers
<1>6. /\ IsNetwork(sop.net) /\ Grows(dest, sop.net) /\ sop.size \in Nat
      /\ sop.and_terms \in Seq(Timed(sop.net)) /\ Len(sop.and_terms) = Len(cubes)
      /\ sop.and_terms # <<>> /\ DOMAIN sop.and_terms = DOMAIN cubes
  BY <1>4, <1>5 DEF ProductsOf, Grows
<1>7. TreeIs(sop.net, sop.and_terms, FALSE, sum)
  <2>1. FALSE \in BOOLEAN
    OBVIOUS
  <2> QED BY <1>6, <2>1, TreeCorrect DEF sum
<1>8. \A a : Meets(sop.net, a, sop.and_terms, FALSE) <=> Covers(cubes, Given(leaves, a))
  BY <1>4, <1>5, <1>6 DEF Meets, Covers, ProductsOf
<1>9. \A a : Given(leaves, a) \in SUBSET leaves
  BY DEF Given
<1>10. new.size \in Nat
  BY <1>3, <1>5, <1>6
<1>11. Grows(dest, sum.net)
  BY <1>6, <1>7, GrowsTransitive DEF TreeIs
<1>12. new.net = sum.net /\ new.cand = sum.cand
  BY <1>3
<1>13. \A a : On(new.net, a, new.cand.f) <=> Given(leaves, a) \in table
  BY <1>1, <1>7, <1>8, <1>9, <1>12 DEF TreeIs
<1> QED BY <1>7, <1>10, <1>11, <1>12, <1>13 DEF TreeIs

-----------------------------------------------------------------------------
(* One product.  Over its fanins a gate is a cube, which becomes one       *)
(* product of two literals: a candidate that is no later than the gate.    *)

\* Nothing covers the table that is false.
None == [cubes |-> <<>>, cover |-> {}]

LEMMA IsopNone ==
  ASSUME NEW leaves, Max(leaves) \in Nat, NEW k \in 0..Max(leaves), NEW d \in Tables(leaves)
  PROVE  isop(leaves)[k][<<{}, d>>] = None
<1>1. isop(leaves)[k] = [f \in Tables(leaves) \X Tables(leaves) |->
                            isop_rec(leaves, isop(leaves)[k - 1], k, f[1], f[2])]
  BY IsopEquation
<1>2. <<{}, d>> \in Tables(leaves) \X Tables(leaves)
  BY DEF Tables
<1>3. isop(leaves)[k][<<{}, d>>] = isop_rec(leaves, isop(leaves)[k - 1], k, {}, d)
  BY <1>1, <1>2
<1> QED BY <1>3 DEF isop_rec, None

\* The assignments that are p on X, and the answer of one cube for them.
CubeOn(leaves, X, p) == {a \in SUBSET leaves : a \cap X = p}
OneCube(leaves, X, p, ans) ==
    /\ ans.cover = CubeOn(leaves, X, p)
    /\ \E c \in Seq(Literals(leaves)) :
          /\ ans.cubes = <<c>> /\ Len(c) = Cardinality(X)
          /\ {c[i].index : i \in 1..Len(c)} = X

LEMMA LiteralAppended ==
  ASSUME NEW leaves, NEW X, IsFiniteSet(X), NEW k \in leaves, k \notin X, NEW lit \in Literals(leaves), lit.index = k,
         NEW c \in Seq(Literals(leaves)), Len(c) = Cardinality(X), {c[i].index : i \in 1..Len(c)} = X
  PROVE  /\ Append(c, lit) \in Seq(Literals(leaves)) /\ Len(Append(c, lit)) = Cardinality(X \cup {k})
         /\ {Append(c, lit)[i].index : i \in 1..Len(Append(c, lit))} = X \cup {k}
<1> DEFINE d == Append(c, lit)
<1> HIDE DEF Literals
<1>1. /\ d \in Seq(Literals(leaves)) /\ Len(d) = Len(c) + 1 /\ Len(c) \in Nat
      /\ d[Len(c) + 1] = lit /\ \A i \in 1..Len(c) : d[i] = c[i]
  OBVIOUS
<1>2. Cardinality(X \cup {k}) = Cardinality(X) + 1
  BY FS_AddElement
<1> HIDE DEF d
<1>3. 1..Len(d) = 1..Len(c) \cup {Len(c) + 1}
  BY <1>1
<1>4. {d[i].index : i \in 1..Len(d)} = {c[i].index : i \in 1..Len(c)} \cup {k}
  BY <1>1, <1>3
<1> QED BY <1>1, <1>2, <1>4 DEF d

LEMMA OneCubeOnly ==
  ASSUME NEW d
  PROVE  <<>> \o <<d>> \o <<>> = <<d>> /\ <<d>> \o <<>> \o <<>> = <<d>>
<1>1. <<d>> \in Seq({d})
  OBVIOUS
<1> QED BY <1>1, ConcatEmptySeq

\* A variable of the cube is asked for: one of the two cofactors is false.
LEMMA IsopCubeSplit ==
  ASSUME NEW leaves \in SUBSET Nat, NEW k \in leaves, k # 0, NEW X \in SUBSET leaves, IsFiniteSet(X), k \in X,
         NEW p \in SUBSET X, NEW lower,
         \A d \in Tables(leaves) : lower[<<{}, d>>] = None,
         \A r \in SUBSET (X \ {k}) : OneCube(leaves, X \ {k}, r,
             lower[<<CubeOn(leaves, X \ {k}, r), CubeOn(leaves, X \ {k}, r)>>])
  PROVE  OneCube(leaves, X, p, isop_rec(leaves, lower, k, CubeOn(leaves, X, p), CubeOn(leaves, X, p)))
<1> DEFINE T == CubeOn(leaves, X, p)
           less == X \ {k}
           r == p \ {k}
           U == CubeOn(leaves, less, r)
           ans == lower[<<U, U>>]
<1>1. T # {} /\ T # SUBSET leaves
  <2>1. p \in T
    BY DEF CubeOn
  <2>2. (IF k \in p THEN {} ELSE X) \notin T
    BY DEF CubeOn
  <2>3. (IF k \in p THEN {} ELSE X) \in SUBSET leaves
    OBVIOUS
  <2> HIDE DEF T
  <2> QED BY <2>1, <2>2, <2>3
<1>2. U \in Tables(leaves) /\ {} \in Tables(leaves)
  BY DEF Tables, CubeOn
<1>3. OneCube(leaves, less, r, ans)
  OBVIOUS
<1>4. PICK c \in Seq(Literals(leaves)) :
         /\ ans.cubes = <<c>> /\ Len(c) = Cardinality(less)
         /\ {c[i].index : i \in 1..Len(c)} = less
  BY <1>3 DEF OneCube
<1>5. ans.cover = U
  BY <1>3 DEF OneCube
<1>6. IsFiniteSet(less) /\ k \notin less /\ less \cup {k} = X
  BY FS_Subset
<1>7. \A t : add_literal(<<>>, t) = <<>>
  BY DEF add_literal
<1>8. \A t : add_literal(<<c>>, t) = <<Append(c, t)>>
  BY DEF add_literal
<1> HIDE DEF ans
<1>9. CASE k \in p
  <2> DEFINE lit == Signal(k, FALSE)
             rec == isop_rec(leaves, lower, k, T, T)
  <2>1. Cofactor0(leaves, T, k) = {}
    BY <1>9 DEF Cofactor0, CubeOn
  <2>2. Cofactor1(leaves, T, k) = U
    BY <1>9 DEF Cofactor1, CubeOn
  <2>3. /\ lower[<<{} \ U, {}>>] = None
        /\ lower[<<U \ {}, U>>] = ans
        /\ lower[<<({} \ None.cover) \cup (U \ ans.cover), {} \cap U>>] = None
    <3>1. {} \ U = {} /\ U \ {} = U /\ {} \cap U = {} /\ ({} \ None.cover) \cup (U \ ans.cover) = {}
      BY <1>5
    <3> QED BY <1>2, <3>1 DEF ans
  <2>4. lit \in Literals(leaves) /\ lit.index = k
    BY DEF Literals, Signal, Signals
  <2> HIDE DEF T, U, lit
  <2>5. rec = [cubes |-> add_literal(None.cubes, Signal(k, TRUE)) \o add_literal(ans.cubes, lit) \o None.cubes,
               cover |-> {a \in None.cover : k \notin a} \cup {a \in ans.cover : k \in a} \cup None.cover]
    BY <1>1, <2>1, <2>2, <2>3 DEF isop_rec, lit
  <2>6. rec.cubes = <<Append(c, lit)>>
    <3>1. None.cubes = <<>> /\ add_literal(None.cubes, Signal(k, TRUE)) = <<>>
      BY <1>7 DEF None
    <3>2. add_literal(ans.cubes, lit) = <<Append(c, lit)>>
      BY <1>4, <1>8
    <3> HIDE DEF None, rec
    <3>3. rec.cubes = add_literal(None.cubes, Signal(k, TRUE)) \o add_literal(ans.cubes, lit) \o None.cubes
      BY <2>5
    <3> QED BY <3>1, <3>2, <3>3, OneCubeOnly
  <2>7. rec.cover = {a \in U : k \in a}
    BY <1>5, <2>5 DEF None
  <2>8. {a \in U : k \in a} = T
    BY <1>9 DEF U, T, CubeOn
  <2>9. /\ Append(c, lit) \in Seq(Literals(leaves)) /\ Len(Append(c, lit)) = Cardinality(X)
        /\ {Append(c, lit)[i].index : i \in 1..Len(Append(c, lit))} = X
    <3>1. /\ Append(c, lit) \in Seq(Literals(leaves)) /\ Len(Append(c, lit)) = Cardinality(less \cup {k})
          /\ {Append(c, lit)[i].index : i \in 1..Len(Append(c, lit))} = less \cup {k}
      <4>1. /\ IsFiniteSet(less) /\ k \in leaves /\ k \notin less /\ lit \in Literals(leaves) /\ lit.index = k
            /\ c \in Seq(Literals(leaves)) /\ Len(c) = Cardinality(less) /\ {c[i].index : i \in 1..Len(c)} = less
        BY <1>4, <1>6, <2>4
      <4> HIDE DEF less
      <4> QED BY <4>1, LiteralAppended
    <3> QED BY <1>6, <3>1
  <2> HIDE DEF rec
  <2>10. OneCube(leaves, X, p, rec)
    BY <2>6, <2>7, <2>8, <2>9 DEF OneCube, T
  <2> QED BY <2>10 DEF rec, T
<1>10. CASE k \notin p
  <2> DEFINE lit == Signal(k, TRUE)
             rec == isop_rec(leaves, lower, k, T, T)
  <2>1. Cofactor1(leaves, T, k) = {}
    BY <1>10 DEF Cofactor1, CubeOn
  <2>2. Cofactor0(leaves, T, k) = U
    BY <1>10 DEF Cofactor0, CubeOn
  <2>3. /\ lower[<<U \ {}, U>>] = ans
        /\ lower[<<{} \ U, {}>>] = None
        /\ lower[<<(U \ ans.cover) \cup ({} \ None.cover), U \cap {}>>] = None
    <3>1. {} \ U = {} /\ U \ {} = U /\ U \cap {} = {} /\ (U \ ans.cover) \cup ({} \ None.cover) = {}
      BY <1>5
    <3> QED BY <1>2, <3>1 DEF ans
  <2>4. lit \in Literals(leaves) /\ lit.index = k
    BY DEF Literals, Signal, Signals
  <2> HIDE DEF T, U, lit
  <2>5. rec = [cubes |-> add_literal(ans.cubes, lit) \o add_literal(None.cubes, Signal(k, FALSE)) \o None.cubes,
               cover |-> {a \in ans.cover : k \notin a} \cup {a \in None.cover : k \in a} \cup None.cover]
    BY <1>1, <2>1, <2>2, <2>3 DEF isop_rec, lit
  <2>6. rec.cubes = <<Append(c, lit)>>
    <3>1. None.cubes = <<>> /\ add_literal(None.cubes, Signal(k, FALSE)) = <<>>
      BY <1>7 DEF None
    <3>2. add_literal(ans.cubes, lit) = <<Append(c, lit)>>
      BY <1>4, <1>8
    <3> HIDE DEF None, rec
    <3>3. rec.cubes = add_literal(ans.cubes, lit) \o add_literal(None.cubes, Signal(k, FALSE)) \o None.cubes
      BY <2>5
    <3> QED BY <3>1, <3>2, <3>3, OneCubeOnly
  <2>7. rec.cover = {a \in U : k \notin a}
    BY <1>5, <2>5 DEF None
  <2>8. {a \in U : k \notin a} = T
    BY <1>10 DEF U, T, CubeOn
  <2>9. /\ Append(c, lit) \in Seq(Literals(leaves)) /\ Len(Append(c, lit)) = Cardinality(X)
        /\ {Append(c, lit)[i].index : i \in 1..Len(Append(c, lit))} = X
    <3>1. /\ Append(c, lit) \in Seq(Literals(leaves)) /\ Len(Append(c, lit)) = Cardinality(less \cup {k})
          /\ {Append(c, lit)[i].index : i \in 1..Len(Append(c, lit))} = less \cup {k}
      <4>1. /\ IsFiniteSet(less) /\ k \in leaves /\ k \notin less /\ lit \in Literals(leaves) /\ lit.index = k
            /\ c \in Seq(Literals(leaves)) /\ Len(c) = Cardinality(less) /\ {c[i].index : i \in 1..Len(c)} = less
        BY <1>4, <1>6, <2>4
      <4> HIDE DEF less
      <4> QED BY <4>1, LiteralAppended
    <3> QED BY <1>6, <3>1
  <2> HIDE DEF rec
  <2>10. OneCube(leaves, X, p, rec)
    BY <2>6, <2>7, <2>8, <2>9 DEF OneCube, T
  <2> QED BY <2>10 DEF rec, T
<1> QED BY <1>9, <1>10

\* A variable below the last one is not asked for: what remains decides.
LEMMA IsopCubeSkip ==
  ASSUME NEW leaves \in SUBSET Nat, NEW k \in leaves, k # 0, NEW X \in SUBSET leaves, k \notin X, X # {},
         NEW p \in SUBSET X, NEW lower,
         \A d \in Tables(leaves) : lower[<<{}, d>>] = None,
         OneCube(leaves, X, p, lower[<<CubeOn(leaves, X, p), CubeOn(leaves, X, p)>>])
  PROVE  OneCube(leaves, X, p, isop_rec(leaves, lower, k, CubeOn(leaves, X, p), CubeOn(leaves, X, p)))
<1> DEFINE T == CubeOn(leaves, X, p)
           ans == lower[<<T, T>>]
           rec == isop_rec(leaves, lower, k, T, T)
<1>1. T # {} /\ T # SUBSET leaves
  <2>1. p \in T
    BY DEF CubeOn
  <2>2. (IF p = X THEN {} ELSE X) \notin T
    BY DEF CubeOn
  <2>3. (IF p = X THEN {} ELSE X) \in SUBSET leaves
    OBVIOUS
  <2> HIDE DEF T
  <2> QED BY <2>1, <2>2, <2>3
<1>2. T \in Tables(leaves)
  BY DEF Tables, CubeOn
<1>3. PICK c \in Seq(Literals(leaves)) :
         /\ ans.cubes = <<c>> /\ Len(c) = Cardinality(X)
         /\ {c[i].index : i \in 1..Len(c)} = X
  BY DEF OneCube
<1>4. ans.cover = T
  BY DEF OneCube
<1>5. Cofactor0(leaves, T, k) = T /\ Cofactor1(leaves, T, k) = T
  <2>1. \A a \in SUBSET leaves : (a \ {k}) \cap X = a \cap X /\ (a \cup {k}) \cap X = a \cap X
    OBVIOUS
  <2>2. \A a \in SUBSET leaves : a \ {k} \in SUBSET leaves /\ a \cup {k} \in SUBSET leaves
    OBVIOUS
  <2> QED BY <2>1, <2>2 DEF Cofactor0, Cofactor1, CubeOn
<1>6. lower[<<{}, T>>] = None
  BY <1>2
<1>7. \A t : add_literal(<<>>, t) = <<>>
  BY DEF add_literal
<1>8. None.cubes = <<>> /\ None.cover = {} /\ T \ T = {} /\ T \cap T = T /\ T \ {} = T /\ T \cup T = T
  BY DEF None
<1>9. lower[<<(T \ None.cover) \cup (T \ None.cover), T \cap T>>] = ans
  BY <1>8
<1> HIDE DEF T, ans, None
<1>10. rec = [cubes |-> add_literal(None.cubes, Signal(k, TRUE)) \o add_literal(None.cubes, Signal(k, FALSE))
                        \o ans.cubes,
              cover |-> {a \in None.cover : k \notin a} \cup {a \in None.cover : k \in a} \cup ans.cover]
  BY <1>1, <1>5, <1>6, <1>8, <1>9 DEF isop_rec
<1>11. rec.cubes = <<c>>
  <2>1. rec.cubes = <<>> \o <<>> \o <<c>>
    <3>1. add_literal(None.cubes, Signal(k, TRUE)) = <<>> /\ add_literal(None.cubes, Signal(k, FALSE)) = <<>>
      BY <1>7, <1>8
    <3> HIDE DEF rec
    <3>2. rec.cubes = add_literal(None.cubes, Signal(k, TRUE)) \o add_literal(None.cubes, Signal(k, FALSE))
                      \o ans.cubes
      BY <1>10
    <3> QED BY <1>3, <3>1, <3>2
  <2>2. <<c>> \in Seq({c}) /\ <<>> \in Seq({c})
    OBVIOUS
  <2> QED BY <2>1, <2>2, ConcatEmptySeq
<1>12. rec.cover = T
  BY <1>4, <1>8, <1>10
<1> HIDE DEF rec
<1>13. OneCube(leaves, X, p, rec)
  BY <1>3, <1>11, <1>12 DEF OneCube, T
<1> QED BY <1>13 DEF rec, T

\* A cube becomes one product, with a literal for each of its variables.
LEMMA IsopCube ==
  ASSUME NEW n \in Nat, NEW leaves \in SUBSET (1..n), leaves # {}, NEW p \in SUBSET leaves
  PROVE  \E c \in Seq(Literals(leaves)) :
            /\ create_sop_form({p}, leaves) = <<c>> /\ Len(c) = Cardinality(leaves)
            /\ {c[i].index : i \in 1..Len(c)} = leaves
<1> DEFINE last == Max(leaves)
           I == isop(leaves)
<1>1. /\ leaves \in SUBSET Nat /\ 0 \notin leaves
      /\ last \in Nat /\ \A l \in leaves : l <= last
  <2>1. leaves \in SUBSET (0..n) /\ 0 \notin leaves
    OBVIOUS
  <2>2. last \in leaves /\ \A l \in leaves : l <= last
    BY <2>1, MaxFacts
  <2> HIDE DEF last
  <2>3. last \in 1..n
    BY <2>2
  <2> QED BY <2>1, <2>2, <2>3
<1>2. \A k \in 0..last : I[k] = [f \in Tables(leaves) \X Tables(leaves) |->
                                    isop_rec(leaves, I[k - 1], k, f[1], f[2])]
  BY <1>1, IsopEquation
<1>0. \A k \in 0..last : \A d \in Tables(leaves) : I[k][<<{}, d>>] = None
  BY <1>1, IsopNone
<1> DEFINE At(k, X, r) == OneCube(leaves, X, r, I[k][<<CubeOn(leaves, X, r), CubeOn(leaves, X, r)>>])
<1> HIDE DEF last, I
<1>3. ASSUME NEW k \in 0..last, NEW t \in Tables(leaves), NEW d \in Tables(leaves)
      PROVE  I[k][<<t, d>>] = isop_rec(leaves, I[k - 1], k, t, d)
  <2>1. <<t, d>> \in Tables(leaves) \X Tables(leaves)
    OBVIOUS
  <2> QED BY <1>2, <2>1
<1> DEFINE Good(k) == \A X \in SUBSET leaves : (\A l \in X : l <= k) => \A r \in SUBSET X : At(k, X, r)
           A == {k \in 0..last : ~ Good(k)}
<1>4. A = {}
  <2> SUFFICES ASSUME A # {} PROVE FALSE
    OBVIOUS
  <2>1. PICK k \in A : \A m \in A : k <= m
    <3>1. A \in SUBSET Nat
      BY <1>1
    <3> HIDE DEF A
    <3> QED BY <3>1, LeastMember
  <2>2. k \in 0..last /\ (k = 0 \/ (k - 1 \in 0..last /\ k - 1 \notin A))
    BY <1>1, <2>1
  <2>3. k # 0 => Good(k - 1)
    BY <2>2
  <2> SUFFICES ASSUME NEW X \in SUBSET leaves, \A l \in X : l <= k, NEW r \in SUBSET X
               PROVE  At(k, X, r)
    BY <2>1
  <2> HIDE DEF A, Good
  <2> DEFINE T == CubeOn(leaves, X, r)
             rec == isop_rec(leaves, I[k - 1], k, T, T)
  <2>4. T \in Tables(leaves)
    BY DEF Tables, CubeOn
  <2>5. I[k][<<T, T>>] = rec
    BY <1>3, <2>2, <2>4
  <2>6. T # {}
    <3>1. r \in T
      BY DEF CubeOn
    <3> QED BY <3>1
  <2> SUFFICES OneCube(leaves, X, r, rec)
    BY <2>5
  <2>7. CASE X = {}
    <3>1. T = SUBSET leaves
      BY <2>7 DEF CubeOn
    <3>2. rec = [cubes |-> << <<>> >>, cover |-> T]
      BY <2>6, <3>1 DEF isop_rec
    <3>3. <<>> \in Seq(Literals(leaves)) /\ Len(<<>>) = Cardinality(X) /\ {<<>>[i].index : i \in 1..Len(<<>>)} = X
      BY <2>7, FS_EmptySet
    <3> HIDE DEF rec
    <3> QED BY <3>2, <3>3 DEF OneCube
  <2>8. CASE X # {} /\ k \notin leaves
    <3>1. T # SUBSET leaves
      <4>1. (IF r = X THEN {} ELSE X) \notin T
        BY <2>8 DEF CubeOn
      <4>2. (IF r = X THEN {} ELSE X) \in SUBSET leaves
        OBVIOUS
      <4> HIDE DEF T
      <4> QED BY <4>1, <4>2
    <3>2. k # 0
      <4>1. PICK l \in X : l \in leaves
        BY <2>8
      <4>2. l \in Nat /\ l # 0 /\ l <= k
        BY <1>1, <4>1
      <4> QED BY <4>2
    <3>3. rec = I[k - 1][<<T, T>>]
      BY <2>6, <2>8, <3>1, <3>2 DEF isop_rec
    <3>4. \A l \in X : l <= k - 1
      BY <1>1, <2>2, <2>8
    <3>5. At(k - 1, X, r)
      BY <2>3, <3>2, <3>4 DEF Good
    <3> QED BY <3>3, <3>5
  <2>9. CASE X # {} /\ k \in leaves
    <3>1. k # 0 /\ k - 1 \in 0..last
      BY <1>1, <2>2, <2>9
    <3>2. \A d \in Tables(leaves) : I[k - 1][<<{}, d>>] = None
      BY <1>0, <3>1
    <3>3. CASE k \in X
      <4>1. \A l \in X \ {k} : l <= k - 1
        BY <1>1, <2>2
      <4>2. \A s \in SUBSET (X \ {k}) : At(k - 1, X \ {k}, s)
        BY <2>3, <3>1, <4>1 DEF Good
      <4>3. IsFiniteSet(X)
        <5>1. X \in SUBSET (1..n)
          OBVIOUS
        <5>2. IsFiniteSet(1..n)
          BY FS_Interval
        <5> QED BY <5>1, <5>2, FS_Subset
      <4> QED BY <1>1, <2>9, <3>1, <3>2, <3>3, <4>2, <4>3, IsopCubeSplit
    <3>4. CASE k \notin X
      <4>1. \A l \in X : l <= k - 1
        BY <1>1, <2>2, <3>4
      <4>2. At(k - 1, X, r)
        BY <2>3, <3>1, <4>1 DEF Good
      <4> QED BY <1>1, <2>9, <3>1, <3>2, <3>4, <4>2, IsopCubeSkip
    <3> QED BY <3>3, <3>4
  <2> QED BY <2>7, <2>8, <2>9
<1>5. At(last, leaves, p)
  <2>1. last \in 0..last
    BY <1>1
  <2>2. Good(last)
    BY <1>4, <2>1
  <2> HIDE DEF Good
  <2> QED BY <1>1, <2>2 DEF Good
<1>6. CubeOn(leaves, leaves, p) = {p}
  BY DEF CubeOn
<1>7. OneCube(leaves, leaves, p, I[last][<<{p}, {p}>>])
  BY <1>5, <1>6
<1>8. create_sop_form({p}, leaves) = I[last][<<{p}, {p}>>].cubes
  BY DEF create_sop_form, I, last
<1> QED BY <1>7, <1>8 DEF OneCube

\* Nothing is joined: the one signal there is.
LEMMA TreeOfOne ==
  ASSUME NEW net, NEW p, NEW and
  PROVE  balanced_tree(net, <<p>>, and) = [net |-> net, cand |-> p]
<1> DEFINE q == <<p>>
           U == Joins(net, q, and)
<1>1. Len(q) = 1 /\ Len(q) \in Nat /\ q[1] = p /\ q # <<>>
  OBVIOUS
<1> HIDE DEF q
<1>2. U[0] = [net |-> net, queue |-> q]
  BY <1>1, JoinsEquation
<1>3. balanced_tree(net, q, and) = [net |-> U[0].net, cand |-> U[0].queue[1]]
  BY <1>1 DEF balanced_tree
<1> HIDE DEF U
<1> QED BY <1>1, <1>2, <1>3 DEF q

\* Two signals are joined once.
LEMMA TreeOfTwo ==
  ASSUME NEW net, NEW q \in Seq(Timed(net)), Len(q) = 2, NEW and \in BOOLEAN
  PROVE  balanced_tree(net, q, and).cand.level = Over(q[1].level, q[2].level)
<1>2. q # <<>> /\ Len(q) - 1 = 1
  <2>1. Len(q) - 1 = 1
    OBVIOUS
  <2>2. q = <<>> => Len(q) = 0
    OBVIOUS
  <2>3. Len(q) # 0
    OBVIOUS
  <2>4. q # <<>>
    BY <2>2, <2>3
  <2> QED BY <2>1, <2>4
<1> DEFINE U == Joins(net, q, and)
           i == Top(q)
           others == RemoveAt(q, i)
           j == Top(others)
           rest == RemoveAt(others, j)
           s == q[i]
           t == others[j]
           made == IF and THEN create_and(net, s.f, t.f) ELSE create_or(net, s.f, t.f)
           p == [f |-> made.f, level |-> JoinLevel(s, t)]
           acc == [net |-> net, queue |-> q]
<1>1. U[0] = acc /\ U[1] = Join(U[0], and)
  <2>1. Len(q) \in Nat /\ 1 \in 1..Len(q)
    OBVIOUS
  <2> QED BY <2>1, JoinsEquation
<1>3. balanced_tree(net, q, and) = [net |-> U[1].net, cand |-> U[1].queue[1]]
  BY <1>2 DEF balanced_tree
<1> HIDE DEF U, acc
<1>4. acc.net = net /\ acc.queue = q
  BY DEF acc
<1>5. Join(acc, and) = [net |-> made.net, queue |-> Append(rest, p)]
  BY <1>4 DEF Join
<1> HIDE DEF p, Timed
<1>6. i \in 1..Len(q) /\ q[1] \in Timed(net) /\ q[2] \in Timed(net)
  BY TopFacts
<1> HIDE DEF i
<1>7. /\ others \in Seq(Timed(net)) /\ Len(others) = 1
      /\ \A k \in 1..Len(others) : others[k] = q[IF k < i THEN k ELSE k + 1]
  <2>1. others = RemoveAt(q, i)
    OBVIOUS
  <2> HIDE DEF others
  <2>2. /\ others \in Seq(Timed(net)) /\ Len(others) = Len(q) - 1
        /\ \A k \in 1..Len(others) : others[k] = q[IF k < i THEN k ELSE k + 1]
    BY <1>6, <2>1, RemoveFacts
  <2> QED BY <2>2
<1> HIDE DEF others
<1>8. j \in 1..Len(others)
  <2>1. Len(others) # 0
    BY <1>7
  <2> QED BY <1>7, <2>1, TopFacts
<1>9. j = 1
  BY <1>7, <1>8
<1> HIDE DEF j
<1>10. Len(rest) = 0 /\ rest \in Seq(Timed(net))
  <2>1. rest = RemoveAt(others, j)
    OBVIOUS
  <2> HIDE DEF rest
  <2>2. rest \in Seq(Timed(net)) /\ Len(rest) = Len(others) - 1
    BY <1>7, <1>8, <2>1, RemoveFacts
  <2> QED BY <1>7, <2>2
<1> HIDE DEF rest
<1>11. Append(rest, p)[1] = p
  BY <1>10
<1>12. (i = 1 /\ t = q[2]) \/ (i = 2 /\ t = q[1])
  BY <1>6, <1>7, <1>9
<1>13. balanced_tree(net, q, and).cand.level = JoinLevel(s, t)
  <2>1. balanced_tree(net, q, and).cand = p
    BY <1>1, <1>3, <1>5, <1>11
  <2> QED BY <2>1 DEF p
<1>14. q[1].level \in Nat /\ q[2].level \in Nat
  BY <1>6 DEF Timed
<1>15. JoinLevel(s, t) = Over(q[1].level, q[2].level)
  BY <1>12, <1>14 DEF JoinLevel, Over, Earlier
<1> QED BY <1>13, <1>15

\* The candidate over the fanins is one later than the later of the two.
Pair(leaves, x, y) ==
    /\ x \in Nat /\ y \in Nat /\ x # 0 /\ y # 0 /\ x # y
    /\ \A l : l \in leaves <=> l = x \/ l = y

LEMMA FaninLevel ==
  ASSUME NEW leaves, NEW x, NEW y, Pair(leaves, x, y), Arrived(leaves), NEW p \in SUBSET leaves
  PROVE  Rebalanced(dest, {p}, leaves).cand.level = Over(old_to_new[x].level, old_to_new[y].level)
<1> DEFINE new == Rebalanced(dest, {p}, leaves)
<1> DEFINE cubes == create_sop_form({p}, leaves)
           sop == create_function(dest, {p}, leaves)
           U == Products(dest, cubes)
           sum == balanced_tree(sop.net, sop.and_terms, FALSE)
<1>1. PICK c \in Seq(Literals(leaves)) :
        /\ cubes = <<c>> /\ Len(c) = Cardinality(leaves)
        /\ {c[i].index : i \in 1..Len(c)} = leaves
  <2> DEFINE n == x + y
  <2>1. n \in Nat /\ x \in 1..n /\ y \in 1..n
    BY DEF Pair
  <2> HIDE DEF n
  <2>2. leaves \in SUBSET (1..n) /\ leaves # {}
    BY <2>1 DEF Pair
  <2> QED BY <2>1, <2>2, IsopCube
<1>2. Cardinality(leaves) = 2
  <2>1. IsFiniteSet({x}) /\ Cardinality({x}) = 1
    BY FS_Singleton
  <2>2. y \notin {x} /\ {x} \cup {y} = leaves
    BY DEF Pair
  <2>3. Cardinality({x} \cup {y}) = Cardinality({x}) + 1
    BY <2>1, <2>2, FS_AddElement
  <2> HIDE DEF cubes, sop, U, sum
  <2>4. Cardinality(leaves) = Cardinality({x}) + 1 /\ Cardinality({x}) = 1
    BY <2>1, <2>2, <2>3
  <2> QED BY <2>4
<1> HIDE DEF cubes
<1>3. Len(cubes) = 1 /\ cubes[1] = c /\ Len(cubes) \in Nat /\ 1 \in 1..Len(cubes)
  BY <1>1
<1>4. U[0] = [net |-> dest, and_terms |-> <<>>, size |-> 0] /\ U[1] = Product(U[0], c)
  BY <1>3, ProductsEquation
<1>5. sop = U[1]
  BY <1>3 DEF create_function, cubes
<1> DEFINE q == [i \in DOMAIN c |-> Arrival(c[i])]
           tree == balanced_tree(dest, q, TRUE)
<1> HIDE DEF U, sop
<1>6. sop.and_terms = Append(<<>>, tree.cand)
  <2> DEFINE acc == [net |-> dest, and_terms |-> <<>>, size |-> 0]
  <2>1. acc.net = dest /\ acc.and_terms = <<>>
    OBVIOUS
  <2> HIDE DEF acc
  <2>2. Product(acc, c).and_terms = Append(<<>>, tree.cand)
    BY <2>1 DEF Product
  <2> QED BY <1>4, <1>5, <2>2 DEF acc
<1> HIDE DEF tree
<1>7. sum = [net |-> sop.net, cand |-> tree.cand]
  <2>1. sop.and_terms = <<tree.cand>>
    BY <1>6
  <2> QED BY <2>1, TreeOfOne
<1>8. new.cand = sum.cand
  BY DEF Rebalanced, sop, sum
<1> HIDE DEF sum, Literals, Timed
<1>9. DOMAIN c = 1..2 /\ 1 \in 1..2 /\ 2 \in 1..2 /\ c[1] \in Literals(leaves) /\ c[2] \in Literals(leaves)
  BY <1>1, <1>2
<1>10. q \in Seq(Timed(dest)) /\ Len(q) = 2 /\ q[1] = Arrival(c[1]) /\ q[2] = Arrival(c[2])
  <2>1. \A i \in 1..2 : Arrival(c[i]) \in Timed(dest)
    <3>1. \A i \in 1..2 : c[i] \in Literals(leaves)
      BY <1>9
    <3> QED BY <3>1 DEF Arrived
  <2> QED BY <1>9, <2>1
<1> HIDE DEF q
<1>11. tree.cand.level = Over(q[1].level, q[2].level)
  BY <1>10, TreeOfTwo DEF tree
<1>12. q[1].level = old_to_new[c[1].index].level /\ q[2].level = old_to_new[c[2].index].level
  BY <1>10 DEF Arrival
<1>13. {c[1].index, c[2].index} = {x, y}
  <2>1. {c[i].index : i \in 1..2} = leaves
    BY <1>1, <1>2
  <2>2. \A i \in 1..2 : i = 1 \/ i = 2
    OBVIOUS
  <2>3. {c[1].index, c[2].index} = leaves
    BY <1>9, <2>1, <2>2
  <2>4. {x, y} = leaves
    BY DEF Pair
  <2> QED BY <2>3, <2>4
<1>14. q[1].level \in Nat /\ q[2].level \in Nat
  <2>1. q[1] \in Timed(dest) /\ q[2] \in Timed(dest)
    <3>1. 1 \in 1..Len(q) /\ 2 \in 1..Len(q)
      BY <1>10
    <3> QED BY <1>10, <3>1, ElementOfSeq
  <2> QED BY <2>1 DEF Timed
<1>15. \/ q[1].level = old_to_new[x].level /\ q[2].level = old_to_new[y].level
       \/ q[1].level = old_to_new[y].level /\ q[2].level = old_to_new[x].level
  BY <1>12, <1>13
<1>16. Over(q[1].level, q[2].level) = Over(old_to_new[x].level, old_to_new[y].level)
  BY <1>14, <1>15 DEF Over
<1> QED BY <1>7, <1>8, <1>11, <1>16

-----------------------------------------------------------------------------
(* The invariant of the pass.                                              *)

\* A signal that stands for a node, with a level it does not exceed.
StandsFor(net, into, n, p) ==
    /\ Tracks(net, into, n, p.f)
    /\ p.level \in Nat /\ Depth(into, p.f.index) <= p.level

\* The fanins are a cut, and the candidate over them is not later than the gate was:
\* as long as it has not been tried yet, no other candidate matters.
BalanceInv ==
    /\ phase \in {"gate", "cuts", "done"}
    /\ phase = "done" => dest = EmptyNetwork(0)
    /\ phase # "done" =>
          /\ IsNetwork(ntk) /\ IsNetwork(dest) /\ dest.pis = ntk.pis
          /\ gate \in (ntk.pis + 1)..(ntk.pis + Len(ntk.gates) + 1)
          /\ DOMAIN old_to_new = 0..ntk.pis \cup {m \in LiveGates(ntk) : m < gate}
          /\ \A n \in DOMAIN old_to_new :
                StandsFor(ntk, dest, n, old_to_new[n]) /\ old_to_new[n].level <= Depth(ntk, n)
    /\ phase = "cuts" =>
          /\ gate \in LiveGates(ntk) /\ left \subseteq CutsToTry(gate)
          /\ best.level # NoLevel => StandsFor(ntk, dest, gate, best)
          /\ \/ FaninNodes(ntk, gate) \in left
             \/ best.level # NoLevel /\ best.level <= Depth(ntk, gate)

LEMMA StandsForGrows ==
  ASSUME NEW net, NEW into, IsNetwork(into), NEW big, Grows(into, big), NEW n, NEW p,
         StandsFor(net, into, n, p)
  PROVE  StandsFor(net, big, n, p)
<1>1. Tracks(net, big, n, p.f)
  BY TracksGrows DEF StandsFor
<1>2. p.f.index \in Nodes(into)
  BY DEF StandsFor, Tracks, SignalsOf
<1>3. Depth(big, p.f.index) = Depth(into, p.f.index)
  BY <1>2, GrowsDepth
<1> QED BY <1>1, <1>3 DEF StandsFor

\* The leaves of a cut have their signals when it is tried.
LEMMA CutArrived ==
  ASSUME BalanceInv, phase = "cuts", NEW cut \in CutsToTry(gate)
  PROVE  /\ cut \in LeafSets(ntk, gate) /\ cut \in SUBSET (1..(gate - 1)) /\ cut # {}
         /\ \A l \in cut : l \in DOMAIN old_to_new
         /\ Arrived(cut)
<1>1. IsNetwork(ntk) /\ IsNetwork(dest) /\ gate \in LiveGates(ntk) /\ cut \in IrredundantCuts(ntk, gate)
  BY DEF BalanceInv, CutsToTry
<1>2. /\ cut \in LeafSets(ntk, gate) /\ cut \in SUBSET (1..(gate - 1)) /\ cut # {}
      /\ \A l \in cut : l \in 1..ntk.pis \/ l \in LiveGates(ntk)
  BY <1>1, CutLeaves
<1>3. ntk.pis \in Nat /\ gate \in Nat
  BY <1>1, NetworkFacts DEF LiveGates, Gates
<1>4. \A l \in cut : l \in DOMAIN old_to_new /\ l \in Nat
  <2> TAKE l \in cut
  <2>1. l \in 1..(gate - 1)
    BY <1>2
  <2>2. l \in Nat /\ l < gate
    BY <1>3, <2>1
  <2>3. l \in 0..ntk.pis \cup {m \in LiveGates(ntk) : m < gate}
    BY <1>2, <1>3, <2>2
  <2> QED BY <2>2, <2>3 DEF BalanceInv
<1> DEFINE map == [n \in DOMAIN old_to_new |-> old_to_new[n].f]
<1>5. ASSUME NEW s \in Literals(cut)
      PROVE  /\ Arrival(s) \in Timed(dest)
             /\ \A a : On(dest, a, Arrival(s).f) <=> Meant(Given(cut, a), s)
  <2>1. s \in Signals /\ s.index \in cut /\ s.index \in DOMAIN old_to_new
    BY <1>4 DEF Literals
  <2>2. StandsFor(ntk, dest, s.index, old_to_new[s.index])
    BY <2>1 DEF BalanceInv
  <2>3. map[s.index] = old_to_new[s.index].f
    BY <2>1
  <2>4. Arrival(s) = [f |-> Image(map, s), level |-> old_to_new[s.index].level]
    BY DEF Arrival
  <2> HIDE DEF map
  <2>5. map[s.index] \in SignalsOf(dest)
        /\ \A a : On(dest, a, map[s.index]) <=> Values(ntk, Inputs(ntk), a)[s.index]
    BY <2>2, <2>3 DEF StandsFor, Tracks
  <2>6. /\ Image(map, s) \in SignalsOf(dest)
        /\ \A a : On(dest, a, Image(map, s)) <=> (On(dest, a, map[s.index]) # s.complement)
    BY <1>1, <2>1, <2>5, ImageFacts
  <2>7. Image(map, s).index = map[s.index].index
    <3>1. map[s.index] \in Signals
      BY <2>5 DEF SignalsOf
    <3>2. create_not(map[s.index]).index = map[s.index].index
      BY <3>1, SignalFacts
    <3> QED BY <3>2 DEF Image
  <2>8. Arrival(s) \in Timed(dest)
    <3> DEFINE r == [f |-> Image(map, s), level |-> old_to_new[s.index].level]
    <3>1. /\ r \in [f: SignalsOf(dest), level: Nat] /\ r.f = Image(map, s)
          /\ r.level = old_to_new[s.index].level
      BY <2>2, <2>6 DEF StandsFor
    <3>2. Arrival(s) = r
      BY <2>4
    <3> HIDE DEF r
    <3>3. Depth(dest, r.f.index) <= r.level
      BY <2>2, <2>3, <2>7, <3>1 DEF StandsFor
    <3> QED BY <3>1, <3>2, <3>3 DEF Timed
  <2>9. \A a : On(dest, a, Arrival(s).f) <=> (On(dest, a, map[s.index]) # s.complement)
    BY <2>4, <2>6
  <2>10. \A a : On(dest, a, map[s.index]) \in BOOLEAN
    BY <1>1, <2>5, SignalValues
  <2>11. \A a : s.index \in Given(cut, a) <=> Values(ntk, Inputs(ntk), a)[s.index]
    BY <2>1 DEF Given
  <2>12. s.complement \in BOOLEAN
    BY <2>1, SignalFacts
  <2> QED BY <2>5, <2>8, <2>9, <2>10, <2>11, <2>12 DEF Meant
<1> QED BY <1>2, <1>4, <1>5 DEF Arrived

\* Every candidate stands for the gate, and the one over the fanins is as early as the
\* gate was.
LEMMA CandidateCorrect ==
  ASSUME BalanceInv, phase = "cuts", NEW cut \in CutsToTry(gate), NEW new,
         new = Rebalanced(dest, truth_table(ntk, Signal(gate, FALSE), cut), cut)
  PROVE  /\ Grows(dest, new.net) /\ StandsFor(ntk, new.net, gate, new.cand) /\ new.size \in Nat
         /\ cut = FaninNodes(ntk, gate) => new.cand.level <= Depth(ntk, gate)
<1> DEFINE table == truth_table(ntk, Signal(gate, FALSE), cut)
<1>1. IsNetwork(ntk) /\ IsNetwork(dest) /\ gate \in Gates(ntk) /\ gate - 1 \in Nat
  <2>1. IsNetwork(ntk) /\ IsNetwork(dest) /\ gate \in Gates(ntk)
    BY DEF BalanceInv, LiveGates
  <2>2. ntk.pis \in Nat /\ Len(ntk.gates) \in Nat
    BY <2>1, NetworkFacts
  <2> QED BY <2>1, <2>2 DEF Gates
<1>2. /\ cut \in LeafSets(ntk, gate) /\ cut \in SUBSET (1..(gate - 1)) /\ cut # {}
      /\ \A l \in cut : l \in DOMAIN old_to_new
      /\ Arrived(cut)
  BY CutArrived
<1>3. table \in Tables(cut) /\ table # {}
  BY DEF Tables, truth_table, CutsToTry
<1>4. new = Rebalanced(dest, table, cut)
  OBVIOUS
<1>5. \A a : Given(cut, a) \in table <=> Values(ntk, Inputs(ntk), a)[gate]
  BY <1>1, <1>2, CutValues DEF Given
<1> HIDE DEF table
<1>6. /\ Grows(dest, new.net) /\ new.cand \in Timed(new.net) /\ new.size \in Nat
      /\ \A a : On(new.net, a, new.cand.f) <=> Given(cut, a) \in table
  BY <1>1, <1>2, <1>3, <1>4, RebalancedCorrect
<1>7. StandsFor(ntk, new.net, gate, new.cand)
  BY <1>5, <1>6 DEF Timed, StandsFor, Tracks
<1>8. ASSUME cut = FaninNodes(ntk, gate) PROVE new.cand.level <= Depth(ntk, gate)
  <2> DEFINE x == Fanins(ntk, gate)[1].index
             y == Fanins(ntk, gate)[2].index
             p == {Fanins(ntk, gate)[i].index : i \in {j \in 1..2 : ~ Fanins(ntk, gate)[j].complement}}
  <2>1. table = {p}
    BY <1>1, <1>8, FaninTable DEF table
  <2>2. FaninNodes(ntk, gate) = {x, y}
    BY <1>1, FaninCut
  <2>3. p \in SUBSET cut
    BY <1>3, <2>1 DEF Tables
  <2>4. x # y
    <3>1. x < y /\ x \in Nat /\ y \in Nat
      <4>1. Fanins(ntk, gate)[1].index < Fanins(ntk, gate)[2].index
        BY <1>1 DEF IsNetwork
      <4>2. 1 \in 1..2 /\ 2 \in 1..2
        OBVIOUS
      <4> QED BY <1>1, <4>1, <4>2, NetworkFacts DEF Nodes
    <3> QED BY <3>1
  <2>5. Depth(ntk, gate) = Over(Depth(ntk, x), Depth(ntk, y))
    BY <1>1, DepthEquation
  <2> HIDE DEF x, y, p
  <2>6. x \in cut /\ y \in cut /\ \A l : l \in cut <=> l = x \/ l = y
    BY <1>8, <2>2
  <2>7. x \in 1..(gate - 1) /\ y \in 1..(gate - 1)
    BY <1>2, <2>6
  <2>8. new = Rebalanced(dest, {p}, cut)
    BY <1>4, <2>1
  <2>9. new.cand.level = Over(old_to_new[x].level, old_to_new[y].level)
    <3>1. Pair(cut, x, y)
      BY <1>1, <2>4, <2>6, <2>7 DEF Pair
    <3>2. Rebalanced(dest, {p}, cut).cand.level = Over(old_to_new[x].level, old_to_new[y].level)
      BY <1>2, <2>3, <3>1, FaninLevel
    <3> QED BY <2>8, <3>2
  <2>10. /\ old_to_new[x].level <= Depth(ntk, x) /\ old_to_new[x].level \in Nat
         /\ old_to_new[y].level <= Depth(ntk, y) /\ old_to_new[y].level \in Nat
    BY <1>2, <2>6 DEF BalanceInv, StandsFor
  <2>11. Depth(ntk, x) \in Nat /\ Depth(ntk, y) \in Nat
    <3>1. x \in Nodes(ntk) /\ y \in Nodes(ntk)
      BY <1>1, <2>7, NetworkFacts DEF Nodes, Gates
    <3> QED BY <1>1, <3>1, DepthEquation
  <2> DEFINE u == old_to_new[x].level
             v == old_to_new[y].level
             d == Depth(ntk, x)
             e == Depth(ntk, y)
  <2>12. u \in Nat /\ v \in Nat /\ d \in Nat /\ e \in Nat /\ u <= d /\ v <= e
    BY <2>10, <2>11
  <2> HIDE DEF u, v, d, e
  <2>13. Over(u, v) <= Over(d, e)
    BY <2>12 DEF Over
  <2> QED BY <2>5, <2>9, <2>13 DEF u, v, d, e
<1> QED BY <1>6, <1>7, <1>8

-----------------------------------------------------------------------------
(* The steps of the pass.                                                  *)

LEMMA BeginBalanceInv == ASSUME NEW net, IsNetwork(net), BeginBalance(net) PROVE BalanceInv'
<1>1. /\ ntk' = net /\ dest' = EmptyNetwork(net.pis) /\ gate' = net.pis + 1 /\ phase' = "gate"
      /\ old_to_new' = [n \in 0..net.pis |-> [f |-> Signal(n, FALSE), level |-> 0]]
  BY DEF BeginBalance
<1>2. net.pis \in Nat /\ Len(net.gates) \in Nat
  BY NetworkFacts
<1> DEFINE e == EmptyNetwork(net.pis)
<1>3. IsNetwork(e) /\ e.pis = net.pis /\ Inputs(e) = Inputs(net)
  BY <1>2, EmptyIsNetwork DEF Inputs
<1> HIDE DEF e
<1>4. ASSUME NEW n \in 0..net.pis
      PROVE  /\ Tracks(net, e, n, Signal(n, FALSE))
             /\ Depth(e, n) = 0 /\ Depth(net, n) = 0 /\ Signal(n, FALSE).index = n
  <2>1. Signal(n, FALSE) \in SignalsOf(e)
        /\ \A a : On(e, a, Signal(n, FALSE)) <=> n \in Inputs(e) /\ n \in a
    BY <1>3, InputValues
  <2>2. \A a : Values(net, Inputs(net), a)[n] <=> n \in Inputs(net) /\ n \in a
    BY InputValues
  <2>3. Depth(e, n) = 0 /\ Depth(net, n) = 0
    BY <1>3, DepthEquation
  <2>4. Signal(n, FALSE).index = n
    BY DEF Signal
  <2> QED BY <1>3, <2>1, <2>2, <2>3, <2>4 DEF Tracks
<1>5. ASSUME NEW n \in DOMAIN old_to_new'
      PROVE  StandsFor(net, e, n, old_to_new'[n]) /\ old_to_new'[n].level <= Depth(net, n)
  <2>1. n \in 0..net.pis /\ old_to_new'[n].f = Signal(n, FALSE) /\ old_to_new'[n].level = 0
    BY <1>1
  <2> DEFINE p == old_to_new'[n]
  <2>2. /\ Tracks(net, e, n, p.f) /\ p.level = 0 /\ p.f.index = n
        /\ Depth(e, n) = 0 /\ Depth(net, n) = 0
    BY <1>4, <2>1
  <2> HIDE DEF p
  <2>3. StandsFor(net, e, n, p) /\ p.level <= Depth(net, n)
    BY <2>2 DEF StandsFor
  <2> QED BY <2>3 DEF p
<1>6. {m \in LiveGates(net) : m < gate'} = {}
  BY <1>1, <1>2 DEF LiveGates, Gates
<1>7. DOMAIN old_to_new' = 0..net.pis \cup {m \in LiveGates(net) : m < gate'}
  BY <1>1, <1>6
<1>8. gate' \in (net.pis + 1)..(net.pis + Len(net.gates) + 1)
  BY <1>1, <1>2
<1> QED BY <1>1, <1>3, <1>5, <1>7, <1>8 DEF BalanceInv, e

\* What the invariant says between two gates is enough to go on.
LEMMA GateDoneInv ==
  ASSUME BalanceInv, phase # "done", gate \in Gates(ntk), phase' = "gate", gate' = gate + 1,
         ntk' = ntk, dest' = dest,
         DOMAIN old_to_new' = DOMAIN old_to_new \cup ({gate} \cap LiveGates(ntk)),
         \A n \in DOMAIN old_to_new' :
            StandsFor(ntk, dest, n, old_to_new'[n]) /\ old_to_new'[n].level <= Depth(ntk, n)
  PROVE  BalanceInv'
<1>1. /\ IsNetwork(ntk) /\ IsNetwork(dest) /\ dest.pis = ntk.pis
      /\ ntk.pis \in Nat /\ Len(ntk.gates) \in Nat
  BY NetworkFacts DEF BalanceInv
<1>2. gate \in Nat /\ gate' \in (ntk.pis + 1)..(ntk.pis + Len(ntk.gates) + 1)
  BY <1>1 DEF Gates
<1>3. \A m \in LiveGates(ntk) : m \in Nat
  BY <1>1 DEF LiveGates, Gates
<1>4. {m \in LiveGates(ntk) : m < gate'} = {m \in LiveGates(ntk) : m < gate} \cup ({gate} \cap LiveGates(ntk))
  BY <1>2, <1>3
<1>5. DOMAIN old_to_new' = 0..ntk.pis \cup {m \in LiveGates(ntk) : m < gate'}
  BY <1>4 DEF BalanceInv
<1> QED BY <1>1, <1>2, <1>5 DEF BalanceInv

LEMMA SkipInv == ASSUME BalanceInv, SkipGate PROVE BalanceInv'
<1>1. /\ phase = "gate" /\ gate \in Gates(ntk) /\ gate \notin LiveGates(ntk) /\ gate' = gate + 1
      /\ ntk' = ntk /\ dest' = dest /\ old_to_new' = old_to_new /\ phase' = phase
  BY DEF SkipGate
<1>2. DOMAIN old_to_new' = DOMAIN old_to_new \cup ({gate} \cap LiveGates(ntk))
  BY <1>1
<1>3. \A n \in DOMAIN old_to_new' :
            StandsFor(ntk, dest, n, old_to_new'[n]) /\ old_to_new'[n].level <= Depth(ntk, n)
  BY <1>1 DEF BalanceInv
<1> QED BY <1>1, <1>2, <1>3, GateDoneInv

LEMMA VisitInv == ASSUME BalanceInv, VisitGate PROVE BalanceInv'
<1>1. /\ phase = "gate" /\ gate \in LiveGates(ntk) /\ phase' = "cuts" /\ left' = CutsToTry(gate)
      /\ best' = NoCandidate /\ ntk' = ntk /\ dest' = dest /\ old_to_new' = old_to_new /\ gate' = gate
  BY DEF VisitGate
<1>2. IsNetwork(ntk) /\ gate \in Gates(ntk)
  BY <1>1 DEF BalanceInv, LiveGates
<1>3. FaninNodes(ntk, gate) \in CutsToTry(gate)
  <2>1. /\ FaninNodes(ntk, gate) \in IrredundantCuts(ntk, gate)
        /\ Cardinality(FaninNodes(ntk, gate)) = 2
    BY <1>2, FaninCut
  <2>2. truth_table(ntk, Signal(gate, FALSE), FaninNodes(ntk, gate)) # {}
    BY <1>2, FaninTable
  <2> DEFINE c == FaninNodes(ntk, gate)
  <2>3. Cardinality(c) # 1
    BY <2>1
  <2> HIDE DEF c
  <2>4. c \in CutsToTry(gate)
    BY <2>1, <2>2, <2>3 DEF CutsToTry, c
  <2> QED BY <2>4 DEF c
<1>4. left' \subseteq CutsToTry(gate) /\ CutsToTry(gate)' = CutsToTry(gate)
  BY <1>1 DEF CutsToTry
<1>5. best'.level = NoLevel
  BY <1>1 DEF NoCandidate
<1> QED BY <1>1, <1>3, <1>4, <1>5 DEF BalanceInv

LEMMA TryCutInv == ASSUME BalanceInv, TryCut PROVE BalanceInv'
<1>1. /\ phase = "cuts" /\ ntk' = ntk /\ old_to_new' = old_to_new /\ gate' = gate /\ phase' = phase
  BY DEF TryCut
<1> DEFINE Made(cut) == Rebalanced(dest, truth_table(ntk, Signal(gate, FALSE), cut), cut)
<1>2. PICK cut \in left :
        /\ dest' = Made(cut).net
        /\ best' = IF Better(Made(cut).cand, Made(cut).size)
                   THEN [f |-> Made(cut).cand.f, level |-> Made(cut).cand.level, size |-> Made(cut).size]
                   ELSE best
        /\ left' = left \ {cut}
  BY DEF TryCut, Keep
<1> DEFINE new == Made(cut)
<1>3. cut \in CutsToTry(gate) /\ left' \subseteq CutsToTry(gate) /\ CutsToTry(gate)' = CutsToTry(gate)
  BY <1>1, <1>2 DEF BalanceInv, CutsToTry
<1>4. /\ Grows(dest, new.net) /\ StandsFor(ntk, new.net, gate, new.cand) /\ new.size \in Nat
      /\ cut = FaninNodes(ntk, gate) => new.cand.level <= Depth(ntk, gate)
  BY <1>1, <1>3, CandidateCorrect
<1>5. /\ dest' = new.net
      /\ best' = IF Better(new.cand, new.size)
                 THEN [f |-> new.cand.f, level |-> new.cand.level, size |-> new.size] ELSE best
  BY <1>2
<1> HIDE DEF new, Made
<1>6. /\ IsNetwork(ntk) /\ IsNetwork(dest) /\ IsNetwork(new.net) /\ new.net.pis = ntk.pis
  BY <1>1, <1>4 DEF BalanceInv, Grows
<1>7. \A n \in DOMAIN old_to_new :
         StandsFor(ntk, new.net, n, old_to_new[n]) /\ old_to_new[n].level <= Depth(ntk, n)
  BY <1>1, <1>4, <1>6, StandsForGrows DEF BalanceInv
<1>8. best.level # NoLevel => StandsFor(ntk, new.net, gate, best)
  BY <1>1, <1>4, <1>6, StandsForGrows DEF BalanceInv
<1>9. best'.level # NoLevel => StandsFor(ntk, new.net, gate, best')
  <2>1. CASE Better(new.cand, new.size)
    <3>1. best'.f = new.cand.f /\ best'.level = new.cand.level
      BY <1>5, <2>1
    <3> QED BY <1>4, <3>1 DEF StandsFor
  <2>2. CASE ~ Better(new.cand, new.size)
    BY <1>5, <1>8, <2>2
  <2> QED BY <2>1, <2>2
<1>10. gate \in LiveGates(ntk) /\ Depth(ntk, gate) \in Nat /\ new.cand.level \in Nat
  <2>1. gate \in LiveGates(ntk) /\ gate \in Gates(ntk)
    BY <1>1 DEF BalanceInv, LiveGates
  <2>2. gate \in Nodes(ntk)
    BY <1>6, <2>1, NetworkFacts DEF Gates, Nodes
  <2> QED BY <1>4, <1>6, <2>1, <2>2, DepthEquation DEF StandsFor
<1>11. \/ FaninNodes(ntk, gate) \in left'
       \/ best'.level # NoLevel /\ best'.level <= Depth(ntk, gate)
  <2> DEFINE d == Depth(ntk, gate)
             b == best.level
             c == new.cand.level
  <2>1. d \in Nat /\ c \in Nat /\ (b # NoLevel => b \in Nat)
    BY <1>8, <1>10 DEF StandsFor
  <2>2. \/ FaninNodes(ntk, gate) \in left /\ FaninNodes(ntk, gate) # cut
        \/ c <= d
        \/ b # NoLevel /\ b <= d
    BY <1>1, <1>4 DEF BalanceInv
  <2>3. FaninNodes(ntk, gate) \in left /\ FaninNodes(ntk, gate) # cut => FaninNodes(ntk, gate) \in left'
    BY <1>2
  <2>4. best'.level = IF Better(new.cand, new.size) THEN c ELSE b
    BY <1>5
  <2>5. /\ Better(new.cand, new.size) /\ b # NoLevel => c <= b
        /\ ~ Better(new.cand, new.size) => b # NoLevel /\ b <= c
    BY <2>1 DEF Better
  <2> HIDE DEF d, b, c
  <2>6. (c <= d \/ (b # NoLevel /\ b <= d)) => best'.level # NoLevel /\ best'.level <= d
    BY <2>1, <2>4, <2>5 DEF NoLevel
  <2> QED BY <2>2, <2>3, <2>6 DEF d
<1> QED BY <1>1, <1>3, <1>5, <1>6, <1>7, <1>9, <1>10, <1>11 DEF BalanceInv

LEMMA SettleGateInv == ASSUME BalanceInv, SettleGate PROVE BalanceInv'
<1>1. /\ phase = "cuts" /\ left = {} /\ gate' = gate + 1 /\ phase' = "gate" /\ ntk' = ntk /\ dest' = dest
      /\ old_to_new' = Known(old_to_new, gate, [f |-> best.f, level |-> best.level])
  BY DEF SettleGate
<1>2. /\ gate \in LiveGates(ntk) /\ gate \in Gates(ntk)
      /\ StandsFor(ntk, dest, gate, best) /\ best.level <= Depth(ntk, gate)
  BY <1>1 DEF BalanceInv, LiveGates
<1>3. /\ DOMAIN old_to_new' = DOMAIN old_to_new \cup {gate}
      /\ old_to_new'[gate].f = best.f /\ old_to_new'[gate].level = best.level
      /\ \A n \in DOMAIN old_to_new : n # gate => old_to_new'[n] = old_to_new[n]
  BY <1>1 DEF Known
<1>4. ASSUME NEW n \in DOMAIN old_to_new'
      PROVE  StandsFor(ntk, dest, n, old_to_new'[n]) /\ old_to_new'[n].level <= Depth(ntk, n)
  <2>1. CASE n = gate
    BY <1>2, <1>3, <2>1 DEF StandsFor
  <2>2. CASE n # gate
    <3>1. n \in DOMAIN old_to_new /\ old_to_new'[n] = old_to_new[n]
      BY <1>3, <2>2
    <3> QED BY <1>1, <3>1 DEF BalanceInv
  <2> QED BY <2>1, <2>2
<1>5. DOMAIN old_to_new' = DOMAIN old_to_new \cup ({gate} \cap LiveGates(ntk))
  BY <1>2, <1>3
<1> QED BY <1>1, <1>2, <1>4, <1>5, GateDoneInv

LEMMA BalanceStepInv == BalanceInv /\ BalanceStep => BalanceInv'
BY SkipInv, VisitInv, TryCutInv, SettleGateInv DEF BalanceStep

\* What balancing delivers.
LEMMA FinishBalanceDelivers ==
  ASSUME BalanceInv, FinishBalance
  PROVE  IsNetwork(ntk') /\ Outputs(ntk') = Outputs(ntk) /\ NetworkDepth(ntk') <= NetworkDepth(ntk)
<1> DEFINE signals == [n \in DOMAIN old_to_new |-> old_to_new[n].f]
           built == [dest EXCEPT !.pos = [i \in DOMAIN ntk.pos |-> Image(signals, ntk.pos[i])]]
<1>1. ntk' = cleanup_dangling(built) /\ phase # "done" /\ gate \notin Gates(ntk)
  BY DEF FinishBalance
<1>2. /\ IsNetwork(ntk) /\ IsNetwork(dest) /\ dest.pis = ntk.pis
      /\ ntk.pis \in Nat /\ Len(ntk.gates) \in Nat
  BY <1>1, NetworkFacts DEF BalanceInv
<1>3. DOMAIN old_to_new = 0..ntk.pis \cup LiveGates(ntk)
  <2>1. gate = ntk.pis + Len(ntk.gates) + 1
    BY <1>1, <1>2 DEF BalanceInv, Gates
  <2>2. \A m \in LiveGates(ntk) : m < gate
    BY <1>2, <2>1 DEF LiveGates, Gates
  <2> QED BY <1>1, <2>2 DEF BalanceInv
<1>4. ASSUME NEW i \in DOMAIN ntk.pos
      PROVE  /\ signals[ntk.pos[i].index] \in SignalsOf(dest)
             /\ \A a : On(dest, a, signals[ntk.pos[i].index]) <=> Values(ntk, Inputs(ntk), a)[ntk.pos[i].index]
             /\ Depth(dest, signals[ntk.pos[i].index].index) <= Depth(ntk, ntk.pos[i].index)
  <2> DEFINE n == ntk.pos[i].index
  <2>1. n \in DOMAIN old_to_new
    BY <1>2, <1>3, LiveClosed
  <2>2. StandsFor(ntk, dest, n, old_to_new[n]) /\ old_to_new[n].level <= Depth(ntk, n)
    BY <1>1, <2>1 DEF BalanceInv
  <2>3. signals[n] = old_to_new[n].f
    BY <2>1
  <2>4. n \in Nodes(ntk)
    BY <1>2 DEF IsNetwork
  <2> HIDE DEF n, signals
  <2>5. Depth(ntk, n) \in Nat
    BY <1>2, <2>4, DepthEquation
  <2>6. Depth(dest, signals[n].index) \in Nat
    <3>1. signals[n].index \in Nodes(dest)
      BY <2>2, <2>3 DEF StandsFor, Tracks, SignalsOf
    <3> QED BY <1>2, <3>1, DepthEquation
  <2>7. Depth(dest, signals[n].index) <= Depth(ntk, n)
    <3> DEFINE d == Depth(dest, signals[n].index)
               e == Depth(ntk, n)
               l == old_to_new[n].level
    <3>1. d \in Nat /\ e \in Nat /\ l \in Nat /\ d <= l /\ l <= e
      BY <2>2, <2>3, <2>5, <2>6 DEF StandsFor
    <3> HIDE DEF d, e, l
    <3>2. d <= e
      BY <3>1
    <3> QED BY <3>2 DEF d, e
  <2> QED BY <2>2, <2>3, <2>7 DEF n, StandsFor, Tracks
<1> HIDE DEF signals
<1>5. OutputsMapped(ntk, dest, signals)
  BY <1>4 DEF OutputsMapped
<1>6. IsNetwork(built) /\ Outputs(built) = Outputs(ntk)
  BY <1>2, <1>5, MappedOutputs
<1>7. NetworkDepth(built) <= NetworkDepth(ntk)
  BY <1>2, <1>4, <1>5, MappedDepth
<1> HIDE DEF built
<1>8. IsNetwork(ntk') /\ Outputs(ntk') = Outputs(built)
  BY <1>1, <1>6, CleanupCorrect
<1>9. NetworkDepth(ntk') <= NetworkDepth(built)
  BY <1>1, <1>6, CleanupDepth
<1>10. NetworkDepth(ntk') <= NetworkDepth(ntk)
  <2>1. NetworkDepth(ntk') \in Nat /\ NetworkDepth(built) \in Nat /\ NetworkDepth(ntk) \in Nat
    BY <1>2, <1>6, <1>8, NetworkDepthFacts
  <2> QED BY <1>7, <1>9, <2>1
<1> QED BY <1>6, <1>8, <1>10

\* The invariant says what the properties do.
LEMMA BalanceKeepsFunctions == BalanceInv => BalancePreserves
<1> SUFFICES ASSUME BalanceInv, phase # "done" PROVE BalancePreserves
  BY DEF BalancePreserves
<1>1. /\ IsNetwork(ntk) /\ dest.pis = ntk.pis
      /\ \A n \in DOMAIN old_to_new : n \in Nodes(ntk)
      /\ phase = "cuts" => gate \in Nodes(ntk)
  <2>1. IsNetwork(ntk) /\ dest.pis = ntk.pis
    BY DEF BalanceInv
  <2>2. ntk.pis \in Nat /\ Len(ntk.gates) \in Nat
    BY <2>1, NetworkFacts
  <2>3. \A m \in LiveGates(ntk) : m \in Nodes(ntk)
    BY <2>2 DEF LiveGates, Gates, Nodes
  <2>4. \A n \in 0..ntk.pis : n \in Nodes(ntk)
    BY <2>2 DEF Nodes
  <2> QED BY <2>1, <2>3, <2>4 DEF BalanceInv
<1>2. ASSUME NEW n \in DOMAIN old_to_new
      PROVE  Function(dest, old_to_new[n].f) = Function(ntk, Signal(n, FALSE))
  <2>1. n \in Nodes(ntk) /\ Tracks(ntk, dest, n, old_to_new[n].f)
    BY <1>1 DEF BalanceInv, StandsFor
  <2> QED BY <1>1, <2>1, TracksFunction
<1>3. ASSUME phase = "cuts", best.level # NoLevel
      PROVE  Function(dest, best.f) = Function(ntk, Signal(gate, FALSE))
  <2>1. gate \in Nodes(ntk) /\ Tracks(ntk, dest, gate, best.f)
    BY <1>1, <1>3 DEF BalanceInv, StandsFor
  <2> QED BY <1>1, <2>1, TracksFunction
<1> QED BY <1>2, <1>3 DEF BalancePreserves

LEMMA BalanceLevels == BalanceInv => LevelsSound
<1> SUFFICES ASSUME BalanceInv PROVE LevelsSound
  OBVIOUS
<1>1. IsNetwork(dest)
  <2>1. IsNetwork(EmptyNetwork(0))
    BY EmptyIsNetwork
  <2> QED BY <2>1 DEF BalanceInv
<1> QED BY <1>1 DEF BalanceInv, LevelsSound, StandsFor
=============================================================================
