--------------------------- MODULE HLSTimeProofs ---------------------------
(***************************************************************************)
(* Proofs about what binding issues and when, for every set of programs.   *)
(* In a block without repeated operands in_num counts exactly the operands *)
(* whose edge is still to be walked over, and so every point is issued and *)
(* a colour is released with the last operation that reads its variable.   *)
(* In the order of the queue the begin cycles rise, but for the points of  *)
(* latency 2, which disturb it by one each; from it follow the order of    *)
(* dependent statements, the place of a block's last statement and, with   *)
(* unit latencies, that every point begins at its longest path.            *)
(***************************************************************************)
EXTENDS HLSBindingProofs

\* The points v waits for.
Waiting(p, v) == \E i \in 1..Len(next[p]) : Coming(p, i) /\ next[p][i] = v
Open(v) == {p \in points : In(p, prev[v]) /\ (Waiting(p, v) \/ ~In(v, next[p]))}

\* The edges to the successor that is being issued: those to come in prev_points,
\* and the one at cur's index.
ReleaseFacts ==
    pc = "release" =>
        /\ \A p \in Names : In(succ, next[p]) =>
               \E h \in r..Len(prev[succ]) : prev[succ][h] = p
        /\ In(succ, next[cur]) => k <= Len(next[cur]) /\ next[cur][k] = succ
CountFacts ==
    /\ \A v \in points \ issued : inNum[v] = Cardinality(Open(v))
    /\ pc = "graph" => \A v \in Names \ points : inNum[v] = 0
    /\ \A v \in issued, p \in points : Waiting(p, v) => pc = "release" /\ v = succ
    /\ pc = "roots" => pending = {p \in points \ issued : inNum[p] = 0}
    /\ pc \in {"queue", "visit", "release"} => \A v \in points \ issued : inNum[v] # 0
OrderFacts ==
    /\ ReleaseFacts /\ CountFacts
    /\ \A p \in Names : NoRepeat(next[p])
Simple == SingleDefinition(Stmts) /\ RepeatFree(Stmts)
Ordering == Working /\ Simple => OrderFacts

-----------------------------------------------------------------------------
(* in_num counts the operands to come.                                     *)

\* The points a point waits for are finitely many.
LEMMA OpenFinite ==
  ASSUME EdgeFacts, NEW v
  PROVE  IsFiniteSet(Open(v)) /\ Cardinality(Open(v)) \in Nat
<1>1. Open(v) \in SUBSET points /\ IsFiniteSet(points)
  BY DEF Open, EdgeFacts
<1> QED BY <1>1, FS_Subset, FS_CardinalityType

\* While the graph is built every operand is to come.
LEMMA NothingWalked ==
  ASSUME QueueFacts, pc \in {"graph", "roots"}, NEW p, NEW v
  PROVE  (Waiting(p, v) <=> In(v, next[p])) /\ (p \in Open(v) <=> p \in points /\ In(p, prev[v]))
BY AllComing DEF Waiting, Open, In

LEMMA OrderGraph ==
  ASSUME RegisterInv, EdgeFacts, EdgeFacts', QueueFacts, QueueFacts', OrderFacts, Simple,
         pc = "graph",
         SkipStatement \/ NewPoint \/ ArrayOperand \/ LabelOperand \/ LengthOperand
         \/ LiteralOperand \/ ValueOperand \/ NextStatement
  PROVE  OrderFacts'
<1> DEFINE v == S.var
<1> DEFINE o == Operand
<1>1. /\ TypeInv /\ next \in [Names -> Seq(Names)] /\ prev \in [Names -> Seq(Names)]
      /\ inNum \in [Names -> Int] /\ points \subseteq Names /\ issued = {}
      /\ Len(Stmts) \in Nat /\ si \in Nat \ {0}
  BY WalkTypes, StatementTypes DEF TypeInv, TypeOK, ControlTypes
<1>2. /\ pc' = "graph" /\ UNCHANGED <<Stmts, issued, q>>
      /\ \/ UNCHANGED <<points, next, prev, inNum>>
         \/ /\ v \in Names /\ S = Stmts[si] /\ v # NoVar /\ si \in 1..Len(Stmts) /\ oi = 0
            /\ next' = [next EXCEPT ![v] = <<>>] /\ prev' = [prev EXCEPT ![v] = <<>>]
            /\ inNum' = [inNum EXCEPT ![v] = 0] /\ points' = points \cup {v}
         \/ /\ v \in Names /\ S = Stmts[si] /\ v # NoVar /\ v \in points
            /\ si \in 1..Len(Stmts) /\ oi \in 1..Len(S.ops)
            /\ o \in Names /\ o = S.ops[oi] /\ IsEdge(S, oi)
            /\ next' = [next EXCEPT ![o] = Append(next[o], v)]
            /\ prev' = [prev EXCEPT ![v] = Append(prev[v], o)]
            /\ inNum' = [inNum EXCEPT ![v] = inNum[v] + 1] /\ points' = points \cup {o}
  BY <1>1, GraphSteps
<1>3. ReleaseFacts'
  BY <1>2 DEF ReleaseFacts
<1>4. \A w, p : /\ p \in Open(w) <=> p \in points /\ In(p, prev[w])
                /\ p \in Open(w)' <=> p \in points' /\ In(p, prev'[w])
  BY <1>2, NothingWalked DEF Waiting, Open, In, Coming, Popped, QueueFacts
<1>5. points' \subseteq Names
  BY <1>1, <1>2
<1>6. ASSUME NEW w \in Names, \A p \in Names : In(p, prev'[w]) <=> In(p, prev[w])
      PROVE  Open(w)' = Open(w)
  <2>1. \A p \in Names : (In(p, prev[w]) => p \in points) /\ (In(p, prev'[w]) => p \in points')
    BY <1>6 DEF EdgeFacts
  <2>2. \A p : p \in Open(w)' <=> p \in Open(w)
    BY <1>1, <1>4, <1>5, <1>6, <2>1
  <2> QED BY <2>2
<1>7. CASE UNCHANGED <<points, next, prev, inNum>>
  <2>1. \A w \in Names : Open(w)' = Open(w)
    BY <1>6, <1>7
  <2>2. CountFacts'
    BY <1>1, <1>2, <1>7, <2>1 DEF OrderFacts, CountFacts
  <2> QED BY <1>3, <1>7, <2>2 DEF OrderFacts
<1>8. CASE /\ v \in Names /\ S = Stmts[si] /\ v # NoVar /\ si \in 1..Len(Stmts) /\ oi = 0
           /\ next' = [next EXCEPT ![v] = <<>>] /\ prev' = [prev EXCEPT ![v] = <<>>]
           /\ inNum' = [inNum EXCEPT ![v] = 0] /\ points' = points \cup {v}
  <2> HIDE DEF v
  <2>1. /\ next'[v] = <<>> /\ prev'[v] = <<>> /\ inNum'[v] = 0
        /\ \A p \in Names : p # v => next'[p] = next[p] /\ prev'[p] = prev[p] /\ inNum'[p] = inNum[p]
    BY <1>1, <1>8
  <2>2. ASSUME NEW w \in points' PROVE inNum'[w] = Cardinality(Open(w)')
    <3>1. CASE w = v
      <4>1. ~In(w, <<>>) /\ \A p : ~In(p, <<>>)
        BY DEF In
      <4>2. Open(w)' = {}
        BY <1>4, <2>1, <3>1, <4>1
      <4> QED BY <2>1, <3>1, <4>2, FS_EmptySet
    <3>2. CASE w # v
      <4>1. w \in points \ issued /\ w \in Names /\ prev'[w] = prev[w] /\ inNum'[w] = inNum[w]
        BY <1>1, <1>8, <2>1, <3>2
      <4>2. Open(w)' = Open(w)
        BY <1>6, <4>1
      <4> QED BY <4>1, <4>2 DEF OrderFacts, CountFacts
    <3> QED BY <3>1, <3>2
  <2>3. \A w \in Names \ points' : inNum'[w] = 0
    BY <1>8, <2>1 DEF OrderFacts, CountFacts
  <2>4. \A p \in Names : NoRepeat(next'[p])
    <3>1. NoRepeat(<<>>)
      BY DEF NoRepeat
    <3> QED BY <3>1, <2>1 DEF OrderFacts
  <2>5. CountFacts'
    BY <1>1, <1>2, <2>2, <2>3 DEF CountFacts
  <2> QED BY <1>3, <2>4, <2>5 DEF OrderFacts
<1>9. CASE /\ v \in Names /\ S = Stmts[si] /\ v # NoVar /\ v \in points
           /\ si \in 1..Len(Stmts) /\ oi \in 1..Len(S.ops)
           /\ o \in Names /\ o = S.ops[oi] /\ IsEdge(S, oi)
           /\ next' = [next EXCEPT ![o] = Append(next[o], v)]
           /\ prev' = [prev EXCEPT ![v] = Append(prev[v], o)]
           /\ inNum' = [inNum EXCEPT ![v] = inNum[v] + 1] /\ points' = points \cup {o}
  <2>1. ~In(o, prev[v])
    <3> SUFFICES ASSUME EdgeOf(o, v) PROVE FALSE
      BY <1>9 DEF EdgeFacts
    <3>1. PICK i \in 1..Len(Stmts) : \E j \in 1..Len(Stmts[i].ops) :
            Stmts[i].var = v /\ Looked(i, j) /\ IsEdge(Stmts[i], j) /\ Stmts[i].ops[j] = o
      BY DEF EdgeOf
    <3>2. i = si
      BY <3>1, <1>1, <1>9 DEF Simple, SingleDefinition
    <3>3. PICK j \in 1..Len(Stmts[si].ops) :
            Looked(si, j) /\ IsEdge(Stmts[si], j) /\ Stmts[si].ops[j] = o
      BY <3>1, <3>2
    <3>4. j < oi
      BY <3>3, <1>1 DEF Looked
    <3>5. j # oi
      BY <1>9, <3>4
    <3> QED BY <1>9, <3>3, <3>5 DEF Simple, RepeatFree
  <2> HIDE DEF v, o
  <2>2. /\ next'[o] = Append(next[o], v) /\ \A p \in Names : p # o => next'[p] = next[p]
        /\ prev'[v] = Append(prev[v], o) /\ \A p \in Names : p # v => prev'[p] = prev[p]
        /\ inNum'[v] = inNum[v] + 1 /\ \A p \in Names : p # v => inNum'[p] = inNum[p]
    BY <1>1, <1>9
  <2>3. \A p : In(p, prev'[v]) <=> In(p, prev[v]) \/ p = o
    <3>1. prev[v] \in Seq(Names)
      BY <1>1, <1>9
    <3>2. \A p : In(p, Append(prev[v], o)) <=> In(p, prev[v]) \/ p = o
      BY <3>1, <1>9, AppendIn
    <3> QED BY <2>2, <3>2
  <2>4. ASSUME NEW w \in points' PROVE inNum'[w] = Cardinality(Open(w)')
    <3>1. CASE w = v
      <4>1. \A p \in Names : In(p, prev[v]) => p \in points
        BY <1>9 DEF EdgeFacts
      <4>2. Open(w)' = Open(v) \cup {o}
        BY <3>1, <4>1, <1>1, <1>4, <1>9, <2>3
      <4>3. inNum[v] = Cardinality(Open(v)) /\ IsFiniteSet(Open(v)) /\ o \notin Open(v)
        BY <1>1, <1>4, <1>9, <2>1, OpenFinite DEF OrderFacts, CountFacts
      <4>4. Cardinality(Open(v) \cup {o}) = Cardinality(Open(v)) + 1
        BY <4>3, FS_AddElement
      <4> QED BY <2>2, <3>1, <4>2, <4>3, <4>4
    <3>2. CASE w # v
      <4>1. w \in Names /\ prev'[w] = prev[w] /\ inNum'[w] = inNum[w]
        BY <1>5, <2>2, <3>2
      <4>2. Open(w)' = Open(w)
        BY <1>6, <4>1
      <4>3. CASE w \in points
        BY <4>1, <4>2, <4>3, <1>1 DEF OrderFacts, CountFacts
      <4>4. CASE w \notin points
        <5>1. \A p \in Names : ~In(p, prev[w])
          BY <4>1, <4>4 DEF EdgeFacts
        <5>2. Open(w) = {} /\ inNum[w] = 0
          BY <4>1, <4>4, <5>1, <1>1, <1>4 DEF OrderFacts, CountFacts
        <5> QED BY <4>1, <4>2, <5>2, FS_EmptySet
      <4> QED BY <4>3, <4>4
    <3> QED BY <3>1, <3>2
  <2>5. \A w \in Names \ points' : inNum'[w] = 0
    BY <1>9, <2>2 DEF OrderFacts, CountFacts
  <2>6. ASSUME NEW p \in Names PROVE NoRepeat(next'[p])
    <3>1. ~In(v, next[o]) /\ NoRepeat(next[o]) /\ NoRepeat(next[p]) /\ next[o] \in Seq(Names)
      BY <1>1, <1>9, <2>1 DEF EdgeFacts, OrderFacts
    <3>2. NoRepeat(Append(next[o], v))
      BY <1>9, <3>1, AppendIn
    <3> QED BY <3>1, <3>2, <2>2
  <2>7. CountFacts'
    BY <1>1, <1>2, <2>4, <2>5 DEF CountFacts
  <2> QED BY <1>3, <2>6, <2>7 DEF OrderFacts
<1> QED BY <1>2, <1>7, <1>8, <1>9

\* Steps that leave who waits for whom alone.
LEMMA OpenFrame ==
  ASSUME points' = points, prev' = prev, NEW CONSTANT v,
         \A p \in points : /\ Waiting(p, v)' <=> Waiting(p, v)
                           /\ In(v, next'[p]) <=> In(v, next[p])
  PROVE  Open(v)' = Open(v)
BY DEF Open

\* A point that waits has the edge, and so is an operand.
LEMMA WaitingEdge ==
  ASSUME RegisterInv, EdgeFacts, NEW p \in Names, NEW v \in Names, Waiting(p, v)
  PROVE  In(v, next[p]) /\ In(p, prev[v]) /\ p \in points /\ v \in points
<1>1. In(v, next[p])
  BY WalkTypes DEF Waiting, In
<1> QED BY <1>1 DEF EdgeFacts


\* No point waits for a root, and none for the successor that has been issued.
LEMMA OrderQuiet ==
  ASSUME RegisterInv, EdgeFacts, QueueFacts, OrderFacts, QuietStep
  PROVE  OrderFacts'
<1> USE DEF graph, issue, cursor, regs, result
<1>1. /\ QueueFacts' /\ UNCHANGED <<points, next, prev, inNum>>
      /\ \A p \in Names : \A i : Coming(p, i)' <=> Coming(p, i)
  BY QueueQuiet
<1>2. /\ points \subseteq Names /\ issued \subseteq Names
      /\ prev \in [Names -> Seq(Names)] /\ r \in Nat \ {0}
      /\ (pc = "graph" => issued = {}) /\ (pc = "release" => succ \in Names)
  BY WalkTypes
<1>3. \A p \in Names : \A v : Waiting(p, v)' <=> Waiting(p, v)
  BY <1>1 DEF Waiting
<1>4. \A v : Open(v)' = Open(v)
  BY <1>1, <1>2, <1>3, OpenFrame
<1>5. ReleaseFacts'
  BY DEF QuietStep, GraphDone, IssueRoot, RootsDone, PopPoint, VisitDone, BindSuccessor,
     ReleaseFacts
<1>6. CASE GraphDone
  <2>1. /\ pc = "graph" /\ pc' = "roots" /\ issued' = issued
        /\ pending' = {p \in points : inNum[p] = 0}
    BY <1>6 DEF GraphDone
  <2>2. CountFacts'
    BY <1>1, <1>2, <1>4, <2>1 DEF OrderFacts, CountFacts
  <2> QED BY <1>1, <1>5, <2>2 DEF OrderFacts
<1>7. ASSUME NEW p \in pending, IssueRoot(p) PROVE OrderFacts'
  <2>1. /\ pc = "roots" /\ pc' = "roots" /\ pending' = pending \ {p} /\ issued' = issued \cup {p}
    BY <1>7 DEF IssueRoot
  <2>2. p \in points /\ p \notin issued /\ inNum[p] = 0 /\ p \in Names
    BY <1>2, <2>1 DEF OrderFacts, CountFacts
  <2>3. ASSUME NEW x \in points PROVE ~Waiting(x, p)
    <3>1. Open(p) = {}
      BY <2>2, OpenFinite, FS_EmptySet DEF OrderFacts, CountFacts
    <3>2. Waiting(x, p) => x \in Open(p)
      BY <1>2, <2>2, WaitingEdge DEF Open
    <3> QED BY <3>1, <3>2
  <2>4. CountFacts'
    BY <1>1, <1>2, <1>3, <1>4, <2>1, <2>2, <2>3 DEF OrderFacts, CountFacts
  <2> QED BY <1>1, <1>5, <2>4 DEF OrderFacts
<1>8. CASE RootsDone \/ PopPoint \/ VisitDone
  <2>1. /\ pc # "release" /\ pc' \in {"queue", "visit"} /\ issued' = issued
        /\ pc = "roots" => pending = {}
    BY <1>8 DEF RootsDone, PopPoint, VisitDone
  <2>2. CountFacts'
    <3>1. pc \in {"roots", "queue", "visit"}
      BY <1>8 DEF RootsDone, PopPoint, VisitDone
    <3> QED BY <1>1, <1>2, <1>3, <1>4, <2>1, <3>1 DEF OrderFacts, CountFacts
  <2> QED BY <1>1, <1>5, <2>2 DEF OrderFacts
<1>9. CASE BindSuccessor
  <2>1. pc = "release" /\ pc' = "visit" /\ r > Len(prev[succ]) /\ issued' = issued
    BY <1>9 DEF BindSuccessor
  <2>2. succ \in Names /\ \A p \in Names : ~In(succ, next[p])
    <3>1. r..Len(prev[succ]) = {}
      <4>1. Len(prev[succ]) \in Nat
        BY <1>2, <2>1
      <4> QED BY <1>2, <2>1, <4>1
    <3> QED BY <1>2, <2>1, <3>1 DEF OrderFacts, ReleaseFacts
  <2>3. \A p \in points : ~Waiting(p, succ)
    BY <1>2, <2>2, WaitingEdge
  <2>4. CountFacts'
    BY <1>1, <1>2, <1>3, <1>4, <2>1, <2>3 DEF OrderFacts, CountFacts
  <2> QED BY <1>1, <1>5, <2>4 DEF OrderFacts
<1> QED BY <1>6, <1>7, <1>8, <1>9 DEF QuietStep

\* The successor that is visited has not been issued, and cur is one of those it
\* waits for.
LEMMA Visited ==
  ASSUME RegisterInv, EdgeFacts, QueueFacts, OrderFacts, pc = "visit", k <= Len(next[cur])
  PROVE  LET n == next[cur][k] IN n \notin issued /\ cur \in points /\ cur \in Open(n)
<1> DEFINE n == next[cur][k]
<1>1. /\ cur \in Names /\ n \in Names /\ k \in 1..Len(next[cur]) /\ Coming(cur, k)
  BY VisitTypes
<1> HIDE DEF n
<1>2. Waiting(cur, n)
  BY <1>1 DEF Waiting, n
<1>3. In(cur, prev[n]) /\ cur \in points
  BY <1>1, <1>2, WaitingEdge
<1>4. n \notin issued
  BY <1>2, <1>3 DEF OrderFacts, CountFacts
<1> QED BY <1>2, <1>3, <1>4 DEF Open, n

LEMMA OrderVisit ==
  ASSUME RegisterInv, EdgeFacts, QueueFacts, OrderFacts, VisitSuccessor
  PROVE  OrderFacts'
<1> DEFINE n == next[cur][k]
<1>1. /\ UNCHANGED <<points, next, prev>> /\ pc = "visit"
      /\ inNum'[n] = inNum[n] - 1 /\ \A v \in Names : v # n => inNum'[v] = inNum[v]
      /\ \/ /\ inNum[n] # 1 /\ pc' = "visit" /\ issued' = issued
            /\ \A p \in Names : \A i : Coming(p, i)' <=> Coming(p, i) /\ ~(p = cur /\ i = k)
         \/ /\ inNum[n] = 1 /\ issued' = issued \cup {n}
            /\ pc' = "release" /\ succ' = n /\ r' = 1 /\ k' = k /\ cur' = cur
            /\ \A p \in Names : \A i : Coming(p, i)' <=> Coming(p, i)
  BY QueueVisit DEF VisitSuccessor
<1>2. /\ cur \in Names /\ n \in Names /\ n \in points /\ In(cur, prev[n])
      /\ k \in 1..Len(next[cur]) /\ Len(next[cur]) \in Nat /\ Coming(cur, k)
      /\ n \notin issued /\ cur \in points /\ cur \in Open(n) /\ In(n, next[cur])
  BY VisitTypes, Visited DEF VisitSuccessor
<1>3. /\ points \subseteq Names /\ inNum \in [Names -> Int] /\ NoRepeat(next[cur])
      /\ inNum[n] = Cardinality(Open(n)) /\ IsFiniteSet(Open(n)) /\ inNum[n] \in Int
      /\ next[cur][k] = n
  BY <1>2, WalkTypes, OpenFinite DEF OrderFacts, CountFacts
<1> HIDE DEF n
<1>4. CASE /\ inNum[n] # 1 /\ pc' = "visit" /\ issued' = issued
           /\ \A p \in Names : \A i : Coming(p, i)' <=> Coming(p, i) /\ ~(p = cur /\ i = k)
  <2>1. ASSUME NEW p \in Names, NEW v PROVE Waiting(p, v)' <=> Waiting(p, v) /\ ~(p = cur /\ v = n)
    <3>1. \A i \in 1..Len(next[cur]) : next[cur][i] = n => i = k
      BY <1>2, <1>3 DEF NoRepeat
    <3>2. CASE p = cur /\ v = n
      BY <1>1, <1>4, <3>1, <3>2 DEF Waiting
    <3>3. CASE ~(p = cur /\ v = n)
      BY <1>1, <1>3, <1>4, <3>3 DEF Waiting
    <3> QED BY <3>2, <3>3
  <2>2. \A v : v # n => Open(v)' = Open(v)
    BY <1>1, <1>3, <2>1 DEF Open
  <2>3. \A v : v = n => Open(v)' = Open(n) \ {cur}
    BY <1>1, <1>2, <1>3, <2>1 DEF Open
  <2>4. Cardinality(Open(n) \ {cur}) = inNum[n] - 1
    <3>1. Cardinality(Open(n) \ {cur}) = Cardinality(Open(n)) - 1
      BY <1>2, <1>3, FS_RemoveElement
    <3> QED BY <3>1, <1>3
  <2>5. ASSUME NEW v \in points \ issued
        PROVE  inNum'[v] = Cardinality(Open(v)') /\ inNum'[v] # 0
    <3>1. CASE v = n
      <4>1. Open(v)' = Open(n) \ {cur} /\ inNum'[v] = inNum[n] - 1
        BY <3>1, <2>3, <1>1
      <4>2. inNum[n] - 1 # 0
        BY <1>3, <1>4
      <4> QED BY <4>1, <4>2, <2>4
    <3>2. CASE v # n
      BY <3>2, <2>2, <1>1, <1>3 DEF OrderFacts, CountFacts
    <3> QED BY <3>1, <3>2
  <2>6. CountFacts'
    BY <1>1, <1>3, <1>4, <2>1, <2>5 DEF OrderFacts, CountFacts
  <2> QED BY <1>1, <1>4, <2>6 DEF OrderFacts, ReleaseFacts
<1>5. CASE /\ inNum[n] = 1 /\ issued' = issued \cup {n}
           /\ pc' = "release" /\ succ' = n /\ r' = 1 /\ k' = k /\ cur' = cur
           /\ \A p \in Names : \A i : Coming(p, i)' <=> Coming(p, i)
  <2>1. ReleaseFacts'
    <3>1. \A p \in Names : In(n, next[p]) => \E h \in 1..Len(prev[n]) : prev[n][h] = p
      BY <1>2 DEF EdgeFacts, In
    <3>2. k <= Len(next[cur])
      BY <1>2
    <3> QED BY <1>1, <1>3, <1>5, <3>1, <3>2 DEF ReleaseFacts
  <2>2. \A p \in Names : \A v : Waiting(p, v)' <=> Waiting(p, v)
    BY <1>1, <1>5 DEF Waiting
  <2>3. \A v : Open(v)' = Open(v)
    BY <1>1, <1>3, <2>2, OpenFrame
  <2>4. \A v \in points \ issued : v # n => inNum'[v] = inNum[v]
    BY <1>1, <1>3
  <2>5. CountFacts'
    BY <1>1, <1>3, <1>5, <2>2, <2>3, <2>4 DEF OrderFacts, CountFacts
  <2> QED BY <1>1, <2>1, <2>5 DEF OrderFacts
<1> QED BY <1>1, <1>4, <1>5

LEMMA OrderRelease ==
  ASSUME RegisterInv, EdgeFacts, QueueFacts, OrderFacts, ReleaseOperand
  PROVE  OrderFacts'
<1> DEFINE m == prev[succ][r]
<1> DEFINE d == delete_next_point(next[m], succ)
<1>1. /\ UNCHANGED <<points, prev, inNum, issued, cur, k, succ, pc>>
      /\ pc = "release" /\ r \in 1..Len(prev[succ]) /\ r' = r + 1
      /\ m \in Names /\ cur \in Names /\ succ \in Names /\ succ \in issued
      /\ next'[m] = d /\ next[m] \in Seq(Names)
      /\ \A p \in Names : p # m => next'[p] = next[p]
      /\ \A p : Popped(p)' <=> Popped(p)
  BY QueueRelease
<1>2. /\ next \in [Names -> Seq(Names)] /\ prev \in [Names -> Seq(Names)] /\ points \subseteq Names
      /\ k \in Nat \ {0} /\ r \in Nat \ {0} /\ NoRepeat(next[m])
  BY <1>1, WalkTypes DEF OrderFacts
<1>3. prev[succ] \in Seq(Names) /\ Len(prev[succ]) \in Nat /\ prev[succ][r] = m
  BY <1>1, <1>2
<1> HIDE DEF m
<1>4. /\ NoRepeat(d) /\ ~In(succ, d)
      /\ \A w : In(w, d) => In(w, next[m])
      /\ \A w : w # succ /\ In(w, next[m]) => In(w, d)
      /\ ~In(succ, next[m]) => d = next[m]
      /\ \A h \in 1..Len(next[m]) : \A w : NoRepeat(next[m]) /\ next[m][h] = succ /\ w # succ =>
           ((\E i \in h..Len(d) : d[i] = w) <=> (\E i \in h..Len(next[m]) : next[m][i] = w))
  <2> DEFINE s == next[m]
  <2>1. s \in Seq(Names) /\ NoRepeat(s)
    BY <1>1, <1>2
  <2> HIDE DEF s
  <2>2. /\ \A w : In(w, d) => In(w, s)
        /\ \A w : w # succ /\ In(w, s) => In(w, d)
        /\ ~In(succ, s) => d = s
        /\ NoRepeat(s) => NoRepeat(d) /\ ~In(succ, d)
        /\ \A h \in 1..Len(s) : \A w : NoRepeat(s) /\ s[h] = succ /\ w # succ =>
             ((\E i \in h..Len(d) : d[i] = w) <=> (\E i \in h..Len(s) : s[i] = w))
    BY <2>1, DeleteFacts, Zenon DEF s
  <2> HIDE DEF d
  <2> QED BY <2>1, <2>2, Zenon DEF s
<1> HIDE DEF d
<1>5. ASSUME m = cur, NEW v, v # succ
      PROVE  (\E i \in k..Len(d) : d[i] = v) <=> (\E i \in k..Len(next[m]) : next[m][i] = v)
  <2>1. CASE In(succ, next[cur])
    <3>1. k \in 1..Len(next[m]) /\ next[m][k] = succ
      BY <1>1, <1>2, <1>5, <2>1 DEF OrderFacts, ReleaseFacts
    <3>2. \A w : w # succ =>
            ((\E i \in k..Len(d) : d[i] = w) <=> (\E i \in k..Len(next[m]) : next[m][i] = w))
      BY <1>2, <1>4, <3>1, Zenon
    <3> QED BY <1>5, <3>2
  <2>2. CASE ~In(succ, next[cur])
    BY <1>4, <1>5, <2>2
  <2> QED BY <2>1, <2>2
<1>6. Len(d) \in Nat /\ Len(next[m]) \in Nat
  BY <1>1, DeleteType DEF d
<1>7. ASSUME NEW p \in Names, NEW v
      PROVE  /\ v # succ => (Waiting(p, v)' <=> Waiting(p, v)) /\ (In(v, next'[p]) <=> In(v, next[p]))
             /\ Waiting(p, v)' => v = succ \/ Waiting(p, v)
  <2>1. CASE p # m
    <3>1. next'[p] = next[p]
      BY <1>1, <2>1
    <3>2. \A i : Coming(p, i)' <=> Coming(p, i)
      BY <1>1, <3>1 DEF Coming
    <3> QED BY <3>1, <3>2 DEF Waiting
  <2>2. CASE p = m /\ p # cur
    <3>1. \A w : Waiting(p, w) <=> ~Popped(p) /\ In(w, next[m])
      BY <1>1, <2>2 DEF Waiting, Coming, In
    <3>2. \A w : Waiting(p, w)' <=> ~Popped(p) /\ In(w, d)
      BY <1>1, <2>2 DEF Waiting, Coming, In
    <3> QED BY <1>1, <1>4, <2>2, <3>1, <3>2
  <2>3. CASE p = m /\ p = cur
    <3>1. \A i : i \in k..Len(d) => i \in 1..Len(d)
      BY <1>2, <1>6
    <3>2. \A i : i \in k..Len(next[m]) => i \in 1..Len(next[m])
      BY <1>2, <1>6
    <3>3. /\ \A i \in 1..Len(d) : i >= k => i \in k..Len(d)
          /\ \A i \in 1..Len(next[m]) : i >= k => i \in k..Len(next[m])
      BY <1>2, <1>6
    <3>4. \A w : Waiting(p, w) <=> \E i \in k..Len(next[m]) : next[m][i] = w
      BY <1>1, <1>2, <2>3, <3>2, <3>3 DEF Waiting, Coming
    <3>5. \A w : Waiting(p, w)' <=> \E i \in k..Len(d) : d[i] = w
      BY <1>1, <1>2, <2>3, <3>1, <3>3 DEF Waiting, Coming
    <3> QED BY <1>1, <1>4, <1>5, <2>3, <3>4, <3>5
  <2> QED BY <2>1, <2>2, <2>3
<1>8. ASSUME NEW CONSTANT v, v # succ PROVE Open(v)' = Open(v)
  BY <1>1, <1>2, <1>7, <1>8, OpenFrame
<1>9. ReleaseFacts'
  <2>1. ASSUME NEW p \in Names, In(succ, next'[p])
        PROVE  \E h \in (r + 1)..Len(prev[succ]) : prev[succ][h] = p
    <3>1. p # m /\ In(succ, next[p])
      BY <1>1, <1>4, <2>1
    <3>2. PICK h \in r..Len(prev[succ]) : prev[succ][h] = p
      BY <1>1, <3>1 DEF OrderFacts, ReleaseFacts
    <3>3. h # r
      BY <1>3, <3>1, <3>2
    <3>4. h \in (r + 1)..Len(prev[succ])
      BY <1>2, <1>3, <3>2, <3>3
    <3> QED BY <3>2, <3>4
  <2>2. ASSUME In(succ, next'[cur]) PROVE k <= Len(next'[cur]) /\ next'[cur][k] = succ
    <3>1. next'[cur] = next[cur]
      BY <1>1, <1>4, <2>2
    <3> QED BY <1>1, <2>2, <3>1 DEF OrderFacts, ReleaseFacts
  <2> QED BY <1>1, <2>1, <2>2 DEF ReleaseFacts
<1>10. CountFacts'
  <2>1. \A v \in points \ issued : Open(v)' = Open(v)
    BY <1>1, <1>8
  <2> QED BY <1>1, <1>2, <1>7, <2>1 DEF OrderFacts, CountFacts
<1>11. \A p \in Names : NoRepeat(next'[p])
  BY <1>1, <1>4 DEF OrderFacts
<1> QED BY <1>9, <1>10, <1>11 DEF OrderFacts

LEMMA OrderInit == Unbound => Ordering
BY DEF Unbound, NothingBound, Ordering, Working

LEMMA OrderStep == OwingInv /\ Ordering /\ [Next]_vars => Ordering'
<1> SUFFICES ASSUME OwingInv, Ordering, [Next]_vars, Working', Simple' PROVE OrderFacts'
  BY DEF Ordering
<1>1. RegisterInv /\ TypeInv /\ OwingInv'
  BY OwingInvariant DEF OwingInv, RegisterInv
<1>2. EdgeFacts' /\ QueueFacts'
  BY <1>1 DEF OwingInv, Edges, Owing, Simple, Working
<1>3. CASE EnterBlock
  <2>1. /\ pc' = "graph" /\ points' = {} /\ issued' = {} /\ next' = NoEdges /\ inNum' = Zero
    BY <1>3 DEF EnterBlock
  <2>2. \A p \in Names : NoRepeat(next'[p])
    BY <2>1 DEF NoEdges, NoRepeat
  <2>3. ReleaseFacts' /\ CountFacts'
    BY <2>1 DEF ReleaseFacts, CountFacts, Zero
  <2> QED BY <2>2, <2>3 DEF OrderFacts
<1>4. CASE FinishBlock \/ FillHash
  BY <1>4 DEF FinishBlock, FillHash, Working
<1>5. CASE Working /\ Stmts' = Stmts
  <2>1. EdgeFacts /\ QueueFacts /\ OrderFacts /\ Simple
    BY <1>5 DEF OwingInv, Edges, Owing, Ordering, Simple
  <2>2. CASE SkipStatement \/ NewPoint \/ ArrayOperand \/ LabelOperand \/ LengthOperand
             \/ LiteralOperand \/ ValueOperand \/ NextStatement
    <3>1. pc = "graph"
      BY <2>2 DEF SkipStatement, NewPoint, ArrayOperand, LabelOperand, LengthOperand,
         LiteralOperand, ValueOperand, NextStatement, InStatements, InOperands
    <3> QED BY <1>1, <1>2, <2>1, <2>2, <3>1, OrderGraph
  <2>3. CASE QuietStep
    BY <1>1, <2>1, <2>3, OrderQuiet
  <2>4. CASE VisitSuccessor
    BY <1>1, <2>1, <2>4, OrderVisit
  <2>5. CASE ReleaseOperand
    BY <1>1, <2>1, <2>5, OrderRelease
  <2>6. CASE UNCHANGED vars
    <3>1. UNCHANGED <<pc, points, next, prev, inNum, issued, q, cur, k, succ, r, pending>>
      BY <2>6 DEF vars, graph, issue, cursor
    <3>2. \A p, v : Waiting(p, v)' <=> Waiting(p, v)
      BY <3>1 DEF Waiting, Coming, Popped
    <3>3. \A v : Open(v)' = Open(v)
      BY <3>1, <3>2, OpenFrame
    <3> QED BY <2>1, <3>1, <3>2, <3>3 DEF OrderFacts, ReleaseFacts, CountFacts
  <2> QED BY <1>3, <1>4, <2>2, <2>3, <2>4, <2>5, <2>6 DEF Next, Finished, QuietStep
<1>6. CASE ~EnterBlock /\ ~FinishBlock /\ ~FillHash
  <2>1. Stmts' = Stmts /\ Working
    BY <1>6 DEF Next, vars, SkipStatement, NewPoint, ArrayOperand, LabelOperand, LengthOperand,
       LiteralOperand, CodedOperand, ValueOperand, InStatements, InOperands, NextStatement,
       GraphDone, IssueRoot, RootsDone, PopPoint, VisitSuccessor, VisitDone, ReleaseOperand,
       BindSuccessor, Finished, Working, Stmts
  <2> QED BY <1>5, <2>1
<1> QED BY <1>3, <1>4, <1>6

-----------------------------------------------------------------------------
(* What follows for the order.                                             *)

OrderInv == OwingInv /\ NothingLost /\ Ordering

LEMMA OrderInvariant == Unbound => OrderInv
BY OwingInvariant, OrderInit DEF Unbound, NothingBound, NothingLost, Working, OrderInv

LEMMA OrderInvariantStep == OrderInv /\ [Next]_vars => OrderInv'
BY OwingInvariant, NothingLostStep, OrderStep DEF OrderInv, OwingInv

\* At the end of a straight-line block without repeated operands, a point that has
\* not been issued waits for one of an earlier statement.
LEMMA EarlierUnissued ==
  ASSUME OrderInv, BlockIssued, StraightLine(Stmts), RepeatFree(Stmts),
         NEW v \in points \ issued
  PROVE  \E i \in 1..Len(Stmts) : \E p \in points \ issued :
           /\ Stmts[i].var = v /\ v # NoVar
           /\ \A h \in 1..Len(Stmts) : Stmts[h].var = p => h < i
<1>1. /\ EdgeFacts /\ OrderFacts /\ pc = "queue" /\ q = <<>> /\ RegisterInv
  BY DEF OrderInv, OwingInv, BlockIssued, Edges, Ordering, Working, Simple, StraightLine
<1>2. /\ points \subseteq Names /\ v \in Names /\ Len(Stmts) \in Nat
  BY <1>1, WalkTypes, StatementTypes DEF TypeInv
<1>3. inNum[v] = Cardinality(Open(v)) /\ inNum[v] # 0
  BY <1>1 DEF OrderFacts, CountFacts
<1>4. PICK p \in Open(v) : TRUE
  BY <1>3, FS_EmptySet
<1>5. p \in points /\ In(p, prev[v]) /\ p \in Names
  BY <1>2 DEF Open
<1>6. In(v, next[p])
  BY <1>1, <1>2, <1>5 DEF OrderInv, NothingLost, Working
<1>7. p \notin issued
  <2>1. Waiting(p, v)
    BY <1>6 DEF Open
  <2>2. ~In(p, q)
    BY <1>1 DEF In
  <2> QED BY <1>1, <2>1, <2>2 DEF Waiting, Coming, Popped
<1>8. PICK i \in 1..Len(Stmts) : \E j \in 1..Len(Stmts[i].ops) :
        Stmts[i].var = v /\ v # NoVar /\ IsEdge(Stmts[i], j) /\ Stmts[i].ops[j] = p
  BY <1>1, <1>2, <1>5 DEF EdgeFacts, EdgeOf
<1>9. p \in EdgeOperands(Stmts[i])
  BY <1>8 DEF EdgeOperands
<1>10. ASSUME NEW h \in 1..Len(Stmts), Stmts[h].var = p PROVE h < i
  <2>1. p # NoVar
    BY <1>5, NamesAssumption
  <2>2. ~(i <= h)
    BY <1>9, <1>10, <2>1 DEF StraightLine
  <2> QED BY <2>2
<1> QED BY <1>5, <1>7, <1>8, <1>10

\* So there is none: the first statement in wait would wait for an earlier one.
LEMMA AllIssuedAtEnd == OrderInv => RepeatFreeIssued
<1> SUFFICES ASSUME OrderInv, BlockIssued, StraightLine(Stmts), RepeatFree(Stmts),
                    points \ issued # {}
             PROVE  FALSE
  BY DEF RepeatFreeIssued
<1> DEFINE A == {i \in 1..Len(Stmts) : Stmts[i].var \in points \ issued}
<1>1. PICK v \in points \ issued : TRUE
  OBVIOUS
<1>2. A # {} /\ A \subseteq Nat
  <2>1. PICK i \in 1..Len(Stmts) : Stmts[i].var = v
    BY EarlierUnissued
  <2>2. i \in A
    BY <2>1
  <2> QED BY <2>2
<1>3. PICK i \in A : \A h \in A : i <= h
  BY <1>2, LeastNatural
<1>4. PICK w \in points \ issued : w = Stmts[i].var
  OBVIOUS
<1>5. PICK h \in 1..Len(Stmts) : \E p \in points \ issued :
        /\ Stmts[h].var = w
        /\ \A g \in 1..Len(Stmts) : Stmts[g].var = p => g < h
  BY EarlierUnissued
<1>6. PICK p \in points \ issued : \A g \in 1..Len(Stmts) : Stmts[g].var = p => g < h
  BY <1>5
<1>7. PICK g \in 1..Len(Stmts) : Stmts[g].var = p
  BY EarlierUnissued
<1>8. h = i
  <2>1. w # NoVar
    BY NamesAssumption, WalkTypes DEF OrderInv, OwingInv
  <2>2. Len(Stmts) \in Nat
    BY StatementTypes DEF OrderInv, OwingInv, RegisterInv, TypeInv
  <2> QED BY <1>4, <1>5, <2>1, <2>2 DEF StraightLine, SingleDefinition
<1>9. g \in A /\ g < i
  BY <1>6, <1>7, <1>8
<1> QED BY <1>3, <1>9

\* Every statement of such a block is issued: the walk never leaves a point waiting.
THEOREM EveryPointIssued == Spec => []RepeatFreeIssued
BY OrderInvariant, OrderInvariantStep, AllIssuedAtEnd, InitUnbound, PTL DEF Spec

LEMMA OccurrencesNotZero ==
  ASSUME NEW T, NEW s \in Seq(T), NEW v, NEW from \in Nat
  PROVE  Occurrences(s, v, from) # 0 <=> \E i \in from..Len(s) : s[i] = v
<1> DEFINE A == {i \in from..Len(s) : s[i] = v}
<1>1. IsFiniteSet(A)
  <2>1. IsFiniteSet(from..Len(s))
    BY FS_Interval
  <2> QED BY <2>1, FS_Subset
<1>2. Cardinality(A) = 0 <=> A = {}
  BY <1>1, FS_EmptySet
<1> QED BY <1>2 DEF Occurrences

\* in_num is the number of operands whose edge is still to be walked over: deleting
\* edges under the walk loses and repeats none.
THEOREM InNumStaysExact == Spec => []InNumExact
<1>1. OrderInv => InNumExact
  <2> SUFFICES ASSUME OrderInv, pc \in {"queue", "visit"}, StraightLine(Stmts), RepeatFree(Stmts),
                      NEW v \in points \ issued
               PROVE  inNum[v] = Cardinality({p \in points : Unwalked(p, v) # 0})
    BY DEF InNumExact
  <2>1. EdgeFacts /\ OrderFacts /\ RegisterInv
    BY DEF OrderInv, OwingInv, Edges, Ordering, Working, Simple, StraightLine
  <2>2. /\ points \subseteq Names /\ v \in Names /\ next \in [Names -> Seq(Names)]
        /\ k \in Nat \ {0}
    BY <2>1, WalkTypes
  <2>3. ASSUME NEW p \in points PROVE Unwalked(p, v) # 0 <=> p \in Open(v)
    <3>1. next[p] \in Seq(Names) /\ p \in Names /\ Len(next[p]) \in Nat
      BY <2>2
    <3>2. /\ Occurrences(next[p], v, k) # 0 <=> \E i \in k..Len(next[p]) : next[p][i] = v
          /\ Occurrences(next[p], v, 1) # 0 <=> In(v, next[p])
      BY <2>2, <3>1, OccurrencesNotZero DEF In
    <3>3. (\A i \in 1..Len(q) : q[i] # p) <=> ~In(p, q)
      BY DEF In
    <3>4. Unwalked(p, v) # 0 <=> Waiting(p, v)
      <4>1. CASE p = cur /\ pc = "visit"
        <5>1. \A i : i \in k..Len(next[p]) <=> i \in 1..Len(next[p]) /\ i >= k
          BY <2>2, <3>1
        <5>2. Waiting(p, v) <=> \E i \in k..Len(next[p]) : next[p][i] = v
          BY <4>1, <5>1 DEF Waiting, Coming
        <5> QED BY <3>2, <4>1, <5>2 DEF Unwalked
      <4>2. CASE ~(p = cur /\ pc = "visit")
        <5>1. Waiting(p, v) <=> ~Popped(p) /\ In(v, next[p])
          BY <4>2 DEF Waiting, Coming, In
        <5>2. Popped(p) <=> p \in issued /\ \A i \in 1..Len(q) : q[i] # p
          BY <3>3 DEF Popped
        <5> QED BY <3>2, <4>2, <5>1, <5>2 DEF Unwalked
      <4> QED BY <4>1, <4>2
    <3>5. Waiting(p, v) => In(p, prev[v])
      BY <2>1, <2>2, <3>1, WaitingEdge
    <3>6. In(p, prev[v]) => In(v, next[p])
      BY <2>2, <3>1 DEF OrderInv, NothingLost, Working
    <3> QED BY <3>4, <3>5, <3>6 DEF Open
  <2>4. {p \in points : Unwalked(p, v) # 0} = Open(v)
    BY <2>3 DEF Open
  <2> QED BY <2>1, <2>4 DEF OrderFacts, CountFacts
<1> QED BY OrderInvariant, OrderInvariantStep, <1>1, InitUnbound, PTL DEF Spec

-----------------------------------------------------------------------------
(* When colours are released.                                              *)

\* An output of a straight-line block is no operand of it.
Unread ==
    Walking /\ StraightLine(Stmts) => \A p \in outputs, v \in Names : ~In(p, prev[v])

\* No edge leads to an issued point, but to the successor that is being issued.
Cleared ==
    Working /\ Simple =>
        \A v \in issued, p \in Names : In(v, next[p]) => pc = "release" /\ v = succ

LEMMA UnreadStep == OrderInv /\ Unread /\ [Next]_vars => Unread'
<1> SUFFICES ASSUME OrderInv, Unread, [Next]_vars PROVE Unread'
  OBVIOUS
<1> USE DEF graph, issue, cursor, regs, result
<1>1. CASE GraphDone
  <2>1. /\ pc = "graph" /\ UNCHANGED <<Stmts, prev>>
        /\ outputs' = {p \in points : next[p] = <<>>}
    BY <1>1 DEF GraphDone, Stmts
  <2>2. issued = {} /\ points \subseteq Names
    BY <2>1, WalkTypes DEF OrderInv, OwingInv
  <2> SUFFICES ASSUME StraightLine(Stmts), NEW p \in points, NEW v \in Names,
                      next[p] = <<>>, In(p, prev[v])
               PROVE  FALSE
    BY <2>1 DEF Unread
  <2>3. In(v, next[p])
    BY <2>1, <2>2 DEF OrderInv, NothingLost, Working
  <2> QED BY <2>3 DEF In
<1>2. CASE (\E p \in pending : IssueRoot(p)) \/ RootsDone \/ PopPoint \/ VisitSuccessor
           \/ VisitDone \/ ReleaseOperand \/ BindSuccessor
  <2>1. Walking /\ UNCHANGED <<outputs, prev, Stmts>>
    BY <1>2 DEF IssueRoot, RootsDone, PopPoint, VisitSuccessor, StepOver, StartIssue, VisitDone,
       ReleaseOperand, BindSuccessor, Walking, Stmts
  <2> QED BY <2>1 DEF Unread
<1>3. CASE UNCHANGED vars
  <2>1. UNCHANGED <<pc, outputs, prev, Stmts>>
    BY <1>3 DEF vars, Stmts
  <2> QED BY <2>1 DEF Unread, Walking
<1>4. CASE EnterBlock \/ SkipStatement \/ NewPoint \/ ArrayOperand \/ LabelOperand
           \/ LengthOperand \/ LiteralOperand \/ ValueOperand \/ NextStatement
           \/ FinishBlock \/ FillHash
  <2>1. ~Walking'
    BY <1>4 DEF EnterBlock, SkipStatement, NewPoint, ArrayOperand, LabelOperand, LengthOperand,
       LiteralOperand, CodedOperand, ValueOperand, NextStatement, InOperands, InStatements,
       FinishBlock, FillHash, Walking
  <2> QED BY <2>1 DEF Unread
<1> QED BY <1>1, <1>2, <1>3, <1>4 DEF Next, Finished

LEMMA ClearedStep == OrderInv /\ Cleared /\ [Next]_vars => Cleared'
<1> SUFFICES ASSUME OrderInv, Cleared, [Next]_vars PROVE Cleared'
  OBVIOUS
<1> USE DEF graph, issue, cursor, regs, result
<1>1. RegisterInv /\ next \in [Names -> Seq(Names)] /\ issued \subseteq Names
  BY WalkTypes DEF OrderInv, OwingInv
<1>2. ASSUME Working, Simple PROVE EdgeFacts /\ QueueFacts /\ OrderFacts
  BY <1>2 DEF OrderInv, OwingInv, Edges, Owing, Ordering, Simple
<1>3. CASE EnterBlock
  BY <1>3 DEF EnterBlock, Cleared
<1>4. CASE SkipStatement \/ NewPoint \/ ArrayOperand \/ LabelOperand \/ LengthOperand
           \/ LiteralOperand \/ ValueOperand \/ NextStatement \/ GraphDone
  <2>1. pc = "graph" /\ issued' = issued
    BY <1>4 DEF SkipStatement, NewPoint, ArrayOperand, LabelOperand, LengthOperand,
       LiteralOperand, CodedOperand, ValueOperand, NextStatement, InOperands, InStatements,
       GraphDone
  <2>2. issued' = {}
    BY <1>1, <2>1, WalkTypes
  <2> QED BY <2>2 DEF Cleared
<1>5. ASSUME NEW p \in pending, IssueRoot(p) PROVE Cleared'
  <2>1. /\ pc = "roots" /\ issued' = issued \cup {p} /\ UNCHANGED <<pc, next, Stmts, succ>>
    BY <1>5 DEF IssueRoot, Stmts
  <2> SUFFICES ASSUME Simple, NEW v \in issued', NEW x \in Names, In(v, next[x]) PROVE FALSE
    BY <2>1 DEF Cleared, Simple
  <2>2. EdgeFacts /\ QueueFacts /\ OrderFacts
    BY <1>2, <2>1 DEF Working
  <2>3. v = p
    BY <2>1 DEF Cleared, Working
  <2>4. p \in points \ issued /\ inNum[p] = 0 /\ p \in Names
    BY <1>1, <2>1, <2>2, WalkTypes DEF QueueFacts
  <2>5. Open(p) = {}
    BY <2>2, <2>4, OpenFinite, FS_EmptySet DEF OrderFacts, CountFacts
  <2>6. x \in Open(p)
    <3>1. Waiting(x, p)
      BY <2>1, <2>2, <2>3, NothingWalked
    <3> QED BY <1>1, <2>2, <2>4, <3>1, WaitingEdge DEF Open
  <2> QED BY <2>5, <2>6
<1>6. CASE RootsDone \/ PopPoint \/ VisitDone
  <2>1. pc # "release" /\ Working /\ UNCHANGED <<issued, next, Stmts>>
    BY <1>6 DEF RootsDone, PopPoint, VisitDone, Working, Stmts
  <2> QED BY <2>1 DEF Cleared, Simple
<1>7. CASE VisitSuccessor
  <2>1. /\ pc = "visit" /\ UNCHANGED <<next, Stmts>>
        /\ \/ issued' = issued
           \/ issued' = issued \cup {succ'} /\ pc' = "release"
    BY <1>7 DEF VisitSuccessor, StepOver, StartIssue, Stmts
  <2> QED BY <2>1 DEF Cleared, Simple, Working
<1>8. CASE ReleaseOperand
  <2>1. /\ pc = "release" /\ UNCHANGED <<pc, issued, succ, Stmts>>
        /\ next' = [next EXCEPT ![prev[succ][r]] = delete_next_point(@, succ)]
    BY <1>8 DEF ReleaseOperand, Stmts
  <2>2. ASSUME NEW v, NEW p \in Names, In(v, next'[p]) PROVE In(v, next[p])
    <3>1. next'[p] = next[p] \/ next'[p] = delete_next_point(next[p], succ)
      BY <1>1, <2>1
    <3>2. next[p] \in Seq(Names)
      BY <1>1
    <3> QED BY <2>2, <3>1, <3>2, DeleteFacts
  <2> QED BY <2>1, <2>2 DEF Cleared, Simple, Working
<1>9. CASE BindSuccessor
  <2>1. /\ pc = "release" /\ r > Len(prev[succ]) /\ UNCHANGED <<issued, next, Stmts>>
    BY <1>9 DEF BindSuccessor, Stmts
  <2> SUFFICES ASSUME Simple, NEW v \in issued, NEW x \in Names, In(v, next[x]) PROVE FALSE
    BY <2>1 DEF Cleared, Simple
  <2>2. v = succ /\ OrderFacts
    BY <1>2, <2>1 DEF Cleared, Working
  <2>3. r..Len(prev[succ]) = {}
    <3>1. Len(prev[succ]) \in Nat /\ r \in Nat
      BY <1>1, <2>1, WalkTypes
    <3> QED BY <2>1, <3>1
  <2> QED BY <2>1, <2>2, <2>3 DEF OrderFacts, ReleaseFacts
<1>10. CASE FinishBlock \/ FillHash
  BY <1>10 DEF FinishBlock, FillHash, Cleared, Working
<1>11. CASE UNCHANGED vars
  <2>1. UNCHANGED <<pc, issued, next, succ, Stmts>>
    BY <1>11 DEF vars, Stmts
  <2> QED BY <2>1 DEF Cleared, Simple, Working
<1> QED BY <1>3, <1>4, <1>5, <1>6, <1>7, <1>8, <1>9, <1>10, <1>11 DEF Next, Finished

\* A statement with a variable reads its operands' values.
LEMMA OperationReads ==
  ASSUME TypeInv, NEW i \in 1..Len(Stmts), Stmts[i].var # NoVar
  PROVE  Reads(Stmts[i]) = EdgeOperands(Stmts[i])
<1>1. Stmts[i] \in Statement
  BY StatementTypes DEF TypeInv
<1>2. Stmts[i].type \notin NoResult
  BY <1>1 DEF Statement
<1> QED BY <1>2 DEF Reads, NoResult

\* A variable of which every operation that reads it has been issued has one edge left
\* at most, the one that is being deleted.
LEMMA LastEdge ==
  ASSUME OrderInv, Cleared, Unread, ReleaseOperand, StraightLine(Stmts), RepeatFree(Stmts),
         ReadersIssued(prev[succ][r])
  PROVE  free' # free
<1> DEFINE m == prev[succ][r]
<1>1. /\ pc = "release" /\ succ \in Names /\ r \in 1..Len(prev[succ])
      /\ prev \in [Names -> Seq(Names)] /\ next \in [Names -> Seq(Names)]
      /\ RegisterInv /\ TypeInv /\ Walking
  BY WalkTypes DEF ReleaseOperand, OrderInv, OwingInv, Walking
<1>2. m \in Names /\ In(m, prev[succ])
  BY <1>1 DEF In
<1>3. /\ next' = [next EXCEPT ![m] = delete_next_point(next[m], succ)]
      /\ next'[m] = <<>> /\ m \notin outputs => \E color \in Junk : free' = Append(free, color)
  BY DEF ReleaseOperand
<1>4. EdgeFacts /\ OrderFacts
  BY <1>1 DEF OrderInv, OwingInv, Edges, Ordering, Simple, StraightLine, Working, Walking
<1>5. \A i \in 1..Len(Stmts) : m \in Reads(Stmts[i]) => Stmts[i].var \in issued \cup {NoVar}
  BY DEF ReadersIssued
<1> HIDE DEF m
<1>6. ASSUME NEW w, In(w, next'[m]) PROVE FALSE
  <2>1. next[m] \in Seq(Names) /\ next'[m] = delete_next_point(next[m], succ)
    BY <1>1, <1>2, <1>3
  <2>2. In(w, next[m]) /\ w # succ
    BY <1>2, <1>4, <1>6, <2>1, DeleteFacts DEF OrderFacts
  <2>3. w \in Names
    BY <2>1, <2>2 DEF In
  <2>4. EdgeOf(m, w)
    BY <1>2, <1>4, <2>2, <2>3 DEF EdgeFacts
  <2>5. PICK i \in 1..Len(Stmts) : Stmts[i].var = w /\ w # NoVar /\ m \in EdgeOperands(Stmts[i])
    BY <2>4 DEF EdgeOf, EdgeOperands
  <2>6. w \in issued
    BY <1>1, <1>5, <2>5, OperationReads
  <2> QED BY <1>1, <1>2, <2>2, <2>6 DEF Cleared, Simple, StraightLine, Working
<1>7. next'[m] = <<>>
  <2>1. next'[m] \in Seq(Names)
    BY <1>1, <1>2, <1>3, DeleteType
  <2>2. \A i \in 1..Len(next'[m]) : In(next'[m][i], next'[m])
    BY DEF In
  <2>3. Len(next'[m]) = 0
    BY <1>6, <2>1, <2>2
  <2> QED BY <2>1, <2>3
<1>8. m \notin outputs
  BY <1>1, <1>2 DEF Unread
<1>9. PICK color \in Junk : free' = Append(free, color)
  BY <1>3, <1>7, <1>8
<1> QED
  <2>1. free \in Seq(Int) /\ color \in Int
    BY <1>1, JunkAssumption DEF TypeInv, TypeOK, RegisterTypes
  <2> QED BY <1>9, <2>1, AppendIn

\* A colour is given back with the last operation that reads its variable, in every
\* block that defines each of its variables once and before their uses: never before,
\* and, where no statement repeats an operand, as soon as the last one is issued.  Of a
\* branch, a return or a store that reads the variable too the theorem says nothing:
\* the code does not wait for it.
THEOREM ReleaseIsExact == Spec => ReleasedWithLastOperation
<1> DEFINE I == OrderInv /\ Unread /\ Cleared
<1> DEFINE A == pc = "release" /\ pc' = pc /\ StraightLine(Stmts) =>
                  /\ free' # free => ReadersIssued(prev[succ][r])
                  /\ RepeatFree(Stmts) /\ ReadersIssued(prev[succ][r]) => free' # free
<1>1. Unbound => I
  BY OrderInvariant DEF Unbound, NothingBound, Unread, Walking, Cleared, Working
<1>2. I /\ [Next]_vars => I'
  BY OrderInvariantStep, UnreadStep, ClearedStep
<1>3. ASSUME I, [Next]_vars, pc = "release", pc' = pc, free' # free, StraightLine(Stmts)
      PROVE  ReadersIssued(prev[succ][r])
  <2>1. TypeInv /\ Edges /\ NothingLost
    BY <1>3 DEF OrderInv, OwingInv, RegisterInv
  <2> SUFFICES ASSUME NEW i \in 1..Len(Stmts), prev[succ][r] \in Reads(Stmts[i]),
                      Stmts[i].var # NoVar
               PROVE  Stmts[i].var \in issued
    BY DEF ReadersIssued
  <2>2. prev[succ][r] \in EdgeOperands(Stmts[i])
    BY <2>1, OperationReads
  <2> QED BY <1>3, <2>1, <2>2, ReleaseAfterUses
<1>4. ASSUME I, Next, ~UNCHANGED vars, pc = "release", pc' = pc, StraightLine(Stmts),
             RepeatFree(Stmts), ReadersIssued(prev[succ][r])
      PROVE  free' # free
  <2>1. ReleaseOperand
    BY <1>4 DEF Next, EnterBlock, SkipStatement, NewPoint, ArrayOperand, LabelOperand,
       LengthOperand, LiteralOperand, CodedOperand, ValueOperand, InStatements, InOperands,
       NextStatement, GraphDone, IssueRoot, RootsDone, PopPoint, VisitSuccessor, VisitDone,
       BindSuccessor, FinishBlock, FillHash, Finished
  <2> QED BY <1>4, <2>1, LastEdge
<1>5. [Next]_vars /\ I => [A]_vars
  BY <1>3, <1>4
<1> HIDE DEF I
<1> QED BY <1>1, <1>2, <1>5, InitUnbound, PTL DEF Spec, ReleasedWithLastOperation

-----------------------------------------------------------------------------
(* Begin cycles: the points in line.                                       *)

\* The points to be popped, in order: the queue, and the successor that is about
\* to be added to it.
Line == IF pc = "release" THEN Append(q, succ) ELSE q

\* How far begin cycles may fall along the line: 1 for each popped point of latency 2.
Extra(p) == IF Popped(p) THEN 1 ELSE 0
Slack == Extra("ai") + Extra("bi")

\* What is popped begins no later than what is in line, nor than the point popped
\* last, cur; what is in line begins at most a cycle after them.
LineTimes ==
    /\ pc \in {"graph", "roots"} => \A x \in issued : begin[x] = 0
    /\ (\E x \in issued : Popped(x)) => Popped(cur)
    /\ \A x \in issued, j \in 1..Len(Line) :
         begin[x] <= begin[Line[j]] + Slack + (IF Popped(x) THEN 0 ELSE 1)
    /\ Popped(cur) => \A x \in issued :
         begin[x] <= begin[cur] + Slack + (IF Popped(x) THEN 0 ELSE 1)
    /\ Popped(cur) => \A j \in 1..Len(Line) : begin[cur] + Latency(cur) <= begin[Line[j]] + Slack + 1
    /\ \A i, j \in 1..Len(Line) : i < j => begin[Line[i]] <= begin[Line[j]] + Slack

\* An issued point begins after its operands, and so does whatever is behind it.
OperandTimes ==
    \A w \in issued : \A v : In(v, prev[w]) =>
        /\ Popped(v) /\ begin[v] + 1 <= begin[w] + Slack
        /\ Popped(w) => /\ v # cur /\ begin[v] + 1 <= begin[cur] + Slack
                        /\ \A j \in 1..Len(Line) : begin[v] + 1 <= begin[Line[j]] + Slack
        /\ \A i, j \in 1..Len(Line) :
             i <= j /\ Line[i] = w => begin[v] + 1 <= begin[Line[j]] + Slack

\* It begins at the latency of one of them, or at 0.
IssuedAt ==
    \A w \in issued :
        \/ begin[w] = 0 /\ \A v : ~In(v, prev[w])
        \/ \E v : In(v, prev[w]) /\ begin[w] = begin[v] + Latency(v)

Times == Working /\ SingleDefinition(Stmts) => LineTimes /\ OperandTimes /\ IssuedAt

-----------------------------------------------------------------------------
(* The line.                                                               *)

LEMMA LineTypes ==
  ASSUME RegisterInv, QueueFacts
  PROVE  /\ Line \in Seq(Names) /\ Len(Line) \in Nat /\ NoRepeat(Line)
         /\ \A j \in 1..Len(Line) : Line[j] \in issued
         /\ \A p : Popped(p) <=> p \in issued /\ ~In(p, Line)
         /\ begin \in [Names -> Nat] /\ issued \subseteq Names
<1>1. q \in Seq(Names) /\ NoRepeat(q) /\ (\A j \in 1..Len(q) : q[j] \in issued)
  BY WalkTypes DEF QueueFacts
<1>2. begin \in [Names -> Nat] /\ issued \subseteq Names
  BY WalkTypes DEF TypeInv, TypeOK, IssueTypes
<1>3. CASE pc # "release"
  BY <1>1, <1>2, <1>3 DEF Line, Popped
<1>4. CASE pc = "release"
  <2>1. succ \in Names /\ succ \in issued /\ ~In(succ, q)
    BY <1>4, WalkTypes DEF QueueFacts
  <2>2. /\ Append(q, succ) \in Seq(Names) /\ Len(Append(q, succ)) = Len(q) + 1 /\ Len(q) \in Nat
        /\ \A i \in 1..Len(q) : Append(q, succ)[i] = q[i]
        /\ Append(q, succ)[Len(q) + 1] = succ
        /\ \A w : In(w, Append(q, succ)) <=> In(w, q) \/ w = succ
        /\ NoRepeat(Append(q, succ))
    BY <1>1, <2>1, AppendIn
  <2>3. \A j \in 1..(Len(q) + 1) : j \in 1..Len(q) \/ j = Len(q) + 1
    BY <2>2
  <2> QED BY <1>1, <1>2, <1>4, <2>1, <2>2, <2>3 DEF Line, Popped
<1> QED BY <1>3, <1>4

\* A step of the walk leaves the line alone, adds a root, pops its first point, or
\* adds a successor of cur.
LEMMA LineSteps ==
  ASSUME RegisterInv, EdgeFacts, QueueFacts, OwedFacts,
         QuietStep \/ VisitSuccessor \/ ReleaseOperand
  PROVE  /\ UNCHANGED prev /\ \A p : Popped(p)' <=> p \in issued' /\ ~In(p, Line')
         /\ \/ /\ UNCHANGED <<Line, issued, begin, cur>>
               /\ pc' \in {"graph", "roots"} => pc \in {"graph", "roots"}
            \/ \E p \in Names \ issued :
                 /\ pc = "roots" /\ Line' = Append(Line, p) /\ issued' = issued \cup {p}
                 /\ begin' = [begin EXCEPT ![p] = 0] /\ \A o : ~In(o, prev[p])
            \/ /\ pc' = "visit" /\ UNCHANGED <<issued, begin>>
               /\ Line # <<>> /\ Line' = Tail(Line) /\ cur' = Head(Line)
            \/ \E n \in Names \ issued :
                 /\ pc' = "release" /\ Line' = Append(Line, n) /\ issued' = issued \cup {n}
                 /\ begin' = [begin EXCEPT ![n] = begin[cur] + Latency(cur)] /\ cur' = cur
                 /\ In(cur, prev[n]) /\ \A o : In(o, prev[n]) => Popped(o)
<1> USE DEF graph, issue, cursor, regs, result
<1>1. RegisterInv'
  BY RegisterStep DEF Next, QuietStep
<1>2. QueueFacts' /\ UNCHANGED prev
  BY QueueQuiet, QueueVisit, QueueRelease
<1>3. \A p : Popped(p)' <=> p \in issued' /\ ~In(p, Line')
  <2>1. q' \in Seq(Names) /\ (pc' = "release" => succ' \in Names)
    BY <1>1 DEF RegisterInv, TypeInv, TypeOK, IssueTypes, CursorsSet
  <2>2. pc' = "release" => \A w : In(w, Append(q', succ')) <=> In(w, q') \/ w = succ'
    BY <2>1, AppendIn
  <2> QED BY <2>2 DEF Popped, Line
<1>4. CASE GraphDone \/ RootsDone \/ VisitDone \/ ReleaseOperand \/ BindSuccessor
  BY <1>2, <1>4, <1>3 DEF GraphDone, RootsDone, VisitDone, ReleaseOperand, BindSuccessor, Line
<1>5. ASSUME NEW p \in pending, IssueRoot(p)
      PROVE  /\ pc = "roots" /\ Line' = Append(Line, p) /\ issued' = issued \cup {p}
             /\ begin' = [begin EXCEPT ![p] = 0] /\ \A o : ~In(o, prev[p])
             /\ p \in Names \ issued
  BY <1>5, RootReady DEF IssueRoot, Line
<1>6. CASE PopPoint
  BY <1>2, <1>6, <1>3 DEF PopPoint, Line
<1>7. CASE VisitSuccessor
  <2> DEFINE n == next[cur][k]
  <2>1. /\ pc = "visit" /\ q' = q /\ cur' = cur
        /\ \/ pc' = "visit" /\ UNCHANGED <<begin, issued>>
           \/ /\ pc' = "release" /\ succ' = n /\ issued' = issued \cup {n}
              /\ begin' = [begin EXCEPT ![n] = begin[cur] + Latency(cur)]
    BY <1>7 DEF VisitSuccessor, StepOver, StartIssue
  <2>2. n \in Names /\ In(cur, prev[n])
    BY <1>7, VisitTypes DEF VisitSuccessor
  <2>3. CASE pc' = "visit" /\ UNCHANGED <<begin, issued>>
    BY <1>2, <1>3, <2>1, <2>3 DEF Line
  <2>4. CASE /\ pc' = "release" /\ succ' = n /\ issued' = issued \cup {n}
             /\ begin' = [begin EXCEPT ![n] = begin[cur] + Latency(cur)]
    <3>1. n \notin issued
      BY <1>7, <2>4, QueueVisit
    <3>2. issued' # issued
      BY <2>4, <3>1
    <3>3. \A o : In(o, prev[n]) => Popped(o)
      BY <1>7, <3>2, SuccessorReady
    <3>4. Line' = Append(Line, n)
      BY <2>1, <2>4 DEF Line
    <3> HIDE DEF n
    <3> QED BY <1>2, <1>3, <2>1, <2>2, <2>4, <3>1, <3>3, <3>4
  <2> QED BY <2>1, <2>3, <2>4
<1> QED BY <1>1, <1>2, <1>4, <1>5, <1>6, <1>7, <1>3 DEF QuietStep

\* The latency of a popped point is part of the slack.
LEMMA LatencySlack ==
  /\ Slack \in 0..2
  /\ \A p : Latency(p) \in 1..2 /\ (Popped(p) => Latency(p) <= Slack + 1)
BY DEF Slack, Extra, Latency

-----------------------------------------------------------------------------
(* The begin cycles along it.                                              *)

LEMMA TimesQuiet ==
  ASSUME UNCHANGED <<prev, Line, issued, begin, cur>>, \A p : Popped(p)' <=> Popped(p),
         pc' \in {"graph", "roots"} => pc \in {"graph", "roots"},
         LineTimes, OperandTimes, IssuedAt
  PROVE  LineTimes' /\ OperandTimes' /\ IssuedAt'
<1>1. Slack' = Slack
  BY DEF Slack, Extra
<1>2. LineTimes'
  BY <1>1 DEF LineTimes
<1>3. OperandTimes'
  BY <1>1 DEF OperandTimes
<1> QED BY <1>2, <1>3 DEF IssuedAt

\* Roots begin at 0, when nothing is popped yet.
LEMMA TimesRoot ==
  ASSUME RegisterInv, QueueFacts, LineTimes, OperandTimes, IssuedAt, pc = "roots",
         NEW p \in Names \ issued, Line' = Append(Line, p), issued' = issued \cup {p},
         begin' = [begin EXCEPT ![p] = 0], \A o : ~In(o, prev[p]), prev' = prev,
         \A x : Popped(x)' <=> x \in issued' /\ ~In(x, Line')
  PROVE  LineTimes' /\ OperandTimes' /\ IssuedAt'
<1>1. /\ Line \in Seq(Names) /\ Len(Line) \in Nat /\ \A j \in 1..Len(Line) : Line[j] \in issued
      /\ begin \in [Names -> Nat] /\ issued \subseteq Names /\ \A x \in issued : In(x, Line)
  BY LineTypes DEF QueueFacts, Popped
<1>2. /\ Len(Line') = Len(Line) + 1 /\ \A j \in 1..Len(Line) : Line'[j] = Line[j]
      /\ Line'[Len(Line) + 1] = p /\ \A w : In(w, Line') <=> In(w, Line) \/ w = p
  BY <1>1, AppendIn
<1>3. \A j \in 1..Len(Line') : Line'[j] \in issued'
  <2>1. \A j \in 1..Len(Line') : j \in 1..Len(Line) \/ j = Len(Line) + 1
    BY <1>1, <1>2
  <2> QED BY <1>1, <1>2, <2>1
<1>4. (\A x : ~Popped(x)') /\ Slack' = 0
  <2>1. \A x : ~Popped(x)'
    BY <1>1, <1>2
  <2> QED BY <2>1 DEF Slack, Extra
<1>5. \A x \in issued' : begin'[x] = 0
  BY <1>1 DEF LineTimes
<1>6. LineTimes'
  BY <1>3, <1>4, <1>5 DEF LineTimes
<1>7. \A w \in issued' : \A v : ~In(v, prev'[w])
  BY <1>1 DEF OperandTimes, Popped, QueueFacts
<1> QED BY <1>5, <1>6, <1>7 DEF OperandTimes, IssuedAt

LEMMA TimesPop ==
  ASSUME RegisterInv, QueueFacts, LineTimes, OperandTimes, IssuedAt, pc' = "visit",
         Line # <<>>, Line' = Tail(Line), cur' = Head(Line), UNCHANGED <<issued, begin, prev>>,
         \A x : Popped(x)' <=> x \in issued' /\ ~In(x, Line')
  PROVE  LineTimes' /\ OperandTimes' /\ IssuedAt'
<1>1. /\ Line \in Seq(Names) /\ NoRepeat(Line) /\ \A j \in 1..Len(Line) : Line[j] \in issued
      /\ begin \in [Names -> Nat] /\ issued \subseteq Names
      /\ \A x : Popped(x) <=> x \in issued /\ ~In(x, Line)
  BY LineTypes
<1>2. /\ Len(Line) \in Nat \ {0} /\ cur' = Line[1] /\ Len(Line') = Len(Line) - 1
      /\ \A j \in 1..Len(Line') : j + 1 \in 1..Len(Line) /\ 1 < j + 1 /\ Line'[j] = Line[j + 1]
  <2>1. /\ Len(Line) \in Nat \ {0} /\ cur' = Line[1] /\ Len(Line') = Len(Line) - 1
        /\ \A j \in 1..(Len(Line) - 1) : Line'[j] = Line[j + 1]
    BY <1>1, HeadTailProperties
  <2> QED BY <2>1
<1>3. \A x : Popped(x)' <=> Popped(x) \/ x = cur'
  <2>1. \A x : In(x, Line') <=> In(x, Line) /\ x # cur'
    <3>1. \A j \in 1..Len(Line) : j # 1 => j - 1 \in 1..Len(Line') /\ (j - 1) + 1 = j
      BY <1>2
    <3>2. \A j \in 1..Len(Line') : Line'[j] # cur'
      BY <1>1, <1>2 DEF NoRepeat
    <3>3. ASSUME NEW x, In(x, Line), x # cur' PROVE In(x, Line')
      <4>1. PICK j \in 1..Len(Line) : Line[j] = x
        BY <3>3 DEF In
      <4>2. j # 1
        BY <1>2, <3>3, <4>1
      <4>3. j - 1 \in 1..Len(Line') /\ Line'[j - 1] = x
        BY <1>2, <3>1, <4>1, <4>2
      <4> QED BY <4>3 DEF In
    <3> QED BY <1>2, <3>2, <3>3 DEF In
  <2>2. cur' \in issued /\ In(cur', Line)
    BY <1>1, <1>2 DEF In
  <2> QED BY <1>1, <2>1, <2>2
<1>4. cur' \in issued /\ ~Popped(cur') /\ 1 \in 1..Len(Line)
  BY <1>1, <1>2 DEF In
<1>5. Slack \in 0..2 /\ Slack' \in 0..2 /\ Slack' = Slack + Latency(cur') - 1 /\ Latency(cur') \in 1..2
  BY <1>3, <1>4 DEF Slack, Extra, Latency
<1>6. \A x \in issued : begin[x] \in Nat
  BY <1>1
<1>7. LineTimes'
  <2>1. ASSUME NEW x \in issued', NEW j \in 1..Len(Line')
        PROVE  begin'[x] <= begin'[Line'[j]] + Slack' + (IF Popped(x)' THEN 0 ELSE 1)
    <3>1. /\ begin[x] <= begin[Line[j + 1]] + Slack + (IF Popped(x) THEN 0 ELSE 1)
          /\ begin[Line[1]] <= begin[Line[j + 1]] + Slack /\ Line[j + 1] \in issued
      BY <1>1, <1>2, <1>4 DEF LineTimes
    <3> QED BY <1>2, <1>3, <1>5, <1>6, <3>1
  <2>2. ASSUME NEW x \in issued'
        PROVE  begin'[x] <= begin'[cur'] + Slack' + (IF Popped(x)' THEN 0 ELSE 1)
    <3>1. begin[x] <= begin[cur'] + Slack + (IF Popped(x) THEN 0 ELSE 1)
      BY <1>2, <1>4 DEF LineTimes
    <3> QED BY <1>3, <1>4, <1>5, <1>6, <3>1
  <2>3. ASSUME NEW j \in 1..Len(Line')
        PROVE  begin'[cur'] + Latency(cur') <= begin'[Line'[j]] + Slack' + 1
    <3>1. begin[Line[1]] <= begin[Line[j + 1]] + Slack /\ Line[j + 1] \in issued
      BY <1>1, <1>2, <1>4 DEF LineTimes
    <3> QED BY <1>2, <1>4, <1>5, <1>6, <3>1
  <2>4. ASSUME NEW i \in 1..Len(Line'), NEW j \in 1..Len(Line'), i < j
        PROVE  begin'[Line'[i]] <= begin'[Line'[j]] + Slack'
    <3>1. i + 1 < j + 1
      BY <2>4
    <3>2. begin[Line[i + 1]] <= begin[Line[j + 1]] + Slack /\ Line[i + 1] \in issued /\ Line[j + 1] \in issued
      BY <1>1, <1>2, <3>1 DEF LineTimes
    <3> QED BY <1>2, <1>5, <1>6, <3>2
  <2>5. Latency(cur)' = Latency(cur')
    BY DEF Latency
  <2> QED BY <1>3, <2>1, <2>2, <2>3, <2>4, <2>5 DEF LineTimes
<1>8. ASSUME NEW w \in issued', NEW v, In(v, prev'[w])
      PROVE  /\ Popped(v)' /\ begin'[v] + 1 <= begin'[w] + Slack'
             /\ Popped(w)' => /\ v # cur' /\ begin'[v] + 1 <= begin'[cur'] + Slack'
                              /\ \A j \in 1..Len(Line') : begin'[v] + 1 <= begin'[Line'[j]] + Slack'
             /\ \A i, j \in 1..Len(Line') :
                  i <= j /\ Line'[i] = w => begin'[v] + 1 <= begin'[Line'[j]] + Slack'
  <2>1. /\ Popped(v) /\ begin[v] + 1 <= begin[w] + Slack
        /\ Popped(w) => \A j \in 1..Len(Line) : begin[v] + 1 <= begin[Line[j]] + Slack
        /\ \A i, j \in 1..Len(Line) :
             i <= j /\ Line[i] = w => begin[v] + 1 <= begin[Line[j]] + Slack
    BY <1>8 DEF OperandTimes
  <2>2. v \in issued /\ begin[v] \in Nat /\ begin[w] \in Nat /\ v # cur'
    BY <1>1, <1>4, <1>6, <2>1
  <2>3. Popped(v)' /\ begin'[v] + 1 <= begin'[w] + Slack'
    BY <1>3, <1>5, <2>1, <2>2
  <2>4. ASSUME Popped(w)', NEW j \in 1..Len(Line) PROVE begin[v] + 1 <= begin[Line[j]] + Slack
    <3>1. 1 <= j
      OBVIOUS
    <3> QED BY <1>2, <1>3, <1>4, <2>1, <2>4, <3>1
  <2>5. ASSUME Popped(w)', NEW j \in 1..Len(Line') PROVE begin'[v] + 1 <= begin'[Line'[j]] + Slack'
    <3>1. begin[v] + 1 <= begin[Line[j + 1]] + Slack /\ Line[j + 1] \in issued
      BY <1>1, <1>2, <2>4, <2>5
    <3> QED BY <1>2, <1>5, <1>6, <2>2, <3>1
  <2>6. Popped(w)' => begin'[v] + 1 <= begin'[cur'] + Slack'
    <3>1. Popped(w)' => begin[v] + 1 <= begin[cur'] + Slack
      BY <1>2, <1>4, <2>4
    <3> QED BY <1>4, <1>5, <1>6, <2>2, <3>1
  <2>7. ASSUME NEW i \in 1..Len(Line'), NEW j \in 1..Len(Line'), i <= j, Line'[i] = w
        PROVE  begin'[v] + 1 <= begin'[Line'[j]] + Slack'
    <3>1. i + 1 <= j + 1
      BY <2>7
    <3>2. begin[v] + 1 <= begin[Line[j + 1]] + Slack /\ Line[j + 1] \in issued
      BY <1>1, <1>2, <2>1, <2>7, <3>1
    <3> QED BY <1>2, <1>5, <1>6, <2>2, <3>2
  <2> QED BY <2>2, <2>3, <2>5, <2>6, <2>7
<1>9. OperandTimes'
  BY <1>8 DEF OperandTimes
<1> QED BY <1>7, <1>9 DEF IssuedAt

\* A successor of cur begins after every popped point, and within a cycle of the
\* points in line.
LEMMA TimesIssue ==
  ASSUME RegisterInv, QueueFacts, LineTimes, OperandTimes, IssuedAt, pc' = "release",
         NEW n \in Names \ issued, Line' = Append(Line, n), issued' = issued \cup {n},
         begin' = [begin EXCEPT ![n] = begin[cur] + Latency(cur)], cur' = cur, prev' = prev,
         In(cur, prev[n]), \A o : In(o, prev[n]) => Popped(o),
         \A x : Popped(x)' <=> x \in issued' /\ ~In(x, Line')
  PROVE  LineTimes' /\ OperandTimes' /\ IssuedAt'
<1>1. /\ Line \in Seq(Names) /\ Len(Line) \in Nat /\ \A j \in 1..Len(Line) : Line[j] \in issued
      /\ begin \in [Names -> Nat] /\ issued \subseteq Names
      /\ \A x : Popped(x) <=> x \in issued /\ ~In(x, Line)
  BY LineTypes
<1> DEFINE last == Len(Line) + 1
<1>2. /\ Len(Line') = last /\ \A j \in 1..Len(Line) : Line'[j] = Line[j]
      /\ Line'[last] = n /\ \A w : In(w, Line') <=> In(w, Line) \/ w = n
  BY <1>1, AppendIn
<1>3. \A j \in 1..Len(Line') : j \in 1..Len(Line) \/ j = last
  BY <1>1, <1>2
<1> HIDE DEF last
<1>4. Popped(cur) /\ (\A x : Popped(x)' <=> Popped(x)) /\ ~Popped(n)
  BY <1>1, <1>2
<1>5. Slack' = Slack /\ Slack \in 0..2 /\ Latency(cur) \in 1..2 /\ Latency(cur) <= Slack + 1
  BY <1>4, LatencySlack DEF Slack, Extra
<1>6. /\ \A x \in issued : x # n /\ begin'[x] = begin[x] /\ begin[x] \in Nat
      /\ begin'[n] = begin[cur] + Latency(cur) /\ cur \in issued
  BY <1>1, <1>4
<1>7. \A x \in issued : begin[x] <= begin[cur] + Slack + (IF Popped(x) THEN 0 ELSE 1)
  BY <1>4 DEF LineTimes
<1>8. LineTimes'
  <2>1. ASSUME NEW x \in issued', NEW j \in 1..Len(Line')
        PROVE  begin'[x] <= begin'[Line'[j]] + Slack + (IF Popped(x) THEN 0 ELSE 1)
    <3>1. CASE x \in issued /\ j \in 1..Len(Line)
      <4>1. /\ begin[x] <= begin[Line[j]] + Slack + (IF Popped(x) THEN 0 ELSE 1)
            /\ begin'[Line'[j]] = begin[Line[j]]
        BY <1>1, <1>2, <1>6, <3>1 DEF LineTimes
      <4> QED BY <1>6, <3>1, <4>1
    <3>2. CASE x \in issued /\ j = last
      BY <1>2, <1>5, <1>6, <1>7, <3>2
    <3>3. CASE x = n /\ j \in 1..Len(Line)
      <4>1. /\ begin[cur] + Latency(cur) <= begin[Line[j]] + Slack + 1
            /\ begin'[Line'[j]] = begin[Line[j]]
        BY <1>1, <1>2, <1>4, <1>6, <3>3 DEF LineTimes
      <4> QED BY <1>4, <1>6, <3>3, <4>1
    <3>4. CASE x = n /\ j = last
      BY <1>2, <1>4, <1>5, <1>6, <3>4
    <3> QED BY <1>3, <3>1, <3>2, <3>3, <3>4
  <2>2. ASSUME NEW x \in issued'
        PROVE  begin'[x] <= begin'[cur] + Slack + (IF Popped(x) THEN 0 ELSE 1)
    BY <1>4, <1>5, <1>6, <1>7
  <2>3. ASSUME NEW j \in 1..Len(Line')
        PROVE  begin'[cur] + Latency(cur) <= begin'[Line'[j]] + Slack + 1
    <3>1. CASE j \in 1..Len(Line)
      BY <1>1, <1>2, <1>4, <1>6, <3>1 DEF LineTimes
    <3>2. CASE j = last
      BY <1>2, <1>5, <1>6, <3>2
    <3> QED BY <1>3, <3>1, <3>2
  <2>4. ASSUME NEW i \in 1..Len(Line'), NEW j \in 1..Len(Line'), i < j
        PROVE  begin'[Line'[i]] <= begin'[Line'[j]] + Slack
    <3>1. i \in 1..Len(Line)
      BY <1>1, <1>2, <2>4 DEF last
    <3>2. CASE j \in 1..Len(Line)
      BY <1>1, <1>2, <1>6, <2>4, <3>1, <3>2 DEF LineTimes
    <3>3. CASE j = last
      <4>1. Line'[i] = Line[i] /\ Line[i] \in issued
        BY <1>1, <1>2, <3>1
      <4> QED BY <1>2, <1>5, <1>6, <1>7, <3>3, <4>1
    <3> QED BY <1>3, <3>2, <3>3
  <2>5. Latency(cur)' = Latency(cur)
    BY DEF Latency
  <2> QED BY <1>4, <1>5, <2>1, <2>2, <2>3, <2>4, <2>5 DEF LineTimes
<1>9. ASSUME NEW v, Popped(v) PROVE begin'[v] + 1 <= begin'[n] + Slack
  <2>1. v \in issued
    BY <1>1, <1>9
  <2> QED BY <1>5, <1>6, <1>7, <1>9, <2>1
<1>10. ASSUME NEW w \in issued', NEW v, In(v, prev'[w])
       PROVE  /\ Popped(v) /\ begin'[v] + 1 <= begin'[w] + Slack
              /\ Popped(w) => /\ v # cur /\ begin'[v] + 1 <= begin'[cur] + Slack
                              /\ \A j \in 1..Len(Line') : begin'[v] + 1 <= begin'[Line'[j]] + Slack
              /\ \A i, j \in 1..Len(Line') :
                   i <= j /\ Line'[i] = w => begin'[v] + 1 <= begin'[Line'[j]] + Slack
  <2>1. CASE w = n
    <3>1. Popped(v)
      BY <1>10, <2>1
    <3>2. ASSUME NEW i \in 1..Len(Line'), NEW j \in 1..Len(Line'), i <= j, Line'[i] = n
          PROVE  begin'[v] + 1 <= begin'[Line'[j]] + Slack
      <4>1. i = last
        BY <1>1, <1>2, <1>3, <3>2
      <4>2. j = last
        BY <1>1, <1>2, <3>2, <4>1 DEF last
      <4> QED BY <1>2, <1>9, <3>1, <4>2
    <3> QED BY <1>4, <1>9, <2>1, <3>1, <3>2
  <2>2. CASE w \in issued
    <3>1. /\ Popped(v) /\ begin[v] + 1 <= begin[w] + Slack
          /\ Popped(w) => /\ v # cur /\ begin[v] + 1 <= begin[cur] + Slack
                          /\ \A j \in 1..Len(Line) : begin[v] + 1 <= begin[Line[j]] + Slack
          /\ \A i, j \in 1..Len(Line) :
               i <= j /\ Line[i] = w => begin[v] + 1 <= begin[Line[j]] + Slack
      BY <1>10, <2>2 DEF OperandTimes
    <3>2. v \in issued /\ begin'[v] = begin[v] /\ begin'[w] = begin[w]
      BY <1>1, <1>6, <2>2, <3>1
    <3>3. \A j \in 1..Len(Line) : Line'[j] = Line[j] /\ begin'[Line'[j]] = begin[Line[j]]
      BY <1>1, <1>2, <1>6
    <3>4. ASSUME Popped(w), NEW j \in 1..Len(Line')
          PROVE  begin'[v] + 1 <= begin'[Line'[j]] + Slack
      BY <1>2, <1>3, <1>9, <3>1, <3>2, <3>3, <3>4
    <3>5. ASSUME NEW i \in 1..Len(Line'), NEW j \in 1..Len(Line'), i <= j, Line'[i] = w
          PROVE  begin'[v] + 1 <= begin'[Line'[j]] + Slack
      <4>1. CASE j = last
        BY <1>2, <1>9, <3>1, <4>1
      <4>2. CASE j \in 1..Len(Line)
        <5>1. i \in 1..Len(Line)
          BY <1>1, <3>5, <4>2
        <5> QED BY <3>1, <3>2, <3>3, <3>5, <4>2, <5>1
      <4> QED BY <1>3, <4>1, <4>2
    <3> QED BY <1>6, <3>1, <3>2, <3>4, <3>5
  <2> QED BY <2>1, <2>2
<1>11. OperandTimes'
  BY <1>4, <1>5, <1>10 DEF OperandTimes
<1>12. IssuedAt'
  <2>1. ASSUME NEW w \in issued
        PROVE  \/ begin'[w] = 0 /\ \A v : ~In(v, prev[w])
               \/ \E v : In(v, prev[w]) /\ begin'[w] = begin'[v] + Latency(v)
    <3>1. CASE begin[w] = 0 /\ \A v : ~In(v, prev[w])
      BY <1>6, <3>1
    <3>2. CASE \E v : In(v, prev[w]) /\ begin[w] = begin[v] + Latency(v)
      <4>1. PICK v : In(v, prev[w]) /\ begin[w] = begin[v] + Latency(v)
        BY <3>2
      <4>2. v \in issued
        BY <1>1, <4>1 DEF OperandTimes
      <4> QED BY <1>6, <4>1, <4>2
    <3> QED BY <3>1, <3>2 DEF IssuedAt
  <2>2. begin'[n] = begin'[cur] + Latency(cur)
    BY <1>6
  <2> QED BY <2>1, <2>2 DEF IssuedAt, Latency
<1> QED BY <1>8, <1>11, <1>12

\* While the graph is built nothing is in line.
LEMMA TimesGraph ==
  ASSUME pc' = "graph", issued' = {}, QueueFacts', q' \in Seq(Names)
  PROVE  LineTimes' /\ OperandTimes' /\ IssuedAt'
<1>1. Line' = q' /\ Len(q') \in Nat /\ \A i : ~(i \in 1..Len(q'))
  BY DEF Line, QueueFacts
<1>2. \A x : ~Popped(x)'
  BY DEF Popped
<1>3. LineTimes'
  BY <1>1, <1>2 DEF LineTimes
<1> QED BY <1>3 DEF OperandTimes, IssuedAt

LEMMA TimesInit == Unbound => Times
BY DEF Unbound, NothingBound, Times, Working

LEMMA TimesStep == OwingInv /\ Times /\ [Next]_vars => Times'
<1> SUFFICES ASSUME OwingInv, Times, [Next]_vars, Working', SingleDefinition(Stmts)'
             PROVE  LineTimes' /\ OperandTimes' /\ IssuedAt'
  BY DEF Times
<1>1. OwingInv' /\ RegisterInv
  BY OwingInvariant DEF OwingInv
<1>2. CASE pc' = "graph"
  <2>1. issued' = {} /\ QueueFacts' /\ q' \in Seq(Names)
    BY <1>1, <1>2 DEF OwingInv, Owing, RegisterInv, RootColours, TypeInv, TypeOK, IssueTypes
  <2> QED BY <1>2, <2>1, TimesGraph
<1>3. CASE UNCHANGED vars
  <2>1. UNCHANGED <<Stmts, pc, prev, Line, issued, begin, cur, q, succ>>
    BY <1>3 DEF vars, graph, issue, cursor, Stmts, Line
  <2>2. \A p : Popped(p)' <=> Popped(p)
    BY <2>1 DEF Popped
  <2>3. LineTimes /\ OperandTimes /\ IssuedAt
    BY <2>1 DEF Times, Working
  <2> QED BY <2>1, <2>2, <2>3, TimesQuiet
<1>4. CASE QuietStep \/ VisitSuccessor \/ ReleaseOperand
  <2>1. Working /\ Stmts' = Stmts
    BY <1>4 DEF QuietStep, GraphDone, IssueRoot, RootsDone, PopPoint, VisitDone, VisitSuccessor,
       ReleaseOperand, BindSuccessor, Working, Stmts
  <2>2. EdgeFacts /\ QueueFacts /\ OwedFacts /\ LineTimes /\ OperandTimes /\ IssuedAt
    BY <2>1 DEF OwingInv, Edges, Owing, Times
  <2>3. /\ UNCHANGED prev /\ \A p : Popped(p)' <=> p \in issued' /\ ~In(p, Line')
        /\ \/ /\ UNCHANGED <<Line, issued, begin, cur>>
              /\ pc' \in {"graph", "roots"} => pc \in {"graph", "roots"}
           \/ \E p \in Names \ issued :
                /\ pc = "roots" /\ Line' = Append(Line, p) /\ issued' = issued \cup {p}
                /\ begin' = [begin EXCEPT ![p] = 0] /\ \A o : ~In(o, prev[p])
           \/ /\ pc' = "visit" /\ UNCHANGED <<issued, begin>>
              /\ Line # <<>> /\ Line' = Tail(Line) /\ cur' = Head(Line)
           \/ \E n \in Names \ issued :
                /\ pc' = "release" /\ Line' = Append(Line, n) /\ issued' = issued \cup {n}
                /\ begin' = [begin EXCEPT ![n] = begin[cur] + Latency(cur)] /\ cur' = cur
                /\ In(cur, prev[n]) /\ \A o : In(o, prev[n]) => Popped(o)
    BY <1>1, <1>4, <2>2, LineSteps
  <2>4. CASE /\ UNCHANGED <<Line, issued, begin, cur>>
             /\ pc' \in {"graph", "roots"} => pc \in {"graph", "roots"}
    <3>1. \A p : Popped(p)' <=> Popped(p)
      BY <1>1, <2>2, <2>3, <2>4, LineTypes
    <3> QED BY <2>2, <2>3, <2>4, <3>1, TimesQuiet
  <2> QED BY <1>1, <2>2, <2>3, <2>4, TimesRoot, TimesPop, TimesIssue
<1> QED
  <2>1. \/ pc' = "graph" \/ ~Working' \/ QuietStep \/ VisitSuccessor \/ ReleaseOperand
        \/ UNCHANGED vars
    BY DEF Next, EnterBlock, SkipStatement, NewPoint, ArrayOperand, LabelOperand, LengthOperand,
       LiteralOperand, CodedOperand, ValueOperand, InStatements, InOperands, NextStatement,
       FinishBlock, FillHash, Finished, Working, QuietStep
  <2> QED BY <1>2, <1>3, <1>4, <2>1

-----------------------------------------------------------------------------
(* The points of a block.                                                  *)

\* A point is a variable of a statement or an operand, and when the graph is built
\* one that is not an output is the operand of another.
PointFacts ==
    /\ \A p \in points : \/ \E i \in 1..Len(Stmts) : Stmts[i].var = p
                         \/ \E v \in Names : In(p, prev[v])
    /\ Walking => \A p \in points \ outputs : \E v \in Names : In(p, prev[v])
Points == Working /\ SingleDefinition(Stmts) => PointFacts

LEMMA PointsInit == Unbound => Points
BY DEF Unbound, NothingBound, Points, Working

LEMMA PointsStep == RegisterInv /\ Edges /\ Points /\ [Next]_vars => Points'
<1> SUFFICES ASSUME RegisterInv, Edges, Points, [Next]_vars, Working', SingleDefinition(Stmts)'
             PROVE  PointFacts'
  BY DEF Points
<1>1. /\ TypeInv /\ next \in [Names -> Seq(Names)] /\ prev \in [Names -> Seq(Names)]
      /\ points \subseteq Names
  BY WalkTypes
<1>2. CASE EnterBlock
  BY <1>2 DEF EnterBlock, PointFacts, Walking
<1>3. CASE FinishBlock \/ FillHash
  BY <1>3 DEF FinishBlock, FillHash, Working
<1>4. CASE SkipStatement \/ NewPoint \/ ArrayOperand \/ LabelOperand \/ LengthOperand
           \/ LiteralOperand \/ ValueOperand \/ NextStatement
  <2> DEFINE v == S.var
  <2> DEFINE o == Operand
  <2>1. pc = "graph" /\ Stmts' = Stmts
    BY <1>4 DEF SkipStatement, NewPoint, ArrayOperand, LabelOperand, LengthOperand,
       LiteralOperand, ValueOperand, NextStatement, CodedOperand, InStatements, InOperands, Stmts
  <2>2. EdgeFacts /\ PointFacts /\ SingleDefinition(Stmts)
    BY <2>1 DEF Edges, Points, Working
  <2>3. /\ pc' = "graph"
        /\ \/ UNCHANGED <<points, prev>>
           \/ /\ v \in Names /\ S = Stmts[si] /\ si \in 1..Len(Stmts) /\ oi = 0
              /\ prev' = [prev EXCEPT ![v] = <<>>] /\ points' = points \cup {v}
           \/ /\ v \in Names /\ o \in Names
              /\ prev' = [prev EXCEPT ![v] = Append(prev[v], o)] /\ points' = points \cup {o}
    BY <1>1, <1>4, <2>1, <2>2, GraphSteps
  <2>4. CASE UNCHANGED <<points, prev>>
    BY <2>1, <2>2, <2>3, <2>4 DEF PointFacts, Walking
  <2>5. CASE /\ v \in Names /\ S = Stmts[si] /\ si \in 1..Len(Stmts) /\ oi = 0
             /\ prev' = [prev EXCEPT ![v] = <<>>] /\ points' = points \cup {v}
    <3>1. \A p \in Names : ~In(p, prev[v])
      BY <1>1, <2>1, <2>2, <2>5, NewPointFresh
    <3>2. \E i \in 1..Len(Stmts) : Stmts[i].var = v
      BY <2>5
    <3> HIDE DEF v
    <3>3. \A w \in Names : w # v => prev'[w] = prev[w]
      BY <1>1, <2>5
    <3>4. ASSUME NEW p \in points'
          PROVE  (\E i \in 1..Len(Stmts) : Stmts[i].var = p) \/ \E w \in Names : In(p, prev'[w])
      <4>1. CASE p = v
        BY <3>2, <4>1
      <4>2. CASE p \in points
        <5>1. p \in Names
          BY <1>1, <4>2
        <5> QED BY <2>2, <3>1, <3>3, <4>2, <5>1 DEF PointFacts
      <4> QED BY <2>5, <4>1, <4>2
    <3> QED BY <2>1, <2>3, <3>4 DEF PointFacts, Walking
  <2>6. CASE /\ v \in Names /\ o \in Names
             /\ prev' = [prev EXCEPT ![v] = Append(prev[v], o)] /\ points' = points \cup {o}
    <3> HIDE DEF v, o
    <3>1. prev[v] \in Seq(Names) /\ prev'[v] = Append(prev[v], o)
      BY <1>1, <2>6
    <3>2. \A p : In(p, prev'[v]) <=> In(p, prev[v]) \/ p = o
      <4>1. \A p : In(p, Append(prev[v], o)) <=> In(p, prev[v]) \/ p = o
        BY <2>6, <3>1, AppendIn
      <4> QED BY <3>1, <4>1
    <3>3. \A w \in Names : w # v => prev'[w] = prev[w]
      BY <1>1, <2>6
    <3>4. ASSUME NEW p \in points'
          PROVE  (\E i \in 1..Len(Stmts) : Stmts[i].var = p) \/ \E w \in Names : In(p, prev'[w])
      BY <2>2, <2>6, <3>2, <3>3 DEF PointFacts
    <3> QED BY <2>1, <2>3, <3>4 DEF PointFacts, Walking
  <2> QED BY <2>3, <2>4, <2>5, <2>6
<1>5. CASE GraphDone
  <2>1. /\ pc = "graph" /\ outputs' = {p \in points : next[p] = <<>>} /\ Stmts' = Stmts
        /\ UNCHANGED <<points, next, prev>>
    BY <1>5 DEF GraphDone, graph, Stmts
  <2>2. EdgeFacts /\ PointFacts
    BY <2>1 DEF Edges, Points, Working
  <2>3. ASSUME NEW p \in points \ outputs' PROVE \E v \in Names : In(p, prev[v])
    <3>1. next[p] \in Seq(Names) /\ next[p] # <<>> /\ p \in Names
      BY <1>1, <2>1
    <3>2. next[p][1] \in Names /\ In(next[p][1], next[p])
      BY <3>1 DEF In
    <3> QED BY <2>2, <3>1, <3>2 DEF EdgeFacts
  <2> QED BY <2>1, <2>2, <2>3 DEF PointFacts
<1>6. CASE (\E p \in pending : IssueRoot(p)) \/ RootsDone \/ PopPoint \/ VisitSuccessor
           \/ VisitDone \/ ReleaseOperand \/ BindSuccessor
  <2>1. Walking /\ UNCHANGED <<points, prev, outputs, Stmts>>
    BY <1>6 DEF IssueRoot, RootsDone, PopPoint, VisitSuccessor, VisitDone, ReleaseOperand,
       BindSuccessor, Walking, graph, issue, Stmts
  <2> QED BY <2>1 DEF Points, PointFacts, Walking, Working
<1>7. CASE UNCHANGED vars
  <2>1. UNCHANGED <<pc, points, prev, outputs, Stmts>>
    BY <1>7 DEF vars, graph, issue, Stmts
  <2> QED BY <2>1 DEF Points, PointFacts, Walking, Working
<1> QED BY <1>2, <1>3, <1>4, <1>5, <1>6, <1>7 DEF Next, Finished
-----------------------------------------------------------------------------
(* The outputs of a block.                                                 *)

\* A point that no other depends on is the variable of a statement: an operand is
\* made together with its edge, which only a new definition takes away.
Variable(p) == \E i \in 1..Len(Stmts) : Stmts[i].var = p
Outputs ==
    /\ pc = "graph" => \A p \in points : next[p] = <<>> => Variable(p)
    /\ Walking => \A p \in outputs : Variable(p)

LEMMA OutputsInit == Unbound => Outputs
BY DEF Unbound, NothingBound, Outputs, Walking

LEMMA OutputsStep == TypeInv /\ Outputs /\ [Next]_vars => Outputs'
<1> SUFFICES ASSUME TypeInv, Outputs, [Next]_vars PROVE Outputs'
  OBVIOUS
<1>1. next \in [Names -> Seq(Names)] /\ points \subseteq Names
  BY DEF TypeInv, TypeOK, GraphTypes
<1>2. CASE EnterBlock
  BY <1>2 DEF EnterBlock, Outputs, Walking
<1>3. CASE FinishBlock \/ FillHash
  BY <1>3 DEF FinishBlock, FillHash, Outputs, Walking
<1>4. CASE NewPoint
  <2>1. /\ pc = "graph" /\ pc' = pc /\ Stmts' = Stmts /\ S.var \in Names /\ Variable(S.var)
        /\ points' = points \cup {S.var} /\ next' = [next EXCEPT ![S.var] = <<>>]
    <3>1. si \in 1..Len(Stmts) /\ S = Stmts[si]
      BY <1>4, StatementTypes DEF NewPoint, InStatements, TypeInv, TypeOK, ControlTypes, S
    <3>2. S.var \in Names \cup {NoVar}
      BY <3>1, StatementTypes DEF TypeInv
    <3> QED BY <1>4, <3>1, <3>2 DEF NewPoint, InStatements, Stmts, Variable
  <2> DEFINE v == S.var
  <2> HIDE DEF v
  <2>2. \A p \in points' : p # v => p \in points /\ next'[p] = next[p]
    BY <1>1, <2>1 DEF v
  <2> QED BY <2>1, <2>2 DEF Outputs, Variable, Walking, v
<1>5. CASE ValueOperand
  <2>1. /\ pc = "graph" /\ pc' = pc /\ Stmts' = Stmts /\ points' = points \cup {Operand}
        /\ next' = [next EXCEPT ![Operand] = Append(next[Operand], S.var)]
    BY <1>5 DEF ValueOperand, InOperands, InStatements, Stmts
  <2>2. Operand \in Names /\ S.var \in Names
    <3>1. si \in 1..Len(Stmts) /\ S = Stmts[si] /\ oi \in 1..Len(S.ops)
      BY <1>5, StatementTypes
         DEF ValueOperand, InOperands, InStatements, TypeInv, TypeOK, ControlTypes, S
    <3>2. S.ops \in Seq(Names) /\ S.var \in points
      BY <1>5, <3>1, StatementTypes
         DEF TypeInv, VarsHavePoints, ValueOperand, InOperands, InStatements
    <3> QED BY <1>1, <3>1, <3>2 DEF Operand
  <2> DEFINE o == Operand
  <2> DEFINE v == S.var
  <2> HIDE DEF o, v
  <2>3. next'[o] # <<>>
    <3>1. next[o] \in Seq(Names) /\ next'[o] = Append(next[o], v)
      BY <1>1, <2>1, <2>2 DEF o, v
    <3>2. Len(Append(next[o], v)) = Len(next[o]) + 1 /\ Len(next[o]) \in Nat
      BY <2>2, <3>1 DEF v
    <3>3. Len(<<>>) = 0
      OBVIOUS
    <3> QED BY <3>1, <3>2, <3>3
  <2>4. \A p \in points' : p # o => p \in points /\ next'[p] = next[p]
    BY <1>1, <2>1 DEF o
  <2> QED BY <2>1, <2>3, <2>4 DEF Outputs, Variable, Walking
<1>6. CASE SkipStatement \/ ArrayOperand \/ LabelOperand \/ LengthOperand \/ LiteralOperand
           \/ NextStatement
  <2>1. pc = "graph" /\ pc' = pc /\ UNCHANGED <<Stmts, points, next>>
    BY <1>6 DEF SkipStatement, ArrayOperand, LabelOperand, LengthOperand, LiteralOperand,
       NextStatement, CodedOperand, InOperands, InStatements, Stmts, graph
  <2> QED BY <2>1 DEF Outputs, Variable, Walking
<1>7. CASE GraphDone
  <2>1. pc = "graph" /\ pc' = "roots" /\ Stmts' = Stmts /\ outputs' = {p \in points : next[p] = <<>>}
    BY <1>7 DEF GraphDone, Stmts
  <2> QED BY <2>1 DEF Outputs, Variable, Walking
<1>8. CASE (\E p \in pending : IssueRoot(p)) \/ RootsDone \/ PopPoint \/ VisitSuccessor
           \/ VisitDone \/ ReleaseOperand \/ BindSuccessor
  <2>1. Walking /\ pc' # "graph" /\ UNCHANGED <<outputs, Stmts>>
    BY <1>8 DEF IssueRoot, RootsDone, PopPoint, VisitSuccessor, StepOver, StartIssue, VisitDone,
       ReleaseOperand, BindSuccessor, Walking, graph, issue, Stmts
  <2> QED BY <2>1 DEF Outputs, Variable, Walking
<1>9. CASE UNCHANGED vars
  <2>1. UNCHANGED <<pc, points, next, outputs, Stmts>>
    BY <1>9 DEF vars, graph, issue, Stmts
  <2> QED BY <2>1 DEF Outputs, Variable, Walking
<1> QED BY <1>2, <1>3, <1>4, <1>5, <1>6, <1>7, <1>8, <1>9 DEF Next, Finished

-----------------------------------------------------------------------------
(* The statements' cycles.                                                 *)

TimeInv == OrderInv /\ Times /\ Points /\ Outputs

LEMMA TimeInvariant == (Unbound => TimeInv) /\ (TimeInv /\ [Next]_vars => TimeInv')
BY OrderInvariant, OrderInvariantStep, TimesInit, TimesStep, PointsInit, PointsStep,
   OutputsInit, OutputsStep DEF TimeInv, OrderInv, OwingInv, RegisterInv

\* When a block has been issued each point begins after its operands, as late as one
\* of them allows, and each that is not an output before some output.
LEMMA BlockTimes ==
  ASSUME TimeInv, BlockIssued, StraightLine(Stmts), RepeatFree(Stmts)
  PROVE  /\ points \subseteq issued /\ Slack \in 0..2
         /\ \A w \in points : begin[w] \in Nat
         /\ \A p \in points \ outputs : \E o \in outputs : begin[p] + 1 <= begin[o] + Slack
         /\ \A w \in points : \A v : In(v, prev[w]) =>
              v \in points /\ begin[v] + 1 <= begin[w] + Slack
         /\ \A w \in points : \/ begin[w] = 0 /\ \A v : ~In(v, prev[w])
                              \/ \E v : In(v, prev[w]) /\ begin[w] = begin[v] + Latency(v)
<1>1. /\ EdgeFacts /\ QueueFacts /\ RegisterInv /\ PointFacts /\ LineTimes /\ OperandTimes
      /\ IssuedAt /\ pc = "queue" /\ q = <<>> /\ Walking
  BY DEF TimeInv, OrderInv, OwingInv, BlockIssued, Edges, Owing, Points, Times, Working,
     Walking, StraightLine
<1>2. /\ points \subseteq Names /\ begin \in [Names -> Nat] /\ points \subseteq issued
      /\ issued \subseteq points /\ prev \in [Names -> Seq(Names)]
  BY <1>1, WalkTypes, AllIssuedAtEnd
     DEF TimeInv, RepeatFreeIssued, TypeInv, TypeOK, IssueTypes, QueueFacts
<1>3. \A p \in points : Popped(p)
  BY <1>1, <1>2 DEF Popped, In
<1>4. \A w \in points : \A v : In(v, prev[w]) =>
        v \in points /\ v # cur /\ begin[v] + 1 <= begin[w] + Slack /\ begin[v] + 1 <= begin[cur] + Slack
  BY <1>1, <1>2, <1>3 DEF OperandTimes, Popped
<1>5. ASSUME NEW p \in points \ outputs
      PROVE  \E o \in outputs : begin[p] + 1 <= begin[o] + Slack
  <2>1. PICK v \in Names : In(p, prev[v])
    BY <1>1, <1>5 DEF PointFacts
  <2>2. v \in points /\ p \in Names
    BY <1>1, <1>2, <2>1 DEF EdgeFacts
  <2>3. cur \in points
    BY <1>1, <1>2, <1>3 DEF LineTimes, Popped
  <2>4. cur \in outputs
    <3>1. ASSUME cur \notin outputs PROVE FALSE
      <4>1. PICK w \in Names : In(cur, prev[w])
        BY <1>1, <2>3, <3>1 DEF PointFacts
      <4>2. w \in points
        BY <1>1, <1>2, <2>3, <4>1 DEF EdgeFacts
      <4> QED BY <1>4, <4>1, <4>2
    <3> QED BY <3>1
  <2> QED BY <1>4, <2>1, <2>2, <2>4
<1>6. Slack \in 0..2
  BY LatencySlack
<1> QED BY <1>1, <1>2, <1>4, <1>5, <1>6 DEF IssuedAt

\* Without loads of the dot product in a block, its points keep to the order exactly.
LEMMA NoSlack ==
  ASSUME TimeInv, BlockIssued, StraightLine(Stmts), UnitLatency(Stmts)
  PROVE  Slack = 0 /\ \A v \in points : Latency(v) = 1
<1>1. EdgeFacts /\ QueueFacts /\ PointFacts /\ TypeInv /\ Walking
  BY DEF TimeInv, OrderInv, OwingInv, RegisterInv, BlockIssued, Edges, Owing, Points, Working,
     Walking, StraightLine
<1>2. points \subseteq Names /\ issued \subseteq points
  BY <1>1 DEF TypeInv, TypeOK, GraphTypes, QueueFacts
<1>3. ASSUME NEW p \in points, p \in {"ai", "bi"} PROVE FALSE
  <2>1. CASE \E i \in 1..Len(Stmts) : Stmts[i].var = p
    BY <1>3, <2>1 DEF UnitLatency
  <2>2. CASE \E v \in Names : In(p, prev[v])
    <3>1. PICK v \in Names : EdgeOf(p, v)
      BY <1>1, <1>2, <2>2 DEF EdgeFacts
    <3>2. PICK i \in 1..Len(Stmts) : p \in EdgeOperands(Stmts[i])
      BY <3>1 DEF EdgeOf, EdgeOperands
    <3> QED BY <1>3, <3>2 DEF UnitLatency
  <2> QED BY <1>1, <2>1, <2>2 DEF PointFacts
<1> QED BY <1>2, <1>3 DEF Slack, Extra, Latency, Popped

\* What binding leaves of a finished block: the cycles of its statements and its end.
\* A block that ends with its first cycle has a statement there.
BlockTable(ss, c, e) ==
    /\ Len(c) = Len(ss) /\ \A i \in 1..Len(ss) : ss[i].var = NoVar => e = c[i] + 1
    /\ e = 1 => \E i \in 1..Len(ss) : c[i] = 0
    /\ StraightLine(ss) /\ RepeatFree(ss) =>
         \A i, j \in 1..Len(ss) : ss[i].var = NoVar => c[j] <= c[i]
    /\ StraightLine(ss) /\ RepeatFree(ss) /\ UnitLatency(ss) =>
         \A i, j \in 1..Len(ss) :
             DefinesFor(ss, i, j) /\ EdgeOperands(ss[i]) # {} /\ ss[j].type # "LOAD" => c[j] > c[i]

Table ==
    /\ pc \in {"hash", "done"} => b = Len(blocks)
    /\ Len(cycle) = IF pc \in {"hash", "done"} THEN b ELSE b - 1
    /\ Len(endCycle) = Len(cycle)
    /\ \A l \in 1..Len(cycle) : BlockTable(blocks[l].statements, cycle[l], endCycle[l])

LEMMA MaxOfInt ==
  ASSUME NEW x \in Int, NEW y \in Int
  PROVE  MaxOf(x, y) \in Int /\ MaxOf(x, y) >= x /\ MaxOf(x, y) >= y /\ MaxOf(x, y) \in {x, y}
BY DEF MaxOf

\* The cycles FinishBlock computes are those of a table.
LEMMA FinishedTable ==
  ASSUME TimeInv, BlockIssued, NEW junk \in [points \ issued -> Junk], NEW c, NEW e,
         c = [i \in 1..Len(Stmts) |-> CycleOf(Stmts[i], junk)],
         e = IF \E i \in 1..Len(Stmts) : Stmts[i].var = NoVar
             THEN MaxOf(1, EndOf(junk)) ELSE EndOf(junk)
  PROVE  BlockTable(Stmts, c, e)
<1> DEFINE E == EndOf(junk)
<1>1. /\ TypeInv /\ Walking /\ Len(Stmts) \in Nat /\ Len(c) = Len(Stmts)
      /\ \A i \in 1..Len(Stmts) : Stmts[i] \in Statement
  <2>1. TypeInv
    BY DEF TimeInv, OrderInv, OwingInv, RegisterInv
  <2>2. Len(Stmts) \in Nat /\ Stmts \in Seq(Statement)
    BY <2>1, StatementTypes DEF TypeInv
  <2> QED BY <2>1, <2>2 DEF BlockIssued, Walking
<1>2. E \in Nat /\ \A p \in outputs : E >= BeginOf(p, junk) + 1
  BY <1>1, EndType
<1> HIDE DEF E
<1>3. ASSUME StraightLine(Stmts), RepeatFree(Stmts),
             NEW i \in 1..Len(Stmts), Stmts[i].var # NoVar
      PROVE  /\ Stmts[i].var \in points /\ begin[Stmts[i].var] \in Nat
             /\ begin[Stmts[i].var] <= E
             /\ Slack = 0 => begin[Stmts[i].var] + 1 <= E
             /\ Stmts[i].type = "LOAD" => c[i] = MaxOf(0, begin[Stmts[i].var] - 2)
             /\ Stmts[i].type # "LOAD" => c[i] = MaxOf(0, begin[Stmts[i].var] - 1)
  <2> DEFINE v == Stmts[i].var
  <2>1. v \in points /\ v \in issued /\ begin[v] \in Nat /\ Slack \in 0..2
    BY <1>1, <1>3, BlockTimes DEF TypeInv, VarsHavePoints, BlockIssued
  <2>2. CycleOf(Stmts[i], junk) = MaxOf(0, begin[v] - (IF Stmts[i].type = "LOAD" THEN 2 ELSE 1))
    BY <1>3, <2>1 DEF CycleOf, BeginOf
  <2> HIDE DEF v
  <2>3. \A o \in outputs : begin[o] \in Nat /\ begin[o] + 1 <= E
    BY <1>1, <1>2, <1>3, BlockTimes DEF BeginOf, TypeInv, CursorsSet
  <2>4. begin[v] <= E /\ (Slack = 0 => begin[v] + 1 <= E)
    <3>1. CASE v \in outputs
      BY <1>2, <2>1, <2>3, <3>1
    <3>2. CASE v \notin outputs
      <4>1. PICK o \in outputs : begin[v] + 1 <= begin[o] + Slack
        BY <1>3, <2>1, <3>2, BlockTimes
      <4> QED BY <1>2, <2>1, <2>3, <4>1
    <3> QED BY <3>1, <3>2
  <2> QED BY <1>1, <2>1, <2>2, <2>4 DEF v
<1>4. ASSUME NEW i \in 1..Len(Stmts), Stmts[i].var = NoVar
      PROVE  c[i] = MaxOf(0, E - 1) /\ e = MaxOf(1, E) /\ e = c[i] + 1
  BY <1>1, <1>2, <1>4 DEF CycleOf, MaxOf, E
<1>5. ASSUME StraightLine(Stmts), RepeatFree(Stmts), NEW i \in 1..Len(Stmts),
             NEW j \in 1..Len(Stmts), Stmts[i].var = NoVar
      PROVE  c[j] <= c[i]
  <2>1. CASE Stmts[j].var = NoVar
    BY <1>1, <1>2, <1>4, <1>5, <2>1 DEF MaxOf
  <2>2. CASE Stmts[j].var # NoVar
    <3>1. /\ begin[Stmts[j].var] \in Nat /\ begin[Stmts[j].var] <= E
          /\ \/ c[j] = MaxOf(0, begin[Stmts[j].var] - 2)
             \/ c[j] = MaxOf(0, begin[Stmts[j].var] - 1)
      BY <1>3, <1>5, <2>2
    <3> QED BY <1>2, <1>4, <1>5, <3>1 DEF MaxOf
  <2> QED BY <2>1, <2>2
<1>6. ASSUME StraightLine(Stmts), RepeatFree(Stmts), UnitLatency(Stmts), NEW i \in 1..Len(Stmts),
             NEW j \in 1..Len(Stmts), DefinesFor(Stmts, i, j), EdgeOperands(Stmts[i]) # {},
             Stmts[j].type # "LOAD"
      PROVE  c[j] > c[i]
  <2> DEFINE v == Stmts[i].var
  <2> DEFINE w == Stmts[j].var
  <2>1. v # NoVar /\ v \in Reads(Stmts[j]) /\ Slack = 0
    BY <1>6, NoSlack DEF DefinesFor
  <2>2. /\ v \in points /\ begin[v] \in Nat /\ begin[v] + 1 <= E
        /\ (c[i] = MaxOf(0, begin[v] - 2) \/ c[i] = MaxOf(0, begin[v] - 1))
    BY <1>3, <1>6, <2>1
  <2>3. begin[v] >= 1
    <3>1. PICK o : o \in EdgeOperands(Stmts[i])
      BY <1>6
    <3>2. In(o, prev[v])
      BY <1>1, <1>6, <2>1, <3>1, PrevOperands DEF TimeInv, OrderInv, OwingInv, StraightLine
    <3> HIDE DEF v
    <3>3. o \in points /\ begin[o] + 1 <= begin[v] + Slack /\ begin[o] \in Nat
      BY <1>6, <2>2, <3>2, BlockTimes
    <3> QED BY <2>1, <2>2, <3>3
  <2>4. c[i] <= begin[v] - 1
    BY <2>2, <2>3 DEF MaxOf
  <2>5. CASE w = NoVar
    BY <1>2, <1>4, <2>2, <2>4, <2>5 DEF MaxOf
  <2>6. CASE w # NoVar
    <3>1. Stmts[j].type \notin {"BR", "STORE"}
      BY <1>1, <2>6, NamesAssumption DEF Statement, NoResult
    <3>2. v \in EdgeOperands(Stmts[j])
      BY <2>1, <3>1 DEF Reads
    <3>3. In(v, prev[w])
      BY <1>1, <1>6, <2>6, <3>2, PrevOperands DEF TimeInv, OrderInv, OwingInv, StraightLine
    <3>4. w \in points /\ begin[w] \in Nat /\ c[j] = MaxOf(0, begin[w] - 1)
      BY <1>3, <1>6, <2>6
    <3> HIDE DEF v, w
    <3>5. begin[v] + 1 <= begin[w] + Slack
      BY <1>6, <3>3, <3>4, BlockTimes
    <3> QED BY <2>1, <2>2, <2>3, <2>4, <3>4, <3>5 DEF MaxOf
  <2> QED BY <2>5, <2>6
<1>7. ASSUME e = 1 PROVE \E i \in 1..Len(Stmts) : c[i] = 0
  <2>1. CASE \E i \in 1..Len(Stmts) : Stmts[i].var = NoVar
    <3>1. PICK i \in 1..Len(Stmts) : Stmts[i].var = NoVar
      BY <2>1
    <3>2. c[i] = MaxOf(0, E - 1) /\ e = c[i] + 1
      BY <1>4, <3>1
    <3>3. c[i] \in Int
      BY <1>2, <3>2 DEF MaxOf
    <3> QED BY <1>7, <3>2, <3>3
  <2>2. CASE ~ \E i \in 1..Len(Stmts) : Stmts[i].var = NoVar
    <3>1. E = 1
      BY <1>7, <2>2 DEF E
    <3>2. PICK p \in outputs : E = BeginOf(p, junk) + 1
      BY <1>1, <3>1, EndType DEF E
    <3>3. BeginOf(p, junk) \in Int
      BY <1>1, EndType DEF TypeInv, CursorsSet
    <3>4. PICK i \in 1..Len(Stmts) : Stmts[i].var = p
      BY <1>1 DEF TimeInv, Outputs, Variable
    <3>5. CycleOf(Stmts[i], junk) = MaxOf(0, BeginOf(p, junk) - (IF Stmts[i].type = "LOAD" THEN 2 ELSE 1))
      BY <2>2, <3>4 DEF CycleOf
    <3>6. CycleOf(Stmts[i], junk) = 0
      BY <3>1, <3>2, <3>3, <3>5 DEF MaxOf
    <3> QED BY <3>6
  <2> QED BY <2>1, <2>2
<1> QED BY <1>1, <1>4, <1>5, <1>6, <1>7 DEF BlockTable

LEMMA TableInit == Unbound => Table
BY DEF Unbound, NothingBound, Table

LEMMA TableStep == TimeInv /\ Table /\ [Next]_vars => Table'
<1> SUFFICES ASSUME TimeInv, Table, [Next]_vars PROVE Table'
  OBVIOUS
<1>1. /\ b \in 1..Len(blocks) /\ Len(blocks) \in Nat /\ cycle \in Seq(Seq(Nat))
      /\ endCycle \in Seq(Nat)
  BY StatementTypes DEF TimeInv, OrderInv, OwingInv, RegisterInv, TypeInv, TypeOK,
     ControlTypes, ResultTypes
<1>2. CASE FinishBlock
  <2>1. PICK junk \in [points \ issued -> Junk] :
          /\ cycle' = Append(cycle, [i \in 1..Len(Stmts) |-> CycleOf(Stmts[i], junk)])
          /\ endCycle' = Append(endCycle,
                 IF \E i \in 1..Len(Stmts) : Stmts[i].var = NoVar
                 THEN MaxOf(1, EndOf(junk)) ELSE EndOf(junk))
    BY <1>2 DEF FinishBlock
  <2> DEFINE c == [i \in 1..Len(Stmts) |-> CycleOf(Stmts[i], junk)]
  <2> DEFINE e == IF \E i \in 1..Len(Stmts) : Stmts[i].var = NoVar
                  THEN MaxOf(1, EndOf(junk)) ELSE EndOf(junk)
  <2>2. BlockTable(Stmts, c, e)
    BY <1>2, FinishedTable DEF FinishBlock, BlockIssued
  <2> HIDE DEF c, e
  <2>3. Len(cycle) = b - 1 /\ Len(endCycle) = b - 1 /\ blocks' = blocks
    BY <1>2 DEF FinishBlock, Table
  <2>4. /\ Len(cycle') = b /\ cycle'[b] = c /\ \A l \in 1..(b - 1) : cycle'[l] = cycle[l]
        /\ Len(endCycle') = b /\ endCycle'[b] = e
        /\ \A l \in 1..(b - 1) : endCycle'[l] = endCycle[l]
    BY <1>1, <2>1, <2>3 DEF c, e
  <2>5. \A l \in 1..b : BlockTable(blocks[l].statements, cycle'[l], endCycle'[l])
    <3>1. \A l \in 1..b : l \in 1..(b - 1) \/ l = b
      BY <1>1
    <3> QED BY <2>2, <2>3, <2>4, <3>1 DEF Table, Stmts
  <2>6. IF pc' \in {"hash", "done"} THEN b' = b /\ b = Len(blocks) ELSE b = b' - 1
    BY <1>1, <1>2 DEF FinishBlock
  <2> QED BY <2>3, <2>4, <2>5, <2>6 DEF Table
<1>3. CASE ~FinishBlock
  <2>1. UNCHANGED <<blocks, b, cycle, endCycle>> /\ (pc' \in {"hash", "done"} <=> pc \in {"hash", "done"})
    BY <1>3 DEF Next, vars, EnterBlock, SkipStatement, NewPoint, ArrayOperand, LabelOperand,
     LengthOperand, LiteralOperand, CodedOperand, ValueOperand, InStatements, InOperands,
     NextStatement, GraphDone, IssueRoot, RootsDone, PopPoint, VisitSuccessor, StepOver,
     StartIssue, VisitDone, ReleaseOperand, BindSuccessor, FillHash, Finished, result
  <2> QED BY <2>1 DEF Table
<1> QED BY <1>2, <1>3

TableInv == TimeInv /\ Table

LEMMA TableInvariant == (Unbound => TableInv) /\ (TableInv /\ [Next]_vars => TableInv')
BY TimeInvariant, TableInit, TableStep DEF TableInv

LEMMA TableDone ==
  ASSUME TableInv, pc = "done", NEW l \in 1..Len(blocks)
  PROVE  BlockTable(blocks[l].statements, cycle[l], endCycle[l])
BY DEF TableInv, Table

\* A statement without a variable is in the last cycle of its block, which ends with
\* it: a branch or a return never leaves a block with work to do.
THEOREM TerminatorStaysLast == Spec => []TerminatorLast
<1>1. TableInv => TerminatorLast
  BY TableDone DEF TerminatorLast, BlockTable
<1> QED BY TableInvariant, <1>1, InitUnbound, PTL DEF Spec

\* With unit latencies a statement starts after the definitions it reads, where they
\* depend on something themselves and it is no load.
THEOREM PlainOperandsStayReady == Spec => []PlainOperandsReady
<1>1. TableInv => PlainOperandsReady
  BY TableDone DEF PlainOperandsReady, BlockTable, ReadyAt
<1> QED BY TableInvariant, <1>1, InitUnbound, PTL DEF Spec

-----------------------------------------------------------------------------
(* Longest paths.                                                          *)

\* The candidates for the level of statement i, given those of the earlier ones, and
\* the one Level takes.
Below(ss, f, i) ==
    {IF \E h \in 1..(i - 1) : ss[h].var = o
     THEN f[CHOOSE h \in 1..(i - 1) : ss[h].var = o] + 1
     ELSE 1 : o \in EdgeOperands(ss[i])} \cup {0}
LevelAt(ss, f, i) == CHOOSE m \in Below(ss, f, i) : \A x \in Below(ss, f, i) : x <= m

LEMMA LevelChosen ==
  ASSUME NEW ss
  PROVE  Level(ss) = CHOOSE f : f = [i \in 1..Len(ss) |-> LevelAt(ss, f, i)]
BY DEF Level, LevelAt, Below

\* It looks at earlier statements only.
LEMMA LevelAgrees ==
  ASSUME NEW ss, NEW f, NEW g, NEW i, \A h \in 1..(i - 1) : f[h] = g[h]
  PROVE  LevelAt(ss, f, i) = LevelAt(ss, g, i)
<1>1. ASSUME NEW o, \E h \in 1..(i - 1) : ss[h].var = o
      PROVE  f[CHOOSE h \in 1..(i - 1) : ss[h].var = o] = g[CHOOSE h \in 1..(i - 1) : ss[h].var = o]
  <2> DEFINE d == CHOOSE h \in 1..(i - 1) : ss[h].var = o
  <2>1. d \in 1..(i - 1)
    BY <1>1, Zenon
  <2> HIDE DEF d
  <2>2. f[d] = g[d]
    BY <2>1
  <2> QED BY <2>2 DEF d
<1>2. Below(ss, f, i) = Below(ss, g, i)
  <2> DEFINE F(o) == IF \E h \in 1..(i - 1) : ss[h].var = o
                     THEN f[CHOOSE h \in 1..(i - 1) : ss[h].var = o] + 1 ELSE 1
  <2> DEFINE G(o) == IF \E h \in 1..(i - 1) : ss[h].var = o
                     THEN g[CHOOSE h \in 1..(i - 1) : ss[h].var = o] + 1 ELSE 1
  <2>1. \A o : F(o) = G(o)
    BY <1>1, Zenon
  <2>2. Below(ss, f, i) = {F(o) : o \in EdgeOperands(ss[i])} \cup {0}
    BY DEF Below
  <2>3. Below(ss, g, i) = {G(o) : o \in EdgeOperands(ss[i])} \cup {0}
    BY DEF Below
  <2> HIDE DEF F, G
  <2> QED BY <2>1, <2>2, <2>3
<1> QED BY <1>2 DEF LevelAt

\* So it is defined for every list of statements.
LEMMA LevelEquation ==
  ASSUME NEW ss, Len(ss) \in Nat
  PROVE  Level(ss) = [i \in 1..Len(ss) |-> LevelAt(ss, Level(ss), i)]
<1> DEFINE Upto(m, f) == f = [i \in 1..m |-> LevelAt(ss, f, i)]
<1>1. ASSUME NEW m \in Nat, m # 0, NEW f, Upto(m - 1, f) PROVE \E g : Upto(m, g)
  <2> DEFINE g == [i \in 1..m |-> LevelAt(ss, f, i)]
  <2>1. \A i \in 1..(m - 1) : f[i] = LevelAt(ss, f, i)
    BY <1>1
  <2>2. \A i \in 1..m : \A h \in 1..(i - 1) : f[h] = g[h]
    BY <1>1, <2>1
  <2>3. \A i \in 1..m : LevelAt(ss, f, i) = LevelAt(ss, g, i)
    <3> HIDE DEF g
    <3> QED BY <2>2, LevelAgrees
  <2>4. g = [i \in 1..m |-> LevelAt(ss, g, i)]
    <3>1. g = [i \in 1..m |-> LevelAt(ss, f, i)]
      OBVIOUS
    <3> HIDE DEF g
    <3> QED BY <2>3, <3>1
  <2> HIDE DEF g
  <2> QED BY <2>4
<1>2. \E f : Upto(0, f)
  <2>1. Upto(0, [i \in 1..0 |-> 0])
    OBVIOUS
  <2> HIDE DEF Upto
  <2> QED BY <2>1
<1> HIDE DEF Upto
<1>3. \A m \in Nat : \E f : Upto(m, f)
  <2> DEFINE A == {m \in Nat : ~ \E f : Upto(m, f)}
  <2> SUFFICES ASSUME A # {} PROVE FALSE
    OBVIOUS
  <2>1. PICK m \in A : \A a \in A : m <= a
    BY LeastNatural
  <2>2. m \in Nat /\ m # 0
    BY <1>2, <2>1
  <2>3. m - 1 \in Nat /\ m - 1 \notin A
    BY <2>1, <2>2
  <2>4. \E f : Upto(m - 1, f)
    BY <2>3
  <2> QED BY <1>1, <2>1, <2>2, <2>4
<1>4. Upto(Len(ss), CHOOSE f : Upto(Len(ss), f))
  BY <1>3
<1>5. Level(ss) = CHOOSE f : Upto(Len(ss), f)
  BY LevelChosen DEF Upto
<1> QED BY <1>4, <1>5 DEF Upto

\* With unit latencies each variable begins at its longest path, by induction over the
\* statements: it begins one cycle after the last of its operands.
LEMMA BeginsAtLevel ==
  ASSUME TimeInv, BlockIssued, StraightLine(Stmts), RepeatFree(Stmts), UnitLatency(Stmts),
         NEW i \in 1..Len(Stmts), Stmts[i].var # NoVar,
         \A h \in 1..(i - 1) : Stmts[h].var # NoVar => begin[Stmts[h].var] = Level(Stmts)[h]
  PROVE  begin[Stmts[i].var] = Level(Stmts)[i]
<1> DEFINE v == Stmts[i].var
<1> DEFINE L == Level(Stmts)
<1> DEFINE Cand(o) == IF \E h \in 1..(i - 1) : Stmts[h].var = o
                      THEN L[CHOOSE h \in 1..(i - 1) : Stmts[h].var = o] + 1 ELSE 1
<1>1. /\ EdgeFacts /\ TypeInv /\ Edges /\ Walking /\ Len(Stmts) \in Nat
      /\ points \subseteq Names /\ v \in points
  <2>1. EdgeFacts /\ TypeInv /\ Edges /\ Walking
    BY DEF TimeInv, OrderInv, OwingInv, RegisterInv, BlockIssued, Edges, Working, Walking,
       StraightLine
  <2> QED BY <2>1, StatementTypes
          DEF TypeInv, TypeOK, GraphTypes, VarsHavePoints, BlockIssued
<1>2. \A o : In(o, prev[v]) <=> o \in EdgeOperands(Stmts[i])
  BY <1>1, PrevOperands DEF StraightLine
<1>3. \A o \in EdgeOperands(Stmts[i]) :
        o \in points /\ o \in Names /\ begin[o] \in Nat /\ begin[o] + 1 <= begin[v]
  <2>1. Slack = 0
    BY NoSlack
  <2> HIDE DEF v
  <2> QED BY <1>1, <1>2, <2>1, BlockTimes
<1>4. begin[v] \in Nat /\ (begin[v] = 0 \/ \E o \in EdgeOperands(Stmts[i]) : begin[v] = begin[o] + 1)
  <2>1. \A o \in points : Latency(o) = 1
    BY NoSlack
  <2> HIDE DEF v
  <2> QED BY <1>1, <1>2, <1>3, <2>1, BlockTimes
<1>5. ASSUME NEW o \in EdgeOperands(Stmts[i]) PROVE Cand(o) = begin[o] + 1
  <2>1. CASE \E h \in 1..(i - 1) : Stmts[h].var = o
    <3> DEFINE d == CHOOSE h \in 1..(i - 1) : Stmts[h].var = o
    <3>1. d \in 1..(i - 1) /\ Stmts[d].var = o
      BY <2>1, Zenon
    <3> HIDE DEF d
    <3>2. L[d] = begin[o]
      BY <1>3, <3>1, NamesAssumption
    <3> HIDE DEF L
    <3> QED BY <2>1, <3>2 DEF d
  <2>2. CASE ~ \E h \in 1..(i - 1) : Stmts[h].var = o
    <3>1. ASSUME NEW u, In(u, prev[o]) PROVE FALSE
      <4>1. u \in points
        BY <1>3, <3>1, BlockTimes
      <4>2. EdgeOf(u, o)
        BY <1>1, <1>3, <3>1, <4>1 DEF EdgeFacts
      <4>3. PICK j \in 1..Len(Stmts) : Stmts[j].var = o /\ o # NoVar
        BY <4>2 DEF EdgeOf
      <4>4. i <= j
        BY <1>1, <2>2, <4>3
      <4> QED BY <4>3, <4>4 DEF StraightLine
    <3>2. begin[o] = 0
      BY <1>3, <3>1, BlockTimes
    <3> QED BY <2>2, <3>2
  <2> QED BY <2>1, <2>2
<1>6. Below(Stmts, L, i) = {Cand(o) : o \in EdgeOperands(Stmts[i])} \cup {0}
  BY DEF Below
<1> HIDE DEF Cand
<1>7. Below(Stmts, L, i) = {begin[o] + 1 : o \in EdgeOperands(Stmts[i])} \cup {0}
  BY <1>5, <1>6
<1>8. begin[v] \in Below(Stmts, L, i) /\ \A x \in Below(Stmts, L, i) : x \in Nat /\ x <= begin[v]
  <2> HIDE DEF v, L
  <2> QED BY <1>3, <1>4, <1>7
<1>9. LevelAt(Stmts, L, i) = begin[v]
  <2> DEFINE m == LevelAt(Stmts, L, i)
  <2>1. m \in Below(Stmts, L, i) /\ \A x \in Below(Stmts, L, i) : x <= m
    BY <1>8 DEF LevelAt
  <2> HIDE DEF m, v, L
  <2>2. m <= begin[v] /\ begin[v] <= m /\ m \in Nat
    BY <1>8, <2>1
  <2> QED BY <1>4, <2>2 DEF m
<1> QED BY <1>1, <1>9, LevelEquation

LEMMA AsapAtEnd == TimeInv => AsapLevels
<1> SUFFICES ASSUME TimeInv, BlockIssued, StraightLine(Stmts), RepeatFree(Stmts), UnitLatency(Stmts)
             PROVE  \A i \in 1..Len(Stmts) : Stmts[i].var # NoVar =>
                      begin[Stmts[i].var] = Level(Stmts)[i]
  BY DEF AsapLevels
<1> DEFINE A == {i \in 1..Len(Stmts) : Stmts[i].var # NoVar /\ begin[Stmts[i].var] # Level(Stmts)[i]}
<1> SUFFICES ASSUME A # {} PROVE FALSE
  OBVIOUS
<1>1. A \subseteq Nat
  OBVIOUS
<1>2. PICK i \in A : \A a \in A : i <= a
  BY <1>1, LeastNatural
<1>3. Len(Stmts) \in Nat
  BY StatementTypes DEF TimeInv, OrderInv, OwingInv, RegisterInv, TypeInv
<1>4. \A h \in 1..(i - 1) : Stmts[h].var # NoVar => begin[Stmts[h].var] = Level(Stmts)[h]
  <2>1. \A h \in 1..(i - 1) : h \in 1..Len(Stmts) /\ ~(i <= h)
    BY <1>3
  <2>2. \A h \in 1..(i - 1) : h \notin A
    BY <1>2, <2>1
  <2> QED BY <2>1, <2>2
<1> QED BY <1>2, <1>4, BeginsAtLevel

\* The schedule is as soon as possible although begin_cycle only follows the operand
\* visited last: the queue keeps the begin cycles in order, so that one is the latest.
THEOREM AsapStays == Spec => []AsapLevels
BY TimeInvariant, AsapAtEnd, InitUnbound, PTL DEF Spec
============================================================================
