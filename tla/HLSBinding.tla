----------------------------- MODULE HLSBinding -----------------------------
(***************************************************************************)
(* HLSHandler::schedule and HLSHandler::binding: for each basic block, in  *)
(* order, build the data-flow graph of its statements, issue its points in *)
(* topological order while giving each a register, then turn the points'   *)
(* begin cycles into statement cycles; at the end fill the hash that the   *)
(* RTL generator reads.  The pass is sequential: what is left open is the  *)
(* iteration order of the unordered_map of points and the value of members *)
(* no one initialises (point::color, and point::begin_cycle of a point     *)
(* that is never issued).                                                  *)
(***************************************************************************)
EXTENDS HLSBlocks

CONSTANTS Programs,   \* the parsed functions to synthesise: sequences of blocks
          INT_MIN, INT_MAX,   \* the range of an int
          Junk        \* what an uninitialised int may hold

ASSUME ProgramsAssumption == Programs \subseteq Seq(BasicBlock) \ {<<>>}
ASSUME JunkAssumption ==
    INT_MIN \in Int /\ INT_MAX \in Int /\ Junk \subseteq INT_MIN..INT_MAX /\ Junk # {}

VARIABLES
    pc,         \* where binding is: "enter", "graph", "roots", "queue", "visit",
                \* "release", and schedule's "hash" and "done"
    b,          \* index of the block being bound
    si, oi,     \* statement and operand cursors; oi = 0 before the point is made
    points,     \* names with a point in the block
    next, prev, \* next_points and prev_points of each point
    inNum,      \* in_num of each point
    begin,      \* begin_cycle of each issued point
    issued,     \* points whose begin_cycle has been set
    outputs,    \* bb.outputs
    pending,    \* roots the loop over the unordered_map has still to meet
    q,          \* queue of issued points
    cur, k,     \* the popped point and the index into its next_points
    succ, r,    \* the successor being issued and the index into its prev_points
    free,       \* free_color
    colors,     \* highest register number in use
    regMap,     \* function::reg_map, -1 where it has no entry
    cycle,      \* begin_cycle of the statements of the blocks done
    endCycle,   \* end_cycle of the blocks done
    byCycle     \* statements_by_cycle of the blocks

graph == <<points, next, prev, inNum>>
issue == <<begin, issued, outputs, pending, q>>
cursor == <<cur, k, succ, r>>
regs == <<free, colors, regMap>>
result == <<cycle, endCycle, byCycle>>
vars == <<blocks, pc, b, si, oi, graph, issue, cursor, regs, result>>

Stmts == blocks[b].statements
S == Stmts[si]
Operand == S.ops[oi]

\* Every name without a point has these; new point(v) gives them to v.
NoEdges == [v \in Names |-> <<>>]
Zero == [v \in Names |-> 0]

\* What binding starts from: nothing is bound, registers are counted from the
\* global ones on.
NothingBound ==
    /\ pc = "enter" /\ b = 1 /\ si = 1 /\ oi = 0
    /\ points = {} /\ next = NoEdges /\ prev = NoEdges /\ inNum = Zero
    /\ begin = Zero /\ issued = {} /\ outputs = {} /\ pending = {} /\ q = <<>>
    /\ cur = NoVar /\ k = 1 /\ succ = NoVar /\ r = 1
    /\ free = <<>> /\ colors = Len(GlobalRegs)
    /\ regMap = [v \in Names |-> Absent]
    /\ cycle = <<>> /\ endCycle = <<>> /\ byCycle = <<>>

Init == blocks \in Programs /\ NothingBound

-----------------------------------------------------------------------------
(* The data-flow graph of the block.                                       *)

\* schedule calls binding on the next block; its one free colour is the
\* highest register in use.
EnterBlock ==
    /\ pc = "enter"
    /\ pc' = "graph" /\ si' = 1 /\ oi' = 0
    /\ points' = {} /\ next' = NoEdges /\ prev' = NoEdges /\ inNum' = Zero
    /\ begin' = Zero /\ issued' = {} /\ outputs' = {} /\ pending' = {} /\ q' = <<>>
    /\ cur' = NoVar /\ k' = 1 /\ succ' = NoVar /\ r' = 1
    /\ free' = <<colors>>
    /\ UNCHANGED <<blocks, b, colors, regMap, result>>

InStatements == pc = "graph" /\ si <= Len(Stmts)

\* A statement without a variable has no point.
SkipStatement ==
    /\ InStatements /\ oi = 0 /\ S.var = NoVar
    /\ si' = si + 1
    /\ UNCHANGED <<blocks, pc, b, oi, graph, issue, cursor, regs, result>>

\* bb.points[v] = new point(v): replaces a point an earlier use made.
NewPoint ==
    /\ InStatements /\ oi = 0 /\ S.var # NoVar
    /\ points' = points \cup {S.var}
    /\ next' = [next EXCEPT ![S.var] = <<>>]
    /\ prev' = [prev EXCEPT ![S.var] = <<>>]
    /\ inNum' = [inNum EXCEPT ![S.var] = 0]
    /\ oi' = 1
    /\ UNCHANGED <<blocks, pc, b, si, issue, cursor, regs, result>>

InOperands == InStatements /\ oi >= 1 /\ oi <= Len(S.ops)

\* The array of a load and the first two labels of a phi (0-based operands 1, 3).
IsArray == S.type = "LOAD" /\ oi = 1
IsLabel == S.type = "PHI" /\ oi \in {2, 4}

\* Operands that make no edge; "n" and the special positions get a code in reg_map.
CodedOperand(code) ==
    /\ regMap' = [regMap EXCEPT ![Operand] = code]
    /\ oi' = oi + 1
    /\ UNCHANGED <<blocks, pc, b, si, graph, issue, cursor, free, colors, result>>

ArrayOperand == InOperands /\ IsArray /\ CodedOperand(ArrayCode)

LabelOperand == InOperands /\ IsLabel /\ CodedOperand(LabelCode)

LengthOperand ==
    /\ InOperands /\ ~IsArray /\ ~IsLabel
    /\ Operand = "n" /\ Operand \notin points
    /\ CodedOperand(LengthCode)

LiteralOperand ==
    /\ InOperands /\ ~IsArray /\ ~IsLabel
    /\ Operand \in {"0", "1"} /\ Operand \notin points
    /\ oi' = oi + 1
    /\ UNCHANGED <<blocks, pc, b, si, graph, issue, cursor, regs, result>>

\* Faulty: only the first use of a point counts.
ValueOperandOnce ==
    /\ InOperands /\ ~IsArray /\ ~IsLabel
    /\ Operand \in points \/ Operand \notin {"0", "1", "n"}
    /\ points' = points \cup {Operand}
    /\ next' = [next EXCEPT ![Operand] = Append(@, S.var)]
    /\ prev' = [prev EXCEPT ![S.var] = Append(@, Operand)]
    /\ inNum' = IF next[Operand] = <<>> THEN [inNum EXCEPT ![S.var] = @ + 1] ELSE inNum
    /\ oi' = oi + 1
    /\ UNCHANGED <<blocks, pc, b, si, issue, cursor, regs, result>>

\* Any other operand is a value: an edge from its point, made here if need be
\* (an input of the block), to the variable's.
ValueOperand ==
    /\ InOperands /\ ~IsArray /\ ~IsLabel
    /\ Operand \in points \/ Operand \notin {"0", "1", "n"}
    /\ points' = points \cup {Operand}
    /\ next' = [next EXCEPT ![Operand] = Append(@, S.var)]
    /\ prev' = [prev EXCEPT ![S.var] = Append(@, Operand)]
    /\ inNum' = [inNum EXCEPT ![S.var] = @ + 1]
    /\ oi' = oi + 1
    /\ UNCHANGED <<blocks, pc, b, si, issue, cursor, regs, result>>

NextStatement ==
    /\ InStatements /\ oi > Len(S.ops)
    /\ si' = si + 1 /\ oi' = 0
    /\ UNCHANGED <<blocks, pc, b, graph, issue, cursor, regs, result>>

\* The outputs, and the points without operands.
GraphDone ==
    /\ pc = "graph" /\ si > Len(Stmts)
    /\ outputs' = {p \in points : next[p] = <<>>}
    /\ pending' = {p \in points : inNum[p] = 0}
    /\ pc' = "roots"
    /\ UNCHANGED <<blocks, b, si, oi, graph, begin, issued, q, cursor, regs, result>>

-----------------------------------------------------------------------------
(* Topological order and registers.                                        *)

\* Faulty: the free colour is taken but stays in the queue.
BindRegisterKeepColour(v, spare) ==
    \/ /\ is_global_reg(v) >= 0
       /\ regMap' = [regMap EXCEPT ![v] = is_global_reg(v)]
       /\ UNCHANGED <<free, colors>>
    \/ /\ is_global_reg(v) < 0 /\ free = <<>>
       /\ colors' = colors + 1
       /\ regMap' = [regMap EXCEPT ![v] = colors + 1]
       /\ UNCHANGED free
    \/ /\ is_global_reg(v) < 0 /\ free # <<>>
       /\ regMap' = [regMap EXCEPT ![v] = spare]
       /\ UNCHANGED <<free, colors>>

\* Give v its register: its own if global, else a new one if no colour is
\* free, else `spare`, using up one free colour.
BindRegister(v, spare) ==
    \/ /\ is_global_reg(v) >= 0
       /\ regMap' = [regMap EXCEPT ![v] = is_global_reg(v)]
       /\ UNCHANGED <<free, colors>>
    \/ /\ is_global_reg(v) < 0 /\ free = <<>>
       /\ colors' = colors + 1
       /\ regMap' = [regMap EXCEPT ![v] = colors + 1]
       /\ UNCHANGED free
    \/ /\ is_global_reg(v) < 0 /\ free # <<>>
       /\ regMap' = [regMap EXCEPT ![v] = spare]
       /\ free' = Tail(free)
       /\ UNCHANGED colors

\* The loop over bb.points meets the roots in the order of the hash table.
IssueRoot(p) ==
    /\ pc = "roots" /\ p \in pending
    /\ pending' = pending \ {p}
    /\ q' = Append(q, p)
    /\ begin' = [begin EXCEPT ![p] = 0]
    /\ issued' = issued \cup {p}
    /\ BindRegister(p, Head(free))
    /\ UNCHANGED <<blocks, pc, b, si, oi, graph, outputs, cursor, result>>

RootsDone ==
    /\ pc = "roots" /\ pending = {}
    /\ pc' = "queue"
    /\ UNCHANGED <<blocks, b, si, oi, graph, issue, cursor, regs, result>>

\* Faulty: the queue is read but not popped.
PopPointKeep ==
    /\ pc = "queue" /\ q # <<>>
    /\ cur' = Head(q) /\ k' = 1
    /\ pc' = "visit"
    /\ UNCHANGED <<blocks, b, si, oi, graph, issue, succ, r, regs, result>>

PopPoint ==
    /\ pc = "queue" /\ q # <<>>
    /\ cur' = Head(q) /\ q' = Tail(q) /\ k' = 1
    /\ pc' = "visit"
    /\ UNCHANGED <<blocks, b, si, oi, graph, begin, issued, outputs, pending,
                   succ, r, regs, result>>

\* Cycles from the point issued last before a successor to that successor.
Latency(p) == IF p \in {"ai", "bi"} THEN 2 ELSE 1

\* What happens to the k-th successor: stop at it or issue it.
StepOver == k' = k + 1 /\ UNCHANGED <<pc, begin, issued, succ, r>>
StartIssue(n) ==
    /\ begin' = [begin EXCEPT ![n] = begin[cur] + Latency(cur)]
    /\ issued' = issued \cup {n}
    /\ succ' = n /\ r' = 1
    /\ pc' = "release"

\* Faulty: the index advances past a successor that is erased.
VisitSuccessorAdvance ==
    /\ pc = "visit" /\ k <= Len(next[cur])
    /\ LET n == next[cur][k] IN
         /\ inNum' = [inNum EXCEPT ![n] = @ - 1]
         /\ \/ inNum[n] # 1 /\ StepOver
            \/ inNum[n] = 1 /\ StartIssue(n) /\ k' = k + 1
    /\ UNCHANGED <<blocks, b, si, oi, points, next, prev, outputs, pending, q,
                   cur, regs, result>>

\* Faulty: a successor is issued by the first of its operands.
VisitSuccessorEager ==
    /\ pc = "visit" /\ k <= Len(next[cur])
    /\ LET n == next[cur][k] IN
         /\ inNum' = [inNum EXCEPT ![n] = @ - 1]
         /\ \/ n \in issued /\ StepOver
            \/ n \notin issued /\ StartIssue(n) /\ UNCHANGED k
    /\ UNCHANGED <<blocks, b, si, oi, points, next, prev, outputs, pending, q,
                   cur, regs, result>>

\* The k-th successor loses one in_num; at zero it is issued, and as it will be
\* erased from next_points the index stays.
VisitSuccessor ==
    /\ pc = "visit" /\ k <= Len(next[cur])
    /\ LET n == next[cur][k] IN
         /\ inNum' = [inNum EXCEPT ![n] = @ - 1]
         /\ \/ inNum[n] # 1 /\ StepOver
            \/ inNum[n] = 1 /\ StartIssue(n) /\ UNCHANGED k
    /\ UNCHANGED <<blocks, b, si, oi, points, next, prev, outputs, pending, q,
                   cur, regs, result>>

VisitDone ==
    /\ pc = "visit" /\ k > Len(next[cur])
    /\ pc' = "queue"
    /\ UNCHANGED <<blocks, b, si, oi, graph, issue, cursor, regs, result>>

\* next_points without its first v (point::delete_next_point).
delete_next_point(s, v) ==
    IF \E i \in 1..Len(s) : s[i] = v
    THEN LET f == CHOOSE i \in 1..Len(s) : s[i] = v /\ \A h \in 1..(i - 1) : s[h] # v
         IN  SubSeq(s, 1, f - 1) \o SubSeq(s, f + 1, Len(s))
    ELSE s

\* Faulty: the colour is freed with uses to come.
ReleaseOperandEarly ==
    /\ pc = "release" /\ r <= Len(prev[succ])
    /\ LET m == prev[succ][r] IN
         /\ next' = [next EXCEPT ![m] = delete_next_point(@, succ)]
         /\ \E color \in Junk : free' = Append(free, color)
    /\ r' = r + 1
    /\ UNCHANGED <<blocks, pc, b, si, oi, points, prev, inNum, issue, cur, k, succ,
                   colors, regMap, result>>

\* An operand of the issued successor loses the edge; once it has none left
\* its colour, which is never set, becomes free.
ReleaseOperand ==
    /\ pc = "release" /\ r <= Len(prev[succ])
    /\ LET m == prev[succ][r] IN
         /\ next' = [next EXCEPT ![m] = delete_next_point(@, succ)]
         /\ IF next'[m] = <<>> /\ m \notin outputs
            THEN \E color \in Junk : free' = Append(free, color)
            ELSE UNCHANGED free
    /\ r' = r + 1
    /\ UNCHANGED <<blocks, pc, b, si, oi, points, prev, inNum, issue, cur, k, succ,
                   colors, regMap, result>>

\* Faulty: the successor takes the colour that was freed first.
BindSuccessorFront ==
    /\ pc = "release" /\ r > Len(prev[succ])
    /\ BindRegister(succ, Head(free))
    /\ q' = Append(q, succ)
    /\ pc' = "visit"
    /\ UNCHANGED <<blocks, b, si, oi, graph, begin, issued, outputs, pending,
                   cursor, result>>

\* Faulty: a stack instead of a queue.
BindSuccessorStack ==
    /\ pc = "release" /\ r > Len(prev[succ])
    /\ BindRegister(succ, colors)
    /\ q' = <<succ>> \o q
    /\ pc' = "visit"
    /\ UNCHANGED <<blocks, b, si, oi, graph, begin, issued, outputs, pending,
                   cursor, result>>

\* The successor takes the highest register in use whenever a colour is free.
BindSuccessor ==
    /\ pc = "release" /\ r > Len(prev[succ])
    /\ BindRegister(succ, colors)
    /\ q' = Append(q, succ)
    /\ pc' = "visit"
    /\ UNCHANGED <<blocks, b, si, oi, graph, begin, issued, outputs, pending,
                   cursor, result>>

-----------------------------------------------------------------------------
(* Cycles of the statements.                                               *)

\* get_begin_cycle of a point, given what the unset ones happen to hold.
BeginOf(p, junk) == IF p \in issued THEN begin[p] ELSE junk[p]

\* Faulty: one output decides, whichever it is.
EndOfOne(junk) ==
    IF outputs = {} THEN 0
    ELSE MaxOf(0, BeginOf(CHOOSE p \in outputs : TRUE, junk) + 1)

\* The largest begin + 1 of an output, 0 if the block has none.
EndOf(junk) ==
    CHOOSE e \in {0} \cup {BeginOf(p, junk) + 1 : p \in outputs} :
        e >= 0 /\ \A p \in outputs : e >= BeginOf(p, junk) + 1

\* Faulty: negative cycles are not clamped.
CycleOfUnclamped(s, junk) ==
    IF s.var = NoVar THEN EndOf(junk) - 1
    ELSE BeginOf(s.var, junk) - (IF s.type = "LOAD" THEN 2 ELSE 1)

\* Faulty: the offsets of loads and other operations are swapped.
CycleOfSwapped(s, junk) ==
    IF s.var = NoVar THEN MaxOf(0, EndOf(junk) - 1)
    ELSE MaxOf(0, BeginOf(s.var, junk) - (IF s.type = "LOAD" THEN 1 ELSE 2))

\* A load starts two cycles before its point's begin, another operation one,
\* a statement without a variable in the last cycle of the block.
CycleOf(s, junk) ==
    IF s.var = NoVar THEN MaxOf(0, EndOf(junk) - 1)
    ELSE MaxOf(0, BeginOf(s.var, junk) - (IF s.type = "LOAD" THEN 2 ELSE 1))

FinishBlock ==
    /\ pc = "queue" /\ q = <<>>
    /\ \E junk \in [points \ issued -> Junk] :
         /\ cycle' = Append(cycle, [i \in 1..Len(Stmts) |-> CycleOf(Stmts[i], junk)])
         /\ endCycle' = Append(endCycle,
                IF \E i \in 1..Len(Stmts) : Stmts[i].var = NoVar
                THEN MaxOf(1, EndOf(junk)) ELSE EndOf(junk))
    /\ IF b < Len(blocks) THEN b' = b + 1 /\ pc' = "enter"
                          ELSE b' = b /\ pc' = "hash"
    /\ UNCHANGED <<blocks, si, oi, graph, issue, cursor, regs, byCycle>>

\* statements_by_cycle: for each cycle of a block the statements it starts,
\* which the code keeps in the order of the block.
FillHash ==
    /\ pc = "hash"
    /\ byCycle' = [l \in 1..Len(blocks) |->
                     [t \in {cycle[l][i] : i \in 1..Len(cycle[l])} |->
                        {i \in 1..Len(cycle[l]) : cycle[l][i] = t}]]
    /\ pc' = "done"
    /\ UNCHANGED <<blocks, b, si, oi, graph, issue, cursor, regs, cycle, endCycle>>

Finished == pc = "done" /\ UNCHANGED vars

Next ==
    \/ EnterBlock \/ SkipStatement \/ NewPoint
    \/ ArrayOperand \/ LabelOperand \/ LengthOperand \/ LiteralOperand \/ ValueOperand
    \/ NextStatement \/ GraphDone
    \/ \E p \in pending : IssueRoot(p)
    \/ RootsDone \/ PopPoint \/ VisitSuccessor \/ VisitDone
    \/ ReleaseOperand \/ BindSuccessor \/ FinishBlock \/ FillHash
    \/ Finished

\* The pass is a sequential program that runs until it returns.
Spec == Init /\ [][Next]_vars /\ WF_vars(Next)
-----------------------------------------------------------------------------
(* What the statements of a block say about its graph, without the pass.   *)

\* The operands a statement's variable depends on: its edges.
IsEdge(s, j) ==
    /\ ~(s.type = "LOAD" /\ j = 1)
    /\ ~(s.type = "PHI" /\ j \in {2, 4})
    /\ s.ops[j] \notin {"0", "1", "n"}
EdgeOperands(s) == {s.ops[j] : j \in {j \in 1..Len(s.ops) : IsEdge(s, j)}}

\* The values a statement reads when it executes, a branch its condition.
Reads(s) ==
    CASE s.type = "BR" -> IF Len(s.ops) = 3 THEN {s.ops[1]} ELSE {}
      [] s.type = "STORE" -> {s.ops[2], s.ops[3]}
      [] OTHER -> EdgeOperands(s)

\* One definition per variable, and none of a number or of the length n.
SingleDefinition(ss) ==
    /\ \A i, j \in 1..Len(ss) : i < j /\ ss[i].var # NoVar => ss[i].var # ss[j].var
    /\ \A i \in 1..Len(ss) : ss[i].var \notin {"0", "1", "n"}

\* And none used before it: no point is replaced.
StraightLine(ss) ==
    /\ SingleDefinition(ss)
    /\ \A i, j \in 1..Len(ss) :
         i <= j /\ ss[j].var # NoVar => ss[j].var \notin EdgeOperands(ss[i])

\* No statement uses a variable twice.
RepeatFree(ss) ==
    \A i \in 1..Len(ss) : \A h, j \in 1..Len(ss[i].ops) :
        h # j /\ IsEdge(ss[i], h) /\ IsEdge(ss[i], j) => ss[i].ops[h] # ss[i].ops[j]

\* No point has the latency of the dot product's loads.
UnitLatency(ss) == \A i \in 1..Len(ss) :
    ss[i].var \notin {"ai", "bi"} /\ EdgeOperands(ss[i]) \cap {"ai", "bi"} = {}

\* Longest path, in edges, from an input or constant to the variable of each statement.
Level(ss) ==
    LET level[i \in 1..Len(ss)] ==
          LET below == {IF \E h \in 1..(i - 1) : ss[h].var = o
                        THEN level[CHOOSE h \in 1..(i - 1) : ss[h].var = o] + 1
                        ELSE 1 : o \in EdgeOperands(ss[i])} \cup {0}
          IN  CHOOSE m \in below : \A x \in below : x <= m
    IN  level

-----------------------------------------------------------------------------
(* Properties.                                                             *)

\* The types of the variables; inNum may be any integer, a cycle is never negative.
ControlTypes ==
    /\ blocks \in Seq(BasicBlock) \ {<<>>}
    /\ pc \in {"enter", "graph", "roots", "queue", "visit", "release", "hash", "done"}
    /\ b \in 1..Len(blocks) /\ si \in Nat \ {0} /\ oi \in Nat
GraphTypes ==
    /\ points \subseteq Names
    /\ next \in [Names -> Seq(Names)] /\ prev \in [Names -> Seq(Names)]
    /\ inNum \in [Names -> Int]
IssueTypes ==
    /\ begin \in [Names -> Nat] /\ q \in Seq(Names)
    /\ issued \subseteq Names /\ outputs \subseteq Names /\ pending \subseteq Names
    /\ cur \in Names \cup {NoVar} /\ succ \in Names \cup {NoVar}
    /\ k \in Nat \ {0} /\ r \in Nat \ {0}
RegisterTypes == free \in Seq(Int) /\ colors \in Nat /\ regMap \in [Names -> Int]
ResultTypes == cycle \in Seq(Seq(Nat)) /\ endCycle \in Seq(Nat)
TypeOK == ControlTypes /\ GraphTypes /\ IssueTypes /\ RegisterTypes /\ ResultTypes

\* A name that has a register has one the RTL can address: a variable of
\* global_regs its own, any other one that is neither a global's nor above the
\* highest register in use.  The colours binding frees are uninitialised
\* (HLSHandler.cpp:187): no variable may ever be bound to one.
RegistersInRange ==
    \A v \in Names : regMap[v] >= 0 =>
        IF is_global_reg(v) >= 0 THEN regMap[v] = is_global_reg(v)
                                 ELSE regMap[v] \in Len(GlobalRegs)..colors

\* The values a block starts from are all alive at its start: whatever order
\* the hash table yields its roots in, no two local ones share a register.
RootsDistinct ==
    pc = "roots" => \A v, w \in issued :
        v # w /\ is_global_reg(v) < 0 /\ is_global_reg(w) < 0 => regMap[v] # regMap[w]

\* The block that binding has just finished issuing.
BlockIssued == pc = "queue" /\ q = <<>>

\* The pass schedules every statement: what the report's algorithm promises of
\* an acyclic block.
AllIssued == BlockIssued /\ StraightLine(Stmts) => points \subseteq issued

\* It does so when no statement repeats an operand.
RepeatFreeIssued ==
    BlockIssued /\ StraightLine(Stmts) /\ RepeatFree(Stmts) => points \subseteq issued

\* The schedule is as soon as possible: with unit latencies every variable
\* begins exactly at its longest path, though the code only takes the begin
\* cycle of the operand visited last.
AsapLevels ==
    BlockIssued /\ StraightLine(Stmts) /\ RepeatFree(Stmts) /\ UnitLatency(Stmts) =>
        \A i \in 1..Len(Stmts) : Stmts[i].var # NoVar =>
            begin[Stmts[i].var] = Level(Stmts)[i]

\* in_num counts what is left to visit: for a point not issued yet, the edges
\* into it that no popped point has walked over.  Deleting edges while walking
\* must never lose or repeat one.
Occurrences(s, v, from) == Cardinality({i \in from..Len(s) : s[i] = v})
Unwalked(p, v) ==
    IF p = cur /\ pc = "visit" THEN Occurrences(next[p], v, k)
    ELSE IF p \in issued /\ (\A i \in 1..Len(q) : q[i] # p)
         THEN 0 ELSE Occurrences(next[p], v, 1)
InNumExact ==
    pc \in {"queue", "visit"} /\ StraightLine(Stmts) /\ RepeatFree(Stmts) =>
        \A v \in points \ issued :
            inNum[v] = Cardinality({p \in points : Unwalked(p, v) # 0})

\* A colour is given back with the last operation that reads its variable, not
\* before; and, where no statement repeats an operand, then and only then, so once.
\* An operation is a statement with a variable, hence with a point: a branch, a
\* return or a store that reads the variable too is not waited for, although it
\* comes later (HLSHandler.cpp:181-187), and what that leads to is a case of
\* LiveRangesDisjoint.
ReadersIssued(v) ==
    \A i \in 1..Len(Stmts) : v \in Reads(Stmts[i]) => Stmts[i].var \in issued \cup {NoVar}
ReleasedWithLastOperation ==
    [][pc = "release" /\ pc' = pc /\ StraightLine(Stmts) =>
         /\ free' # free => ReadersIssued(prev[succ][r])
         /\ RepeatFree(Stmts) /\ ReadersIssued(prev[succ][r]) => free' # free]_vars

\* A statement without a variable closes its block: the block ends in the
\* cycle after it, and no statement of the block starts later.
TerminatorLast ==
    pc # "done" \/ \A l \in 1..Len(blocks) :
        LET ss == blocks[l].statements IN
        StraightLine(ss) /\ RepeatFree(ss) =>
            \A i, j \in 1..Len(ss) : ss[i].var = NoVar =>
                endCycle[l] = cycle[l][i] + 1 /\ cycle[l][j] <= cycle[l][i]

\* A statement starts after the one whose variable it reads: registers are
\* written at the end of a cycle, so one cycle later at the earliest.
ReadyAt(l, i, j) == cycle[l][j] > cycle[l][i]
DefinesFor(ss, i, j) == i < j /\ ss[i].var # NoVar /\ ss[i].var \in Reads(ss[j])
OperandsReady ==
    pc = "done" => \A l \in 1..Len(blocks) :
        LET ss == blocks[l].statements IN
        \A i, j \in 1..Len(ss) : DefinesFor(ss, i, j) => ReadyAt(l, i, j)

\* The code achieves it for operands that depend on something themselves, read
\* by operations other than a load, in blocks with unit latencies.
PlainOperandsReady ==
    pc = "done" => \A l \in 1..Len(blocks) :
        LET ss == blocks[l].statements IN
        StraightLine(ss) /\ RepeatFree(ss) /\ UnitLatency(ss) =>
            \A i, j \in 1..Len(ss) :
                DefinesFor(ss, i, j) /\ EdgeOperands(ss[i]) # {} /\ ss[j].type # "LOAD"
                    => ReadyAt(l, i, j)

\* A register is not written between the write and the last read of another
\* variable of the block (the left-edge allocation the report describes).
LiveRangesDisjoint ==
    pc = "done" => \A l \in 1..Len(blocks) :
        LET ss == blocks[l].statements IN
        \A i, h, j \in 1..Len(ss) :
            /\ DefinesFor(ss, i, j) /\ h # i /\ ss[h].var # NoVar
            /\ cycle[l][i] < cycle[l][h] /\ cycle[l][h] < cycle[l][j]
            => regMap[ss[h].var] # regMap[ss[i].var]

\* A variable of several blocks keeps its register once it has one: other
\* blocks read it there.
Mentions(l, v) ==
    \E i \in 1..Len(blocks[l].statements) :
        LET s == blocks[l].statements[i] IN v = s.var \/ v \in Reads(s)
Shared(v) == \E l, m \in 1..Len(blocks) : l # m /\ Mentions(l, v) /\ Mentions(m, v)
SharedStable ==
    [][\A v \in Names : Shared(v) /\ regMap[v] >= 0 => regMap'[v] = regMap[v]]_vars

\* binding issues the points of each block as DataflowOrder allows: its prev_points
\* are the dependences.
Dependences == [v \in Names |-> {prev[v][i] : i \in 1..Len(prev[v])}]
Order == INSTANCE DataflowOrder WITH Values <- Names, deps <- Dependences, issued <- issued
ImplementsDataflowOrder == Order!DataflowSpec

\* The pass ends on every program, those with cycles in a block included.
Terminates == <>(pc = "done")
=============================================================================
