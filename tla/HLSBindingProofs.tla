--------------------------- MODULE HLSBindingProofs ---------------------------
(***************************************************************************)
(* Proofs about HLSBinding for every set of programs, every set of names   *)
(* and every value the uninitialised members may hold: types, registers,   *)
(* the data-flow graph that binding builds of a block and the order in     *)
(* which it issues the points.  The graph says what the statements say, a  *)
(* block whose variables are defined before they are used loses no edge,   *)
(* and so no colour is released before the operations that read its        *)
(* variable.  in_num bounds the edges to come while edges are deleted      *)
(* under the walk, and therefore no point is issued before its operands.   *)
(***************************************************************************)
EXTENDS HLSBinding, WellFoundedInduction, SequenceTheorems, FiniteSetTheorems,
        TLAPS

-----------------------------------------------------------------------------
(* Facts about the data.                                                   *)

\* A position of global_regs or -1, as is_global_reg's callers test.
LEMMA GlobalRange == ASSUME NEW v PROVE is_global_reg(v) \in -1..4
<1>1. CASE \E g \in 1..5 : GlobalRegs[g] = v
  <2>1. (CHOOSE g \in 1..5 : GlobalRegs[g] = v) \in 1..5
    BY <1>1
  <2> QED BY <2>1, <1>1 DEF is_global_reg
<1>2. CASE ~ \E g \in 1..5 : GlobalRegs[g] = v
  BY <1>2 DEF is_global_reg
<1> QED BY <1>1, <1>2

LEMMA FiveGlobals == Len(GlobalRegs) = 5
BY DEF GlobalRegs

\* A set of naturals with a member has a least one.
LEMMA LeastNatural ==
  ASSUME NEW A \in SUBSET Nat, A # {} PROVE \E m \in A : \A a \in A : m <= a
<1>1. PICK m \in A : \A a \in A : ~ (<<a, m>> \in OpToRel(<, Nat))
  BY NatLessThanWellFounded, WFMin
<1>2. \A a \in A : ~ (a < m)
  BY <1>1 DEF OpToRel
<1> QED BY <1>2

\* A value that occurs in a sequence has a first occurrence.
LEMMA FirstOccurrence ==
  ASSUME NEW T, NEW s \in Seq(T), NEW v, \E i \in 1..Len(s) : s[i] = v
  PROVE  \E i \in 1..Len(s) : s[i] = v /\ \A h \in 1..(i - 1) : s[h] # v
<1> DEFINE A == {i \in 1..Len(s) : s[i] = v}
<1>1. A \subseteq Nat /\ A # {}
  OBVIOUS
<1>2. PICK i \in A : \A h \in A : i <= h
  BY <1>1, LeastNatural
<1>3. ASSUME NEW h \in 1..(i - 1) PROVE s[h] # v
  <2>1. h \in 1..Len(s) /\ ~(i <= h)
    OBVIOUS
  <2> QED BY <2>1, <1>2
<1> QED BY <1>3

\* Deleting an edge leaves a list of names.
LEMMA DeleteType ==
  ASSUME NEW T, NEW s \in Seq(T), NEW v PROVE delete_next_point(s, v) \in Seq(T)
<1>1. CASE \E i \in 1..Len(s) : s[i] = v
  <2> DEFINE f == CHOOSE i \in 1..Len(s) : s[i] = v /\ \A h \in 1..(i - 1) : s[h] # v
  <2>0. \E i \in 1..Len(s) : s[i] = v /\ \A h \in 1..(i - 1) : s[h] # v
    BY <1>1, FirstOccurrence
  <2>1. f \in 1..Len(s)
    BY <2>0, Zenon
  <2> HIDE DEF f
  <2>2. SubSeq(s, 1, f - 1) \in Seq(T) /\ SubSeq(s, f + 1, Len(s)) \in Seq(T)
    BY <2>1, SubSeqProperties
  <2>3. SubSeq(s, 1, f - 1) \o SubSeq(s, f + 1, Len(s)) \in Seq(T)
    BY <2>2
  <2> QED BY <1>1, <2>3 DEF delete_next_point, f
<1>2. CASE ~ \E i \in 1..Len(s) : s[i] = v
  BY <1>2 DEF delete_next_point
<1> QED BY <1>1, <1>2

\* A bounded set of integers with 0 in it has a largest member.
LEMMA LargestExists ==
  ASSUME NEW A \in SUBSET Int, 0 \in A, NEW B \in Nat, \A a \in A : a <= B
  PROVE  \E m \in A : \A a \in A : m >= a
<1> DEFINE U == {u \in Nat : \A a \in A : a <= u}
<1>1. U \subseteq Nat /\ B \in U
  OBVIOUS
<1>2. PICK u \in U : \A w \in U : u <= w
  BY <1>1, LeastNatural
<1>3. u \in A
  <2> SUFFICES ASSUME u \notin A PROVE FALSE
    OBVIOUS
  <2>1. u # 0 /\ u - 1 \in Nat
    BY <1>2
  <2>2. \A a \in A : a <= u - 1
    BY <1>2, <2>1
  <2>3. u - 1 \in U
    BY <2>1, <2>2
  <2> QED BY <2>3, <1>2
<1> QED BY <1>2, <1>3

\* So some positions in a list have a last one.
LEMMA LastExists ==
  ASSUME NEW n \in Nat, NEW I \in SUBSET (1..n), I # {}
  PROVE  \E i \in I : \A h \in I : h <= i
<1> DEFINE A == I \cup {0}
<1>1. A \in SUBSET Int /\ 0 \in A /\ \A a \in A : a <= n
  OBVIOUS
<1>2. PICK m \in A : \A a \in A : m >= a
  BY <1>1, LargestExists
<1>3. PICK i \in I : TRUE
  OBVIOUS
<1> QED BY <1>2, <1>3

-----------------------------------------------------------------------------
(* Type correctness.                                                       *)

\* Every statement read so far has its point.
VarsHavePoints ==
    /\ pc = "graph" =>
         \A i \in 1..Len(Stmts) : i < si /\ Stmts[i].var # NoVar => Stmts[i].var \in points
    /\ pc = "graph" /\ oi >= 1 => S.var # NoVar /\ S.var \in points
    /\ pc \in {"roots", "queue", "visit", "release"} =>
         \A i \in 1..Len(Stmts) : Stmts[i].var # NoVar => Stmts[i].var \in points

\* The cursors are points where they are used, and the begin cycles are bounded.
CursorsSet ==
    /\ outputs \subseteq points
    /\ pc \in {"visit", "release"} => cur \in Names
    /\ pc = "release" => succ \in Names
    /\ \E B \in Nat : \A p \in Names : begin[p] <= B

TypeInv == TypeOK /\ VarsHavePoints /\ CursorsSet

LEMMA StatementTypes ==
  ASSUME TypeOK
  PROVE  /\ blocks \in Seq(BasicBlock) /\ Len(blocks) \in Nat
         /\ Stmts \in Seq(Statement) /\ Len(Stmts) \in Nat
         /\ \A i \in 1..Len(Stmts) : /\ Stmts[i].var \in Names \cup {NoVar}
                                    /\ Stmts[i].ops \in Seq(Names)
<1>1. blocks \in Seq(BasicBlock) /\ b \in 1..Len(blocks)
  BY DEF TypeOK, ControlTypes
<1>2. blocks[b] \in BasicBlock /\ Len(blocks) \in Nat
  BY <1>1
<1>3. Stmts \in Seq(Statement)
  BY <1>2 DEF Stmts, BasicBlock
<1>4. \A i \in 1..Len(Stmts) : Stmts[i] \in Statement
  BY <1>3
<1> QED BY <1>1, <1>2, <1>3, <1>4 DEF Statement

\* What binding starts from, whoever has filled in the blocks.
Unbound == blocks \in Seq(BasicBlock) \ {<<>>} /\ NothingBound

LEMMA InitUnbound == Init => Unbound
BY ProgramsAssumption DEF Init, Unbound

LEMMA TypeInit == Unbound => TypeInv
<1> SUFFICES ASSUME Unbound PROVE TypeInv
  OBVIOUS
<1>1. blocks \in Seq(BasicBlock) /\ blocks # <<>>
  BY DEF Unbound
<1>2. 1 \in 1..Len(blocks)
  BY <1>1
<1>3. NoEdges \in [Names -> Seq(Names)] /\ Zero \in [Names -> Nat]
  BY DEF NoEdges, Zero
<1>4. TypeOK
  BY <1>2, <1>3, FiveGlobals DEF Unbound, NothingBound, TypeOK, ControlTypes, GraphTypes, IssueTypes, RegisterTypes, ResultTypes, Absent
<1>5. VarsHavePoints /\ CursorsSet
  BY DEF Unbound, NothingBound, VarsHavePoints, CursorsSet, Zero
<1> QED BY <1>4, <1>5 DEF TypeInv

\* Giving a point a register keeps the types of the register state.
LEMMA BindType ==
  ASSUME TypeOK, NEW v \in Names, NEW spare, free # <<>> => spare \in Int,
         BindRegister(v, spare)
  PROVE  RegisterTypes'
<1>1. is_global_reg(v) \in Int
  BY GlobalRange
<1>2. free \in Seq(Int) /\ colors \in Nat /\ regMap \in [Names -> Int]
  BY DEF TypeOK, RegisterTypes
<1>3. CASE free = <<>> /\ is_global_reg(v) < 0
  <2>1. free' = free /\ colors' = colors + 1 /\ regMap' = [regMap EXCEPT ![v] = colors + 1]
    BY <1>3, <1>1 DEF BindRegister
  <2> QED BY <1>2, <2>1 DEF RegisterTypes
<1>4. CASE free # <<>> /\ is_global_reg(v) < 0
  <2>1. free' = Tail(free) /\ colors' = colors /\ regMap' = [regMap EXCEPT ![v] = spare]
    BY <1>4, <1>1 DEF BindRegister
  <2>2. Tail(free) \in Seq(Int)
    BY <1>2, <1>4, HeadTailProperties
  <2> QED BY <1>2, <1>4, <2>1, <2>2 DEF RegisterTypes
<1>5. CASE is_global_reg(v) >= 0
  <2>1. free' = free /\ colors' = colors
        /\ regMap' = [regMap EXCEPT ![v] = is_global_reg(v)]
    BY <1>5, <1>1 DEF BindRegister
  <2> QED BY <1>1, <1>2, <2>1 DEF RegisterTypes
<1> QED BY <1>1, <1>3, <1>4, <1>5

\* The end cycle of a block is a natural number, after the begin of every output.
LEMMA EndType ==
  ASSUME TypeInv, NEW junk \in [points \ issued -> Junk]
  PROVE  /\ EndOf(junk) \in Nat
         /\ \A p \in outputs : EndOf(junk) >= BeginOf(p, junk) + 1
         /\ \A p \in points : BeginOf(p, junk) \in Int
         /\ EndOf(junk) = 0 \/ \E p \in outputs : EndOf(junk) = BeginOf(p, junk) + 1
<1> DEFINE ends == {0} \cup {BeginOf(p, junk) + 1 : p \in outputs}
<1>1. INT_MIN \in Int /\ INT_MAX \in Int /\ Junk \subseteq INT_MIN..INT_MAX
  BY JunkAssumption
<1>2. PICK B \in Nat : \A p \in Names : begin[p] <= B
  BY DEF TypeInv, CursorsSet
<1>0. points \subseteq Names /\ begin \in [Names -> Nat] /\ outputs \subseteq points
  BY DEF TypeInv, TypeOK, GraphTypes, IssueTypes, CursorsSet
<1>3. ASSUME NEW p \in points
      PROVE  BeginOf(p, junk) \in Int /\ (BeginOf(p, junk) <= B \/ BeginOf(p, junk) <= INT_MAX)
  <2>1. CASE p \in issued
    BY <1>0, <1>2, <2>1 DEF BeginOf
  <2>2. CASE p \notin issued
    <3>1. junk[p] \in INT_MIN..INT_MAX
      BY <1>1, <2>2
    <3> QED BY <3>1, <2>2 DEF BeginOf
  <2> QED BY <2>1, <2>2
<1>4. PICK C \in Nat : C >= B + 1 /\ C >= INT_MAX + 1
  <2>1. CASE INT_MAX >= B
    <3>1. INT_MAX + 1 \in Nat /\ INT_MAX + 1 >= B + 1
      BY <1>1, <2>1
    <3> QED BY <3>1
  <2>2. CASE ~(INT_MAX >= B)
    <3>1. B + 1 \in Nat /\ B + 1 >= INT_MAX + 1
      BY <1>1, <2>2
    <3> QED BY <3>1
  <2> QED BY <2>1, <2>2
<1>5. \A p \in points : BeginOf(p, junk) + 1 <= C
  BY <1>1, <1>3, <1>4
<1>7. ends \in SUBSET Int /\ 0 \in ends /\ \A a \in ends : a <= C
  <2>1. \A p \in outputs : BeginOf(p, junk) + 1 \in Int /\ BeginOf(p, junk) + 1 <= C
    BY <1>0, <1>3, <1>5
  <2> QED BY <2>1, <1>4
<1>8. \E m \in ends : \A a \in ends : m >= a
  BY <1>7, LargestExists
<1>9. \E e \in ends : e >= 0 /\ \A p \in outputs : e >= BeginOf(p, junk) + 1
  BY <1>8, <1>7
<1>10. /\ EndOf(junk) \in ends /\ EndOf(junk) >= 0
       /\ \A p \in outputs : EndOf(junk) >= BeginOf(p, junk) + 1
  BY <1>9 DEF EndOf
<1> QED BY <1>3, <1>7, <1>10

LEMMA TypeStep == TypeInv /\ [Next]_vars => TypeInv'
<1> SUFFICES ASSUME TypeInv, [Next]_vars PROVE TypeInv'
  OBVIOUS
<1> USE DEF TypeInv, TypeOK, graph, issue, cursor, regs, result
<1>1. /\ Stmts \in Seq(Statement) /\ Len(Stmts) \in Nat
      /\ \A i \in 1..Len(Stmts) : /\ Stmts[i].var \in Names \cup {NoVar}
                                 /\ Stmts[i].ops \in Seq(Names)
  BY StatementTypes
<1>2. CASE EnterBlock
  <2>1. ControlTypes' /\ GraphTypes' /\ IssueTypes' /\ RegisterTypes'
        /\ ResultTypes' /\ VarsHavePoints'
    BY <1>1, <1>2 DEF EnterBlock, ControlTypes, NoEdges, Zero, GraphTypes, IssueTypes,
         RegisterTypes, ResultTypes, VarsHavePoints, Stmts, S
  <2>2. CursorsSet'
    <3>1. \A p \in Names : begin'[p] <= 0
      BY <1>2 DEF EnterBlock, Zero
    <3>2. outputs' = {} /\ pc' = "graph"
      BY <1>2 DEF EnterBlock
    <3> QED BY <3>1, <3>2 DEF CursorsSet
  <2> QED BY <2>1, <2>2
<1>3. CASE SkipStatement
  <2>1. ControlTypes'
    BY <1>1, <1>3 DEF SkipStatement, InStatements, Stmts, S, ControlTypes
  <2>2. GraphTypes' /\ IssueTypes' /\ RegisterTypes' /\ ResultTypes'
        /\ CursorsSet'
    BY <1>1, <1>3 DEF SkipStatement, InStatements, GraphTypes, IssueTypes,
         RegisterTypes, ResultTypes, CursorsSet
  <2>3. VarsHavePoints'
    <3>1. oi = 0 /\ si \in Nat \ {0} /\ si <= Len(Stmts) /\ S.var = NoVar /\ pc = "graph"
      BY <1>3 DEF SkipStatement, InStatements, ControlTypes
    <3>2. si' = si + 1 /\ UNCHANGED <<blocks, b, pc, oi, points>>
      BY <1>3 DEF SkipStatement
    <3>3. Stmts' = Stmts
      BY <3>2 DEF Stmts
    <3>4. \A i \in 1..Len(Stmts) : i < si + 1 /\ Stmts[i].var # NoVar => Stmts[i].var \in points
      <4>1. \A i \in 1..Len(Stmts) : i < si + 1 => i < si \/ i = si
        BY <3>1, <1>1
      <4> QED BY <4>1, <3>1 DEF VarsHavePoints, S
    <3> QED BY <3>1, <3>2, <3>3, <3>4 DEF VarsHavePoints
  <2> QED BY <2>1, <2>2, <2>3
<1>4. CASE NewPoint
  <2>1. ControlTypes' /\ IssueTypes' /\ RegisterTypes' /\ ResultTypes'
        /\ VarsHavePoints' /\ CursorsSet'
    BY <1>1, <1>4 DEF NewPoint, InStatements, Stmts, S, ControlTypes, IssueTypes,
         RegisterTypes, ResultTypes, VarsHavePoints, CursorsSet
  <2>2. GraphTypes'
    <3>1. S.var \in Names
      <4>1. si \in 1..Len(Stmts) /\ S.var # NoVar
        BY <1>1, <1>4 DEF NewPoint, InStatements, ControlTypes
      <4> QED BY <1>1, <4>1 DEF S
    <3> QED BY <1>4, <3>1 DEF NewPoint, GraphTypes
  <2> QED BY <2>1, <2>2
<1>5. CASE ArrayOperand
  <2>1. ControlTypes'
    BY <1>1, <1>5 DEF ArrayOperand, CodedOperand, InOperands, InStatements, Operand,
         Stmts, S, ArrayCode, ControlTypes
  <2>2. VarsHavePoints'
    BY <1>1, <1>5 DEF ArrayOperand, CodedOperand, InOperands, InStatements, Operand,
         Stmts, S, ArrayCode, VarsHavePoints
  <2>3. GraphTypes' /\ IssueTypes' /\ ResultTypes' /\ CursorsSet'
    BY <1>1, <1>5 DEF ArrayOperand, CodedOperand, InOperands, InStatements, Operand,
         ArrayCode, GraphTypes, IssueTypes, ResultTypes, CursorsSet
  <2>4. RegisterTypes'
    <3>1. regMap' = [regMap EXCEPT ![Operand] = ArrayCode] /\ UNCHANGED <<free, colors>>
      BY <1>5 DEF ArrayOperand, CodedOperand
    <3>2. ArrayCode \in Int
      BY DEF ArrayCode
    <3>3. regMap' \in [Names -> Int]
      BY <3>1, <3>2 DEF RegisterTypes
    <3> QED BY <3>1, <3>3 DEF RegisterTypes
  <2> QED BY <2>1, <2>2, <2>3, <2>4
<1>6. CASE LabelOperand
  <2>1. ControlTypes'
    BY <1>1, <1>6 DEF LabelOperand, CodedOperand, InOperands, InStatements, Operand,
         Stmts, S, LabelCode, ControlTypes
  <2>2. VarsHavePoints'
    BY <1>1, <1>6 DEF LabelOperand, CodedOperand, InOperands, InStatements, Operand,
         Stmts, S, LabelCode, VarsHavePoints
  <2>3. GraphTypes' /\ IssueTypes' /\ ResultTypes' /\ CursorsSet'
    BY <1>1, <1>6 DEF LabelOperand, CodedOperand, InOperands, InStatements, Operand,
         LabelCode, GraphTypes, IssueTypes, ResultTypes, CursorsSet
  <2>4. RegisterTypes'
    <3>1. regMap' = [regMap EXCEPT ![Operand] = LabelCode] /\ UNCHANGED <<free, colors>>
      BY <1>6 DEF LabelOperand, CodedOperand
    <3>2. LabelCode \in Int
      BY DEF LabelCode
    <3>3. regMap' \in [Names -> Int]
      BY <3>1, <3>2 DEF RegisterTypes
    <3> QED BY <3>1, <3>3 DEF RegisterTypes
  <2> QED BY <2>1, <2>2, <2>3, <2>4
<1>7. CASE LengthOperand
  <2>1. ControlTypes'
    BY <1>1, <1>7 DEF LengthOperand, CodedOperand, InOperands, InStatements, Operand,
         Stmts, S, LengthCode, ControlTypes
  <2>2. VarsHavePoints'
    BY <1>1, <1>7 DEF LengthOperand, CodedOperand, InOperands, InStatements, Operand,
         Stmts, S, LengthCode, VarsHavePoints
  <2>3. GraphTypes' /\ IssueTypes' /\ ResultTypes' /\ CursorsSet'
    BY <1>1, <1>7 DEF LengthOperand, CodedOperand, InOperands, InStatements, Operand,
         LengthCode, GraphTypes, IssueTypes, ResultTypes, CursorsSet
  <2>4. RegisterTypes'
    <3>1. regMap' = [regMap EXCEPT ![Operand] = LengthCode] /\ UNCHANGED <<free, colors>>
      BY <1>7 DEF LengthOperand, CodedOperand
    <3>2. LengthCode \in Int
      BY DEF LengthCode
    <3>3. regMap' \in [Names -> Int]
      BY <3>1, <3>2 DEF RegisterTypes
    <3> QED BY <3>1, <3>3 DEF RegisterTypes
  <2> QED BY <2>1, <2>2, <2>3, <2>4
<1>8. CASE LiteralOperand
  <2>1. ControlTypes'
    BY <1>1, <1>8 DEF LiteralOperand, InOperands, InStatements, Stmts, S, ControlTypes
  <2>2. VarsHavePoints'
    BY <1>1, <1>8 DEF LiteralOperand, InOperands, InStatements, Stmts, S, VarsHavePoints
  <2>3. GraphTypes' /\ IssueTypes' /\ RegisterTypes' /\ ResultTypes'
        /\ CursorsSet'
    BY <1>1, <1>8 DEF LiteralOperand, InOperands, InStatements, GraphTypes, IssueTypes,
         RegisterTypes, ResultTypes, CursorsSet
  <2> QED BY <2>1, <2>2, <2>3
<1>9. CASE ValueOperand
  <2>0. oi' = oi + 1 /\ UNCHANGED <<blocks, b, pc, si>>
    BY <1>9 DEF ValueOperand
  <2>1. ControlTypes'
    BY <2>0, <1>1 DEF ControlTypes
  <2>2. VarsHavePoints'
    BY <1>1, <1>9 DEF ValueOperand, InOperands, InStatements, Operand, Stmts, S,
         VarsHavePoints
  <2>3. IssueTypes' /\ RegisterTypes' /\ ResultTypes' /\ CursorsSet'
    BY <1>1, <1>9 DEF ValueOperand, InOperands, InStatements, Operand, IssueTypes,
         RegisterTypes, ResultTypes, CursorsSet
  <2>4. GraphTypes'
    <3>1. S.var \in Names /\ Operand \in Names
      <4>1. si \in 1..Len(Stmts) /\ oi \in Nat /\ oi >= 1 /\ oi <= Len(S.ops) /\ pc = "graph"
        BY <1>1, <1>9 DEF ValueOperand, InOperands, InStatements, ControlTypes
      <4>2. S.ops \in Seq(Names)
        BY <1>1, <4>1 DEF S
      <4>3. Operand \in Names
        BY <4>1, <4>2 DEF Operand
      <4> QED BY <4>1, <4>3 DEF VarsHavePoints, GraphTypes
    <3>2. next' \in [Names -> Seq(Names)]
      BY <1>9, <3>1 DEF ValueOperand, GraphTypes
    <3>3. prev' \in [Names -> Seq(Names)]
      BY <1>9, <3>1 DEF ValueOperand, GraphTypes
    <3>4. inNum' \in [Names -> Int]
      BY <1>9, <3>1 DEF ValueOperand, GraphTypes
    <3> QED BY <1>9, <3>1, <3>2, <3>3, <3>4 DEF ValueOperand, GraphTypes
  <2> QED BY <2>1, <2>2, <2>3, <2>4
<1>10. CASE NextStatement
  <2>1. ControlTypes'
    BY <1>1, <1>10 DEF NextStatement, InStatements, Stmts, S, ControlTypes
  <2>2. GraphTypes' /\ IssueTypes' /\ RegisterTypes' /\ ResultTypes'
        /\ CursorsSet'
    BY <1>1, <1>10 DEF NextStatement, InStatements, GraphTypes, IssueTypes,
         RegisterTypes, ResultTypes, CursorsSet
  <2>3. VarsHavePoints'
    <3>1. oi >= 1 /\ si \in Nat \ {0} /\ si <= Len(Stmts) /\ pc = "graph"
      <4>1. si \in 1..Len(Stmts)
        BY <1>1, <1>10 DEF NextStatement, InStatements, ControlTypes
      <4>2. Len(S.ops) \in Nat
        BY <1>1, <4>1 DEF S
      <4> QED BY <4>1, <4>2, <1>10 DEF NextStatement, InStatements, ControlTypes
    <3>2. si' = si + 1 /\ oi' = 0 /\ UNCHANGED <<blocks, b, pc, points>>
      BY <1>10 DEF NextStatement
    <3>3. Stmts' = Stmts
      BY <3>2 DEF Stmts
    <3>4. \A i \in 1..Len(Stmts) : i < si + 1 /\ Stmts[i].var # NoVar => Stmts[i].var \in points
      <4>1. \A i \in 1..Len(Stmts) : i < si + 1 => i < si \/ i = si
        BY <3>1, <1>1
      <4> QED BY <4>1, <3>1 DEF VarsHavePoints, S
    <3> QED BY <3>1, <3>2, <3>3, <3>4 DEF VarsHavePoints
  <2> QED BY <2>1, <2>2, <2>3
<1>11. CASE GraphDone
  <2>1. ControlTypes' /\ GraphTypes' /\ RegisterTypes' /\ ResultTypes'
        /\ CursorsSet'
    BY <1>1, <1>11 DEF GraphDone, Stmts, ControlTypes, GraphTypes, RegisterTypes,
         ResultTypes, CursorsSet
  <2>2. IssueTypes'
    <3>1. outputs' \subseteq points /\ pending' \subseteq points
      BY <1>11 DEF GraphDone
    <3>2. UNCHANGED <<points, begin, issued, q, cur, k, succ, r>>
      BY <1>11 DEF GraphDone
    <3> QED BY <3>1, <3>2 DEF IssueTypes, GraphTypes
  <2>3. VarsHavePoints'
    <3>1. pc = "graph" /\ si > Len(Stmts) /\ pc' = "roots" /\ si \in Nat
      BY <1>11 DEF GraphDone, ControlTypes
    <3>2. UNCHANGED <<blocks, b, points>>
      BY <1>11 DEF GraphDone
    <3>3. Stmts' = Stmts
      BY <3>2 DEF Stmts
    <3>4. \A i \in 1..Len(Stmts) : i < si
      BY <3>1, <1>1
    <3> QED BY <3>1, <3>2, <3>3, <3>4 DEF VarsHavePoints
  <2> QED BY <2>1, <2>2, <2>3
<1>12. ASSUME NEW p \in pending, IssueRoot(p) PROVE TypeInv'
  <2>0. /\ pc = "roots" /\ pc' = "roots" /\ p \in Names
        /\ pending' = pending \ {p} /\ q' = Append(q, p)
        /\ begin' = [begin EXCEPT ![p] = 0] /\ issued' = issued \cup {p}
        /\ UNCHANGED <<blocks, b, si, oi, points, next, prev, inNum, outputs,
                       cur, k, succ, r, cycle, endCycle, byCycle>>
    BY <1>1, <1>12 DEF IssueRoot, IssueTypes, graph, cursor, result
  <2>3. ControlTypes' /\ GraphTypes' /\ ResultTypes'
    BY <2>0, <1>1 DEF ControlTypes, GraphTypes, ResultTypes
  <2>4. IssueTypes'
    BY <2>0, <1>1 DEF IssueTypes
  <2>5. VarsHavePoints'
    BY <2>0, <1>1 DEF VarsHavePoints, Stmts, S
  <2>6. CursorsSet'
    <3>1. PICK B \in Nat : \A v \in Names : begin[v] <= B
      BY <1>1 DEF CursorsSet
    <3>2. \A v \in Names : begin'[v] <= B
      BY <2>0, <3>1, <1>1 DEF IssueTypes
    <3> QED BY <2>0, <3>1, <3>2, <1>1 DEF CursorsSet
  <2>1. ControlTypes' /\ GraphTypes' /\ IssueTypes' /\ ResultTypes'
        /\ VarsHavePoints' /\ CursorsSet'
    BY <2>3, <2>4, <2>5, <2>6
  <2>2. RegisterTypes'
    <3>1. p \in Names /\ BindRegister(p, Head(free))
      BY <1>12 DEF IssueRoot, IssueTypes
    <3>2. free # <<>> => Head(free) \in Int
      BY HeadTailProperties DEF RegisterTypes
    <3> QED BY <3>1, <3>2, BindType
  <2> QED BY <2>1, <2>2
<1>13. CASE RootsDone
  <2>1. ControlTypes' /\ GraphTypes' /\ IssueTypes' /\ RegisterTypes'
        /\ ResultTypes' /\ VarsHavePoints' /\ CursorsSet'
    BY <1>1, <1>13 DEF RootsDone, ControlTypes, GraphTypes, IssueTypes, RegisterTypes,
         ResultTypes, VarsHavePoints, Stmts, S, CursorsSet
  <2> QED BY <2>1
<1>14. CASE PopPoint
  <2>1. ControlTypes'
    BY <1>1, <1>14 DEF PopPoint, ControlTypes
  <2>2. VarsHavePoints'
    BY <1>1, <1>14 DEF PopPoint, VarsHavePoints, Stmts, S
  <2>3. GraphTypes' /\ RegisterTypes' /\ ResultTypes'
    BY <1>1, <1>14 DEF PopPoint, GraphTypes, RegisterTypes, ResultTypes
  <2>4. CursorsSet'
    <3>1. q # <<>> /\ cur' = Head(q) /\ pc' = "visit" /\ UNCHANGED <<begin, outputs, points>>
      BY <1>14 DEF PopPoint
    <3>2. cur' \in Names
      BY <3>1, HeadTailProperties DEF IssueTypes
    <3> QED BY <3>1, <3>2 DEF CursorsSet
  <2>5. IssueTypes'
    BY <1>14, HeadTailProperties DEF PopPoint, IssueTypes
  <2> QED BY <2>1, <2>2, <2>3, <2>4, <2>5
<1>15. CASE VisitSuccessor
  <2>1. ControlTypes' /\ RegisterTypes' /\ ResultTypes' /\ VarsHavePoints'
    BY <1>1, <1>15 DEF VisitSuccessor, StepOver, StartIssue, Latency, ControlTypes,
         RegisterTypes, ResultTypes, VarsHavePoints, Stmts, S
  <2>2. GraphTypes'
    <3> DEFINE n == next[cur][k]
    <3>1. pc = "visit" /\ n \in Names /\ cur \in Names
      <4>1. cur \in Names /\ k \in Nat \ {0} /\ k <= Len(next[cur]) /\ pc = "visit"
        BY <1>15 DEF VisitSuccessor, CursorsSet, IssueTypes
      <4>2. next[cur] \in Seq(Names)
        BY <4>1 DEF GraphTypes
      <4> QED BY <4>1, <4>2
    <3>2. inNum' = [inNum EXCEPT ![n] = @ - 1] /\ UNCHANGED <<points, next, prev>>
      BY <1>15 DEF VisitSuccessor
    <3> QED BY <3>1, <3>2 DEF GraphTypes
  <2>3. IssueTypes'
    <3> DEFINE n == next[cur][k]
    <3>1. pc = "visit" /\ n \in Names /\ cur \in Names
      <4>1. cur \in Names /\ k \in Nat \ {0} /\ k <= Len(next[cur]) /\ pc = "visit"
        BY <1>15 DEF VisitSuccessor, CursorsSet, IssueTypes
      <4>2. next[cur] \in Seq(Names)
        BY <4>1 DEF GraphTypes
      <4> QED BY <4>1, <4>2
    <3>2. Latency(cur) \in {1, 2}
      BY DEF Latency
    <3>3. UNCHANGED <<outputs, pending, q, cur>>
      BY <1>15 DEF VisitSuccessor
    <3>4. CASE StepOver
      BY <3>3, <3>4 DEF StepOver, IssueTypes
    <3>5. CASE StartIssue(n) /\ UNCHANGED k
      <4>1. begin' = [begin EXCEPT ![n] = begin[cur] + Latency(cur)] /\ issued' = issued \cup {n}
            /\ succ' = n /\ r' = 1
        BY <3>5 DEF StartIssue
      <4>2. begin[cur] + Latency(cur) \in Nat
        BY <3>1, <3>2 DEF IssueTypes
      <4>3. begin' \in [Names -> Nat]
        BY <4>1, <4>2 DEF IssueTypes
      <4> HIDE DEF n
      <4> QED BY <3>1, <3>3, <3>5, <4>1, <4>3 DEF IssueTypes
    <3> QED BY <3>4, <3>5, <1>15 DEF VisitSuccessor
  <2>4. CursorsSet'
    <3> DEFINE n == next[cur][k]
    <3>1. pc = "visit" /\ n \in Names /\ cur \in Names
      <4>1. cur \in Names /\ k \in Nat \ {0} /\ k <= Len(next[cur]) /\ pc = "visit"
        BY <1>15 DEF VisitSuccessor, CursorsSet, IssueTypes
      <4>2. next[cur] \in Seq(Names)
        BY <4>1 DEF GraphTypes
      <4> QED BY <4>1, <4>2
    <3>2. Latency(cur) \in {1, 2}
      BY DEF Latency
    <3>3. UNCHANGED <<outputs, points, cur>>
      BY <1>15 DEF VisitSuccessor
    <3>4. PICK B \in Nat : \A p \in Names : begin[p] <= B
      BY DEF CursorsSet
    <3>5. CASE StepOver
      BY <3>1, <3>3, <3>5 DEF StepOver, CursorsSet
    <3>6. CASE StartIssue(n)
      <4>1. begin' = [begin EXCEPT ![n] = begin[cur] + Latency(cur)] /\ succ' = n
        BY <3>6 DEF StartIssue
      <4>2. begin[cur] + Latency(cur) <= B + 2
        BY <3>1, <3>2, <3>4 DEF IssueTypes
      <4>3. \A p \in Names : begin'[p] <= B + 2
        BY <4>1, <4>2, <3>4 DEF IssueTypes
      <4>4. B + 2 \in Nat
        OBVIOUS
      <4> QED BY <3>1, <3>3, <4>1, <4>3, <4>4 DEF CursorsSet
    <3> QED BY <3>5, <3>6, <1>15 DEF VisitSuccessor
  <2> QED BY <2>1, <2>2, <2>3, <2>4
<1>16. CASE VisitDone
  <2>1. ControlTypes' /\ GraphTypes' /\ IssueTypes' /\ RegisterTypes'
        /\ ResultTypes' /\ VarsHavePoints' /\ CursorsSet'
    BY <1>1, <1>16 DEF VisitDone, ControlTypes, GraphTypes, IssueTypes, RegisterTypes,
         ResultTypes, VarsHavePoints, Stmts, S, CursorsSet
  <2> QED BY <2>1
<1>17. CASE ReleaseOperand
  <2>1. ControlTypes' /\ IssueTypes' /\ ResultTypes' /\ VarsHavePoints'
        /\ CursorsSet'
    BY <1>1, <1>17 DEF ReleaseOperand, ControlTypes, IssueTypes, ResultTypes,
         VarsHavePoints, Stmts, S, CursorsSet
  <2>2. GraphTypes'
    <3> DEFINE m == prev[succ][r]
    <3>1. m \in Names
      <4>1. succ \in Names /\ r \in Nat \ {0} /\ r <= Len(prev[succ])
        BY <1>17 DEF ReleaseOperand, CursorsSet, IssueTypes
      <4>2. prev[succ] \in Seq(Names)
        BY <4>1 DEF GraphTypes
      <4> QED BY <4>1, <4>2
    <3>2. delete_next_point(next[m], succ) \in Seq(Names)
      BY <3>1, DeleteType DEF GraphTypes
    <3>3. next' = [next EXCEPT ![m] = delete_next_point(next[m], succ)]
          /\ UNCHANGED <<points, prev, inNum>>
      BY <1>17 DEF ReleaseOperand
    <3> QED BY <3>2, <3>3 DEF GraphTypes
  <2>3. RegisterTypes'
    <3>1. UNCHANGED <<colors, regMap>>
          /\ (free' = free \/ \E color \in Junk : free' = Append(free, color))
      BY <1>17 DEF ReleaseOperand
    <3>2. Junk \subseteq Int
      BY JunkAssumption
    <3> QED BY <3>1, <3>2 DEF RegisterTypes
  <2> QED BY <2>1, <2>2, <2>3
<1>18. CASE BindSuccessor
  <2>1. ControlTypes' /\ GraphTypes' /\ ResultTypes' /\ VarsHavePoints'
        /\ CursorsSet'
    BY <1>1, <1>18 DEF BindSuccessor, ControlTypes, GraphTypes, ResultTypes,
         VarsHavePoints, Stmts, S, CursorsSet
  <2>2. IssueTypes'
    <3>1. succ \in Names
      BY <1>18 DEF BindSuccessor, CursorsSet
    <3> QED BY <1>18, <3>1 DEF BindSuccessor, IssueTypes
  <2>3. RegisterTypes'
    <3>1. succ \in Names /\ BindRegister(succ, colors) /\ colors \in Int
      BY <1>18 DEF BindSuccessor, CursorsSet, RegisterTypes
    <3> QED BY <3>1, BindType
  <2> QED BY <2>1, <2>2, <2>3
<1>19. CASE FinishBlock
  <2>1. ControlTypes'
    BY <1>1, <1>19 DEF FinishBlock, ControlTypes
  <2>2. VarsHavePoints'
    BY <1>1, <1>19 DEF FinishBlock, VarsHavePoints, Stmts, S
  <2>3. GraphTypes' /\ IssueTypes' /\ RegisterTypes' /\ CursorsSet'
    BY <1>1, <1>19 DEF FinishBlock, GraphTypes, IssueTypes, RegisterTypes, CursorsSet
  <2>4. ResultTypes'
    <3>1. PICK junk \in [points \ issued -> Junk] :
            /\ cycle' = Append(cycle, [i \in 1..Len(Stmts) |-> CycleOf(Stmts[i], junk)])
            /\ endCycle' = Append(endCycle,
                   IF \E i \in 1..Len(Stmts) : Stmts[i].var = NoVar
                   THEN MaxOf(1, EndOf(junk)) ELSE EndOf(junk))
      BY <1>19 DEF FinishBlock
    <3>2. EndOf(junk) \in Nat /\ \A p \in points : BeginOf(p, junk) \in Int
      BY EndType
    <3>3. \A i \in 1..Len(Stmts) : CycleOf(Stmts[i], junk) \in Nat
      <4>1. \A i \in 1..Len(Stmts) : Stmts[i].var = NoVar \/ Stmts[i].var \in points
        BY <1>19 DEF FinishBlock, VarsHavePoints
      <4> QED BY <3>2, <4>1 DEF CycleOf, MaxOf
    <3>4. MaxOf(1, EndOf(junk)) \in Nat
      BY <3>2 DEF MaxOf
    <3>5. endCycle' \in Seq(Nat)
      BY <3>1, <3>2, <3>4 DEF ResultTypes
    <3>6. [i \in 1..Len(Stmts) |-> CycleOf(Stmts[i], junk)] \in Seq(Nat)
      BY <1>1, <3>3
    <3>7. cycle' \in Seq(Seq(Nat))
      BY <3>1, <3>6 DEF ResultTypes
    <3> QED BY <3>5, <3>7 DEF ResultTypes
  <2> QED BY <2>1, <2>2, <2>3, <2>4
<1>20. CASE FillHash
  <2>1. ControlTypes' /\ GraphTypes' /\ IssueTypes' /\ RegisterTypes'
        /\ ResultTypes' /\ VarsHavePoints' /\ CursorsSet'
    BY <1>1, <1>20 DEF FillHash, ControlTypes, GraphTypes, IssueTypes, RegisterTypes,
         ResultTypes, VarsHavePoints, Stmts, S, CursorsSet
  <2> QED BY <2>1
<1>21. CASE UNCHANGED vars
  BY <1>21 DEF vars, ControlTypes, GraphTypes, IssueTypes, RegisterTypes, ResultTypes, VarsHavePoints, CursorsSet, Stmts, S
<1> QED BY <1>2, <1>3, <1>4, <1>5, <1>6, <1>7, <1>8, <1>9, <1>10, <1>11, <1>12, <1>13, <1>14, <1>15, <1>16, <1>17, <1>18, <1>19, <1>20, <1>21 DEF Next, Finished

\* Every state of the pass has the types TypeOK gives: no cursor leaves its list,
\* no cycle is negative, whatever the programs and the uninitialised members.
THEOREM TypeCorrect == Spec => []TypeOK
<1>1. TypeInv => TypeOK
  BY DEF TypeInv
<1> QED BY TypeInit, TypeStep, <1>1, InitUnbound, PTL DEF Spec

-----------------------------------------------------------------------------
(* Registers.                                                              *)

\* While the graph is built nothing is issued and one colour is free; among the
\* roots it stays free until a local one takes it.
RootColours ==
    /\ pc = "graph" => issued = {} /\ free = <<colors>>
    /\ pc = "roots" =>
         /\ issued \cap pending = {}
         /\ \A v \in issued : is_global_reg(v) < 0 => regMap[v] \in 5..colors
         /\ free # <<>> =>
              free = <<colors>> /\ \A v \in issued : is_global_reg(v) >= 0

RegisterInv ==
    TypeInv /\ colors >= 5 /\ RegistersInRange /\ RootColours /\ RootsDistinct

LEMMA RegisterInit == Unbound => RegisterInv
<1> SUFFICES ASSUME Unbound PROVE RegisterInv
  OBVIOUS
<1>1. TypeInv
  BY TypeInit
<1>2. \A v \in Names : regMap[v] = -1
  BY DEF Unbound, NothingBound, Absent
<1>3. RegistersInRange
  BY <1>2 DEF RegistersInRange
<1> QED BY <1>1, <1>3, FiveGlobals DEF Unbound, NothingBound, RegisterInv, RootColours, RootsDistinct

\* Binding v to its own register, to a new one or to the highest in use leaves
\* every register in range.
LEMMA BindInRange ==
  ASSUME RegisterTypes, colors >= 5, RegistersInRange, NEW v \in Names, NEW spare,
         free # <<>> => spare = colors, BindRegister(v, spare)
  PROVE  /\ colors' >= colors /\ colors' \in Nat /\ RegistersInRange'
         /\ \A w \in Names \ {v} : regMap'[w] = regMap[w]
         /\ is_global_reg(v) < 0 => regMap'[v] \in 5..colors'
         /\ is_global_reg(v) < 0 /\ free = <<>> => regMap'[v] = colors + 1 /\ free' = <<>>
<1>1. is_global_reg(v) \in -1..4 /\ Len(GlobalRegs) = 5
  BY GlobalRange, FiveGlobals
<1>2. free \in Seq(Int) /\ colors \in Nat /\ regMap \in [Names -> Int]
  BY DEF RegisterTypes
<1> DEFINE target == IF is_global_reg(v) >= 0 THEN is_global_reg(v)
                     ELSE IF free = <<>> THEN colors + 1 ELSE colors
<1>3. /\ regMap' = [regMap EXCEPT ![v] = target]
      /\ colors' = IF is_global_reg(v) < 0 /\ free = <<>> THEN colors + 1 ELSE colors
      /\ free = <<>> => free' = <<>>
  BY <1>1 DEF BindRegister
<1>4. colors' >= colors /\ colors' \in Nat
  BY <1>2, <1>3
<1>5. regMap'[v] = target /\ \A w \in Names \ {v} : regMap'[w] = regMap[w]
  BY <1>2, <1>3
<1>6. is_global_reg(v) < 0 => target \in 5..colors'
  BY <1>1, <1>2, <1>3
<1>7. ASSUME NEW w \in Names, regMap'[w] >= 0
      PROVE  IF is_global_reg(w) >= 0 THEN regMap'[w] = is_global_reg(w)
                                      ELSE regMap'[w] \in Len(GlobalRegs)..colors'
  <2>1. CASE w = v
    BY <2>1, <1>1, <1>5, <1>6
  <2>2. CASE w # v
    <3>1. regMap'[w] = regMap[w] /\ regMap[w] \in Int
      BY <2>2, <1>2, <1>5
    <3> QED BY <3>1, <1>1, <1>2, <1>4, <1>7 DEF RegistersInRange
  <2> QED BY <2>1, <2>2
<1>8. RegistersInRange'
  BY <1>7 DEF RegistersInRange
<1> HIDE DEF target
<1>9. is_global_reg(v) < 0 /\ free = <<>> => regMap'[v] = colors + 1 /\ free' = <<>>
  BY <1>1, <1>3, <1>5 DEF target
<1> QED BY <1>3, <1>4, <1>5, <1>6, <1>8, <1>9

\* A code for a name that is no register changes none.
LEMMA CodeInRange ==
  ASSUME RegisterTypes, RegistersInRange, NEW o, NEW code \in Int, code < 0,
         regMap' = [regMap EXCEPT ![o] = code], colors' = colors
  PROVE  RegistersInRange'
<1>1. \A w \in Names : regMap'[w] = regMap[w] \/ regMap'[w] = code
  BY DEF RegisterTypes
<1> QED BY <1>1 DEF RegistersInRange

LEMMA RegisterStep == RegisterInv /\ [Next]_vars => RegisterInv'
<1> SUFFICES ASSUME RegisterInv, [Next]_vars PROVE RegisterInv'
  OBVIOUS
<1> USE DEF graph, issue, cursor, regs, result
<1>1. TypeInv' /\ TypeInv
  BY TypeStep DEF RegisterInv
<1>2. RegisterTypes /\ RegisterTypes' /\ colors >= 5 /\ RegistersInRange
      /\ RootColours /\ RootsDistinct
  BY <1>1 DEF RegisterInv, TypeInv, TypeOK
<1>3. CASE EnterBlock
  BY <1>1, <1>2, <1>3 DEF EnterBlock, RegisterInv, RegistersInRange, RootColours, RootsDistinct
<1>4. CASE SkipStatement \/ NewPoint \/ LiteralOperand \/ ValueOperand \/ NextStatement
  BY <1>1, <1>2, <1>4 DEF SkipStatement, NewPoint, LiteralOperand, ValueOperand,
     NextStatement, InStatements, InOperands, RegisterInv, RegistersInRange, RootColours,
     RootsDistinct
<1>5. CASE ArrayOperand \/ LabelOperand \/ LengthOperand
  <2>1. PICK code \in {-2, -3, -4} : CodedOperand(code)
    BY <1>5 DEF ArrayOperand, LabelOperand, LengthOperand, ArrayCode, LabelCode, LengthCode
  <2>2. pc = "graph"
    BY <1>5 DEF ArrayOperand, LabelOperand, LengthOperand, InOperands, InStatements
  <2>3. RegistersInRange'
    <3>1. code \in Int /\ code < 0
      BY <2>1
    <3>2. regMap' = [regMap EXCEPT ![Operand] = code] /\ colors' = colors
      BY <2>1 DEF CodedOperand
    <3> QED BY <1>2, <3>1, <3>2, CodeInRange
  <2> QED BY <1>1, <1>2, <2>1, <2>2, <2>3
          DEF CodedOperand, RegisterInv, RootColours, RootsDistinct
<1>6. CASE GraphDone
  BY <1>1, <1>2, <1>6 DEF GraphDone, RegisterInv, RegistersInRange, RootColours, RootsDistinct
<1>7. ASSUME NEW p \in pending, IssueRoot(p) PROVE RegisterInv'
  <2>1. /\ pc = "roots" /\ pc' = "roots" /\ p \in Names /\ p \notin issued
        /\ issued' = issued \cup {p} /\ pending' = pending \ {p}
        /\ BindRegister(p, Head(free)) /\ issued \subseteq Names
    BY <1>1, <1>2, <1>7 DEF IssueRoot, RootColours, TypeInv, TypeOK, IssueTypes
  <2>2. free # <<>> => free = <<colors>> /\ Head(free) = colors /\ Tail(free) = <<>>
    <3>1. Head(<<colors>>) = colors /\ Tail(<<colors>>) = <<>>
      OBVIOUS
    <3> QED BY <1>2, <2>1, <3>1 DEF RootColours
  <2>3. /\ colors' >= colors /\ colors' \in Nat /\ RegistersInRange'
        /\ \A w \in Names \ {p} : regMap'[w] = regMap[w]
        /\ is_global_reg(p) < 0 => regMap'[p] \in 5..colors'
        /\ is_global_reg(p) < 0 /\ free = <<>> => regMap'[p] = colors + 1 /\ free' = <<>>
    BY <1>2, <2>1, <2>2, BindInRange
  <2>4. \A v \in issued : regMap'[v] = regMap[v]
    BY <2>1, <2>3
  <2>5. \A v \in issued' : is_global_reg(v) < 0 => regMap'[v] \in 5..colors'
    BY <1>2, <2>1, <2>3, <2>4 DEF RootColours, RegisterTypes
  <2>6. free' # <<>> => free' = <<colors'>> /\ \A v \in issued' : is_global_reg(v) >= 0
    <3>1. CASE is_global_reg(p) >= 0
      <4>1. free' = free /\ colors' = colors
        BY <2>1, <3>1, GlobalRange DEF BindRegister
      <4> QED BY <1>2, <2>1, <3>1, <4>1 DEF RootColours
    <3>2. CASE is_global_reg(p) < 0
      <4>1. free' = <<>>
        BY <2>1, <2>2, <2>3, <3>2, GlobalRange DEF BindRegister
      <4> QED BY <4>1
    <3> QED BY <3>1, <3>2, GlobalRange
  <2>7. RootColours'
    BY <1>2, <2>1, <2>5, <2>6 DEF RootColours
  <2>8. ASSUME NEW v \in issued, is_global_reg(v) < 0, is_global_reg(p) < 0
        PROVE  regMap'[v] # regMap'[p]
    <3>1. free = <<>>
      BY <1>2, <2>1, <2>8, GlobalRange DEF RootColours
    <3>2. regMap[v] \in 5..colors
      BY <1>2, <2>1, <2>8 DEF RootColours
    <3> QED BY <1>2, <2>3, <2>4, <2>8, <3>1, <3>2 DEF RegisterTypes
  <2>9. RootsDistinct'
    BY <1>2, <2>1, <2>4, <2>8 DEF RootsDistinct
  <2> QED BY <1>1, <1>2, <2>3, <2>7, <2>9 DEF RegisterInv, RegisterTypes
<1>8. CASE RootsDone \/ PopPoint \/ VisitSuccessor \/ VisitDone
  BY <1>1, <1>2, <1>8 DEF RootsDone, PopPoint, VisitSuccessor, StepOver, StartIssue, VisitDone,
     RegisterInv, RegistersInRange, RootColours, RootsDistinct
<1>9. CASE ReleaseOperand
  BY <1>1, <1>2, <1>9 DEF ReleaseOperand, RegisterInv, RegistersInRange, RootColours,
     RootsDistinct
<1>10. CASE BindSuccessor
  <2>1. succ \in Names /\ BindRegister(succ, colors) /\ pc' = "visit"
    BY <1>1, <1>10 DEF BindSuccessor, TypeInv, CursorsSet
  <2>2. colors' >= colors /\ colors' \in Nat /\ RegistersInRange'
    BY <1>2, <2>1, BindInRange
  <2> QED BY <1>1, <1>2, <2>1, <2>2
          DEF RegisterInv, RootColours, RootsDistinct, RegisterTypes
<1>11. CASE FinishBlock
  <2>1. UNCHANGED <<free, colors, regMap, issued>> /\ pc' \in {"enter", "hash"}
    BY <1>11 DEF FinishBlock
  <2> QED BY <1>1, <1>2, <2>1
          DEF RegisterInv, RegistersInRange, RootColours, RootsDistinct
<1>12. CASE FillHash
  BY <1>1, <1>2, <1>12 DEF FillHash, RegisterInv, RegistersInRange, RootColours, RootsDistinct
<1>13. CASE UNCHANGED vars
  BY <1>1, <1>2, <1>13 DEF vars, RegisterInv, RegistersInRange, RootColours, RootsDistinct
<1> QED BY <1>3, <1>4, <1>5, <1>6, <1>7, <1>8, <1>9, <1>10, <1>11, <1>12, <1>13
        DEF Next, Finished

\* No variable is ever bound to an uninitialised colour: it has its own register
\* if it is one of global_regs, else one above theirs and in use.
THEOREM RegistersStayInRange == Spec => []RegistersInRange
<1>1. RegisterInv => RegistersInRange
  BY DEF RegisterInv
<1> QED BY RegisterInit, RegisterStep, <1>1, InitUnbound, PTL DEF Spec

\* Whatever the order of the hash table, the local values a block starts from are
\* in different registers.
THEOREM RootsStayDistinct == Spec => []RootsDistinct
<1>1. RegisterInv => RootsDistinct
  BY DEF RegisterInv
<1> QED BY RegisterInit, RegisterStep, <1>1, InitUnbound, PTL DEF Spec

-----------------------------------------------------------------------------
(* The order of a block: what the invariants below speak of.               *)

In(v, s) == \E i \in 1..Len(s) : s[i] = v
NoRepeat(s) == \A i, j \in 1..Len(s) : s[i] = s[j] => i = j

Working == pc \in {"graph", "roots", "queue", "visit", "release"}
Walking == pc \in {"roots", "queue", "visit", "release"}

-----------------------------------------------------------------------------
(* The graph.                                                              *)

\* Operand j of statement i has been looked at.
Looked(i, j) == pc # "graph" \/ i < si \/ (i = si /\ j < oi)

\* A statement that has been looked at reads p for v.
EdgeOf(p, v) ==
    \E i \in 1..Len(Stmts) : \E j \in 1..Len(Stmts[i].ops) :
        /\ Stmts[i].var = v /\ v # NoVar /\ Looked(i, j)
        /\ IsEdge(Stmts[i], j) /\ Stmts[i].ops[j] = p

\* prev_points is what the statements say; next_points may have lost an edge to
\* a replaced point, but has no other.
EdgeFacts ==
    /\ \A p, v \in Names : In(p, prev[v]) <=> EdgeOf(p, v)
    /\ \A p, v \in Names : In(v, next[p]) => In(p, prev[v])
    /\ \A p, v \in Names : In(p, prev[v]) => p \in points /\ v \in points
    /\ points \cap {"0", "1", "n"} = {} /\ IsFiniteSet(points)
Edges == Working /\ SingleDefinition(Stmts) => EdgeFacts

\* A straight-line block loses no edge before its end is issued.
NothingLost ==
    /\ pc = "release" => succ \in issued
    /\ Working /\ StraightLine(Stmts) =>
         \A p, v \in Names : In(p, prev[v]) => v \in issued \/ In(v, next[p])

-----------------------------------------------------------------------------
(* Lists of points.                                                        *)

LEMMA AppendIn ==
  ASSUME NEW T, NEW s \in Seq(T), NEW v \in T
  PROVE  /\ Append(s, v) \in Seq(T) /\ Len(Append(s, v)) = Len(s) + 1 /\ Len(s) \in Nat
         /\ \A i \in 1..Len(s) : Append(s, v)[i] = s[i]
         /\ Append(s, v)[Len(s) + 1] = v
         /\ \A w : In(w, Append(s, v)) <=> In(w, s) \/ w = v
         /\ NoRepeat(s) /\ ~In(v, s) => NoRepeat(Append(s, v))
<1> DEFINE t == Append(s, v)
<1>1. /\ t \in Seq(T) /\ Len(t) = Len(s) + 1 /\ Len(s) \in Nat
      /\ \A i \in 1..Len(s) : t[i] = s[i]
      /\ t[Len(s) + 1] = v
  OBVIOUS
<1> HIDE DEF t
<1>2. \A i \in 1..Len(t) : i \in 1..Len(s) \/ i = Len(s) + 1
  BY <1>1
<1>3. ASSUME NEW w PROVE In(w, t) <=> In(w, s) \/ w = v
  BY <1>1, <1>2 DEF In
<1>4. ASSUME NoRepeat(s), ~In(v, s) PROVE NoRepeat(t)
  <2> SUFFICES ASSUME NEW i \in 1..Len(t), NEW j \in 1..Len(t), t[i] = t[j] PROVE i = j
    BY DEF NoRepeat
  <2>1. CASE i \in 1..Len(s) /\ j \in 1..Len(s)
    BY <2>1, <1>1, <1>4 DEF NoRepeat
  <2>2. CASE i \in 1..Len(s) /\ j = Len(s) + 1
    BY <2>2, <1>1, <1>4 DEF In
  <2>3. CASE j \in 1..Len(s) /\ i = Len(s) + 1
    BY <2>3, <1>1, <1>4 DEF In
  <2> QED BY <2>1, <2>2, <2>3, <1>2
<1> QED BY <1>1, <1>3, <1>4 DEF t

\* What is left of a list when its first v is deleted.
LEMMA DeleteParts ==
  ASSUME NEW T, NEW s \in Seq(T), NEW v, In(v, s)
  PROVE  \E f \in 1..Len(s) :
           /\ s[f] = v
           /\ Len(delete_next_point(s, v)) = Len(s) - 1
           /\ \A i \in 1..(Len(s) - 1) :
                delete_next_point(s, v)[i] = IF i < f THEN s[i] ELSE s[i + 1]
<1> DEFINE f == CHOOSE i \in 1..Len(s) : s[i] = v /\ \A h \in 1..(i - 1) : s[h] # v
<1>1. \E i \in 1..Len(s) : s[i] = v /\ \A h \in 1..(i - 1) : s[h] # v
  BY FirstOccurrence DEF In
<1>2. f \in 1..Len(s) /\ s[f] = v
  BY <1>1, Zenon
<1>3. delete_next_point(s, v) = SubSeq(s, 1, f - 1) \o SubSeq(s, f + 1, Len(s))
  BY DEF delete_next_point, In
<1> HIDE DEF f
<1> DEFINE front == SubSeq(s, 1, f - 1)
<1> DEFINE back == SubSeq(s, f + 1, Len(s))
<1>4. /\ front \in Seq(T) /\ Len(front) = f - 1
      /\ \A i \in 1..(f - 1) : front[i] = s[i]
  BY <1>2, SubSeqProperties
<1>5. /\ back \in Seq(T) /\ Len(back) = Len(s) - f
      /\ \A i \in 1..(Len(s) - f) : back[i] = s[f + i]
  BY <1>2, SubSeqProperties
<1> DEFINE d == delete_next_point(s, v)
<1>6. d = front \o back
  BY <1>3
<1> HIDE DEF front, back, d
<1>7. /\ Len(d) = Len(s) - 1
      /\ \A i \in 1..(Len(s) - 1) : d[i] = IF i < f THEN front[i] ELSE back[i - (f - 1)]
  <2>1. /\ Len(d) = Len(front) + Len(back)
        /\ \A i \in 1..(Len(front) + Len(back)) :
             d[i] = IF i <= Len(front) THEN front[i] ELSE back[i - Len(front)]
    BY <1>4, <1>5, <1>6, ConcatProperties
  <2>2. Len(s) \in Nat /\ f \in Nat /\ (f - 1) + (Len(s) - f) = Len(s) - 1
    BY <1>2
  <2>3. Len(front) + Len(back) = Len(s) - 1 /\ Len(front) = f - 1
    BY <2>2, <1>4, <1>5
  <2>4. \A i \in 1..(Len(s) - 1) : i <= f - 1 <=> i < f
    BY <2>2
  <2> HIDE DEF d
  <2> QED BY <2>1, <2>3, <2>4
<1>8. ASSUME NEW i \in 1..(Len(s) - 1) PROVE d[i] = IF i < f THEN s[i] ELSE s[i + 1]
  <2>1. CASE i < f
    BY <2>1, <1>2, <1>4, <1>7
  <2>2. CASE ~(i < f)
    <3>1. i - (f - 1) \in 1..(Len(s) - f) /\ f + (i - (f - 1)) = i + 1
      BY <2>2, <1>2
    <3> QED BY <2>2, <3>1, <1>5, <1>7
  <2> QED BY <2>1, <2>2
<1> QED BY <1>2, <1>7, <1>8 DEF d

\* Deleting an edge: the others stay, and behind the place of a deleted one
\* the index stays too.
LEMMA DeleteFacts ==
  ASSUME NEW T, NEW s \in Seq(T), NEW v
  PROVE  /\ \A w : In(w, delete_next_point(s, v)) => In(w, s)
         /\ \A w : w # v /\ In(w, s) => In(w, delete_next_point(s, v))
         /\ ~In(v, s) => delete_next_point(s, v) = s
         /\ NoRepeat(s) => /\ NoRepeat(delete_next_point(s, v))
                           /\ ~In(v, delete_next_point(s, v))
         /\ \A n \in 1..Len(s) : \A w : NoRepeat(s) /\ s[n] = v /\ w # v =>
              ((\E i \in n..Len(delete_next_point(s, v)) : delete_next_point(s, v)[i] = w)
                 <=> (\E i \in n..Len(s) : s[i] = w))
<1> DEFINE d == delete_next_point(s, v)
<1>1. CASE ~In(v, s)
  <2>1. d = s
    BY <1>1 DEF delete_next_point, In
  <2>2. \A n \in 1..Len(s) : s[n] # v
    BY <1>1 DEF In
  <2> QED BY <1>1, <2>1, <2>2
<1>2. CASE In(v, s)
  <2>1. PICK f \in 1..Len(s) : /\ s[f] = v /\ Len(d) = Len(s) - 1
                               /\ \A i \in 1..(Len(s) - 1) : d[i] = IF i < f THEN s[i] ELSE s[i + 1]
    BY <1>2, DeleteParts
  <2> HIDE DEF d
  <2>0. Len(s) \in Nat
    OBVIOUS
  <2>2. ASSUME NEW w, In(w, d) PROVE In(w, s)
    <3>1. PICK i \in 1..Len(d) : d[i] = w
      BY <2>2 DEF In
    <3>2. i \in 1..Len(s) /\ i + 1 \in 1..Len(s)
      BY <2>0, <2>1
    <3> QED BY <3>1, <3>2, <2>1, <2>0 DEF In
  <2>3. ASSUME NEW i \in 1..Len(s), i # f
        PROVE  \E h \in 1..Len(d) : d[h] = s[i] /\ (i < f => h = i) /\ (i > f => h = i - 1)
    <3>1. CASE i < f
      <4>1. i \in 1..Len(d)
        BY <3>1, <2>0, <2>1
      <4> QED BY <4>1, <3>1, <2>0, <2>1
    <3>2. CASE i > f
      <4>1. i - 1 \in 1..Len(d) /\ ~(i - 1 < f) /\ (i - 1) + 1 = i
        BY <3>2, <2>0, <2>1
      <4> QED BY <4>1, <3>2, <2>0, <2>1
    <3> QED BY <3>1, <3>2, <2>3, <2>0
  <2>4. ASSUME NEW w, w # v, In(w, s) PROVE In(w, d)
    BY <2>1, <2>3, <2>4 DEF In
  <2>5. ASSUME NoRepeat(s) PROVE NoRepeat(d) /\ ~In(v, d)
    <3> DEFINE at(i) == IF i < f THEN i ELSE i + 1
    <3>1. \A i \in 1..Len(d) : at(i) \in 1..Len(s) /\ d[i] = s[at(i)] /\ at(i) # f
      BY <2>0, <2>1
    <3>2. \A i, j \in 1..Len(d) : at(i) = at(j) => i = j
      BY <2>0, <2>1
    <3> HIDE DEF at
    <3>3. NoRepeat(d)
      BY <3>1, <3>2, <2>5 DEF NoRepeat
    <3>4. ~In(v, d)
      BY <3>1, <2>1, <2>5 DEF In, NoRepeat
    <3> QED BY <3>3, <3>4
  <2>6. ASSUME NEW n \in 1..Len(s), NEW w, NoRepeat(s), s[n] = v, w # v
        PROVE  (\E i \in n..Len(d) : d[i] = w) <=> (\E i \in n..Len(s) : s[i] = w)
    <3>1. n = f
      BY <2>1, <2>6 DEF NoRepeat
    <3>2. ASSUME NEW i \in n..Len(d), d[i] = w PROVE \E h \in n..Len(s) : s[h] = w
      <4>1. i + 1 \in n..Len(s) /\ ~(i < f) /\ i \in 1..(Len(s) - 1)
        BY <3>1, <2>0, <2>1
      <4> QED BY <4>1, <3>2, <2>1
    <3>3. ASSUME NEW i \in n..Len(s), s[i] = w PROVE \E h \in n..Len(d) : d[h] = w
      <4>1. i # f /\ i \in 1..Len(s)
        BY <3>3, <2>1, <2>6
      <4>2. i - 1 \in n..Len(d) /\ ~(i - 1 < f) /\ (i - 1) + 1 = i /\ i - 1 \in 1..(Len(s) - 1)
        BY <4>1, <3>1, <2>0, <2>1
      <4> QED BY <4>2, <3>3, <2>1
    <3> QED BY <3>2, <3>3
  <2>7. \A n \in 1..Len(s) : \A w : NoRepeat(s) /\ s[n] = v /\ w # v =>
              ((\E i \in n..Len(d) : d[i] = w) <=> (\E i \in n..Len(s) : s[i] = w))
    BY <2>6
  <2> QED BY <1>2, <2>2, <2>4, <2>5, <2>7 DEF d
<1> QED BY <1>1, <1>2

-----------------------------------------------------------------------------
(* The graph says what the statements say.                                 *)

\* The cursors do not leave the statement they are at.
LEMMA AtOperand ==
  ASSUME TypeInv, InOperands
  PROVE  /\ pc = "graph" /\ si \in 1..Len(Stmts) /\ oi \in 1..Len(S.ops)
         /\ S = Stmts[si] /\ S.var # NoVar /\ S.var \in points /\ S.var \in Names
         /\ Operand = S.ops[oi] /\ Operand \in Names
         /\ IsEdge(S, oi) <=> ~IsArray /\ ~IsLabel /\ Operand \notin {"0", "1", "n"}
<1> USE DEF TypeInv, TypeOK
<1>1. si \in 1..Len(Stmts) /\ oi \in Nat /\ pc = "graph"
  BY StatementTypes DEF InOperands, InStatements, ControlTypes
<1>2. Stmts[si].ops \in Seq(Names)
  BY <1>1, StatementTypes
<1>3. oi \in 1..Len(S.ops)
  BY <1>1, <1>2 DEF InOperands, S
<1>4. Operand \in Names
  BY <1>2, <1>3 DEF Operand, S
<1>5. S.var # NoVar /\ S.var \in points
  BY <1>1, <1>3 DEF VarsHavePoints
<1> QED BY <1>1, <1>3, <1>4, <1>5 DEF GraphTypes, S, Operand, IsEdge, IsArray, IsLabel

\* A step that leaves the points, their operands and what has been looked at alone,
\* and adds no successor, leaves the graph as the statements say.
LEMMA EdgesFrame ==
  ASSUME Edges, Working, Stmts' = Stmts, points' = points, prev' = prev,
         \A p, v \in Names : In(v, next'[p]) => In(v, next[p]),
         \A i \in 1..Len(Stmts) : \A j \in 1..Len(Stmts[i].ops) :
             Stmts[i].var # NoVar /\ IsEdge(Stmts[i], j) => (Looked(i, j)' <=> Looked(i, j))
  PROVE  Edges'
<1> SUFFICES ASSUME SingleDefinition(Stmts) PROVE EdgeFacts'
  BY DEF Edges
<1>1. EdgeFacts
  BY DEF Edges
<1>2. \A p, v \in Names : EdgeOf(p, v)' <=> EdgeOf(p, v)
  BY DEF EdgeOf
<1> QED BY <1>1, <1>2 DEF EdgeFacts

LEMMA EdgesInit == Unbound => Edges
BY DEF Unbound, NothingBound, Edges, Working

LEMMA EdgesStep == TypeInv /\ Edges /\ [Next]_vars => Edges'
<1> SUFFICES ASSUME TypeInv, Edges, [Next]_vars PROVE Edges'
  OBVIOUS
<1> USE DEF graph, issue, cursor, regs, result
<1>1. /\ Len(Stmts) \in Nat /\ si \in Nat \ {0} /\ oi \in Nat
      /\ next \in [Names -> Seq(Names)] /\ prev \in [Names -> Seq(Names)]
      /\ \A i \in 1..Len(Stmts) : Stmts[i].var \in Names \cup {NoVar} /\ Len(Stmts[i].ops) \in Nat
      /\ points \subseteq Names
  BY StatementTypes DEF TypeInv, TypeOK, ControlTypes, GraphTypes
<1>2. CASE EnterBlock
  <2> SUFFICES ASSUME SingleDefinition(Stmts') PROVE EdgeFacts'
    BY DEF Edges
  <2>1. /\ pc' = "graph" /\ si' = 1 /\ oi' = 0 /\ points' = {}
        /\ \A v \in Names : next'[v] = <<>> /\ prev'[v] = <<>>
    BY <1>2 DEF EnterBlock, NoEdges
  <2>2. \A i \in Nat \ {0} : \A j \in Nat : ~Looked(i, j)'
    BY <2>1 DEF Looked
  <2>3. Stmts' = Stmts /\ IsFiniteSet(points')
    BY <1>2, <2>1, FS_EmptySet DEF EnterBlock, Stmts
  <2>4. \A i \in 1..Len(Stmts) : \A j \in 1..Len(Stmts[i].ops) : ~Looked(i, j)'
    BY <1>1, <2>2
  <2>5. \A p, v : ~EdgeOf(p, v)'
    BY <2>3, <2>4 DEF EdgeOf
  <2>6. \A p, v \in Names : ~In(p, prev'[v]) /\ ~In(v, next'[p])
    BY <2>1 DEF In
  <2> QED BY <2>1, <2>3, <2>5, <2>6 DEF EdgeFacts
<1>3. CASE SkipStatement
  <2>1. /\ pc = "graph" /\ pc' = "graph" /\ oi = 0 /\ oi' = 0 /\ si' = si + 1
        /\ Stmts[si].var = NoVar
        /\ UNCHANGED <<points, prev, next, Stmts>>
    BY <1>3 DEF SkipStatement, InStatements, Stmts, S
  <2>2. ASSUME NEW i \in 1..Len(Stmts), NEW j \in 1..Len(Stmts[i].ops), Stmts[i].var # NoVar
        PROVE  Looked(i, j)' <=> Looked(i, j)
    BY <1>1, <2>1, <2>2 DEF Looked
  <2> QED BY <2>1, <2>2, EdgesFrame DEF Working
<1>4. CASE NewPoint
  <2> DEFINE v == S.var
  <2>1. /\ pc = "graph" /\ pc' = "graph" /\ si \in 1..Len(Stmts) /\ oi = 0 /\ oi' = 1 /\ si' = si
        /\ v # NoVar /\ v = Stmts[si].var /\ v \in Names
        /\ points' = points \cup {v} /\ Stmts' = Stmts
        /\ next' = [next EXCEPT ![v] = <<>>] /\ prev' = [prev EXCEPT ![v] = <<>>]
    <3>1. pc = "graph" /\ si \in 1..Len(Stmts)
      BY <1>1, <1>4 DEF NewPoint, InStatements
    <3> QED BY <3>1, <1>1, <1>4 DEF NewPoint, Stmts, S
  <2> SUFFICES ASSUME SingleDefinition(Stmts) PROVE EdgeFacts'
    BY <2>1 DEF Edges
  <2> HIDE DEF v
  <2>2. EdgeFacts
    BY <2>1 DEF Edges, Working
  <2>3. \A i \in 1..Len(Stmts) : Stmts[i].var = v => i = si
    BY <1>1, <2>1 DEF SingleDefinition
  <2>4. \A i \in 1..Len(Stmts) : \A j \in 1..Len(Stmts[i].ops) :
          (i = si => ~Looked(i, j) /\ ~Looked(i, j)') /\ (i # si => (Looked(i, j)' <=> Looked(i, j)))
    BY <1>1, <2>1 DEF Looked
  <2>5. \A p, w \in Names : w # v => (EdgeOf(p, w)' <=> EdgeOf(p, w))
    BY <2>1, <2>3, <2>4 DEF EdgeOf
  <2>6. \A p, w : w = v => ~EdgeOf(p, w) /\ ~EdgeOf(p, w)'
    BY <2>1, <2>3, <2>4 DEF EdgeOf
  <2>7. \A w \in Names : w # v => next'[w] = next[w] /\ prev'[w] = prev[w]
    BY <1>1, <2>1
  <2>8. \A p : ~In(p, next'[v]) /\ ~In(p, prev'[v])
    BY <1>1, <2>1 DEF In
  <2>9. \A p, w \in Names : In(p, prev'[w]) <=> EdgeOf(p, w)'
    BY <2>2, <2>5, <2>6, <2>7, <2>8 DEF EdgeFacts
  <2>10. ASSUME NEW p \in Names, NEW w \in Names, In(w, next'[p]) PROVE In(p, prev'[w])
    <3>1. p # v /\ In(w, next[p])
      BY <2>7, <2>8, <2>10
    <3>2. In(p, prev[w])
      BY <3>1, <2>2 DEF EdgeFacts
    <3>3. w # v
      BY <3>2, <2>1, <2>2, <2>6 DEF EdgeFacts
    <3> QED BY <3>2, <3>3, <2>7
  <2>11. \A p, w \in Names : In(p, prev'[w]) => p \in points' /\ w \in points'
    BY <2>1, <2>2, <2>7, <2>8 DEF EdgeFacts
  <2>12. points' \cap {"0", "1", "n"} = {} /\ IsFiniteSet(points')
    BY <2>1, <2>2, FS_AddElement DEF EdgeFacts, SingleDefinition
  <2> QED BY <2>9, <2>10, <2>11, <2>12 DEF EdgeFacts
<1>5. CASE ArrayOperand \/ LabelOperand \/ LengthOperand \/ LiteralOperand
  <2>1. /\ InOperands /\ pc' = pc /\ si' = si /\ oi' = oi + 1
        /\ UNCHANGED <<points, prev, next, Stmts>>
        /\ IsArray \/ IsLabel \/ Operand \in {"0", "1", "n"}
    BY <1>5 DEF ArrayOperand, LabelOperand, LengthOperand, LiteralOperand, CodedOperand, Stmts
  <2>2. /\ pc = "graph" /\ si \in 1..Len(Stmts) /\ ~IsEdge(Stmts[si], oi)
    BY <2>1, AtOperand
  <2>3. ASSUME NEW i \in 1..Len(Stmts), NEW j \in 1..Len(Stmts[i].ops), IsEdge(Stmts[i], j)
        PROVE  Looked(i, j)' <=> Looked(i, j)
    <3>1. ~(i = si /\ j = oi)
      BY <2>2, <2>3
    <3> QED BY <3>1, <1>1, <2>1, <2>2 DEF Looked
  <2> QED BY <2>1, <2>2, <2>3, EdgesFrame DEF Working
<1>6. CASE ValueOperand
  <2> DEFINE v == S.var
  <2> DEFINE o == Operand
  <2>1. /\ InOperands /\ pc' = pc /\ si' = si /\ oi' = oi + 1 /\ Stmts' = Stmts
        /\ ~IsArray /\ ~IsLabel /\ (o \in points \/ o \notin {"0", "1", "n"})
        /\ points' = points \cup {o}
        /\ next' = [next EXCEPT ![o] = Append(next[o], v)]
        /\ prev' = [prev EXCEPT ![v] = Append(prev[v], o)]
    BY <1>6 DEF ValueOperand, Stmts
  <2>2. /\ pc = "graph" /\ si \in 1..Len(Stmts) /\ oi \in 1..Len(Stmts[si].ops)
        /\ v = Stmts[si].var /\ v # NoVar /\ v \in points /\ v \in Names
        /\ o = Stmts[si].ops[oi] /\ o \in Names
        /\ IsEdge(Stmts[si], oi) <=> ~IsArray /\ ~IsLabel /\ o \notin {"0", "1", "n"}
    BY <2>1, AtOperand
  <2> SUFFICES ASSUME SingleDefinition(Stmts) PROVE EdgeFacts'
    BY <2>1 DEF Edges
  <2> HIDE DEF v, o
  <2>3. EdgeFacts
    BY <2>2 DEF Edges, Working
  <2>4. o \notin {"0", "1", "n"} /\ IsEdge(Stmts[si], oi)
    BY <2>1, <2>2, <2>3 DEF EdgeFacts
  <2>5. \A i \in 1..Len(Stmts) : \A j \in 1..Len(Stmts[i].ops) :
          Looked(i, j)' <=> Looked(i, j) \/ (i = si /\ j = oi)
    BY <1>1, <2>1, <2>2 DEF Looked
  <2>6. ASSUME NEW p \in Names, NEW w \in Names
        PROVE  EdgeOf(p, w)' <=> EdgeOf(p, w) \/ (w = v /\ p = o)
    BY <2>1, <2>2, <2>4, <2>5 DEF EdgeOf
  <2>7. ASSUME NEW p \in Names, NEW w \in Names
        PROVE  /\ In(p, prev'[w]) <=> In(p, prev[w]) \/ (w = v /\ p = o)
               /\ In(w, next'[p]) <=> In(w, next[p]) \/ (w = v /\ p = o)
    <3>1. /\ In(p, Append(prev[v], o)) <=> In(p, prev[v]) \/ p = o
          /\ In(w, Append(next[o], v)) <=> In(w, next[o]) \/ w = v
      BY <1>1, <2>2, AppendIn
    <3>2. /\ prev'[w] = IF w = v THEN Append(prev[v], o) ELSE prev[w]
          /\ next'[p] = IF p = o THEN Append(next[o], v) ELSE next[p]
      BY <1>1, <2>1
    <3> QED BY <3>1, <3>2
  <2>8. /\ \A p, w \in Names : In(p, prev'[w]) <=> EdgeOf(p, w)'
        /\ \A p, w \in Names : In(w, next'[p]) => In(p, prev'[w])
        /\ \A p, w \in Names : In(p, prev'[w]) => p \in points' /\ w \in points'
    BY <2>1, <2>2, <2>3, <2>6, <2>7 DEF EdgeFacts
  <2>9. points' \cap {"0", "1", "n"} = {} /\ IsFiniteSet(points')
    BY <2>1, <2>3, <2>4, FS_AddElement DEF EdgeFacts
  <2> QED BY <2>8, <2>9 DEF EdgeFacts
<1>7. CASE NextStatement
  <2>1. /\ pc = "graph" /\ pc' = "graph" /\ oi > Len(Stmts[si].ops) /\ oi' = 0 /\ si' = si + 1
        /\ UNCHANGED <<points, prev, next, Stmts>>
    BY <1>7 DEF NextStatement, InStatements, Stmts, S
  <2>2. ASSUME NEW i \in 1..Len(Stmts), NEW j \in 1..Len(Stmts[i].ops)
        PROVE  Looked(i, j)' <=> Looked(i, j)
    BY <1>1, <2>1 DEF Looked
  <2> QED BY <2>1, <2>2, EdgesFrame DEF Working
<1>8. CASE GraphDone
  <2>1. /\ pc = "graph" /\ pc' = "roots" /\ si > Len(Stmts)
        /\ UNCHANGED <<points, prev, next, Stmts>>
    BY <1>8 DEF GraphDone, Stmts
  <2>2. ASSUME NEW i \in 1..Len(Stmts), NEW j \in 1..Len(Stmts[i].ops)
        PROVE  Looked(i, j)' <=> Looked(i, j)
    BY <1>1, <2>1 DEF Looked
  <2> QED BY <2>1, <2>2, EdgesFrame DEF Working
<1>9. CASE (\E p \in pending : IssueRoot(p)) \/ RootsDone \/ PopPoint \/ VisitSuccessor
           \/ VisitDone \/ ReleaseOperand \/ BindSuccessor
  <2>1. /\ pc \in {"roots", "queue", "visit", "release"}
        /\ pc' \in {"roots", "queue", "visit", "release"}
        /\ UNCHANGED <<points, prev, Stmts>>
    BY <1>9 DEF IssueRoot, RootsDone, PopPoint, VisitSuccessor, VisitDone, ReleaseOperand,
         BindSuccessor, StepOver, StartIssue, Stmts
  <2>2. next' = next \/ ReleaseOperand
    BY <1>9 DEF IssueRoot, RootsDone, PopPoint, VisitSuccessor, VisitDone, BindSuccessor
  <2>3. ASSUME NEW p \in Names, NEW v \in Names, In(v, next'[p]) PROVE In(v, next[p])
    <3>1. CASE next' = next
      BY <3>1, <2>3
    <3>2. CASE ReleaseOperand
      <4>1. next' = [next EXCEPT ![prev[succ][r]] = delete_next_point(@, succ)]
        BY <3>2 DEF ReleaseOperand
      <4>2. next'[p] = next[p] \/ next'[p] = delete_next_point(next[p], succ)
        BY <4>1, <1>1
      <4>3. In(v, delete_next_point(next[p], succ)) => In(v, next[p])
        BY <1>1, DeleteFacts
      <4> QED BY <4>2, <4>3, <2>3
    <3> QED BY <3>1, <3>2, <2>2
  <2>4. ASSUME NEW i \in 1..Len(Stmts), NEW j \in 1..Len(Stmts[i].ops)
        PROVE  Looked(i, j)' <=> Looked(i, j)
    BY <2>1 DEF Looked
  <2> QED BY <2>1, <2>3, <2>4, EdgesFrame DEF Working
<1>10. CASE FinishBlock \/ FillHash
  BY <1>10 DEF FinishBlock, FillHash, Edges, Working
<1>11. CASE UNCHANGED vars
  <2>1. UNCHANGED <<pc, si, oi, points, prev, next, Stmts>>
    BY <1>11 DEF vars, Stmts
  <2>2. ASSUME NEW i \in 1..Len(Stmts), NEW j \in 1..Len(Stmts[i].ops)
        PROVE  Looked(i, j)' <=> Looked(i, j)
    BY <2>1 DEF Looked
  <2>3. CASE Working
    BY <2>1, <2>2, <2>3, EdgesFrame
  <2>4. CASE ~Working
    BY <2>1, <2>4 DEF Edges, Working
  <2> QED BY <2>3, <2>4
<1> QED BY <1>2, <1>3, <1>4, <1>5, <1>6, <1>7, <1>8, <1>9, <1>10, <1>11 DEF Next, Finished

\* After the graph is built, prev_points are the operands of the statement.
LEMMA PrevOperands ==
  ASSUME TypeInv, Edges, Walking, SingleDefinition(Stmts),
         NEW i \in 1..Len(Stmts), Stmts[i].var # NoVar
  PROVE  /\ Stmts[i].var \in Names
         /\ \A p : In(p, prev[Stmts[i].var]) <=> p \in EdgeOperands(Stmts[i])
<1>1. /\ Stmts[i].var \in Names /\ Stmts[i].ops \in Seq(Names)
      /\ Stmts \in Seq(Statement) /\ Len(Stmts) \in Nat
      /\ prev \in [Names -> Seq(Names)]
  BY StatementTypes DEF TypeInv, TypeOK, GraphTypes
<1>2. EdgeFacts /\ \A h, j : Looked(h, j)
  BY DEF Edges, Working, Walking, Looked
<1>3. \A h \in 1..Len(Stmts) : Stmts[h].var = Stmts[i].var => h = i
  BY <1>1 DEF SingleDefinition
<1>4. \A p : EdgeOf(p, Stmts[i].var) <=> p \in EdgeOperands(Stmts[i])
  BY <1>2, <1>3 DEF EdgeOf, EdgeOperands
<1>5. \A p : In(p, prev[Stmts[i].var]) \/ p \in EdgeOperands(Stmts[i]) => p \in Names
  BY <1>1 DEF In, EdgeOperands
<1> QED BY <1>1, <1>2, <1>4, <1>5 DEF EdgeFacts

LEMMA NothingLostStep == RegisterInv /\ Edges /\ NothingLost /\ [Next]_vars => NothingLost'
<1> SUFFICES ASSUME RegisterInv, Edges, NothingLost, [Next]_vars PROVE NothingLost'
  OBVIOUS
<1> USE DEF graph, issue, cursor, regs, result
<1>1. /\ TypeInv /\ next \in [Names -> Seq(Names)] /\ prev \in [Names -> Seq(Names)]
      /\ Len(Stmts) \in Nat /\ si \in Nat \ {0} /\ oi \in Nat
      /\ pc = "graph" => issued = {}
      /\ \A i \in 1..Len(Stmts) : Stmts[i].var \in Names \cup {NoVar}
  BY StatementTypes DEF RegisterInv, TypeInv, TypeOK, ControlTypes, GraphTypes, RootColours
<1>2. CASE EnterBlock
  BY <1>2 DEF EnterBlock, NothingLost, NoEdges, In
<1>3. CASE NewPoint
  <2> DEFINE v == S.var
  <2>1. /\ pc = "graph" /\ pc' = "graph" /\ si \in 1..Len(Stmts) /\ oi = 0
        /\ v # NoVar /\ v = Stmts[si].var /\ v \in Names
        /\ Stmts' = Stmts /\ issued' = issued
        /\ next' = [next EXCEPT ![v] = <<>>] /\ prev' = [prev EXCEPT ![v] = <<>>]
    <3>1. pc = "graph" /\ si \in 1..Len(Stmts)
      BY <1>1, <1>3 DEF NewPoint, InStatements
    <3> QED BY <3>1, <1>1, <1>3 DEF NewPoint, Stmts, S
  <2> HIDE DEF v
  <2> SUFFICES ASSUME StraightLine(Stmts), NEW p \in Names, NEW w \in Names, In(p, prev'[w])
               PROVE  In(w, next'[p])
    BY <2>1 DEF NothingLost
  <2>2. w # v /\ In(p, prev[w])
    BY <1>1, <2>1 DEF In
  <2>3. In(w, next[p])
    BY <1>1, <2>1, <2>2 DEF NothingLost, Working
  <2>4. EdgeOf(p, w)
    BY <2>1, <2>2 DEF Edges, EdgeFacts, Working, StraightLine
  <2>5. p # v
    <3>1. PICK i \in 1..Len(Stmts) : \E j \in 1..Len(Stmts[i].ops) :
            Looked(i, j) /\ IsEdge(Stmts[i], j) /\ Stmts[i].ops[j] = p
      BY <2>4 DEF EdgeOf
    <3>2. i <= si
      BY <3>1, <1>1, <2>1 DEF Looked
    <3>3. p \in EdgeOperands(Stmts[i])
      BY <3>1 DEF EdgeOperands
    <3> QED BY <3>2, <3>3, <2>1 DEF StraightLine
  <2> QED BY <1>1, <2>1, <2>3, <2>5
<1>4. CASE ValueOperand
  <2> DEFINE v == S.var
  <2> DEFINE o == Operand
  <2>1. /\ pc = "graph" /\ pc' = pc /\ Stmts' = Stmts /\ issued' = issued
        /\ v \in Names /\ o \in Names
        /\ next' = [next EXCEPT ![o] = Append(next[o], v)]
        /\ prev' = [prev EXCEPT ![v] = Append(prev[v], o)]
    BY <1>1, <1>4, AtOperand DEF ValueOperand, Stmts
  <2> HIDE DEF v, o
  <2> SUFFICES ASSUME StraightLine(Stmts), NEW p \in Names, NEW w \in Names, In(p, prev'[w])
               PROVE  In(w, next'[p])
    BY <2>1 DEF NothingLost
  <2>2. /\ In(p, Append(prev[v], o)) <=> In(p, prev[v]) \/ p = o
        /\ In(w, Append(next[o], v)) <=> In(w, next[o]) \/ w = v
    BY <1>1, <2>1, AppendIn
  <2>3. /\ prev'[w] = IF w = v THEN Append(prev[v], o) ELSE prev[w]
        /\ next'[p] = IF p = o THEN Append(next[o], v) ELSE next[p]
    BY <1>1, <2>1
  <2> QED BY <1>1, <2>1, <2>2, <2>3 DEF NothingLost, Working
<1>5. CASE \/ SkipStatement \/ ArrayOperand \/ LabelOperand \/ LengthOperand \/ LiteralOperand
           \/ NextStatement \/ GraphDone \/ (\E p \in pending : IssueRoot(p)) \/ RootsDone
           \/ PopPoint \/ VisitDone \/ BindSuccessor
  <2>1. /\ UNCHANGED <<next, prev, Stmts, succ>> /\ issued \subseteq issued'
        /\ Working /\ pc' # "release"
    BY <1>5 DEF SkipStatement, ArrayOperand, LabelOperand, LengthOperand, LiteralOperand,
         CodedOperand, NextStatement, GraphDone, IssueRoot, RootsDone, PopPoint, VisitDone,
         BindSuccessor, InStatements, InOperands, Working, Stmts
  <2> QED BY <2>1 DEF NothingLost
<1>6. CASE VisitSuccessor
  <2>1. /\ UNCHANGED <<next, prev, Stmts>> /\ issued \subseteq issued'
        /\ Working /\ (pc' = "release" => succ' \in issued')
    BY <1>6 DEF VisitSuccessor, StepOver, StartIssue, Working, Stmts
  <2> QED BY <2>1 DEF NothingLost
<1>7. CASE ReleaseOperand
  <2>1. /\ UNCHANGED <<prev, Stmts, issued, succ>> /\ pc = "release"
        /\ next' = [next EXCEPT ![prev[succ][r]] = delete_next_point(@, succ)]
    BY <1>7 DEF ReleaseOperand, Stmts
  <2>2. ASSUME NEW p \in Names, NEW w \in Names, w # succ, In(w, next[p]) PROVE In(w, next'[p])
    <3>1. next'[p] = next[p] \/ next'[p] = delete_next_point(next[p], succ)
      BY <1>1, <2>1
    <3>2. In(w, delete_next_point(next[p], succ))
      BY <1>1, <2>2, DeleteFacts
    <3> QED BY <3>1, <3>2, <2>2
  <2> QED BY <2>1, <2>2 DEF NothingLost, Working
<1>8. CASE FinishBlock \/ FillHash
  BY <1>8 DEF FinishBlock, FillHash, NothingLost, Working
<1>9. CASE UNCHANGED vars
  <2>1. UNCHANGED <<pc, next, prev, issued, succ, Stmts>>
    BY <1>9 DEF vars, Stmts
  <2> QED BY <2>1 DEF NothingLost, Working
<1> QED BY <1>2, <1>3, <1>4, <1>5, <1>6, <1>7, <1>8, <1>9 DEF Next, Finished

\* A colour that the pass frees belongs to a variable of which all the operations
\* that read it have been issued.
LEMMA ReleaseAfterUses ==
  ASSUME TypeInv, Edges, NothingLost, [Next]_vars,
         pc = "release", pc' = pc, free' # free, StraightLine(Stmts),
         NEW i \in 1..Len(Stmts), Stmts[i].var # NoVar,
         prev[succ][r] \in EdgeOperands(Stmts[i])
  PROVE  Stmts[i].var \in issued
<1> DEFINE v == Stmts[i].var
<1> DEFINE m == prev[succ][r]
<1>1. /\ next \in [Names -> Seq(Names)] /\ v \in Names /\ m \in Names /\ In(m, prev[v])
  <2>1. v \in Names /\ In(m, prev[v])
    BY PrevOperands DEF Walking, StraightLine
  <2>2. next \in [Names -> Seq(Names)] /\ prev[v] \in Seq(Names)
    BY <2>1 DEF TypeInv, TypeOK, GraphTypes
  <2> HIDE DEF v, m
  <2>3. m \in Names
    BY <2>1, <2>2 DEF In
  <2> QED BY <2>1, <2>2, <2>3
<1>2. ReleaseOperand
  BY DEF Next, vars, EnterBlock, SkipStatement, NewPoint, ArrayOperand, LabelOperand,
     LengthOperand, LiteralOperand, CodedOperand, ValueOperand, InStatements, InOperands,
     NextStatement, GraphDone, IssueRoot, RootsDone, PopPoint, VisitSuccessor, VisitDone,
     BindSuccessor, FinishBlock, FillHash, Finished, regs
<1>3. next' = [next EXCEPT ![m] = delete_next_point(next[m], succ)] /\ next'[m] = <<>>
  BY <1>2 DEF ReleaseOperand
<1>4. delete_next_point(next[m], succ) = <<>>
  BY <1>1, <1>3
<1>5. v = succ \/ ~In(v, next[m])
  <2>1. v # succ /\ In(v, next[m]) => In(v, delete_next_point(next[m], succ))
    BY <1>1, DeleteFacts
  <2>2. ~In(v, <<>>)
    BY DEF In
  <2> QED BY <2>1, <2>2, <1>4
<1> QED BY <1>1, <1>5 DEF NothingLost, Working

-----------------------------------------------------------------------------
(* The queue, and the edges still to be walked over.                       *)

\* p has been taken from the queue.
Popped(p) == p \in issued /\ ~In(p, q) /\ ~(pc = "release" /\ p = succ)

\* The i-th edge of p is still to be walked over.
Coming(p, i) ==
    /\ i \in 1..Len(next[p])
    /\ IF p = cur /\ pc \in {"visit", "release"} THEN i >= k ELSE ~Popped(p)

\* A point is in the queue once, after it has been issued, and in_num of an issued
\* point has come down to 0 or below.
QueueFacts ==
    /\ issued \subseteq points
    /\ NoRepeat(q) /\ \A i \in 1..Len(q) : q[i] \in issued
    /\ pc \in {"visit", "release"} => cur \in issued /\ ~In(cur, q)
    /\ pc = "release" => succ \in issued /\ ~In(succ, q) /\ cur # succ
    /\ pc \in {"graph", "roots"} => \A v \in issued : In(v, q)
    /\ \A v \in issued : inNum[v] <= 0
    /\ pc = "roots" => \A p \in pending : p \in points \ issued /\ inNum[p] = 0

-----------------------------------------------------------------------------
(* in_num and the edges to come.                                           *)

\* What keeps v from being issued: the edges into it that are to come and, as
\* number 0, an operand whose edge to v is lost.
Owed(v) ==
    {e \in Names \X Nat :
       IF e[2] = 0 THEN In(e[1], prev[v]) /\ ~In(v, next[e[1]])
                   ELSE Coming(e[1], e[2]) /\ next[e[1]][e[2]] = v}

\* in_num never counts less than is owed.  It may count more: an edge that moves
\* under the walk's index is not walked over.
OwedFacts ==
    \A v \in Names \ issued : IsFiniteSet(Owed(v)) /\ Cardinality(Owed(v)) <= inNum[v]
Owing == Working /\ SingleDefinition(Stmts) => QueueFacts /\ OwedFacts

-----------------------------------------------------------------------------
(* The queue.                                                              *)

LEMMA WalkTypes ==
  ASSUME RegisterInv
  PROVE  /\ TypeInv /\ next \in [Names -> Seq(Names)] /\ prev \in [Names -> Seq(Names)]
         /\ inNum \in [Names -> Int] /\ q \in Seq(Names) /\ Len(q) \in Nat
         /\ points \subseteq Names /\ issued \subseteq Names
         /\ k \in Nat \ {0} /\ r \in Nat \ {0}
         /\ pc = "graph" => issued = {}
         /\ pc \in {"visit", "release"} => cur \in Names
         /\ pc = "release" => succ \in Names
         /\ pc = "roots" => issued \cap pending = {}
BY DEF RegisterInv, TypeInv, TypeOK, GraphTypes, IssueTypes, CursorsSet, RootColours

LEMMA ComingType ==
  ASSUME RegisterInv, NEW p \in Names, NEW i, Coming(p, i)
  PROVE  i \in Nat /\ i # 0 /\ next[p][i] \in Names /\ In(next[p][i], next[p])
<1>1. i \in 1..Len(next[p]) /\ next[p] \in Seq(Names)
  BY WalkTypes DEF Coming
<1> QED BY <1>1 DEF In

\* While the graph is built and its roots are issued, every edge is to come.
LEMMA AllComing ==
  ASSUME QueueFacts, pc \in {"graph", "roots"}, NEW p, NEW i
  PROVE  Coming(p, i) <=> i \in 1..Len(next[p])
BY DEF QueueFacts, Popped, Coming

\* Adding an issued point to the queue.
LEMMA QueueAppend ==
  ASSUME NEW x \in Names, NEW T \in SUBSET Names, q \in Seq(Names), NoRepeat(q), ~In(x, q),
         \A i \in 1..Len(q) : q[i] \in T, x \in T, q' = Append(q, x)
  PROVE  /\ NoRepeat(q') /\ \A i \in 1..Len(q') : q'[i] \in T
         /\ \A w : In(w, q') <=> In(w, q) \/ w = x
<1>1. /\ Len(q') = Len(q) + 1 /\ Len(q) \in Nat
      /\ \A i \in 1..Len(q) : q'[i] = q[i]
      /\ q'[Len(q) + 1] = x
      /\ \A w : In(w, q') <=> In(w, q) \/ w = x
      /\ NoRepeat(q')
  BY AppendIn
<1>2. \A i \in 1..Len(q') : i \in 1..Len(q) \/ i = Len(q) + 1
  BY <1>1
<1> QED BY <1>1, <1>2

\* Taking its head.
LEMMA QueuePop ==
  ASSUME q \in Seq(Names), q # <<>>, q' = Tail(q), cur' = Head(q), NoRepeat(q)
  PROVE  /\ NoRepeat(q') /\ ~In(cur', q') /\ In(cur', q)
         /\ \A w : w # cur' => (In(w, q') <=> In(w, q))
         /\ \A i \in 1..Len(q') : In(q'[i], q)
<1>1. /\ Len(q) \in Nat \ {0} /\ cur' = q[1] /\ Len(q') = Len(q) - 1
      /\ \A i \in 1..(Len(q) - 1) : q'[i] = q[i + 1]
  BY HeadTailProperties
<1>2. \A i \in 1..Len(q') : i + 1 \in 1..Len(q) /\ i + 1 # 1 /\ q'[i] = q[i + 1]
  BY <1>1
<1>3. \A i \in 1..Len(q) : i # 1 => i - 1 \in 1..Len(q') /\ q'[i - 1] = q[i]
  <2> SUFFICES ASSUME NEW i \in 1..Len(q), i # 1 PROVE i - 1 \in 1..Len(q') /\ q'[i - 1] = q[i]
    OBVIOUS
  <2>1. i - 1 \in 1..(Len(q) - 1) /\ (i - 1) + 1 = i
    BY <1>1
  <2> QED BY <1>1, <2>1
<1>4. \A i \in 1..Len(q') : q'[i] # cur'
  BY <1>1, <1>2 DEF NoRepeat
<1>5. ASSUME NEW i \in 1..Len(q'), NEW j \in 1..Len(q'), q'[i] = q'[j] PROVE i = j
  <2>1. i + 1 = j + 1
    BY <1>2, <1>5 DEF NoRepeat
  <2> QED BY <2>1
<1>6. \A w : w # cur' => (In(w, q') <=> In(w, q))
  BY <1>1, <1>2, <1>3 DEF In
<1> QED BY <1>1, <1>2, <1>4, <1>5, <1>6 DEF In, NoRepeat

\* The successor visited while it has in_num 1 has not been issued yet.
LEMMA VisitTypes ==
  ASSUME RegisterInv, EdgeFacts, QueueFacts, pc = "visit", k <= Len(next[cur])
  PROVE  LET n == next[cur][k] IN
         /\ cur \in Names /\ n \in Names /\ n \in points /\ cur \in issued
         /\ In(n, next[cur]) /\ In(cur, prev[n])
         /\ k \in 1..Len(next[cur]) /\ Len(next[cur]) \in Nat /\ Coming(cur, k)
         /\ inNum[n] > 0 => n \notin issued
<1> DEFINE n == next[cur][k]
<1>1. cur \in Names /\ k \in Nat \ {0} /\ next \in [Names -> Seq(Names)] /\ inNum \in [Names -> Int]
  BY WalkTypes
<1>2. k \in 1..Len(next[cur]) /\ Len(next[cur]) \in Nat /\ n \in Names
  BY <1>1
<1> HIDE DEF n
<1>3. In(n, next[cur])
  BY <1>2 DEF In, n
<1>4. In(cur, prev[n]) /\ n \in points /\ cur \in issued
  BY <1>1, <1>2, <1>3 DEF EdgeFacts, QueueFacts
<1>5. inNum[n] > 0 => n \notin issued
  <2>1. inNum[n] \in Int
    BY <1>1, <1>2
  <2> QED BY <2>1 DEF QueueFacts
<1>6. Coming(cur, k)
  BY <1>1, <1>2 DEF Coming
<1> QED BY <1>1, <1>2, <1>3, <1>4, <1>5, <1>6 DEF n

\* The steps of the walk that touch neither edges nor counts.
QuietStep == GraphDone \/ (\E p \in pending : IssueRoot(p)) \/ RootsDone \/ PopPoint \/ VisitDone
         \/ BindSuccessor

\* The walk keeps the queue, and an edge that is to come stays so until it is
\* walked over or deleted.
LEMMA QueueQuiet ==
  ASSUME RegisterInv, EdgeFacts, QueueFacts, QuietStep
  PROVE  /\ QueueFacts' /\ UNCHANGED <<points, next, prev, inNum>>
         /\ \A p \in Names : \A i : Coming(p, i)' <=> Coming(p, i)
<1> USE DEF graph, issue, cursor, regs, result
<1>0. /\ q \in Seq(Names) /\ points \subseteq Names /\ issued \subseteq Names
      /\ next \in [Names -> Seq(Names)] /\ k \in Nat \ {0} /\ inNum \in [Names -> Int]
      /\ (pc = "graph" => issued = {})
  BY WalkTypes
<1>1. CASE GraphDone
  <2>1. /\ pc = "graph" /\ pc' = "roots" /\ pending' = {p \in points : inNum[p] = 0}
        /\ UNCHANGED <<points, next, prev, inNum, issued, q>>
    BY <1>1 DEF GraphDone
  <2>2. QueueFacts'
    BY <1>0, <2>1 DEF QueueFacts
  <2> QED BY <2>1, <2>2 DEF Coming, Popped
<1>2. ASSUME NEW p \in pending, IssueRoot(p)
      PROVE  /\ QueueFacts' /\ UNCHANGED <<points, next, prev, inNum>>
             /\ \A x \in Names : \A i : Coming(x, i)' <=> Coming(x, i)
  <2>1. /\ pc = "roots" /\ pc' = "roots" /\ pending' = pending \ {p}
        /\ q' = Append(q, p) /\ issued' = issued \cup {p}
        /\ UNCHANGED <<points, next, prev, inNum>>
    BY <1>2 DEF IssueRoot
  <2>2. p \in points /\ p \notin issued /\ inNum[p] = 0 /\ p \in Names /\ ~In(p, q)
    BY <1>0, <2>1 DEF QueueFacts, In
  <2>3. /\ NoRepeat(q') /\ \A i \in 1..Len(q') : q'[i] \in issued'
        /\ \A w : In(w, q') <=> In(w, q) \/ w = p
    <3>1. issued' \in SUBSET Names /\ p \in issued' /\ \A i \in 1..Len(q) : q[i] \in issued'
      BY <1>0, <2>1, <2>2 DEF QueueFacts
    <3>2. NoRepeat(q)
      BY DEF QueueFacts
    <3> QED BY <1>0, <2>1, <2>2, <3>1, <3>2, QueueAppend
  <2>4. QueueFacts'
    BY <2>1, <2>2, <2>3 DEF QueueFacts
  <2>5. \A x, i : (Coming(x, i) <=> i \in 1..Len(next[x]))
                  /\ (Coming(x, i)' <=> i \in 1..Len(next[x]))
    BY <2>1, <2>4, AllComing DEF Coming, Popped, QueueFacts
  <2> QED BY <2>1, <2>4, <2>5
<1>3. CASE RootsDone
  <2>1. /\ pc = "roots" /\ pc' = "queue" /\ UNCHANGED <<points, next, prev, inNum, issued, q>>
    BY <1>3 DEF RootsDone
  <2> QED BY <2>1 DEF QueueFacts, Coming, Popped
<1>4. CASE PopPoint
  <2>1. /\ pc = "queue" /\ pc' = "visit" /\ q # <<>> /\ q' = Tail(q) /\ cur' = Head(q) /\ k' = 1
        /\ UNCHANGED <<points, next, prev, inNum, issued>>
    BY <1>4 DEF PopPoint
  <2>2. /\ NoRepeat(q') /\ ~In(cur', q') /\ In(cur', q)
        /\ \A w : w # cur' => (In(w, q') <=> In(w, q))
        /\ \A i \in 1..Len(q') : In(q'[i], q)
    BY <1>0, <2>1, QueuePop DEF QueueFacts
  <2>3. QueueFacts'
    BY <2>1, <2>2 DEF QueueFacts, In
  <2>4. ASSUME NEW p \in Names, NEW i PROVE Coming(p, i)' <=> Coming(p, i)
    <3>1. CASE p = cur'
      BY <2>1, <2>2, <3>1 DEF Coming, Popped
    <3>2. CASE p # cur'
      BY <2>1, <2>2, <3>2 DEF Coming, Popped
    <3> QED BY <3>1, <3>2
  <2> QED BY <2>1, <2>3, <2>4
<1>5. CASE VisitDone
  <2>1. /\ pc = "visit" /\ pc' = "queue" /\ k > Len(next[cur])
        /\ UNCHANGED <<points, next, prev, inNum, issued, q, cur, k>>
    BY <1>5 DEF VisitDone
  <2>2. QueueFacts'
    BY <2>1 DEF QueueFacts
  <2>3. ASSUME NEW p \in Names, NEW i PROVE Coming(p, i)' <=> Coming(p, i)
    <3>1. CASE p = cur
      <4>1. ~Coming(p, i)'
        BY <2>1, <3>1 DEF Coming, Popped, QueueFacts
      <4>2. ~(i \in 1..Len(next[cur]) /\ i >= k)
        <5>1. Len(next[cur]) \in Nat
          BY <1>0, <2>1, WalkTypes
        <5> QED BY <5>1, <1>0, <2>1
      <4> QED BY <2>1, <3>1, <4>1, <4>2 DEF Coming
    <3>2. CASE p # cur
      BY <2>1, <3>2 DEF Coming, Popped
    <3> QED BY <3>1, <3>2
  <2> QED BY <2>1, <2>2, <2>3
<1>6. CASE BindSuccessor
  <2>1. /\ pc = "release" /\ pc' = "visit" /\ q' = Append(q, succ)
        /\ UNCHANGED <<points, next, prev, inNum, issued, cur, k, succ>>
    BY <1>6 DEF BindSuccessor
  <2>2. succ \in Names /\ succ \in issued /\ ~In(succ, q) /\ cur # succ /\ NoRepeat(q)
    BY <2>1, WalkTypes DEF QueueFacts
  <2>3. /\ NoRepeat(q') /\ \A i \in 1..Len(q') : q'[i] \in issued
        /\ \A w : In(w, q') <=> In(w, q) \/ w = succ
    <3>1. issued \in SUBSET Names /\ \A i \in 1..Len(q) : q[i] \in issued
      BY <1>0 DEF QueueFacts
    <3> QED BY <1>0, <2>1, <2>2, <3>1, QueueAppend
  <2>4. QueueFacts'
    BY <2>1, <2>2, <2>3 DEF QueueFacts
  <2>5. ASSUME NEW p \in Names, NEW i PROVE Coming(p, i)' <=> Coming(p, i)
    BY <2>1, <2>2, <2>3 DEF Coming, Popped
  <2> QED BY <2>1, <2>4, <2>5
<1> QED BY <1>1, <1>2, <1>3, <1>4, <1>5, <1>6 DEF QuietStep

LEMMA QueueVisit ==
  ASSUME RegisterInv, EdgeFacts, QueueFacts, VisitSuccessor
  PROVE  LET n == next[cur][k] IN
         /\ QueueFacts' /\ UNCHANGED <<points, next, prev>>
         /\ inNum'[n] = inNum[n] - 1 /\ \A v \in Names : v # n => inNum'[v] = inNum[v]
         /\ \/ /\ inNum[n] # 1 /\ pc' = "visit" /\ issued' = issued
               /\ \A p \in Names : \A i : Coming(p, i)' <=> Coming(p, i) /\ ~(p = cur /\ i = k)
            \/ /\ inNum[n] = 1 /\ n \notin issued /\ issued' = issued \cup {n}
               /\ pc' = "release" /\ succ' = n /\ r' = 1 /\ k' = k /\ cur' = cur
               /\ \A p \in Names : \A i : Coming(p, i)' <=> Coming(p, i)
<1> DEFINE n == next[cur][k]
<1>1. /\ pc = "visit" /\ inNum' = [inNum EXCEPT ![n] = inNum[n] - 1]
      /\ UNCHANGED <<points, next, prev, q, cur>>
      /\ (inNum[n] # 1 /\ StepOver) \/ (inNum[n] = 1 /\ StartIssue(n) /\ UNCHANGED k)
  BY DEF VisitSuccessor
<1>2. /\ cur \in Names /\ n \in Names /\ n \in points /\ cur \in issued
      /\ k \in 1..Len(next[cur]) /\ Len(next[cur]) \in Nat
      /\ inNum[n] > 0 => n \notin issued
  BY VisitTypes DEF VisitSuccessor
<1> HIDE DEF n
<1>3. inNum \in [Names -> Int] /\ points \subseteq Names
  BY WalkTypes
<1>4. inNum'[n] = inNum[n] - 1 /\ \A v \in Names : v # n => inNum'[v] = inNum[v]
  BY <1>1, <1>2, <1>3
<1>5. \A v \in issued : inNum'[v] <= 0
  <2>1. \A v \in issued : inNum[v] <= 0 /\ v \in Names
    BY <1>3 DEF QueueFacts
  <2>2. inNum[n] \in Int
    BY <1>2, <1>3
  <2> QED BY <1>4, <2>1, <2>2
<1>6. CASE inNum[n] # 1 /\ StepOver
  <2>1. pc' = "visit" /\ k' = k + 1 /\ UNCHANGED <<issued, succ>>
    BY <1>1, <1>6 DEF StepOver
  <2>2. QueueFacts'
    BY <1>1, <1>5, <2>1 DEF QueueFacts
  <2>3. ASSUME NEW p \in Names, NEW i
        PROVE  Coming(p, i)' <=> Coming(p, i) /\ ~(p = cur /\ i = k)
    <3>1. CASE p = cur
      <4>1. i \in 1..Len(next[cur]) => (i >= k + 1 <=> i >= k /\ i # k)
        BY <1>2
      <4> QED BY <1>1, <2>1, <3>1, <4>1 DEF Coming
    <3>2. CASE p # cur
      BY <1>1, <2>1, <3>2 DEF Coming, Popped
    <3> QED BY <3>1, <3>2
  <2> QED BY <1>1, <1>4, <1>6, <2>1, <2>2, <2>3 DEF n
<1>7. CASE inNum[n] = 1 /\ StartIssue(n) /\ UNCHANGED k
  <2>1. /\ pc' = "release" /\ issued' = issued \cup {n} /\ succ' = n /\ r' = 1 /\ k' = k
        /\ n \notin issued /\ ~In(n, q)
    BY <1>2, <1>7 DEF StartIssue, QueueFacts, In
  <2>2. inNum'[n] <= 0
    BY <1>4, <1>7
  <2>3. QueueFacts'
    BY <1>1, <1>2, <1>5, <2>1, <2>2 DEF QueueFacts
  <2>4. ASSUME NEW p \in Names, NEW i PROVE Coming(p, i)' <=> Coming(p, i)
    BY <1>1, <2>1 DEF Coming, Popped
  <2> QED BY <1>1, <1>4, <1>7, <2>1, <2>3, <2>4 DEF n
<1> QED BY <1>1, <1>6, <1>7

\* An operand of the issued successor loses an edge to it: the edges to come of
\* the others stay, at their index or one below.
LEMMA QueueRelease ==
  ASSUME RegisterInv, QueueFacts, ReleaseOperand
  PROVE  LET m == prev[succ][r]
             d == delete_next_point(next[m], succ) IN
         /\ QueueFacts' /\ UNCHANGED <<points, prev, inNum, issued, cur, k, succ, pc>>
         /\ pc = "release" /\ r \in 1..Len(prev[succ]) /\ r' = r + 1
         /\ m \in Names /\ cur \in Names /\ succ \in Names /\ succ \in issued
         /\ next'[m] = d /\ d \in Seq(Names) /\ next[m] \in Seq(Names)
         /\ \A p \in Names : p # m => next'[p] = next[p]
         /\ \A p : Popped(p)' <=> Popped(p)
<1> DEFINE m == prev[succ][r]
<1> DEFINE d == delete_next_point(next[m], succ)
<1>1. /\ pc = "release" /\ pc' = "release" /\ r <= Len(prev[succ]) /\ r' = r + 1
      /\ next' = [next EXCEPT ![m] = d]
      /\ UNCHANGED <<points, prev, inNum, issued, q, cur, k, succ>>
  BY DEF ReleaseOperand, issue
<1>2. /\ next \in [Names -> Seq(Names)] /\ prev \in [Names -> Seq(Names)]
      /\ cur \in Names /\ succ \in Names /\ r \in Nat \ {0}
  BY <1>1, WalkTypes
<1>3. prev[succ] \in Seq(Names) /\ r \in 1..Len(prev[succ])
  BY <1>1, <1>2
<1>4. m \in Names
  BY <1>3
<1> HIDE DEF m
<1>5. next[m] \in Seq(Names) /\ d \in Seq(Names)
  BY <1>2, <1>4, DeleteType
<1> HIDE DEF d
<1>6. next'[m] = d /\ \A p \in Names : p # m => next'[p] = next[p]
  BY <1>1, <1>2, <1>4
<1>7. QueueFacts' /\ succ \in issued
  BY <1>1 DEF QueueFacts
<1>8. \A p : Popped(p)' <=> Popped(p)
  BY <1>1 DEF Popped
<1> QED BY <1>1, <1>2, <1>3, <1>4, <1>5, <1>6, <1>7, <1>8 DEF m, d

-----------------------------------------------------------------------------
(* What is owed.                                                           *)

LEMMA OwedMember ==
  ASSUME NEW v, NEW p \in Names, NEW i \in Nat
  PROVE  <<p, i>> \in Owed(v) <=>
           IF i = 0 THEN In(p, prev[v]) /\ ~In(v, next[p]) ELSE Coming(p, i) /\ next[p][i] = v
BY DEF Owed

\* A set no larger than a bounded one is bounded.
LEMMA NoLarger ==
  ASSUME NEW A, NEW B \in SUBSET A, IsFiniteSet(A), NEW c \in Int, Cardinality(A) <= c
  PROVE  IsFiniteSet(B) /\ Cardinality(B) <= c
<1>1. IsFiniteSet(B) /\ Cardinality(B) <= Cardinality(A)
  BY FS_Subset
<1>2. Cardinality(A) \in Nat /\ Cardinality(B) \in Nat
  BY <1>1, FS_CardinalityType
<1> QED BY <1>1, <1>2

LEMMA GraphSteps ==
  ASSUME TypeInv, EdgeFacts, pc = "graph",
         SkipStatement \/ NewPoint \/ ArrayOperand \/ LabelOperand \/ LengthOperand
         \/ LiteralOperand \/ ValueOperand \/ NextStatement
  PROVE  /\ pc' = "graph" /\ UNCHANGED <<Stmts, issued, q>>
         /\ \/ UNCHANGED <<points, next, prev, inNum>>
            \/ /\ S.var \in Names /\ S = Stmts[si] /\ S.var # NoVar
               /\ si \in 1..Len(Stmts) /\ oi = 0
               /\ next' = [next EXCEPT ![S.var] = <<>>]
               /\ prev' = [prev EXCEPT ![S.var] = <<>>]
               /\ inNum' = [inNum EXCEPT ![S.var] = 0]
               /\ points' = points \cup {S.var}
            \/ /\ S.var \in Names /\ S = Stmts[si] /\ S.var # NoVar /\ S.var \in points
               /\ si \in 1..Len(Stmts) /\ oi \in 1..Len(S.ops)
               /\ Operand \in Names /\ Operand = S.ops[oi] /\ IsEdge(S, oi)
               /\ next' = [next EXCEPT ![Operand] = Append(next[Operand], S.var)]
               /\ prev' = [prev EXCEPT ![S.var] = Append(prev[S.var], Operand)]
               /\ inNum' = [inNum EXCEPT ![S.var] = inNum[S.var] + 1]
               /\ points' = points \cup {Operand}
<1> USE DEF graph, issue
<1>1. CASE NewPoint
  <2>1. si \in 1..Len(Stmts) /\ S = Stmts[si] /\ S.var # NoVar
    BY <1>1, StatementTypes DEF NewPoint, InStatements, S, TypeInv, TypeOK, ControlTypes
  <2>2. S.var \in Names
    BY <2>1, StatementTypes DEF TypeInv
  <2> QED BY <1>1, <2>1, <2>2 DEF NewPoint, Stmts
<1>2. CASE ValueOperand
  <2>1. /\ S.var \in Names /\ S = Stmts[si] /\ S.var # NoVar /\ S.var \in points
        /\ si \in 1..Len(Stmts) /\ oi \in 1..Len(S.ops)
        /\ Operand \in Names /\ Operand = S.ops[oi]
        /\ IsEdge(S, oi) <=> ~IsArray /\ ~IsLabel /\ Operand \notin {"0", "1", "n"}
    BY <1>2, AtOperand DEF ValueOperand
  <2>2. IsEdge(S, oi)
    BY <1>2, <2>1 DEF ValueOperand, EdgeFacts
  <2> QED BY <1>2, <2>1, <2>2 DEF ValueOperand, Stmts
<1>3. CASE SkipStatement \/ ArrayOperand \/ LabelOperand \/ LengthOperand \/ LiteralOperand
           \/ NextStatement
  BY <1>3 DEF SkipStatement, ArrayOperand, LabelOperand, LengthOperand, LiteralOperand,
     NextStatement, CodedOperand, Stmts
<1> QED BY <1>1, <1>2, <1>3

\* A point that is about to be made is no one's successor yet.
LEMMA NewPointFresh ==
  ASSUME TypeInv, EdgeFacts, SingleDefinition(Stmts), pc = "graph", oi = 0,
         si \in 1..Len(Stmts), S = Stmts[si], S.var \in Names, NEW p \in Names
  PROVE  ~In(p, prev[S.var]) /\ ~In(S.var, next[p])
<1>1. Len(Stmts) \in Nat /\ si \in Nat
  BY StatementTypes DEF TypeInv
<1>2. \A i \in 1..Len(Stmts) : Stmts[i].var = S.var /\ S.var # NoVar => i = si
  BY <1>1 DEF SingleDefinition
<1>3. \A j : j \in Nat => ~Looked(si, j)
  BY <1>1 DEF Looked
<1>4. \A j \in 1..Len(Stmts[si].ops) : j \in Nat
  OBVIOUS
<1>5. ~EdgeOf(p, S.var)
  BY <1>2, <1>3, <1>4 DEF EdgeOf
<1> QED BY <1>5 DEF EdgeFacts

LEMMA OwedGraph ==
  ASSUME RegisterInv, EdgeFacts, QueueFacts, OwedFacts, SingleDefinition(Stmts), pc = "graph",
         SkipStatement \/ NewPoint \/ ArrayOperand \/ LabelOperand \/ LengthOperand
         \/ LiteralOperand \/ ValueOperand \/ NextStatement
  PROVE  QueueFacts' /\ OwedFacts'
<1> DEFINE v == S.var
<1> DEFINE o == Operand
<1>1. /\ TypeInv /\ next \in [Names -> Seq(Names)] /\ prev \in [Names -> Seq(Names)]
      /\ inNum \in [Names -> Int] /\ issued = {}
  BY WalkTypes
<1>2. /\ pc' = "graph" /\ UNCHANGED <<Stmts, issued, q>>
      /\ \/ UNCHANGED <<points, next, prev, inNum>>
         \/ /\ v \in Names /\ S = Stmts[si] /\ v # NoVar /\ si \in 1..Len(Stmts) /\ oi = 0
            /\ next' = [next EXCEPT ![v] = <<>>] /\ prev' = [prev EXCEPT ![v] = <<>>]
            /\ inNum' = [inNum EXCEPT ![v] = 0]
         \/ /\ v \in Names /\ o \in Names
            /\ next' = [next EXCEPT ![o] = Append(next[o], v)]
            /\ prev' = [prev EXCEPT ![v] = Append(prev[v], o)]
            /\ inNum' = [inNum EXCEPT ![v] = inNum[v] + 1]
  BY <1>1, GraphSteps
<1>3. QueueFacts'
  BY <1>1, <1>2 DEF QueueFacts
<1>4. \A p, i : (Coming(p, i) <=> i \in 1..Len(next[p])) /\ (Coming(p, i)' <=> i \in 1..Len(next'[p]))
  BY <1>1, <1>2, <1>3 DEF Coming, Popped
<1>5. ASSUME NEW w \in Names
      PROVE  /\ IsFiniteSet(Owed(w)) /\ Cardinality(Owed(w)) <= inNum[w] /\ inNum[w] \in Int
             /\ Cardinality(Owed(w)) \in Nat
  BY <1>1, FS_CardinalityType DEF OwedFacts
<1>6. ASSUME NEW w \in Names PROVE IsFiniteSet(Owed(w)') /\ Cardinality(Owed(w)') <= inNum'[w]
  <2>1. CASE UNCHANGED <<points, next, prev, inNum>>
    <3>1. Owed(w)' = Owed(w)
      BY <2>1, <1>4 DEF Owed
    <3> QED BY <3>1, <2>1, <1>5
  <2>2. CASE /\ v \in Names /\ S = Stmts[si] /\ v # NoVar /\ si \in 1..Len(Stmts) /\ oi = 0
             /\ next' = [next EXCEPT ![v] = <<>>] /\ prev' = [prev EXCEPT ![v] = <<>>]
             /\ inNum' = [inNum EXCEPT ![v] = 0]
    <3>1. \A p \in Names : ~In(p, prev[v]) /\ ~In(v, next[p])
      BY <1>1, <2>2, NewPointFresh
    <3> HIDE DEF v
    <3>2. /\ next'[v] = <<>> /\ prev'[v] = <<>> /\ inNum'[v] = 0
          /\ \A p \in Names : p # v => next'[p] = next[p] /\ prev'[p] = prev[p] /\ inNum'[p] = inNum[p]
      BY <1>1, <2>2
    <3>3. \A p : ~In(p, <<>>)
      BY DEF In
    <3>4. CASE w = v
      <4>1. \A p \in Names : \A i \in Nat : <<p, i>> \notin Owed(w)'
        <5> SUFFICES ASSUME NEW p \in Names, NEW i \in Nat, <<p, i>> \in Owed(w)' PROVE FALSE
          OBVIOUS
        <5>1. IF i = 0 THEN In(p, prev'[w]) ELSE i \in 1..Len(next'[p]) /\ next'[p][i] = w
          BY <1>4 DEF Owed
        <5>2. i # 0 /\ In(w, next'[p])
          BY <5>1, <3>2, <3>3, <3>4 DEF In
        <5> QED BY <5>2, <3>1, <3>2, <3>3, <3>4
      <4>2. Owed(w)' = {}
        BY <4>1 DEF Owed
      <4> QED BY <4>2, <3>2, <3>4, FS_EmptySet
    <3>5. CASE w # v
      <4>1. ASSUME NEW p \in Names, NEW i \in Nat, <<p, i>> \in Owed(w)'
            PROVE  <<p, i>> \in Owed(w) \/ (p = v /\ i = 0 /\ In(v, prev[w]))
        <5>1. IF i = 0 THEN In(p, prev'[w]) /\ ~In(w, next'[p])
                       ELSE i \in 1..Len(next'[p]) /\ next'[p][i] = w
          BY <1>4, <4>1 DEF Owed
        <5>2. prev'[w] = prev[w]
          BY <3>2, <3>5
        <5>3. CASE p = v
          BY <5>1, <5>2, <5>3, <3>2
        <5>4. CASE p # v
          <6>1. next'[p] = next[p]
            BY <3>2, <5>4
          <6> QED BY <5>1, <5>2, <6>1, <1>4, OwedMember
        <5> QED BY <5>3, <5>4
      <4>2. CASE In(w, next[v])
        <5>1. PICK f \in 1..Len(next[v]) : next[v][f] = w
          BY <4>2 DEF In
        <5>2. f \in Nat /\ f # 0 /\ <<v, f>> \in Owed(w)
          <6>1. f \in Nat /\ f # 0
            BY <5>1
          <6>2. Coming(v, f)
            BY <5>1, <1>4
          <6> QED BY <5>1, <6>1, <6>2, <2>2, OwedMember
        <5>3. <<v, f>> \notin Owed(w)'
          BY <1>4, <3>2, <5>2, <2>2 DEF Owed
        <5>4. Owed(w)' \subseteq (Owed(w) \ {<<v, f>>}) \cup {<<v, 0>>}
          BY <4>1, <5>3 DEF Owed
        <5>5. /\ IsFiniteSet(Owed(w) \ {<<v, f>>})
              /\ Cardinality(Owed(w) \ {<<v, f>>}) = Cardinality(Owed(w)) - 1
          BY <1>5, <5>2, FS_RemoveElement
        <5>6. /\ IsFiniteSet((Owed(w) \ {<<v, f>>}) \cup {<<v, 0>>})
              /\ Cardinality((Owed(w) \ {<<v, f>>}) \cup {<<v, 0>>}) <= inNum[w]
          <6> DEFINE rest == Owed(w) \ {<<v, f>>}
          <6>1. /\ Cardinality(rest) = Cardinality(Owed(w)) - 1 /\ IsFiniteSet(rest)
            BY <5>5
          <6> HIDE DEF rest
          <6>2. /\ IsFiniteSet(rest \cup {<<v, 0>>})
                /\ \/ Cardinality(rest \cup {<<v, 0>>}) = Cardinality(rest)
                   \/ Cardinality(rest \cup {<<v, 0>>}) = Cardinality(rest) + 1
            BY <6>1, FS_AddElement
          <6> QED BY <1>5, <6>1, <6>2 DEF rest
        <5> QED BY <1>5, <3>2, <3>5, <5>4, <5>6, NoLarger
      <4>3. CASE ~In(w, next[v])
        <5>1. Owed(w)' \subseteq Owed(w)
          <6>1. In(v, prev[w]) => <<v, 0>> \in Owed(w)
            BY <2>2, <4>3, OwedMember
          <6> QED BY <4>1, <6>1 DEF Owed
        <5> QED BY <1>5, <3>2, <3>5, <5>1, NoLarger
      <4> QED BY <4>2, <4>3
    <3> QED BY <3>4, <3>5
  <2>3. CASE /\ v \in Names /\ o \in Names
             /\ next' = [next EXCEPT ![o] = Append(next[o], v)]
             /\ prev' = [prev EXCEPT ![v] = Append(prev[v], o)]
             /\ inNum' = [inNum EXCEPT ![v] = inNum[v] + 1]
    <3> DEFINE last == Len(next[o]) + 1
    <3> HIDE DEF v, o
    <3>1. /\ next'[o] = Append(next[o], v) /\ \A p \in Names : p # o => next'[p] = next[p]
          /\ prev'[v] = Append(prev[v], o) /\ \A p \in Names : p # v => prev'[p] = prev[p]
          /\ inNum'[v] = inNum[v] + 1 /\ \A p \in Names : p # v => inNum'[p] = inNum[p]
      BY <1>1, <2>3
    <3>2. /\ Len(next'[o]) = last /\ last \in Nat /\ last # 0 /\ next'[o][last] = v
          /\ \A i \in 1..Len(next'[o]) : i = last \/ (i \in 1..Len(next[o]) /\ next'[o][i] = next[o][i])
          /\ \A x : In(x, next'[o]) <=> In(x, next[o]) \/ x = v
      <4>1. next[o] \in Seq(Names)
        BY <1>1, <2>3
      <4> QED BY <4>1, <3>1, <2>3, AppendIn
    <3>3. \A x : In(x, prev'[v]) <=> In(x, prev[v]) \/ x = o
      <4>1. prev[v] \in Seq(Names)
        BY <1>1, <2>3
      <4> QED BY <4>1, <3>1, <2>3, AppendIn
    <3> HIDE DEF last
    <3>4. ASSUME NEW p \in Names, NEW i \in Nat, <<p, i>> \in Owed(w)'
          PROVE  <<p, i>> \in Owed(w) \/ (w = v /\ p = o /\ i = last)
      <4>1. IF i = 0 THEN In(p, prev'[w]) /\ ~In(w, next'[p])
                     ELSE i \in 1..Len(next'[p]) /\ next'[p][i] = w
        BY <1>4, <3>4 DEF Owed
      <4>2. CASE i = 0
        <5>1. In(p, prev[w]) /\ ~In(w, next[p])
          BY <4>1, <4>2, <3>1, <3>2, <3>3
        <5> QED BY <4>2, <5>1, OwedMember
      <4>3. CASE i # 0
        <5>1. (w = v /\ p = o /\ i = last) \/ (i \in 1..Len(next[p]) /\ next[p][i] = w)
          BY <4>1, <4>3, <3>1, <3>2
        <5> QED BY <4>3, <5>1, <1>4, OwedMember
      <4> QED BY <4>2, <4>3
    <3>5. CASE w = v
      <4>1. Owed(w)' \subseteq Owed(w) \cup {<<o, last>>}
        BY <3>4 DEF Owed
      <4>2. /\ IsFiniteSet(Owed(w) \cup {<<o, last>>})
            /\ Cardinality(Owed(w) \cup {<<o, last>>}) <= inNum[w] + 1
        <5> DEFINE old == Owed(w)
        <5>1. IsFiniteSet(old) /\ Cardinality(old) <= inNum[w] /\ inNum[w] \in Int /\ Cardinality(old) \in Nat
          BY <1>5
        <5> HIDE DEF old
        <5>2. /\ IsFiniteSet(old \cup {<<o, last>>})
              /\ \/ Cardinality(old \cup {<<o, last>>}) = Cardinality(old)
                 \/ Cardinality(old \cup {<<o, last>>}) = Cardinality(old) + 1
          BY <5>1, FS_AddElement
        <5> QED BY <5>1, <5>2 DEF old
      <4> QED BY <1>5, <3>1, <3>5, <4>1, <4>2, NoLarger
    <3>6. CASE w # v
      <4>1. Owed(w)' \subseteq Owed(w)
        BY <3>4, <3>6 DEF Owed
      <4> QED BY <1>5, <3>1, <3>6, <4>1, NoLarger
    <3> QED BY <3>5, <3>6
  <2> QED BY <1>2, <2>1, <2>2, <2>3
<1>7. OwedFacts'
  BY <1>6 DEF OwedFacts
<1> QED BY <1>3, <1>7

LEMMA OwedVisit ==
  ASSUME RegisterInv, EdgeFacts, QueueFacts, OwedFacts, VisitSuccessor
  PROVE  OwedFacts'
<1> DEFINE n == next[cur][k]
<1>1. /\ UNCHANGED <<next, prev>>
      /\ inNum'[n] = inNum[n] - 1 /\ \A v \in Names : v # n => inNum'[v] = inNum[v]
      /\ \/ /\ issued' = issued
            /\ \A p \in Names : \A i : Coming(p, i)' <=> Coming(p, i) /\ ~(p = cur /\ i = k)
         \/ /\ n \notin issued /\ issued' = issued \cup {n}
            /\ \A p \in Names : \A i : Coming(p, i)' <=> Coming(p, i)
  BY QueueVisit
<1>2. cur \in Names /\ n \in Names /\ Coming(cur, k) /\ k \in Nat /\ k # 0
  BY VisitTypes, WalkTypes DEF VisitSuccessor
<1> HIDE DEF n
<1>3. ASSUME NEW v \in Names \ issued'
      PROVE  IsFiniteSet(Owed(v)') /\ Cardinality(Owed(v)') <= inNum'[v]
  <2>1. /\ v \notin issued /\ IsFiniteSet(Owed(v)) /\ Cardinality(Owed(v)) <= inNum[v]
        /\ Cardinality(Owed(v)) \in Nat /\ inNum[v] \in Int
    <3>1. v \notin issued
      BY <1>1
    <3> QED BY <3>1, WalkTypes, FS_CardinalityType DEF OwedFacts
  <2>2. CASE /\ n \notin issued /\ issued' = issued \cup {n}
             /\ \A p \in Names : \A i : Coming(p, i)' <=> Coming(p, i)
    <3>1. Owed(v)' = Owed(v)
      BY <1>1, <2>2 DEF Owed
    <3>2. v # n
      BY <2>2
    <3> QED BY <3>1, <3>2, <2>1, <1>1
  <2>3. CASE \A p \in Names : \A i : Coming(p, i)' <=> Coming(p, i) /\ ~(p = cur /\ i = k)
    <3>1. ASSUME v # n PROVE Owed(v)' = Owed(v)
      <4>1. \A p \in Names : \A i \in Nat : <<p, i>> \in Owed(v)' <=> <<p, i>> \in Owed(v)
        BY <1>1, <2>3, <3>1 DEF Owed, n
      <4> QED BY <4>1 DEF Owed
    <3>2. ASSUME v = n PROVE Owed(v)' = Owed(v) \ {<<cur, k>>}
      <4>1. \A p \in Names : \A i \in Nat :
              <<p, i>> \in Owed(v)' <=> <<p, i>> \in Owed(v) /\ ~(p = cur /\ i = k)
        BY <1>1, <1>2, <2>3, <3>2 DEF Owed
      <4> QED BY <4>1 DEF Owed
    <3>3. v = n => <<cur, k>> \in Owed(v)
      BY <1>2, OwedMember DEF n
    <3>4. CASE v = n
      <4>1. /\ IsFiniteSet(Owed(v) \ {<<cur, k>>})
            /\ Cardinality(Owed(v) \ {<<cur, k>>}) = Cardinality(Owed(v)) - 1
        BY <2>1, <3>3, <3>4, FS_RemoveElement
      <4>2. inNum'[v] = inNum[v] - 1
        BY <1>1, <3>4
      <4>3. Owed(v)' = Owed(v) \ {<<cur, k>>}
        BY <3>2, <3>4
      <4>4. Cardinality(Owed(v)) - 1 <= inNum[v] - 1
        BY <2>1
      <4> QED BY <4>1, <4>2, <4>3, <4>4
    <3>5. CASE v # n
      BY <2>1, <3>1, <3>5, <1>1
    <3> QED BY <3>4, <3>5
  <2> QED BY <2>2, <2>3, <1>1
<1> QED BY <1>3 DEF OwedFacts

LEMMA OwedRelease ==
  ASSUME RegisterInv, QueueFacts, OwedFacts, ReleaseOperand
  PROVE  OwedFacts'
<1> DEFINE m == prev[succ][r]
<1> DEFINE d == delete_next_point(next[m], succ)
<1>1. /\ UNCHANGED <<prev, inNum, issued, cur, k, pc>> /\ pc = "release"
      /\ m \in Names /\ cur \in Names /\ succ \in issued
      /\ next'[m] = d /\ next[m] \in Seq(Names)
      /\ \A p \in Names : p # m => next'[p] = next[p]
      /\ \A p : Popped(p)' <=> Popped(p)
  BY QueueRelease
<1> HIDE DEF m, d
<1>2. PICK f \in Nat :
        /\ Len(d) <= Len(next[m]) /\ Len(d) \in Nat /\ Len(next[m]) \in Nat
        /\ \A i \in 1..Len(d) : d[i] = IF i < f THEN next[m][i] ELSE next[m][i + 1]
        /\ \A i \in 1..Len(d) : i < f \/ i + 1 \in 1..Len(next[m])
        /\ \A w : w # succ => (In(w, d) <=> In(w, next[m]))
  <2>1. \A w : w # succ => (In(w, d) <=> In(w, next[m]))
    BY <1>1, DeleteFacts DEF d
  <2>2. CASE In(succ, next[m])
    <3>1. PICK f \in 1..Len(next[m]) :
            /\ Len(d) = Len(next[m]) - 1
            /\ \A i \in 1..(Len(next[m]) - 1) : d[i] = IF i < f THEN next[m][i] ELSE next[m][i + 1]
      <4>1. next[m] \in Seq(Names)
        BY <1>1
      <4>2. \E f \in 1..Len(next[m]) :
              /\ next[m][f] = succ
              /\ Len(delete_next_point(next[m], succ)) = Len(next[m]) - 1
              /\ \A i \in 1..(Len(next[m]) - 1) :
                   delete_next_point(next[m], succ)[i] = IF i < f THEN next[m][i] ELSE next[m][i + 1]
        BY <2>2, <4>1, DeleteParts
      <4> QED BY <4>2 DEF d
    <3>2. Len(next[m]) \in Nat
      BY <1>1
    <3>3. f \in Nat /\ Len(d) \in Nat /\ Len(d) <= Len(next[m])
      BY <3>1, <3>2
    <3>4. \A i \in 1..Len(d) : i + 1 \in 1..Len(next[m])
      BY <3>1, <3>2
    <3> HIDE DEF d
    <3>5. \A i \in 1..Len(d) : d[i] = IF i < f THEN next[m][i] ELSE next[m][i + 1]
      BY <3>1
    <3> QED BY <2>1, <3>2, <3>3, <3>4, <3>5
  <2>3. CASE ~In(succ, next[m])
    <3>1. d = next[m] /\ Len(next[m]) \in Nat
      BY <1>1, <2>3, DeleteFacts DEF d
    <3>2. \A i \in 1..Len(d) : i < Len(d) + 1
      BY <3>1
    <3>3. Len(d) + 1 \in Nat /\ Len(d) <= Len(next[m])
      BY <3>1
    <3>4. \A i \in 1..Len(d) : d[i] = IF i < Len(d) + 1 THEN next[m][i] ELSE next[m][i + 1]
      BY <3>1, <3>2
    <3> QED BY <2>1, <3>1, <3>2, <3>3, <3>4
  <2> QED BY <2>2, <2>3
<1>3. ASSUME NEW v \in Names \ issued
      PROVE  IsFiniteSet(Owed(v)') /\ Cardinality(Owed(v)') <= Cardinality(Owed(v))
  <2> DEFINE at(i) == IF i = 0 \/ i < f THEN i ELSE i + 1
  <2> DEFINE from(e) == IF e[1] = m THEN <<m, at(e[2])>> ELSE e
  <2> DEFINE old == [e \in Owed(v)' |-> from(e)]
  <2>1. v # succ
    BY <1>1
  <2>2. ASSUME NEW p \in Names, NEW i \in Nat, <<p, i>> \in Owed(v)'
        PROVE  (p # m => <<p, i>> \in Owed(v)) /\ (p = m => <<m, at(i)>> \in Owed(v))
    <3>1. IF i = 0 THEN In(p, prev[v]) /\ ~In(v, next'[p])
                   ELSE Coming(p, i)' /\ next'[p][i] = v
      BY <1>1, <2>2 DEF Owed
    <3>2. CASE p # m
      <4>1. Coming(p, i)' => Coming(p, i)
        BY <1>1, <3>2 DEF Coming
      <4> QED BY <1>1, <3>1, <3>2, <4>1, OwedMember
    <3>3. CASE p = m /\ i = 0
      BY <1>1, <1>2, <2>1, <3>1, <3>3, OwedMember
    <3>4. CASE p = m /\ i # 0
      <4>1. i \in 1..Len(d) /\ d[i] = v
        BY <1>1, <3>1, <3>4 DEF Coming
      <4>2. at(i) \in 1..Len(next[m]) /\ next[m][at(i)] = v /\ at(i) >= i /\ at(i) \in Nat /\ at(i) # 0
        BY <1>2, <4>1
      <4> HIDE DEF at
      <4>3. Coming(m, at(i))
        <5>1. CASE m = cur
          <6>1. i >= k /\ k \in Nat
            BY <1>1, <3>1, <3>4, <5>1, WalkTypes DEF Coming
          <6>2. at(i) >= k
            BY <4>2, <6>1
          <6> QED BY <1>1, <4>2, <5>1, <6>2 DEF Coming
        <5>2. CASE m # cur
          BY <1>1, <3>1, <3>4, <4>2, <5>2 DEF Coming
        <5> QED BY <5>1, <5>2
      <4> QED BY <1>1, <3>4, <4>2, <4>3, OwedMember
    <3> QED BY <3>2, <3>3, <3>4
  <2>3. \A i, j \in Nat : at(i) = at(j) => i = j
    BY <1>2
  <2> HIDE DEF at
  <2>4. old \in [Owed(v)' -> Owed(v)]
    <3>1. ASSUME NEW e \in Owed(v)' PROVE from(e) \in Owed(v)
      <4>1. PICK p \in Names, i \in Nat : e = <<p, i>>
        BY DEF Owed
      <4> QED BY <2>2, <4>1
    <3> QED BY <3>1
  <2>5. ASSUME NEW e \in Owed(v)', NEW g \in Owed(v)', old[e] = old[g] PROVE e = g
    <3>1. PICK p \in Names, i \in Nat : e = <<p, i>>
      BY DEF Owed
    <3>2. PICK x \in Names, j \in Nat : g = <<x, j>>
      BY DEF Owed
    <3>3. from(e) = from(g)
      BY <2>5
    <3>4. p = x
      BY <3>1, <3>2, <3>3
    <3>5. CASE p = m
      <4>1. at(i) = at(j)
        BY <3>1, <3>2, <3>3, <3>4, <3>5
      <4> QED BY <4>1, <2>3, <3>1, <3>2, <3>4
    <3>6. CASE p # m
      BY <3>1, <3>2, <3>3, <3>4, <3>6
    <3> QED BY <3>5, <3>6
  <2> HIDE DEF old
  <2>6. old \in Injection(Owed(v)', Owed(v))
    BY <2>4, <2>5 DEF Injection, IsInjective
  <2>7. IsFiniteSet(Owed(v))
    BY DEF OwedFacts
  <2> QED BY <2>6, <2>7, FS_Injection
<1>4. ASSUME NEW v \in Names \ issued PROVE IsFiniteSet(Owed(v)') /\ Cardinality(Owed(v)') <= inNum[v]
  <2>1. IsFiniteSet(Owed(v)) /\ Cardinality(Owed(v)) <= inNum[v] /\ inNum[v] \in Int
    BY WalkTypes DEF OwedFacts
  <2>2. Cardinality(Owed(v)) \in Nat /\ Cardinality(Owed(v)') \in Nat
    BY <1>3, <2>1, FS_CardinalityType
  <2> QED BY <1>3, <2>1, <2>2
<1> QED BY <1>1, <1>4 DEF OwedFacts

LEMMA OwingInit == Unbound => Owing
BY DEF Unbound, NothingBound, Owing, Working

LEMMA OwingStep == RegisterInv /\ Edges /\ Owing /\ [Next]_vars => Owing'
<1> SUFFICES ASSUME RegisterInv, Edges, Owing, [Next]_vars, Working', SingleDefinition(Stmts)'
             PROVE  (QueueFacts /\ OwedFacts)'
  BY DEF Owing
<1>1. CASE EnterBlock
  <2>1. /\ pc' = "graph" /\ points' = {} /\ issued' = {} /\ q' = <<>>
        /\ next' = NoEdges /\ prev' = NoEdges /\ inNum' = Zero
    BY <1>1 DEF EnterBlock
  <2>2. QueueFacts'
    BY <2>1 DEF QueueFacts, NoRepeat
  <2>3. ASSUME NEW v \in Names PROVE Owed(v)' = {} /\ inNum'[v] = 0
    <3>1. \A p \in Names : Len(next'[p]) = 0 /\ Len(prev'[p]) = 0
      BY <2>1 DEF NoEdges
    <3>2. \A p \in Names : \A i \in Nat : <<p, i>> \notin Owed(v)'
      BY <3>1 DEF Owed, Coming, In
    <3> QED BY <2>1, <3>2 DEF Owed, Zero
  <2> QED BY <2>2, <2>3, FS_EmptySet DEF OwedFacts
<1>2. CASE FinishBlock \/ FillHash
  BY <1>2 DEF FinishBlock, FillHash, Working
<1>3. CASE SkipStatement \/ NewPoint \/ ArrayOperand \/ LabelOperand \/ LengthOperand
           \/ LiteralOperand \/ ValueOperand \/ NextStatement
  <2>1. pc = "graph" /\ Stmts' = Stmts
    BY <1>3 DEF SkipStatement, NewPoint, ArrayOperand, LabelOperand, LengthOperand,
       LiteralOperand, ValueOperand, NextStatement, CodedOperand, InStatements, InOperands, Stmts
  <2> QED BY <1>3, <2>1, OwedGraph DEF Owing, Edges, Working
<1>4. CASE QuietStep \/ VisitSuccessor \/ ReleaseOperand \/ UNCHANGED vars
  <2>1. Working /\ Stmts' = Stmts
    BY <1>4 DEF QuietStep, GraphDone, IssueRoot, RootsDone, PopPoint, VisitDone, VisitSuccessor,
       ReleaseOperand, BindSuccessor, Working, Stmts, vars
  <2>2. EdgeFacts /\ QueueFacts /\ OwedFacts
    BY <2>1 DEF Edges, Owing
  <2>3. CASE QuietStep
    <3>1. /\ QueueFacts' /\ UNCHANGED <<points, next, prev, inNum>>
          /\ \A p \in Names : \A i : Coming(p, i)' <=> Coming(p, i)
      BY <2>2, <2>3, QueueQuiet
    <3>2. \A v : Owed(v)' = Owed(v)
      BY <3>1 DEF Owed
    <3>3. issued \subseteq issued'
      BY <2>3 DEF QuietStep, GraphDone, IssueRoot, RootsDone, PopPoint, VisitDone, BindSuccessor,
         issue
    <3> QED BY <2>2, <3>1, <3>2, <3>3 DEF OwedFacts
  <2>4. CASE VisitSuccessor
    BY <2>2, <2>4, QueueVisit, OwedVisit
  <2>5. CASE ReleaseOperand
    BY <2>2, <2>5, QueueRelease, OwedRelease
  <2>6. CASE UNCHANGED vars
    <3>1. UNCHANGED <<pc, points, next, prev, inNum, issued, q, cur, k, succ, r, pending>>
      BY <2>6 DEF vars, graph, issue, cursor
    <3>2. \A v : Owed(v)' = Owed(v)
      BY <3>1 DEF Owed, Coming, Popped
    <3> QED BY <2>2, <3>1, <3>2 DEF QueueFacts, OwedFacts
  <2> QED BY <1>4, <2>3, <2>4, <2>5, <2>6
<1> QED BY <1>1, <1>2, <1>3, <1>4 DEF Next, Finished, QuietStep

-----------------------------------------------------------------------------
(* No point before its operands.                                           *)

OwingInv == RegisterInv /\ Edges /\ Owing

LEMMA OwingInvariant == (Unbound => OwingInv) /\ (OwingInv /\ [Next]_vars => OwingInv')
BY RegisterInit, EdgesInit, OwingInit, RegisterStep, EdgesStep, OwingStep DEF OwingInv, RegisterInv

LEMMA DependenceOf ==
  ASSUME NEW v \in Names, NEW p PROVE p \in Dependences[v] <=> In(p, prev[v])
BY DEF Dependences, In

\* Nothing is owed to a root: it has no operands.
LEMMA RootReady ==
  ASSUME RegisterInv, EdgeFacts, QueueFacts, OwedFacts, NEW p \in pending, IssueRoot(p)
  PROVE  p \in Names /\ p \notin issued /\ Dependences[p] = {} /\ \A o : ~In(o, prev[p])
<1>1. /\ p \in points /\ p \notin issued /\ inNum[p] = 0 /\ p \in Names /\ pc = "roots"
      /\ next \in [Names -> Seq(Names)] /\ prev \in [Names -> Seq(Names)]
  BY WalkTypes DEF QueueFacts, IssueRoot
<1>2. Owed(p) = {}
  <2>1. IsFiniteSet(Owed(p)) /\ Cardinality(Owed(p)) <= 0
    BY <1>1 DEF OwedFacts
  <2>2. Cardinality(Owed(p)) = 0
    BY <2>1, FS_CardinalityType
  <2> QED BY <2>1, <2>2, FS_EmptySet
<1>3. ASSUME NEW o, In(o, prev[p]) PROVE FALSE
  <2>1. o \in Names
    BY <1>1, <1>3 DEF In
  <2>2. In(p, next[o])
    <3>1. <<o, 0>> \notin Owed(p)
      BY <1>2
    <3> QED BY <3>1, <1>1, <1>3, <2>1, OwedMember
  <2>3. PICK i \in 1..Len(next[o]) : next[o][i] = p
    BY <2>2 DEF In
  <2>4. i \in Nat /\ i # 0 /\ Coming(o, i)
    <3>1. i \in Nat /\ i # 0
      BY <2>3
    <3> QED BY <3>1, <1>1, <2>3, AllComing
  <2> QED BY <1>2, <2>1, <2>3, <2>4, OwedMember
<1> QED BY <1>1, <1>3, DependenceOf

\* Nothing but the edge just walked over is owed to the successor that is issued.
LEMMA SuccessorReady ==
  ASSUME RegisterInv, EdgeFacts, QueueFacts, OwedFacts, VisitSuccessor, issued' # issued
  PROVE  LET n == next[cur][k] IN
         /\ n \in Names /\ n \notin issued /\ issued' = issued \cup {n}
         /\ Dependences[n] \subseteq issued /\ \A o : In(o, prev[n]) => Popped(o)
<1> DEFINE n == next[cur][k]
<1>1. inNum[n] = 1 /\ n \notin issued /\ issued' = issued \cup {n}
  BY QueueVisit
<1>2. /\ cur \in Names /\ cur \in issued /\ n \in Names /\ Coming(cur, k) /\ k \in Nat /\ k # 0
      /\ next \in [Names -> Seq(Names)] /\ prev \in [Names -> Seq(Names)]
  BY VisitTypes, WalkTypes DEF VisitSuccessor
<1>3. <<cur, k>> \in Owed(n)
  BY <1>2, OwedMember
<1> HIDE DEF n
<1>4. Owed(n) = {<<cur, k>>}
  <2>1. IsFiniteSet(Owed(n)) /\ Cardinality(Owed(n)) <= 1
    BY <1>1, <1>2 DEF OwedFacts
  <2>2. Cardinality(Owed(n)) \in Nat /\ Cardinality(Owed(n)) # 0
    BY <1>3, <2>1, FS_CardinalityType, FS_EmptySet
  <2>3. Cardinality(Owed(n)) = 1
    BY <2>1, <2>2
  <2>4. \E x : Owed(n) = {x}
    BY <2>1, <2>3, FS_Singleton
  <2> QED BY <1>3, <2>4
<1>5. ASSUME NEW o, In(o, prev[n]) PROVE Popped(o)
  <2>1. o \in Names
    BY <1>2, <1>5 DEF In
  <2>2. In(n, next[o])
    <3>1. <<o, 0>> \notin Owed(n)
      BY <1>2, <1>4
    <3> QED BY <3>1, <1>5, <2>1, OwedMember
  <2>3. PICK i \in 1..Len(next[o]) : next[o][i] = n
    BY <2>2 DEF In
  <2>4. i \in Nat /\ i # 0
    BY <2>3
  <2>5. CASE o = cur
    BY <2>5 DEF QueueFacts, VisitSuccessor, Popped
  <2>6. CASE o # cur
    <3>1. ~Coming(o, i)
      <4>1. <<o, i>> \notin Owed(n)
        BY <1>4, <2>6
      <4> QED BY <4>1, <1>2, <2>1, <2>3, <2>4, OwedMember
    <3> QED BY <2>3, <2>6, <3>1 DEF Coming, Popped
  <2> QED BY <2>5, <2>6
<1>6. Dependences[n] \subseteq issued
  BY <1>2, <1>5, DependenceOf DEF Popped
<1> QED BY <1>1, <1>2, <1>5, <1>6 DEF n

\* One step of binding is one of the abstract order, or none.
LEMMA OrderedStep ==
  ASSUME OwingInv, Next, SingleDefinition(Stmts)
  PROVE  Order!DataflowNext \/ UNCHANGED <<Dependences, issued>>
<1> USE DEF graph, issue, cursor, regs, result
<1>1. /\ TypeInv /\ prev \in [Names -> Seq(Names)] /\ (pc = "graph" => issued = {})
  BY WalkTypes DEF OwingInv
<1>2. Working => EdgeFacts /\ QueueFacts /\ OwedFacts
  BY DEF OwingInv, Working, Edges, Owing
<1>3. CASE EnterBlock
  <2>1. prev' = NoEdges /\ issued' = {}
    BY <1>3 DEF EnterBlock
  <2>2. Dependences' = [v \in Names |-> {}]
    BY <2>1 DEF Dependences, NoEdges
  <2> QED BY <2>1, <2>2 DEF Order!DataflowNext, Order!NewGraph, Order!NoDeps
<1>4. CASE SkipStatement \/ NewPoint \/ ArrayOperand \/ LabelOperand \/ LengthOperand
           \/ LiteralOperand \/ ValueOperand \/ NextStatement
  <2> DEFINE v == S.var
  <2> DEFINE o == Operand
  <2>1. pc = "graph" /\ issued = {}
    BY <1>1, <1>4 DEF SkipStatement, NewPoint, ArrayOperand, LabelOperand, LengthOperand,
       LiteralOperand, ValueOperand, NextStatement, InStatements, InOperands
  <2>2. /\ issued' = issued
        /\ \/ prev' = prev
           \/ v \in Names /\ prev' = [prev EXCEPT ![v] = <<>>]
           \/ v \in Names /\ o \in Names /\ prev' = [prev EXCEPT ![v] = Append(prev[v], o)]
    BY <1>1, <1>2, <1>4, <2>1, GraphSteps DEF Working
  <2> HIDE DEF v, o
  <2>3. CASE prev' = prev
    BY <2>2, <2>3 DEF Dependences
  <2>4. CASE v \in Names /\ prev' = [prev EXCEPT ![v] = <<>>]
    <3>1. Dependences' = [Dependences EXCEPT ![v] = {}]
      <4>1. ASSUME NEW w \in Names
            PROVE  Dependences'[w] = IF w = v THEN {} ELSE Dependences[w]
        <5>1. prev'[w] = IF w = v THEN <<>> ELSE prev[w]
          BY <1>1, <2>4
        <5> QED BY <5>1 DEF Dependences
      <4> QED BY <4>1, <2>4 DEF Dependences
    <3>2. Order!Redefine(v)
      BY <3>1, <2>1, <2>2 DEF Order!Redefine
    <3> QED BY <2>4, <3>2 DEF Order!DataflowNext
  <2>5. CASE v \in Names /\ o \in Names /\ prev' = [prev EXCEPT ![v] = Append(prev[v], o)]
    <3>1. ASSUME NEW w \in Names
          PROVE  Dependences'[w] = IF w = v THEN Dependences[v] \cup {o} ELSE Dependences[w]
      <4>1. CASE w = v
        <5>1. prev[v] \in Seq(Names) /\ prev'[w] = Append(prev[v], o)
          BY <1>1, <2>5, <4>1
        <5>2. \A p : In(p, prev'[w]) <=> In(p, prev[v]) \/ p = o
          <6>1. \A p : In(p, Append(prev[v], o)) <=> In(p, prev[v]) \/ p = o
            BY <2>5, <5>1, AppendIn
          <6> QED BY <5>1, <6>1
        <5>3. \A p : p \in Dependences'[w] <=> In(p, prev'[w])
          BY DEF Dependences, In
        <5> QED BY <2>5, <4>1, <5>2, <5>3, DependenceOf
      <4>2. CASE w # v
        BY <1>1, <2>5, <4>2 DEF Dependences
      <4> QED BY <4>1, <4>2
    <3>2. Dependences' = [Dependences EXCEPT ![v] = Dependences[v] \cup {o}]
      BY <3>1, <2>5 DEF Dependences
    <3>3. Order!Depend(v, o)
      BY <3>2, <2>1, <2>2 DEF Order!Depend
    <3> QED BY <2>5, <3>3 DEF Order!DataflowNext
  <2> QED BY <2>2, <2>3, <2>4, <2>5
<1>5. ASSUME NEW p \in pending, IssueRoot(p) PROVE Order!DataflowNext
  <2>1. p \in Names /\ p \notin issued /\ Dependences[p] \subseteq issued
    BY <1>2, <1>5, RootReady DEF OwingInv, Working, IssueRoot
  <2>2. issued' = issued \cup {p} /\ Dependences' = Dependences
    BY <1>5 DEF IssueRoot, Dependences
  <2> QED BY <2>1, <2>2 DEF Order!DataflowNext, Order!Issue
<1>6. CASE VisitSuccessor
  <2>1. Dependences' = Dependences
    BY <1>6 DEF VisitSuccessor, Dependences
  <2>2. CASE issued' # issued
    <3> DEFINE n == next[cur][k]
    <3>1. n \in Names /\ n \notin issued /\ issued' = issued \cup {n} /\ Dependences[n] \subseteq issued
      BY <1>2, <1>6, <2>2, SuccessorReady DEF OwingInv, Working, VisitSuccessor
    <3> HIDE DEF n
    <3> QED BY <2>1, <3>1 DEF Order!DataflowNext, Order!Issue
  <2> QED BY <2>1, <2>2
<1>7. CASE GraphDone \/ RootsDone \/ PopPoint \/ VisitDone \/ ReleaseOperand \/ BindSuccessor
           \/ FinishBlock \/ FillHash \/ Finished
  BY <1>7 DEF GraphDone, RootsDone, PopPoint, VisitDone, ReleaseOperand, BindSuccessor,
     FinishBlock, FillHash, Finished, vars, Dependences
<1> QED BY <1>3, <1>4, <1>5, <1>6, <1>7 DEF Next

\* The pass does not change the blocks.
LEMMA SameBlocks == [Next]_vars => UNCHANGED blocks
BY DEF Next, EnterBlock, SkipStatement, NewPoint, ArrayOperand, LabelOperand, LengthOperand,
   CodedOperand, LiteralOperand, ValueOperand, NextStatement, GraphDone, IssueRoot, RootsDone,
   PopPoint, VisitSuccessor, VisitDone, ReleaseOperand, BindSuccessor, FinishBlock, FillHash,
   Finished, vars

\* The tables stand still once synthesis is done.
LEMMA DoneStands == pc = "done" /\ Next => UNCHANGED vars
BY DEF Next, EnterBlock, SkipStatement, NewPoint, ArrayOperand, LabelOperand,
   LengthOperand, LiteralOperand, CodedOperand, ValueOperand, InStatements, InOperands,
   NextStatement, GraphDone, IssueRoot, RootsDone, PopPoint, VisitSuccessor, VisitDone,
   ReleaseOperand, BindSuccessor, FinishBlock, FillHash, Finished

\* binding implements the abstract order on programs that define each variable of
\* a block once: no point is issued twice, or before the points it depends on,
\* whatever the order of the hash table and whichever edges are deleted meanwhile.
THEOREM BindingOrdered ==
  ASSUME \A f \in Programs : \A l \in 1..Len(f) : SingleDefinition(f[l].statements)
  PROVE  Spec => ImplementsDataflowOrder
<1>1. Init => Order!DataflowInit
  <2> SUFFICES ASSUME Init PROVE Order!DataflowInit
    OBVIOUS
  <2>1. prev = NoEdges /\ issued = {}
    BY DEF Init, NothingBound
  <2> QED BY <2>1 DEF Order!DataflowInit, Order!NoDeps, Dependences, NoEdges
<1>2. OwingInv /\ blocks \in Programs /\ [Next]_vars => [Order!DataflowNext]_(Order!dataflowVars)
  <2> SUFFICES ASSUME OwingInv, blocks \in Programs, [Next]_vars
               PROVE  Order!DataflowNext \/ UNCHANGED <<Dependences, issued>>
    BY DEF Order!dataflowVars
  <2>1. blocks \in Programs /\ b \in 1..Len(blocks)
    BY DEF OwingInv, RegisterInv, TypeInv, TypeOK, ControlTypes
  <2>2. SingleDefinition(Stmts)
    BY <2>1 DEF Stmts
  <2>3. CASE UNCHANGED vars
    BY <2>3 DEF vars, graph, issue, Dependences
  <2> QED BY <2>2, <2>3, OrderedStep
<1>3. blocks \in Programs /\ [Next]_vars => (blocks \in Programs)'
  BY SameBlocks
<1>4. Init => blocks \in Programs
  BY DEF Init
<1> HIDE DEF OwingInv
<1> QED BY <1>1, <1>2, <1>3, <1>4, OwingInvariant, InitUnbound, PTL
        DEF Spec, ImplementsDataflowOrder, Order!DataflowSpec
=============================================================================
