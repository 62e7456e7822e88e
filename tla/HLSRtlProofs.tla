---------------------------- MODULE HLSRtlProofs ----------------------------
(***************************************************************************)
(* Proofs about the design that the generator writes, for every set of     *)
(* programs, every width of the registers and every environment: its words *)
(* fit their widths, control goes where the program says and never into an *)
(* arm that goes nowhere, a phi sees the block that control came from, an  *)
(* announced result stays, and a clock edge whose conditions hold executes *)
(* the program's statements.  What is kept is TableInv, what synthesis     *)
(* hands over (the hash filled, the state wide enough for every block) and *)
(* the types of the hardware.                                              *)
(***************************************************************************)
EXTENDS HLSRtl, HLSTimeProofs

-----------------------------------------------------------------------------
(* Widths.                                                                 *)

\* The powers of two, counted as the subsets of 1..n.
LEMMA PowerType ==
  ASSUME NEW n \in Nat
  PROVE  2^n \in Nat /\ IsFiniteSet(SUBSET (1..n)) /\ Cardinality(SUBSET (1..n)) = 2^n
<1>1. IsFiniteSet(1..n) /\ Cardinality(1..n) = n
  BY FS_Interval
<1>2. IsFiniteSet(SUBSET (1..n)) /\ Cardinality(SUBSET (1..n)) = 2^n
  BY <1>1, FS_SUBSET
<1> QED BY <1>2, FS_CardinalityType

LEMMA PowerDoubles == ASSUME NEW n \in Nat PROVE 2^(n + 1) = 2^n + 2^n
<1> DEFINE x == n + 1
<1> DEFINE Without == SUBSET (1..n)
<1> DEFINE With == {A \cup {x} : A \in Without}
<1> DEFINE f == [A \in Without |-> A \cup {x}]
<1>1. x \notin 1..n /\ 1..(n + 1) = (1..n) \cup {x}
  OBVIOUS
<1>2. IsFiniteSet(Without) /\ Cardinality(Without) = 2^n
  BY PowerType
<1>3. ExistsBijection(Without, With)
  <2>1. f \in [Without -> With]
    OBVIOUS
  <2>2. \A A, B \in Without : f[A] = f[B] => A = B
    BY <1>1
  <2>3. \A W \in With : \E A \in Without : f[A] = W
    OBVIOUS
  <2>4. f \in Bijection(Without, With)
    BY <2>1, <2>2, <2>3 DEF Bijection, Injection, Surjection, IsInjective
  <2> QED BY <2>4 DEF ExistsBijection
<1>4. IsFiniteSet(With) /\ Cardinality(With) = 2^n
  BY <1>2, <1>3, FS_Bijection
<1>5. SUBSET (1..(n + 1)) = Without \cup With
  <2>1. ASSUME NEW B \in SUBSET ((1..n) \cup {x}), x \in B PROVE B \in With
    <3>1. B \ {x} \in Without /\ B = (B \ {x}) \cup {x}
      BY <2>1
    <3> QED BY <3>1
  <2>2. ASSUME NEW B \in SUBSET ((1..n) \cup {x}), x \notin B PROVE B \in Without
    BY <2>2
  <2>3. Without \cup With \subseteq SUBSET ((1..n) \cup {x})
    OBVIOUS
  <2> QED BY <1>1, <2>1, <2>2, <2>3
<1>6. Without \cap With = {}
  BY <1>1
<1> HIDE DEF Without, With
<1>7. Cardinality(Without \cup With) = 2^n + 2^n - 0
  <2>1. Cardinality(Without \cap With) = 0
    BY <1>6, FS_EmptySet
  <2> QED BY <1>2, <1>4, <2>1, FS_Union
<1>8. 2^(n + 1) = Cardinality(SUBSET (1..(n + 1))) /\ 2^n \in Nat
  <2>1. n + 1 \in Nat
    OBVIOUS
  <2> QED BY <2>1, PowerType
<1>9. Cardinality(SUBSET (1..(n + 1))) = Cardinality(Without \cup With)
  BY <1>5
<1> QED BY <1>7, <1>8, <1>9

LEMMA PowerAbove == \A n \in Nat : n < 2^n
<1> DEFINE A == {n \in Nat : ~(n < 2^n)}
<1> SUFFICES ASSUME A # {} PROVE FALSE
  OBVIOUS
<1>1. PICK n \in A : \A m \in A : n <= m
  BY LeastNatural
<1>2. 0 \notin A
  <2>1. 0 < 2^0
    OBVIOUS
  <2> QED BY <2>1
<1>3. n # 0 /\ n - 1 \in Nat /\ n - 1 \notin A
  <2>1. n \in Nat
    BY <1>1
  <2> HIDE DEF A
  <2> QED BY <1>1, <1>2, <2>1
<1>4. n - 1 < 2^(n - 1)
  BY <1>3
<1>5. 2^n = 2^(n - 1) + 2^(n - 1) /\ 2^(n - 1) \in Nat
  <2>1. (n - 1) + 1 = n
    BY <1>3
  <2> QED BY <1>3, <2>1, PowerDoubles, PowerType
<1> QED BY <1>1, <1>3, <1>4, <1>5

\* A state register has the bits that hold the number of blocks.
LEMMA BitsForType ==
  ASSUME NEW n \in Nat \ {0} PROVE BitsFor(n) \in 1..n /\ n < 2^BitsFor(n)
<1> DEFINE A == {w \in Nat : n < 2^w}
<1>1. A # {}
  BY PowerAbove
<1>2. PICK w \in A : \A v \in A : w <= v
  BY <1>1, LeastNatural
<1>3. w \in Nat /\ w # 0
  <2>1. ~(n < 2^0)
    OBVIOUS
  <2>2. 0 \notin A
    BY <2>1
  <2> QED BY <1>2, <2>2
<1>4. w - 1 \in Nat /\ w - 1 \notin A
  BY <1>2, <1>3
<1>5. 2^(w - 1) <= n
  BY <1>4, PowerType
<1>6. w \in 1..n
  <2>1. w - 1 < 2^(w - 1) /\ 2^(w - 1) \in Nat
    BY <1>4, PowerAbove, PowerType
  <2> QED BY <1>3, <1>5, <2>1
<1>7. \E v \in 1..n : 2^(v - 1) <= n /\ n < 2^v
  BY <1>2, <1>5, <1>6
<1> QED BY <1>7, Zenon DEF BitsFor

LEMMA HalfOf == \A n \in Nat : n \div 2 \in Nat /\ 2 * (n \div 2) <= n
OBVIOUS

LEMMA Modulus ==
  ASSUME NEW m \in Nat \ {0}, NEW n \in Int
  PROVE  n % m \in 0..(m - 1) /\ (n \in 0..(m - 1) => n % m = n) /\ (n = -1 => n % m = m - 1)
OBVIOUS

-----------------------------------------------------------------------------
(* What synthesis hands over.                                              *)

\* The hash of the statements' cycles that schedule fills.
Hashed ==
    pc = "done" => byCycle = [l \in 1..blockNum |->
        [t \in {cycle[l][i] : i \in 1..Len(cycle[l])} |-> {i \in 1..Len(cycle[l]) : cycle[l][i] = t}]]

\* A design is written behind binding, from statements that have the operands it
\* reads, and clocked once it is there; its ports show the variables of loads and of
\* the last return.
Handed ==
    /\ design # "none" => pc = "done"
    /\ design = "written" =>
         /\ Defined /\ return_name = ReturnName
         /\ \A a \in LoadedArrays : rom_addr[a] \in Names /\ rom_addr[a] \in Addresses(a)
    /\ resets # 0 => design = "written"

LEMMA BlockTypes ==
  ASSUME TypeInv
  PROVE  /\ blockNum \in Nat \ {0}
         /\ \A l \in 1..blockNum : /\ Len(blocks[l].statements) \in Nat
                                   /\ \A i \in 1..Len(blocks[l].statements) :
                                        blocks[l].statements[i] \in Statement
<1>1. blocks \in Seq(BasicBlock) /\ Len(blocks) \in Nat /\ b \in 1..Len(blocks)
  BY StatementTypes DEF TypeInv, TypeOK, ControlTypes
<1>2. ASSUME NEW l \in 1..Len(blocks) PROVE blocks[l].statements \in Seq(Statement)
  <2>1. blocks[l] \in BasicBlock
    BY <1>1
  <2> QED BY <2>1 DEF BasicBlock
<1>3. ASSUME NEW l \in 1..Len(blocks)
      PROVE  /\ Len(blocks[l].statements) \in Nat
             /\ \A i \in 1..Len(blocks[l].statements) : blocks[l].statements[i] \in Statement
  BY <1>2
<1> QED BY <1>1, <1>3 DEF blockNum

\* The last of some positions is one of them.
LEMMA LastIn ==
  ASSUME NEW n \in Nat, NEW I \in SUBSET (1..n), I # {} PROVE Last(I) \in I
BY LastExists DEF Last

\* There is a register for every number in reg_map.
LEMMA EnoughRegisters ==
  ASSUME RegisterInv
  PROVE  regNum \in Nat \ {0} /\ \A v \in Names : regMap[v] \in Int /\ regMap[v] < regNum
<1> DEFINE A == {0} \cup {regMap[v] : v \in Names}
<1>1. regMap \in [Names -> Int] /\ colors \in Nat /\ colors >= 5
  BY DEF RegisterInv, TypeInv, TypeOK, RegisterTypes
<1>2. \A v \in Names : regMap[v] <= colors
  BY <1>1, GlobalRange DEF RegisterInv, RegistersInRange
<1>3. A \in SUBSET Int /\ 0 \in A /\ \A a \in A : a <= colors
  BY <1>1, <1>2
<1>4. \E m \in A : \A a \in A : m >= a
  BY <1>1, <1>3, LargestExists
<1>5. \E m \in A : m >= 0 /\ \A v \in Names : regMap[v] <= m
  BY <1>1, <1>4
<1> DEFINE m == CHOOSE m \in A : m >= 0 /\ \A v \in Names : regMap[v] <= m
<1>6. m \in A /\ m >= 0 /\ \A v \in Names : regMap[v] <= m
  BY <1>5
<1>7. regNum = 1 + m
  BY DEF regNum
<1> HIDE DEF m
<1> QED BY <1>1, <1>3, <1>6, <1>7

\* The position of a label is that of a block that has it, or -1.
LEMMA BlockOfLabel ==
  ASSUME TypeInv, NEW label
  PROVE  /\ get_name_to_block(label) \in -1..(blockNum - 1)
         /\ get_name_to_block(label) >= 0 => blocks[get_name_to_block(label) + 1].label = label
         /\ get_name_to_block(label) < 0 => \A l \in 1..blockNum : blocks[l].label # label
<1>1. blockNum \in Nat
  BY BlockTypes
<1>2. CASE \E l \in 1..blockNum : blocks[l].label = label
  <2> DEFINE A == {l \in 1..blockNum : blocks[l].label = label}
  <2>1. A # {} /\ A \subseteq Nat
    BY <1>2
  <2>2. PICK l \in A : \A h \in A : l <= h
    BY <2>1, LeastNatural
  <2>3. \A h \in 1..(l - 1) : h \in 1..blockNum /\ h \notin A
    BY <1>1, <2>2
  <2>4. \E h \in 1..blockNum : blocks[h].label = label /\ \A m \in 1..(h - 1) : blocks[m].label # label
    BY <2>2, <2>3
  <2> DEFINE d == CHOOSE h \in 1..blockNum :
                    blocks[h].label = label /\ \A m \in 1..(h - 1) : blocks[m].label # label
  <2>5. d \in 1..blockNum /\ blocks[d].label = label
    BY <2>4, Zenon
  <2>6. get_name_to_block(label) = d - 1
    BY <1>2 DEF get_name_to_block
  <2> HIDE DEF d
  <2>7. (d - 1) + 1 = d
    BY <2>5
  <2> QED BY <1>1, <2>5, <2>6, <2>7
<1>3. CASE ~ \E l \in 1..blockNum : blocks[l].label = label
  <2>1. get_name_to_block(label) = -1
    BY <1>3 DEF get_name_to_block
  <2> QED BY <1>1, <1>3, <2>1
<1> QED BY <1>2, <1>3

\* A position keeps its number in the bits of the state; -1 becomes one that is no
\* block's.
LEMMA StateFits ==
  ASSUME TypeInv, NEW n \in -1..blockNum
  PROVE  /\ ToState(n) \in 0..(2^StateWidth - 1)
         /\ n >= 0 => ToState(n) = n
         /\ n < 0 => ToState(n) >= blockNum
<1> DEFINE m == 2^StateWidth
<1>1. blockNum \in Nat \ {0} /\ m \in Nat /\ blockNum < m
  <2>1. blockNum \in Nat \ {0}
    BY BlockTypes
  <2>2. StateWidth \in 1..blockNum /\ blockNum < 2^StateWidth
    BY <2>1, BitsForType DEF StateWidth
  <2> QED BY <2>1, <2>2, PowerType
<1>2. ToState(n) = n % m
  BY DEF ToState
<1> HIDE DEF m
<1>3. m \in Nat \ {0} /\ n \in Int
  BY <1>1
<1>4. /\ n % m \in 0..(m - 1) /\ (n \in 0..(m - 1) => n % m = n)
      /\ (n = -1 => n % m = m - 1)
  BY <1>3, Modulus
<1>5. ToState(n) \in 0..(m - 1) /\ (n >= 0 => ToState(n) = n) /\ (n < 0 => ToState(n) >= blockNum)
  BY <1>1, <1>2, <1>4
<1> QED BY <1>5 DEF m

\* The variables that address the arrays are names.
LEMMA AddressTypes ==
  ASSUME TypeInv, Defined, NEW a \in LoadedArrays PROVE Addresses(a) \subseteq Names
<1> DEFINE l == Last(LoadBlocks(a))
<1>1. l \in 1..blockNum
  <2>1. LoadBlocks(a) # {} /\ LoadBlocks(a) \subseteq 1..blockNum /\ blockNum \in Nat
    BY BlockTypes DEF LoadedArrays, LoadBlocks
  <2> QED BY <2>1, LastIn
<1> HIDE DEF l
<1>2. ASSUME NEW X \in SUBSET LoadsOf(l, a), X # {}
      PROVE  blocks[l].statements[Last(X)].ops[2] \in Names
  <2>1. Len(blocks[l].statements) \in Nat /\ X \subseteq 1..Len(blocks[l].statements)
    BY <1>1, BlockTypes DEF LoadsOf, StatementsOf
  <2>2. Last(X) \in X
    BY <1>2, <2>1, LastIn
  <2> DEFINE s == blocks[l].statements[Last(X)]
  <2>3. s \in Statement /\ s.type = "LOAD" /\ HasOperands(s)
    BY <1>1, <2>1, <2>2, BlockTypes DEF LoadsOf, StatementsOf, Defined
  <2> HIDE DEF s
  <2>4. Len(s.ops) >= 2 /\ s.ops \in Seq(Names)
    BY <2>3 DEF HasOperands, Statement
  <2>5. s.ops[2] \in Names
    BY <2>4
  <2> QED BY <2>5 DEF s
<1> QED BY <1>2 DEF Addresses, l

-----------------------------------------------------------------------------
(* The hardware's registers.                                               *)

HardwareTypes ==
    /\ resets \in 0..MaxResets /\ around \in Environments /\ done_flag_r \in BOOLEAN
    /\ block_counter = 0
    /\ resets = 0 => state = 0 /\ prev_state = 0
    /\ resets # 0 => /\ {state, prev_state} \subseteq 0..(2^StateWidth - 1)
                     /\ reg \in [0..(regNum - 1) -> Values]

RtlInv == TableInv /\ Hashed /\ Handed /\ HardwareTypes /\ PhiSeesPredecessor

LEMMA RtlFacts ==
  ASSUME RtlInv
  PROVE  /\ RegisterInv /\ TypeInv
         /\ Running => pc = "done" /\ Defined /\ resets # 0
BY DEF RtlInv, TableInv, TimeInv, OrderInv, OwingInv, RegisterInv, Handed, HardwareTypes, Running

LEMMA WordTypes ==
  /\ {0, 1} \subseteq Values /\ Values \subseteq Nat
  /\ \A x \in Nat : x % 2^RegWidth \in Values
<1>1. RegWidth \in Nat /\ RegWidth >= 1
  BY RtlAssumption
<1>2. 2^RegWidth \in Nat /\ 2^RegWidth > 1
  BY <1>1, PowerType, PowerAbove
<1> DEFINE m == 2^RegWidth
<1>3. m \in Nat \ {0} /\ m > 1 /\ Values = 0..(m - 1)
  BY <1>2 DEF Values
<1> HIDE DEF m
<1>4. ASSUME NEW x \in Nat PROVE x % m \in Values
  <2>1. x \in Int
    OBVIOUS
  <2> QED BY <1>3, <2>1, Modulus
<1>5. {0, 1} \subseteq Values /\ Values \subseteq Nat
  BY <1>3
<1> QED BY <1>4, <1>5 DEF m

\* What stands for a name in an expression is a word.
LEMMA ValueType ==
  ASSUME RegisterInv, HardwareTypes, resets # 0, NEW v \in Names
  PROVE  ValueOf(v) \in Values
<1>1. regMap[v] \in Int /\ regMap[v] < regNum /\ regNum \in Nat
  BY EnoughRegisters
<1>2. CASE regMap[v] >= 0
  BY <1>1, <1>2 DEF ValueOf, HardwareTypes
<1>3. CASE ~(regMap[v] >= 0) /\ v \in DOMAIN Literals
  BY <1>3, RtlAssumption DEF ValueOf
<1>4. CASE ~(regMap[v] >= 0) /\ v \notin DOMAIN Literals
  <2>1. around.n \in Values
    BY RtlAssumption DEF HardwareTypes
  <2>2. around.n \in Nat
    BY <2>1, WordTypes
  <2>3. around.n % 2 \in {0, 1}
    BY <2>2
  <2> QED BY <1>4, <2>3, WordTypes DEF ValueOf, PortN
<1> QED BY <1>2, <1>3, <1>4

\* So is what a statement assigns.
LEMMA RightType ==
  ASSUME RtlInv, Running, NEW l \in 1..blockNum, NEW i \in 1..Len(blocks[l].statements),
         Assigns(blocks[l].statements[i])
  PROVE  Right(blocks[l].statements[i]) \in Values
<1> DEFINE s == blocks[l].statements[i]
<1>1. /\ RegisterInv /\ TypeInv /\ HardwareTypes /\ resets # 0 /\ Defined
  BY RtlFacts DEF RtlInv
<1>2. s \in Statement /\ HasOperands(s)
  BY <1>1, BlockTypes DEF Defined
<1> HIDE DEF s
<1>3. s.ops \in Seq(Names) /\ Len(s.ops) \in Nat
  BY <1>2 DEF Statement
<1>4. \A v \in Names : ValueOf(v) \in Values /\ ValueOf(v) \in Nat
  BY <1>1, ValueType, WordTypes
<1>5. CASE s.type \in {"ADD", "MUL"}
  <2>1. Len(s.ops) >= 2
    BY <1>2, <1>5 DEF HasOperands
  <2> DEFINE x == ValueOf(s.ops[1])
  <2> DEFINE y == ValueOf(s.ops[2])
  <2>2. x \in Nat /\ y \in Nat
    BY <1>3, <1>4, <2>1
  <2>3. Right(s) = (x + y) % 2^RegWidth \/ Right(s) = (x * y) % 2^RegWidth
    BY <1>5 DEF Right
  <2> HIDE DEF x, y
  <2>4. x + y \in Nat /\ x * y \in Nat
    BY <2>2
  <2> QED BY <2>3, <2>4, WordTypes DEF s
<1>6. CASE s.type = "GT"
  <2>1. Right(s) \in {0, 1}
    BY <1>6 DEF Right
  <2> QED BY <2>1, WordTypes DEF s
<1>7. CASE s.type = "ASSIGN"
  <2>1. Len(s.ops) >= 1
    BY <1>2, <1>7 DEF HasOperands
  <2>2. Right(s) = ValueOf(s.ops[1])
    BY <1>7 DEF Right
  <2> QED BY <1>3, <1>4, <2>1, <2>2 DEF s
<1>8. CASE s.type = "LOAD"
  <2>1. Len(s.ops) >= 2
    BY <1>2, <1>8 DEF HasOperands
  <2>2. Right(s) = around.ram[s.ops[1]][ValueOf(rom_addr[s.ops[1]])]
    BY <1>8 DEF Right, Delivered
  <2>3. s.ops[1] \in LoadedArrays
    <3>1. i \in LoadsOf(l, s.ops[1])
      BY <1>8 DEF LoadsOf, StatementsOf, s
    <3> QED BY <1>3, <2>1, <3>1 DEF LoadedArrays, LoadBlocks
  <2>4. rom_addr[s.ops[1]] \in Names
    BY <2>3 DEF RtlInv, Handed, Running
  <2>5. around.ram \in [Names -> [Values -> Values]]
    BY <1>1, RtlAssumption DEF HardwareTypes
  <2> QED BY <1>3, <1>4, <2>1, <2>2, <2>4, <2>5 DEF s
<1>9. CASE s.type = "PHI"
  <2>1. PhiMatches(s) # {} /\ Right(s) = ValueOf(PhiOperand(s))
    BY <1>9 DEF Assigns, Right, s
  <2>2. Len(s.ops) \div 2 \in Nat /\ 2 * (Len(s.ops) \div 2) <= Len(s.ops)
    BY <1>3, HalfOf
  <2>3. PhiMatches(s) \subseteq 1..(Len(s.ops) \div 2)
    BY DEF PhiMatches
  <2> DEFINE h == Last(PhiMatches(s))
  <2>4. h \in 1..(Len(s.ops) \div 2)
    BY <2>1, <2>2, <2>3, LastIn
  <2>5. PhiOperand(s) = s.ops[2 * h - 1]
    BY DEF PhiOperand
  <2>6. 2 * h - 1 \in 1..Len(s.ops)
    <3> DEFINE half == Len(s.ops) \div 2
    <3>1. half \in Nat /\ 2 * half <= Len(s.ops) /\ h \in 1..half
      BY <2>2, <2>4
    <3> HIDE DEF half, h
    <3> QED BY <1>3, <3>1
  <2> HIDE DEF h
  <2> QED BY <1>3, <1>4, <2>1, <2>5, <2>6 DEF s
<1> QED BY <1>5, <1>6, <1>7, <1>8, <1>9 DEF Assigns, Emitted, s

-----------------------------------------------------------------------------
(* Control.                                                                *)

\* An arm has statements of its block, and it is never the one that falls through to
\* the next block: block_counter stays 0, and a block that ends with cycle 0 has a
\* statement there.
LEMMA ArmFacts ==
  ASSUME RtlInv, Running, state < blockNum
  PROVE  /\ state \in 0..(blockNum - 1) /\ state + 1 \in 1..blockNum
         /\ Len(Block) \in Nat /\ (\A i \in 1..Len(Block) : Block[i] \in Statement)
         /\ Arm \subseteq 1..Len(Block)
         /\ ~FallsThrough
<1> DEFINE l == state + 1
<1>1. TypeInv /\ pc = "done" /\ resets # 0
  BY RtlFacts
<1>2. blockNum \in Nat \ {0} /\ state \in Nat
  <2>1. state \in 0..(2^StateWidth - 1)
    BY <1>1 DEF RtlInv, HardwareTypes
  <2> QED BY <1>1, <2>1, BlockTypes
<1>3. state \in 0..(blockNum - 1) /\ l \in 1..blockNum
  BY <1>2
<1> DEFINE ss == blocks[l].statements
<1> DEFINE c == cycle[l]
<1> HIDE DEF l
<1>4. Len(ss) \in Nat /\ \A i \in 1..Len(ss) : ss[i] \in Statement
  BY <1>1, <1>3, BlockTypes
<1>5. /\ byCycle[l] = [t \in {c[i] : i \in 1..Len(c)} |-> {i \in 1..Len(c) : c[i] = t}]
  BY <1>1, <1>3 DEF RtlInv, Hashed
<1>6. /\ Len(c) = Len(ss) /\ (\A i \in 1..Len(ss) : ss[i].var = NoVar => endCycle[l] = c[i] + 1)
      /\ l \in 1..Len(cycle) /\ (endCycle[l] = 1 => \E i \in 1..Len(ss) : c[i] = 0)
      /\ l \in 1..Len(endCycle)
  BY <1>1, <1>3, TableDone DEF RtlInv, TableInv, Table, BlockTable, blockNum
<1>7. c \in Seq(Nat) /\ \A i \in 1..Len(c) : c[i] \in Nat
  <2>1. cycle \in Seq(Seq(Nat))
    BY <1>1 DEF TypeInv, TypeOK, ResultTypes
  <2>2. c \in Seq(Nat)
    BY <1>6, <2>1
  <2> HIDE DEF c
  <2> QED BY <2>2
<1> HIDE DEF ss, c
<1>8. Arm \subseteq 1..Len(ss)
  BY <1>5, <1>6 DEF Arm, l
<1>9. ~FallsThrough
  <2> SUFFICES ASSUME FallsThrough PROVE FALSE
    OBVIOUS
  <2>1. 0 = endCycle[l] - 1 /\ 0 \notin {c[h] : h \in 1..Len(c)}
    BY <1>5 DEF FallsThrough, RtlInv, HardwareTypes, l
  <2>2. endCycle[l] \in Nat
    BY <1>1, <1>6 DEF TypeInv, TypeOK, ResultTypes
  <2>3. endCycle[l] = 1
    BY <2>1, <2>2
  <2> QED BY <1>6, <2>1, <2>3
<1> QED BY <1>3, <1>4, <1>8, <1>9 DEF Block, ss, l

\* A label of a branch leads to its block, or outside all blocks.
LEMMA BranchLeads ==
  ASSUME RtlInv, Running, state < blockNum, Branches(state + 1) # {},
         NEW label \in Labels(state + 1)
  PROVE  LET t == ToState(get_name_to_block(label)) IN
         /\ t \in 0..(2^StateWidth - 1)
         /\ IF t < blockNum THEN t \in Successors(state) ELSE ~LabelsKnown(state)
<1> DEFINE n == get_name_to_block(label)
<1> DEFINE t == ToState(n)
<1>1. TypeInv
  BY RtlFacts
<1>2. /\ n \in -1..(blockNum - 1) /\ blockNum \in Nat
      /\ n >= 0 => blocks[n + 1].label = label
      /\ n < 0 => \A l \in 1..blockNum : blocks[l].label # label
  BY <1>1, BlockOfLabel, BlockTypes
<1> HIDE DEF n
<1>3. n \in -1..blockNum
  BY <1>2
<1>4. t \in 0..(2^StateWidth - 1) /\ (n >= 0 => t = n) /\ (n < 0 => t >= blockNum)
  BY <1>1, <1>3, StateFits
<1> HIDE DEF t
<1>5. CASE n >= 0
  <2>1. t \in 0..(blockNum - 1) /\ blocks[t + 1].label \in Labels(state + 1)
    BY <1>2, <1>4, <1>5
  <2>2. t \in Successors(state)
    BY <2>1 DEF Successors
  <2>3. t < blockNum
    BY <1>2, <2>1
  <2> QED BY <1>4, <2>2, <2>3 DEF n, t
<1>6. CASE n < 0
  <2>1. ~LabelsKnown(state)
    BY <1>2, <1>6 DEF LabelsKnown
  <2>2. ~(t < blockNum)
    <3>1. t >= blockNum /\ t \in Int
      BY <1>4, <1>6
    <3> QED BY <1>2, <3>1
  <2> QED BY <1>4, <2>1, <2>2 DEF n, t
<1> QED BY <1>2, <1>5, <1>6

\* A clock edge in a block stays there, follows the program or stalls at a branch
\* without a target; done_flag rises where the block returns.
LEMMA ControlStep ==
  ASSUME RtlInv, ClockBlock
  PROVE  /\ state \in 0..(blockNum - 1)
         /\ \/ state' = state /\ prev_state' = prev_state
            \/ state' = state /\ prev_state' = state /\ Stalls(state)
            \/ /\ prev_state' = state /\ state' \in 0..(2^StateWidth - 1)
               /\ IF state' < blockNum THEN state' \in Successors(state) ELSE ~LabelsKnown(state)
               /\ Branches(state + 1) # {} \/ ~Returns(state + 1)
         /\ done_flag_r' => done_flag_r \/ Returns(state + 1)
<1>1. Running /\ state < blockNum /\ TypeInv
  BY RtlFacts DEF ClockBlock
<1>2. /\ state \in 0..(blockNum - 1) /\ state + 1 \in 1..blockNum /\ Len(Block) \in Nat
      /\ Arm \subseteq 1..Len(Block) /\ ~FallsThrough
  BY <1>1, ArmFacts
<1>3. done_flag_r' => done_flag_r \/ Returns(state + 1)
  BY <1>2 DEF ClockBlock, ReturnsHere, ArmOf, Returns, Block
<1>4. CASE ArmOf({"BR"}) = {}
  BY <1>2, <1>3, <1>4 DEF ClockBlock, Leaves
<1>5. CASE ArmOf({"BR"}) # {}
  <2> DEFINE i == Last(ArmOf({"BR"}))
  <2> DEFINE s == Block[i]
  <2>1. i \in 1..Len(Block) /\ s.type = "BR"
    <3>1. ArmOf({"BR"}) \in SUBSET (1..Len(Block))
      BY <1>2 DEF ArmOf
    <3>2. i \in ArmOf({"BR"})
      BY <1>2, <1>5, <3>1, LastIn
    <3> HIDE DEF i
    <3> QED BY <3>1, <3>2 DEF ArmOf
  <2>2. state' = Target(s) /\ prev_state' = state
    BY <1>2, <1>5 DEF ClockBlock, Leaves
  <2> HIDE DEF i
  <2>3. i \in Branches(state + 1) /\ s = blocks[state + 1].statements[i]
    BY <2>1 DEF Branches, Block
  <2> HIDE DEF s
  <2>4. CASE Len(s.ops) = 1
    <3>1. s.ops[1] \in Labels(state + 1)
      <4>1. Len(s.ops) # 3
        BY <2>4
      <4> QED BY <2>3, <4>1 DEF Labels
    <3>2. state' = ToState(get_name_to_block(s.ops[1]))
      BY <2>2, <2>4 DEF Target
    <3> QED BY <1>1, <1>2, <1>3, <2>2, <2>3, <3>1, <3>2, BranchLeads
  <2>5. CASE Len(s.ops) = 3
    <3> DEFINE label == IF ValueOf(s.ops[1]) # 0 THEN s.ops[2] ELSE s.ops[3]
    <3>1. label \in Labels(state + 1)
      BY <2>3, <2>5 DEF Labels
    <3>2. state' = ToState(get_name_to_block(label))
      BY <2>2, <2>5 DEF Target
    <3> HIDE DEF label
    <3> QED BY <1>1, <1>2, <1>3, <2>2, <2>3, <3>1, <3>2, BranchLeads
  <2>6. CASE Len(s.ops) \notin {1, 3}
    <3>1. state' = state
      BY <2>2, <2>6 DEF Target
    <3>2. Stalls(state)
      BY <2>3, <2>6 DEF Stalls
    <3> QED BY <1>2, <1>3, <2>2, <3>1, <3>2
  <2> QED BY <2>4, <2>5, <2>6
<1> QED BY <1>4, <1>5

-----------------------------------------------------------------------------
(* The invariant.                                                          *)

\* When synthesis is done, what the hardware takes from its tables stands still.
LEMMA SameTables ==
  ASSUME UNCHANGED vars
  PROVE  /\ blockNum' = blockNum /\ StateWidth' = StateWidth /\ regNum' = regNum
         /\ LoadedArrays' = LoadedArrays /\ (Defined <=> Defined')
         /\ ReturnName' = ReturnName /\ \A a : Addresses(a)' = Addresses(a)
         /\ \A n : Successors(n)' = Successors(n) /\ (Stalls(n)' <=> Stalls(n))
<1>1. UNCHANGED <<blocks, endCycle, byCycle, regMap>>
  BY DEF vars, regs, result
<1>2. blockNum' = blockNum
  BY <1>1 DEF blockNum
<1>3. StateWidth' = StateWidth /\ regNum' = regNum
  BY <1>1, <1>2 DEF StateWidth, BitsFor, regNum
<1>4. LoadedArrays' = LoadedArrays
  BY <1>1, <1>2 DEF LoadedArrays, LoadBlocks, LoadsOf, StatementsOf
<1>5. Defined <=> Defined'
  BY <1>1, <1>2 DEF Defined, maxBlockCycle, HasOperands
<1>6. \A n : Successors(n)' = Successors(n) /\ (Stalls(n)' <=> Stalls(n))
  BY <1>1, <1>2 DEF Successors, Branches, Returns, Labels, Stalls
<1>7. ReturnName' = ReturnName /\ \A a : Addresses(a)' = Addresses(a)
  BY <1>1, <1>2 DEF ReturnName, ReturnBlocks, Addresses, LoadBlocks, LoadsOf, StatementsOf, Last
<1> QED BY <1>2, <1>3, <1>4, <1>5, <1>6, <1>7

LEMMA HashedStep == Hashed /\ [Next]_vars => Hashed'
<1> SUFFICES ASSUME Hashed, [Next]_vars, pc' = "done"
             PROVE  byCycle' = [l \in 1..blockNum' |->
                      [t \in {cycle'[l][i] : i \in 1..Len(cycle'[l])} |->
                         {i \in 1..Len(cycle'[l]) : cycle'[l][i] = t}]]
  BY DEF Hashed
<1>1. CASE FillHash
  BY <1>1 DEF FillHash, blockNum
<1>2. CASE ~FillHash
  <2>1. pc = "done"
    BY <1>2 DEF Next, vars, EnterBlock, SkipStatement, NewPoint, ArrayOperand, LabelOperand,
       LengthOperand, LiteralOperand, CodedOperand, ValueOperand, InStatements, InOperands,
       NextStatement, GraphDone, IssueRoot, RootsDone, PopPoint, VisitSuccessor, StepOver,
       StartIssue, VisitDone, ReleaseOperand, BindSuccessor, FinishBlock, Finished
  <2>2. UNCHANGED <<byCycle, cycle, blocks>>
    BY <2>1, DoneStands DEF vars, result
  <2>3. blockNum' = blockNum
    BY <2>2 DEF blockNum
  <2>4. byCycle = [l \in 1..blockNum |->
          [t \in {cycle[l][i] : i \in 1..Len(cycle[l])} |->
             {i \in 1..Len(cycle[l]) : cycle[l][i] = t}]]
    BY <2>1 DEF Hashed
  <2> QED BY <2>2, <2>3, <2>4
<1> QED BY <1>1, <1>2

LEMMA RtlStarts == RtlInit => RtlInv
<1> SUFFICES ASSUME RtlInit PROVE RtlInv
  OBVIOUS
<1>1. TableInv /\ pc = "enter" /\ design = "none" /\ resets = 0
  BY TableInvariant, InitUnbound DEF RtlInit, GenerateInit, Init, NothingBound
<1>2. Hashed /\ Handed /\ PhiSeesPredecessor
  BY <1>1 DEF Hashed, Handed, PhiSeesPredecessor, Running
<1>3. HardwareTypes
  BY <1>1, RtlAssumption DEF RtlInit, HardwareTypes
<1> QED BY <1>1, <1>2, <1>3 DEF RtlInv

\* Synthesis does not touch the hardware, nor its tables once they are written.
LEMMA SynthesisKeeps ==
  ASSUME RtlInv, Synthesize \/ UNCHANGED rtlVars
  PROVE  RtlInv'
<1>1. UNCHANGED <<resets, around, state, prev_state, block_counter, done_flag_r, reg>>
  BY DEF Synthesize, hardware, rtlVars
<1>2. [Next]_vars
  BY DEF Synthesize, WriteDesign, GenerateUndefined, rtlVars, generatorVars
<1>3. TableInv' /\ Hashed'
  BY <1>2, TableInvariant, HashedStep DEF RtlInv
<1>4. CASE design # "none"
  <2>1. UNCHANGED vars /\ UNCHANGED text /\ pc = "done"
    BY <1>4, DoneStands
       DEF RtlInv, Handed, Synthesize, WriteDesign, GenerateUndefined, Generating, rtlVars, generatorVars
  <2>2. UNCHANGED <<pc, design, rom_addr, return_name, blocks>>
    BY <2>1 DEF vars, text
  <2>3. Handed'
    BY <1>1, <2>1, <2>2, SameTables DEF RtlInv, Handed
  <2>4. HardwareTypes'
    BY <1>1, <2>1, SameTables DEF RtlInv, HardwareTypes
  <2>5. PhiSeesPredecessor'
    BY <1>1, <2>1, <2>2, SameTables DEF RtlInv, PhiSeesPredecessor, Running
  <2> QED BY <1>3, <2>3, <2>4, <2>5 DEF RtlInv
<1>5. CASE design = "none"
  <2>1. resets = 0
    BY <1>5 DEF RtlInv, Handed
  <2>2. HardwareTypes' /\ PhiSeesPredecessor'
    <3>1. resets' = 0
      BY <1>1, <2>1
    <3> QED BY <1>1, <2>1, <3>1 DEF RtlInv, HardwareTypes, PhiSeesPredecessor, Running
  <2>3. Handed'
    <3>1. CASE WriteDesign
      <4>1. /\ pc = "done" /\ pc' = pc /\ design' = "written" /\ Defined /\ UNCHANGED vars
            /\ return_name' = ReturnName
        BY <3>1 DEF WriteDesign, Generating, vars
      <4>2. ASSUME NEW a \in LoadedArrays PROVE rom_addr'[a] \in Names /\ rom_addr'[a] \in Addresses(a)
        <5>1. TypeInv
          BY RtlFacts
        <5>2. rom_addr'[a] \in Addresses(a)
          BY <3>1, <4>2 DEF WriteDesign
        <5> QED BY <4>1, <4>2, <5>1, <5>2, AddressTypes
      <4> QED BY <4>1, <4>2, SameTables DEF Handed
    <3>2. CASE GenerateUndefined
      BY <1>1, <2>1, <3>2 DEF GenerateUndefined, Generating, Handed, vars
    <3>3. CASE design' = "none"
      BY <1>1, <2>1, <3>3 DEF Handed
    <3> QED BY <1>5, <3>1, <3>2, <3>3 DEF Synthesize, text, rtlVars, generatorVars
  <2> QED BY <1>3, <2>2, <2>3 DEF RtlInv
<1> QED BY <1>4, <1>5

\* Clearing the registers brings the design to its first block.
LEMMA DefaultKeeps ==
  ASSUME RtlInv, DefaultRegs, UNCHANGED generatorVars, design = "written",
         resets' \in 1..MaxResets, around' \in Environments
  PROVE  RtlInv'
<1>1. UNCHANGED vars /\ UNCHANGED <<design, rom_addr, return_name, pc>>
  BY DEF generatorVars, text, vars
<1>2. TableInv' /\ Hashed'
  BY <1>1, TableInvariant, HashedStep DEF RtlInv
<1>3. Handed'
  BY <1>1, SameTables DEF RtlInv, Handed
<1>4. state' = 0 /\ prev_state' = 0 /\ block_counter' = 0 /\ done_flag_r' = done_flag_r
      /\ reg' = [g \in 0..(regNum - 1) |-> 0]
  BY DEF DefaultRegs
<1>5. 0 \in 0..(2^StateWidth - 1)
  <2>1. 0 \in -1..blockNum /\ TypeInv
    BY RtlFacts, BlockTypes
  <2> QED BY <2>1, StateFits
<1>6. HardwareTypes'
  <2>1. reg' \in [0..(regNum - 1) -> Values]
    BY <1>4, WordTypes
  <2>2. resets' \in 0..MaxResets /\ resets' # 0
    BY RtlAssumption
  <2> QED BY <1>1, <1>4, <1>5, <2>1, <2>2, SameTables DEF RtlInv, HardwareTypes
<1>7. PhiSeesPredecessor'
  BY <1>4 DEF PhiSeesPredecessor
<1> QED BY <1>2, <1>3, <1>6, <1>7 DEF RtlInv

LEMMA ClockKeeps == RtlInv /\ ClockBlock => RtlInv'
<1> SUFFICES ASSUME RtlInv, ClockBlock PROVE RtlInv'
  OBVIOUS
<1>1. /\ UNCHANGED vars /\ UNCHANGED <<design, rom_addr, return_name, pc, resets, around>>
      /\ Running /\ state < blockNum
  BY DEF ClockBlock, generatorVars, text, vars
<1>2. TableInv' /\ Hashed'
  BY <1>1, TableInvariant, HashedStep DEF RtlInv
<1>3. Handed'
  BY <1>1, SameTables DEF RtlInv, Handed
<1>4. /\ state \in 0..(blockNum - 1)
      /\ \/ state' = state /\ prev_state' = prev_state
         \/ state' = state /\ prev_state' = state /\ Stalls(state)
         \/ /\ prev_state' = state /\ state' \in 0..(2^StateWidth - 1)
            /\ IF state' < blockNum THEN state' \in Successors(state) ELSE ~LabelsKnown(state)
  BY ControlStep
<1>5. ASSUME NEW g \in 0..(regNum - 1) PROVE NextValue(g) \in Values
  <2>1. CASE Writers(g) = {}
    BY <1>1, <1>5, <2>1, RtlFacts DEF NextValue, RtlInv, HardwareTypes
  <2>2. CASE Writers(g) # {}
    <3>1. Arm \subseteq 1..Len(Block) /\ Len(Block) \in Nat /\ state + 1 \in 1..blockNum
      BY <1>1, ArmFacts
    <3>2. Writers(g) \in SUBSET (1..Len(Block))
      BY <3>1 DEF Writers, ArmOf
    <3>3. Last(Writers(g)) \in Writers(g)
      BY <2>2, <3>1, <3>2, LastIn
    <3> DEFINE i == Last(Writers(g))
    <3>4. i \in 1..Len(Block) /\ Assigns(Block[i])
      BY <3>2, <3>3 DEF Writers
    <3>5. NextValue(g) = Right(Block[i])
      BY <2>2 DEF NextValue
    <3> HIDE DEF i
    <3> QED BY <1>1, <3>1, <3>4, <3>5, RightType DEF Block
  <2> QED BY <2>1, <2>2
<1>6. HardwareTypes'
  <2>1. reg' \in [0..(regNum - 1) -> Values]
    BY <1>5 DEF ClockBlock
  <2>2. block_counter' = 0 /\ done_flag_r' \in BOOLEAN
    BY DEF ClockBlock, RtlInv, HardwareTypes
  <2>3. resets # 0 /\ resets \in 0..MaxResets /\ around \in Environments
        /\ {state, prev_state} \subseteq 0..(2^StateWidth - 1)
    BY <1>1, RtlFacts DEF RtlInv, HardwareTypes
  <2>4. {state', prev_state'} \subseteq 0..(2^StateWidth - 1)
    BY <1>4, <2>3
  <2> QED BY <1>1, <2>1, <2>2, <2>3, <2>4, SameTables DEF HardwareTypes
<1>7. PhiSeesPredecessor'
  BY <1>1, <1>4, SameTables DEF RtlInv, PhiSeesPredecessor, Running
<1> QED BY <1>2, <1>3, <1>6, <1>7 DEF RtlInv

LEMMA RtlKeeps == RtlInv /\ [RtlNext]_rtlVars => RtlInv'
<1> SUFFICES ASSUME RtlInv, [RtlNext]_rtlVars PROVE RtlInv'
  OBVIOUS
<1>1. resets \in 0..MaxResets /\ around \in Environments
  BY DEF RtlInv, HardwareTypes
<1>2. CASE Synthesize \/ UNCHANGED rtlVars
  BY <1>2, SynthesisKeeps
<1>3. CASE Reset
  <2>1. resets' \in 1..MaxResets
    BY <1>1, <1>3, RtlAssumption DEF Reset
  <2> QED BY <1>3, <2>1, DefaultKeeps DEF Reset
<1>4. CASE ClockDefault
  <2>1. resets' = resets /\ resets # 0 /\ design = "written" /\ around' = around
    BY <1>1, <1>4 DEF ClockDefault, Running
  <2>2. resets' \in 1..MaxResets
    BY <1>1, <2>1, RtlAssumption
  <2> QED BY <1>1, <1>4, <2>1, <2>2, DefaultKeeps DEF ClockDefault
<1>5. CASE ClockBlock
  BY <1>5, ClockKeeps
<1> QED BY <1>2, <1>3, <1>4, <1>5 DEF RtlNext, Clock

-----------------------------------------------------------------------------
(* Values: a clock edge against the statements of its arm, executed one    *)
(* after the other.                                                        *)

\* An operand of a readable name has the value the program's register has.
LEMMA ValueAgrees ==
  ASSUME RtlInv, Running, NEW v \in Names, Readable(v)
  PROVE  Machine!ValueIn(RegisterFile, v) = ValueOf(v)
<1>1. regMap[v] \in Int /\ around.n \in Values /\ around.n \in Nat
  BY RtlFacts, EnoughRegisters, RtlAssumption, WordTypes DEF RtlInv, HardwareTypes
<1>2. CASE v \in DOMAIN Literals
  BY <1>1, <1>2 DEF Machine!ValueIn, ValueOf, Readable
<1>3. CASE v \notin DOMAIN Literals /\ regMap[v] >= 0
  BY <1>3 DEF Machine!ValueIn, ValueOf, RegisterFile
<1>4. CASE v \notin DOMAIN Literals /\ ~(regMap[v] >= 0)
  <2>1. around.n % 2 = around.n
    BY <1>1, <1>4 DEF Readable
  <2> QED BY <1>4, <2>1 DEF Machine!ValueIn, ValueOf, RegisterFile, PortN, Readable
<1> QED BY <1>2, <1>3, <1>4

\* A comparison of numbers below half the words is the same signed and unsigned.
LEMMA SmallSigned ==
  ASSUME NEW x \in 0..(2^(RegWidth - 1) - 1)
  PROVE  x \in Nat /\ Machine!SignedOf(x) = x
<1> DEFINE m == 2^(RegWidth - 1)
<1>1. m \in Nat
  BY RtlAssumption, PowerType
<1>2. x \in 0..(m - 1)
  OBVIOUS
<1> HIDE DEF m
<1>3. x \in Nat /\ ~(x >= m)
  BY <1>1, <1>2
<1> QED BY <1>3 DEF Machine!SignedOf, m


\* The pair a phi takes is the only one with the label of the block before.
LEMMA PhiPair ==
  ASSUME TypeInv, prev_state \in Nat, NEW s, Len(s.ops) \in Nat, Cardinality(PhiMatches(s)) = 1
  PROVE  LET half == Len(s.ops) \div 2
             h == CHOOSE h \in 1..half : s.ops[2 * h] = Machine!Came
         IN  h \in 1..half /\ Last(PhiMatches(s)) = h
<1> DEFINE half == Len(s.ops) \div 2
<1>1. half \in Nat /\ PhiMatches(s) = {h \in 1..half : get_name_to_block(s.ops[2 * h]) = prev_state}
  BY HalfOf DEF PhiMatches
<1> HIDE DEF half
<1>2. IsFiniteSet(PhiMatches(s))
  <2>1. IsFiniteSet(1..half)
    BY <1>1, FS_Interval
  <2>2. PhiMatches(s) \subseteq 1..half
    BY <1>1
  <2> QED BY <2>1, <2>2, FS_Subset
<1>3. PICK g : PhiMatches(s) = {g}
  BY <1>2, FS_Singleton
<1>4. g \in 1..half /\ get_name_to_block(s.ops[2 * g]) = prev_state
  BY <1>1, <1>3
<1>5. s.ops[2 * g] = Machine!Came
  BY <1>4, BlockOfLabel DEF Machine!Came
<1>6. ASSUME NEW h \in 1..half, s.ops[2 * h] = Machine!Came PROVE h = g
  <2>1. get_name_to_block(s.ops[2 * h]) = prev_state
    BY <1>4, <1>5, <1>6
  <2> QED BY <1>1, <1>3, <2>1
<1>7. (CHOOSE h \in 1..half : s.ops[2 * h] = Machine!Came) = g
  BY <1>4, <1>5, <1>6
<1>8. Last(PhiMatches(s)) = g
  <2>1. g <= g
    BY <1>1, <1>4
  <2> QED BY <1>3, <2>1 DEF Last
<1> QED BY <1>4, <1>7, <1>8 DEF half

\* The expression the generator writes for a statement is what the statement computes.
LEMMA ResultIsRight ==
  ASSUME RtlInv, Running, state < blockNum, NEW i \in Arm, Block[i].var # NoVar,
         Translated(state + 1, Block[i]), NEW e,
         \A v \in ValuesRead(Block[i]) : Machine!ValueIn(e, v) = ValueOf(v)
  PROVE  /\ Block[i].type \in Emitted /\ Assigns(Block[i])
         /\ Machine!Result(e, Block[i], Machine!Came) = Right(Block[i])
<1> DEFINE s == Block[i]
<1>1. /\ RegisterInv /\ TypeInv /\ HardwareTypes /\ resets # 0 /\ Defined
      /\ i \in 1..Len(Block) /\ state + 1 \in 1..blockNum /\ Len(Block) \in Nat
  BY RtlFacts, ArmFacts DEF RtlInv
<1>2. s \in Statement /\ HasOperands(s)
  BY <1>1, BlockTypes DEF Defined, Block
<1>3. s.ops \in Seq(Names) /\ Len(s.ops) \in Nat
  BY <1>2 DEF Statement
<1>4. s.type \in {"ADD", "MUL", "GT", "ASSIGN", "LOAD", "PHI"}
  <2>1. s.type \notin NoResult
    BY <1>2, NamesAssumption DEF Statement
  <2> QED BY <2>1 DEF Translated, NoResult
<1>5. prev_state \in Nat
  <2>1. prev_state \in 0..(2^StateWidth - 1)
    BY <1>1 DEF HardwareTypes
  <2> QED BY <2>1
<1> HIDE DEF s
<1>6. CASE s.type \in {"ADD", "MUL", "GT"}
  <2> DEFINE x == ValueOf(s.ops[1])
  <2> DEFINE y == ValueOf(s.ops[2])
  <2>1. {s.ops[1], s.ops[2]} \subseteq ValuesRead(s)
    <3>1. Len(s.ops) >= 2
      BY <1>2, <1>6 DEF HasOperands
    <3>2. ValuesRead(s) = {s.ops[j] : j \in 1..Len(s.ops)}
      BY <1>6 DEF ValuesRead
    <3>3. 1 \in 1..Len(s.ops) /\ 2 \in 1..Len(s.ops)
      BY <1>3, <3>1
    <3> QED BY <3>2, <3>3
  <2>2. Machine!ValueIn(e, s.ops[1]) = x /\ Machine!ValueIn(e, s.ops[2]) = y
    BY <2>1 DEF s
  <2>3. CASE s.type \in {"ADD", "MUL"}
    BY <2>2, <2>3 DEF Machine!Result, Machine!Word, Right, Emitted, Assigns, s
  <2>4. CASE s.type = "GT"
    <3>1. x # y /\ x \in 0..(2^(RegWidth - 1) - 1) /\ y \in 0..(2^(RegWidth - 1) - 1)
      BY <2>4 DEF Translated, s
    <3>2. Machine!Result(e, s, Machine!Came) = Machine!Truth(Machine!SignedOf(x) > Machine!SignedOf(y))
      BY <2>2, <2>4 DEF Machine!Result
    <3>3. Right(s) = IF x >= y THEN 1 ELSE 0
      BY <2>4 DEF Right
    <3> HIDE DEF x, y
    <3>4. x \in Nat /\ y \in Nat /\ Machine!SignedOf(x) = x /\ Machine!SignedOf(y) = y
      BY <3>1, SmallSigned
    <3>5. (x > y) <=> (x >= y)
      BY <3>1, <3>4
    <3>6. Machine!Truth(Machine!SignedOf(x) > Machine!SignedOf(y)) = IF x > y THEN 1 ELSE 0
      BY <3>4 DEF Machine!Truth
    <3> QED BY <2>4, <3>2, <3>3, <3>5, <3>6 DEF Emitted, Assigns, s
  <2> QED BY <1>6, <2>3, <2>4
<1>7. CASE s.type = "ASSIGN"
  <2>1. s.ops[1] \in ValuesRead(s)
    <3>1. Len(s.ops) >= 1
      BY <1>2, <1>7 DEF HasOperands
    <3>2. ValuesRead(s) = {s.ops[j] : j \in 1..Len(s.ops)}
      BY <1>7 DEF ValuesRead
    <3> QED BY <1>3, <3>1, <3>2
  <2>2. Machine!ValueIn(e, s.ops[1]) = ValueOf(s.ops[1])
    BY <2>1 DEF s
  <2> QED BY <1>7, <2>2 DEF Machine!Result, Right, Emitted, Assigns, s
<1>8. CASE s.type = "LOAD"
  <2> DEFINE l == state + 1
  <2> DEFINE a == s.ops[1]
  <2>1. Len(s.ops) >= 2
    BY <1>2, <1>8 DEF HasOperands
  <2>2. /\ l = Last(LoadBlocks(a))
        /\ \A j \in LoadsOf(l, a) : blocks[l].statements[j].ops[2] = s.ops[2]
    BY <1>8 DEF Translated, s
  <2>3. a \in LoadedArrays
    <3>1. i \in LoadsOf(l, a)
      BY <1>1, <1>8 DEF LoadsOf, StatementsOf, Block, s
    <3>2. a \in Names
      BY <1>3, <2>1
    <3> QED BY <1>1, <3>1, <3>2 DEF LoadedArrays, LoadBlocks
  <2>4. rom_addr[a] \in Addresses(a)
    BY <2>3 DEF RtlInv, Handed, Running
  <2>5. PICK t \in DOMAIN byCycle[l] :
          /\ LoadsOf(l, a) \cap byCycle[l][t] # {}
          /\ rom_addr[a] = blocks[l].statements[Last(LoadsOf(l, a) \cap byCycle[l][t])].ops[2]
    BY <2>2, <2>4 DEF Addresses
  <2>6. Last(LoadsOf(l, a) \cap byCycle[l][t]) \in LoadsOf(l, a)
    <3> DEFINE X == LoadsOf(l, a) \cap byCycle[l][t]
    <3>1. X \in SUBSET (1..Len(Block)) /\ X # {}
      BY <2>5 DEF LoadsOf, StatementsOf, Block
    <3> HIDE DEF X
    <3>2. Last(X) \in X
      BY <1>1, <3>1, LastIn
    <3> QED BY <3>2 DEF X
  <2>7. rom_addr[a] = s.ops[2]
    BY <2>2, <2>5, <2>6
  <2>8. Machine!ValueIn(e, s.ops[2]) = ValueOf(s.ops[2])
    <3>1. s.ops[2] \in ValuesRead(s)
      BY <1>8 DEF ValuesRead
    <3> QED BY <3>1 DEF s
  <2> QED BY <1>8, <2>7, <2>8 DEF Machine!Result, Right, Delivered, Emitted, Assigns, s
<1>9. CASE s.type = "PHI"
  <2> DEFINE half == Len(s.ops) \div 2
  <2> DEFINE h == CHOOSE h \in 1..half : s.ops[2 * h] = Machine!Came
  <2>1. Cardinality(PhiMatches(s)) = 1
    BY <1>9 DEF Translated, s
  <2>2. h \in 1..half /\ Last(PhiMatches(s)) = h
    BY <1>1, <1>3, <1>5, <2>1, PhiPair
  <2>3. Machine!Result(e, s, Machine!Came) = Machine!ValueIn(e, s.ops[2 * h - 1])
    BY <1>9 DEF Machine!Result
  <2> HIDE DEF h
  <2>4. Right(s) = ValueOf(s.ops[2 * h - 1])
    BY <1>9, <2>2 DEF Right, PhiOperand
  <2>5. s.ops[2 * h - 1] \in ValuesRead(s)
    BY <1>9, <2>2 DEF ValuesRead
  <2>6. PhiMatches(s) # {}
    BY <2>1, FS_EmptySet
  <2> QED BY <1>9, <2>3, <2>4, <2>5, <2>6 DEF Emitted, Assigns, s
<1> QED BY <1>4, <1>6, <1>7, <1>8, <1>9 DEF s

\* A statement of the arm reads names.
LEMMA ReadNames ==
  ASSUME RtlInv, Running, state < blockNum, NEW i \in Arm, Translated(state + 1, Block[i])
  PROVE  ValuesRead(Block[i]) \subseteq Names
<1> DEFINE s == Block[i]
<1>1. /\ Defined /\ i \in 1..Len(Block) /\ state + 1 \in 1..blockNum /\ s \in Statement
  BY RtlFacts, ArmFacts
<1>2. HasOperands(s) /\ s.ops \in Seq(Names) /\ Len(s.ops) \in Nat
  BY <1>1 DEF Defined, Block, Statement
<1>3. s.type = "BR" => Len(s.ops) \in {1, 3}
  BY DEF Translated
<1> HIDE DEF s
<1>4. \A j \in 1..Len(s.ops) : s.ops[j] \in Names
  BY <1>2
<1>5. CASE s.type = "PHI"
  <2> DEFINE half == Len(s.ops) \div 2
  <2>1. half \in Nat /\ 2 * half <= Len(s.ops)
    BY <1>2, HalfOf
  <2>2. ValuesRead(s) = {s.ops[2 * h - 1] : h \in 1..half}
    BY <1>5 DEF ValuesRead
  <2> HIDE DEF half
  <2>3. \A h \in 1..half : 2 * h - 1 \in 1..Len(s.ops)
    BY <1>2, <2>1
  <2> QED BY <1>4, <2>2, <2>3 DEF s
<1>6. CASE s.type = "LOAD"
  BY <1>2, <1>4, <1>6 DEF ValuesRead, HasOperands, s
<1>7. CASE s.type = "BR"
  BY <1>2, <1>3, <1>4, <1>7 DEF ValuesRead, s
<1>8. CASE s.type \notin {"PHI", "LOAD", "BR"}
  BY <1>4, <1>8 DEF ValuesRead, s
<1> QED BY <1>5, <1>6, <1>7, <1>8

\* What the registers hold after statements 1 to i of the arm, if each writes what the
\* design assigns for it.
WritesUpTo(v, i) == {j \in Arm : j <= i /\ Block[j].var = v}
ValuesAfter(i) == [v \in Names |->
    IF WritesUpTo(v, i) = {} THEN RegisterFile[v] ELSE Right(Block[Last(WritesUpTo(v, i))])]

LEMMA LastIs ==
  ASSUME NEW I \in SUBSET Int, NEW i \in I, \A h \in I : h <= i
  PROVE  Last(I) = i
<1>1. ASSUME NEW j \in I, \A h \in I : h <= j PROVE j = i
  <2>1. i <= j /\ j <= i /\ i \in Int /\ j \in Int
    BY <1>1
  <2> QED BY <2>1
<1> QED BY <1>1 DEF Last

\* Executing one more statement of the arm does so.
LEMMA ValuesStep ==
  ASSUME RtlInv, Running, state < blockNum, Executable, NEW i \in 1..Len(Block)
  PROVE  ValuesAfter(i) = IF i \in Arm THEN Machine!Assign(ValuesAfter(i - 1), i)
                                       ELSE ValuesAfter(i - 1)
<1>1. /\ Arm \subseteq 1..Len(Block) /\ Len(Block) \in Nat /\ i - 1 \in Nat
      /\ \A j \in 1..Len(Block) : Block[j] \in Statement
  BY ArmFacts
<1>2. ASSUME NEW v, ~(i \in Arm /\ Block[i].var = v) PROVE WritesUpTo(v, i) = WritesUpTo(v, i - 1)
  <2>1. \A j \in Arm : j <= i /\ Block[j].var = v => j <= i - 1
    BY <1>1, <1>2
  <2>2. \A j \in Arm : j <= i - 1 => j <= i
    BY <1>1
  <2> QED BY <2>1, <2>2 DEF WritesUpTo
<1>3. CASE i \notin Arm
  BY <1>2, <1>3 DEF ValuesAfter
<1>4. CASE i \in Arm /\ Block[i].var = NoVar
  <2>1. \A v \in Names : Block[i].var # v
    BY <1>4, NamesAssumption
  <2>2. ValuesAfter(i) = ValuesAfter(i - 1)
    BY <1>2, <2>1 DEF ValuesAfter
  <2>3. Machine!Assign(ValuesAfter(i - 1), i) = ValuesAfter(i - 1)
    BY <1>4 DEF Machine!Assign, Machine!Statements, Block, Machine!NoVar, NoVar
  <2> QED BY <1>4, <2>2, <2>3
<1>5. CASE i \in Arm /\ Block[i].var # NoVar
  <2> DEFINE s == Block[i]
  <2> DEFINE w == s.var
  <2> DEFINE e == IF s.type = "PHI" THEN RegisterFile ELSE ValuesAfter(i - 1)
  <2>1. Translated(state + 1, s) /\ (\A v \in ValuesRead(s) : Readable(v)) /\ w \in Names
    BY <1>1, <1>5 DEF Executable, Statement
  <2>2. ASSUME NEW v \in ValuesRead(s) PROVE Machine!ValueIn(e, v) = ValueOf(v)
    <3>1. v \in Names /\ Machine!ValueIn(RegisterFile, v) = ValueOf(v)
      BY <1>5, <2>1, <2>2, ReadNames, ValueAgrees
    <3>2. CASE s.type = "PHI"
      BY <3>1, <3>2
    <3>3. CASE s.type # "PHI"
      <4>1. WritesUpTo(v, i - 1) = {}
        <5>1. \A j \in Arm : j <= i - 1 => j < i
          BY <1>1
        <5> QED BY <1>5, <2>2, <3>3, <5>1 DEF WritesUpTo, Executable, Independent
      <4>2. ValuesAfter(i - 1)[v] = RegisterFile[v]
        BY <3>1, <4>1 DEF ValuesAfter
      <4> QED BY <3>1, <3>3, <4>2 DEF Machine!ValueIn
    <3> QED BY <3>2, <3>3
  <2>3. Machine!Result(e, s, Machine!Came) = Right(s)
    <3> HIDE DEF e
    <3> QED BY <1>5, <2>1, <2>2, ResultIsRight
  <2>4. Machine!Assign(ValuesAfter(i - 1), i) =
          [ValuesAfter(i - 1) EXCEPT ![w] = Machine!Result(e, s, Machine!Came)]
    BY <1>5 DEF Machine!Assign, Machine!Statements, Block, Machine!NoVar, NoVar
  <2>5. i \in WritesUpTo(w, i) /\ Last(WritesUpTo(w, i)) = i
    <3>1. i \in WritesUpTo(w, i) /\ WritesUpTo(w, i) \in SUBSET Int
      <4>1. i <= i
        OBVIOUS
      <4>2. WritesUpTo(w, i) \subseteq Arm /\ 1..Len(Block) \subseteq Int
        BY DEF WritesUpTo
      <4> QED BY <1>1, <1>5, <4>1, <4>2 DEF WritesUpTo
    <3>2. \A h \in WritesUpTo(w, i) : h <= i
      BY DEF WritesUpTo
    <3> QED BY <3>1, <3>2, LastIs
  <2>6. ValuesAfter(i)[w] = Right(s)
    BY <2>1, <2>5 DEF ValuesAfter
  <2>7. \A v \in Names : v # w => ValuesAfter(i)[v] = ValuesAfter(i - 1)[v]
    BY <1>2 DEF ValuesAfter
  <2> HIDE DEF e, s, w
  <2>8. ValuesAfter(i) = [ValuesAfter(i - 1) EXCEPT ![w] = Right(s)]
    BY <2>1, <2>6, <2>7 DEF ValuesAfter
  <2> QED BY <1>5, <2>3, <2>4, <2>8
<1> QED BY <1>3, <1>4, <1>5

\* The function of the executed statements in Machine!After.
UpTo(f) == f = [i \in 0..Len(Block) |->
    IF i = 0 THEN RegisterFile ELSE IF i \in Arm THEN Machine!Assign(f[i - 1], i) ELSE f[i - 1]]

\* So executing the whole arm does: by induction over its statements.
LEMMA AfterArm ==
  ASSUME RtlInv, Running, state < blockNum, Executable
  PROVE  Machine!After(Arm) = ValuesAfter(Len(Block))
<1> DEFINE N == Len(Block)
<1>1. Arm \subseteq 1..N /\ N \in Nat
  BY ArmFacts
<1>2. ValuesAfter(0) = RegisterFile
  <2>1. ASSUME NEW v PROVE WritesUpTo(v, 0) = {}
    <3>1. \A j \in Arm : ~(j <= 0)
      BY <1>1
    <3> QED BY <3>1 DEF WritesUpTo
  <2> QED BY <2>1 DEF ValuesAfter, RegisterFile
<1>3. \E f : UpTo(f)
  <2> DEFINE f == [i \in 0..N |-> ValuesAfter(i)]
  <2>1. \A i \in 1..N : f[i] = IF i \in Arm THEN Machine!Assign(f[i - 1], i) ELSE f[i - 1]
    BY <1>1, ValuesStep
  <2>2. f[0] = RegisterFile
    BY <1>1, <1>2
  <2>3. f = [i \in 0..N |-> f[i]]
    OBVIOUS
  <2> HIDE DEF f
  <2>4. \A i \in 0..N : i # 0 => i \in 1..N
    BY <1>1
  <2>5. UpTo(f)
    BY <2>1, <2>2, <2>3, <2>4 DEF UpTo
  <2> QED BY <2>5
<1>4. PICK f : UpTo(f) /\ Machine!After(Arm) = f[N]
  <2>1. Machine!After(Arm) = (CHOOSE f : UpTo(f))[N]
    BY DEF Machine!After, Machine!Statements, Block, UpTo
  <2> QED BY <1>3, <2>1
<1>5. \A i \in 0..N : f[i] = ValuesAfter(i)
  <2> DEFINE A == {i \in 0..N : f[i] # ValuesAfter(i)}
  <2> SUFFICES ASSUME A # {} PROVE FALSE
    OBVIOUS
  <2>1. PICK i \in A : \A a \in A : i <= a
    <3>1. A \in SUBSET Nat
      BY <1>1
    <3> HIDE DEF A
    <3> QED BY <3>1, LeastNatural
  <2>2. i # 0
    BY <1>1, <1>2, <1>4, <2>1 DEF UpTo
  <2>3. i \in 1..N /\ i - 1 \in 0..N /\ i - 1 \notin A
    BY <1>1, <2>1, <2>2
  <2>4. f[i - 1] = ValuesAfter(i - 1)
    BY <2>3
  <2>5. f[i] = IF i \in Arm THEN Machine!Assign(f[i - 1], i) ELSE f[i - 1]
    BY <1>4, <2>1, <2>2 DEF UpTo
  <2> QED BY <2>1, <2>3, <2>4, <2>5, ValuesStep
<1> QED BY <1>1, <1>4, <1>5

\* What the registers hold after a clock edge.
LEMMA NextFile ==
  ASSUME RtlInv, ClockBlock
  PROVE  /\ \A v \in Names : regMap'[v] = regMap[v] /\ ValueOf(v)' =
              IF regMap[v] >= 0 THEN NextValue(regMap[v]) ELSE ValueOf(v)
         /\ \A v \in Names : regMap[v] >= 0 => RegisterFile'[v] = NextValue(regMap[v])
<1>1. regMap' = regMap /\ around' = around /\ reg' = [g \in 0..(regNum - 1) |-> NextValue(g)]
  BY DEF ClockBlock, generatorVars, vars, regs
<1>2. \A v \in Names : regMap[v] \in Int /\ regMap[v] < regNum /\ regNum \in Nat
  BY RtlFacts, EnoughRegisters
<1>3. ASSUME NEW v \in Names, regMap[v] >= 0 PROVE reg'[regMap[v]] = NextValue(regMap[v])
  <2>1. regMap[v] \in 0..(regNum - 1)
    BY <1>2, <1>3
  <2> QED BY <1>1, <2>1
<1>4. \A v \in Names : ValueOf(v)' = IF regMap[v] >= 0 THEN NextValue(regMap[v]) ELSE ValueOf(v)
  BY <1>1, <1>3 DEF ValueOf, PortN
<1>5. \A v \in Names : regMap[v] >= 0 => RegisterFile'[v] = NextValue(regMap[v])
  BY <1>1, <1>3 DEF RegisterFile
<1> QED BY <1>1, <1>4, <1>5

\* The statements of the arm that assign a register are those of its variables.
LEMMA WritersOf ==
  ASSUME RtlInv, Running, state < blockNum, Executable
  PROVE  /\ \A v \in Own : Writers(regMap[v]) = WritesUpTo(v, Len(Block))
         /\ \A v \in Names : WritesUpTo(v, Len(Block)) \subseteq Writers(regMap[v])
<1>1. /\ Arm \subseteq 1..Len(Block) /\ Len(Block) \in Nat
      /\ \A j \in 1..Len(Block) : Block[j] \in Statement
  BY ArmFacts
<1>2. \A j \in Arm : j <= Len(Block)
  BY <1>1
<1>3. ASSUME NEW j \in Arm, Block[j].var \in Names PROVE Block[j].type \in Emitted /\ Assigns(Block[j])
  <2>1. Block[j].var # NoVar /\ Translated(state + 1, Block[j])
    BY <1>3, NamesAssumption DEF Executable
  <2>2. \A v \in ValuesRead(Block[j]) : Machine!ValueIn(RegisterFile, v) = ValueOf(v)
    BY <2>1, ReadNames, ValueAgrees DEF Executable
  <2> QED BY <2>1, <2>2, ResultIsRight
<1>4. ASSUME NEW v \in Names PROVE WritesUpTo(v, Len(Block)) \subseteq Writers(regMap[v])
  BY <1>3 DEF WritesUpTo, Writers, ArmOf
<1>5. ASSUME NEW v \in Own, NEW j \in Writers(regMap[v]) PROVE j \in WritesUpTo(v, Len(Block))
  <2>1. j \in Arm /\ Block[j].type \in Emitted /\ regMap[Block[j].var] = regMap[v]
    BY <1>5 DEF Writers, ArmOf
  <2>2. Block[j].var \in Names
    BY <1>1, <2>1 DEF Statement, NoResult, Emitted
  <2>3. Block[j].var = v
    BY <2>1, <2>2 DEF Own
  <2> QED BY <1>2, <2>1, <2>3 DEF WritesUpTo
<1> QED BY <1>4, <1>5 DEF Own

\* Both labels of a conditional branch are labels of its block.
LEMMA ArmsAreLabels ==
  ASSUME NEW n, NEW i \in Branches(n), Len(blocks[n].statements[i].ops) = 3
  PROVE  /\ blocks[n].statements[i].ops[2] \in Labels(n)
         /\ blocks[n].statements[i].ops[3] \in Labels(n)
BY DEF Labels

\* The program and the design agree where a branch leads.
LEMMA BranchExecutes ==
  ASSUME RtlInv, ClockBlock, Executable, NEW i \in Arm, Block[i].type = "BR", ArmOf({"BR"}) = {i}
  PROVE  /\ blocks[state' + 1].label = Machine!Taken(ValuesAfter(Len(Block)), Block[i])
         /\ prev_state' = state
<1> DEFINE s == Block[i]
<1> DEFINE e == ValuesAfter(Len(Block))
<1>1. /\ Running /\ state < blockNum /\ TypeInv /\ state + 1 \in 1..blockNum
      /\ Arm \subseteq 1..Len(Block) /\ ~FallsThrough
  BY RtlFacts, ArmFacts DEF ClockBlock
<1>2. Len(s.ops) \in {1, 3} /\ LabelsKnown((state + 1) - 1) /\ \A v \in ValuesRead(s) : Readable(v)
  BY DEF Executable, Translated
<1>3. Labels(state + 1) \subseteq {blocks[l].label : l \in 1..blockNum}
  <2>1. (state + 1) - 1 = state
    BY <1>1, ArmFacts
  <2> QED BY <1>2, <2>1 DEF LabelsKnown
<1>4. i \in Branches(state + 1) /\ s = blocks[state + 1].statements[i]
  BY <1>1 DEF Branches, Block
<1>5. state' = Target(s) /\ prev_state' = state
  <2>1. Last({i}) = i
    BY <1>1, LastIs
  <2> QED BY <1>1, <2>1 DEF ClockBlock, Leaves
<1>6. ASSUME NEW label \in Labels(state + 1)
      PROVE  blocks[ToState(get_name_to_block(label)) + 1].label = label
  <2> DEFINE n == get_name_to_block(label)
  <2>1. n \in -1..(blockNum - 1) /\ n >= 0 /\ blocks[n + 1].label = label /\ blockNum \in Nat
    <3>1. PICK l \in 1..blockNum : blocks[l].label = label
      BY <1>3
    <3>2. ~(n < 0)
      BY <1>1, <3>1, BlockOfLabel
    <3>3. n \in -1..(blockNum - 1) /\ (n >= 0 => blocks[n + 1].label = label)
      BY <1>1, BlockOfLabel
    <3> HIDE DEF n
    <3> QED BY <1>1, <3>2, <3>3, BlockTypes
  <2> HIDE DEF n
  <2>2. n \in -1..blockNum
    BY <2>1
  <2> QED BY <1>1, <2>1, <2>2, StateFits DEF n
<1>7. CASE Len(s.ops) = 1
  <2>1. s.ops[1] \in Labels(state + 1)
    <3>1. Len(s.ops) # 3
      BY <1>7
    <3> QED BY <1>4, <3>1 DEF Labels
  <2>2. state' = ToState(get_name_to_block(s.ops[1]))
    BY <1>5, <1>7 DEF Target
  <2> QED BY <1>5, <1>6, <1>7, <2>1, <2>2 DEF Machine!Taken
<1>8. CASE Len(s.ops) = 3
  <2> DEFINE c == s.ops[1]
  <2>1. ValuesRead(s) = {c} /\ c \in Names /\ Readable(c)
    <3>1. ValuesRead(s) = {c}
      BY <1>8 DEF ValuesRead
    <3>2. c \in Names
      BY <1>1, <3>1, ReadNames DEF Executable
    <3> QED BY <1>2, <3>1, <3>2
  <2>2. WritesUpTo(c, Len(Block)) = {}
    BY <2>1 DEF WritesUpTo, Executable, Independent
  <2>3. Machine!ValueIn(e, c) = ValueOf(c)
    <3>1. e[c] = RegisterFile[c]
      BY <2>1, <2>2 DEF ValuesAfter
    <3>2. Machine!ValueIn(RegisterFile, c) = ValueOf(c)
      BY <1>1, <2>1, ValueAgrees
    <3> QED BY <3>1, <3>2 DEF Machine!ValueIn
  <2> DEFINE label == IF ValueOf(c) # 0 THEN s.ops[2] ELSE s.ops[3]
  <2>4. label \in Labels(state + 1)
    <3>1. s.ops[2] \in Labels(state + 1) /\ s.ops[3] \in Labels(state + 1)
      BY <1>4, <1>8, ArmsAreLabels
    <3> QED BY <3>1
  <2>5. state' = ToState(get_name_to_block(label))
    BY <1>5, <1>8 DEF Target
  <2>6. Machine!Taken(e, s) = label
    <3> HIDE DEF e
    <3> QED BY <1>8, <2>3 DEF Machine!Taken
  <2> HIDE DEF label
  <2> QED BY <1>5, <1>6, <2>4, <2>5, <2>6
<1> QED BY <1>2, <1>7, <1>8

\* And what the result port shows after a return.
LEMMA ReturnExecutes ==
  ASSUME RtlInv, ClockBlock, Executable, NEW i \in Arm, Block[i].type = "RET",
         ArmOf({"BR", "RET"}) = {i}
  PROVE  result_port' = Machine!ValueIn(ValuesAfter(Len(Block)), Block[i].ops[1])
<1> DEFINE s == Block[i]
<1> DEFINE l == state + 1
<1>0. PICK x : x = s.ops[1]
  OBVIOUS
<1>1. /\ Running /\ state < blockNum /\ TypeInv /\ l \in 1..blockNum /\ pc = "done" /\ Defined
      /\ Arm \subseteq 1..Len(Block) /\ Len(Block) \in Nat
      /\ \A j \in 1..Len(Block) : Block[j] \in Statement
  BY RtlFacts, ArmFacts DEF ClockBlock
<1>2. l = Last(ReturnBlocks) /\ Writers(regMap[x]) = {} /\ \A v \in ValuesRead(s) : Readable(v)
  BY <1>0 DEF Executable, Translated
<1>3. x \in Names /\ Readable(x)
  <2>1. HasOperands(s) /\ s \in Statement
    BY <1>1 DEF Defined, Block
  <2>2. Len(s.ops) >= 1 /\ s.ops \in Seq(Names)
    BY <2>1 DEF HasOperands, Statement
  <2>3. x \in ValuesRead(s)
    BY <1>0, <2>2 DEF ValuesRead
  <2> QED BY <1>0, <1>2, <2>2, <2>3
<1>4. StatementsOf(l, "RET") = {i}
  <2>1. ASSUME NEW j \in StatementsOf(l, "RET") PROVE j \in Arm
    <3> DEFINE c == cycle[l]
    <3>1. j \in 1..Len(Block) /\ Block[j].type = "RET" /\ i \in 1..Len(Block)
      BY <1>1, <2>1 DEF StatementsOf, Block
    <3>2. Block[j].var = NoVar /\ Block[i].var = NoVar
      BY <1>1, <3>1, NamesAssumption DEF Statement, NoResult
    <3>3. /\ Len(c) = Len(Block)
          /\ \A h \in 1..Len(Block) : Block[h].var = NoVar => endCycle[l] = c[h] + 1
      BY <1>1, TableDone DEF RtlInv, TableInv, Table, BlockTable, blockNum, Block
    <3>4. byCycle[l] = [t \in {c[h] : h \in 1..Len(c)} |-> {h \in 1..Len(c) : c[h] = t}]
      BY <1>1 DEF RtlInv, Hashed
    <3>5. c[i] \in Nat /\ c[j] \in Nat
      <4>1. cycle \in Seq(Seq(Nat)) /\ l \in 1..Len(cycle)
        BY <1>1 DEF TypeInv, TypeOK, ResultTypes, RtlInv, TableInv, Table, blockNum
      <4>2. c \in Seq(Nat)
        BY <4>1
      <4> HIDE DEF c
      <4> QED BY <3>1, <3>3, <4>2
    <3> HIDE DEF c
    <3>6. c[i] = c[j]
      BY <3>1, <3>2, <3>3, <3>5
    <3>7. block_counter \in DOMAIN byCycle[l] /\ i \in byCycle[l][block_counter]
      BY DEF Arm
    <3>8. c[i] = block_counter
      BY <3>4, <3>7
    <3>9. j \in byCycle[l][block_counter]
      BY <3>1, <3>3, <3>4, <3>6, <3>7, <3>8
    <3> QED BY <3>7, <3>9 DEF Arm
  <2>2. \A j \in StatementsOf(l, "RET") : j = i
    BY <2>1 DEF ArmOf, StatementsOf, Block
  <2>3. i \in StatementsOf(l, "RET")
    BY <1>1 DEF StatementsOf, Block
  <2> QED BY <2>2, <2>3
<1>5. return_name = x
  <2>1. l \in ReturnBlocks
    BY <1>1, <1>4 DEF ReturnBlocks
  <2>2. Last({i}) = i
    <3>1. i \in Int
      BY <1>1
    <3> QED BY <3>1, LastIs
  <2>3. ReturnName = blocks[l].statements[Last(StatementsOf(l, "RET"))].ops[1]
    BY <1>2, <2>1 DEF ReturnName
  <2> QED BY <1>0, <1>1, <1>4, <2>2, <2>3 DEF RtlInv, Handed, Running, Block
<1>6. return_name' = x
  BY <1>5 DEF ClockBlock, generatorVars, text
<1>7. result_port' = ValueOf(x)
  <2>1. ValueOf(x)' = ValueOf(x)
    <3>1. NextValue(regMap[x]) = reg[regMap[x]]
      BY <1>2 DEF NextValue
    <3>2. regMap[x] >= 0 => ValueOf(x) = reg[regMap[x]]
      BY DEF ValueOf
    <3>3. ValueOf(x)' = IF regMap[x] >= 0 THEN NextValue(regMap[x]) ELSE ValueOf(x)
      BY <1>3, NextFile
    <3> QED BY <3>1, <3>2, <3>3
  <2> QED BY <1>6, <2>1 DEF result_port
<1>8. Machine!ValueIn(ValuesAfter(Len(Block)), x) = ValueOf(x)
  <2>1. WritesUpTo(x, Len(Block)) = {}
    BY <1>1, <1>2, <1>3, WritersOf
  <2>2. ValuesAfter(Len(Block))[x] = RegisterFile[x]
    BY <1>3, <2>1 DEF ValuesAfter
  <2>3. Machine!ValueIn(RegisterFile, x) = ValueOf(x)
    BY <1>1, <1>3, ValueAgrees
  <2> QED BY <2>2, <2>3 DEF Machine!ValueIn
<1> QED BY <1>0, <1>7, <1>8

\* A clock edge in a block does what the statements of its arm say.
LEMMA ClockExecutes ==
  ASSUME RtlInv, ClockBlock, Executable PROVE Machine!Execute(Arm, Own)
<1> DEFINE e == ValuesAfter(Len(Block))
<1>1. /\ Running /\ state < blockNum /\ Arm \subseteq 1..Len(Block) /\ Len(Block) \in Nat
      /\ ~FallsThrough
  BY ArmFacts DEF ClockBlock
<1>2. Machine!After(Arm) = e
  BY <1>1, AfterArm
<1>3. ASSUME NEW v \in Own PROVE RegisterFile'[v] = e[v]
  <2>1. v \in Names /\ regMap[v] >= 0
    BY <1>3 DEF Own
  <2>2. RegisterFile'[v] = NextValue(regMap[v])
    BY <2>1, NextFile
  <2>3. Writers(regMap[v]) = WritesUpTo(v, Len(Block))
    BY <1>1, <1>3, WritersOf
  <2>4. RegisterFile[v] = reg[regMap[v]]
    BY <2>1 DEF RegisterFile
  <2> QED BY <2>1, <2>2, <2>3, <2>4 DEF NextValue, ValuesAfter
<1> HIDE DEF e
<1> DEFINE Ends == ArmOf({"BR", "RET"})
<1>4. Machine!Ends(Arm) = Ends
  BY DEF Machine!Ends, Machine!Statements, ArmOf, Block
<1>5. CASE Ends = {}
  <2>1. ArmOf({"BR"}) = {}
    BY <1>5 DEF ArmOf
  <2>2. state' = state /\ prev_state' = prev_state
    BY <1>1, <2>1 DEF ClockBlock, Leaves
  <2> QED BY <1>2, <1>3, <1>4, <1>5, <2>2 DEF Machine!Execute
<1>6. CASE Ends # {}
  <2>1. PICK i : Ends = {i}
    <3>1. IsFiniteSet(Ends)
      <4>1. IsFiniteSet(1..Len(Block))
        BY <1>1, FS_Interval
      <4>2. Ends \subseteq 1..Len(Block)
        BY <1>1 DEF ArmOf
      <4> QED BY <4>1, <4>2, FS_Subset
    <3>2. Cardinality(Ends) \in Nat /\ Cardinality(Ends) # 0 /\ Cardinality(Ends) <= 1
      BY <1>6, <3>1, FS_CardinalityType, FS_EmptySet DEF Executable
    <3>3. Cardinality(Ends) = 1
      BY <3>2
    <3> QED BY <3>1, <3>3, FS_Singleton
  <2>2. i \in Arm /\ Block[i].type \in {"BR", "RET"}
    BY <2>1 DEF ArmOf
  <2>3. Machine!End(Arm) = Block[i]
    <3>1. (CHOOSE j \in {i} : TRUE) = i
      OBVIOUS
    <3> QED BY <1>4, <2>1, <3>1 DEF Machine!End, Machine!Statements, Block
  <2>4. CASE Block[i].type = "BR"
    <3>1. ArmOf({"BR"}) = {i}
      BY <2>1, <2>2, <2>4 DEF ArmOf
    <3>2. blocks[state' + 1].label = Machine!Taken(e, Block[i]) /\ prev_state' = state
      BY <2>2, <2>4, <3>1, BranchExecutes DEF e
    <3> QED BY <1>2, <1>3, <1>4, <1>6, <2>3, <2>4, <3>2 DEF Machine!Execute
  <2>5. CASE Block[i].type = "RET"
    <3>1. ArmOf({"BR"}) = {}
      <4>1. \A j \in Ends : Block[j].type # "BR"
        BY <2>1, <2>5
      <4> QED BY <4>1 DEF ArmOf
    <3>2. state' = state /\ prev_state' = prev_state
      BY <1>1, <3>1 DEF ClockBlock, Leaves
    <3>3. result_port' = Machine!ValueIn(e, Block[i].ops[1])
      BY <2>1, <2>2, <2>5, ReturnExecutes DEF e
    <3> QED BY <1>2, <1>3, <1>4, <1>6, <2>3, <2>5, <3>2, <3>3 DEF Machine!Execute
  <2> QED BY <2>2, <2>4, <2>5
<1> QED BY <1>5, <1>6

-----------------------------------------------------------------------------
(* Theorems.                                                               *)

\* The widths that generate writes are enough: a state always fits its bits, and every
\* variable has one of the registers.
THEOREM RtlTypeCorrect == RtlSpec => []RtlTypeOK
<1>1. RtlInv => RtlTypeOK
  <2> SUFFICES ASSUME RtlInv PROVE RtlTypeOK
    OBVIOUS
  <2>1. RegisterInv /\ TypeInv /\ HardwareTypes
    BY RtlFacts DEF RtlInv
  <2>2. \A v \in Names : regMap[v] < regNum
    BY <2>1, EnoughRegisters
  <2>3. 0 \in 0..(2^StateWidth - 1)
    <3>1. 0 \in -1..blockNum
      BY <2>1, BlockTypes
    <3> QED BY <2>1, <3>1, StateFits
  <2> QED BY <2>1, <2>2, <2>3, RtlFacts DEF RtlTypeOK, HardwareTypes
<1> QED BY RtlStarts, RtlKeeps, <1>1, PTL DEF RtlSpec

\* In every block that branches to it a phi finds the block it comes from in
\* prev_state, whatever the program.
THEOREM PhiAlwaysSeesPredecessor == RtlSpec => []PhiSeesPredecessor
<1>1. RtlInv => PhiSeesPredecessor
  BY DEF RtlInv
<1> QED BY RtlStarts, RtlKeeps, <1>1, PTL DEF RtlSpec

\* No block is left but by a branch: the arm that would step to the next one is dead.
THEOREM DesignNeverFallsThrough == RtlSpec => []NeverFallsThrough
<1>1. RtlInv => NeverFallsThrough
  BY ArmFacts DEF NeverFallsThrough
<1> QED BY RtlStarts, RtlKeeps, <1>1, PTL DEF RtlSpec

\* A step of the running design that is no clock edge of a block changes nothing.
LEMMA ClockedStep ==
  ASSUME RtlInv, [RtlNext]_rtlVars, Running, resets' = resets, state < blockNum
  PROVE  ClockBlock \/ UNCHANGED <<state, done_flag_r>>
<1>1. resets \in Nat
  BY DEF RtlInv, HardwareTypes
<1>2. ~Reset
  BY <1>1 DEF Reset
<1>3. ~ClockDefault
  <2>1. TypeInv /\ resets # 0
    BY RtlFacts
  <2>2. state \in 0..(2^StateWidth - 1) /\ blockNum \in Nat
    BY <2>1, BlockTypes DEF RtlInv, HardwareTypes
  <2> QED BY <2>2 DEF ClockDefault
<1> QED BY <1>2, <1>3 DEF RtlNext, Clock, Synthesize, hardware, rtlVars

\* The design goes from block to block as the branches of the program do: the number of
\* a block survives the bits of state, and that of an unknown label is none.
THEOREM ControlAlwaysFollows == RtlSpec => ControlFollowsProgram
<1> DEFINE A == Running /\ resets' = resets /\ state < blockNum /\ state' # state =>
                  IF state' < blockNum THEN state' \in Successors(state) ELSE ~LabelsKnown(state)
<1>1. RtlInv /\ [RtlNext]_rtlVars => A
  BY ClockedStep, ControlStep
<1>2. RtlInv /\ [RtlNext]_rtlVars => [A]_rtlVars
  BY <1>1
<1> QED BY RtlStarts, RtlKeeps, <1>2, PTL DEF RtlSpec, ControlFollowsProgram

\* done_flag rises in a block that returns, and control stays there.
THEOREM DoneStaysFinal == RtlSpec => DoneIsFinal
<1> DEFINE A == Running /\ resets' = resets /\ state < blockNum /\ done_flag_r'
                     /\ (done_flag_r => Returns(state + 1))
                  => Returns(state + 1) /\ (state' = state \/ Branches(state + 1) # {})
<1>1. RtlInv /\ [RtlNext]_rtlVars => A
  BY ClockedStep, ControlStep
<1>2. RtlInv /\ [RtlNext]_rtlVars => [A]_rtlVars
  BY <1>1
<1> QED BY RtlStarts, RtlKeeps, <1>2, PTL DEF RtlSpec, DoneIsFinal

\* Where a clock edge of the design is one the generator and binding get right, it executes
\* the program: the values, where control goes on and what is returned.
THEOREM DesignExecutesProgram == RtlSpec => ExecutesProgram
<1> DEFINE A == Running /\ resets' = resets /\ state < blockNum /\ Executable
                  => Machine!Execute(Arm, Own)
<1>1. RtlInv /\ [RtlNext]_rtlVars => [A]_rtlVars
  <2> SUFFICES ASSUME RtlInv, RtlNext, Running, resets' = resets, state < blockNum, Executable
               PROVE  Machine!Execute(Arm, Own) \/ UNCHANGED rtlVars
    OBVIOUS
  <2>1. CASE ClockBlock
    BY <2>1, ClockExecutes
  <2>2. CASE Synthesize
    <3>1. pc = "done" /\ design = "written"
      BY RtlFacts DEF Running
    <3>2. UNCHANGED vars /\ UNCHANGED text
      BY <2>2, <3>1, DoneStands DEF Synthesize, WriteDesign, GenerateUndefined, Generating
    <3> QED BY <2>2, <3>2 DEF Synthesize, rtlVars, generatorVars
  <2>3. CASE Reset \/ ClockDefault
    <3>1. resets \in Nat /\ state \in Nat /\ blockNum \in Nat
      BY RtlFacts, BlockTypes DEF RtlInv, HardwareTypes
    <3> QED BY <2>3, <3>1 DEF Reset, ClockDefault
  <2> QED BY <2>1, <2>2, <2>3 DEF RtlNext, Clock
<1> QED BY RtlStarts, RtlKeeps, <1>1, PTL DEF RtlSpec, ExecutesProgram
=============================================================================
