------------------------------- MODULE HLSRtl -------------------------------
(***************************************************************************)
(* The design RTLGener::state_machine writes, as the hardware runs it: a   *)
(* state per basic block, a counter of the cycle within the block, and for *)
(* each cycle of a block an arm with the non-blocking assignments of the   *)
(* statements scheduled there.  It is composed with HLSBinding: synthesis  *)
(* runs first, and the clock ticks over the tables it leaves.              *)
(***************************************************************************)
EXTENDS HLSGenerator

CONSTANTS RegWidth,      \* REG_WIDTH, the bits of a data register
          Literals,      \* the numbers among the names
          Environments,  \* what may be around the design: n and the arrays' memories
          MaxResets      \* bound on how often the environment resets

Values == 0..(2^RegWidth - 1)

ASSUME RtlAssumption ==
    /\ RegWidth \in Nat \ {0} /\ MaxResets \in Nat \ {0}
    /\ DOMAIN Literals \subseteq Names /\ \A w \in DOMAIN Literals : Literals[w] \in Values
    /\ Environments # {} /\ Environments \subseteq [n: Values, ram: [Names -> [Values -> Values]]]

VARIABLES
    resets,         \* resets so far; the registers are unknown before the first
    around,         \* the environment of the design
    state, prev_state, block_counter,
    done_flag_r,    \* the one register write_default_reg leaves out
    reg             \* reg_0, reg_1, ...

hardware == <<resets, around, state, prev_state, block_counter, done_flag_r, reg>>
rtlVars == <<generatorVars, hardware>>

\* Faulty: -1, the position of an unknown label, is not cut.
ToStateUncut(n) == n

ToState(n) == n % 2^StateWidth

\* gen_port: a parameter that is no array is declared with one bit.
PortN == around.n % 2

\* reg_name in an expression: a register, a number or the port n.
ValueOf(name) ==
    IF regMap[name] >= 0 THEN reg[regMap[name]]
    ELSE IF name \in DOMAIN Literals THEN Literals[name] ELSE PortN

\* The result and address ports, assigned outside the clocked process; a memory
\* answers within the cycle (result/top.v clocks it at the falling edge).
result_port == ValueOf(return_name)
Delivered(a) == around.ram[a][ValueOf(rom_addr[a])]

\* The operand a phi takes: the last pair whose label is the previous block's.
PhiMatches(s) == {h \in 1..(Len(s.ops) \div 2) : get_name_to_block(s.ops[2 * h]) = prev_state}
PhiOperand(s) == s.ops[2 * Last(PhiMatches(s)) - 1]

Assigns(s) == s.type \in Emitted /\ (s.type = "PHI" => PhiMatches(s) # {})

\* What a statement assigns.
Right(s) ==
    CASE s.type = "ADD" -> (ValueOf(s.ops[1]) + ValueOf(s.ops[2])) % 2^RegWidth
      [] s.type = "MUL" -> (ValueOf(s.ops[1]) * ValueOf(s.ops[2])) % 2^RegWidth
      [] s.type = "GT" -> IF ValueOf(s.ops[1]) >= ValueOf(s.ops[2]) THEN 1 ELSE 0
      [] s.type = "ASSIGN" -> ValueOf(s.ops[1])
      [] s.type = "LOAD" -> Delivered(s.ops[1])
      [] s.type = "PHI" -> ValueOf(PhiOperand(s))

-----------------------------------------------------------------------------
(* The clocked process.                                                    *)

RtlInit ==
    /\ Init /\ GenerateInit
    /\ resets = 0 /\ around = CHOOSE e \in Environments : TRUE
    /\ state = 0 /\ prev_state = 0 /\ block_counter = 0
    /\ done_flag_r \in BOOLEAN
    /\ reg = <<>>

\* schedule and generate; without a file top.v there is no design to clock.
Synthesize ==
    /\ (Next /\ UNCHANGED text) \/ WriteDesign \/ GenerateUndefined
    /\ UNCHANGED hardware

\* Faulty: the previous state is not cleared.
DefaultRegsKeepPrev ==
    /\ state' = 0 /\ block_counter' = 0
    /\ reg' = [g \in 0..(regNum - 1) |-> 0]
    /\ UNCHANGED <<prev_state, done_flag_r>>

\* write_default_reg.
DefaultRegs ==
    /\ state' = 0 /\ prev_state' = 0 /\ block_counter' = 0
    /\ reg' = [g \in 0..(regNum - 1) |-> 0]
    /\ UNCHANGED done_flag_r

\* rst_n is low: at any time once the design exists; n and the memories may be
\* other ones from then on.
Reset ==
    /\ design = "written" /\ resets < MaxResets
    /\ resets' = resets + 1
    /\ around' \in Environments
    /\ DefaultRegs
    /\ UNCHANGED generatorVars

Running == design = "written" /\ resets > 0

\* A state that is no block's: the default arm.
ClockDefault ==
    /\ Running /\ state >= blockNum
    /\ DefaultRegs
    /\ UNCHANGED <<generatorVars, resets, around>>

\* The statements of the current arm, in the order they are written.
Block == blocks[state + 1].statements
Arm == IF block_counter \in DOMAIN byCycle[state + 1]
       THEN byCycle[state + 1][block_counter] ELSE {}
ArmOf(types) == {i \in Arm : Block[i].type \in types}
Writers(g) == {i \in ArmOf(Emitted) : Assigns(Block[i]) /\ regMap[Block[i].var] = g}
NextValue(g) == IF Writers(g) = {} THEN reg[g] ELSE Right(Block[Last(Writers(g))])

\* The arm that steps to the next block, where nothing is scheduled in the last cycle.
FallsThrough ==
    /\ block_counter = endCycle[state + 1] - 1
    /\ block_counter \notin DOMAIN byCycle[state + 1]

\* Faulty: only the branch with a condition is written.
TargetOfConditional(s) ==
    IF Len(s.ops) = 3
    THEN ToState(get_name_to_block(IF ValueOf(s.ops[1]) # 0 THEN s.ops[2] ELSE s.ops[3]))
    ELSE state

\* Where a branch goes: its label, or one of two by its condition.
Target(s) ==
    CASE Len(s.ops) = 1 -> ToState(get_name_to_block(s.ops[1]))
      [] Len(s.ops) = 3 -> ToState(get_name_to_block(
                               IF ValueOf(s.ops[1]) # 0 THEN s.ops[2] ELSE s.ops[3]))
      [] OTHER -> state

\* The arm that leaves the block, and the one that raises done_flag_r.
Leaves == FallsThrough \/ ArmOf({"BR"}) # {}

\* Faulty: the case of a branch runs on into the one of a return.
ReturnsHereOrBranches == ArmOf({"BR", "RET"}) # {}

ReturnsHere == ArmOf({"RET"}) # {}

\* A clock edge in a block: every assignment of the arm reads the registers as
\* they were, and of two to the same register the later one stays.  No arm
\* assigns block_counter but the ones that leave the block.
ClockBlock ==
    /\ Running /\ state < blockNum
    /\ state' = IF FallsThrough THEN ToState(state + 1)
                ELSE IF ArmOf({"BR"}) = {} THEN state ELSE Target(Block[Last(ArmOf({"BR"}))])
    /\ prev_state' = IF Leaves THEN state ELSE prev_state
    /\ block_counter' = IF Leaves THEN 0 ELSE block_counter
    /\ done_flag_r' = (done_flag_r \/ ReturnsHere)
    /\ reg' = [g \in 0..(regNum - 1) |-> NextValue(g)]
    /\ UNCHANGED <<generatorVars, resets, around>>

Clock == ClockDefault \/ ClockBlock

RtlNext == Synthesize \/ Reset \/ Clock

\* Synthesis returns, the environment resets the design once, and the clock ticks.
RtlSpec ==
    /\ RtlInit /\ [][RtlNext]_rtlVars
    /\ WF_rtlVars(Synthesize) /\ WF_rtlVars(Reset /\ resets = 0) /\ WF_rtlVars(Clock)

-----------------------------------------------------------------------------
(* What the IR says of control.                                            *)

Branches(l) == {i \in 1..Len(blocks[l].statements) : blocks[l].statements[i].type = "BR"}
Returns(l) == \E i \in 1..Len(blocks[l].statements) : blocks[l].statements[i].type = "RET"
Labels(l) == UNION {LET o == blocks[l].statements[i].ops
                    IN  IF Len(o) = 3 THEN {o[2], o[3]} ELSE {o[1]} : i \in Branches(l)}

\* The blocks control may go to from block number n: its branch labels, or the next one.
Successors(n) ==
    IF Branches(n + 1) # {} THEN {m \in 0..(blockNum - 1) : blocks[m + 1].label \in Labels(n + 1)}
    ELSE IF Returns(n + 1) THEN {} ELSE {n + 1}
LabelsKnown(n) ==
    /\ Labels(n + 1) \subseteq {blocks[l].label : l \in 1..blockNum}
    /\ Branches(n + 1) = {} /\ ~Returns(n + 1) => n + 1 < blockNum

-----------------------------------------------------------------------------
(* What it says of values: the arms on which the design can be compared    *)
(* with IRMachine.                                                          *)

\* The variables as the registers have them, and the whole n.
RegisterFile == [v \in Names |->
    IF regMap[v] >= 0 THEN reg[regMap[v]] ELSE IF v = "n" THEN around.n ELSE 0]

Machine == INSTANCE IRMachine WITH
    Width <- RegWidth, program <- blocks, memory <- around.ram,
    at <- state, from <- prev_state, env <- RegisterFile, returned <- result_port

\* Variables that no other one shares a register with.
Own == {v \in Names : regMap[v] >= 0 /\ \A w \in Names : w # v => regMap[w] # regMap[v]}

ValuesRead(s) ==
    CASE s.type = "BR" -> IF Len(s.ops) = 3 THEN {s.ops[1]} ELSE {}
      [] s.type = "PHI" -> {s.ops[2 * h - 1] : h \in 1..(Len(s.ops) \div 2)}
      [] s.type = "LOAD" -> {s.ops[2]}
      [] OTHER -> {s.ops[j] : j \in 1..Len(s.ops)}

\* A number has not become a variable, and a variable has a register; n fits its port.
Readable(v) ==
    IF v \in DOMAIN Literals THEN regMap[v] < 0
    ELSE regMap[v] >= 0 \/ (v = "n" /\ around.n < 2)

\* Nothing is read that an earlier statement of the arm writes, but by a phi
\* from a phi, and no branch is decided by what a statement of its arm writes.
Independent(ss, arm) == \A i, j \in arm :
    (i < j \/ ss[j].type = "BR") /\ ss[i].var \in ValuesRead(ss[j])
        => ss[i].type = "PHI" /\ ss[j].type = "PHI"

\* The statement is one the generator translates, in a case where it is right:
\* ">" is written as an unsigned ">="; the last load of an array and the last
\* return of the function decide what their ports show, and the result port
\* shows what is written over the register it reads.
Translated(l, s) ==
    CASE s.type \in {"ASSIGN", "ADD", "MUL"} -> TRUE
      [] s.type = "GT" -> /\ ValueOf(s.ops[1]) # ValueOf(s.ops[2])
                          /\ {ValueOf(s.ops[1]), ValueOf(s.ops[2])} \subseteq 0..(2^(RegWidth - 1) - 1)
      [] s.type = "PHI" -> Cardinality(PhiMatches(s)) = 1
      [] s.type = "LOAD" -> /\ l = Last(LoadBlocks(s.ops[1]))
                            /\ \A i \in LoadsOf(l, s.ops[1]) : blocks[l].statements[i].ops[2] = s.ops[2]
      [] s.type = "BR" -> Len(s.ops) \in {1, 3} /\ LabelsKnown(l - 1)
      [] s.type = "RET" -> l = Last(ReturnBlocks) /\ Writers(regMap[s.ops[1]]) = {}
      [] OTHER -> FALSE

Executable ==
    /\ Cardinality(ArmOf({"BR", "RET"})) <= 1
    /\ Independent(Block, Arm)
    /\ \A i \in Arm : Translated(state + 1, Block[i]) /\ \A v \in ValuesRead(Block[i]) : Readable(v)

-----------------------------------------------------------------------------
(* Properties.                                                             *)

\* The types of the hardware's registers: a state fits its bits, a register
\* holds a word and there is one for every register some variable is bound to.
RtlTypeOK ==
    /\ resets \in 0..MaxResets /\ done_flag_r \in BOOLEAN
    /\ design = "written" => {state, prev_state} \subseteq 0..(2^StateWidth - 1)
    /\ block_counter \in Nat
    /\ Running => /\ reg \in [0..(regNum - 1) -> Values]
                  /\ \A v \in Names : regMap[v] < regNum

\* The hardware goes from block to block only as the program's branches do; a
\* label that names no block, cut to the state's bits, never looks like one.
ControlFollowsProgram ==
    [][Running /\ resets' = resets /\ state < blockNum /\ state' # state =>
         IF state' < blockNum THEN state' \in Successors(state) ELSE ~LabelsKnown(state)]_rtlVars

\* A branch with neither one operand nor three: no next state is written for it.
Stalls(n) == \E i \in Branches(n + 1) : Len(blocks[n + 1].statements[i].ops) \notin {1, 3}

\* A phi chooses by prev_state: in every block it is a block control may come
\* from, except where a reset has just put the design at its first block, and
\* where a branch to nowhere has kept it in its block.
PhiSeesPredecessor ==
    Running /\ state < blockNum =>
        \/ state \in Successors(prev_state)
        \/ state = 0 /\ prev_state = 0
        \/ state = prev_state /\ Stalls(state)

\* The arm that steps to the next block is never taken: block_counter stays 0,
\* and a block that ends with cycle 0 has a statement in it.  Only a branch leads
\* out of a block.
NeverFallsThrough == Running /\ state < blockNum => ~FallsThrough

\* done_flag rises only in a block that returns, and control then stays there,
\* unless the block branches as well.
DoneIsFinal ==
    [][Running /\ resets' = resets /\ state < blockNum /\ done_flag_r'
            /\ (done_flag_r => Returns(state + 1))
         => Returns(state + 1) /\ (state' = state \/ Branches(state + 1) # {})]_rtlVars

\* A program whose blocks all end in their first cycle and only branch forward
\* to known labels reaches its return, and then says so.
AllOneCycle == \A n \in 0..(blockNum - 1) :
    /\ endCycle[n + 1] = 1
    /\ Branches(n + 1) # {} \/ Returns(n + 1)
    /\ ~Stalls(n) /\ LabelsKnown(n) /\ \A m \in Successors(n) : m > n
OneCycleReturns ==
    (Running /\ AllOneCycle) ~> (state < blockNum /\ Returns(state + 1) /\ done_flag_r)

\* A clock edge does what the statements of its arm say: what they assign, where
\* control goes on, what is returned.  The conditions on the arm (Executable) are
\* the limits of the generator and of binding.
ExecutesProgram ==
    [][Running /\ resets' = resets /\ state < blockNum /\ Executable
         => Machine!Execute(Arm, Own)]_rtlVars

\* What the report shows of the dot product: the design reaches the block that
\* returns the result.
ReturnsEventually == <>(Running /\ state < blockNum /\ Returns(state + 1))

\* done_flag says that the result is there: never before the return.
DoneMeansReturned ==
    Running /\ done_flag_r => state < blockNum /\ Returns(state + 1)
=============================================================================
