---------------------------- MODULE HLSGenerator ----------------------------
(***************************************************************************)
(* RTLGener::generate: it reads the tables that binding leaves and writes  *)
(* top.v.  Of the text, this module has what the generator decides: the    *)
(* widths, the positions of the blocks, the variables of the address ports *)
(* and of the result.  HLSRtl gives the arms of the state machine their    *)
(* meaning.                                                                *)
(***************************************************************************)
EXTENDS HLSBinding

VARIABLES
    design,        \* "none", "written", "unopened", or "undefined" behaviour
    rom_addr,      \* for each array with a load, the variable that addresses it
    return_name    \* the variable the result shows

text == <<design, rom_addr, return_name>>
generatorVars == <<vars, text>>

blockNum == Len(blocks)

\* The number of registers: reg_map's largest value and one more, at least one.
regNum == 1 + CHOOSE m \in {0} \cup {regMap[v] : v \in Names} :
                  m >= 0 /\ \A v \in Names : regMap[v] <= m

maxBlockCycle == CHOOSE m \in {0} \cup {endCycle[l] : l \in 1..blockNum} :
                     \A l \in 1..blockNum : endCycle[l] <= m

\* log2(n) + 1, cut to an integer: the bits that hold n.
BitsFor(n) == CHOOSE w \in 1..n : 2^(w - 1) <= n /\ n < 2^w
StateWidth == BitsFor(blockNum)

\* Faulty: the position in TLA+ sequences.
BlockPosition(label) ==
    IF \E l \in 1..blockNum : blocks[l].label = label
    THEN CHOOSE l \in 1..blockNum :
             blocks[l].label = label /\ \A m \in 1..(l - 1) : blocks[m].label # label
    ELSE -1

\* The first block with a label, counting from 0, or -1.
get_name_to_block(label) ==
    IF \E l \in 1..blockNum : blocks[l].label = label
    THEN (CHOOSE l \in 1..blockNum :
             blocks[l].label = label /\ \A m \in 1..(l - 1) : blocks[m].label # label) - 1
    ELSE -1

\* The operations that state_machine writes an assignment for.
Emitted == {"ADD", "MUL", "GT", "ASSIGN", "LOAD", "PHI"}

\* The operands state_machine indexes are there.
HasOperands(s) ==
    CASE s.type \in {"ADD", "MUL", "GT", "LOAD"} -> Len(s.ops) >= 2
      [] s.type \in {"ASSIGN", "RET"} -> Len(s.ops) >= 1
      [] s.type = "PHI" -> Len(s.ops) % 2 = 0
      [] OTHER -> TRUE

Last(I) == CHOOSE i \in I : \A h \in I : h <= i

\* Statements of one kind, by block and place in it.
StatementsOf(l, type) == {i \in 1..Len(blocks[l].statements) : blocks[l].statements[i].type = type}
ReturnBlocks == {l \in 1..blockNum : StatementsOf(l, "RET") # {}}
LoadsOf(l, a) == {i \in StatementsOf(l, "LOAD") : blocks[l].statements[i].ops[1] = a}
LoadBlocks(a) == {l \in 1..blockNum : LoadsOf(l, a) # {}}
LoadedArrays == {a \in Names : LoadBlocks(a) # {}}

\* Faulty: the first load of an array decides.
AddressesFirst(a) ==
    LET l == CHOOSE l \in LoadBlocks(a) : \A m \in LoadBlocks(a) : l <= m
        i == CHOOSE i \in LoadsOf(l, a) : \A h \in LoadsOf(l, a) : i <= h
    IN  {blocks[l].statements[i].ops[2]}

\* rom_addr[a] is overwritten load by load: blocks come in order, the cycles of
\* a block in the order of a hash table, the statements of a cycle in order.
Addresses(a) ==
    LET l == Last(LoadBlocks(a))
    IN  {blocks[l].statements[Last(LoadsOf(l, a) \cap byCycle[l][t])].ops[2] :
            t \in {t \in DOMAIN byCycle[l] : LoadsOf(l, a) \cap byCycle[l][t] # {}}}

\* The statements of a block with no variable share one cycle.
ReturnName ==
    IF ReturnBlocks = {} THEN NoVar
    ELSE LET l == Last(ReturnBlocks)
         IN  blocks[l].statements[Last(StatementsOf(l, "RET"))].ops[1]

-----------------------------------------------------------------------------

\* A block lasts a cycle (else the width of its counter is log2 of 0) and no
\* operand is read that a statement does not have.
Defined ==
    /\ maxBlockCycle > 0
    /\ \A l \in 1..blockNum : \A i \in 1..Len(blocks[l].statements) :
           HasOperands(blocks[l].statements[i])

GenerateInit == design = "none" /\ rom_addr = <<>> /\ return_name = NoVar

Generating == pc = "done" /\ design = "none"

OutputNotOpened ==
    /\ Generating
    /\ design' = "unopened"
    /\ UNCHANGED <<vars, rom_addr, return_name>>

WriteDesign ==
    /\ Generating /\ Defined
    /\ rom_addr' \in {f \in [LoadedArrays -> UNION {Addresses(a) : a \in LoadedArrays}] :
                          \A a \in LoadedArrays : f[a] \in Addresses(a)}
    /\ return_name' = ReturnName
    /\ design' = "written"
    /\ UNCHANGED vars

GenerateUndefined ==
    /\ Generating /\ ~Defined
    /\ design' = "undefined"
    /\ UNCHANGED <<vars, rom_addr, return_name>>

Generate == OutputNotOpened \/ WriteDesign \/ GenerateUndefined
=============================================================================
