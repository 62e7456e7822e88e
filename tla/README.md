# Verification project for ICEDA

ICEDA is a class project in electronic design automation with two programs:

* `src/HLS` — a high-level synthesis tool. It reads one function in a small SSA
  language, schedules each basic block, binds variables to registers and writes
  a Verilog design (`top.v`).
* `src/Synthesis/phyLS` — a logic-synthesis shell over the vendored libraries
  alice (shell) and mockturtle (networks): `rewrite`, `balance`, `resub` and
  `techmap` on and-inverter graphs (AIGs).

This directory holds TLA+ models of their own code, the TLC configurations that
check them on small instances, and proofs for TLAPS. `PROJECT.json` maps every
definition to the source lines it stands for, lists the runs, a faulty variant
of the code for every property (the definitions commented `Faulty:`), the
findings, and the hazards the properties are aimed at.

## 1. The system

| component | source | state | operations | models |
|---|---|---|---|---|
| parser | `HLS/src/Parser` | the block being filled, the function's blocks and signature, `function_parse`, `parse_error` | one line: blank, `define`, label, statement | `HLSParser`, `HLSRunProofs` |
| intermediate representation | `HLS/src/Basic.hpp` | blocks, statements, `reg_map`, points | accessors | `HLSFunction`, `HLSBlocks`, `IRMachine` |
| scheduling and binding | `HLSHandler.cpp` | data-flow graph of a block, queue of issued points, free colours, highest register, `reg_map`, cycles | build the graph, issue roots, pop, visit a successor, release, bind, finish | `HLSBinding`, `DataflowOrder`, `HLSBindingProofs`, `HLSTimeProofs` |
| RTL generator | `RTLGener.cpp` | `rom_addr`, `return_name`; (of the design) `state`, `prev_state`, `block_counter`, `done_flag_r`, `reg_*` | write the design or not; reset, clock edge | `HLSGenerator`, `HLSRtl`, `HLSRtlProofs` |
| command line | `HLSHandler::run`, `main.cpp` | – | parse, schedule, generate in this order | `HLSRun`, `HLSRunProofs` |
| logging, timing | `HLS/src/Utils` | log file, stream | none is called | – |
| rewriting | `phyLS/src/core/rewrite.hpp` | old network, new network, counters of their nodes, image of each node, best candidate | per gate: clone, or try the structures of its cuts; finish | `AigRewrite`, over `AigPass` and `Aig`; `NetworkTransform`; `AigProofs`, `AigSessionProofs` |
| balancing | `phyLS/src/core/balance.hpp`, mockturtle's `balancing` | old network, new network, signal and level of each node, best candidate | per gate: try each cut as a sum of products; finish | `AigBalance`, over `AigPass` and `Aig`; `NetworkTransform`; `AigBalanceProofs`, `AigSessionProofs` |
| store and shell | `phyLS/src/store.hpp`, `commands/` | store of networks, current element, gate library | `read`, `rewrite`, `balance`, `resub`, `techmap`, `current`, `store` | `AigStore`, `AigStoreProofs`; `AigSession`, `AigSessionProofs` |
| helpers | `phyLS/src/core/misc.cpp`, `properties.cpp` | – | combinatorics, splitting, critical path | – |

The HLS tool is a pipeline in one thread: `run` stops if the parser reports an
error; otherwise `schedule` calls `binding` on every block in turn (the register
counter runs on from block to block), fills `statements_by_cycle`, and the
generator reads `reg_map`, `end_cycle` and that hash. Everything that follows
runs in hardware, with resets from outside. What makes it hard is not threads
but *order and stale data*: the roots of a block are met in the order of a hash
table; lists are erased from while they are walked; a graph with cycles or
repeated operands leaves points unissued; several `int` members are read
without ever being set; and the design reads its registers as they were
before the clock edge.

In phyLS the commands meet only in the store. Each copies the current network
(a handle: the copy shares the storage), transforms the copy and adds it.
`rewrite` builds a second network while it reads the first; every candidate it
tries stays in the new network, used or not, and is judged by counters that
must be put back; what it accepts are estimates, and one comparison at the end
decides. `balance` compares candidates by levels it counts itself, beside a
network that finds gates again and drops others. mockturtle, kitty and alice
are vendored; of them the code that the passes and the store run through is
modelled.

What makes each part correct:

* parser: every statement of the file is in exactly one block, in order; an
  error is found at the first offending line; documented files are accepted.
* scheduling: dependences are respected, as early as possible, all statements
  are scheduled, the pass ends.
* binding: no register outside the declared ones, globals keep theirs, values
  alive together are apart.
* RTL: control follows the branches, phis see the block control came from,
  a clock edge does what the statements of its cycle say, `done_flag` means that
  the result is there.
* the tool: a refused file gets no design, a file in the grammar gets one, and
  everything its expressions name is there.
* rewriting: every node's image computes what the node computes, counters are
  exact, the result has the same outputs and no more gates.
* balancing: the same for functions; levels are never too early, and the result
  is no deeper.
* store: there is a current element behind the commands' test, networks stem
  from their file, other elements stay.

## 2. Modules

`HLSFunction` holds the data the passes share and no variables. A name stands
for the text of a variable, an array or a label. `HLSBlocks` adds the one
variable that the parser fills and the passes read, `blocks`.

`DataflowOrder` is the abstract specification of scheduling one block after
another: dependences are collected, then values are issued once each, none
before all it depends on.

`HLSBinding` is `schedule()` and `binding()`, one action per loop step; `pc`
names the loop. `EnterBlock … NextStatement` are lines 59–123 of
`HLSHandler.cpp` (the graph), `GraphDone`, `IssueRoot`, `RootsDone` 125–157,
`PopPoint`, `VisitSuccessor`, `ReleaseOperand`, `BindSuccessor` 159–213,
`FinishBlock` 215–261 and `FillHash` 273–278. Three things are left open, as
they are in C++: which root the hash table yields next (`\E p \in pending`), the
colour of a point (never set) and the begin cycle of a point that was never
issued; the last two are any element of `Junk`. Counters are unbounded; they
stay small because the programs are. On its own (`Init`) the pass starts from any of
`Programs`; all it needs is blocks and nothing bound yet.

`HLSGenerator` extends `HLSBinding` with `RTLGener::generate`: `WriteDesign` is
the table walk that fills `rom_addr` and `return_name` (in each cycle the last
load of an array overwrites; the cycles of a block come in the order of a hash
table), `OutputNotOpened` the early return, `GenerateUndefined` what has no
meaning: an operand that is not there, or the width log2(0).

`HLSRtl` extends it with the design, as hardware: `ClockBlock` is one clock edge
in a block, with all non-blocking assignments of the arm for the current cycle
reading the old registers, `ClockDefault` the default arm, `Reset` the reset
branch. Operations for which the generator writes nothing (`SUB`, `DIV`, `LT`,
`LE`, `GE`, `EQ`, `STORE`) have no effect. `around` is what is connected to it:
the value of `n` and the memories of the arrays, which answer as those of
`top.v` do. A register has `RegWidth` bits instead of 32.

`IRMachine` is the meaning of the language, written for comparison and not
modelled on code: what each statement assigns, where control goes on, what is
returned. It executes statements one after the other; only a phi reads what the
block before left. `ExecutesProgram` in `HLSRtl` says that a clock edge, which
reads all registers as they were, comes to the same.

`HLSRun` is `HLSHandler::run`: `HLSParser`, then `HLSGenerator` on the blocks it
left. It extends both, which share `blocks`, and has no use for `Programs`: the
passes get whatever the parser made of a file.

`HLSParser` is `parser::parse` with one action per line. A line is the list of
its `strtok` keys. Lines with too few keys make the code read past a vector or
build a string from a null pointer: `Crash`, `ReadPastOperation` and
`ReadPastAssignment` are the outcomes.

The theorems are in `HLSBindingProofs` (types, registers, the graph and the
order), `HLSTimeProofs` (what is issued, and when, extends it), `HLSRtlProofs` (the
design, extends that), `HLSRunProofs` (parser and run, and through binding to the design), `AigStoreProofs`, and
`AigSessionProofs` (the passes), which rests on lemmas about networks in
`AigProofs` and about balancing in `AigBalanceProofs`. The `MC*` modules hold the
programs, files and networks for TLC.

`Aig` is the data of and-inverter graphs: signals, `create_and` with its trivial
cases and structural hashing, copying, dropping of dangling gates, functions and
cuts. `NetworkTransform` is what an optimisation promises: whenever it has taken
a network, the same outputs and no more cost. `AigRewrite` is `aig_rewrite`,
lines 46–160 of `rewrite.hpp`: `CloneSmall` and `OpenCuts` are the test of the
cone that only this gate needs (74–84), `TryCandidate` one call of `on_signal`
(88–127), `CloneUnimproved` and `TakeBest` lines 129–140, `Settle` the count of line 142,
`Finish` the rest. (`AigPass` declares the two variables that both passes have.)
Which cuts the enumeration keeps, which structures the
database has and in which order they come is left open; a structure may be
placed on the leaves in every way that gives the gate's function, which is what
the NPN canonisation finds. `AigBalance` is `aig_balancing`: `VisitGate` a gate
that the outputs need, `TryCut` one cut (Minato–Morreale sum of products, trees
of ands and of ors that join the earliest first, comparison by level and size),
`SettleGate` and `FinishBalance` the rest of `balancing_impl::run`. Cuts come by
size, as the code sorts them; among equal sizes any order is tried, while among
equally early signals one is fixed. `isop_rec` is one level of kitty's recursion
over the variables and `isop` the levels one above the other; functions over leaves
are sets of assignments, which are sets of leaves. `AigStore` is the shell: an element is a handle of a
storage, and `Rewrite` is allowed what `NetworkTransform` promises. Each element
carries the functions of the file it stems from, which the code does not
have; only properties read it. The scratch counters in a shared storage are left
out there: the pass sets them before it reads them. `AigSession` composes
the passes with a store: a network is read, and each command starts its pass on
a copy of the current network and adds what comes out. It implements `AigStore`
(`ImplementsStore`), so what is checked and proved there of promises holds of
the passes. `AigStore` has a bound on the sizes it tells apart, and a session has
networks of any size: `storage` is what `AigStore` knows of a storage, with sizes
from `MaxSize` on taken for equal.

## 3. Runs

| run | result | what it shows |
|---|---|---|
| `binding` | 143,524 states, passes | eleven properties of the pass, below |
| `binding_issued` | violated | a repeated operand makes the walk skip a successor |
| `binding_ready` | violated | a statement may share the cycle of its operand's statement |
| `binding_live` | violated | a value that is still needed loses its register; `ReturnedAfterUse`, whose return reads a value behind its last operation, is among the programs and suffices |
| `binding_shared` | violated | variables of several blocks outside the fixed list change register |
| `rtl` | 107,682 states, passes | control flow of the design, and its clock edges against the program |
| `rtl_returns` | violated | the dot product's design never leaves its first block |
| `rtl_done` | violated | `done_flag` before the result |
| `parser` | 143,458 states, passes | blocks denote the file; errors; grammar; from the file to the design |
| `parser_documented` | violated | documented lines are refused |
| `rewrite` | 102,927 states, passes | functions, counters, levels, size and depth in sessions of both passes |
| `store` | 113,432 states, passes | any mix of commands on shared storages |

The violated properties are statements of the report (`latex/main.tex`) or of
`HLS/test/readme.md`; `findings` in `PROJECT.json` quotes them.

**binding.** Programs: the repository's dot product; blocks that loop on
themselves, cyclic phis, a block without points, a function that opens with a
label, two blocks that share variables; and *all* blocks of three statements
over constants, loads and binary operations with later statements reading
earlier ones, without or with a branch (one variable global, or with the
latency-2 name `ai`). Three statements are enough for each shape of a
dependence graph that the code distinguishes: two readers of one value, a
reader of two values of different depth, a repeated operand, an output and an
inner point. `Junk` is {2, -9}: one value that looks like the register of a
global, and one that is no register.

* `RegistersInRange`, `RootsDistinct`: no uninitialised colour is ever bound,
  for any hash order, and the inputs of a block have registers of their own.
* `RepeatFreeIssued`, `InNumExact`: erasing while walking loses no edge and
  counts none twice — as long as no statement repeats an operand.
* `AsapLevels`: begin cycles are longest paths, though the code only looks at
  the operand visited last (with equal latencies).
* `ReleasedWithLastOperation`: a colour is freed with the last *operation* that reads
  its variable, not before, and without repeated operands no later. Operations are
  the statements with a variable: branches, returns and stores have no
  point, and the code does not wait for them.
* `TerminatorLast`, `PlainOperandsReady`: a branch is in the last cycle; operands
  are ready away from the clamped first levels.
* `ImplementsDataflowOrder`: refinement of `DataflowOrder`, for all programs,
  cyclic ones and repeated operands included.
* `Terminates` under weak fairness of the whole pass: a sequential program that
  is not stopped takes its next step.

**rtl.** Graphs of four blocks with forward and backward branches, phis and an
unknown label, arms with several statements, two loads of one array, two
returns; arms whose statements get in each other's way (`Crowded`): they read what
others write, share a register, overwrite what is returned or decides a branch,
branch twice; two resets, which is one to start and one to interrupt a run at
any point. `RegWidth` = 2 gives zero, one, an overflow and a carry. Fairness:
synthesis returns, the environment resets the design once, and the clock ticks
(the test bench does both). `OneCycleReturns` is the liveness that remains: if
every block ends in its first cycle and branches forward, the return is reached
and announced.

* `NeverFallsThrough`: the generator writes an arm that steps to the next block,
  for a block that ends without a branch. It is dead: `block_counter` stays 0, and
  a block whose last cycle is 0 has a statement in it. It depends on cycles being
  clamped at zero (`CycleOfUnclamped`).
* `ExecutesProgram` compares every clock edge with `IRMachine`, for the
  variables that share their register with no other one. `Executable` says when:
  one branch or return in the arm, no statement that reads what an earlier one
  of the arm writes (nor a branch that decides by what any other writes), no
  write to the register that a return shows, operands that are numbers the generator keeps or variables
  with a register, `n` below 2, no subtraction, division, store or comparison
  but `>` with different operands that are not negative, one matching pair of a
  phi, the last load of an array and the last return. Each is a limit of the generator or of
  binding; without any one of them TLC finds an edge that does something else.
  The property shows that the cases beside these limits are right; the limits
  themselves it leaves out.

**parser.** All files of up to three lines of fifteen kinds (good ones, lines
after labels, short lines, unknown operators), and longer ones that begin with a
label or a define without type; more lines repeat the same situations, because
the parser's memory is the current block and two flags. `Stray` are two strings that
may lie behind the vector. The run goes on through scheduling, binding and the
generator for every file the parser accepts, and for whole files with phis of
three labels, loads and parameters.

* `NothingFromRefused`: the half-built function behind an error goes no further.
* `GrammarIsSynthesised`: a file in the grammar with a branch or a return gets
  its design, unless `top.v` cannot be opened: no operand is missing, no
  counter has log2(0) bits, the passes end. Fairness is that of a sequential
  program (`RunSpec`).
* `DesignCloses`: where each name has one use and is defined before it is used,
  every variable in an expression of the design is a register, and nothing
  else is.

**rewrite.** Eight networks of two to four gates: chains with and without
outside readers, two roots over one gate, a multiplexer, gates that nothing
needs, a gate that is false with a reader, a product of sums; six structures,
among them larger ones for the same function; up to two candidates per gate
(`MaxTrials`), which is one that is kept and one that follows, or replaces it;
two commands, so that each pass also works on what either one made.

* `FunctionsPreserved` follows signals through hashing, complements and cuts.
* `CountersExact`: the counters of the new network are those of the settled
  gates and of what these need. A gate's own counter is only raised by its
  readers, so a settled gate that has none yet costs one when it is reused.
* `ImplementsTransform`: refinement of `NetworkTransform`. The gains are
  estimates: a gate may be free because a gate uses it that nothing will need.
  With the final comparison taken out (`FinishTrusting`) TLC finds a network of
  four gates that grows to five.
* `BalancePreserves` follows signals through sums of products. The tree of no
  products is true where it should be false; the test for false cuts is what
  keeps it out (`CutsToTryAlsoFalse`).
* `LevelsSound`, `ImplementsBalance`: no signal is later than its level, no
  gate later than it was, and the network no deeper. A product of sums is deeper
  as a sum of products: the comparison of levels matters (`LastCandidate`).
* `ImplementsStore`: the refinement of `AigStore`.

**store.** Two functions, networks of at most one gate, three elements, four
storages: two elements that share one and a third that is added or replaced.
`Handles` are interchangeable, hence a symmetry set; the run has no liveness
property.

A session ends when the store is full, so `rewrite` is checked without
deadlock.

## 4. Proofs

`HLSBindingProofs`, for every set of names, every set of programs, every range
of `int` and every content of uninitialised members:

* `TypeCorrect`: `Spec => []TypeOK`. `TypeOK` is not inductive: popping and
  indexing need to know that the queue's points and the cursors exist
  (`CursorsSet`), and every variable of the block has a point (`VarsHavePoints`);
  together they are `TypeInv`. The interesting cases are the erase (`DeleteType`:
  what remains is still a sequence of names), and the block's last cycle
  (`EndType`: the maximum exists, by `LargestExists`, because ints are bounded).
* `RegistersStayInRange`: `Spec => []RegistersInRange`, and `RootsStayDistinct`:
  `Spec => []RootsDistinct`, by `RegisterInv`: the registers of the roots are
  below the highest in use, and the only colour in the queue while roots are
  met is the one the block was entered with (`RootColours`). Without it, a root
  might be bound to what an earlier block released.

* The graph says what the statements say (`EdgeFacts`): `prev` holds an operand for
  each edge looked at, and `next` nothing else; where variables are defined before
  they are used no point is replaced and `next` holds them all, but for those of
  issued variables (`NothingLost`). So a colour that is freed is read by no
  operation to come (`ReleaseAfterUses`).
* `BindingOrdered`: `Spec => ImplementsDataflowOrder`, the refinement, for programs
  whose blocks define a variable once. `in_num` is not what its name says once
  edges are erased under the walk: with repeated operands an edge may be walked
  over twice or never. What holds is an inequality (`OwingInv`): for a point that
  has not been issued, `in_num` is at least the number of its edges whose
  operand has not been popped (the edges *owed*), because an edge of such
  an operand cannot have been walked over. At 0 nothing is owed, so all operands
  are issued.

`HLSTimeProofs`, for the same constants:

* `EveryPointIssued` and `InNumStaysExact`. In blocks without repeated operands the
  inequality is an equality (`CountFacts`), which needs that what is erased stands
  at the cursor (`ReleaseFacts`) and that lists hold nothing twice. If the queue
  ran empty with a point left over, it would wait for another such point, and
  that one for another, against the order of definitions.
* `ReleaseIsExact`: `Spec => ReleasedWithLastOperation`. That a colour is not freed
  too early is `ReleaseAfterUses`, with repeated operands too. That it is freed
  with the last operation needs that no edge leads to an issued point, but for those
  being deleted (`Cleared`): then the list of the operand is empty. An output of
  the block is no operand (`Unread`). The theorem says nothing of a branch, a
  return or a store that reads the variable.
* `TerminatorStaysLast`, `PlainOperandsStayReady`, `AsapStays`. The queue with the
  successor that is about to join it is the *line*; along it begin cycles rise,
  but for one cycle for each popped point of latency 2 (`LineTimes`, with `Slack`),
  and what is in line is at most one cycle later than what was popped. So the
  operand visited last is the latest, up to the slack. `Table` carries what is
  known of a block's cycles past its end, when the next block has overwritten
  everything else. `AsapStays` compares with `Level`, a recursive function; that it
  satisfies its equation (`LevelEquation`) and that begin cycles agree with it
  are proved by taking a least counterexample.

`HLSRtlProofs`, for the same constants and every `RegWidth`, number of resets and
environment: `RtlTypeCorrect`, `PhiAlwaysSeesPredecessor`, `ControlAlwaysFollows` and
`DoneStaysFinal`. The invariant `RtlInv` is the one above, that the tables are filled
and consistent when the generator reads them (`Hashed`, `Handed`), and the types
of the hardware. For control, widths are the point: that `log2` of the blocks plus
one bits hold every block and the state behind the last one, and that an unknown
label's code, cut to these bits, is none of the blocks. Powers of two come in by counting
subsets (`PowerDoubles`), since the provers do not know exponents. Two theorems
say more:

* `DesignNeverFallsThrough`: `RtlSpec => []NeverFallsThrough`. A block of one cycle
  has an arm: a block whose last cycle is 0 either has a branch, whose cycle is
  that one, or points, whose cycles are clamped to it.
* `DesignExecutesProgram`: `RtlSpec => ExecutesProgram`. The design assigns at
  once what the program assigns in order. The bridge is `ValuesAfter(i)`: each
  variable has what the last statement that assigns it, among the first `i` of the
  arm, computes from the *old* registers. Executing one more statement keeps to that
  (`ValuesStep`, by `ResultIsRight` for what each operation computes), because no
  statement reads what an earlier one wrote; so by a least counterexample the whole
  arm does (`AfterArm`), and the register of a variable that shares it with no other
  is written by the statements that assign it and by no more (`WritersOf`). Branch and return are cases of their own (`BranchExecutes`,
  `ReturnExecutes`).

Proving these properties showed where their hypotheses were too weak:
`ReleasedWithLastOperation` and `AsapLevels` need variables defined before use and none
called `0`, `1` or `n` (`SingleDefinition`); a `br` of two or of more than three operands
writes no next state, so control stays in its block (`Stalls`, in
`PhiSeesPredecessor` and `AllOneCycle`); a block that returns *and* branches
announces its result and goes on (`DoneIsFinal`). Two conditions of `Executable`
came from steps that could not be proved, and TLC then found both
counterexamples on small programs, which are in `Crowded`: a branch that stands
*before* the statement that writes its condition, in the same arm, and a return
whose register another variable's write reuses in the cycle of the return.

`AigStoreProofs`, for every set of functions and handles and every bound:

* `StoreTypeCorrect` and `CurrentAlwaysExists`: together they are inductive
  (`StoreInv`); removing an element is the case to see (`RemovedType`).
* `LineageHolds`: `Spec => []Lineage`. The step is that a fresh storage is none
  of those in use (`FreshKeeps`), so overwriting it changes no element.
* `OthersStayKept`: `Spec => OthersKept`, from the same facts.

`HLSRunProofs`, for every set of files, every key and whatever the passes do:

* `ParserStopsAtFirstOffence`: `RunSpec => []ErrorIsFirstOffence`, and
  `RefusedGoesNoFurther`: `RunSpec => []NothingFromRefused`, by `RunInv`. While
  lines are read, `function_parse` is what the last `define` before the next line
  was, and no line so far offends (`ReadSoFar`); that is what makes the two
  properties inductive. `ReadsOn` and `Refuses` are the two ways a line ends; the
  actions of the parser differ in why the line at hand does not offend, or does.
  A `define` decides for the lines behind it (`DefineDecides`), any other line
  leaves that as it was (`OtherLinesKeep`). The passes only move behind an answer
  of 0 and leave the parser's variables alone (`PassesKeep`).
* `ParserTypeCorrect`: `RunSpec => []ParserTypeOK`, and `BlocksAlwaysDenoteFile`:
  `RunSpec => []BlocksDenoteFile`; the two together are inductive (`DenoteInv`).
  `BlocksDenoteFile` is restated of a file, a line and blocks (`Denotes`), so that a
  line is a step from `Denotes(f, n, p)` to `Denotes(f, n + 1, p')`: it leaves the block
  and the place of every line before it (`EarlierStay`), a label opens an empty
  block (`LabelRead`), a statement joins the last one (`StatementRead`).
* `DesignAlwaysCloses`: `RunSpec => []DesignCloses`, the one theorem that goes
  through all the parts. Its invariant `PassesInv` says that nothing is bound before
  a file is parsed, that binding's own invariant (`OrderInv`) holds from then on, and
  that a design is only written behind a finished binding. Beside it stands
  `CloseFacts`: every variable of a block that has been left has a register, and so has
  what is issued in the current one, and no number, nor `n`, ever gets one. Two
  earlier results carry it: a block is left with all its points issued
  (`AllIssuedAtEnd`, hence the operands that are not repeated), and no code for an
  array or a label is ever put in place of a variable's register, which is
  why each name must have one use (`Unmixed`). That what has no register is a name
  at all needs the parser: operands are there (`Defined`, `StatementsTyped`).

`AigSessionProofs`, for every set of networks to read, every database of structures,
any number of candidates per gate and any number of commands: all that a run says
of the two passes.

* The invariant `SessionInv` joins one for each pass with that of the store: one
  pass runs at a time, on the current network, with room for what it makes
  (`StoreInv`: a storage holds a network and what it computes). A pass keeps its
  invariant whatever network it starts on (`BeginInv`, `BeginBalanceInv`), and what
  it delivers is a network again that may be stored and taken up by the next
  (`EndInv`).
* `RewritePreserves`: `SessionSpec => []FunctionsPreserved`, by `RewriteInv`: each node
  up to the gate in turn has an image that *tracks* it: for every assignment of the
  inputs the two hold alike (`Tracks`), and this survives whatever candidates
  leave behind in the new network, because a network that only grows computes
  what it computed (`Grows`, `GrowsKeeps`). The property alone, which compares whole
  functions of finished nodes, is not inductive: it says nothing of the new
  network being well formed, nor of the nodes' order. The case to see is a
  candidate (`ResyncCorrect`): the structure computes the table of a cut over its leaves, the
  table has leaves that do not matter taken out, and the leaves have images;
  inputs of the structure, leaves and inputs of the network are three levels of
  assignments (`CutValues`, `CopyCorrect`).
* `CountersStayExact` and `RewriteTyped`: `SessionSpec => []CountersExact` and
  `[]RewriteTypeOK`, by `CountInv`. `Visited` says in closed form what a recursive count
  does: a counter changes by the number of times its node is read (`Load`), and the
  gates visited are exactly those whose counter passes between 0 and 1 on the
  way. Two visits in a row are one visit of the union (`VisitedTwice`), whence
  `CountingCorrect` by taking a least counterexample. Counting out what was counted
  in visits the same gates, by taking the greatest one on which they differ
  (`UndoneVisit`); so a candidate that is thrown away leaves no trace in the counters,
  and the assertion of `mffc_size` holds (`CountingUndone`). Settling a gate then adds
  its readers and the gates that come into use (`SettledExact`), whatever gates of
  earlier candidates lie around with counters of 0 (`ExtendedExact`).
* `RewriteImplementsTransform`: `SessionSpec => ImplementsTransform`. A pass delivers
  the outputs of the network it took, and no more gates, since the result is
  taken only if not dearer and dropping dangling gates makes none
  (`FinishDelivers`, `CleanupCorrect`).
* `BalanceKeeps` and `BalanceLevelsSound`: `SessionSpec => []BalancePreserves` and
  `[]LevelsSound`, by `BalanceInv`, in which an image also has a level that is neither
  earlier than its signal nor later than the gate was.
* `BalanceImplementsTransform`: `SessionSpec => ImplementsBalance`: the result is no
  deeper. That no gate gets later is not true of candidates, only of the best one:
  every cut gives a candidate with the right function and a sound level
  (`CandidateCorrect`), but only the cut of the gate's two fanins need give one that
  is early enough. So the invariant says of a gate in turn that this cut has still to
  be tried or the best candidate is as early (`CutArrived`); for that cut the
  recursive sum of products is one product of two literals.
* `SessionImplementsStore`: `SessionSpec => ImplementsStore`, the refinement of
  `AigStore` by the passes run step by step. The theorems of `AigStoreProofs` are
  then about networks that the passes have made.

`AigProofs` has the lemmas on networks. `Values`, `Depth`, `Copy` and `Needed` are recursive
functions along the order of the nodes; that they satisfy their equations
(`RecursionExists`), and every fact about all the nodes of a network, is proved by
taking the least node for which it fails (`LeastMember`). Among the facts: `create_and` computes the conjunction and keeps
what there is, with its trivial cases and the gate it finds again; copying a network
into another keeps functions under the assignment of its inputs; a cut's leaves
decide its root, with the leaves outside the support left out.

`AigBalanceProofs` has those on balancing: a tree joins signals to their conjunction
or disjunction, and the signal it returns is no deeper than its level says
(`TreeCorrect`); the
Minato–Morreale recursion returns, for a function `tt` between itself and `dc`, cubes
whose union is the cover it says and lies between the two (`IsopCorrect`), so that for
`tt = dc` it is the function; and the invariant of the pass.

The assumptions are those of the modules: programs are non-empty sequences of
blocks, files are sequences of lines, the empty name is no name, and junk is an
`int`; `0`, the label of the first block, is a name; the mark of a file that could
not be parsed is no function.

Model-checked only: the liveness properties (`Terminates`, `OneCycleReturns`,
`ParsesGrammar`, `GrammarIsSynthesised`), because the provers installed do not
reason about fairness. Every invariant and step property of a passing run is
proved.

## 5. Not modelled

* The layout of the Verilog text. One thing in it matters: the assignment of a
  load is written without its semicolon (`RTLGener.cpp:169`), and a function
  without a return gets `assign result = ;`. No tool reads such a file; the
  model is of the design as it is meant.
* `global_binding` and `get_var_names`, the utilities of HLS (logger, timer,
  `errorQuit`) and most helpers of phyLS: nothing calls them.
* The letters of names; printing, statistics, `show`, and writing of files.
* The technology mapper, and the libraries but for the parts named in
  `PROJECT.json`: third-party code. The limits on the number of cuts per
  gate (12 and 25) are not reached by networks of four gates, and the theorems are
  about passes without them: rewriting and `BalancePreserves` hold for any subset of
  the cuts, depth needs that the cut of a gate's two fanins is among those kept.
  Rewriting minimises tables before it merges cuts, so the leaves it keeps may come
  from cuts of more than four: `MinimisedCuts` takes the supports over cuts of any
  size. Where a leaf of one fanin's cut lies inside the other fanin's cone, the code
  composes the table from those of the fanins and the model takes the leaf as
  free; the two differ only at values that the leaves never have together.
* What a half-read network computes: its origin is `Unknown`, of which `Lineage`
  says nothing; it shows that the *other* elements are unaffected.
* alice's default option, by which `current` and `store` choose between the
  store of networks and the store of gate libraries: `AigStore` lets the user
  name the store.
* `dotprod.v`, the test bench and the report are outputs.

## 6. Plan

1. *(done)* `HLSFunction`, `DataflowOrder`, `HLSBinding`, its proofs, `HLSRtl`,
   `HLSParser`.
2. *(done)* `Aig`, `NetworkTransform`, `AigRewrite`; `AigStore` and its proofs.
3. *(done)* `HLSGenerator`, `HLSRun`: from the file to the design.
4. *(done)* `IRMachine`: the design against the program.
5. *(done)* `AigBalance`; `AigSession`, which implements `AigStore`.
6. *(done)* Proofs: every invariant and step property of binding and the refinement
   of `DataflowOrder`; the design's types and control flow; parser and run.
7. *(done)* Proofs of the passes: functions, levels, size and depth, for networks
   of any size, the counters of rewriting, and the refinement of `AigStore` by a
   session.
8. *(done)* `HLSBlocks`, so that the parser and the passes can be reasoned about in
   one module. Proofs: the design against the program, the dead arm, and
   `DesignCloses`, from the file to the design.
