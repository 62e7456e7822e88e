------------------------------ MODULE AigBalance ------------------------------
(***************************************************************************)
(* phyLS::aig_balancing: mockturtle's balancing with sop_rebalancing.  The *)
(* gates of a network are built again in a new one; for each of its cuts a *)
(* gate is tried as a sum of products, whose ands and ors are trees that   *)
(* join the earliest signals first, and the earliest result is kept.       *)
(***************************************************************************)
EXTENDS AigPass

VARIABLES
    dest,         \* the new network
    old_to_new,   \* for the nodes done: the signal there and its level
    phase,        \* "gate", "cuts" while its cuts are tried, or "done"
    left,         \* the cuts not tried yet
    best          \* the best candidate for the gate, and its size

balanceVars == <<ntk, dest, old_to_new, gate, phase, left, best>>

-----------------------------------------------------------------------------
(* Sums of products.  A function over leaves is the set of assignments     *)
(* that make it true, a cube the sequence of its literals.                 *)

Cofactor0(leaves, t, var) == {a \in SUBSET leaves : a \ {var} \in t}
Cofactor1(leaves, t, var) == {a \in SUBSET leaves : a \cup {var} \in t}

add_literal(cubes, literal) == [i \in DOMAIN cubes |-> Append(cubes[i], literal)]

\* isop: cubes that cover tt and nothing outside dc, variable by variable from
\* the last one; lower is isop_rec for the variables below.  (A table that is left
\* without variables and not false is true.)
isop_rec(leaves, lower, var, tt, dc) ==
    IF tt = {} THEN [cubes |-> <<>>, cover |-> tt]
    ELSE IF dc = SUBSET leaves \/ var = 0 THEN [cubes |-> << <<>> >>, cover |-> dc]
    ELSE IF var \notin leaves THEN lower[<<tt, dc>>]
    ELSE LET tt0 == Cofactor0(leaves, tt, var)
             tt1 == Cofactor1(leaves, tt, var)
             dc0 == Cofactor0(leaves, dc, var)
             dc1 == Cofactor1(leaves, dc, var)
             res0 == lower[<<tt0 \ dc1, dc0>>]
             res1 == lower[<<tt1 \ dc0, dc1>>]
             res2 == lower[<<(tt0 \ res0.cover) \cup (tt1 \ res1.cover), dc0 \cap dc1>>]
         IN  [cubes |-> add_literal(res0.cubes, Signal(var, TRUE))
                        \o add_literal(res1.cubes, Signal(var, FALSE)) \o res2.cubes,
              cover |-> {a \in res0.cover : var \notin a} \cup {a \in res1.cover : var \in a}
                        \cup res2.cover]

Tables(leaves) == SUBSET SUBSET leaves
isop(leaves) ==
    LET Isop[var \in 0..Max(leaves)] ==
            [f \in Tables(leaves) \X Tables(leaves) |->
                isop_rec(leaves, Isop[var - 1], var, f[1], f[2])]
    IN  Isop

create_sop_form(table, leaves) == isop(leaves)[Max(leaves)][<<table, table>>].cubes

Earlier(p, q) == p.level < q.level

\* Faulty: a gate costs no time.
LaterLevel(p, q) == IF Earlier(p, q) THEN q.level ELSE p.level

JoinLevel(p, q) == (IF Earlier(p, q) THEN q.level ELSE p.level) + 1

create_or(net, f, g) ==
    LET new == create_and(net, create_not(f), create_not(g))
    IN  [net |-> new.net, f |-> create_not(new.f)]

\* The top of the queue: of equally early signals one of them.
Top(queue) == CHOOSE i \in DOMAIN queue : \A j \in DOMAIN queue : ~ Earlier(queue[j], queue[i])

\* The two earliest signals are joined.
Join(acc, and) ==
    LET s == acc.queue[Top(acc.queue)]
        others == RemoveAt(acc.queue, Top(acc.queue))
        t == others[Top(others)]
        new == IF and THEN create_and(acc.net, s.f, t.f) ELSE create_or(acc.net, s.f, t.f)
    IN  [net |-> new.net,
         queue |-> Append(RemoveAt(others, Top(others)), [f |-> new.f, level |-> JoinLevel(s, t)])]

Joins(net, queue, and) ==
    LET Joined[k \in 0..Len(queue)] ==
            IF k = 0 THEN [net |-> net, queue |-> queue] ELSE Join(Joined[k - 1], and)
    IN  Joined

\* They are joined until one is left.  Nothing to join is the constant true.
balanced_tree(net, queue, and) ==
    LET tree == Joins(net, queue, and)[Len(queue) - 1]
    IN  IF queue = <<>> THEN [net |-> net, cand |-> [f |-> create_not(get_constant), level |-> 0]]
        ELSE [net |-> tree.net, cand |-> tree.queue[1]]

\* A literal of a cube, in the new network.
Arrival(s) ==
    [f |-> Image([n \in DOMAIN old_to_new |-> old_to_new[n].f], s), level |-> old_to_new[s.index].level]

Product(acc, cube) ==
    LET tree == balanced_tree(acc.net, [i \in DOMAIN cube |-> Arrival(cube[i])], TRUE)
    IN  [net |-> tree.net, and_terms |-> Append(acc.and_terms, tree.cand),
         size |-> acc.size + (IF cube = <<>> THEN 0 ELSE Len(cube) - 1)]

Products(net, cubes) ==
    LET Upto[k \in 0..Len(cubes)] ==
            IF k = 0 THEN [net |-> net, and_terms |-> <<>>, size |-> 0]
            ELSE Product(Upto[k - 1], cubes[k])
    IN  Upto

create_function(net, table, leaves) ==
    LET cubes == create_sop_form(table, leaves) IN Products(net, cubes)[Len(cubes)]

\* sop_rebalancing: the network with the candidate for a function of the leaves,
\* and its size.
Rebalanced(net, table, leaves) ==
    LET sop == create_function(net, table, leaves)
        sum == balanced_tree(sop.net, sop.and_terms, FALSE)
    IN  [net |-> sum.net, cand |-> sum.cand,
         size |-> sop.size + (IF sop.and_terms = <<>> THEN 0 ELSE Len(sop.and_terms) - 1)]

-----------------------------------------------------------------------------

\* Faulty: a function that is false is rebalanced too.
CutsToTryAlsoFalse(n) == {c \in IrredundantCuts(ntk, n) : Cardinality(c) # 1}

\* A function that is false has no products, and a sum of none would be true.
CutsToTry(n) == {c \in IrredundantCuts(ntk, n) :
                    Cardinality(c) # 1 /\ truth_table(ntk, Signal(n, FALSE), c) # {}}

\* No level yet: UINT32_MAX, later than that of any network; the signal is the
\* default one.
NoLevel == -1
NoCandidate == [f |-> get_constant, level |-> NoLevel, size |-> 0]

\* No balancing is under way.
BalanceInit ==
    /\ dest = EmptyNetwork(0) /\ old_to_new = <<>>
    /\ phase = "done" /\ left = {} /\ best = NoCandidate

BeginBalance(net) ==
    /\ ntk' = net
    /\ dest' = EmptyNetwork(net.pis)
    /\ old_to_new' = [n \in 0..net.pis |-> [f |-> Signal(n, FALSE), level |-> 0]]
    /\ gate' = net.pis + 1 /\ phase' = "gate"
    /\ left' = {} /\ best' = NoCandidate

\* Only what the outputs need is visited.
SkipGate ==
    /\ phase = "gate" /\ gate \in Gates(ntk) \ LiveGates(ntk)
    /\ gate' = gate + 1
    /\ UNCHANGED <<ntk, dest, old_to_new, phase, left, best>>

VisitGate ==
    /\ phase = "gate" /\ gate \in LiveGates(ntk)
    /\ phase' = "cuts" /\ left' = CutsToTry(gate) /\ best' = NoCandidate
    /\ UNCHANGED <<ntk, dest, old_to_new, gate>>

\* Faulty: the last candidate is kept.
LastCandidate(cand, size) == TRUE

Better(cand, size) ==
    \/ best.level = NoLevel \/ cand.level < best.level
    \/ cand.level = best.level /\ size < best.size

\* The candidate's gates stay, better or not.
Keep(new) ==
    /\ dest' = new.net
    /\ best' = IF Better(new.cand, new.size)
               THEN [f |-> new.cand.f, level |-> new.cand.level, size |-> new.size]
               ELSE best

\* Small cuts come first.
TryCut ==
    /\ phase = "cuts"
    /\ \E cut \in left :
          /\ \A c \in left : Cardinality(cut) <= Cardinality(c)
          /\ Keep(Rebalanced(dest, truth_table(ntk, Signal(gate, FALSE), cut), cut))
          /\ left' = left \ {cut}
    /\ UNCHANGED <<ntk, old_to_new, gate, phase>>

SettleGate ==
    /\ phase = "cuts" /\ left = {}
    /\ old_to_new' = Known(old_to_new, gate, [f |-> best.f, level |-> best.level])
    /\ gate' = gate + 1 /\ phase' = "gate"
    /\ UNCHANGED <<ntk, dest, left, best>>

FinishBalance ==
    /\ phase = "gate" /\ gate \notin Gates(ntk)
    /\ LET signals == [n \in DOMAIN old_to_new |-> old_to_new[n].f]
           built == [dest EXCEPT !.pos = [i \in DOMAIN ntk.pos |-> Image(signals, ntk.pos[i])]]
       IN  ntk' = cleanup_dangling(built)
    /\ dest' = EmptyNetwork(0) /\ old_to_new' = <<>> /\ gate' = 0
    /\ phase' = "done" /\ left' = {} /\ best' = NoCandidate

BalanceStep == SkipGate \/ VisitGate \/ TryCut \/ SettleGate

-----------------------------------------------------------------------------
(* Properties.                                                             *)

\* What a node has become computes what the node computes, and so does the
\* candidate that is kept for the gate in turn: through sums of products over
\* cuts with don't-care leaves, complements, and gates that are there already.
BalancePreserves ==
    phase # "done" =>
        /\ \A n \in DOMAIN old_to_new :
              Function(dest, old_to_new[n].f) = Function(ntk, Signal(n, FALSE))
        /\ phase = "cuts" /\ best.level # NoLevel =>
              Function(dest, best.f) = Function(ntk, Signal(gate, FALSE))

\* The levels the candidates are compared by are real: no signal is later than
\* its level says, and no gate gets a later one than it had.
LevelsSound ==
    /\ IsNetwork(dest)
    /\ phase # "done" => \A n \in DOMAIN old_to_new :
          /\ Depth(dest, old_to_new[n].f.index) <= old_to_new[n].level
          /\ old_to_new[n].level <= Depth(ntk, n)
=============================================================================
