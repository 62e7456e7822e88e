------------------------------- MODULE AigStore -------------------------------
(***************************************************************************)
(* The shell's store of networks.  An element is a handle of a storage     *)
(* that other elements may share; a command copies the current handle,     *)
(* transforms the copy and adds it as a new element.  A transformation is  *)
(* described by what it promises; AigSession runs the passes themselves    *)
(* and implements this module.                                             *)
(***************************************************************************)
EXTENDS Integers, Sequences

CONSTANTS Functions,     \* what the outputs of a network may compute
          Unknown,       \* for a file that could not be parsed to its end
          Handles,       \* addresses of storages
          MaxSize,       \* a bound on the gates of a network
          MaxElements    \* a bound on the elements of the store

ASSUME StoreAssumption == Unknown \notin Functions /\ MaxSize \in Nat /\ MaxElements \in Nat

VARIABLES
    storage,     \* for each handle, the network
    aigs,        \* the elements, with the functions of the file they stem from
    current,     \* the position of the current one, 0 if there is none
    library,     \* whether a gate library has been read
    mapped       \* what techmap has written last, and the file it stems from

storeVars == <<storage, aigs, current, library, mapped>>

Nets == [outputs: Functions, size: 0..MaxSize]
Origins == Functions \cup {Unknown}
Elements == [handle: Handles, origin: Origins]

\* store().size() == 0 is the commands' test, a negative index that of current().
Empty == aigs = <<>>

Init ==
    /\ storage \in [Handles -> Nets]
    /\ aigs = <<>> /\ current = 0 /\ library = FALSE
    /\ mapped \in [outputs: Functions, origin: {Unknown}]

\* A storage that nothing refers to.
Fresh(h) == h \in Handles /\ \A i \in DOMAIN aigs : aigs[i].handle # h

Extend(element) ==
    /\ Len(aigs) < MaxElements
    /\ aigs' = Append(aigs, element)
    /\ current' = Len(aigs) + 1

-----------------------------------------------------------------------------
(* Commands.                                                               *)

\* read_aiger, read_verilog: also what was read before an error is stored; it
\* replaces the current element unless there is none or a new one is asked for.
ElementRead(net, h, parsed) ==
    [handle |-> h, origin |-> IF parsed THEN net.outputs ELSE Unknown]

ReadInto(element, new) ==
    \/ (new \/ Empty) /\ Extend(element)
    \/ ~new /\ ~Empty /\ aigs' = [aigs EXCEPT ![current] = element] /\ UNCHANGED current

ReadAig ==
    /\ \E net \in Nets, h \in Handles, parsed, new \in BOOLEAN :
          /\ Fresh(h)
          /\ storage' = [storage EXCEPT ![h] = net]
          /\ ReadInto(ElementRead(net, h, parsed), new)
    /\ UNCHANGED <<library, mapped>>

ReadGenlib == library' = TRUE /\ UNCHANGED <<storage, aigs, current, mapped>>

\* Faulty: the last element.
AigLast == storage[aigs[Len(aigs)].handle]

\* The network of the current element.
Aig == storage[aigs[current].handle]

Derived(h) == [handle |-> h, origin |-> aigs[current].origin]

\* Faulty: the element is transformed itself, through a reference.
RewriteReference ==
    /\ ~Empty /\ Len(aigs) < MaxElements
    /\ \E h \in Handles, net \in Nets :
          /\ Fresh(h)
          /\ net.outputs = Aig.outputs /\ net.size <= Aig.size
          /\ storage' = [storage EXCEPT ![h] = net]
          /\ aigs' = Append([aigs EXCEPT ![current] = Derived(h)], Derived(h))
          /\ current' = Len(aigs) + 1
    /\ UNCHANGED <<library, mapped>>

\* rewrite: the pass ends with cleanup_dangling, hence a storage of its own.
Rewrite ==
    /\ ~Empty
    /\ \E h \in Handles, net \in Nets :
          /\ Fresh(h)
          /\ net.outputs = Aig.outputs /\ net.size <= Aig.size
          /\ storage' = [storage EXCEPT ![h] = net]
          /\ Extend(Derived(h))
    /\ UNCHANGED <<library, mapped>>

\* balance: another network, which may be larger.
Balance ==
    /\ ~Empty
    /\ \E h \in Handles, net \in Nets :
          /\ Fresh(h)
          /\ net.outputs = Aig.outputs
          /\ storage' = [storage EXCEPT ![h] = net]
          /\ Extend(Derived(h))
    /\ UNCHANGED <<library, mapped>>

\* resub: the pass is empty, so the new element shares the old one's storage.
Resub ==
    /\ ~Empty
    /\ Extend(aigs[current])
    /\ UNCHANGED <<storage, library, mapped>>

\* techmap: the current network in gates of the library; the store stays.
Techmap ==
    /\ library /\ ~Empty
    /\ mapped' = [outputs |-> Aig.outputs, origin |-> aigs[current].origin]
    /\ UNCHANGED <<storage, aigs, current, library>>

-----------------------------------------------------------------------------
(* The shell's own commands: current, store --pop and --clear.             *)

\* Faulty: any index.
SetCurrentAny ==
    /\ \E i \in 1..(MaxElements + 1) : current' = i
    /\ UNCHANGED <<storage, aigs, library, mapped>>

SetCurrent ==
    /\ \E i \in 1..(MaxElements + 1) : i <= Len(aigs) /\ current' = i
    /\ UNCHANGED <<storage, aigs, library, mapped>>

Removed(s, i) == [j \in 1..(Len(s) - 1) |-> IF j < i THEN s[j] ELSE s[j + 1]]

\* Faulty: the index stays.
PopKeepIndex ==
    /\ ~Empty /\ current # 0
    /\ aigs' = Removed(aigs, current)
    /\ UNCHANGED <<storage, current, library, mapped>>

Pop ==
    /\ ~Empty /\ current # 0
    /\ aigs' = Removed(aigs, current)
    /\ current' = IF current = Len(aigs) THEN current - 1 ELSE current
    /\ UNCHANGED <<storage, library, mapped>>

Clear ==
    /\ aigs' = <<>> /\ current' = 0
    /\ UNCHANGED <<storage, library, mapped>>

ClearGenlib == library' = FALSE /\ UNCHANGED <<storage, aigs, current, mapped>>

Next ==
    \/ ReadAig \/ ReadGenlib \/ Rewrite \/ Balance \/ Resub \/ Techmap
    \/ SetCurrent \/ Pop \/ Clear \/ ClearGenlib

Spec == Init /\ [][Next]_storeVars

-----------------------------------------------------------------------------
(* Properties.                                                             *)

\* Types.
StoreTypeOK ==
    /\ storage \in [Handles -> Nets]
    /\ aigs \in Seq(Elements) /\ Len(aigs) <= MaxElements
    /\ current \in 0..MaxElements
    /\ library \in BOOLEAN
    /\ mapped \in [outputs: Functions, origin: Origins]

\* The commands ask whether the store is empty, current() whether its index is
\* negative: behind their test there is always a current element.
CurrentExists == IF Empty THEN current = 0 ELSE current \in DOMAIN aigs

Faithful(origin, outputs) == origin \in {Unknown, outputs}

\* However commands are mixed and elements share storages, an element computes
\* what the file it stems from said, and so does what techmap wrote.
Lineage ==
    /\ \A i \in DOMAIN aigs : Faithful(aigs[i].origin, storage[aigs[i].handle].outputs)
    /\ Faithful(mapped.origin, mapped.outputs)

\* A command that adds an element leaves the others, and their networks, as
\* they were; one that replaces the current element leaves all the others, also
\* those that shared its storage.
OthersKept == [][
    Len(aigs') >= Len(aigs) =>
        \A i \in DOMAIN aigs : Len(aigs') > Len(aigs) \/ i # current =>
            aigs'[i] = aigs[i] /\ storage'[aigs[i].handle] = storage[aigs[i].handle]]_storeVars
=============================================================================
