---------------------------- MODULE AigStoreProofs ----------------------------
(***************************************************************************)
(* Proofs about AigStore for every set of functions and of handles and for *)
(* every bound.                                                            *)
(***************************************************************************)
EXTENDS AigStore, TLAPS

StoreInv == StoreTypeOK /\ CurrentExists

\* Removing an element.
LEMMA RemovedType ==
  ASSUME NEW T, NEW s \in Seq(T), NEW i \in 1..Len(s)
  PROVE  /\ Removed(s, i) \in Seq(T)
         /\ Len(Removed(s, i)) = Len(s) - 1
         /\ \A j \in 1..(Len(s) - 1) : \E k \in 1..Len(s) : Removed(s, i)[j] = s[k]
<1>1. Len(s) - 1 \in Nat
  OBVIOUS
<1>2. \A j \in 1..(Len(s) - 1) : (IF j < i THEN s[j] ELSE s[j + 1]) \in T
  OBVIOUS
<1>3. Removed(s, i) \in [1..(Len(s) - 1) -> T]
  BY <1>2 DEF Removed
<1>4. Removed(s, i) \in Seq(T) /\ Len(Removed(s, i)) = Len(s) - 1
  BY <1>1, <1>3
<1>5. \A j \in 1..(Len(s) - 1) : \E k \in 1..Len(s) : Removed(s, i)[j] = s[k]
  BY DEF Removed
<1> QED BY <1>4, <1>5

\* The element that rewrite, balance and resub add.
LEMMA CurrentElement ==
  ASSUME StoreInv, ~Empty
  PROVE  /\ current \in DOMAIN aigs /\ aigs[current] \in Elements
         /\ Aig \in Nets
         /\ \A h \in Handles : Derived(h) \in Elements
<1>1. current \in DOMAIN aigs
  BY DEF StoreInv, CurrentExists
<1>2. aigs[current] \in Elements
  BY <1>1 DEF StoreInv, StoreTypeOK
<1>3. Aig \in Nets
  BY <1>2 DEF Aig, Elements, StoreInv, StoreTypeOK
<1>4. \A h \in Handles : Derived(h) \in Elements
  BY <1>2 DEF Derived, Elements
<1> QED BY <1>1, <1>2, <1>3, <1>4

LEMMA ReadType ==
  ASSUME NEW net \in Nets, NEW h \in Handles, NEW parsed \in BOOLEAN
  PROVE  ElementRead(net, h, parsed) \in Elements
BY DEF ElementRead, Elements, Origins, Nets

LEMMA ExtendType ==
  ASSUME StoreInv, NEW e \in Elements, Extend(e)
  PROVE  /\ aigs' \in Seq(Elements)
         /\ current' \in 0..MaxElements
         /\ current' \in DOMAIN aigs'
         /\ aigs' # <<>>
         /\ Len(aigs') = Len(aigs) + 1 /\ Len(aigs') <= MaxElements
         /\ \A i \in DOMAIN aigs : aigs'[i] = aigs[i]
         /\ aigs'[Len(aigs) + 1] = e
BY StoreAssumption DEF StoreInv, StoreTypeOK, Extend

-----------------------------------------------------------------------------
(* Types, and the current element.                                         *)

LEMMA StoreInit == Init => StoreInv
<1> SUFFICES ASSUME Init PROVE StoreInv
  OBVIOUS
<1>1. storage \in [Handles -> Nets] /\ library \in BOOLEAN
  BY DEF Init
<1>2. aigs = <<>> /\ current = 0
  BY DEF Init
<1>3. aigs \in Seq(Elements) /\ Len(aigs) <= MaxElements /\ current \in 0..MaxElements
  BY <1>2, StoreAssumption
<1>4. mapped \in [outputs: Functions, origin: Origins]
  BY DEF Init, Origins
<1> QED BY <1>1, <1>2, <1>3, <1>4 DEF StoreInv, StoreTypeOK, CurrentExists, Empty

LEMMA ReadInv == StoreInv /\ ReadAig => StoreInv'
<1> SUFFICES ASSUME StoreInv, ReadAig PROVE StoreInv'
  OBVIOUS
<1>1. PICK net \in Nets, h \in Handles, parsed, new \in BOOLEAN :
        /\ Fresh(h) /\ storage' = [storage EXCEPT ![h] = net]
        /\ ReadInto(ElementRead(net, h, parsed), new)
  BY DEF ReadAig
<1> DEFINE e == ElementRead(net, h, parsed)
<1>2. e \in Elements
  BY ReadType
<1>3. storage' \in [Handles -> Nets]
  BY <1>1 DEF StoreInv, StoreTypeOK
<1>4. library' \in BOOLEAN /\ mapped' \in [outputs: Functions, origin: Origins]
  BY DEF ReadAig, StoreInv, StoreTypeOK
<1>5. CASE Extend(e)
  BY <1>2, <1>3, <1>4, <1>5, ExtendType DEF StoreInv, StoreTypeOK, CurrentExists, Empty
<1>6. CASE ~Empty /\ aigs' = [aigs EXCEPT ![current] = e] /\ UNCHANGED current
  <2>1. aigs \in Seq(Elements) /\ current \in DOMAIN aigs
    BY <1>6 DEF StoreInv, StoreTypeOK, CurrentExists
  <2>2. aigs' \in Seq(Elements) /\ Len(aigs') = Len(aigs) /\ aigs' # <<>>
    BY <2>1, <1>2, <1>6
  <2> QED BY <2>1, <2>2, <1>3, <1>4, <1>6 DEF StoreInv, StoreTypeOK, CurrentExists, Empty
<1> QED BY <1>1, <1>5, <1>6 DEF ReadInto

\* rewrite and balance add an element with a storage of its own.
LEMMA AddInv ==
  ASSUME StoreInv, ~Empty, NEW h \in Handles, NEW net \in Nets,
         storage' = [storage EXCEPT ![h] = net], Extend(Derived(h)), UNCHANGED <<library, mapped>>
  PROVE  StoreInv'
<1>1. Derived(h) \in Elements
  BY CurrentElement
<1>2. storage' \in [Handles -> Nets]
  BY DEF StoreInv, StoreTypeOK
<1> QED BY <1>1, <1>2, ExtendType DEF StoreInv, StoreTypeOK, CurrentExists, Empty

LEMMA PopInv == StoreInv /\ Pop => StoreInv'
<1> SUFFICES ASSUME StoreInv, Pop PROVE StoreInv'
  OBVIOUS
<1>1. aigs \in Seq(Elements) /\ current \in 1..Len(aigs) /\ current \in 0..MaxElements
  BY DEF StoreInv, StoreTypeOK, CurrentExists, Pop
<1>2. aigs' \in Seq(Elements) /\ Len(aigs') = Len(aigs) - 1
  BY <1>1, RemovedType DEF Pop
<1>3. current' = IF current = Len(aigs) THEN current - 1 ELSE current
  BY DEF Pop
<1>4. current' \in 0..MaxElements /\ Len(aigs') <= MaxElements
  BY <1>1, <1>2, <1>3, StoreAssumption DEF StoreInv, StoreTypeOK
<1>5. CurrentExists'
  BY <1>1, <1>2, <1>3 DEF CurrentExists, Empty
<1> QED BY <1>2, <1>4, <1>5 DEF Pop, StoreInv, StoreTypeOK

LEMMA StoreStep == StoreInv /\ [Next]_storeVars => StoreInv'
<1> SUFFICES ASSUME StoreInv, [Next]_storeVars PROVE StoreInv'
  OBVIOUS
<1>1. CASE ReadAig
  BY <1>1, ReadInv
<1>2. CASE ReadGenlib
  BY <1>2 DEF ReadGenlib, StoreInv, StoreTypeOK, CurrentExists, Empty
<1>3. CASE Rewrite
  BY <1>3, AddInv DEF Rewrite
<1>4. CASE Balance
  BY <1>4, AddInv DEF Balance
<1>5. CASE Resub
  <2>1. aigs[current] \in Elements /\ Extend(aigs[current])
    BY <1>5, CurrentElement DEF Resub
  <2> QED BY <1>5, <2>1, ExtendType DEF Resub, StoreInv, StoreTypeOK, CurrentExists, Empty
<1>6. CASE Techmap
  <2>1. Aig \in Nets /\ aigs[current] \in Elements
    BY <1>6, CurrentElement DEF Techmap
  <2>2. mapped' \in [outputs: Functions, origin: Origins]
    BY <1>6, <2>1 DEF Techmap, Nets, Elements
  <2> QED BY <1>6, <2>2 DEF Techmap, StoreInv, StoreTypeOK, CurrentExists, Empty
<1>7. CASE SetCurrent
  <2>1. PICK i \in 1..(MaxElements + 1) : i <= Len(aigs) /\ current' = i
    BY <1>7 DEF SetCurrent
  <2>2. UNCHANGED <<storage, aigs, library, mapped>>
    BY <1>7 DEF SetCurrent
  <2>3. aigs \in Seq(Elements) /\ Len(aigs) <= MaxElements
    BY DEF StoreInv, StoreTypeOK
  <2>4. current' \in 0..MaxElements /\ current' \in DOMAIN aigs /\ aigs # <<>>
    BY <2>1, <2>3, StoreAssumption
  <2> QED BY <2>2, <2>4 DEF StoreInv, StoreTypeOK, CurrentExists, Empty
<1>8. CASE Pop
  BY <1>8, PopInv
<1>9. CASE Clear
  BY <1>9, StoreAssumption DEF Clear, StoreInv, StoreTypeOK, CurrentExists, Empty
<1>10. CASE ClearGenlib
  BY <1>10 DEF ClearGenlib, StoreInv, StoreTypeOK, CurrentExists, Empty
<1>11. CASE UNCHANGED storeVars
  BY <1>11 DEF storeVars, StoreInv, StoreTypeOK, CurrentExists, Empty
<1> QED BY <1>1, <1>2, <1>3, <1>4, <1>5, <1>6, <1>7, <1>8, <1>9, <1>10, <1>11 DEF Next

\* Whatever the commands, the store is well typed, and a store that is not
\* empty has a current element: current() never throws behind a command's test.
THEOREM StoreTypeCorrect == Spec => []StoreTypeOK
<1>1. StoreInv /\ [Next]_storeVars => StoreInv'
  BY StoreStep
<1>2. StoreInv => StoreTypeOK
  BY DEF StoreInv
<1> QED BY StoreInit, <1>1, <1>2, PTL DEF Spec

THEOREM CurrentAlwaysExists == Spec => []CurrentExists
<1>1. StoreInv /\ [Next]_storeVars => StoreInv'
  BY StoreStep
<1>2. StoreInv => CurrentExists
  BY DEF StoreInv
<1> QED BY StoreInit, <1>1, <1>2, PTL DEF Spec

-----------------------------------------------------------------------------
(* What the elements compute.                                              *)

\* A storage that no element refers to may be overwritten.
LEMMA FreshKeeps ==
  ASSUME StoreInv, NEW h, Fresh(h), NEW net, storage' = [storage EXCEPT ![h] = net],
         NEW i \in DOMAIN aigs
  PROVE  aigs[i].handle \in Handles /\ storage'[aigs[i].handle] = storage[aigs[i].handle]
<1>0. aigs[i] \in Elements
  BY DEF StoreInv, StoreTypeOK
<1>1. aigs[i].handle \in Handles /\ storage \in [Handles -> Nets]
  BY <1>0 DEF StoreInv, StoreTypeOK, Elements
<1>2. aigs[i].handle # h
  BY DEF Fresh
<1> QED BY <1>1, <1>2

\* A new element that computes what the current one computes keeps the lineage.
LEMMA AddLineage ==
  ASSUME StoreInv, Lineage, ~Empty, NEW h \in Handles, Fresh(h), NEW net \in Nets,
         net.outputs = Aig.outputs, storage' = [storage EXCEPT ![h] = net],
         Extend(Derived(h)), UNCHANGED mapped
  PROVE  Lineage'
<1>1. current \in DOMAIN aigs /\ Derived(h) \in Elements
  BY CurrentElement
<1>2. Len(aigs') = Len(aigs) + 1 /\ aigs' \in Seq(Elements) /\ aigs \in Seq(Elements)
  BY <1>1, ExtendType DEF StoreInv, StoreTypeOK
<1>3. ASSUME NEW i \in DOMAIN aigs'
      PROVE  Faithful(aigs'[i].origin, storage'[aigs'[i].handle].outputs)
  <2>1. CASE i \in DOMAIN aigs
    <3>1. aigs'[i] = aigs[i]
      BY <2>1, <1>1, ExtendType
    <3> QED BY <3>1, <2>1, FreshKeeps DEF Lineage
  <2>2. CASE i = Len(aigs) + 1
    <3>1. aigs'[i] = Derived(h)
      BY <2>2, <1>1, ExtendType
    <3>2. storage'[h] = net
      BY DEF StoreInv, StoreTypeOK
    <3>3. Faithful(aigs[current].origin, Aig.outputs)
      BY <1>1 DEF Lineage, Aig
    <3> QED BY <3>1, <3>2, <3>3 DEF Derived
  <2> QED BY <2>1, <2>2, <1>2
<1>4. Faithful(mapped'.origin, mapped'.outputs)
  BY DEF Lineage
<1> QED BY <1>3, <1>4 DEF Lineage

LEMMA ReadLineage == StoreInv /\ Lineage /\ ReadAig => Lineage'
<1> SUFFICES ASSUME StoreInv, Lineage, ReadAig PROVE Lineage'
  OBVIOUS
<1>1. PICK net \in Nets, h \in Handles, parsed, new \in BOOLEAN :
        /\ Fresh(h) /\ storage' = [storage EXCEPT ![h] = net]
        /\ ReadInto(ElementRead(net, h, parsed), new)
  BY DEF ReadAig
<1> DEFINE e == ElementRead(net, h, parsed)
<1>2. e \in Elements
  BY ReadType
<1>3. storage'[h] = net
  BY <1>1 DEF StoreInv, StoreTypeOK
<1>4. Faithful(e.origin, storage'[e.handle].outputs)
  BY <1>3 DEF Faithful, ElementRead
<1>5. aigs \in Seq(Elements)
  BY DEF StoreInv, StoreTypeOK
<1>6. \A i \in DOMAIN aigs' : aigs'[i] = e \/ (i \in DOMAIN aigs /\ aigs'[i] = aigs[i])
  <2>1. CASE Extend(e)
    BY <2>1, <1>2, <1>5, ExtendType
  <2>2. CASE aigs' = [aigs EXCEPT ![current] = e]
    BY <2>2, <1>5
  <2> QED BY <1>1, <2>1, <2>2 DEF ReadInto
<1>7. ASSUME NEW i \in DOMAIN aigs'
      PROVE  Faithful(aigs'[i].origin, storage'[aigs'[i].handle].outputs)
  <2>1. CASE aigs'[i] = e
    BY <2>1, <1>4
  <2>2. CASE i \in DOMAIN aigs /\ aigs'[i] = aigs[i]
    BY <2>2, <1>1, FreshKeeps DEF Lineage
  <2> QED BY <1>6, <2>1, <2>2
<1>8. Faithful(mapped'.origin, mapped'.outputs)
  BY DEF ReadAig, Lineage
<1> QED BY <1>7, <1>8 DEF Lineage

\* Every element after the step is one from before it, and storages are kept.
LEMMA SubsetLineage ==
  ASSUME Lineage, UNCHANGED <<storage, mapped>>,
         \A i \in DOMAIN aigs' : \E k \in DOMAIN aigs : aigs'[i] = aigs[k]
  PROVE  Lineage'
BY DEF Lineage

LEMMA LineageStep == StoreInv /\ Lineage /\ [Next]_storeVars => Lineage'
<1> SUFFICES ASSUME StoreInv, Lineage, [Next]_storeVars PROVE Lineage'
  OBVIOUS
<1>0. aigs \in Seq(Elements)
  BY DEF StoreInv, StoreTypeOK
<1>1. CASE ReadAig
  BY <1>1, ReadLineage
<1>2. CASE ReadGenlib
  BY <1>2 DEF ReadGenlib, Lineage
<1>3. CASE Rewrite
  BY <1>3, AddLineage DEF Rewrite
<1>4. CASE Balance
  BY <1>4, AddLineage DEF Balance
<1>5. CASE Resub
  <2>1. ~Empty /\ Extend(aigs[current]) /\ UNCHANGED <<storage, mapped>>
    BY <1>5 DEF Resub
  <2>2. current \in DOMAIN aigs /\ aigs[current] \in Elements
    BY <2>1, CurrentElement
  <2>3. \A i \in DOMAIN aigs' : \E k \in DOMAIN aigs : aigs'[i] = aigs[k]
    BY <1>0, <2>1, <2>2, ExtendType
  <2> QED BY <2>1, <2>3, SubsetLineage
<1>6. CASE Techmap
  <2>1. current \in DOMAIN aigs
    BY <1>6, CurrentElement DEF Techmap
  <2>2. Faithful(aigs[current].origin, Aig.outputs)
    BY <2>1 DEF Lineage, Aig
  <2> QED BY <1>6, <2>2 DEF Techmap, Lineage
<1>7. CASE SetCurrent
  BY <1>7 DEF SetCurrent, Lineage
<1>8. CASE Pop
  <2>1. current \in 1..Len(aigs) /\ aigs' = Removed(aigs, current)
    BY <1>0, <1>8 DEF Pop, StoreInv, CurrentExists
  <2>2. \A i \in DOMAIN aigs' : \E k \in DOMAIN aigs : aigs'[i] = aigs[k]
    <3>1. /\ DOMAIN aigs = 1..Len(aigs) /\ DOMAIN aigs' = 1..(Len(aigs) - 1)
          /\ \A j \in 1..(Len(aigs) - 1) : \E k \in 1..Len(aigs) :
                 Removed(aigs, current)[j] = aigs[k]
      <4>1. DOMAIN aigs = 1..Len(aigs)
        BY <1>0
      <4>2. aigs' \in Seq(Elements) /\ Len(aigs') = Len(aigs) - 1
        BY <1>0, <2>1, RemovedType
      <4>3. \A j \in 1..(Len(aigs) - 1) : \E k \in 1..Len(aigs) :
              Removed(aigs, current)[j] = aigs[k]
        BY <1>0, <2>1 DEF Removed
      <4> QED BY <4>1, <4>2, <4>3
    <3> QED BY <3>1, <2>1
  <2> QED BY <1>8, <2>2, SubsetLineage DEF Pop
<1>9. CASE Clear
  BY <1>9 DEF Clear, Lineage
<1>10. CASE ClearGenlib
  BY <1>10 DEF ClearGenlib, Lineage
<1>11. CASE UNCHANGED storeVars
  BY <1>11 DEF storeVars, Lineage
<1> QED BY <1>1, <1>2, <1>3, <1>4, <1>5, <1>6, <1>7, <1>8, <1>9, <1>10, <1>11 DEF Next

\* Every element computes what the file it stems from said, whatever commands
\* and however elements share storages; techmap writes the same function.
THEOREM LineageHolds == Spec => []Lineage
<1>1. Init => Lineage
  BY DEF Init, Lineage, Faithful
<1>2. StoreInv /\ [Next]_storeVars => StoreInv'
  BY StoreStep
<1>3. StoreInv /\ Lineage /\ [Next]_storeVars => Lineage'
  BY LineageStep
<1> QED BY StoreInit, <1>1, <1>2, <1>3, PTL DEF Spec

-----------------------------------------------------------------------------
(* What a command leaves alone.                                            *)

Kept == Len(aigs') >= Len(aigs) =>
          \A i \in DOMAIN aigs : Len(aigs') > Len(aigs) \/ i # current =>
            aigs'[i] = aigs[i] /\ storage'[aigs[i].handle] = storage[aigs[i].handle]

LEMMA KeptStep == StoreInv /\ [Next]_storeVars => [Kept]_storeVars
<1> SUFFICES ASSUME StoreInv, Next PROVE Kept
  BY DEF storeVars
<1>0. aigs \in Seq(Elements)
  BY DEF StoreInv, StoreTypeOK
<1>1. CASE ReadAig
  <2>1. PICK net \in Nets, h \in Handles, parsed, new \in BOOLEAN :
          /\ Fresh(h) /\ storage' = [storage EXCEPT ![h] = net]
          /\ ReadInto(ElementRead(net, h, parsed), new)
    BY <1>1 DEF ReadAig
  <2> DEFINE e == ElementRead(net, h, parsed)
  <2>2. e \in Elements
    BY ReadType
  <2>3. \A i \in DOMAIN aigs : storage'[aigs[i].handle] = storage[aigs[i].handle]
    BY <2>1, FreshKeeps
  <2>4. CASE Extend(e)
    BY <2>2, <2>3, <2>4, ExtendType DEF Kept
  <2>5. CASE aigs' = [aigs EXCEPT ![current] = e]
    <3>1. Len(aigs') = Len(aigs) /\ \A i \in DOMAIN aigs : i # current => aigs'[i] = aigs[i]
      BY <1>0, <2>5
    <3> QED BY <1>0, <3>1, <2>3 DEF Kept
  <2> QED BY <2>1, <2>4, <2>5 DEF ReadInto
<1>2. ASSUME NEW h \in Handles, NEW net \in Nets, ~Empty, Fresh(h),
             storage' = [storage EXCEPT ![h] = net], Extend(Derived(h))
      PROVE  Kept
  <2>1. \A i \in DOMAIN aigs : aigs'[i] = aigs[i]
    BY <1>2, CurrentElement, ExtendType
  <2> QED BY <2>1, <1>2, FreshKeeps DEF Kept
<1>3. CASE Rewrite
  BY <1>2, <1>3 DEF Rewrite
<1>4. CASE Balance
  BY <1>2, <1>4 DEF Balance
<1>5. CASE Resub
  <2>1. \A i \in DOMAIN aigs : aigs'[i] = aigs[i]
    BY <1>5, CurrentElement, ExtendType DEF Resub
  <2> QED BY <1>5, <2>1 DEF Resub, Kept
<1>6. CASE Pop
  <2>1. current \in 1..Len(aigs) /\ Len(aigs') = Len(aigs) - 1
    BY <1>0, <1>6, RemovedType DEF Pop, StoreInv, CurrentExists
  <2> QED BY <1>0, <2>1 DEF Kept
<1>7. CASE Clear
  <2>1. aigs' = <<>>
    BY <1>7 DEF Clear
  <2> QED BY <1>0, <2>1, <1>7 DEF Kept, Clear
<1>8. CASE ReadGenlib \/ Techmap \/ SetCurrent \/ ClearGenlib
  BY <1>8 DEF ReadGenlib, Techmap, SetCurrent, ClearGenlib, Kept
<1> QED BY <1>1, <1>3, <1>4, <1>5, <1>6, <1>7, <1>8 DEF Next

\* No command changes an element it does not replace, nor the network behind
\* it, though storages are shared: one can always go back to what one had.
THEOREM OthersStayKept == Spec => OthersKept
<1>1. StoreInv /\ [Next]_storeVars => StoreInv'
  BY StoreStep
<1>2. StoreInv /\ [Next]_storeVars => [Kept]_storeVars
  BY KeptStep
<1> QED BY StoreInit, <1>1, <1>2, PTL DEF Spec, OthersKept, Kept
=============================================================================
