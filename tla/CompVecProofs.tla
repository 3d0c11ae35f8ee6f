---------------------------- MODULE CompVecProofs ----------------------------
(***************************************************************************)
(* Proofs about CompVec for every set of values and every bound: the slots *)
(* stay partitioned, ids are never given out again, and the vector         *)
(* implements CompTable.                                                   *)
(***************************************************************************)
EXTENDS CompVec, SequenceTheorems, FiniteSetTheorems, TLAPS

(* The inductive invariant.  SlotsPartitioned needs the types (a queued    *)
(* slot is a slot of the vector), and NoAliasing needs QueueIsFree: the    *)
(* slot that the next add takes from the queue is named by no id.          *)
IInv == TypeOK /\ SlotsPartitioned

-----------------------------------------------------------------------------
(* The two cases of addToVec, by what they do to the slot the new          *)
(* component takes and to the others.                                      *)
LEMMA ReuseSlotEffect ==
  ASSUME TypeOK, NEW c \in Comp, ReuseSlot(c)
  PROVE  /\ InsertIdx \in Slots
         /\ InsertIdx \in Queued
         /\ vec' \in Seq(Comp)
         /\ Slots' = Slots
         /\ vec'[InsertIdx] = c
         /\ \A s \in Slots : s # InsertIdx => vec'[s] = vec[s]
         /\ inactiveCompIdx' \in Seq(Slots)
         /\ Len(inactiveCompIdx') = Len(inactiveCompIdx) - 1
         /\ \A k \in DOMAIN inactiveCompIdx' :
              /\ k + 1 \in DOMAIN inactiveCompIdx
              /\ inactiveCompIdx'[k] = inactiveCompIdx[k + 1]
<1>1. /\ inactiveCompIdx \in Seq(Slots)
      /\ inactiveCompIdx # <<>>
      /\ vec \in Seq(Comp)
  BY DEF TypeOK, ReuseSlot
<1>2. /\ Head(inactiveCompIdx) = inactiveCompIdx[1]
      /\ 1 \in DOMAIN inactiveCompIdx
      /\ Head(inactiveCompIdx) \in Slots
  BY <1>1
<1>3. InsertIdx = Head(inactiveCompIdx)
  BY <1>1 DEF InsertIdx
<1>4. /\ vec' \in Seq(Comp)
      /\ Slots' = Slots
      /\ vec'[InsertIdx] = c
      /\ \A s \in Slots : s # InsertIdx => vec'[s] = vec[s]
  BY <1>1, <1>2, <1>3, ExceptSeq DEF ReuseSlot, Slots
<1>5. inactiveCompIdx' = Tail(inactiveCompIdx)
  BY DEF ReuseSlot
<1>6. /\ Tail(inactiveCompIdx) \in Seq(Slots)
      /\ Len(Tail(inactiveCompIdx)) = Len(inactiveCompIdx) - 1
      /\ \A k \in 1 .. Len(Tail(inactiveCompIdx)) :
           Tail(inactiveCompIdx)[k] = inactiveCompIdx[k + 1]
  BY <1>1, HeadTailProperties
<1>7. \A k \in DOMAIN inactiveCompIdx' :
        /\ k + 1 \in DOMAIN inactiveCompIdx
        /\ inactiveCompIdx'[k] = inactiveCompIdx[k + 1]
  BY <1>1, <1>5, <1>6
<1>8. InsertIdx \in Queued
  BY <1>2, <1>3 DEF Queued
<1> QED
  BY <1>2, <1>3, <1>4, <1>5, <1>6, <1>7, <1>8

LEMMA GrowVecEffect ==
  ASSUME TypeOK, NEW c \in Comp, GrowVec(c)
  PROVE  /\ InsertIdx = Len(vec) + 1
         /\ vec' \in Seq(Comp)
         /\ Slots' = Slots \cup {InsertIdx}
         /\ InsertIdx \notin Slots
         /\ vec'[InsertIdx] = c
         /\ \A s \in Slots : vec'[s] = vec[s]
         /\ inactiveCompIdx = <<>>
         /\ inactiveCompIdx' = <<>>
  BY DEF TypeOK, GrowVec, InsertIdx, Slots

LEMMA RemoveEffect ==
  ASSUME TypeOK, NEW id \in Live, Remove(id)
  PROVE  /\ idToIndex[id] \in Slots
         /\ vec' \in Seq(Comp)
         /\ Slots' = Slots
         /\ ~vec'[idToIndex[id]].isActive
         /\ \A s \in Slots : s # idToIndex[id] => vec'[s] = vec[s]
         /\ inactiveCompIdx' \in Seq(Slots)
         /\ Len(inactiveCompIdx') = Len(inactiveCompIdx) + 1
         /\ \A k \in DOMAIN inactiveCompIdx :
              inactiveCompIdx'[k] = inactiveCompIdx[k]
         /\ inactiveCompIdx'[Len(inactiveCompIdx) + 1] = idToIndex[id]
         /\ Queued' = Queued \cup {idToIndex[id]}
         /\ Live' = Live \ {id}
         /\ \A i \in Live' : idToIndex'[i] = idToIndex[i]
<1>1. /\ idToIndex[id] \in Slots
      /\ vec \in Seq(Comp)
      /\ inactiveCompIdx \in Seq(Slots)
  BY DEF TypeOK
<1>2. vec[idToIndex[id]] \in Comp
  BY <1>1 DEF Slots
<1> DEFINE freed == [vec[idToIndex[id]] EXCEPT !.isActive = FALSE]
<1>3. vec' = [vec EXCEPT ![idToIndex[id]] = freed]
  BY DEF Remove
<1>4. freed \in Comp /\ ~freed.isActive
  BY <1>2 DEF Comp
<1> HIDE DEF freed
<1>5. /\ vec' \in Seq(Comp)
      /\ Slots' = Slots
      /\ ~vec'[idToIndex[id]].isActive
      /\ \A s \in Slots : s # idToIndex[id] => vec'[s] = vec[s]
  BY <1>1, <1>3, <1>4, ExceptSeq DEF Slots
<1>6. inactiveCompIdx' = Append(inactiveCompIdx, idToIndex[id])
  BY DEF Remove
<1>7. /\ inactiveCompIdx' \in Seq(Slots)
      /\ Len(inactiveCompIdx') = Len(inactiveCompIdx) + 1
      /\ \A k \in DOMAIN inactiveCompIdx :
           inactiveCompIdx'[k] = inactiveCompIdx[k]
      /\ inactiveCompIdx'[Len(inactiveCompIdx) + 1] = idToIndex[id]
  BY <1>1, <1>6, AppendProperties
<1>8. Queued' = Queued \cup {idToIndex[id]}
  BY <1>1, <1>7 DEF Queued
<1>9. /\ Live' = Live \ {id}
      /\ \A i \in Live' : idToIndex'[i] = idToIndex[i]
  BY DEF Remove, Live
<1> QED
  BY <1>1, <1>5, <1>7, <1>8, <1>9
(* Writing the data of a component is writing a component.                 *)
LEMMA WrittenComp ==
  ASSUME NEW r \in Comp, NEW v \in Vals
  PROVE  /\ [r EXCEPT !.val = v] \in Comp
         /\ [r EXCEPT !.val = v].isActive = r.isActive
  BY DEF Comp

(* Writing changes the data of one slot and nothing else.                  *)
LEMMA WriteEffect ==
  ASSUME TypeOK, NEW id \in Live, NEW v \in Vals, Write(id, v)
  PROVE  /\ idToIndex[id] \in Slots
         /\ vec[idToIndex[id]].isActive
         /\ vec' \in Seq(Comp)
         /\ Slots' = Slots
         /\ vec'[idToIndex[id]].isActive
         /\ \A s \in Slots : s # idToIndex[id] => vec'[s] = vec[s]
<1>1. /\ idToIndex[id] \in Slots
      /\ vec \in Seq(Comp)
  BY DEF TypeOK
<1>2. vec[idToIndex[id]] \in Comp
  BY <1>1 DEF Slots
<1> DEFINE written == [vec[idToIndex[id]] EXCEPT !.val = v]
<1>3. /\ vec' = [vec EXCEPT ![idToIndex[id]] = written]
      /\ vec[idToIndex[id]].isActive
  BY DEF Write, IsActive
<1>4. written \in Comp /\ written.isActive
  BY <1>2, <1>3, WrittenComp
<1> HIDE DEF written
<1>5. /\ vec' \in Seq(Comp)
      /\ Slots' = Slots
      /\ vec'[idToIndex[id]] = written
      /\ \A s \in Slots : s # idToIndex[id] => vec'[s] = vec[s]
  BY <1>1, <1>3, <1>4, ExceptSeq DEF Slots
<1> QED
  BY <1>1, <1>3, <1>4, <1>5

(* What a read of the id sees after the write.                             *)
LEMMA WrittenValue ==
  ASSUME TypeOK, NEW id \in Live, NEW v \in Vals, Write(id, v)
  PROVE  vec'[idToIndex[id]] = [vec[idToIndex[id]] EXCEPT !.val = v]
<1> DEFINE written == [vec[idToIndex[id]] EXCEPT !.val = v]
<1>1. vec' = [vec EXCEPT ![idToIndex[id]] = written]
  BY DEF Write
<1>2. idToIndex[id] \in DOMAIN vec
  BY DEF TypeOK, Slots
<1> HIDE DEF written
<1>3. vec'[idToIndex[id]] = written
  BY <1>1, <1>2
<1> QED
  BY <1>3 DEF written

-----------------------------------------------------------------------------
(* What add does to the map from ids to slots.                             *)
LEMMA AddIds ==
  ASSUME TypeOK, NEW c \in Comp, Add(c)
  PROVE  /\ lastId \in Nat
         /\ lastId + 1 \in 1 .. MaxId
         /\ lastId' = lastId + 1
         /\ lastId + 1 \notin Live
         /\ Live' = Live \cup {lastId + 1}
         /\ idToIndex'[lastId + 1] = InsertIdx
         /\ \A id \in Live : idToIndex'[id] = idToIndex[id]
         /\ idToIndex' = [id \in Live' |-> idToIndex'[id]]
  BY MaxIdAssumption DEF TypeOK, Add, Live

LEMMA AddPreservesIInv ==
  ASSUME IInv, NEW c \in Comp, Add(c)
  PROVE  IInv'
<1> USE DEF IInv
<1>1. /\ lastId' \in 0 .. MaxId
      /\ Live' \subseteq 1 .. lastId'
  BY AddIds, MaxIdAssumption DEF TypeOK
<1>2. CASE ReuseSlot(c)
  <2>1. TypeOK'
    <3>1. \A id \in Live' : idToIndex'[id] \in Slots'
      <4>1. InsertIdx \in Slots /\ Slots' = Slots
        BY <1>2, ReuseSlotEffect
      <4>2. \A id \in Live : idToIndex[id] \in Slots
        BY DEF TypeOK
      <4> QED
        BY <4>1, <4>2, AddIds
    <3>2. idToIndex' \in [Live' -> Slots']
      BY <3>1, AddIds
    <3>3. vec' \in Seq(Comp) /\ inactiveCompIdx' \in Seq(Slots')
      BY <1>2, ReuseSlotEffect
    <3> QED
      BY <1>1, <3>2, <3>3 DEF TypeOK
  <2>2. NoAliasing'
    <3>1. InsertIdx \in Queued
      BY <1>2, ReuseSlotEffect
    <3>2. \A id \in Live : idToIndex[id] # InsertIdx
      BY <3>1 DEF SlotsPartitioned, QueueIsFree
    <3> QED
      BY <3>2, AddIds DEF SlotsPartitioned, NoAliasing
  <2>3. QueueIsFree'
    <3>1. \A k \in DOMAIN inactiveCompIdx' :
            /\ k + 1 \in DOMAIN inactiveCompIdx
            /\ k + 1 # 1
            /\ inactiveCompIdx'[k] = inactiveCompIdx[k + 1]
      BY <1>2, ReuseSlotEffect DEF TypeOK
    <3>2. InsertIdx = inactiveCompIdx[1] /\ 1 \in DOMAIN inactiveCompIdx
      BY <1>2 DEF ReuseSlot, InsertIdx, TypeOK
    <3>3. \A k, l \in DOMAIN inactiveCompIdx' :
            inactiveCompIdx'[k] = inactiveCompIdx'[l] => k = l
      <4> SUFFICES ASSUME NEW k \in DOMAIN inactiveCompIdx',
                          NEW l \in DOMAIN inactiveCompIdx',
                          inactiveCompIdx'[k] = inactiveCompIdx'[l]
                   PROVE  k = l
        OBVIOUS
      <4>1. k + 1 = l + 1
        BY <3>1 DEF SlotsPartitioned, QueueIsFree
      <4>2. k \in Nat /\ l \in Nat
        BY <1>2, ReuseSlotEffect
      <4> QED
        BY <4>1, <4>2
    <3>4. \A k \in DOMAIN inactiveCompIdx' : inactiveCompIdx'[k] # InsertIdx
      BY <3>1, <3>2 DEF SlotsPartitioned, QueueIsFree
    <3>5. Queued' \subseteq Queued
      BY <3>1 DEF Queued
    <3>6. \A id \in Live' : idToIndex'[id] \notin Queued'
      BY <3>4, <3>5, AddIds DEF SlotsPartitioned, QueueIsFree, Queued
    <3> QED
      BY <3>3, <3>6 DEF QueueIsFree
  <2>4. NoLeakedSlot'
    <3> SUFFICES ASSUME NEW s \in Slots', s # InsertIdx
                 PROVE  s \in Queued' \/ \E id \in Live' : idToIndex'[id] = s
      BY AddIds DEF NoLeakedSlot
    <3>1. CASE \E id \in Live : idToIndex[id] = s
      BY <3>1, AddIds
    <3>2. CASE s \in Queued
      <4>1. PICK k \in DOMAIN inactiveCompIdx : inactiveCompIdx[k] = s
        BY <3>2 DEF Queued
      <4>2. k # 1
        BY <1>2, <4>1 DEF ReuseSlot, InsertIdx, TypeOK
      <4>3. k - 1 \in DOMAIN inactiveCompIdx'
        BY <1>2, <4>2, ReuseSlotEffect DEF TypeOK
      <4>4. inactiveCompIdx'[k - 1] = s
        BY <1>2, <4>1, <4>3, ReuseSlotEffect DEF TypeOK
      <4> QED
        BY <4>3, <4>4 DEF Queued
    <3> QED
      BY <1>2, <3>1, <3>2, ReuseSlotEffect DEF SlotsPartitioned, NoLeakedSlot
  <2>5. FreedIsInactive'
    <3>1. \A s \in Queued' : s \in Queued /\ s # InsertIdx
      <4>1. \A k \in DOMAIN inactiveCompIdx' :
              /\ k + 1 \in DOMAIN inactiveCompIdx
              /\ inactiveCompIdx'[k] = inactiveCompIdx[k + 1]
        BY <1>2, ReuseSlotEffect
      <4>2. InsertIdx = idToIndex'[lastId + 1] /\ lastId + 1 \in Live'
        BY AddIds
      <4> QED
        BY <2>3, <4>1, <4>2 DEF Queued, QueueIsFree
    <3>2. Queued \subseteq Slots
      BY DEF TypeOK, Queued
    <3> QED
      BY <1>2, <3>1, <3>2, ReuseSlotEffect
      DEF SlotsPartitioned, FreedIsInactive
  <2> QED
    BY <2>1, <2>2, <2>3, <2>4, <2>5 DEF SlotsPartitioned
<1>3. CASE GrowVec(c)
  <2>1. Queued = {} /\ Queued' = {}
    BY <1>3, GrowVecEffect DEF Queued
  <2>2. TypeOK'
    <3>1. \A id \in Live' : idToIndex'[id] \in Slots'
      <4>1. Slots' = Slots \cup {InsertIdx}
        BY <1>3, GrowVecEffect
      <4>2. \A id \in Live : idToIndex[id] \in Slots
        BY DEF TypeOK
      <4> QED
        BY <4>1, <4>2, AddIds
    <3>2. idToIndex' \in [Live' -> Slots']
      BY <3>1, AddIds
    <3>3. inactiveCompIdx' \in Seq(Slots')
      BY <1>3, GrowVecEffect, EmptySeq
    <3> QED
      BY <1>1, <1>3, <3>2, <3>3, GrowVecEffect DEF TypeOK
  <2>3. NoAliasing'
    <3>1. \A id \in Live : idToIndex[id] # InsertIdx
      BY <1>3, GrowVecEffect DEF TypeOK
    <3> QED
      BY <3>1, AddIds DEF SlotsPartitioned, NoAliasing
  <2>4. QueueIsFree' /\ FreedIsInactive'
    BY <1>3, <2>1, GrowVecEffect DEF QueueIsFree, FreedIsInactive
  <2>5. NoLeakedSlot'
    BY <1>3, <2>1, AddIds, GrowVecEffect DEF SlotsPartitioned, NoLeakedSlot
  <2> QED
    BY <2>2, <2>3, <2>4, <2>5 DEF SlotsPartitioned
<1> QED
  BY <1>2, <1>3 DEF Add

LEMMA RemovePreservesIInv ==
  ASSUME IInv, NEW id \in Live, Remove(id)
  PROVE  IInv'
<1> USE RemoveEffect DEF IInv
<1>1. TypeOK'
  <2>1. /\ lastId' = lastId
        /\ idToIndex' = [i \in Live' |-> idToIndex'[i]]
    BY DEF Remove, Live
  <2>2. idToIndex' \in [Live' -> Slots']
    BY <2>1 DEF TypeOK
  <2> QED
    BY <2>1, <2>2 DEF TypeOK
<1>2. NoAliasing'
  BY DEF SlotsPartitioned, NoAliasing
<1>3. QueueIsFree'
  <2>1. \A k \in DOMAIN inactiveCompIdx : inactiveCompIdx[k] # idToIndex[id]
    BY DEF SlotsPartitioned, QueueIsFree, Queued
  <2>2. /\ DOMAIN inactiveCompIdx = 1 .. Len(inactiveCompIdx)
        /\ DOMAIN inactiveCompIdx' = 1 .. Len(inactiveCompIdx) + 1
        /\ Len(inactiveCompIdx) \in Nat
    BY DEF TypeOK
  <2>3. \A k, l \in DOMAIN inactiveCompIdx' :
          inactiveCompIdx'[k] = inactiveCompIdx'[l] => k = l
    <3>1. \A k \in DOMAIN inactiveCompIdx' :
            k \in DOMAIN inactiveCompIdx \/ k = Len(inactiveCompIdx) + 1
      BY <2>2
    <3> QED
      BY <2>1, <3>1 DEF SlotsPartitioned, QueueIsFree
  <2>4. \A i \in Live' : idToIndex'[i] \notin Queued'
    BY DEF SlotsPartitioned, QueueIsFree, NoAliasing
  <2> QED
    BY <2>3, <2>4 DEF QueueIsFree
<1>4. NoLeakedSlot'
  BY DEF SlotsPartitioned, NoLeakedSlot
<1>5. FreedIsInactive'
  <2>1. Queued \subseteq Slots
    BY DEF TypeOK, Queued
  <2> QED
    BY <2>1 DEF SlotsPartitioned, FreedIsInactive
<1> QED
  BY <1>1, <1>2, <1>3, <1>4, <1>5 DEF SlotsPartitioned

LEMMA WritePreservesIInv ==
  ASSUME IInv, NEW id \in Live, NEW v \in Vals, Write(id, v)
  PROVE  IInv'
<1> USE WriteEffect DEF IInv
<1>1. UNCHANGED <<lastId, idToIndex, inactiveCompIdx>> /\ Live' = Live
  BY DEF Write, Live
<1>2. Queued' = Queued
  BY <1>1 DEF Queued
<1>3. TypeOK'
  BY <1>1 DEF TypeOK
<1>4. NoAliasing' /\ QueueIsFree' /\ NoLeakedSlot'
  BY <1>1, <1>2 DEF SlotsPartitioned, NoAliasing, QueueIsFree, NoLeakedSlot
<1>5. FreedIsInactive'
  <2>1. Queued \subseteq Slots
    BY DEF TypeOK, Queued
  <2>2. idToIndex[id] \notin Queued
    BY DEF SlotsPartitioned, QueueIsFree
  <2> QED
    BY <1>2, <2>1, <2>2 DEF SlotsPartitioned, FreedIsInactive
<1> QED
  BY <1>3, <1>4, <1>5 DEF SlotsPartitioned

(***************************************************************************)
(* The state of a component vector has its declared shape, and its slots   *)
(* stay partitioned between the ids in use and the reuse queue, through    *)
(* every sequence of add, remove and writes (compVec.h:74-121).            *)
(***************************************************************************)
THEOREM IInvInvariant == Spec => []IInv
<1>1. Init => IInv
  BY MaxIdAssumption
  DEF Init, IInv, TypeOK, Live, Slots, Queued, SlotsPartitioned, NoAliasing,
      QueueIsFree, NoLeakedSlot, FreedIsInactive
<1>2. IInv /\ [Next]_vars => IInv'
  <2> SUFFICES ASSUME IInv, [Next]_vars PROVE IInv'
    OBVIOUS
  <2>1. CASE \E c \in Comp : Add(c)
    BY <2>1, AddPreservesIInv
  <2>2. CASE \E id \in Live, v \in Vals : Write(id, v)
    BY <2>2, WritePreservesIInv
  <2>3. CASE \E id \in Live : Remove(id)
    BY <2>3, RemovePreservesIInv
  <2>4. CASE UNCHANGED vars
    BY <2>4
    DEF vars, IInv, TypeOK, Live, Slots, Queued, SlotsPartitioned, NoAliasing,
        QueueIsFree, NoLeakedSlot, FreedIsInactive
  <2> QED
    BY <2>1, <2>2, <2>3, <2>4 DEF Next
<1> QED
  BY <1>1, <1>2, PTL DEF Spec

(* The state of a component vector has its declared shape.                 *)
THEOREM TypeCorrect == Spec => []TypeOK
<1>1. IInv => TypeOK
  BY DEF IInv
<1> QED
  BY <1>1, IInvInvariant, PTL

(***************************************************************************)
(* No add overwrites a component that is in use, no slot is lost, and the  *)
(* vector grows only when every slot is in use (compVec.h:74-108).         *)
(***************************************************************************)
THEOREM SlotsStayPartitioned == Spec => []SlotsPartitioned
<1>1. IInv => SlotsPartitioned
  BY DEF IInv
<1> QED
  BY <1>1, IInvInvariant, PTL

(***************************************************************************)
(* An id whose component was removed is never mapped again                 *)
(* (compVec.h:88-108): a stale handle is refused, it never reaches the     *)
(* component that took over the slot.                                      *)
(***************************************************************************)
THEOREM StaleIdsNeverRevived == Spec => StaleIdsStayDead
<1>1. IInv /\ [Next]_vars =>
        [\A id \in 1 .. lastId : id \notin Live => id \notin Live']_vars
  <2> SUFFICES ASSUME IInv, Next, NEW id \in 1 .. lastId, id \notin Live
               PROVE  id \notin Live'
    BY DEF vars
  <2> USE DEF IInv
  <2>1. CASE \E c \in Comp : Add(c)
    BY <2>1, AddIds
  <2>2. CASE \E i \in Live, v \in Vals : Write(i, v)
    BY <2>2 DEF Write, Live
  <2>3. CASE \E i \in Live : Remove(i)
    BY <2>3, RemoveEffect
  <2> QED
    BY <2>1, <2>2, <2>3 DEF Next
<1> QED
  BY <1>1, IInvInvariant, PTL DEF Spec, StaleIdsStayDead

-----------------------------------------------------------------------------
(***************************************************************************)
(* As long as nothing was removed, asCompSet (componentStore.cpp:4-16)     *)
(* lists exactly the ids in use: the ids are 1 .. lastId, and a subset of  *)
(* that interval with lastId elements is all of it.                        *)
(***************************************************************************)
THEOREM AsCompSetExact == Spec => []AsCompSetExactUntilRemove
<1>1. IInv => AsCompSetExactUntilRemove
  <2> SUFFICES ASSUME IInv, lastId = Size PROVE AsCompSet = Live
    BY DEF AsCompSetExactUntilRemove
  <2>1. lastId \in Nat /\ Live \subseteq 1 .. lastId
    BY MaxIdAssumption DEF IInv, TypeOK
  <2>2. IsFiniteSet(1 .. lastId) /\ Cardinality(1 .. lastId) = lastId
    BY <2>1, FS_Interval
  <2>3. Live = 1 .. lastId
    BY <2>1, <2>2, FS_Subset DEF Size
  <2> QED
    BY <2>3 DEF AsCompSet
<1> QED
  BY <1>1, IInvInvariant, PTL

(***************************************************************************)
(* The pooled vector implements the table of module CompTable: a step of   *)
(* the vector is the step of the same name of the table its ids see.       *)
(***************************************************************************)
THEOREM Refinement == Spec => ImplementsCompTable
<1> DEFINE seen == [id \in Live |-> vec[idToIndex[id]]]
<1>1. Init => Table!Init
  BY DEF Init, Table!Init, Live
<1>2. IInv /\ [Next]_vars => [Table!Next]_(Table!vars)
  <2> SUFFICES ASSUME IInv, [Next]_vars PROVE [Table!Next]_(Table!vars)
    OBVIOUS
  <2> USE DEF IInv
  <2>0. TypeOK /\ NoAliasing /\ QueueIsFree
    BY DEF SlotsPartitioned
  <2>1. ASSUME NEW c \in Comp, Add(c) PROVE Table!Add(c)
    <3>1. \A id \in Live : idToIndex[id] \in Slots
      BY <2>0 DEF TypeOK
    <3>2. \A id \in Live : vec'[idToIndex[id]] = vec[idToIndex[id]]
      <4>1. CASE ReuseSlot(c)
        BY <2>0, <3>1, <4>1, ReuseSlotEffect DEF QueueIsFree
      <4>2. CASE GrowVec(c)
        BY <2>0, <3>1, <4>2, GrowVecEffect
      <4> QED
        BY <2>1, <4>1, <4>2 DEF Add
    <3>3. vec'[InsertIdx] = c
      BY <2>0, <2>1, ReuseSlotEffect, GrowVecEffect DEF Add
    <3>4. seen' = [id \in Live \cup {lastId + 1} |->
                     IF id = lastId + 1 THEN c ELSE seen[id]]
      BY <2>0, <2>1, <3>2, <3>3, AddIds
    <3> QED
      BY <2>1, <3>4 DEF Add, Table!Add
  <2>2. ASSUME NEW id \in Live, NEW v \in Vals, Write(id, v)
        PROVE  Table!Write(id, v)
    <3>1. UNCHANGED <<lastId, idToIndex>> /\ Live' = Live
      BY <2>2 DEF Write, Live
    <3>2. \A i \in Live : i # id => vec'[idToIndex[i]] = vec[idToIndex[i]]
      <4>1. \A i \in Live : idToIndex[i] \in Slots
        BY <2>0 DEF TypeOK
      <4> QED
        BY <2>0, <2>2, <4>1, WriteEffect DEF NoAliasing
    <3>3. vec'[idToIndex[id]] = [seen[id] EXCEPT !.val = v]
      BY <2>0, <2>2, WrittenValue
    <3> DEFINE written == [seen[id] EXCEPT !.val = v]
    <3>4. seen' = [i \in Live |-> IF i = id THEN written ELSE seen[i]]
      <4> HIDE DEF written
      <4>1. vec'[idToIndex[id]] = written
        BY <3>3 DEF written
      <4> QED
        BY <3>1, <3>2, <4>1
    <3>5. seen' = [seen EXCEPT ![id].val = v]
      BY <3>4, Zenon
    <3>6. seen[id].isActive
      BY <2>0, <2>2, WriteEffect
    <3> QED
      BY <3>1, <3>5, <3>6 DEF Table!Write
  <2>3. ASSUME NEW id \in Live, Remove(id) PROVE Table!Remove(id)
    <3>1. \A i \in Live : i # id => vec'[idToIndex[i]] = vec[idToIndex[i]]
      BY <2>0, <2>3, RemoveEffect DEF NoAliasing, TypeOK
    <3>2. seen' = [i \in Live \ {id} |-> seen[i]]
      BY <2>0, <2>3, <3>1, RemoveEffect
    <3> QED
      BY <2>3, <3>2 DEF Remove, Table!Remove
  <2>4. CASE UNCHANGED vars
    BY <2>4 DEF vars, Table!vars, Live
  <2>5. DOMAIN seen = Live /\ Table!Comp = Comp
    BY DEF Table!Comp, Comp
  <2> QED
    BY <2>1, <2>2, <2>3, <2>4, <2>5 DEF Next, Table!Next
<1> QED
  BY <1>1, <1>2, IInvInvariant, PTL DEF Spec, ImplementsCompTable, Table!Spec
=============================================================================
