------------------------------- MODULE CompVec -------------------------------
(***************************************************************************)
(* The pooled component vector of sim/lib/core (compVec.h): components of  *)
(* one type in a std::vector whose slots are used again after a removal,   *)
(* with a map from the ids callers hold to the slots.  Slots are numbered  *)
(* from 1 here and from 0 in the code.                                     *)
(*                                                                         *)
(* A call that throws (at or remove with an id that is not mapped, at of   *)
(* an inactive component) changes nothing, so it is the absence of a step. *)
(***************************************************************************)
EXTENDS Naturals, Sequences, FiniteSets

CONSTANTS
  Vals,     \* the data a component can carry
  MaxId     \* bound: how many components are ever added (CompId is 64 bits)

ASSUME MaxIdAssumption == MaxId \in Nat

VARIABLES
  lastId,           \* the last id given out
  idToIndex,        \* the slot of each id in use
  inactiveCompIdx,  \* queue of slots free for reuse, oldest first
  vec               \* the slots

vars == <<lastId, idToIndex, inactiveCompIdx, vec>>

Comp == [isActive : BOOLEAN, val : Vals]

Live == DOMAIN idToIndex
Slots == DOMAIN vec
Queued == {inactiveCompIdx[k] : k \in DOMAIN inactiveCompIdx}

Init ==
  /\ lastId = 0
  /\ idToIndex = [id \in {} |-> 0]
  /\ inactiveCompIdx = <<>>
  /\ vec = <<>>

(***************************************************************************)
(* Definitions whose name starts with Bug are mutated forms of the one     *)
(* that follows them.  No specification uses them: the project swaps each  *)
(* in for its original and expects a property to fail.                     *)
(***************************************************************************)
BugReuseSlotNoPop(c) ==
  /\ inactiveCompIdx # <<>>
  /\ vec' = [vec EXCEPT ![Head(inactiveCompIdx)] = c]
  /\ UNCHANGED inactiveCompIdx

(* addToVec, its two cases: the slot at the front of the queue takes the   *)
(* component, or the vector grows by one.                                  *)
ReuseSlot(c) ==
  /\ inactiveCompIdx # <<>>
  /\ vec' = [vec EXCEPT ![Head(inactiveCompIdx)] = c]
  /\ inactiveCompIdx' = Tail(inactiveCompIdx)

GrowVec(c) ==
  /\ inactiveCompIdx = <<>>
  /\ vec' = Append(vec, c)
  /\ UNCHANGED inactiveCompIdx

BugInsertIdxNewest == Len(vec) + 1

InsertIdx ==
  IF inactiveCompIdx # <<>> THEN Head(inactiveCompIdx) ELSE Len(vec) + 1

BugAddIdFromSize(c) ==
  LET id == Cardinality(Live) + 1 IN
  /\ lastId < MaxId
  /\ ReuseSlot(c) \/ GrowVec(c)
  /\ idToIndex' = [i \in Live \cup {id} |->
                     IF i = id THEN InsertIdx ELSE idToIndex[i]]
  /\ lastId' = lastId + 1

(* The component is stored as the caller built it, its isActive flag       *)
(* included: one that is added inactive has an id, but at() refuses it.    *)
Add(c) ==
  /\ lastId < MaxId
  /\ ReuseSlot(c) \/ GrowVec(c)
  /\ idToIndex' = [id \in Live \cup {lastId + 1} |->
                     IF id = lastId + 1 THEN InsertIdx ELSE idToIndex[id]]
  /\ lastId' = lastId + 1

BugRemoveKeepsId(id) ==
  /\ vec' = [vec EXCEPT ![idToIndex[id]].isActive = FALSE]
  /\ inactiveCompIdx' = Append(inactiveCompIdx, idToIndex[id])
  /\ UNCHANGED <<lastId, idToIndex>>

Remove(id) ==
  /\ vec' = [vec EXCEPT ![idToIndex[id]].isActive = FALSE]
  /\ inactiveCompIdx' = Append(inactiveCompIdx, idToIndex[id])
  /\ idToIndex' = [i \in Live \ {id} |-> idToIndex[i]]
  /\ UNCHANGED lastId

(* isActiveCheck: at(id) returns a reference instead of throwing.          *)
IsActive(id) == id \in Live /\ vec[idToIndex[id]].isActive

(* at(id) and an assignment to the data of the component it refers to.     *)
Write(id, v) ==
  /\ IsActive(id)
  /\ vec' = [vec EXCEPT ![idToIndex[id]].val = v]
  /\ UNCHANGED <<lastId, idToIndex, inactiveCompIdx>>

Size == Cardinality(Live)

BugAsCompSetFromZero == 0 .. Size - 1

(* asCompSet, for the one group this vector stores: ids 1 .. size().       *)
AsCompSet == 1 .. Size

Next ==
  \/ \E c \in Comp : Add(c)
  \/ \E id \in Live, v \in Vals : Write(id, v)
  \/ \E id \in Live : Remove(id)

Spec == Init /\ [][Next]_vars

-----------------------------------------------------------------------------
(***************************************************************************)
(* The shape of the state of a CompVec<C> (the members declared at         *)
(* compVec.h:24-32).                                                       *)
(***************************************************************************)
TypeOK ==
  /\ lastId \in 0 .. MaxId
  /\ vec \in Seq(Comp)
  /\ Live \subseteq 1 .. lastId
  /\ idToIndex \in [Live -> Slots]
  /\ inactiveCompIdx \in Seq(Slots)

(* No two ids share a slot.                                                *)
NoAliasing == \A i, j \in Live : idToIndex[i] = idToIndex[j] => i = j

(* The queue never offers a slot twice, nor a slot an id still names.      *)
QueueIsFree ==
  /\ \A k, l \in DOMAIN inactiveCompIdx :
       inactiveCompIdx[k] = inactiveCompIdx[l] => k = l
  /\ \A id \in Live : idToIndex[id] \notin Queued

(* No slot is lost: each is named by an id or waits in the queue.          *)
NoLeakedSlot ==
  \A s \in Slots : s \in Queued \/ \E id \in Live : idToIndex[id] = s

(* A freed slot is marked inactive, which is how code that walks the       *)
(* vector itself would know (comment at component.h:8-10).                 *)
FreedIsInactive == \A s \in Queued : ~vec[s].isActive

(***************************************************************************)
(* The bookkeeping of add (compVec.h:74-95) and remove (97-108) keeps the  *)
(* slots partitioned between the ids in use and the reuse queue: a         *)
(* component added to a reused slot never overwrites one that is in use,   *)
(* and the vector grows only when every slot is in use.                    *)
(***************************************************************************)
SlotsPartitioned == NoAliasing /\ QueueIsFree /\ NoLeakedSlot /\ FreedIsInactive

(***************************************************************************)
(* An id whose component was removed never names a component again         *)
(* (compVec.h:91-92 always gives lastId + 1), so a handle kept across a    *)
(* removal is refused by at() and cannot reach the component that now      *)
(* occupies its slot.                                                      *)
(***************************************************************************)
StaleIdsStayDead ==
  [][\A id \in 1 .. lastId : id \notin Live => id \notin Live']_vars

(***************************************************************************)
(* asCompSet (componentStore.cpp:4-16) assumes that ids are consecutive.   *)
(* It lists exactly the ids in use as long as nothing was ever removed,    *)
(* which is how the engine uses the store.                                 *)
(***************************************************************************)
AsCompSetExactUntilRemove == lastId = Size => AsCompSet = Live

(***************************************************************************)
(* The vector implements CompTable: through every reuse of a slot, each id *)
(* in use keeps naming the component it was given for, and a write through *)
(* at() (compVec.h:116-121) reaches that component alone.                  *)
(***************************************************************************)
Table == INSTANCE CompTable WITH
  issued <- lastId,
  table  <- [id \in Live |-> vec[idToIndex[id]]]

ImplementsCompTable == Table!Spec
=============================================================================
