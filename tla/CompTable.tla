------------------------------ MODULE CompTable ------------------------------
(***************************************************************************)
(* What a component vector promises to the code that holds component ids:  *)
(* a table from ids to components in which an id is given out once, names  *)
(* the component it was given for until that component is removed, and     *)
(* names nothing afterwards.  There are no slots here: how the memory of a *)
(* removed component is used again is the business of module CompVec,      *)
(* which implements this one.                                              *)
(***************************************************************************)
EXTENDS Naturals

CONSTANTS
  Vals,     \* the data a component can carry
  MaxId     \* bound: how many ids are ever given out

VARIABLES
  issued,   \* ids 1 .. issued have been given out
  table     \* the components, by id

vars == <<issued, table>>

Comp == [isActive : BOOLEAN, val : Vals]

Init ==
  /\ issued = 0
  /\ table = [id \in {} |-> 0]

Add(c) ==
  /\ issued < MaxId
  /\ issued' = issued + 1
  /\ table' = [id \in DOMAIN table \cup {issued + 1} |->
                 IF id = issued + 1 THEN c ELSE table[id]]

Write(id, v) ==
  /\ table[id].isActive
  /\ table' = [table EXCEPT ![id].val = v]
  /\ UNCHANGED issued

Remove(id) ==
  /\ table' = [i \in DOMAIN table \ {id} |-> table[i]]
  /\ UNCHANGED issued

Next ==
  \/ \E c \in Comp : Add(c)
  \/ \E id \in DOMAIN table, v \in Vals : Write(id, v)
  \/ \E id \in DOMAIN table : Remove(id)

Spec == Init /\ [][Next]_vars
=============================================================================
