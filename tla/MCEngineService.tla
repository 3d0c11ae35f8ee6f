--------------------------- MODULE MCEngineService ---------------------------
(***************************************************************************)
(* Model checking of EngineService on two attributes and two values.       *)
(***************************************************************************)
EXTENDS EngineService

CONSTANTS x, y, none

Copy(a, b) == [target |-> a, from |-> b, add |-> 0]
Increment(a) == [target |-> a, from |-> a, add |-> 1]
Constant(a, v) == [target |-> a, from |-> none, add |-> v]

(* Starts and steps.                                                       *)
Counter ==
  [attrs |-> {x}, init |-> <<Constant(x, 0)>>, systems |-> <<<<Increment(x)>>>>]

(* Starts; its second system fails as long as y was never set, after the   *)
(* first one changed x.                                                    *)
Follower ==
  [attrs |-> {x, y}, init |-> <<Constant(x, 1)>>,
   systems |-> <<<<Increment(x)>>, <<Increment(y), Copy(x, y)>>>>]

(* Its init graph sets x and then fails on an attribute it does not have.  *)
Broken ==
  [attrs |-> {x}, init |-> <<Constant(x, 1), Constant(y, 1)>>, systems |-> <<>>]

Defs == {Counter, Follower, Broken}

CONSTANTS c1, c2, s1, s2

Drive(name, defs) ==
  [op : {"Apply"}, name : {name}, def : defs] \cup
  [op : {"Step", "Drop"}, name : {name}]

(* One client making every call on one simulation, another one driving a   *)
(* simulation of its own.                                                  *)
OwnSims ==
  c1 :> {request \in Requests({s1}) : request.op = "Apply" => request.def # Counter} @@
  c2 :> Drive(s2, {Counter})

(* Two clients that drive and read the same simulation.                    *)
Read1 == [op : {"GetSim"}, name : {s1}] \cup [op : {"Get"}, name : {s1}, attr : {x}]

SharedSim == c1 :> Drive(s1, {Counter}) @@ c2 :> Drive(s1, {Follower}) \cup Read1
=============================================================================
