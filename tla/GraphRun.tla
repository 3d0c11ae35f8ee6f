------------------------------ MODULE GraphRun -------------------------------
(***************************************************************************)
(* Running a computation graph against the attributes of a simulation, as  *)
(* far as the engine service can tell graphs apart (graphInterpreter.cpp,  *)
(* operations.cpp): a graph is the sequence of its outputs, each of which  *)
(* computes a value from at most one attribute and stores it in another.   *)
(* Either half can throw, and then the outputs that follow do not run.     *)
(***************************************************************************)
EXTENDS Naturals, Sequences, SequencesExt

CONSTANTS
  Attrs,    \* attributes: an entity, a component of it and a name in its schema
  NoAttr,   \* the source of an output that reads nothing
  Unset,    \* an attribute that was never set
  ValMod    \* values are 0 .. ValMod - 1, and the arithmetic wraps

ASSUME NoAttrAssumption == NoAttr \notin Attrs
ASSUME ValModAssumption == ValMod \in Nat \ {0} /\ Unset \notin 0 .. ValMod - 1

Vals == 0 .. ValMod - 1

(* The attributes a simulation has, with their values.                     *)
AttrValues == UNION {[A -> Vals \cup {Unset}] : A \in SUBSET Attrs}

(* A Mutate node: target := from + add, or the constant add.               *)
Output == [target : Attrs, from : Attrs \cup {NoAttr}, add : Vals]

(* retrieveOp finds a value: the attribute exists and was set.             *)
Readable(attrs, a) == a \in DOMAIN attrs /\ attrs[a] # Unset

(* evaluateNode on the value of a Mutate node.                             *)
Evaluates(attrs, out) == out.from = NoAttr \/ Readable(attrs, out.from)

ValueOf(attrs, out) ==
  ((IF out.from = NoAttr THEN 0 ELSE attrs[out.from]) + out.add) % ValMod

(* getComponent and setValue in mutateOp find the attribute to store to.   *)
Writable(attrs, a) == a \in DOMAIN attrs

RunOutput(run, out) ==
  IF run.ok /\ Evaluates(run.attrs, out) /\ Writable(run.attrs, out.target)
    THEN [ok |-> TRUE,
          attrs |-> [run.attrs EXCEPT ![out.target] = ValueOf(run.attrs, out)]]
    ELSE [ok |-> FALSE, attrs |-> run.attrs]

(* The outputs in order, each seeing what those before it stored.          *)
RunFrom(run, outputs) ==
  LET after[k \in 0 .. Len(outputs)] ==
        IF k = 0 THEN run ELSE RunOutput(after[k - 1], outputs[k])
  IN  after[Len(outputs)]

(* runGraph.                                                               *)
RunGraph(attrs, outputs) == RunFrom([ok |-> TRUE, attrs |-> attrs], outputs)
=============================================================================
