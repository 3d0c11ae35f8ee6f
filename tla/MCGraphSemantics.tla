--------------------------- MODULE MCGraphSemantics ---------------------------
(***************************************************************************)
(* Functions over attributes and locals, to model-check GraphSemantics.    *)
(***************************************************************************)
EXTENDS GraphSemantics

CONSTANTS x, y, v, car, track

(* Attributes of one variable, or of one each.                             *)
OneBase == [a \in Vars |-> IF a \in Locals THEN a ELSE car]
TwoBases == [OneBase EXCEPT ![y] = track]

(* A constant, copies and increments.                                      *)
Simple(copied, increased) ==
  [op : {"const"}, val : {1}] \cup
  [op : {"var"}, from : copied] \cup
  [op : {"add"}, from : increased, val : {1}]

(* A variable if it is 1, and another one otherwise.                       *)
Ternaries(used) ==
  {e \in [op : {"ternary"}, test : used, val : {1}, from : used, other : used] :
     e.test = e.from /\ e.from # e.other}

OneComponent == {[vars |-> Attrs, base |-> OneBase, exprs |-> Simple(Attrs, Attrs)]}

(* One component, two components, and an attribute with a local variable.  *)
AllVocabularies ==
  OneComponent \cup
  {[vars |-> Attrs, base |-> TwoBases, exprs |-> Simple(Attrs, Attrs)],
   [vars |-> {x, v}, base |-> OneBase,
    exprs |-> Simple({x, v}, {v}) \cup Ternaries({x, v})]}
=============================================================================
