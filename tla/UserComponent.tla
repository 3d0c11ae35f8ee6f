---------------------------- MODULE UserComponent ----------------------------
(***************************************************************************)
(* The values of a component (userComponent.cpp), how the operations of a  *)
(* graph dispatch on their types (operations.cpp, userValue.h), and how a  *)
(* value is converted to the type that the schema of the component gives   *)
(* to an attribute.                                                        *)
(*                                                                         *)
(* A Value message carries its type twice: the data type it declares and   *)
(* the field of its union that is set, its kind here.  They may differ in  *)
(* a message from a client.                                                *)
(*                                                                         *)
(* Integers of a width w have the lowest value -(2 ^ (w - 1)) and wrap.    *)
(* Floats are the whole numbers around zero that their type represents and *)
(* Other, which stands for all the rest: fractions, large numbers,         *)
(* infinities and NaN.  What an operation makes of Other is any value of   *)
(* its type, so operations have sets of outcomes.  Booleans are 0 and 1;   *)
(* strings and arrays have no contents.                                    *)
(*                                                                         *)
(* A definition Bug<Name> is a mutated form of <Name> that the             *)
(* specification does not use.                                             *)
(***************************************************************************)
EXTENDS Integers

CONSTANTS
  Attrs,     \* the attributes graphs refer to
  Schemas,   \* the schemas of components: the type of each of their attributes
  Nodes,     \* the nodes graphs mutate attributes with
  Lowest,    \* the lowest value of each integer type
  Exact,     \* each float type represents -Exact .. Exact
  Other      \* any other float

Ints == {"INT32", "INT64"}
Floats == {"FLOAT32", "FLOAT64"}
Numeric == Ints \cup Floats
Representable == Numeric \cup {"STRING", "BOOL"}   \* proto_ANY
Types == Representable \cup {"BYTE", "ARRAY"}

ValuesOf(t) ==
  CASE t \in Ints   -> Lowest[t] .. -Lowest[t] - 1
    [] t \in Floats -> (-Exact[t] .. Exact[t]) \cup {Other}
    [] t = "BOOL"   -> {0, 1}
    [] t \in {"STRING", "BYTE", "ARRAY", "NONE"} -> {0}

Value == UNION {[type : Types \cup {"NONE"}, kind : {k}, val : ValuesOf(k)] :
                  k \in Types \cup {"NONE"}}

Typed(t, n) == [type |-> t, kind |-> t, val |-> n]
Bool(cond) == Typed("BOOL", IF cond THEN 1 ELSE 0)

(* A node that depends on constants and attributes.  In the code these may *)
(* be nodes again; what evaluates to a value acts like a constant.         *)
Leaf == [const : Value] \cup [attr : Attrs]
Linear == {"add", "sub", "mul", "max", "min"}
Arithmetic == Linear \cup {"div"}
Comparisons == {"lt", "gt", "le", "ge", "eq"}
Arcs == {"arcsin", "arccos"}
Trigonometry == Arcs \cup {"sin", "cos", "tan", "arctan"}
Unary == Trigonometry \cup {"abs", "floor", "ceil"}
Logic == {"not", "and", "or"}
Dyadic == Arithmetic \cup Comparisons \cup {"mod"}
Ops == {"value", "switch", "pow", "random"} \cup Dyadic \cup Unary \cup Logic
Arity(op) ==
  CASE op \in {"value", "not"} \cup Unary                   -> 1
    [] op \in {"and", "or", "pow", "random"} \cup Dyadic    -> 2
    [] op = "switch"                                        -> 3
IsNode(node) == \E op \in Ops : node \in [op : {op}, args : [1..Arity(op) -> Leaf]]

ASSUME LowestAssumption == \A t \in Ints : Lowest[t] \in Int /\ Lowest[t] < 0
ASSUME ExactAssumption == \A t \in Floats : Exact[t] \in Nat
ASSUME OtherAssumption == Other \notin Int
ASSUME SchemasAssumption == \A s \in Schemas : s \in [DOMAIN s -> Types] /\ DOMAIN s \subseteq Attrs
ASSUME NodesAssumption == \A node \in Nodes : IsNode(node)

VARIABLES
  schema,    \* compDef.schema()
  values,    \* the value of each attribute
  result     \* how the last mutation ended: "ok", "threw" or "trapped"

vars == <<schema, values, result>>

(* No entry in the map of values, or an entry that was never assigned: the *)
(* code leaves one behind when it throws, and treats both alike.           *)
Empty == [type |-> "NONE", kind |-> "NONE", val |-> 0]

(* The evaluation threw; or it trapped, which ends the engine.             *)
Thrown == [type |-> "THROWN", kind |-> "THROWN", val |-> 0]
Trapped == [type |-> "TRAPPED", kind |-> "TRAPPED", val |-> 0]

Init ==
  /\ schema \in Schemas
  /\ values = [a \in Attrs |-> Empty]
  /\ result = "ok"

-----------------------------------------------------------------------------
(***************************************************************************)
(* The conversions and operators of C++.                                   *)
(***************************************************************************)
BugWrap(t, n) == n

Wrap(t, n) == ((n - Lowest[t]) % (-2 * Lowest[t])) + Lowest[t]

Round(t, n) == IF n \in ValuesOf(t) THEN n ELSE Other

(* (Y)x.  Out of range from float to integer the code has no defined       *)
(* result.                                                                 *)
Convert(from, to, n) ==
  IF n = Other THEN ValuesOf(to)
  ELSE IF to \in Floats THEN {Round(to, n)}
  ELSE IF from \in Floats /\ n \notin ValuesOf(to) THEN ValuesOf(to)
  ELSE {Wrap(to, n)}

(* The type of x + y: the later of the two in this order.                  *)
Rank == [INT32 |-> 1, INT64 |-> 2, FLOAT32 |-> 3, FLOAT64 |-> 4]
Promoted(s, t) == IF Rank[s] >= Rank[t] THEN s ELSE t

(* Division of integers drops the fraction, whatever the signs.            *)
Abs(n) == IF n < 0 THEN -n ELSE n
Quotient(n, m) == LET q == Abs(n) \div Abs(m) IN IF (n < 0) = (m < 0) THEN q ELSE -q
Remainder(n, m) == n - m * Quotient(n, m)

(* The instruction has no result.                                          *)
Traps(t, n, m) == m = 0 \/ (n = Lowest[t] /\ m = -1)

Compare(op, n, m) ==
  CASE op = "lt" -> n < m
    [] op = "gt" -> n > m
    [] op = "le" -> n <= m
    [] op = "ge" -> n >= m
    [] op = "eq" -> n = m

Exactly(op, n, m) ==
  CASE op = "add" -> n + m
    [] op = "sub" -> n - m
    [] op = "mul" -> n * m
    [] op = "max" -> IF n > m THEN n ELSE m
    [] op = "min" -> IF n < m THEN n ELSE m

IntResult(op, t, n, m) ==
  CASE op \in Linear      -> Typed(t, Wrap(t, Exactly(op, n, m)))
    [] op = "div" -> IF Traps(t, n, m) THEN Trapped ELSE Typed(t, Quotient(n, m))
    [] op = "mod" -> IF Traps(t, n, m) THEN Trapped ELSE Typed(t, Remainder(n, m))
    [] op \in Comparisons -> Bool(Compare(op, n, m))

AnyOf(t) == {Typed(t, n) : n \in ValuesOf(t)}

FloatResults(op, t, n, m) ==
  IF Other \in {n, m} THEN IF op \in Comparisons THEN AnyOf("BOOL") ELSE AnyOf(t)
  ELSE IF op \in Comparisons THEN {Bool(Compare(op, n, m))}
  ELSE IF op \in Linear THEN {Typed(t, Round(t, Exactly(op, n, m)))}
  ELSE {Typed(t, IF m # 0 /\ Remainder(n, m) = 0 THEN Quotient(n, m) ELSE Other)}

Results(op, t, n, m) ==
  IF t \in Floats THEN FloatResults(op, t, n, m) ELSE {IntResult(op, t, n, m)}

-----------------------------------------------------------------------------
(***************************************************************************)
(* Evaluating a node.                                                      *)
(***************************************************************************)
Evaluated(leaf) ==
  IF "const" \in DOMAIN leaf THEN leaf.const
  ELSE IF values[leaf.attr] = Empty THEN Thrown
  ELSE values[leaf.attr]

BugAllowed(op, x) ==
  CASE op \in Arithmetic \cup Comparisons \cup Unary \cup {"pow"} -> Numeric
    [] op = "mod"       -> Ints
    [] op = "random"    -> Floats
    [] op \in Logic     -> {"BOOL"}

(* The kinds of values an operation runs on.  eqOp decides by the first.   *)
Allowed(op, x) ==
  CASE op \in Arithmetic \cup (Comparisons \ {"eq"}) \cup Unary \cup {"pow"} -> Numeric
    [] op = "mod"       -> Ints
    [] op = "random"    -> Floats
    [] op \in Logic     -> {"BOOL"}
    [] op = "eq" -> IF x.kind \in Numeric THEN Numeric
                                          ELSE {x.kind} \cap {"STRING", "BOOL"}

(* The functions of the C library have a float even for an integer, abs an *)
(* integer even for a float; whether their overloads for other types are   *)
(* visible depends on the headers of the build.                            *)
UnaryTypes(op, t) == IF op = "abs" THEN {"INT32", t} ELSE {"FLOAT64", t} \cap Floats
PowTypes(s, t) == IF s = t THEN {"FLOAT64", t} \cap Floats ELSE {"FLOAT64"}

AbsOf(t, n) ==
  IF n = Other THEN AnyOf(t)
  ELSE {Typed(t, IF t \in Ints THEN Wrap(t, Abs(n)) ELSE Abs(n))}

(* What the value of an arc function is not defined for is thrown at.      *)
OutOfDomain(n) == n \notin -1 .. 1

UnaryResults(op, from, t, n) ==
  CASE op \in {"floor", "ceil"}       -> {Typed(t, k) : k \in Convert(from, t, n)}
    [] op = "abs"                     -> UNION {AbsOf(t, k) : k \in Convert(from, t, n)}
    [] op \in Trigonometry \ Arcs     -> AnyOf(t)
    [] op \in Arcs -> (IF OutOfDomain(n) THEN {Thrown} ELSE {}) \cup
                      (IF n = Other \/ ~OutOfDomain(n) THEN AnyOf(t) ELSE {})

LogicResult(op, n, m) ==
  CASE op = "not" -> Bool(n = 0)
    [] op = "and" -> Bool(n = 1 /\ m = 1)
    [] op = "or"  -> Bool(n = 1 \/ m = 1)

Apply(op, x, y) ==
  CASE op \in Logic   -> {LogicResult(op, x.val, y.val)}
    [] op \in Unary   -> UNION {UnaryResults(op, x.kind, t, x.val) :
                                t \in UnaryTypes(op, x.kind)}
    [] op = "pow"     -> UNION {AnyOf(t) : t \in PowTypes(x.kind, y.kind)}
    [] op = "random"  -> AnyOf(Promoted(x.kind, y.kind))
    [] op \in Dyadic /\ x.kind \notin Numeric ->
         IF x.kind = "STRING" THEN AnyOf("BOOL") ELSE {Bool(x.val = y.val)}
    [] op \in Dyadic /\ x.kind \in Numeric ->
         LET t == Promoted(x.kind, y.kind) IN
         UNION {Results(op, t, n, m) :
                  n \in Convert(x.kind, t, x.val), m \in Convert(y.kind, t, y.val)}

(* Both operands are evaluated before the operation, but only the branch   *)
(* of a switch that is taken.                                              *)
Evaluate(node) ==
  LET arg(i) == Evaluated(node.args[i])
      x      == arg(1)
      y      == arg(Arity(node.op))
  IN
  CASE node.op = "value"  -> {x}
    [] node.op = "switch" -> IF x.kind # "BOOL" THEN {Thrown}
                             ELSE {IF x.val = 1 THEN arg(2) ELSE arg(3)}
    [] node.op \notin {"value", "switch"} ->
         IF {x.kind, y.kind} \subseteq Allowed(node.op, x) THEN Apply(node.op, x, y)
                                                          ELSE {Thrown}

-----------------------------------------------------------------------------
(***************************************************************************)
(* setValue.                                                               *)
(***************************************************************************)
(* valHasCorrectDataType; on a type without a C++ one it throws.           *)
HasCorrectDataType(v) == v.type \in Representable /\ v.kind = v.type

BugStored(a, v) ==
  IF a \notin DOMAIN schema \/ ~HasCorrectDataType(v) THEN {}
  ELSE IF {schema[a], v.kind} \subseteq Numeric THEN {v}
  ELSE IF schema[a] \in {"ARRAY", v.type} THEN {v}
  ELSE {}

(* What the attribute may hold afterwards; nothing if setValue throws.     *)
Stored(a, v) ==
  IF a \notin DOMAIN schema \/ ~HasCorrectDataType(v) THEN {}
  ELSE IF {schema[a], v.kind} \subseteq Numeric
    THEN {Typed(schema[a], n) : n \in Convert(v.kind, schema[a], v.val)}
  ELSE IF schema[a] \in {"ARRAY", v.type} THEN {v}
  ELSE {}

(* mutateOp.  SetAttribute is a mutation with a constant.                  *)
Mutate(a, node) ==
  /\ result # "trapped"
  /\ \E v \in Evaluate(node) :
       \/ /\ \E stored \in Stored(a, v) : values' = [values EXCEPT ![a] = stored]
          /\ result' = "ok"
       \/ /\ Stored(a, v) = {}
          /\ result' = (IF v = Trapped THEN "trapped" ELSE "threw")
          /\ UNCHANGED values
  /\ UNCHANGED schema

Next == \E a \in Attrs, node \in Nodes : Mutate(a, node)

Spec == Init /\ [][Next]_vars

-----------------------------------------------------------------------------
(***************************************************************************)
(* The shape of the state.                                                 *)
(***************************************************************************)
TypeOK ==
  /\ schema \in Schemas
  /\ values \in [Attrs -> Value]
  /\ result \in {"ok", "threw", "trapped"}

(* What an attribute holds is of the type its schema says.                 *)
HoldsType(a) == values[a].type = schema[a] /\ values[a].kind = schema[a]

(***************************************************************************)
(* Static types: of a leaf, and what a node can evaluate to if its leaves  *)
(* have theirs.  A node that is not well typed has none.                   *)
(***************************************************************************)
TypeOfLeaf(leaf) ==
  IF "attr" \in DOMAIN leaf
    THEN IF leaf.attr \in DOMAIN schema THEN schema[leaf.attr] ELSE "NONE"
    ELSE IF HasCorrectDataType(leaf.const) THEN leaf.const.type ELSE "NONE"

Fits(op, s, t) ==
  CASE op \in Arithmetic \cup (Comparisons \ {"eq"}) \cup Unary \cup {"pow"} ->
         {s, t} \subseteq Numeric
    [] op = "mod"    -> {s, t} \subseteq Ints
    [] op = "random" -> {s, t} \subseteq Floats
    [] op \in Logic  -> {s, t} = {"BOOL"}
    [] op = "eq" -> {s, t} \subseteq Numeric \/ (s = t /\ s \in {"STRING", "BOOL"})

ResultTypes(op, s, t) ==
  CASE op \in Arithmetic \cup {"mod", "random"} -> {Promoted(s, t)}
    [] op \in Unary                             -> UnaryTypes(op, s)
    [] op = "pow"                               -> PowTypes(s, t)
    [] op \in Comparisons \cup Logic            -> {"BOOL"}

TypesOf(node) ==
  LET type(i) == TypeOfLeaf(node.args[i])
      s       == type(1)
      t       == type(Arity(node.op))
  IN
  CASE node.op = "value"  -> {s}
    [] node.op = "switch" -> IF s = "BOOL" THEN {type(2), t} ELSE {}
    [] node.op \notin {"value", "switch"} ->
         IF Fits(node.op, s, t) THEN ResultTypes(node.op, s, t) ELSE {}

(* A value of type t may be assigned to the attribute.                     *)
Assignable(t, a) == {t, schema[a]} \subseteq Numeric \/ (t = schema[a] /\ t \in Representable)

AllSet(node) ==
  \A i \in DOMAIN node.args :
    "attr" \in DOMAIN node.args[i] => values[node.args[i].attr] # Empty

(***************************************************************************)
(* Types are sound: a graph whose types fit the schema never throws, once  *)
(* the attributes it reads are set, whatever values they hold and however  *)
(* they were converted on the way.  Only an integer division can fail, by  *)
(* trapping (operations.cpp:88-95, 162-170), and arcSin and arcCos, on     *)
(* values outside of their domain (operations.cpp:181-192, 203-214).       *)
(***************************************************************************)
WellTypedNeverThrows ==
  \A node \in Nodes, a \in DOMAIN schema :
    /\ TypesOf(node) # {}
    /\ \A t \in TypesOf(node) : Assignable(t, a)
    /\ AllSet(node)
    => \A v \in Evaluate(node) :
         \/ Stored(a, v) # {}
         \/ v = Trapped /\ node.op \in {"div", "mod"}
         \/ v = Thrown /\ node.op \in Arcs /\ OutOfDomain(Evaluated(node.args[1]).val)

(***************************************************************************)
(* setValue converts or refuses (userComponent.cpp:52-82): no sequence of  *)
(* assignments leaves a value of another type than its schema's in an      *)
(* attribute of a primitive type.                                          *)
(***************************************************************************)
StoredAsDeclared ==
  \A a \in Attrs :
    values[a] # Empty => a \in DOMAIN schema /\ (schema[a] # "ARRAY" => HoldsType(a))
=============================================================================
