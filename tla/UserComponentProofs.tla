------------------------- MODULE UserComponentProofs -------------------------
(***************************************************************************)
(* Theorems about UserComponent, for integers of any width, floats of any  *)
(* precision, and all schemas and graphs.                                  *)
(***************************************************************************)
EXTENDS UserComponent, TLAPS

(***************************************************************************)
(* Arithmetic.                                                             *)
(***************************************************************************)
(* An integer that wraps is in the range of its type.                      *)
LEMMA WrapInRange ==
  ASSUME NEW t \in Ints, NEW n \in Int
  PROVE  Wrap(t, n) \in ValuesOf(t)
<1> DEFINE L == Lowest[t]
<1>1. L \in Int /\ L < 0
  BY LowestAssumption
<1> HIDE DEF L
<1>2. -2 * L \in Nat \ {0} /\ n - L \in Int
  BY <1>1
<1>3. (n - L) % (-2 * L) \in 0 .. (-2 * L) - 1
  BY <1>2
<1>4. ((n - L) % (-2 * L)) + L \in L .. -L - 1
  BY <1>1, <1>3
<1> QED
  BY <1>4 DEF Wrap, ValuesOf, L, Ints, Floats

(* Division of natural numbers stays below its dividend.                   *)
LEMMA DivisionBounds ==
  ASSUME NEW p \in Nat, NEW d \in Nat \ {0}
  PROVE  /\ p \div d \in 0 .. p
         /\ d >= 2 /\ p >= 1 => p \div d < p
         /\ d * (p \div d) \in p - d + 1 .. p
<1> DEFINE q == p \div d
<1>1. q \in Int /\ d * q <= p /\ p < d * (q + 1)
  OBVIOUS
<1> HIDE DEF q
<1>2. q >= 0
  BY <1>1
<1>3. d * q >= q
  <2>1. (d - 1) * q >= 0
    BY <1>1, <1>2
  <2> QED
    BY <1>1, <2>1
<1>4. d >= 2 => d * q >= 2 * q
  <2>1. d >= 2 => (d - 2) * q >= 0
    BY <1>1, <1>2
  <2> QED
    BY <1>1, <2>1
<1>5. d * (q + 1) = d * q + d
  BY <1>1
<1> QED
  BY <1>1, <1>2, <1>3, <1>4, <1>5 DEF q

(* The quotient of C++ is no farther from zero than its dividend, nearer   *)
(* unless it is divided by one or minus one, and the dividend itself if it *)
(* is divided by one.  The remainder is nearer to zero than the divisor.   *)
LEMMA QuotientBounds ==
  ASSUME NEW n \in Int, NEW m \in Int \ {0}
  PROVE  /\ Quotient(n, m) \in -Abs(n) .. Abs(n)
         /\ m \notin {1, -1} /\ n # 0 => Quotient(n, m) \in 1 - Abs(n) .. Abs(n) - 1
         /\ m = 1 => Quotient(n, m) = n
         /\ Remainder(n, m) \in 1 - Abs(m) .. Abs(m) - 1
<1> DEFINE q == Abs(n) \div Abs(m)
<1>1. Abs(n) \in Nat /\ Abs(m) \in Nat \ {0}
  BY DEF Abs
<1>2. /\ q \in 0 .. Abs(n)
      /\ Abs(m) >= 2 /\ Abs(n) >= 1 => q < Abs(n)
      /\ Abs(m) * q \in Abs(n) - Abs(m) + 1 .. Abs(n)
  BY <1>1, DivisionBounds
<1>3. Quotient(n, m) = IF (n < 0) = (m < 0) THEN q ELSE -q
  BY DEF Quotient
<1> HIDE DEF q
<1>4. Remainder(n, m) = IF n < 0 THEN Abs(m) * q - Abs(n) ELSE Abs(n) - Abs(m) * q
  <2>1. m * Quotient(n, m) = IF n < 0 THEN -(Abs(m) * q) ELSE Abs(m) * q
    <3>1. CASE m < 0 /\ n < 0
      BY <1>2, <1>3, <3>1 DEF Abs
    <3>2. CASE m < 0 /\ n >= 0
      BY <1>2, <1>3, <3>2 DEF Abs
    <3>3. CASE m > 0 /\ n < 0
      BY <1>2, <1>3, <3>3 DEF Abs
    <3>4. CASE m > 0 /\ n >= 0
      BY <1>2, <1>3, <3>4 DEF Abs
    <3> QED
      BY <3>1, <3>2, <3>3, <3>4
  <2>2. Abs(m) * q \in Int
    BY <1>2
  <2> QED
    BY <2>1, <2>2 DEF Remainder, Abs
<1>5. m = 1 => q = Abs(n)
  <2>1. m = 1 => Abs(m) = 1
    BY DEF Abs
  <2> QED
    BY <1>1, <1>2, <2>1
<1> QED
  BY <1>1, <1>2, <1>3, <1>4, <1>5 DEF Abs

-----------------------------------------------------------------------------
(***************************************************************************)
(* The results of operations are values of the type that their operands    *)
(* promise.                                                                *)
(***************************************************************************)
IsOf(v, types) == \E t \in types : \E n \in ValuesOf(t) : v = Typed(t, n)

LEMMA NumericValues ==
  /\ \A t \in Ints : ValuesOf(t) = Lowest[t] .. -Lowest[t] - 1 /\ Lowest[t] \in Int /\ Lowest[t] < 0
  /\ \A t \in Floats : /\ ValuesOf(t) = (-Exact[t] .. Exact[t]) \cup {Other}
                       /\ Exact[t] \in Nat
  /\ ValuesOf("BOOL") = {0, 1}
  /\ Numeric = Ints \cup Floats
  /\ Ints \cap Floats = {}
BY LowestAssumption, ExactAssumption DEF ValuesOf, Numeric, Ints, Floats

(* A conversion has a result, of the type it converts to.                  *)
LEMMA ConvertTyped ==
  ASSUME NEW from \in Numeric, NEW to \in Numeric, NEW n \in ValuesOf(from)
  PROVE  Convert(from, to, n) # {} /\ Convert(from, to, n) \subseteq ValuesOf(to)
<1>1. ValuesOf(to) # {}
  <2>1. to \in Floats => Other \in ValuesOf(to)
    BY NumericValues
  <2>2. to \in Ints => Lowest[to] \in ValuesOf(to)
    BY NumericValues
  <2> QED
    BY <2>1, <2>2, NumericValues
<1>2. CASE n = Other
  BY <1>1, <1>2 DEF Convert
<1>3. CASE n # Other /\ to \in Floats
  BY <1>3, NumericValues DEF Convert, Round
<1>4. CASE n # Other /\ to \notin Floats
  <2>1. n \in Int
    BY <1>4, NumericValues
  <2>2. Wrap(to, n) \in ValuesOf(to)
    BY <1>4, <2>1, WrapInRange, NumericValues
  <2> QED
    BY <1>1, <1>4, <2>2 DEF Convert
<1> QED
  BY <1>2, <1>3, <1>4

LEMMA PromotedNumeric ==
  ASSUME NEW s \in Numeric, NEW t \in Numeric
  PROVE  Promoted(s, t) \in Numeric /\ ({s, t} \subseteq Ints => Promoted(s, t) \in Ints)
BY DEF Promoted

LEMMA MathTypesNumeric ==
  ASSUME NEW op \in Unary, NEW s \in Numeric, NEW t \in Numeric
  PROVE  UnaryTypes(op, s) \subseteq Numeric /\ PowTypes(s, t) \subseteq Numeric
BY NumericValues DEF UnaryTypes, PowTypes, Ints, Floats

LEMMA AnyTyped ==
  ASSUME NEW types, NEW t \in types, NEW r \in AnyOf(t)
  PROVE  IsOf(r, types)
BY DEF AnyOf, IsOf

LEMMA BoolTyped ==
  ASSUME NEW r \in {Typed("BOOL", 0), Typed("BOOL", 1)}
  PROVE  IsOf(r, {"BOOL"})
BY NumericValues DEF IsOf

LEMMA ExactlyInt ==
  ASSUME NEW op \in Linear, NEW n \in Int, NEW m \in Int
  PROVE  Exactly(op, n, m) \in Int
BY DEF Exactly, Linear

(* What an arithmetic operation or a comparison makes of two numbers of    *)
(* one type.                                                               *)
LEMMA ResultsTyped ==
  ASSUME NEW op \in Dyadic, NEW t \in Numeric,
         NEW n \in ValuesOf(t), NEW m \in ValuesOf(t),
         NEW r \in Results(op, t, n, m)
  PROVE  \/ r = Trapped /\ op \in {"div", "mod"}
         \/ IsOf(r, IF op \in Comparisons THEN {"BOOL"} ELSE {t})
<1>1. CASE t \in Ints
  <2>1. r = IntResult(op, t, n, m) /\ n \in Int /\ m \in Int
    BY <1>1, NumericValues DEF Results
  <2>2. CASE op \in Linear
    <3>1. Wrap(t, Exactly(op, n, m)) \in ValuesOf(t)
      BY <1>1, <2>1, <2>2, ExactlyInt, WrapInRange
    <3>2. r = Typed(t, Wrap(t, Exactly(op, n, m))) /\ op \notin Comparisons
      BY <2>1, <2>2 DEF IntResult, Linear, Comparisons
    <3> QED
      BY <3>1, <3>2 DEF IsOf
  <2>3. CASE op \in {"div", "mod"} /\ Traps(t, n, m)
    BY <2>1, <2>3 DEF IntResult, Linear, Comparisons
  <2>4. CASE op = "div" /\ ~Traps(t, n, m)
    <3>1. Quotient(n, m) \in ValuesOf(t)
      <4> DEFINE L == Lowest[t]
      <4>1. L \in Int /\ L < 0 /\ n \in L .. -L - 1 /\ ValuesOf(t) = L .. -L - 1
        BY <1>1, NumericValues
      <4>2. m # 0 /\ (n # L \/ m # -1)
        BY <2>4 DEF Traps
      <4> HIDE DEF L
      <4>3. /\ Quotient(n, m) \in -Abs(n) .. Abs(n)
            /\ m \notin {1, -1} /\ n # 0 => Quotient(n, m) \in 1 - Abs(n) .. Abs(n) - 1
            /\ m = 1 => Quotient(n, m) = n
        BY <2>1, <4>2, QuotientBounds
      <4>4. n = 0 => Abs(n) = 0
        BY DEF Abs
      <4> QED
        BY <2>1, <4>1, <4>2, <4>3, <4>4 DEF Abs
    <3> QED
      BY <2>1, <2>4, <3>1 DEF IntResult, IsOf, Linear, Comparisons
  <2>5. CASE op = "mod" /\ ~Traps(t, n, m)
    <3>1. Remainder(n, m) \in ValuesOf(t)
      <4> DEFINE L == Lowest[t]
      <4>1. L \in Int /\ m \in L .. -L - 1 /\ ValuesOf(t) = L .. -L - 1
        BY <1>1, NumericValues
      <4> HIDE DEF L
      <4>2. Remainder(n, m) \in 1 - Abs(m) .. Abs(m) - 1
        BY <2>1, <2>5, QuotientBounds DEF Traps
      <4> QED
        BY <2>1, <4>1, <4>2 DEF Abs
    <3> QED
      BY <2>1, <2>5, <3>1 DEF IntResult, IsOf, Linear, Comparisons
  <2>6. CASE op \in Comparisons
    <3>1. r = Bool(Compare(op, n, m))
      BY <2>1, <2>6 DEF IntResult, Linear, Comparisons
    <3>2. r \in {Typed("BOOL", 0), Typed("BOOL", 1)}
      BY <3>1 DEF Bool
    <3> QED
      BY <2>6, <3>2, BoolTyped
  <2> QED
    BY <2>2, <2>3, <2>4, <2>5, <2>6 DEF Dyadic, Arithmetic
<1>2. CASE t \in Floats
  <2>1. r \in FloatResults(op, t, n, m)
    BY <1>2 DEF Results
  <2>2. CASE Other \in {n, m}
    <3>1. r \in AnyOf(IF op \in Comparisons THEN "BOOL" ELSE t)
      BY <2>1, <2>2 DEF FloatResults
    <3> QED
      BY <3>1, AnyTyped
  <2>3. CASE op \in Comparisons /\ Other \notin {n, m}
    <3>1. r = Bool(Compare(op, n, m))
      BY <2>1, <2>3 DEF FloatResults
    <3>2. r \in {Typed("BOOL", 0), Typed("BOOL", 1)}
      BY <3>1 DEF Bool
    <3> QED
      BY <2>3, <3>2, BoolTyped
  <2>4. CASE op \notin Comparisons /\ Other \notin {n, m}
    <3>1. n \in Int /\ m \in Int /\ Other \in ValuesOf(t)
      BY <1>2, <2>4, NumericValues
    <3>2. Round(t, Exactly(op, n, m)) \in ValuesOf(t)
      BY <3>1 DEF Round
    <3>3. m # 0 => Quotient(n, m) \in ValuesOf(t)
      <4>1. m # 0 => Quotient(n, m) \in -Abs(n) .. Abs(n)
        BY <3>1, QuotientBounds
      <4>2. n \in -Exact[t] .. Exact[t] /\ Exact[t] \in Nat
        BY <1>2, <2>4, NumericValues
      <4>3. m # 0 => Quotient(n, m) \in -Exact[t] .. Exact[t]
        BY <4>1, <4>2 DEF Abs
      <4> QED
        BY <1>2, <4>3, NumericValues
    <3>4. \E k \in ValuesOf(t) : r = Typed(t, k)
      BY <2>1, <2>4, <3>1, <3>2, <3>3 DEF FloatResults
    <3> QED
      BY <2>4, <3>4 DEF IsOf
  <2> QED
    BY <2>2, <2>3, <2>4
<1> QED
  BY <1>1, <1>2, NumericValues

(* What a function of one number makes of it.                              *)
LEMMA UnaryTyped ==
  ASSUME NEW op \in Unary, NEW from \in Numeric, NEW t \in UnaryTypes(op, from),
         NEW n \in ValuesOf(from), NEW r \in UnaryResults(op, from, t, n)
  PROVE  \/ r = Thrown /\ op \in Arcs /\ OutOfDomain(n)
         \/ \E k \in ValuesOf(t) : r = Typed(t, k)
<1>1. t \in Numeric /\ Convert(from, t, n) \subseteq ValuesOf(t)
  BY MathTypesNumeric, ConvertTyped
<1>2. CASE op \in {"floor", "ceil"}
  BY <1>1, <1>2 DEF UnaryResults, Trigonometry, Arcs
<1>3. CASE op = "abs"
  <2>1. PICK k \in ValuesOf(t) : r \in AbsOf(t, k)
    BY <1>1, <1>3 DEF UnaryResults, Trigonometry, Arcs
  <2>2. CASE k = Other
    BY <2>1, <2>2 DEF AbsOf, AnyOf
  <2>3. CASE k # Other /\ t \in Ints
    <3>1. k \in Int /\ Abs(k) \in Int
      BY <2>1, <2>3, NumericValues DEF Abs
    <3>2. Wrap(t, Abs(k)) \in ValuesOf(t)
      BY <2>3, <3>1, WrapInRange
    <3> QED
      BY <2>1, <2>3, <3>2 DEF AbsOf
  <2>4. CASE k # Other /\ t \notin Ints
    <3>1. t \in Floats
      BY <1>1, <2>4, NumericValues
    <3>2. k \in -Exact[t] .. Exact[t] /\ Exact[t] \in Nat
      BY <2>1, <2>4, <3>1, NumericValues
    <3>3. Abs(k) \in -Exact[t] .. Exact[t]
      BY <3>2 DEF Abs
    <3>4. Abs(k) \in ValuesOf(t)
      BY <3>1, <3>3, NumericValues
    <3> QED
      BY <2>1, <2>4, <3>4 DEF AbsOf
  <2> QED
    BY <2>2, <2>3, <2>4
<1>4. CASE op \in Trigonometry \ Arcs
  BY <1>4 DEF UnaryResults, AnyOf, Trigonometry, Arcs
<1>5. CASE op \in Arcs
  BY <1>5 DEF UnaryResults, AnyOf, Trigonometry, Arcs
<1> QED
  BY <1>2, <1>3, <1>4, <1>5 DEF Unary

(* The ways in which an operation on operands that it runs on may fail.    *)
Fails(r, op, x) ==
  \/ r = Trapped /\ op \in {"div", "mod"}
  \/ r = Thrown /\ op \in Arcs /\ OutOfDomain(x.val)

(* What an operation makes of operands of the kinds it runs on.            *)
LEMMA ApplyTyped ==
  ASSUME NEW op \in Ops \ {"value", "switch"}, NEW x \in Value, NEW y \in Value,
         {x.kind, y.kind} \subseteq Allowed(op, x),
         NEW r \in Apply(op, x, y)
  PROVE  Fails(r, op, x) \/ IsOf(r, ResultTypes(op, x.kind, y.kind))
<1>1. x.val \in ValuesOf(x.kind) /\ y.val \in ValuesOf(y.kind)
  BY DEF Value
<1>2. CASE op \in Logic
  <2>1. r = LogicResult(op, x.val, y.val)
    BY <1>2 DEF Apply, Dyadic, Arithmetic, Linear, Comparisons, Unary, Trigonometry, Arcs, Logic
  <2>2. r \in {Typed("BOOL", 0), Typed("BOOL", 1)}
    BY <1>2, <2>1 DEF LogicResult, Bool, Logic
  <2> QED
    BY <1>2, <2>2, BoolTyped DEF ResultTypes, Dyadic, Arithmetic, Linear, Comparisons, Unary, Trigonometry, Arcs, Logic
<1>3. CASE op \in Unary
  <2>1. x.kind \in Numeric
    BY <1>3 DEF Allowed, Dyadic, Arithmetic, Linear, Comparisons, Unary, Trigonometry, Arcs, Logic
  <2>2. PICK t \in UnaryTypes(op, x.kind) : r \in UnaryResults(op, x.kind, t, x.val)
    BY <1>3 DEF Apply, Dyadic, Arithmetic, Linear, Comparisons, Unary, Trigonometry, Arcs, Logic
  <2>3. \/ r = Thrown /\ op \in Arcs /\ OutOfDomain(x.val)
        \/ \E k \in ValuesOf(t) : r = Typed(t, k)
    BY <1>1, <1>3, <2>1, <2>2, UnaryTyped
  <2>4. ResultTypes(op, x.kind, y.kind) = UnaryTypes(op, x.kind)
    BY <1>3 DEF ResultTypes, Dyadic, Arithmetic, Linear, Comparisons, Unary, Trigonometry, Arcs, Logic
  <2> QED
    BY <2>2, <2>3, <2>4 DEF IsOf, Fails
<1>4. CASE op = "pow"
  <2>1. PICK t \in PowTypes(x.kind, y.kind) : r \in AnyOf(t)
    BY <1>4 DEF Apply, Dyadic, Arithmetic, Linear, Comparisons, Unary, Trigonometry, Arcs, Logic
  <2>2. ResultTypes(op, x.kind, y.kind) = PowTypes(x.kind, y.kind)
    BY <1>4 DEF ResultTypes, Dyadic, Arithmetic, Linear, Comparisons, Unary, Trigonometry, Arcs, Logic
  <2> QED
    BY <2>1, <2>2, AnyTyped
<1>5. CASE op = "random"
  <2>1. r \in AnyOf(Promoted(x.kind, y.kind))
    BY <1>5 DEF Apply, Dyadic, Arithmetic, Linear, Comparisons, Unary, Trigonometry, Arcs, Logic
  <2>2. ResultTypes(op, x.kind, y.kind) = {Promoted(x.kind, y.kind)}
    BY <1>5 DEF ResultTypes, Dyadic, Arithmetic, Linear, Comparisons, Unary, Trigonometry, Arcs, Logic
  <2> QED
    BY <2>1, <2>2, AnyTyped
<1>6. CASE op \in Dyadic /\ x.kind \notin Numeric
  <2>1. op = "eq"
    BY <1>6, NumericValues DEF Allowed, Dyadic, Arithmetic, Linear, Comparisons, Unary, Trigonometry, Arcs, Logic
  <2>2. r \in AnyOf("BOOL") \/ r \in {Typed("BOOL", 0), Typed("BOOL", 1)}
    BY <1>6, <2>1 DEF Apply, Bool, Dyadic, Arithmetic, Linear, Comparisons, Unary, Trigonometry, Arcs, Logic
  <2>3. ResultTypes(op, x.kind, y.kind) = {"BOOL"}
    BY <2>1 DEF ResultTypes, Dyadic, Arithmetic, Linear, Comparisons, Unary, Trigonometry, Arcs, Logic
  <2> QED
    BY <2>2, <2>3, AnyTyped, BoolTyped
<1>7. CASE op \in Dyadic /\ x.kind \in Numeric
  <2> DEFINE t == Promoted(x.kind, y.kind)
  <2>1. y.kind \in Numeric
    BY <1>7, NumericValues DEF Allowed, Dyadic, Arithmetic, Linear, Comparisons, Unary, Trigonometry, Arcs, Logic
  <2>2. t \in Numeric
    BY <1>7, <2>1, PromotedNumeric
  <2>3. PICK n \in Convert(x.kind, t, x.val), m \in Convert(y.kind, t, y.val) :
          r \in Results(op, t, n, m)
    BY <1>7 DEF Apply, Dyadic, Arithmetic, Linear, Comparisons, Unary, Trigonometry, Arcs, Logic
  <2>4. n \in ValuesOf(t) /\ m \in ValuesOf(t)
    BY <1>1, <1>7, <2>1, <2>2, ConvertTyped
  <2>5. ResultTypes(op, x.kind, y.kind) = IF op \in Comparisons THEN {"BOOL"} ELSE {t}
    BY <1>7 DEF ResultTypes, Dyadic, Arithmetic, Linear, Comparisons, Unary, Trigonometry, Arcs, Logic
  <2> HIDE DEF t
  <2>6. \/ r = Trapped /\ op \in {"div", "mod"}
        \/ IsOf(r, IF op \in Comparisons THEN {"BOOL"} ELSE {t})
    BY <1>7, <2>2, <2>3, <2>4, ResultsTyped
  <2> QED
    BY <2>5, <2>6 DEF Fails
<1> QED
  BY <1>2, <1>3, <1>4, <1>5, <1>6, <1>7 DEF Ops

-----------------------------------------------------------------------------
(***************************************************************************)
(* What is stored, and what a node evaluates to.                           *)
(***************************************************************************)
LEMMA TypedIsValue ==
  ASSUME NEW v, IsOf(v, Types)
  PROVE  v \in Value
BY DEF IsOf, Typed, Value

LEMMA EmptyIsValue == Empty \in Value
BY DEF Empty, Value, ValuesOf, Types, Representable, Numeric, Ints, Floats

(* setValue stores values of the type of the schema.                       *)
LEMMA StoredTyped ==
  ASSUME schema \in Schemas,
         NEW a \in Attrs, NEW v \in Value \cup {Thrown, Trapped}, NEW stored \in Stored(a, v)
  PROVE  /\ a \in DOMAIN schema
         /\ stored \in Value
         /\ schema[a] # "ARRAY" => stored.type = schema[a] /\ stored.kind = schema[a]
<1>1. a \in DOMAIN schema /\ HasCorrectDataType(v) /\ schema[a] \in Types
  BY SchemasAssumption DEF Stored
<1>2. v \in Value
  BY <1>1 DEF HasCorrectDataType, Thrown, Trapped, Representable, Numeric, Ints, Floats
<1>3. v.val \in ValuesOf(v.kind)
  BY <1>2 DEF Value
<1>4. CASE {schema[a], v.kind} \subseteq Numeric
  <2>1. PICK n \in Convert(v.kind, schema[a], v.val) : stored = Typed(schema[a], n)
    BY <1>1, <1>4 DEF Stored
  <2>2. n \in ValuesOf(schema[a])
    BY <1>3, <1>4, ConvertTyped
  <2>3. stored \in Value
    BY <1>1, <2>1, <2>2, TypedIsValue DEF IsOf
  <2> QED
    BY <1>1, <2>1, <2>3 DEF Typed
<1>5. CASE ~({schema[a], v.kind} \subseteq Numeric)
  <2>1. stored = v /\ schema[a] \in {"ARRAY", v.type}
    BY <1>1, <1>5 DEF Stored
  <2> QED
    BY <1>1, <1>2, <2>1 DEF HasCorrectDataType
<1> QED
  BY <1>4, <1>5

LEMMA NodeShape ==
  ASSUME NEW node \in Nodes
  PROVE  /\ node.op \in Ops
         /\ node.args \in [1..Arity(node.op) -> Leaf]
         /\ 1 \in 1..Arity(node.op) /\ Arity(node.op) \in 1..Arity(node.op)
         /\ node.op = "switch" => Arity(node.op) = 3
<1>1. PICK op \in Ops : node \in [op : {op}, args : [1..Arity(op) -> Leaf]]
  BY NodesAssumption DEF IsNode
<1>2. Arity(op) \in {1, 2, 3} /\ (op = "switch" => Arity(op) = 3)
  BY DEF Ops, Arity, Dyadic, Arithmetic, Linear, Comparisons, Unary, Trigonometry, Arcs, Logic
<1> QED
  BY <1>1, <1>2

LEMMA EvaluatedIsValue ==
  ASSUME values \in [Attrs -> Value], NEW leaf \in Leaf
  PROVE  Evaluated(leaf) \in Value \cup {Thrown}
<1>1. CASE leaf \in [const : Value]
  BY <1>1 DEF Evaluated
<1>2. CASE leaf \in [attr : Attrs]
  BY <1>2 DEF Evaluated
<1> QED
  BY <1>1, <1>2 DEF Leaf

(* A node evaluates to a value, throws or traps.                           *)
LEMMA EvaluateIsValue ==
  ASSUME values \in [Attrs -> Value], NEW node \in Nodes, NEW v \in Evaluate(node)
  PROVE  v \in Value \cup {Thrown, Trapped}
<1> DEFINE x == Evaluated(node.args[1])
           y == Evaluated(node.args[Arity(node.op)])
<1>1. \A i \in 1..Arity(node.op) : Evaluated(node.args[i]) \in Value \cup {Thrown}
  BY NodeShape, EvaluatedIsValue
<1>2. x \in Value \cup {Thrown} /\ y \in Value \cup {Thrown}
  BY <1>1, NodeShape
<1>3. CASE node.op = "value"
  BY <1>2, <1>3 DEF Evaluate
<1>4. CASE node.op = "switch"
  <2>1. 2 \in 1..Arity(node.op) /\ 3 \in 1..Arity(node.op)
    BY <1>4, NodeShape
  <2>2. v \in {Thrown, Evaluated(node.args[2]), Evaluated(node.args[3])}
    BY <1>4 DEF Evaluate
  <2> QED
    BY <1>1, <2>1, <2>2
<1>5. CASE node.op \notin {"value", "switch"}
  <2> HIDE DEF x, y
  <2>1. CASE {x.kind, y.kind} \subseteq Allowed(node.op, x)
    <3>1. v \in Apply(node.op, x, y)
      BY <1>5, <2>1 DEF Evaluate, x, y
    <3>2. Allowed(node.op, x) \subseteq Types
      BY <1>5, NodeShape DEF Allowed, Ops, Types, Representable, Numeric, Dyadic, Arithmetic, Linear, Comparisons, Unary, Trigonometry, Arcs, Logic
    <3>3. x \in Value /\ y \in Value
      BY <1>2, <2>1, <3>2 DEF Thrown, Types, Representable, Numeric, Ints, Floats
    <3>4. \/ v \in {Thrown, Trapped}
          \/ IsOf(v, ResultTypes(node.op, x.kind, y.kind))
      BY <1>5, <2>1, <3>1, <3>3, NodeShape, ApplyTyped DEF Fails
    <3>5. ResultTypes(node.op, x.kind, y.kind) \subseteq Types
      <4>1. CASE node.op \in Comparisons \cup Logic
        BY <4>1 DEF ResultTypes, Types, Representable, Dyadic, Arithmetic, Linear, Comparisons, Unary, Trigonometry, Arcs, Logic
      <4>2. CASE node.op \in Arithmetic \cup {"mod", "random", "pow"} \cup Unary
        <5>1. x.kind \in Numeric /\ (node.op \notin Unary => y.kind \in Numeric)
          BY <2>1, <4>2, NumericValues DEF Allowed, Dyadic, Arithmetic, Linear, Comparisons, Unary, Trigonometry, Arcs, Logic
        <5>2. node.op \in Unary => UnaryTypes(node.op, x.kind) \subseteq Numeric
          BY <5>1, MathTypesNumeric
        <5>3. node.op = "pow" => PowTypes(x.kind, y.kind) \subseteq Numeric
          BY <5>1, MathTypesNumeric DEF Dyadic, Arithmetic, Linear, Comparisons, Unary, Trigonometry, Arcs, Logic
        <5>4. node.op \notin Unary => Promoted(x.kind, y.kind) \in Numeric
          BY <5>1, PromotedNumeric
        <5> QED
          BY <4>2, <5>2, <5>3, <5>4 DEF ResultTypes, Types, Representable, Dyadic, Arithmetic, Linear, Comparisons, Unary, Trigonometry, Arcs, Logic
      <4> QED
        BY <1>5, <4>1, <4>2, NodeShape DEF Ops, Dyadic
    <3>6. IsOf(v, ResultTypes(node.op, x.kind, y.kind)) => IsOf(v, Types)
      BY <3>5 DEF IsOf
    <3> QED
      BY <3>4, <3>6, TypedIsValue
  <2>2. CASE ~({x.kind, y.kind} \subseteq Allowed(node.op, x))
    <3>1. v = Thrown
      BY <1>5, <2>2 DEF Evaluate, x, y
    <3> QED
      BY <3>1
  <2> QED
    BY <2>1, <2>2
<1> QED
  BY <1>3, <1>4, <1>5

-----------------------------------------------------------------------------
(***************************************************************************)
(* The values of a component are of the types of its schema, after any     *)
(* sequence of mutations.                                                  *)
(***************************************************************************)
IInv == TypeOK /\ StoredAsDeclared

LEMMA InitIInv == Init => IInv
BY EmptyIsValue DEF Init, IInv, TypeOK, StoredAsDeclared

LEMMA MutatePreservesIInv ==
  ASSUME IInv, NEW a \in Attrs, NEW node \in Nodes, Mutate(a, node)
  PROVE  IInv'
<1>1. schema \in Schemas /\ values \in [Attrs -> Value] /\ schema' = schema
  BY DEF IInv, TypeOK, Mutate
<1>2. PICK v \in Evaluate(node) :
        \/ /\ \E stored \in Stored(a, v) : values' = [values EXCEPT ![a] = stored]
           /\ result' = "ok"
        \/ /\ Stored(a, v) = {}
           /\ result' = (IF v = Trapped THEN "trapped" ELSE "threw")
           /\ UNCHANGED values
  BY DEF Mutate
<1>3. v \in Value \cup {Thrown, Trapped}
  BY <1>1, EvaluateIsValue
<1>4. result' \in {"ok", "threw", "trapped"}
  BY <1>2
<1>5. CASE UNCHANGED values
  BY <1>1, <1>4, <1>5 DEF IInv, TypeOK, StoredAsDeclared, HoldsType
<1>6. ASSUME NEW stored \in Stored(a, v), values' = [values EXCEPT ![a] = stored]
      PROVE  IInv'
  <2>1. /\ a \in DOMAIN schema
        /\ stored \in Value
        /\ schema[a] # "ARRAY" => stored.type = schema[a] /\ stored.kind = schema[a]
    BY <1>1, <1>3, StoredTyped
  <2>2. TypeOK'
    BY <1>1, <1>4, <1>6, <2>1 DEF TypeOK
  <2>3. StoredAsDeclared'
    <3> SUFFICES ASSUME NEW b \in Attrs, values'[b] # Empty
                 PROVE  b \in DOMAIN schema /\ (schema[b] # "ARRAY" => HoldsType(b)')
      BY <1>1 DEF StoredAsDeclared
    <3>1. CASE b = a
      BY <1>1, <1>6, <2>1, <3>1 DEF HoldsType
    <3>2. CASE b # a
      BY <1>1, <1>6, <3>2 DEF IInv, StoredAsDeclared, HoldsType
    <3> QED
      BY <3>1, <3>2
  <2> QED
    BY <2>2, <2>3 DEF IInv
<1> QED
  BY <1>2, <1>5, <1>6

(* The inductive invariant: the state keeps its shape and the values their *)
(* types, whatever graphs do (userComponent.cpp:24-83).                    *)
THEOREM IInvInvariant == Spec => []IInv
<1>1. IInv /\ [Next]_vars => IInv'
  <2> SUFFICES ASSUME IInv, [Next]_vars PROVE IInv'
    OBVIOUS
  <2>1. CASE Next
    BY <2>1, MutatePreservesIInv DEF Next
  <2>2. CASE UNCHANGED vars
    BY <2>2 DEF vars, IInv, TypeOK, StoredAsDeclared, HoldsType
  <2> QED
    BY <2>1, <2>2
<1> QED
  BY InitIInv, <1>1, PTL DEF Spec

(* The variables keep their types: every value stored is one its kind has, *)
(* conversions that narrow or are undefined included.                      *)
THEOREM TypeCorrect == Spec => []TypeOK
<1>1. IInv => TypeOK
  BY DEF IInv
<1> QED
  BY <1>1, IInvInvariant, PTL

(* An attribute of a primitive type holds a value of that type.            *)
THEOREM ValuesAsDeclared == Spec => []StoredAsDeclared
<1>1. IInv => StoredAsDeclared
  BY DEF IInv
<1> QED
  BY <1>1, IInvInvariant, PTL

-----------------------------------------------------------------------------
(***************************************************************************)
(* A graph whose types fit never throws.                                   *)
(***************************************************************************)
(* A leaf with a type that values can have is a value of that type.        *)
LEMMA LeafTyped ==
  ASSUME IInv, NEW leaf \in Leaf, TypeOfLeaf(leaf) \in Representable,
         "attr" \in DOMAIN leaf => values[leaf.attr] # Empty
  PROVE  /\ Evaluated(leaf) \in Value
         /\ Evaluated(leaf).type = TypeOfLeaf(leaf)
         /\ Evaluated(leaf).kind = TypeOfLeaf(leaf)
<1>1. CASE leaf \in [const : Value]
  BY <1>1 DEF TypeOfLeaf, Evaluated, HasCorrectDataType, Representable, Numeric, Ints, Floats
<1>2. CASE leaf \in [attr : Attrs]
  <2>1. leaf.attr \in Attrs /\ Evaluated(leaf) = values[leaf.attr] /\ values[leaf.attr] # Empty
    BY <1>2 DEF Evaluated
  <2>2. leaf.attr \in DOMAIN schema /\ TypeOfLeaf(leaf) = schema[leaf.attr]
    BY <1>2, <2>1 DEF IInv, StoredAsDeclared, TypeOfLeaf
  <2>3. schema[leaf.attr] # "ARRAY"
    BY <2>2 DEF Representable, Numeric, Ints, Floats
  <2> QED
    BY <2>1, <2>2, <2>3 DEF IInv, TypeOK, StoredAsDeclared, HoldsType
<1> QED
  BY <1>1, <1>2 DEF Leaf

(* A value of a type that may be assigned is stored.                       *)
LEMMA AssignableStored ==
  ASSUME NEW a \in DOMAIN schema, NEW v \in Value,
         v.type = v.kind, v.type \in Representable, Assignable(v.type, a)
  PROVE  Stored(a, v) # {}
<1>1. CASE {schema[a], v.kind} \subseteq Numeric
  <2>1. v.val \in ValuesOf(v.kind)
    BY DEF Value
  <2>2. Convert(v.kind, schema[a], v.val) # {}
    BY <1>1, <2>1, ConvertTyped
  <2>3. Stored(a, v) = {Typed(schema[a], n) : n \in Convert(v.kind, schema[a], v.val)}
    BY <1>1 DEF Stored, HasCorrectDataType
  <2> QED
    BY <2>2, <2>3
<1>2. CASE ~({schema[a], v.kind} \subseteq Numeric)
  BY <1>2 DEF Stored, HasCorrectDataType, Assignable
<1> QED
  BY <1>1, <1>2

(* What a well typed node evaluates to has one of its types, unless it     *)
(* fails in one of the ways above.                                         *)
LEMMA EvaluateTyped ==
  ASSUME IInv, NEW node \in Nodes, TypesOf(node) # {}, TypesOf(node) \subseteq Representable,
         AllSet(node), NEW v \in Evaluate(node)
  PROVE  \/ Fails(v, node.op, Evaluated(node.args[1]))
         \/ v \in Value /\ v.type = v.kind /\ v.type \in TypesOf(node)
<1> DEFINE last == Arity(node.op)
           leaf(i) == node.args[i]
           s == TypeOfLeaf(leaf(1))
           t == TypeOfLeaf(leaf(last))
           x == Evaluated(leaf(1))
           y == Evaluated(leaf(last))
<1>1. \A i \in 1..last : TypeOfLeaf(leaf(i)) \in Representable =>
        /\ Evaluated(leaf(i)) \in Value
        /\ Evaluated(leaf(i)).type = TypeOfLeaf(leaf(i))
        /\ Evaluated(leaf(i)).kind = TypeOfLeaf(leaf(i))
  BY NodeShape, LeafTyped DEF AllSet
<1>2. 1 \in 1..last /\ last \in 1..last /\ node.op \in Ops
  BY NodeShape
<1>3. CASE node.op = "value"
  BY <1>1, <1>2, <1>3 DEF Evaluate, TypesOf
<1>4. CASE node.op = "switch"
  <2>1. 2 \in 1..last /\ last = 3
    BY <1>4, NodeShape
  <2>2. s = "BOOL" /\ TypesOf(node) = {TypeOfLeaf(leaf(2)), TypeOfLeaf(leaf(3))}
    BY <1>4, <2>1 DEF TypesOf
  <2>3. x.kind = "BOOL"
    BY <1>1, <1>2, <2>2 DEF Representable
  <2>4. v \in {Evaluated(leaf(2)), Evaluated(leaf(3))}
    BY <1>4, <2>3 DEF Evaluate
  <2> QED
    BY <1>1, <1>2, <2>1, <2>2, <2>4
<1>5. CASE node.op \notin {"value", "switch"}
  <2>1. Fits(node.op, s, t) /\ TypesOf(node) = ResultTypes(node.op, s, t)
    BY <1>5 DEF TypesOf
  <2> HIDE DEF last, s, t, x, y
  <2>2. s \in Representable /\ t \in Representable
    BY <1>2, <1>5, <2>1 DEF Fits, Ops, Representable, Numeric, Dyadic, Arithmetic, Linear, Comparisons, Unary, Trigonometry, Arcs, Logic
  <2>3. x \in Value /\ y \in Value /\ x.kind = s /\ y.kind = t
    BY <1>1, <1>2, <2>2 DEF s, t, x, y
  <2>4. {x.kind, y.kind} \subseteq Allowed(node.op, x)
    BY <1>2, <1>5, <2>1, <2>3, NumericValues DEF Fits, Ops, Allowed, Dyadic, Arithmetic, Linear, Comparisons, Unary, Trigonometry, Arcs, Logic
  <2>5. v \in Apply(node.op, x, y)
    BY <1>5, <2>4 DEF Evaluate, x, y, last
  <2>6. Fails(v, node.op, x) \/ IsOf(v, TypesOf(node))
    BY <1>2, <1>5, <2>1, <2>3, <2>4, <2>5, ApplyTyped
  <2>7. IsOf(v, TypesOf(node)) => v \in Value /\ v.type = v.kind /\ v.type \in TypesOf(node)
    BY TypedIsValue DEF IsOf, Typed, Types
  <2> QED
    BY <2>6, <2>7 DEF x
<1> QED
  BY <1>3, <1>4, <1>5

LEMMA Soundness == IInv => WellTypedNeverThrows
<1> SUFFICES ASSUME IInv, NEW node \in Nodes, NEW a \in DOMAIN schema,
                    TypesOf(node) # {}, \A t \in TypesOf(node) : Assignable(t, a),
                    AllSet(node), NEW v \in Evaluate(node)
             PROVE  Stored(a, v) # {} \/ Fails(v, node.op, Evaluated(node.args[1]))
  BY DEF WellTypedNeverThrows, Fails
<1>1. TypesOf(node) \subseteq Representable
  BY DEF Assignable, Representable
<1>2. \/ Fails(v, node.op, Evaluated(node.args[1]))
      \/ v \in Value /\ v.type = v.kind /\ v.type \in TypesOf(node)
  BY <1>1, EvaluateTyped
<1> QED
  BY <1>1, <1>2, AssignableStored

(* Types are sound: after any sequence of mutations, a graph whose types   *)
(* fit the schema and whose attributes are set does not throw              *)
(* (userValue.h:163-257, userComponent.cpp:24-83).                         *)
THEOREM TypeSoundness == Spec => []WellTypedNeverThrows
BY Soundness, IInvInvariant, PTL
=============================================================================
