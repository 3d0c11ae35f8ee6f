--------------------------- MODULE MCUserComponent ---------------------------
(***************************************************************************)
(* Model checking of UserComponent: components with two attributes of any  *)
(* two types and a third that is not in the schema.                        *)
(***************************************************************************)
EXTENDS UserComponent

CONSTANTS attr1, attr2, attr3

MCSchemas == [{attr1, attr2} -> Types]

(* Each integer type has more values than the float type of its size has   *)
(* exactly, and fewer than the next float type.                            *)
MCLowest == [INT32 |-> -2, INT64 |-> -8]
MCExact == [FLOAT32 |-> 1, FLOAT64 |-> 3]

(* What the SDK makes of constants, and messages only clients make.        *)
SdkConsts ==
  {Typed("INT32", 1), Typed("INT64", 5), Typed("INT64", -8), Typed("FLOAT64", Other),
   Typed("BOOL", 1), Typed("STRING", 0)}
ClientConsts ==
  {Empty, Typed("BYTE", 0), Typed("ARRAY", 0),
   [type |-> "NONE", kind |-> "INT32", val |-> 1],
   [type |-> "STRING", kind |-> "INT32", val |-> 1]}

Reads == [attr : Attrs]
Consts(cs) == [const : cs]

MCUnary ==
  [op : {"value"}, args : {<<l>> : l \in Reads \cup Consts(SdkConsts \cup ClientConsts)}] \cup
  [op : Unary \cup {"not"}, args : {<<l>> : l \in Reads}]

MCBinary ==
  [op : {"and", "or", "pow", "random"} \cup Dyadic,
   args : (Reads \X Reads) \cup (Reads \X Consts({Typed("INT32", 1), Typed("FLOAT64", 0)}))]

Switches ==
  [op : {"switch"}, args : Reads \X Reads \X (Reads \cup Consts({Typed("INT32", 1)}))]

MCNodes == MCUnary \cup MCBinary \cup Switches
=============================================================================
