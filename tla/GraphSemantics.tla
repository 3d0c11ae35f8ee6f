---------------------------- MODULE GraphSemantics ---------------------------
(***************************************************************************)
(* From a Python function to what the engine does.  The SDK analyses the   *)
(* function and rewrites its conditionals (sdk/bento/graph), runs it once  *)
(* with shims in place of the attributes to record a graph (ecs/graph.py), *)
(* and the engine runs the graph on every step (graphInterpreter.cpp).     *)
(* The module follows together                                             *)
(*   - prog: the function, any sequence of assignments and conditionals    *)
(*     over attributes and local variables;                                *)
(*   - source: what Python itself would make of them;                      *)
(*   - outputs and inputs: what the SDK records;                           *)
(*   - store: what the engine makes of the attributes afterwards.          *)
(* All of it is a function of the attributes before the function runs, so  *)
(* the module computes it for every snapshot of them at once.              *)
(*                                                                         *)
(* A node of a graph is modelled by its meaning, the value evaluateNode    *)
(* computes from each snapshot, and by the one thing the SDK looks at:     *)
(* whether it just retrieves an attribute.  Nodes that throw or draw       *)
(* random numbers are not modelled.                                        *)
(*                                                                         *)
(* A definition Bug<Name> is a mutated form of <Name> that the             *)
(* specification does not use.                                             *)
(***************************************************************************)
EXTENDS Naturals, FiniteSets, FiniteSetsExt, SequencesExt

CONSTANTS
  Attrs,        \* the attributes functions use
  Locals,       \* their local variables, set to 0 before anything else
  NoAttr,       \* not an attribute
  ValMod,       \* values are 0 .. ValMod - 1, and the arithmetic wraps
  Vocabularies, \* what a function is written with: the variables it uses, those
                \* they are reached from, and the expressions it assigns
  TestVals,     \* the values it compares variables with
  MaxStmts,     \* bound: assignments and conditionals of a function
  MaxDepth      \* bound: conditionals nested in each other

Vals == 0 .. ValMod - 1
Vars == Attrs \cup Locals

(* Constants, copies, sums and ternaries: from if test == val else other.  *)
Expr == [op : {"const"}, val : Vals] \cup
        [op : {"var"}, from : Vars] \cup
        [op : {"add"}, from : Vars, val : Vals] \cup
        [op : {"ternary"}, test : Vars, val : Vals, from : Vars, other : Vars]

ASSUME NoAttrAssumption == NoAttr \notin Vars
ASSUME LocalsAssumption == Locals \cap Attrs = {}
ASSUME VocabulariesAssumption ==
  \A w \in Vocabularies :
    /\ w.vars \subseteq Vars /\ w.exprs \subseteq Expr
    /\ DOMAIN w.base = Vars /\ \A v \in Locals : w.base[v] = v
ASSUME ValModAssumption == ValMod \in Nat \ {0}
ASSUME TestValsAssumption == TestVals \subseteq Vals
ASSUME BoundsAssumption == MaxStmts \in Nat /\ MaxDepth \in Nat

VARIABLES
  phase,      \* "write" the function, "plot" its graph, "run" it; or "raised"
  words,      \* the vocabulary of the function
  prog,       \* the function
  open,       \* the conditionals being written, the innermost first
  pc,         \* the statement to plot next
  source,     \* attributes and locals as the function has left them, in Python
  live,       \* the snapshots from which Python gets to this point
  outputs,    \* Plotter.outputs and the locals, as the code being traced sees them
  inputs,     \* Plotter.inputs
  frames,     \* the conditionals being traced, the innermost first
  store,      \* the attributes in the engine
  ran,        \* how many outputs the engine has run
  ignored,    \* history: an assignment was wrongly ignored
  leaked      \* history: an else branch saw what the if branch had set

python == <<source, live>>
recorded == <<outputs, inputs, frames>>
engine == <<store, ran>>
flaws == <<ignored, leaked>>
vars == <<phase, words, prog, open, pc, python, recorded, engine, flaws>>

Snapshots == [Attrs -> Vals]
Node == [plain : Attrs \cup {NoAttr}, value : [Snapshots -> Vals]]

Const(v) == [plain |-> NoAttr, value |-> [s \in Snapshots |-> v]]
Retrieve(a) == [plain |-> a, value |-> [s \in Snapshots |-> s[a]]]
Add(node, v) ==
  [plain |-> NoAttr, value |-> [s \in Snapshots |-> (node.value[s] + v) % ValMod]]

BugSwitch(cond, true, false) ==
  [plain |-> NoAttr,
   value |-> [s \in Snapshots |-> IF s \in cond THEN false.value[s] ELSE true.value[s]]]

(* cond: the snapshots in which the condition node evaluates to true.      *)
Switch(cond, true, false) ==
  [plain |-> NoAttr,
   value |-> [s \in Snapshots |-> IF s \in cond THEN true.value[s] ELSE false.value[s]]]

-----------------------------------------------------------------------------
(***************************************************************************)
(* An OrderedDict of Mutate nodes: the node each attribute is set to, and  *)
(* the attributes in the order of the dict.  The nodes that local          *)
(* variables hold are kept with them, outside of the order.                *)
(***************************************************************************)
Recorded(outs) == DOMAIN outs.defs

BugGetAttr(outs, a) == IF a \in Locals THEN outs.defs[a] ELSE Retrieve(a)

(* get_attr: what the attribute was set to, if it was.                     *)
GetAttr(outs, a) == IF a \in Recorded(outs) THEN outs.defs[a] ELSE Retrieve(a)

BugRetrieved(outs, read) == IF frames = <<>> THEN read \ Recorded(outs) ELSE {}

(* get_attr records what it has to retrieve.  The inputs are not copied    *)
(* for the branches of a conditional.                                      *)
Retrieved(outs, read) == read \ Recorded(outs)

(* The attributes of a sequence that are not among attrs, in their order.  *)
Without(order, attrs) ==
  LET kept[k \in 0 .. Len(order)] ==
        IF k = 0 THEN <<>>
        ELSE IF order[k] \in attrs THEN kept[k - 1] ELSE Append(kept[k - 1], order[k])
  IN  kept[Len(order)]

BugSetAll(outs, attrs, node) ==
  [defs |-> [a \in Recorded(outs) \cup Range(attrs) |->
               IF a \in Range(attrs) THEN node[a] ELSE outs.defs[a]],
   order |-> outs.order \o Without(attrs, Locals)]

(* Setting attributes one after the other moves them to the end.           *)
SetAll(outs, attrs, node) ==
  [defs |-> [a \in Recorded(outs) \cup Range(attrs) |->
               IF a \in Range(attrs) THEN node[a] ELSE outs.defs[a]],
   order |-> Without(outs.order, Range(attrs)) \o Without(attrs, Locals)]

(* set_attr ignores a value that retrieves the attribute itself.           *)
SetAttr(outs, a, node) ==
  IF node.plain = a THEN outs ELSE SetAll(outs, <<a>>, [b \in {a} |-> node])

-----------------------------------------------------------------------------
Init ==
  /\ phase = "write"
  /\ words \in Vocabularies
  /\ prog = <<>>
  /\ open = <<>>
  /\ pc = 1
  /\ source = [s \in Snapshots |-> [a \in Vars |-> IF a \in Attrs THEN s[a] ELSE 0]]
  /\ live = Snapshots
  /\ outputs = [defs |-> [v \in Locals |-> Const(0)], order |-> <<>>]
  /\ inputs = {}
  /\ frames = <<>>
  /\ store = [s \in Snapshots |-> s]
  /\ ran = 0
  /\ ignored = FALSE
  /\ leaked = FALSE

(***************************************************************************)
(* Writing the function.  Each statement knows the conditionals around it, *)
(* by their place in the function, and the branches of them that it is in. *)
(***************************************************************************)
Length == Cardinality({i \in DOMAIN prog : prog[i].kind \in {"assign", "if"}})

Write(stmt) ==
  /\ phase = "write"
  /\ prog' = Append(prog, stmt)
  /\ UNCHANGED <<phase, words, pc, python, recorded, engine, flaws>>

WriteAssign(a, expr) ==
  /\ Length < MaxStmts
  /\ Write([kind |-> "assign", attr |-> a, expr |-> expr, within |-> open])
  /\ UNCHANGED open

WriteIf(a, v) ==
  LET id == Len(prog) + 1 IN
  /\ Length < MaxStmts
  /\ Len(open) < MaxDepth
  /\ Write([kind |-> "if", attr |-> a, val |-> v, within |-> open])
  /\ open' = <<[id |-> id, branch |-> "if"]>> \o open

WriteElse ==
  /\ open # <<>>
  /\ Head(open).branch = "if"
  /\ Write([kind |-> "else", within |-> open])
  /\ open' = [open EXCEPT ![1].branch = "else"]

WriteEndIf ==
  /\ open # <<>>
  /\ Head(open).branch = "else"
  /\ Write([kind |-> "endif", within |-> open])
  /\ open' = Tail(open)

Compile ==
  /\ phase = "write"
  /\ open = <<>>
  /\ phase' = "plot"
  /\ UNCHANGED <<words, prog, open, pc, python, recorded, engine, flaws>>

-----------------------------------------------------------------------------
(***************************************************************************)
(* The analysis of the function (analyzers.py).                            *)
(***************************************************************************)
ReadBy(expr) ==
  CASE expr.op = "const"          -> {}
    [] expr.op \in {"var", "add"} -> {expr.from}
    [] expr.op = "ternary"        -> {expr.test, expr.from, expr.other}

Reads(stmt) ==
  CASE stmt.kind = "if"     -> {stmt.attr}
    [] stmt.kind = "assign" -> ReadBy(stmt.expr)
    [] OTHER                -> {}

Assignments(a) == {i \in DOMAIN prog : prog[i].kind = "assign" /\ prog[i].attr = a}

(* analyze_parent and analyze_block: a conditional is a block of its own.  *)
Blocks(i) ==
  {prog[i].within[n].id : n \in DOMAIN prog[i].within} \cup
  (IF prog[i].kind = "if" THEN {i} ELSE {})

(* The innermost of them, or the function itself.                          *)
Block(i) ==
  IF prog[i].kind = "if" THEN i
  ELSE IF prog[i].within = <<>> THEN 0 ELSE Head(prog[i].within).id

(* A ternary has a body and an orelse and is taken for a block of its own. *)
OwnBlock(i) == prog[i].kind = "assign" /\ prog[i].expr.op = "ternary"

BugInputSyms(i) ==
  {a \in Reads(prog[i]) \ (IF prog[i].kind = "assign" THEN {prog[i].attr} ELSE {}) :
     \/ a \in Locals
     \/ /\ \E d \in Assignments(a) : d <= i
        /\ OwnBlock(i) \/ \E d \in Assignments(a) : Block(d) # Block(i)}

(* resolve_symbol and analyze_activity: what a statement reads is an input *)
(* of the block if it was assigned before, or by the statement itself, and *)
(* is assigned anywhere outside the block.  Locals are, at the start.      *)
InputSyms(i) ==
  {a \in Reads(prog[i]) :
     \/ a \in Locals
     \/ /\ \E d \in Assignments(a) : d <= i
        /\ OwnBlock(i) \/ \E d \in Assignments(a) : Block(d) # Block(i)}

(* The variables that the branches of the conditional at k get copies of.  *)
BaseInSyms(k) ==
  {words.base[a] : a \in UNION {InputSyms(i) : i \in {j \in DOMAIN prog : k \in Blocks(j)}}}

-----------------------------------------------------------------------------
(***************************************************************************)
(* Plotting the function, statement by statement.                          *)
(***************************************************************************)
stmt == prog[pc]

(* The locals assigned in one of the branches of the conditional at k.  In *)
(* the function that the branch is made of Python takes them for its own.  *)
Assigns(i, k, branch) ==
  prog[i].kind = "assign" /\ Contains(prog[i].within, [id |-> k, branch |-> branch])
AssignedIn(k, branch) ==
  {prog[i].attr : i \in {j \in DOMAIN prog : Assigns(j, k, branch)}} \cap Locals

(* A local can be read if the innermost function it is local to has        *)
(* assigned it by now, or has it as an argument.                           *)
Bound(v) ==
  \A i \in DOMAIN frames :
    v \in frames[i].scope /\ (\A k \in 1 .. i - 1 : v \notin frames[k].scope)
      => v \in frames[i].bound

(* What the code made of a statement reads: arguments of the branches      *)
(* included, and what they return.                                         *)
Uses ==
  CASE stmt.kind = "if"     -> Reads(stmt) \cup BaseInSyms(pc)
    [] stmt.kind = "assign" -> Reads(stmt)
    [] OTHER -> AssignedIn(Block(pc), "if") \cup AssignedIn(Block(pc), "else")

(* What the branches set, in the order Python unpacks them to:   *)
(* those of the conditionals within them, then their own.                  *)
Targets(frame) == frame.nested \o Without(frame.own, Range(frame.nested))

(* Python raises if a local is not there to be read, and if a conditional  *)
(* sets nothing: its branches return None then, which zip cannot iterate.  *)
Raises ==
  \/ \E v \in Uses \cap Locals : ~Bound(v)
  \/ stmt.kind = "endif" /\ Targets(Head(frames)) = <<>>

Plot(kind) ==
  /\ phase = "plot"
  /\ pc <= Len(prog)
  /\ stmt.kind = kind
  /\ ~Raises
  /\ pc' = pc + 1
  /\ UNCHANGED <<phase, words, prog, open, engine>>

(* The function does not compile.                                          *)
PlotRaises ==
  /\ phase = "plot"
  /\ pc <= Len(prog)
  /\ Raises
  /\ phase' = "raised"
  /\ UNCHANGED <<words, prog, open, pc, python, recorded, engine, flaws>>

(* The snapshots in which a comparison of nodes evaluates to true.         *)
Holds(a, v) == {s \in Snapshots : GetAttr(outputs, a).value[s] = v}

NodeOf(expr) ==
  CASE expr.op = "const"   -> Const(expr.val)
    [] expr.op = "var"     -> GetAttr(outputs, expr.from)
    [] expr.op = "add"     -> Add(GetAttr(outputs, expr.from), expr.val)
    [] expr.op = "ternary" -> Switch(Holds(expr.test, expr.val),
                                     GetAttr(outputs, expr.from),
                                     GetAttr(outputs, expr.other))

ValueOf(expr, vals) ==
  CASE expr.op = "const"   -> expr.val
    [] expr.op = "var"     -> vals[expr.from]
    [] expr.op = "add"     -> (vals[expr.from] + expr.val) % ValMod
    [] expr.op = "ternary" -> IF vals[expr.test] = expr.val THEN vals[expr.from]
                                                            ELSE vals[expr.other]

AddTo(seq, a) == IF Contains(seq, a) THEN seq ELSE Append(seq, a)

PlotAssign ==
  LET a    == stmt.attr
      node == NodeOf(stmt.expr)
  IN
  /\ Plot("assign")
  /\ outputs' = SetAttr(outputs, a, node)
  /\ inputs' = inputs \cup Retrieved(outputs, Reads(stmt))
  /\ frames' = IF frames = <<>> THEN <<>>
               ELSE [frames EXCEPT ![1].own = AddTo(@, a),
                                   ![1].bound = @ \cup ({a} \cap Locals)]
  /\ source' = [s \in Snapshots |->
                  IF s \in live
                    THEN [source[s] EXCEPT ![a] = ValueOf(stmt.expr, source[s])]
                    ELSE source[s]]
  /\ ignored' = (ignored \/ (node.plain = a /\ a \in Recorded(outputs)))
  /\ UNCHANGED <<live, leaked>>

(* if a == v.  The condition is evaluated first; then the branches are     *)
(* traced one after the other.                                             *)
PlotIf ==
  LET holds == {s \in live : source[s][stmt.attr] = stmt.val}
      args  == BaseInSyms(pc)
  IN
  /\ Plot("if")
  /\ inputs' = inputs \cup Retrieved(outputs, Reads(stmt))
  /\ frames' =
       <<[cond |-> Holds(stmt.attr, stmt.val),
          args |-> args, outer |-> outputs, then |-> outputs,
          own |-> <<>>, nested |-> <<>>, holds |-> holds, live |-> live,
          scope |-> (args \cap Locals) \cup AssignedIn(pc, "if"),
          bound |-> args \cap Locals]>>
       \o frames
  /\ live' = holds
  /\ UNCHANGED <<source, outputs, flaws>>

(* What is recorded outside of the conditional: a branch changed its own   *)
(* copies of the variables it has as arguments, and the variables          *)
(* themselves otherwise.  Locals that it assigns are its own.              *)
Outside(frame) ==
  LET kept == Locals \cup {a \in Attrs : words.base[a] \in frame.args}
      seen == (Recorded(frame.outer) \cap kept) \cup (Recorded(outputs) \ kept)
  IN [defs  |-> [a \in seen |-> IF a \in kept THEN frame.outer.defs[a]
                                                ELSE outputs.defs[a]],
      order |-> Without(frame.outer.order, Attrs \ seen)
                \o Without(outputs.order, (Attrs \ seen) \cup Recorded(frame.outer))]

PlotElse ==
  LET frame == Head(frames) IN
  /\ Plot("else")
  /\ frames' = [frames EXCEPT
       ![1].then = outputs,
       ![1].scope = (frame.args \cap Locals) \cup AssignedIn(Block(pc), "else"),
       ![1].bound = frame.args \cap Locals]
  /\ outputs' = Outside(frame)
  /\ leaked' = (leaked \/ \E a \in Attrs :
                             GetAttr(outputs', a) # GetAttr(frame.outer, a))
  /\ live' = frame.live \ frame.holds
  /\ UNCHANGED <<source, inputs, ignored>>

(* Each branch returns what it made of those, and they are set to Switch   *)
(* nodes over the two.                                                     *)
Merged(frame) ==
  [a \in Range(Targets(frame)) |->
     Switch(frame.cond, GetAttr(frame.then, a), GetAttr(outputs, a))]

PlotEndIf ==
  LET frame == Head(frames)
      attrs == Targets(frame)
  IN
  /\ Plot("endif")
  /\ outputs' = SetAll(Outside(frame), attrs, Merged(frame))
  /\ inputs' = inputs \cup Retrieved(frame.then, Range(attrs))
                      \cup Retrieved(outputs, Range(attrs))
  /\ frames' = IF Len(frames) = 1 THEN <<>>
               ELSE [Tail(frames) EXCEPT
                       ![1].nested = @ \o Without(attrs, Range(@)),
                       ![1].bound = @ \cup (Range(attrs) \cap Locals)]
  /\ live' = frame.live
  /\ UNCHANGED <<source, flaws>>

(* Plotter.graph collects the outputs in order.                            *)
Graph ==
  /\ phase = "plot"
  /\ pc > Len(prog)
  /\ phase' = "run"
  /\ UNCHANGED <<words, prog, open, pc, python, recorded, engine, flaws>>

(* runGraph, one mutateOp: the next output is evaluated against the        *)
(* attributes as they are now, and stored.                                 *)
Mutate ==
  LET a == outputs.order[ran + 1] IN
  /\ phase = "run"
  /\ ran < Len(outputs.order)
  /\ store' = [s \in Snapshots |->
                 [store[s] EXCEPT ![a] = outputs.defs[a].value[store[s]]]]
  /\ ran' = ran + 1
  /\ UNCHANGED <<phase, words, prog, open, pc, python, recorded, flaws>>

Next ==
  \/ \E a \in words.vars, expr \in words.exprs : WriteAssign(a, expr)
  \/ \E a \in words.vars, v \in TestVals : WriteIf(a, v)
  \/ WriteElse
  \/ WriteEndIf
  \/ Compile
  \/ PlotAssign
  \/ PlotIf
  \/ PlotElse
  \/ PlotEndIf
  \/ PlotRaises
  \/ Graph
  \/ Mutate

Spec == Init /\ [][Next]_vars

-----------------------------------------------------------------------------
(* An OrderedDict lists each of its keys once.                             *)
OutputsOK(outs) ==
  /\ Locals \subseteq Recorded(outs) /\ Recorded(outs) \subseteq Vars
  /\ outs.defs \in [Recorded(outs) -> Node]
  /\ Range(outs.order) = Recorded(outs) \ Locals
  /\ \A i, k \in DOMAIN outs.order : outs.order[i] = outs.order[k] => i = k

(***************************************************************************)
(* The shape of the state.                                                 *)
(***************************************************************************)
TypeOK ==
  /\ phase \in {"write", "plot", "run", "raised"}
  /\ words \in Vocabularies
  /\ pc \in 1 .. Len(prog) + 1
  /\ \A i \in DOMAIN prog :
       /\ prog[i].kind \in {"assign", "if", "else", "endif"}
       /\ Blocks(i) \subseteq 1 .. i /\ Len(prog[i].within) <= MaxDepth
  /\ source \in [Snapshots -> [Vars -> Vals]] /\ store \in [Snapshots -> Snapshots]
  /\ live \subseteq Snapshots
  /\ OutputsOK(outputs)
  /\ inputs \subseteq Attrs
  /\ \A i \in DOMAIN frames :
       /\ frames[i].cond \subseteq Snapshots
       /\ frames[i].holds \subseteq frames[i].live /\ frames[i].live \subseteq Snapshots
       /\ frames[i].args \subseteq Range(words.base)
       /\ OutputsOK(frames[i].outer) /\ OutputsOK(frames[i].then)
       /\ frames[i].own \in Seq(Vars) /\ frames[i].nested \in Seq(Vars)
       /\ frames[i].bound \subseteq frames[i].scope /\ frames[i].scope \subseteq Locals
  /\ Len(frames) <= MaxDepth
  /\ ran \in 0 .. Len(outputs.order)
  /\ ignored \in BOOLEAN /\ leaked \in BOOLEAN

(* What the SDK has recorded of the code is what Python, where it gets to  *)
(* the code, made of the attributes.                                       *)
RecordingSound ==
  \A s \in live, a \in Vars : GetAttr(outputs, a).value[s] = source[s][a]

(***************************************************************************)
(* Recording is sound as long as no assignment was wrongly ignored and no  *)
(* branch saw what the other one had set: reading a variable gives what    *)
(* it was set to ("return that definition to preserve the graph already    *)
(* built", sdk/bento/ecs/graph.py:231-232), and a conditional becomes a    *)
(* choice between what its two branches make of each attribute             *)
(* (transforms.py:90-271).                                                 *)
(***************************************************************************)
SoundUnlessFlawed == ~ignored /\ ~leaked => RecordingSound

(***************************************************************************)
(* "deepcopy() is used to ensure that variables in different branches      *)
(* don't interfere with each other" (transforms.py:151-153).  It fails: a  *)
(* variable whose attributes are only assigned in the conditional is not   *)
(* among the copied ones (analyzers.py:447-452).                           *)
(***************************************************************************)
SoundUnlessIgnored == ~ignored => RecordingSound

(***************************************************************************)
(* What set_attr ignores are "attribute self assignments (ie               *)
(* component.attr = component.attr)" (graph.py:249).  It fails: an         *)
(* attribute that is set back to what it was is taken for one.             *)
(***************************************************************************)
SoundUnlessLeaked == ~leaked => RecordingSound

(***************************************************************************)
(* "Defining a symbol inside the if statement requires that means that     *)
(* that symbol has be defined in all conditional branches"                 *)
(* (transforms.py:147-148).  That is enough: if all branches assign the    *)
(* same locals, every copy and every result they pass on is there to read, *)
(* and a function that assigns in all its conditionals compiles.           *)
(***************************************************************************)
DefinedNeverRaises ==
  phase = "raised" =>
    \E k \in DOMAIN prog :
      /\ prog[k].kind = "if"
      /\ \/ AssignedIn(k, "if") # AssignedIn(k, "else")
         \/ ~\E i \in DOMAIN prog : Assigns(i, k, "if") \/ Assigns(i, k, "else")

(* The value of a node does not depend on an attribute.                    *)
Ignores(node, a) ==
  \A s \in Snapshots, v \in Vals : node.value[[s EXCEPT ![a] = v]] = node.value[s]

(***************************************************************************)
(* Every attribute that a recorded node depends on is an input of the      *)
(* graph, whichever branch it was read in (graph.py:273-282, "don't        *)
(* deepcopy inputs as collected globally for the entire graph").           *)
(***************************************************************************)
InputsComplete ==
  \A a \in Recorded(outputs) : \A b \in Attrs \ inputs : Ignores(outputs.defs[a], b)

EngineDone == phase = "run" /\ ran = Len(outputs.order)

(***************************************************************************)
(* A graph that was recorded soundly does on the engine what the function  *)
(* says.  It fails: the engine runs the outputs in place, one after the    *)
(* other (graphInterpreter.cpp:79-86), while each of them is recorded in   *)
(* terms of the attributes before the function.                            *)
(***************************************************************************)
EngineAgrees ==
  ~ignored /\ ~leaked /\ EngineDone =>
    \A s \in Snapshots, a \in Attrs : store[s][a] = source[s][a]

(* No output depends on an attribute that an output before it sets.        *)
Independent ==
  \A k \in DOMAIN outputs.order : \A i \in 1 .. k - 1 :
    Ignores(outputs.defs[outputs.order[k]], outputs.order[i])

(***************************************************************************)
(* It does if no output depends on what an earlier one sets.               *)
(***************************************************************************)
EngineAgreesIfIndependent == Independent => EngineAgrees

(* An attribute is set to what another variable holds before anything else *)
(* is assigned to it, so that nothing set back to itself is ignored.       *)
CopiedFirst ==
  \A a \in Attrs : \A i, d \in Assignments(a) : prog[i].expr.op = "var" => i <= d

(* What an if branch sets belongs to a variable of which the conditional   *)
(* reads something that was assigned before it, so that it is copied.      *)
BranchesApart ==
  \A k, i \in DOMAIN prog :
    Assigns(i, k, "if") /\ prog[i].attr \in Attrs =>
      \E b \in Attrs :
        /\ words.base[b] = words.base[prog[i].attr]
        /\ \E d \in Assignments(b) : d < k
        /\ \E j \in DOMAIN prog : k \in Blocks(j) /\ b \in Reads(prog[j])

(* An attribute that the function sets decides about nothing else that it  *)
(* sets, be it in an assignment or in the test of a conditional.           *)
DecidesItself ==
  \A i, d \in DOMAIN prog : \A a \in Reads(prog[i]) \cap Attrs :
    Assignments(a) # {} /\ prog[d].kind = "assign" /\ (d = i \/ i \in Blocks(d))
      => prog[d].attr = a

SafelyWritten == CopiedFirst /\ BranchesApart /\ DecidesItself

(***************************************************************************)
(* From the function to the engine: what is written like this, and         *)
(* compiles, does on every step of the engine what Python makes of it.     *)
(* The three flaws of the way there (transforms.py:151-153, graph.py:249,  *)
(* graphInterpreter.cpp:79-86) need a function that is not.                *)
(***************************************************************************)
SafelyWrittenAgrees ==
  EngineDone /\ SafelyWritten =>
    \A s \in Snapshots, a \in Attrs : store[s][a] = source[s][a]
=============================================================================
