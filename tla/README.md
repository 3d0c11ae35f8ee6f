# Verification of bento-box

bento-box turns Python functions into computation graphs (`sdk/bento`) and runs
the graphs in a C++ engine (`sim/`) that it talks to over gRPC
(`protos/bento/protos`).  This directory holds TLA+ models of the parts whose
logic is worth checking, TLC configurations that check them on small instances,
and TLAPS proofs of what was worth proving for every instance.

Paths below are relative to the repository.

## The system

| Component | Where | State it keeps | Operations | What makes it correct |
|---|---|---|---|---|
| component vector | `sim/lib/core/.../compVec.h` | slots, a map from ids to slots, a queue of free slots, the last id | `add`, `remove`, `at`, `size` | slots are neither shared nor lost; an id names one component until it is removed and nothing afterwards |
| component store | `componentStore.{h,cpp}` | a vector per component group | typed access, `asCompSet` | lists exactly what is stored |
| indexes | `sim/{include,src}/index` | handles per entity, group per type name | `addEntityId`, `addComponent`, filters | agree with the store |
| simulation constructor | `sim/include/simulation.h`, `ics.cpp` | the definition with ids filled in, store and indexes | the constructor, `getComponent` | ids identify; each lookup finds its own component |
| engine service | `sim/src/service/engineService.cpp` | a map from names to simulations, shared by all handlers | `Apply`, `Get`, `List`, `Drop`, `StepSimulation`, `Get`/`SetAttribute` | each call acts at one moment on one simulation; a started simulation is never replaced |
| graph interpreter | `sim/src/interpreter` | none of its own | `evaluateNode`, `mutateOp`, `runGraph` | runs a graph as the function it was recorded from says |
| user values | `userComponent.cpp`, `userValue.{h,cpp}` | typed values by attribute name | `setValue`, `getMutableValue` | values have the type of the schema |
| recording shims | `sdk/bento/ecs/graph.py`, `graph/plotter.py` | inputs and outputs of the graph being recorded | `get_attr`, `set_attr`, `switch`, `graph` | what is recorded is what the function does |
| compiler | `sdk/bento/graph/{compile,analyzers,transforms}.py` | the annotated syntax tree | analysis, rewriting of conditionals, tracing | branches do not interfere |
| Simulation, Client | `sdk/bento/{sim,client}.py`, `ecs/grpc.py` | `started`, system ids, entity map | `start`, `stop`, `step`, `system`, attribute access | follows what the engine holds, whatever calls fail, lose their answer or go on after they were given up |
| server and main program | `sim/src/main.cpp`, `network/grpcServer.*`, `windowContext.cpp`, `graphicsContext.cpp` | window, OpenGL context, stores, service, server | construction, main loop, destruction | nothing is used before it is made or after it is destroyed; the process ends |
| not of interest here | `render()`, built-in components, specs, protocol files, deployment | | | |

How they interact: the SDK compiles each system function once, by calling the
rewritten function with shims that record; it applies the definition to the
engine, whose handler constructs a `Simulation` (constructor, indexes, store,
vectors) and runs the init graph; every step runs the system graphs against the
store.  Handlers run on gRPC's thread pool and share the map of simulations
with no lock, while the main thread draws frames and in the end shuts the server
down.  Nothing is persisted: an engine that restarts has lost its simulations,
and objects of the SDK that were started before still believe in theirs.

What is hard to test: interleavings of handlers; references used after the
simulation they refer to was dropped or replaced; the reuse of slots over long
sequences of calls; ids at the end of 32 bits; a graph that fails half way; the
order in which outputs are stored while later ones still read; branches of a
conditional that are traced one after the other over shared state; answers that are lost,
calls that nobody waits for any more and that act all the same, and engines that
restart; handlers that are under way
when the process ends.  `PROJECT.json` lists each at its line with
the properties that cover it.

## The modules

| Module | Models | Notes |
|---|---|---|
| `CompTable` | what a component vector promises | abstract: a table from ids to components |
| `CompVec` | `compVec.h`, `asCompSet` | one action per method; `Write` is `at` and an assignment through it |
| `CompVecProofs` | | theorems about `CompVec`, for every instance |
| `Simulation` | constructor of `Simulation`, indexes, `getComponent` | one action per iteration of the constructor's loops; `MCSimulation` lists definitions |
| `SimulationProofs` | | theorems about `Simulation`, for every instance |
| `GraphRun` | `runGraph` as the service sees it | outputs that copy, add or set, each able to fail |
| `EngineRegistry` | what the service promises | abstract: each request takes effect in one step, between the call and its reply |
| `EngineService` | `engineService.cpp` | a step per access to shared state; `MCEngineService` gives clients their requests |
| `EngineServiceProofs` | | theorems about `EngineService`, for any number of clients |
| `EngineRegistryProofs` | | `EngineService` implements `EngineRegistry` for clients with simulations of their own |
| `UserComponent` | `userComponent.cpp`, `userValue.{h,cpp}`, all operations of `operations.cpp` | the values of one component; `MCUserComponent` gives schemas and nodes |
| `UserComponentProofs` | | theorems about `UserComponent`, for every instance |
| `GraphSemantics` | SDK compiler, shims and interpreter | a function is written, recorded and run; `MCGraphSemantics` gives the expressions |
| `GraphSemanticsProofs` | | theorems about `GraphSemantics`, for functions of any length and depth |
| `SdkSimulation` | `sdk/bento/sim.py`, the calls of `client.py`, and the engine as they see it | objects of the SDK, the calls they are blocked in, those given up, and what the engine holds; `MCSdkSimulation` gives entities |
| `SdkSimulationProofs` | | theorems about `SdkSimulation`, for every instance |
| `Program` | `main.cpp`, `grpcServer.{h,cpp}`, the two contexts | the main thread, from its first constructor to its last destructor, and the calls that run meanwhile; `MCProgram` gives the drivers |
| `ProgramProofs` | | theorems about `Program`, for every instance |

`EngineService` and `EngineRegistry` build on `GraphRun`; `Simulation` takes
from `CompVecProofs` that a vector from which nothing is removed is a sequence.
`SdkSimulation` has the handlers of `EngineService` again, in the parts between
which a call that was given up can come, and takes from `Simulation` how unset ids
are numbered; `Program` takes from `AnsweredUnlessCrashed` that handlers end.
In each module the variables carry the names of the members they model, and
definitions those of the methods.  `Bug...` definitions are mutated forms of
the definition they precede, one for each property, that are not part of any
specification: swapped in for the original, the property must fail.

**CompVec.** `lastId`, `idToIndex`, `inactiveCompIdx` and `vec` are the members
at `compVec.h:24-32`; slots count from 1.  A call that throws changes nothing
and is no step.

**Simulation.** `entityIds` and `systemIds` are the ids in `simDef` as they are
filled in; everything else of the definition stays what the client sent
(`request`).  `NextEntity` takes up the next entity and generates an id if it
has none (including the second attempt when 0 comes out), `AddComponent` creates
one component and files it in store and indexes, `SetSystemIds` numbers the
systems.  The loop over system ids has no interleaving inside and is one action.
`created` is a history variable: the handle made for each place.

**EngineService.** `pc[c]` is where the handler that serves client `c` is.  The
steps are: the look at the map; the assignment to it or erasure from it; taking
references; setting `locked`; and each evaluation and each store of the graphs
that run.  `sims.at(name)` is called up to three times in a row by some
handlers to take their references and is one step here.  A reference is
modelled by the `gen` of the object it was taken from; when the map holds
another object, or none, a step through it is undefined behaviour, and
`UseDestroyed` lets it crash, return anything or do nothing.  `ApplySimulation`
looks at the map twice before it assigns (`CheckHeld`, `CheckUnlocked`) and again
by name after that; where the name is gone by then it dereferences an empty entry
(`NullDereference`).  That the constructor throws, for lack of memory, is left
out: nothing changes then and the answer is `INTERNAL`.

Operations of the hash table are atomic in the model.  In the code nothing makes
them so, and all clients share the table, those that keep to a name of their own
too: two handlers that insert or erase at the same time race on it whatever names
they are for, and may corrupt it.  All that is said of the service, of clients
with simulations of their own included, is of executions in which no two
operations of the table overlap.  This is a limit of the model, and a defect of
the code that it does not show.

**EngineRegistry.** The abstract service keeps the request of each client (`call`)
and whether it has taken effect, with what it will be answered (`settled`).  An
operation is enabled only for a client that waits on that request and whose call
has not taken effect (`Pending`), acts on the simulation the request names with
the definition, attribute or value in it, and is done once: `Reply` gives what was
settled and nothing else.  A handler that did another operation, acted on another
name, or ran the systems twice would not refine it; the mutant of
`ImplementsRegistry` does the last.

**GraphSemantics.** All that happens is a function of the attributes before the
function runs, so the state holds, for every such snapshot, what Python makes
of the attributes (`source`), what the recorded nodes evaluate to (`outputs`),
and what the engine ends up with (`store`).  Functions are written by the
actions themselves, statement by statement, so that all functions up to a bound
are checked.  A node is abstracted to its meaning and to the one syntactic fact
the SDK looks at, whether it is a plain retrieve.  Conditionals go through
the analysis (`BaseInSyms` decides which variables the branches get copies of),
are traced branch by branch and merged with `Switch`.  A ternary is a block of
its own for the analysis and a `Switch` at once.  `x += 1` is the assignment
`x = x + 1`, as in `preprocessors.py`.  Local variables are set to 0 where the
function starts.  Each branch of a conditional becomes a nested Python function,
so that a local it assigns is a new one (`AssignedIn`): a frame of `frames` keeps
the locals that belong to the function being traced (`scope`) and those that have
a value by now (`bound`).  Where a local without a value would be read, or a
conditional assigns nothing, tracing raises and compilation ends (`PlotRaises`).

**UserComponent.** A value carries its type twice, as in the message: the data
type it declares and the field that is set (`kind`), which a client may make
differ.  `Mutate` is `mutateOp`: evaluate, then `setValue`.  `Evaluate` models
every operation of `operations.cpp`: the kinds it runs on (`Allowed`, with the
dispatch of equality on its first operand), the type and the value of its
result, and `switch` with the branch it does not evaluate.  Its operands are
constants or attributes: the value of a nested node acts as a constant would.
Operations and conversions have sets of outcomes.  Integers wrap, as they do in
the build.  Floats are the small whole numbers they represent exactly and
`Other`; what an operation makes of `Other`, or a function of the C library of
anything, is any value of its type, and a conversion of a float out of range to
an integer, which is undefined, any integer.  Functions of the C library have a
floating-point result for an integer, and which overloads of theirs a build sees
depends on its headers, so `UnaryTypes` and `PowTypes` give both.  `setValue` and
`getMutableValue` leave an empty entry when they throw; both treat it like none,
and the model does not tell them apart.  A division that has no result traps and
ends the engine.

**SdkSimulation.** `object[o]` has the fields of a `Simulation`: `started`, the
systems with the ids copied back by `start()`, the entities with theirs, and
`built`, whether `__init__` has returned.  Objects have names of their own, as
`sim.py:58-59` asks, and stand for them.  A method blocks in one call: it is sent
(`Start`, `Stop`, ...), handled by the engine and its answer returns
(`StartReturns`, ...), and at any time before that the connection may break
(`GiveUp`), which raises and leaves the caller not knowing.  Calls are not repeated
by the client.

A call that is given up goes on.  It has no deadline, is not cancelled, and the
handlers never look at their context, so `GiveUp` moves it from the object to one
of its strays, where it is handled as before, or comes in only then, next to the
calls the object makes afterwards; `Lose` is for one that never arrives.  A handler
therefore has the parts that matter when two of them meet: an apply looks
(`Check`), assigns (`Replace`) and runs its init graph and answers
(`FinishApply`), a step takes its references (`Bind`), locks what the name has by
then (`Lock`) and runs the systems (`FinishStep`), a drop looks (`Found`) and
erases (`Erase`).  Replacing or erasing a simulation destroys it under the
handlers that refer to it (`intact`), and what they do afterwards is undefined:
an answer of either kind or the end of the engine.

An apply may answer `INTERNAL` after it registered the simulation, as an init graph
that fails does, and a step after it ran some systems.  `Restart` empties the
engine; `Construct` may take the place of an existing object, as when the client's
process is restarted.  The answer to an apply carries the definition as it was
applied, from which the object copies its ids when it returns; unset ids are
numbered as the constructor does it, without its wrap-around.  The answer to a step
carries the systems that were run, which is history, as are a simulation's `steps`
and `stray` (an apply that was given up put it there) and `excused`, `okSteps` and
`raisedSteps`.

What strays do in the code is not all good, and the properties say how far it
goes.  A late `stop()` drops a simulation that was stopped and started again since,
and a late apply, the constructor's for instance, that looked before a start and
assigns after it leaves the name with a definition without systems, of which steps
then return without running any.  So `StartedIsRegistered` excuses an object since
whose simulation was put there the engine restarted or carried out a `stop()` it
has no answer of, and promises its systems unless what is there was put by a
stray; the next `start()` that returns makes both good again.  `StepRanCommitted`
and `StepsAtMostOnce` need no excuse for lost answers, restarts or late stops, and
make an exception for simulations put there by a stray.  A late `step()` cannot be
told from one that raised, and `StepsAtMostOnce` counts it so, also across the
start of a new simulation.  Without these exceptions the run finds the
counterexamples.

**Program.** `at` is how far `main` is, one value for every statement that makes,
uses or destroys something; `constructed` what exists.  A constructor that
throws aborts the process, as nothing is caught in `main`: no destructor runs.
`called` are the OpenGL functions the last step called and `bound` those that
glad found for the version of the context.  The server takes calls from
`BuildAndStart` on, which is inside its constructor; `Shutdown` turns calls away
and `DestroyServer` waits for those that run.  A call is a handler, which ends
by itself, or a stream of the reflection service, which its client ends.

## What the runs check

`PROJECT.json` gives each run's module and configuration.

| Run | Bounds | Result |
|---|---|---|
| `comp_vec` | 2 data values, 4 additions, any removals and writes | slots stay partitioned, stale ids stay dead, `CompTable` is implemented; `asCompSet` is exact until the first removal |
| `simulation` | ids modulo 7; every definition with up to 2 entities and 4 component lists, with 3 entities of one component, or with up to 4 systems | ids identify given room above the configured ones; lookups find their own component; groups hold one type |
| `engine_own_sims` | 2 clients with a simulation each; 3 definitions of which one fails to start and one fails in its second system; 2 attributes, 2 values | each call takes its own effect, once, on the simulation it names; references and locks are kept |
| `engine_shared_sim` | 2 clients on one simulation | every call is answered unless the engine crashes; each step of a handler brings its end closer, and no other handler's step sets it back |
| `engine_replaced` | same | violated: a started simulation is replaced |
| `graph_semantics` | every function of up to 4 assignments and conditionals, nested up to 2 deep, 2 values, in three vocabularies: 2 attributes of one component; 2 attributes of two components, each in a variable; an attribute and a local with ternaries | recording is sound apart from the next two flaws; a function compiles if every conditional assigns something, and the same locals in both branches; all inputs are found; the engine agrees with Python if no output reads what an earlier one sets, and on every function that is safely written |
| `graph_in_place` | up to 3 statements | violated: outputs run in place |
| `graph_self_assign` | up to 3 statements | violated: setting an attribute back is ignored |
| `graph_branches` | up to 3 statements | violated: the else branch sees what the if branch set |
| `user_component` | two attributes of any two types and one not in the schema; integers of 2 and 4 bits, floats exact up to 1 and 3; 11 constants, some malformed; all operations | values keep the types of the schema; a graph whose types fit does not throw |
| `sdk_simulation` | an object with 2 lists of entities, up to 2 systems and 2 steps per simulation; any number of calls given up, of which 2 at a time are still under way; 1 restart | an object that says it is started is, with its systems; steps run them, and happen once; lookups agree with the engine; all of it as far as late calls allow |
| `program` | 3 calls at a time, drivers of versions 1.0, 2.1, 3.3 and 4.6 | handlers always have their service, OpenGL its context and functions; a closed window ends the process |

Why the bounds are enough.  Four additions let a slot be freed, used again,
freed and used again while another component is in use.  Ids modulo 7 leave room
for configured ids below, at and above the generated ones and for all three
entities to wrap.  Two clients are the least that interleave, and every handler
touches at most one simulation; a third client could only add another dropped or
replaced simulation, which `gen` does not tell apart.  The flaws of the graph
compiler show with two or three statements, and four allow a conditional in a
conditional with assignments around it, and a safely written function that sets
the same attribute before a conditional and in both branches.  Two attributes
allow a value to travel and to be read after it moved, two components let a
branch have a copy of one and share the other, and whether a local can be read
does not depend on other locals; the arithmetic wraps, which keeps values few
and still tells one addition from two, as one and two additions modulo 2 differ.
The widths make each integer type hold numbers that the float type of its size
does not represent, and each pair of types convert in both directions with and
without loss; operations relate at most two attributes.  Two strays let a late call
meet another late one and the object's own, each in any part of its handler, and a
restart may come in between; two steps let one return while another comes late, and
two systems let one be committed and one not.  An object has nothing to do with
others, as `SdkSimulationProofs` shows (`Frame`).  Three calls let one run, one
arrive and one end while the server shuts down; main is one thread and its steps
do not depend on how many calls there are.

Deadlock is checked where the system goes on for ever (`engine_own_sims`,
`sdk_simulation`) and in `program`, where only a process that has ended or
aborted may stay as it is (`Ended`).  It is not checked elsewhere: the
constructor and a function end, additions run out, and a crashed engine stays
down, after a trap too.

Fairness.  `engine_shared_sim` and `engine_replaced` use `FairSpec`: weak
fairness of each client's handler, because a gRPC thread that has started on a
call is scheduled until it returns, no handler waits for another, and nothing
makes a client call.  `Program` has weak fairness of `Main`, a thread that is
scheduled and waits for nothing but `Shutdown()`, and of the `Return` of each
handler.  Nothing makes the user close the window, calls arrive or a client end
its stream, so `ClosedThenExits` assumes that streams end at last; without that
assumption `Shutdown()`, which has no deadline, may wait for ever.

## What the violated runs say about the code

1. **A started simulation can be replaced** (`engineService.cpp:38-45`) by an
   `ApplySimulation` that checked before the step began.
2. **Outputs run in place** (`graphInterpreter.cpp:83`): `P.x = P.x + 1;
   V.y = P.x` gives `V.y` the increment twice.
3. **Setting back is ignored** (`ecs/graph.py:250`): after `x = y; y = 5; y = x`
   the attribute `y` stays 5.
4. **Branches interfere** (`analyzers.py:447`): in `if c: car.x = 1` `else:
   car.x = car.x + 2` the else branch records 1 + 2.

More was seen while modelling and has no run of its own, because it is one line
of code read against one line of text:

- Generated entity ids wrap around onto configured ones when the largest 32-bit
  id is configured (`entityIndex.h:49`); `EntityIdsIdentify` assumes room above.
- Attributes with an array type refuse arrays and take primitives unchecked
  (`userComponent.cpp:36-50`): `valHasCorrectDataType` throws for every array
  before the branch for arrays is reached.
- After a removal `asCompSet` lists an id that names nothing
  (`componentStore.cpp:10`); the engine never removes, and the TODO at line 8
  knows.
- Integer division drops the fraction (`operations.cpp:93`), where
  `graphInterpreter.test.cpp:172` says "floored" and tries positive operands.
- With `BENTOBOX_SIM_PORT=0` the server listens on a free port and `address()`
  still reports `:0` (`grpcServer.h:54-55`).
- A system registered after `start()` runs after the next `start()` only, where
  `sim.py:230` says systems run every step; the init graph runs when the
  definition is applied, where `sim.py:210` says on the first step.
- After a stop whose answer was lost, or a restart of the engine, an object says
  it is started and both `step()` and `stop()` raise: there is no way back but a
  new object.  A client that restarts while its simulation has been stepped
  cannot construct it again: the constructor's apply gets `ALREADY_EXISTS`.
- A call of an object whose answer was lost runs on in the engine, which is told
  of no deadline (`client.py:158-172`), and may take effect after later calls: a
  late stop drops the simulation that was started since.
- Of entities with the same set of components all but one cannot be looked up
  (`sim.py:87`).
- A conditional that assigns nothing does not compile (`zip(None, None)`), nor
  does one within a branch that assigns a local, already set before, in one of
  its branches only; outside of a branch the latter does.
- Nothing in `main` catches, so a failing constructor aborts without unwinding.

## What is proved

`CompVecProofs` proves the properties of the component vector for every set of
data and every `MaxId \in Nat`, its only assumption.

- `TypeOK` alone is not inductive: a queue that offers a slot in use would let
  `Add` overwrite a component, and one that offers a slot twice would let two
  ids share it.  The inductive invariant is `IInv == TypeOK /\
  SlotsPartitioned`, and theorem `IInvInvariant` establishes it from one lemma
  per action (`AddPreservesIInv`, `RemovePreservesIInv`, `WritePreservesIInv`).
  The two cases of `addToVec` are described once, by what they do to the slot
  taken and to the others (`ReuseSlotEffect` and its companion).
- `TypeCorrect` and `SlotsStayPartitioned` are its two halves.
- `StaleIdsNeverRevived` follows because ids in use are at most `lastId`, and
  `Add` takes the next.
- `AsCompSetExact`: the ids in use are among `1 .. lastId`, so if there are
  `lastId` of them they are all of these.
- `Refinement`: initial states map to initial states and each action of the
  vector to the action of the same name of `CompTable`.  That a write or an
  added component changes one entry of the table only is where the partition
  of the slots is needed.

`UserComponentProofs` proves the properties of a component's values for integers
of any width, floats of any precision and all schemas and graphs.  It assumes
that the lowest integers are negative, that the float bounds are natural
numbers, that `Other` is no integer, and that schemas and nodes have their shape.

- The arithmetic comes first: wrapping stays in range (`WrapInRange`), a quotient
  stays in range unless it traps and a remainder does (`QuotientBounds`), and a
  conversion has a result, of the type it converts to (`ConvertTyped`).
- `ApplyTyped`: an operation on kinds it runs on traps or has a value of the type
  that the kinds of its operands promise.
- `IInv == TypeOK /\ StoredAsDeclared` is inductive (`IInvInvariant`) since
  `StoredTyped` shows that `setValue` stores a value of the type of the schema,
  or anything in an attribute with an array type.  `TypeCorrect` and
  `ValuesAsDeclared` are its halves.
- `TypeSoundness`: in a state with `IInv` the leaves of a node have their static
  types, so the operation runs on their kinds and its value is of a type that
  may be assigned (`EvaluateTyped`), which `setValue` stores
  (`AssignableStored`).

- The exceptions it states are the code's: integer division and modulo may trap,
  and `arcSin` and `arcCos` throw outside of their domain.

`SimulationProofs` proves the properties of the constructor for every set of
definitions (`SimDefsAssumption`) and every width of an id (`IdModAssumption`:
there is an id that is not 0).

- The inductive invariant has a part per subject.  `Shape`: where the loops are.
  `Grouped`: groups are numbered below the number of types, so that a new type
  gets a group of its own.  `Identified`: ids of the entities so far are
  `Filled` in, and where configured ids are distinct and leave room above them,
  generation stays above all ids in use with `Room` for the entities to come, so
  ids stay `Distinct`.  `Placed`: a component's handle names it in the store
  (`Created`), and the entity index has the handles of an entity under its id
  and nothing under the ids of entities to come (`Indexed`).
- Each part has a lemma for each action; `Preserved` combines them.  The loop
  over system ids is one step; `SystemIdsIdentify` holds after it because each
  generated id exceeds the largest by the number of unset ids up to it.
- `LookupIsExact` needs all of it: a lookup intersects what the store has of a
  type with what the index has of an entity, and `Indexed` is only as good as
  ids are distinct.

`EngineServiceProofs` proves `TypeOK` and `HandlersAdvance` for any clients,
`ReferencesIntact` for any number of clients under `OwnSimulations`: no two
clients name the same simulation, and `LockedNeverReplaced` already under
`SoleDriver`: a definition is applied only by the client that also steps the
simulation, while any client may drop it, read it and set its attributes.
`engine_replaced` shows that `LockedNeverReplaced` fails without it, when one
client applies while another steps.  Its assumptions are that there are finitely
many clients and names (`FiniteAssumption`), that definitions and requests have their
shape (`SimDefsAssumption`, `CallsAssumption`) and that no request is `NoCall`
(`NoCallAssumption`).

- `TypeCorrect` has to show that there is always an object to make a new
  simulation of: the map holds at most one for each name and each handler refers
  to at most one (`UnusedGenIsUnused`).  It covers shared simulations, and what
  undefined steps may leave.
- `ReferencesIntact` goes by rely and guarantee: `Good(c)` is what the handler of
  `c` knows, from the references it holds to the lock it has checked; `Frame(d)`
  what a step of another handler leaves alone.  `OthersStayGood` shows that
  `Frame(d)` keeps `Good(c)`, and a lemma per action that its handler keeps its
  own `Good` and the frame (`Keeps`).
- `SoleDriverLockedNeverReplaced` does not need the references: between the check
  of the lock and the assignment of an apply, only a step by the same client could
  lock a simulation of that name (`Unstarted`), and a client has one call at a
  time.  Undefined steps are included, and so are crashes.
- `EveryHandlerAdvances` is the part of liveness that can be proved: with each step
  a handler is in a later part of its call (`Parts`), or in the last with less left
  to run (`Left`), and no step of another handler changes either (`HandlerGoes`).
  `AnsweredUnlessCrashed` checks what follows if handlers are scheduled.

`EngineRegistryProofs` proves that the service implements the registry
(`ImplementsRegistry`) under `OwnSimulations`, for graphs of any length.  The
registry keeps the request of each client until its reply, so this says that each
call takes its own effect, once, on the simulation it names, and is answered
accordingly.

- The recursion of `RunGraph` is unfolded first, by way of a least
  counterexample: running a graph is running its first output and then the rest
  (`RunFirst`), and nothing follows a failure (`RunFailed`).
- `Knows(c)` adds to `Good(c)` what the handler has left to run and the value it
  has computed and not stored yet.
- `SettledSims` and `SettledReply` say what simulations and answers will be once
  the handlers that run graphs are done.  `OthersSettled` and `ElsewhereSettled`
  show that a handler's step changes neither for others.  A step that runs part
  of a graph changes nothing that is settled (`RunningStep`); one that only
  looks answers or goes on (`QuietStep`); and the one that begins to run is the
  call's step of the registry (`TakesEffect`, in `ReplaceStep`, `LockStep` and
  `BindSetStep`).  A call is pending in the registry exactly until then
  (`RegistryPending`): from then on its answer is settled (`OneAnswers`), and what
  is left of the handler can only give that answer.
- That no reference is lost on the way is what rules out undefined steps and
  exceptions of `sims.at` (`NoUndefinedStep`, `NothingThrows`).

`GraphSemanticsProofs` proves all properties of `GraphSemantics` that hold, for
functions of any length, nested to any depth, over any attributes, locals,
vocabularies and number of values.  It assumes that locals are not attributes,
that `NoAttr` is neither, that a vocabulary has its shape and locals are their own
base variables (`VocabulariesAssumption`), that there is a value, that what is
compared with is one and that the bounds are natural numbers.  `Retrieved`,
`Switch` and the like are used by what they do to a value (`SwitchGets`,
`SetAllGets`, `OutsideGets`), sequences of attributes by what `Without` keeps
(`WithoutKeeps`), and each action that plots a statement is described once, field
by field (`AssignStep`, `IfStep`, `ElseStep`, `EndIfStep`).

- `RecordingSound` is not inductive: at the end of a conditional it says nothing of
  the branch that is not being traced, and nothing of what was recorded before.
  The invariant `IInv` has a part per subject, each with its own lemma for a step.
- `Written`: the branches open before a statement are those the statement before
  left open, inner conditionals began after the outer ones, and a branch that was
  left is not entered again.
- `Shape`: outputs are `Sane`, that is, each is listed once and `Clean`: it depends
  on inputs only, and a plain node is what retrieving its attribute gives.
  `InputsAreComplete` follows from it, and `TypeCorrect` with `Written` and `Scopes`.
- `Untouched`: a conditional has changed nothing but what its branches have set.
  `Lives`: Python gets to the branch being traced from the snapshots that the
  conditions around it select.
- `SoundSoFar`: unless flawed, what is recorded is sound in the branch being
  traced; around it, for what its conditional has not set yet; and in the branch
  that is not being traced, from which it was copied or which was kept (`Sound`).
  With the two before it this makes the `Switch` nodes at the end of a conditional
  sound (`SoundStep`), and `RecordingIsSound` is its first half.
- `Ran`: where outputs are independent of those before them, the engine has stored
  what each says of the attributes before the function, and those to come still
  evaluate to that.  With soundness this is `EngineDoesAgree`.
- `Scopes`: a frame's arguments are those of its conditional; what has been
  assigned in a branch so far is set there, and can be read in it once the
  conditionals within are done; what is set was assigned in all branches around
  (`SetBefore`, `SetWithin`).  If all branches define the same locals, whatever a
  statement reads can then be read (`DefinedCompiles`).

- `Provenance`: what is recorded was assigned before, and what a conditional has
  set was assigned in one of its branches.  `Harmless`: if the function is safely
  written nothing was ignored and nothing leaked, and of each attribute it sets
  the other nodes and conditions are independent, but for tests of itself
  (`SetApart`).

The properties that three runs violate are theorems once the flaw is excluded.
`EngineAgreesIfIndependent` excludes them by what happened: `ignored` and `leaked`
are set only by the steps that `graph_self_assign` and `graph_branches` show, and
`Independent` fails only as in `graph_in_place`.  `SafelyWrittenRuns` excludes them
by how the function is written, which its author can see:

- no attribute is set to a copy of another variable once something was assigned
  to it (`CopiedFirst`);
- each attribute that an if branch sets belongs to a variable of which the
  conditional reads, in its test or a branch, an attribute that was assigned
  before it (`BranchesApart`);
- an attribute the function sets is read only to set itself, or in the test of
  conditionals that set nothing else (`DecidesItself`).

These are sufficient, not necessary: each of the functions the three runs end with
breaks one of them, and other functions that break them are recorded well.

`SdkSimulationProofs` proves all properties of `SdkSimulation` for any number of
objects, entities, systems, steps, strays and restarts.  It assumes that there are
finitely many strays, each of an object (`StraysAssumption`), that configured ids
of entities are distinct (`EntityDefsAssumption`) and that the bound of restarts is
a natural number (`BoundsAssumption`).

- `Staged` says of each call, given up or not, how far it can be: which stages an
  operation has, that it refers to a simulation that is held or destroyed, and that
  an apply carries the entities its object was given, numbered or not.
- `Local(o)` relates the fields of an object and the call it is blocked in
  (`Fields`), both to the simulation the engine has for it, also while an answer is
  on its way (`InMap`, `Present`), and bounds the steps of that simulation.  The
  bounds count the object's own step that the engine has run and that has not
  returned yet (`HasRun`, `Coming`), and the steps that strays may yet bring
  (`Pending`), without which those of `StepsAtMostOnce` are not inductive.
- As above, an action keeps `Good` of its object and leaves alone what that of the
  others depends on (`Frame`, `OthersStayGood`); a restart concerns all of them
  (`RestartKeeps`).  Each part of a handler is treated for the object's own call
  and for a stray (`AnswerKeeps`, `ReplaceKeeps`, `LockKeeps`, `EraseKeeps`); what
  it destroys under the others is `DestroysCalls` and `DestroysStaged`, and that
  giving up a step moves it from `Coming` to `Pending` is `GiveUpSentKeeps`.
- That an entity's id is never numbered over and systems keep their places when
  they are numbered is `NumberedEntities` and `NumberedSystems`, by counting the
  unset ids up to a place; that there is but one way to number entities is
  `IdsAreUnique`, by which any apply of the object, late or not, leaves the ids it
  knows.
- `LookupsAgree` needs that a set of places has a largest (`Largest`), so that
  `EntityMap` is the id of an entity with those components, and that ids are
  distinct, so that it is the only one.

`ProgramProofs` proves `TypeOK`, `HandlersHaveService` and `OpenGLReady` for any
number of calls and any versions of drivers.  Its invariant says for each place
of `main` what exists, whether calls are taken and what glad found; that the
version asked for has every function the program calls is `LoadedForHinted`.

## Only model-checked

Liveness (`AnsweredUnlessCrashed`, `ClosedThenExits`): out of the prover's reach.
Of the former `HandlersAdvance` is proved, which leaves that handlers are scheduled
and that two natural numbers, the first before the second, cannot go down for ever.

## Not modelled

- Several variables for one component in `GraphSemantics`, locals that are first
  set in a conditional, and nodes that throw or draw random numbers.
- Contents of arrays and strings; the values of trigonometric functions, powers
  and random numbers, of which only the type is modelled; the formatting of type
  names for error messages (`valueType.cpp`, `sim/src/userValue.cpp`).
- The specs and values of the SDK (`sdk/bento/spec`, `value.py`): wrappers around
  protocol buffers that keep no state.
- `removeComponent` of the indexes and removal in the store: no caller in the
  engine.
- `render()`, which does nothing, and `loadTexture2D()` and the copies of contexts,
  which have no caller; the built-in components, protocol files, deployment.
- Signals, which end the process at any moment.
- The vendored `stb_image`, `glad` and `khrplatform`, which are 11321 of the
  14279 lines of C and C++ here.  Of glad the loading of the functions the
  program calls is modelled.

## Plan

1. *Done:* component vector; simulation constructor; engine service and its
   abstract registry; graph recording and running, with local variables,
   ternaries and several components; values, their conversion and
   all operations; the SDK's `Simulation` over calls that fail; the process.
2. *Done:* proofs about the component vector with its refinement, the values,
   the constructor, the service and its refinement of the registry, recording,
   compiling and running functions, the objects of the SDK, and the process;
   functions that the engine runs as Python does, by how they are written; what
   handlers that share simulations still keep.
3. `GraphSemantics` with two variables for one component, and its proofs with it.
