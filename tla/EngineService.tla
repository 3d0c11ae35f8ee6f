---------------------------- MODULE EngineService ----------------------------
(***************************************************************************)
(* The handlers of the engine's gRPC service (engineService.cpp) as the    *)
(* server runs them: on a pool of threads, several calls at a time, over   *)
(* the one map of simulations (engineService.h:15), which no lock guards.  *)
(*                                                                         *)
(* A handler is a sequence of steps, one per access to shared state: the   *)
(* look at the map, the assignment or erasure in it, taking references     *)
(* into a simulation, and then each evaluation and each store of the       *)
(* graphs it runs.  An operation of the hash table itself is taken as      *)
(* atomic.  The code does not make it so, and all clients share the table: *)
(* two of them that apply or drop simulations of different names at the    *)
(* same time already race on it.  What is said here, of clients that keep  *)
(* to names of their own too, is of executions where those do not overlap. *)
(*                                                                         *)
(* A handler keeps its references for the rest of the call.  What they     *)
(* refer to is destroyed when the simulation is dropped or replaced; using *)
(* them afterwards is undefined, so such a step may crash the engine, read *)
(* any value, or have no visible effect.                                   *)
(*                                                                         *)
(* A definition Bug<Name> is a mutated form of <Name> that the             *)
(* specification does not use.                                             *)
(***************************************************************************)
EXTENDS GraphRun, FiniteSets, FiniteSetsExt

CONSTANTS
  Clients,    \* each has at most one call in progress
  SimNames,
  SimDefs,    \* the definitions clients apply: attrs, init and systems
  Calls,      \* the requests each client may make
  NoCall

VARIABLES
  sims,       \* the map of simulations; gen tells an object from the next one
  up,         \* the engine has not crashed
  call,       \* the request each client waits on
  pc,         \* where its handler is
  ref,        \* the gen of the simulation the handler has references into
  todo,       \* the outputs its graphs have left to run
  tmp,        \* the value computed for the first of them
  reply       \* the last answer each client got

handlers == <<call, pc, ref, todo, tmp>>
vars == <<sims, up, handlers, reply>>

SimDef == [attrs : SUBSET Attrs, init : Seq(Output), systems : Seq(Seq(Output))]

(* One more object than the handlers can refer to and the map can hold.    *)
Gens == 1 .. Cardinality(SimNames) + Cardinality(Clients) + 1
NoRef == 0

Sim == [gen : Gens, def : SimDef, locked : BOOLEAN, attrs : AttrValues]

(* The requests that clients using these names can make.                   *)
Requests(names) ==
  [op : {"List"}] \cup
  [op : {"Apply"}, name : names, def : SimDefs] \cup
  [op : {"Step", "Drop", "GetSim"}, name : names] \cup
  [op : {"Get"}, name : names, attr : Attrs] \cup
  [op : {"Set"}, name : names, attr : Attrs, val : Vals]

ASSUME FiniteAssumption == IsFiniteSet(Clients) /\ IsFiniteSet(SimNames)
ASSUME SimDefsAssumption == SimDefs \subseteq SimDef
ASSUME CallsAssumption == Calls \in [Clients -> SUBSET Requests(SimNames)]
ASSUME NoCallAssumption == \A c \in Clients : NoCall \notin Calls[c]

Held == DOMAIN sims
Name(c) == call[c].name

Answer(code, body) == [code |-> code, body |-> body]
Done == Answer("OK", <<>>)
Failed(code) == Answer(code, <<>>)
Waiting == Answer("NONE", <<>>)

Init ==
  /\ sims = [name \in {} |-> 0]
  /\ up = TRUE
  /\ call = [c \in Clients |-> NoCall]
  /\ pc = [c \in Clients |-> "idle"]
  /\ ref = [c \in Clients |-> NoRef]
  /\ todo = [c \in Clients |-> <<>>]
  /\ tmp = [c \in Clients |-> Unset]
  /\ reply = [c \in Clients |-> Done]

-----------------------------------------------------------------------------
(* The references of a handler are good while the map holds the object     *)
(* they were taken from.                                                   *)
Intact(c) == Name(c) \in Held /\ sims[Name(c)].gen = ref[c]

(* The handler returns.                                                    *)
Return(c, answer) ==
  /\ reply' = [reply EXCEPT ![c] = answer]
  /\ call' = [call EXCEPT ![c] = NoCall]
  /\ pc' = [pc EXCEPT ![c] = "idle"]
  /\ ref' = [ref EXCEPT ![c] = NoRef]
  /\ todo' = [todo EXCEPT ![c] = <<>>]
  /\ tmp' = [tmp EXCEPT ![c] = Unset]
  /\ UNCHANGED up

Goto(c, label) ==
  /\ pc' = [pc EXCEPT ![c] = label]
  /\ UNCHANGED <<up, call, reply>>

Crash ==
  /\ up' = FALSE
  /\ UNCHANGED <<sims, handlers, reply>>

Call(c, request) ==
  /\ pc[c] = "idle"
  /\ call' = [call EXCEPT ![c] = request]
  /\ pc' = [pc EXCEPT ![c] = "enter"]
  /\ reply' = [reply EXCEPT ![c] = Waiting]
  /\ UNCHANGED <<sims, up, ref, todo, tmp>>

ListSimulation(c) ==
  /\ pc[c] = "enter" /\ call[c].op = "List"
  /\ Return(c, Answer("OK", <<"names", Held>>))
  /\ UNCHANGED sims

(* Every other handler but ApplySimulation starts with this check.         *)
CheckExists(c) ==
  /\ pc[c] = "enter" /\ call[c].op \in {"Step", "Drop", "GetSim", "Get", "Set"}
  /\ IF Name(c) \in Held
       THEN Goto(c, "found") /\ UNCHANGED <<ref, todo, tmp>>
       ELSE Return(c, Failed("NOT_FOUND"))
  /\ UNCHANGED sims

-----------------------------------------------------------------------------
(* ApplySimulation.  It looks whether the map holds the name ...           *)
CheckHeld(c) ==
  /\ pc[c] = "enter" /\ call[c].op = "Apply"
  /\ Goto(c, IF Name(c) \in Held THEN "check" ELSE "replace")
  /\ UNCHANGED <<sims, ref, todo, tmp>>

BugCheckUnlockedNever(c) ==
  /\ pc[c] = "check"
  /\ Goto(c, "replace")
  /\ UNCHANGED <<sims, ref, todo, tmp>>

(* ... and then into what it holds.                                        *)
CheckUnlocked(c) ==
  /\ pc[c] = "check"
  /\ Name(c) \in Held
  /\ IF sims[Name(c)].locked
       THEN Return(c, Failed("ALREADY_EXISTS"))
       ELSE Goto(c, "replace") /\ UNCHANGED <<ref, todo, tmp>>
  /\ UNCHANGED sims

UnusedGen ==
  Min(Gens \ ({sims[name].gen : name \in Held} \cup {ref[c] : c \in Clients}))

NewSim(def) ==
  [gen |-> UnusedGen, def |-> def, locked |-> FALSE,
   attrs |-> [a \in def.attrs |-> Unset]]

BugReplaceKeepsAttrs(c) ==
  LET def == call[c].def IN
  /\ pc[c] = "replace"
  /\ sims' = [x \in Held \cup {Name(c)} |->
                IF x = Name(c)
                  THEN IF x \in Held THEN [NewSim(def) EXCEPT !.attrs = sims[x].attrs]
                                     ELSE NewSim(def)
                  ELSE sims[x]]
  /\ Goto(c, "begin")
  /\ UNCHANGED <<ref, todo, tmp>>

(* Whatever the map held under the name is destroyed.  The constructor     *)
(* throws, for the answer INTERNAL, only when memory runs out.             *)
Replace(c) ==
  /\ pc[c] = "replace"
  /\ sims' = [x \in Held \cup {Name(c)} |->
                IF x = Name(c) THEN NewSim(call[c].def) ELSE sims[x]]
  /\ Goto(c, "begin")
  /\ UNCHANGED <<ref, todo, tmp>>

(* The simulation is looked up again by name to run its init graph.  If it *)
(* is gone, sims[name] makes an empty entry and dereferences it, as it     *)
(* does in the check above.                                                *)
BeginInit(c) ==
  /\ pc[c] = "begin"
  /\ Name(c) \in Held
  /\ ref' = [ref EXCEPT ![c] = sims[Name(c)].gen]
  /\ todo' = [todo EXCEPT ![c] = sims[Name(c)].def.init]
  /\ Goto(c, "run")
  /\ UNCHANGED <<sims, tmp>>

NullDereference(c) ==
  /\ \/ pc[c] \in {"check", "begin"}
     \/ pc[c] = "run" /\ todo[c] = <<>> /\ call[c].op = "Apply"
  /\ Name(c) \notin Held
  /\ Crash

-----------------------------------------------------------------------------
(* The other handlers take their references with sims.at(name), which      *)
(* throws through the handler if the simulation is gone by now.            *)
AtThrows(c) ==
  /\ pc[c] = "found" /\ call[c].op # "Drop"
  /\ Name(c) \notin Held
  /\ Return(c, Failed("UNKNOWN"))
  /\ UNCHANGED sims

Refer(c) ==
  /\ pc[c] = "found"
  /\ Name(c) \in Held
  /\ ref' = [ref EXCEPT ![c] = sims[Name(c)].gen]
  /\ UNCHANGED <<sims, tmp>>

BugBindStepTwice(c) ==
  LET systems == sims[Name(c)].def.systems IN
  /\ Refer(c)
  /\ call[c].op = "Step"
  /\ todo' = [todo EXCEPT ![c] = FlattenSeq(systems \o systems)]
  /\ Goto(c, "lock")

BindStep(c) ==
  /\ Refer(c)
  /\ call[c].op = "Step"
  /\ todo' = [todo EXCEPT ![c] = FlattenSeq(sims[Name(c)].def.systems)]
  /\ Goto(c, "lock")

(* SetAttribute makes a Mutate node of a constant and runs it.             *)
BindSet(c) ==
  /\ Refer(c)
  /\ call[c].op = "Set"
  /\ todo' = [todo EXCEPT ![c] =
       <<[target |-> call[c].attr, from |-> NoAttr, add |-> call[c].val]>>]
  /\ Goto(c, "run")

BindRead(c) ==
  /\ Refer(c)
  /\ call[c].op \in {"Get", "GetSim"}
  /\ Goto(c, "read")
  /\ UNCHANGED todo

BugEraseAll(c) ==
  /\ pc[c] = "found" /\ call[c].op = "Drop"
  /\ sims' = [x \in {} |-> 0]
  /\ Return(c, Done)

Erase(c) ==
  /\ pc[c] = "found" /\ call[c].op = "Drop"
  /\ sims' = [x \in Held \ {Name(c)} |-> sims[x]]
  /\ Return(c, Done)

Read(c) ==
  /\ pc[c] = "read"
  /\ Intact(c)
  /\ LET sim == sims[Name(c)] IN
       Return(c, IF call[c].op = "GetSim" THEN Answer("OK", <<"sim", sim.def>>)
                 ELSE IF Readable(sim.attrs, call[c].attr)
                   THEN Answer("OK", <<"value", sim.attrs[call[c].attr]>>)
                   ELSE Failed("NOT_FOUND"))
  /\ UNCHANGED sims

(* StepSimulation locks through a reference to the entry of the map, which *)
(* by now may hold another simulation than the one it runs.  If that was   *)
(* made after a drop the entry is a new one and the step undefined, so     *)
(* that UseDestroyed applies as well.                                      *)
Lock(c) ==
  /\ pc[c] = "lock"
  /\ Name(c) \in Held
  /\ sims' = [sims EXCEPT ![Name(c)].locked = TRUE]
  /\ Goto(c, "run")
  /\ UNCHANGED <<ref, todo, tmp>>

-----------------------------------------------------------------------------
(* Running graphs: the init graph, the systems one after the other, or the *)
(* Mutate node that SetAttribute makes.  A value is computed ...           *)
Evaluate(c) ==
  /\ pc[c] = "run" /\ todo[c] # <<>>
  /\ Intact(c)
  /\ LET attrs == sims[Name(c)].attrs
         out   == Head(todo[c])
     IN IF Evaluates(attrs, out)
          THEN /\ tmp' = [tmp EXCEPT ![c] = ValueOf(attrs, out)]
               /\ Goto(c, "store")
               /\ UNCHANGED <<ref, todo>>
          ELSE Return(c, Failed("INTERNAL"))
  /\ UNCHANGED sims

BugStoreRepeats(c) ==
  LET out == Head(todo[c]) IN
  /\ pc[c] = "store"
  /\ Intact(c)
  /\ IF Writable(sims[Name(c)].attrs, out.target)
       THEN /\ sims' = [sims EXCEPT ![Name(c)].attrs[out.target] = tmp[c]]
            /\ tmp' = [tmp EXCEPT ![c] = Unset]
            /\ Goto(c, "run")
            /\ UNCHANGED <<ref, todo>>
       ELSE Return(c, Failed("INTERNAL")) /\ UNCHANGED sims

(* ... and then stored.                                                    *)
Store(c) ==
  LET out == Head(todo[c]) IN
  /\ pc[c] = "store"
  /\ Intact(c)
  /\ IF Writable(sims[Name(c)].attrs, out.target)
       THEN /\ sims' = [sims EXCEPT ![Name(c)].attrs[out.target] = tmp[c]]
            /\ todo' = [todo EXCEPT ![c] = Tail(@)]
            /\ tmp' = [tmp EXCEPT ![c] = Unset]
            /\ Goto(c, "run")
            /\ UNCHANGED ref
       ELSE Return(c, Failed("INTERNAL")) /\ UNCHANGED sims

Finish(c) ==
  /\ pc[c] = "run" /\ todo[c] = <<>>
  /\ \/ call[c].op \in {"Step", "Set"} /\ Return(c, Done)
     \/ /\ call[c].op = "Apply" /\ Name(c) \in Held
        /\ Return(c, Answer("OK", <<"sim", sims[Name(c)].def>>))
  /\ UNCHANGED sims

(* A step through references to a simulation that was destroyed.           *)
UseDestroyed(c) ==
  /\ \/ pc[c] \in {"read", "store"} /\ ~Intact(c)
     \/ pc[c] = "run" /\ todo[c] # <<>> /\ ~Intact(c)
     \/ pc[c] = "lock" /\ ~Intact(c)
  /\ \/ Crash
     \/ /\ pc[c] \in {"run", "store"}
        /\ Return(c, Failed("INTERNAL"))
        /\ UNCHANGED sims
     \/ /\ pc[c] = "read" /\ call[c].op = "Get"
        /\ \/ Return(c, Failed("NOT_FOUND"))
           \/ \E v \in Vals : Return(c, Answer("OK", <<"value", v>>))
        /\ UNCHANGED sims
     \/ /\ pc[c] = "read" /\ call[c].op = "GetSim"
        /\ \E def \in SimDefs : Return(c, Answer("OK", <<"sim", def>>))
        /\ UNCHANGED sims
     \/ /\ pc[c] = "lock"
        /\ Goto(c, "run")
        /\ UNCHANGED <<sims, ref, todo, tmp>>
     \/ /\ pc[c] = "run"
        /\ \E v \in Vals : tmp' = [tmp EXCEPT ![c] = v]
        /\ Goto(c, "store")
        /\ UNCHANGED <<sims, ref, todo>>
     \/ /\ pc[c] = "store"
        /\ todo' = [todo EXCEPT ![c] = Tail(@)]
        /\ tmp' = [tmp EXCEPT ![c] = Unset]
        /\ Goto(c, "run")
        /\ UNCHANGED <<sims, ref>>

-----------------------------------------------------------------------------
Handle(c) ==
  /\ up
  /\ \/ ListSimulation(c)
     \/ CheckExists(c)
     \/ CheckHeld(c)
     \/ CheckUnlocked(c)
     \/ Replace(c)
     \/ BeginInit(c)
     \/ NullDereference(c)
     \/ AtThrows(c)
     \/ BindStep(c)
     \/ BindSet(c)
     \/ BindRead(c)
     \/ Erase(c)
     \/ Read(c)
     \/ Lock(c)
     \/ Evaluate(c)
     \/ Store(c)
     \/ Finish(c)
     \/ UseDestroyed(c)

Next == \E c \in Clients :
  \/ up /\ \E request \in Calls[c] : Call(c, request)
  \/ Handle(c)

Spec == Init /\ [][Next]_vars

(* A thread of the server that has started on a call keeps running it.     *)
(* Nothing makes a client call.                                            *)
FairSpec == Spec /\ \A c \in Clients : WF_vars(Handle(c))

-----------------------------------------------------------------------------
(***************************************************************************)
(* The shape of the service's state; a simulation holds values for exactly *)
(* the attributes its own definition declares.                             *)
(***************************************************************************)
TypeOK ==
  /\ Held \subseteq SimNames
  /\ \A name \in Held :
       /\ sims[name] \in Sim
       /\ DOMAIN sims[name].attrs = sims[name].def.attrs
  /\ up \in BOOLEAN
  /\ \A c \in Clients : call[c] \in Calls[c] \cup {NoCall}
  /\ pc \in [Clients -> {"idle", "enter", "check", "found", "replace", "begin", "lock",
                         "read", "run", "store"}]
  /\ ref \in [Clients -> Gens \cup {NoRef}]
  /\ todo \in [Clients -> Seq(Output)]
  /\ tmp \in [Clients -> Vals \cup {Unset}]
  /\ \A c \in Clients :
       reply[c].code \in {"NONE", "OK", "NOT_FOUND", "ALREADY_EXISTS", "INTERNAL", "UNKNOWN"}

(***************************************************************************)
(* "The simulation will be locked when it has started.  No changes should  *)
(* be made to the simDef when it is locked." (simulation.h:20-21)  A       *)
(* simulation that was stepped stays the same object with the same         *)
(* definition until it is dropped.                                         *)
(***************************************************************************)
LockedNeverReplaced ==
  [][\A name \in Held : sims[name].locked /\ name \in Held' =>
       /\ sims'[name].gen = sims[name].gen
       /\ sims'[name].def = sims[name].def
       /\ sims'[name].locked]_vars

(* Only the client that steps a simulation applies definitions to it, the  *)
(* others at most read it, set attributes of it and drop it.               *)
SoleDriver ==
  \A c, d \in Clients : \A r \in Calls[c], s \in Calls[d] :
    r.op = "Apply" /\ s.op = "Step" /\ r.name = s.name => c = d

(* No two clients name the same simulation in their calls.                 *)
OwnSimulations ==
  \A c, d \in Clients : \A r \in Calls[c], s \in Calls[d] :
    r.op # "List" /\ s.op # "List" /\ r.name = s.name => c = d

(***************************************************************************)
(* No handler works on a simulation that was destroyed under it, and the   *)
(* engine never dereferences an empty entry of the map                     *)
(* (engineService.cpp:55-68, 123-148).                                     *)
(***************************************************************************)
ReferencesIntact ==
  /\ up
  /\ \A c \in Clients : pc[c] \in {"lock", "read", "run", "store"} => Intact(c)

(***************************************************************************)
(* Every call is answered, whatever the other handlers do to the           *)
(* simulations under it, unless the engine crashes: no handler waits for   *)
(* another, and the graphs it runs end.                                    *)
(***************************************************************************)
AnsweredUnlessCrashed ==
  \A c \in Clients : pc[c] = "enter" ~> pc[c] = "idle" \/ ~up

(* What a handler has ahead of it: parts of the handler, then evaluations  *)
(* and stores of the graphs it is bound to.                                *)
Parts == [enter |-> 4, check |-> 3, found |-> 2, replace |-> 2, begin |-> 1,
          lock |-> 0, read |-> 0, run |-> 0, store |-> 0]
Rest == [lock |-> 2, read |-> 0, run |-> 1, store |-> 0]
Left(c) == 2 * Len(todo[c]) + Rest[pc[c]]

Closer(c) ==
  \/ Parts[pc'[c]] < Parts[pc[c]]
  \/ Parts[pc'[c]] = 0 /\ Parts[pc[c]] = 0 /\ Left(c)' < Left(c)

(***************************************************************************)
(* No step of a handler is in vain, and no other handler sets it back: its *)
(* own steps, undefined ones too, bring it closer to its answer, and those *)
(* of the others leave what it has ahead alone (engineService.cpp:31-219). *)
(***************************************************************************)
HandlersAdvance ==
  [][\A c \in Clients : pc[c] # "idle" =>
       IF Handle(c) THEN pc'[c] = "idle" \/ ~up' \/ Closer(c)
                    ELSE UNCHANGED <<call[c], pc[c], ref[c], todo[c], tmp[c]>>]_vars

(***************************************************************************)
(* Clients that keep to simulations of their own see the atomic service of *)
(* EngineRegistry: each request takes its own effect, once, on the one     *)
(* simulation it names, between the call and its reply.  A call that runs  *)
(* graphs takes effect when it starts to (when its simulation is put in    *)
(* the map, locked or bound): from then on what it will have done and will *)
(* answer is settled by what is left to run, because nobody else touches   *)
(* that simulation.                                                        *)
(***************************************************************************)
Running(c) ==
  pc[c] \in {"run", "store", "begin"}

Runner(name) == {c \in Clients : Running(c) /\ Name(c) = name}

LeftToRun(c) == IF pc[c] = "begin" THEN call[c].def.init ELSE todo[c]

(* What the outputs left to run will make of the simulation.               *)
Outcome(c) == RunGraph(sims[Name(c)].attrs, LeftToRun(c))

SettledSims ==
  [name \in Held |->
     [def    |-> sims[name].def,
      locked |-> sims[name].locked,
      attrs  |-> IF Runner(name) = {} THEN sims[name].attrs
                 ELSE Outcome(CHOOSE c \in Runner(name) : TRUE).attrs]]

SettledReply ==
  [c \in Clients |->
     IF ~Running(c) THEN Waiting
     ELSE IF ~Outcome(c).ok THEN Failed("INTERNAL")
     ELSE IF call[c].op = "Apply" THEN Answer("OK", <<"sim", call[c].def>>)
     ELSE Done]

Registry == INSTANCE EngineRegistry WITH
  sims    <- SettledSims,
  settled <- SettledReply

ImplementsRegistry == Registry!Spec
=============================================================================
