---------------------------- MODULE SdkSimulation ----------------------------
(***************************************************************************)
(* The life cycle of simulations seen from the SDK: objects of class       *)
(* Simulation (sdk/bento/sim.py) over the calls of Client                  *)
(* (sdk/bento/client.py) to an engine that holds simulations in memory.    *)
(*                                                                         *)
(* An object blocks in each call.  Calls have no deadline, they end with   *)
(* an exception when the connection breaks, and the caller then does not   *)
(* know what became of the call.  Nor does the engine know that nobody     *)
(* waits for it any more: the handlers (engineService.cpp:31-151) never    *)
(* look at their context and run on, next to those of the object's later   *)
(* calls.  Such a call is a stray here.  A handler is therefore taken in   *)
(* the parts between which others can come (module EngineService has them  *)
(* in full); what is undefined because a simulation was destroyed under a  *)
(* handler is an answer of some kind or the end of the engine.             *)
(*                                                                         *)
(* The engine may restart, which loses everything it holds.  A user may    *)
(* construct an object again, as one whose process was restarted does.     *)
(*                                                                         *)
(* A definition Bug<Name> is a mutated form of <Name> that the             *)
(* specification does not use.                                             *)
(***************************************************************************)
EXTENDS Naturals, Sequences, FiniteSets, FiniteSetsExt

CONSTANTS
  Objects,       \* no two have the same name, as sim.py:58-59 asks of users,
                 \*   so that they stand for their names as well
  Strays,        \* places for calls given up that are still under way,
  StrayOf,       \*   and the object that gives up each
  Fns,           \* functions that implement systems
  Components,    \* the components entities may have
  EntityDefs,    \* the lists of entities that objects are constructed with
  MaxSystems, MaxSteps, MaxRestarts   \* bounds of the model

UNSET == 0

EntityDef == [id : Nat, components : SUBSET Components]
System == [fn : Fns, id : Nat]

(* Ids that are set are distinct, as the protocol asks of clients.         *)
DistinctIds(s) == \A k, l \in DOMAIN s : s[k].id = s[l].id /\ s[k].id # UNSET => k = l

AllSet(s) == \A k \in DOMAIN s : s[k].id # UNSET

ASSUME StraysAssumption ==
  IsFiniteSet(Strays) /\ Strays \cap Objects = {} /\ StrayOf \in [Strays -> Objects]
ASSUME EntityDefsAssumption ==
  EntityDefs \subseteq {s \in Seq(EntityDef) : DistinctIds(s)}
ASSUME BoundsAssumption == MaxRestarts \in Nat

VARIABLES
  given,      \* the entities objects are constructed with
  object,     \* the fields of each object
  call,       \* the call each object is blocked in, and the strays
  sims,       \* the simulations the engine holds, by the object of their name
  restarts,   \* counter for the bound
  excused,    \* history: since the object's simulation was last put in the
              \*   engine a stop() whose answer was lost was carried out, or
              \*   the engine restarted
  okSteps, raisedSteps   \* history: steps of the object that returned since
                         \*   then, that raised or had still to come in

history == <<excused, okSteps, raisedSteps>>
vars == <<given, object, call, sims, restarts, history>>

-----------------------------------------------------------------------------
Object == [built : BOOLEAN, started : BOOLEAN, systems : Seq(System),
           entities : Seq(EntityDef)]

NewObject(entities) ==
  [built |-> FALSE, started |-> FALSE, systems |-> <<>>,
   entities |-> entities]

Callers == Objects \cup Strays
Of(c) == IF c \in Objects THEN c ELSE StrayOf[c]

(* A call: its operation and definition, how far it has come, whether the  *)
(* simulation its handler has references into is still there, and what it  *)
(* was answered: an apply with the definition as it was applied.  That of  *)
(* a step is history: the systems that it ran, and whether a stray may     *)
(* have put them there.                                                    *)
NoDef == [entities |-> <<>>, systems |-> <<>>]
NoAnswer == [entities |-> <<>>, systems |-> <<>>, stray |-> FALSE]
Idle == [op |-> "none", def |-> NoDef, at |-> "none", intact |-> TRUE,
         code |-> "none", answer |-> NoAnswer]
Sent(op, def) == [Idle EXCEPT !.op = op, !.def = def, !.at = "sent"]
Answered(op, code, answer) ==
  [Idle EXCEPT !.op = op, !.at = "answered", !.code = code, !.answer = answer]

IsIdle(c) == call[c].at = "none"
IsAt(c, op, stage) == call[c].op = op /\ call[c].at = stage
IsAnswered(o, op) == IsAt(o, op, "answered")
Returned(o, op) == IsAnswered(o, op) /\ call[o].code = "OK"

Held == DOMAIN sims
With(sim, x) == [y \in Held \cup {x} |-> IF y = x THEN sim ELSE sims[y]]

Tops(s) ==
  {top \in {s[k].id : k \in DOMAIN s} \cup {UNSET} : \A k \in DOMAIN s : s[k].id <= top}

UnsetUpTo(s, k) == {l \in 1 .. k : s[l].id = UNSET}

BugNumbered(s, top) == s

(* What the engine makes of unset ids: it numbers upwards from the largest *)
(* one that is set.                                                        *)
Numbered(s, top) ==
  [k \in DOMAIN s |->
     [s[k] EXCEPT !.id = IF @ = UNSET THEN top + Cardinality(UnsetUpTo(s, k)) ELSE @]]

(* build(): the definition an object sends, without graphs when it is only *)
(* after the ids of its entities.                                          *)
Build(o, graphs) ==
  [entities |-> object[o].entities,
   systems  |-> IF graphs THEN object[o].systems ELSE <<>>]

(* A simulation.  Its steps and whether a stray put it there are history.  *)
Applications(def, stray) ==
  {[entities |-> Numbered(def.entities, top), systems |-> Numbered(def.systems, max),
    locked |-> FALSE, steps |-> 0, stray |-> stray] :
     top \in Tops(def.entities), max \in Tops(def.systems)}

Definition(sim) == [entities |-> sim.entities, systems |-> sim.systems, stray |-> FALSE]
Ran(sim) == [entities |-> <<>>, systems |-> sim.systems, stray |-> sim.stray]
RanUnknown == [NoAnswer EXCEPT !.stray = TRUE]

Init ==
  /\ given \in [Objects -> EntityDefs]
  /\ object = [o \in Objects |-> NewObject(<<>>)]
  /\ call = [c \in Callers |-> Idle]
  /\ sims = [x \in {} |-> 0]
  /\ restarts = 0
  /\ excused = [o \in Objects |-> FALSE]
  /\ okSteps = [o \in Objects |-> 0]
  /\ raisedSteps = [o \in Objects |-> 0]

-----------------------------------------------------------------------------
(* What a user asks of an object that is not blocked.  A method that       *)
(* raises or returns at once changes nothing and is not a step.            *)

Sends(o, op, def) ==
  /\ call' = [call EXCEPT ![o] = Sent(op, def)]
  /\ UNCHANGED <<given, sims, restarts, history>>

(* __init__, of a first object or of one that takes the place of another.  *)
Construct(o) ==
  /\ IsIdle(o)
  /\ object' = [object EXCEPT ![o] = NewObject(given[o])]
  /\ Sends(o, "construct", [entities |-> given[o], systems |-> <<>>])

BugMayStart(o) == object[o].built

MayStart(o) == object[o].built /\ ~object[o].started

Start(o) ==
  /\ IsIdle(o)
  /\ MayStart(o)
  /\ Sends(o, "start", Build(o, TRUE))
  /\ UNCHANGED object

Stop(o) ==
  /\ IsIdle(o)
  /\ object[o].started
  /\ Sends(o, "stop", NoDef)
  /\ UNCHANGED object

Step(o) ==
  /\ IsIdle(o)
  /\ object[o].started
  /\ okSteps[o] + raisedSteps[o] < MaxSteps
  /\ Sends(o, "step", NoDef)
  /\ UNCHANGED object

(* system(): the function is kept with an unset id until the next start(). *)
RegisterSystem(o, fn) ==
  /\ IsIdle(o)
  /\ object[o].built
  /\ Len(object[o].systems) < MaxSystems
  /\ object' = [object EXCEPT ![o].systems = Append(@, [fn |-> fn, id |-> UNSET])]
  /\ UNCHANGED <<given, call, sims, restarts, history>>

-----------------------------------------------------------------------------
(* The engine's handlers.  They run for strays as for the others.          *)

Goto(c, stage) == call' = [call EXCEPT ![c].at = stage]

(* Nobody is there to get the answer to a stray.                           *)
Outcome(c, code, answer) ==
  IF c \in Objects THEN Answered(call[c].op, code, answer) ELSE Idle

Answer(c, code, answer) == call' = [call EXCEPT ![c] = Outcome(c, code, answer)]

(* What was held under the name is destroyed: other handlers that have     *)
(* references into it have them into nothing.                              *)
Destroys(c, new) ==
  call' = [d \in Callers |->
             IF d = c THEN new
             ELSE [call[d] EXCEPT !.intact =
                     @ /\ ~(Of(d) = Of(c) /\ call[d].at \in {"init", "lock", "run"})]]

(* ApplySimulation looks whether it may replace what is held (should that  *)
(* be dropped between the two looks of :38 the engine ends: Restart) ...   *)
Check(c) ==
  /\ \E op \in {"construct", "start"} : IsAt(c, op, "sent")
  /\ IF Of(c) \in Held /\ sims[Of(c)].locked
       THEN Answer(c, "ALREADY_EXISTS", NoAnswer)
       ELSE Goto(c, "replace")
  /\ UNCHANGED <<given, object, sims, restarts, history>>

(* Steps given up that the engine has not begun.                           *)
Unbegun(o) == {s \in Strays : Of(s) = o /\ IsAt(s, "step", "sent")}

(* The history of an object starts anew.                                   *)
Forget(o) ==
  /\ excused' = [excused EXCEPT ![o] = FALSE]
  /\ okSteps' = [okSteps EXCEPT ![o] = 0]
  /\ raisedSteps' = [raisedSteps EXCEPT ![o] = Cardinality(Unbegun(o))]

(* ... does so ...                                                         *)
Replace(c) ==
  /\ call[c].at = "replace"
  /\ \E sim \in Applications(call[c].def, c \in Strays) : sims' = With(sim, Of(c))
  /\ Destroys(c, [call[c] EXCEPT !.at = "init", !.def = NoDef])
  /\ IF c \in Objects THEN Forget(c) ELSE UNCHANGED history
  /\ UNCHANGED <<given, object, restarts>>

(* ... and runs the init graph, which an object may have for its start and *)
(* which may fail: that leaves the simulation registered.  The definition  *)
(* it answers with is that of the simulation the name has by now.          *)
FinishApply(c) ==
  /\ call[c].at = "init"
  /\ \/ /\ Of(c) \in Held
        /\ Answer(c, "OK", Definition(sims[Of(c)]))
     \/ /\ call[c].op = "start" \/ ~call[c].intact
        /\ Answer(c, "INTERNAL", NoAnswer)
  /\ UNCHANGED <<given, object, sims, restarts, history>>

(* StepSimulation and DropSimulation of a name that is not held, or is not *)
(* any more between the two looks of :118 and :123, which answers UNKNOWN  *)
(* and raises as well.                                                     *)
NotFound(c) ==
  /\ \E op \in {"step", "stop"} : IsAt(c, op, "sent")
  /\ Of(c) \notin Held
  /\ Answer(c, "NOT_FOUND", NoAnswer)
  /\ UNCHANGED <<given, object, sims, restarts, history>>

(* StepSimulation takes its references, locks ...                          *)
Bind(c) ==
  /\ IsAt(c, "step", "sent")
  /\ Of(c) \in Held
  /\ Goto(c, "lock")
  /\ UNCHANGED <<given, object, sims, restarts, history>>

(* ... what the name has by now, unless that is lost in freed memory, ...  *)
Lock(c) ==
  /\ call[c].at = "lock"
  /\ Goto(c, "run")
  /\ \/ /\ Of(c) \in Held
        /\ sims' = [sims EXCEPT
             ![Of(c)].locked = TRUE,
             ![Of(c)].steps = IF call[c].intact THEN @ + 1 ELSE @]
     \/ ~call[c].intact /\ UNCHANGED sims
  /\ UNCHANGED <<given, object, restarts, history>>

(* ... and runs the systems.  One may fail, which ends the step.           *)
FinishStep(c) ==
  /\ call[c].at = "run"
  /\ IF call[c].intact
       THEN \/ Answer(c, "OK", Ran(sims[Of(c)]))
            \/ sims[Of(c)].systems # <<>> /\ Answer(c, "INTERNAL", NoAnswer)
       ELSE Answer(c, "OK", RanUnknown) \/ Answer(c, "INTERNAL", NoAnswer)
  /\ UNCHANGED <<given, object, sims, restarts, history>>

(* DropSimulation has found the name, and drops what it has by then.       *)
Found(c) ==
  /\ IsAt(c, "stop", "sent")
  /\ Of(c) \in Held
  /\ Goto(c, "erase")
  /\ UNCHANGED <<given, object, sims, restarts, history>>

Erase(c) ==
  /\ call[c].at = "erase"
  /\ sims' = [x \in Held \ {Of(c)} |-> sims[x]]
  /\ Destroys(c, Outcome(c, "OK", NoAnswer))
  /\ excused' = [excused EXCEPT ![Of(c)] = @ \/ c \in Strays]
  /\ UNCHANGED <<given, object, restarts, okSteps, raisedSteps>>

-----------------------------------------------------------------------------
(* The answer reaches the object.                                          *)

BugResume(c) == IF c.op = "step" /\ c.code = "INTERNAL" THEN Sent(c.op, NoDef) ELSE Idle

(* An error is raised to the user: no call is made again.                  *)
Resume(c) == Idle

BugMarkStarted(o) == TRUE

(* Only an answer lets start() get as far as setting started.              *)
MarkStarted(o) == Returned(o, "start")

ConstructReturns(o) ==
  /\ IsAnswered(o, "construct")
  /\ object' = [object EXCEPT
       ![o].built = Returned(o, "construct"),
       ![o].entities = IF Returned(o, "construct") THEN call[o].answer.entities ELSE @]
  /\ call' = [call EXCEPT ![o] = Resume(call[o])]
  /\ UNCHANGED <<given, sims, restarts, history>>

(* start() copies the ids of the systems from the answer, by position, and *)
(* zip leaves out systems for which there are none.                        *)
WithIds(systems, from) ==
  [k \in DOMAIN systems \cap DOMAIN from |-> [systems[k] EXCEPT !.id = from[k].id]]

StartReturns(o) ==
  /\ IsAnswered(o, "start")
  /\ object' = [object EXCEPT
       ![o].started = MarkStarted(o),
       ![o].systems = IF Returned(o, "start") THEN WithIds(@, call[o].answer.systems)
                                              ELSE @]
  /\ call' = [call EXCEPT ![o] = Resume(call[o])]
  /\ UNCHANGED <<given, sims, restarts, history>>

StopReturns(o) ==
  /\ IsAnswered(o, "stop")
  /\ object' = [object EXCEPT ![o].started = ~Returned(o, "stop")]
  /\ call' = [call EXCEPT ![o] = Resume(call[o])]
  /\ UNCHANGED <<given, sims, restarts, history>>

(* A step counts as raised when its error reaches the user.                *)
StepReturns(o) ==
  /\ IsAnswered(o, "step")
  /\ call' = [call EXCEPT ![o] = Resume(call[o])]
  /\ okSteps' = [okSteps EXCEPT ![o] = IF Returned(o, "step") THEN @ + 1 ELSE @]
  /\ raisedSteps' = [raisedSteps EXCEPT ![o] =
                       IF ~Returned(o, "step") /\ IsIdle(o)' THEN @ + 1 ELSE @]
  /\ UNCHANGED <<given, object, sims, restarts, excused>>

-----------------------------------------------------------------------------
(* The connection breaks: the call raises and what comes after it in the   *)
(* method is not reached, while the call itself is under way as it was,    *)
(* unless it was answered and the answer is lost.                          *)
GiveUp(o) ==
  /\ ~IsIdle(o)
  /\ \/ /\ call[o].at = "answered"
        /\ call' = [call EXCEPT ![o] = Idle]
     \/ /\ call[o].at # "answered"
        /\ \E s \in Strays :
             /\ Of(s) = o /\ IsIdle(s)
             /\ call' = [call EXCEPT ![o] = Idle, ![s] = call[o]]
  /\ excused' = [excused EXCEPT ![o] = @ \/ Returned(o, "stop")]
  /\ raisedSteps' = [raisedSteps EXCEPT ![o] = IF call[o].op = "step" THEN @ + 1 ELSE @]
  /\ UNCHANGED <<given, object, sims, restarts, okSteps>>

(* A stray that was lost on its way never comes in.                        *)
Lose(s) ==
  /\ call[s].at = "sent"
  /\ call' = [call EXCEPT ![s] = Idle]
  /\ UNCHANGED <<given, object, sims, restarts, history>>

(* The engine ends and is started again.  Calls that it was handling fail, *)
(* and so do strays on their way, whose connection was to the one before.  *)
Restart ==
  /\ restarts < MaxRestarts
  /\ restarts' = restarts + 1
  /\ sims' = [x \in {} |-> 0]
  /\ call' = [c \in Callers |->
       IF c \in Strays THEN Idle
       ELSE IF call[c].at \in {"none", "sent", "answered"} THEN call[c]
       ELSE Answered(call[c].op, "UNAVAILABLE", NoAnswer)]
  /\ excused' = [o \in Objects |-> TRUE]
  /\ UNCHANGED <<given, object, okSteps, raisedSteps>>

Handle(c) ==
  \/ Check(c) \/ Replace(c) \/ FinishApply(c)
  \/ NotFound(c)
  \/ Bind(c) \/ Lock(c) \/ FinishStep(c)
  \/ Found(c) \/ Erase(c)

Next ==
  \/ \E o \in Objects :
       \/ Construct(o) \/ Start(o) \/ Stop(o) \/ Step(o)
       \/ \E fn \in Fns : RegisterSystem(o, fn)
       \/ ConstructReturns(o) \/ StartReturns(o) \/ StopReturns(o) \/ StepReturns(o)
       \/ GiveUp(o)
  \/ \E c \in Callers : Handle(c)
  \/ \E s \in Strays : Lose(s)
  \/ Restart

Spec == Init /\ [][Next]_vars

-----------------------------------------------------------------------------
BugEntityMap(o, components) ==
  Max({k \in DOMAIN object[o].entities :
         object[o].entities[k].components = components})

(* entity_map: of entities with the same components the last one wins.     *)
EntityMap(o, components) ==
  object[o].entities[Max({k \in DOMAIN object[o].entities :
                            object[o].entities[k].components = components})].id

(***************************************************************************)
(* The shape of the state.                                                 *)
(***************************************************************************)
TypeOK ==
  /\ object \in [Objects -> Object]
  /\ \A c \in Callers :
       /\ call[c].op \in {"none", "construct", "start", "stop", "step"}
       /\ call[c].at \in {"none", "sent", "replace", "init", "lock", "run", "erase",
                          "answered"}
       /\ call[c].code \in {"none", "OK", "NOT_FOUND", "ALREADY_EXISTS", "INTERNAL",
                            "UNAVAILABLE"}
       /\ call[c].at \in {"init", "lock", "run"} /\ call[c].intact => Of(c) \in Held
  /\ Held \subseteq Objects
  /\ \A x \in Held :
       /\ sims[x].entities \in Seq(EntityDef)
       /\ sims[x].systems \in Seq(System)
       /\ AllSet(sims[x].entities)
       /\ AllSet(sims[x].systems)
       /\ sims[x].steps > 0 => sims[x].locked
  /\ restarts \in 0 .. MaxRestarts
  /\ excused \in [Objects -> BOOLEAN]

(* These are the systems that the object takes to be the engine's: those   *)
(* with an id, which come before those that were registered since.         *)
Committed(o, systems) ==
  /\ Len(systems) <= Len(object[o].systems)
  /\ \A k \in DOMAIN object[o].systems :
       IF k <= Len(systems) THEN object[o].systems[k] = systems[k]
                            ELSE object[o].systems[k].id = UNSET

(***************************************************************************)
(* An object that says it is started is (sim.py:153-181): unless the       *)
(* engine restarted, or carried out a stop() of which the object has no    *)
(* answer, the engine has a simulation with its entities; and unless an    *)
(* apply that was given up put it there, with the systems the object had   *)
(* when it was started and the ids it copied.  Starts that failed or whose *)
(* answer was lost, registering systems and starting once more, and steps  *)
(* that come late change nothing of that.                                  *)
(***************************************************************************)
StartedIsRegistered ==
  \A o \in Objects :
    object[o].started /\ IsIdle(o) /\ ~excused[o] =>
      /\ o \in Held
      /\ sims[o].entities = object[o].entities
      /\ ~sims[o].stray => Committed(o, sims[o].systems)

(***************************************************************************)
(* A step() that returns ran the systems of the last start(), whatever was *)
(* lost before (sim.py:247-263): through stops and restarts that the       *)
(* object does not know of too, and unless the simulation was put there or *)
(* taken away under it by an apply or a stop() that was given up.          *)
(***************************************************************************)
StepRanCommitted ==
  [][\A o \in Objects :
       okSteps'[o] > okSteps[o] /\ ~call[o].answer.stray =>
         Committed(o, call[o].answer.systems)]_vars

(***************************************************************************)
(* Nobody steps a simulation but the step() calls of its object, each one  *)
(* once (client.py:158-172): those that returned have happened, unless an  *)
(* apply that was given up put another simulation in its place; those that *)
(* raised may have, those given up before it was put in the engine if they *)
(* came in only after that.                                                *)
(***************************************************************************)
StepsAtMostOnce ==
  \A o \in Objects :
    object[o].started /\ IsIdle(o) /\ o \in Held =>
      /\ sims[o].steps <= okSteps[o] + raisedSteps[o]
      /\ ~sims[o].stray => okSteps[o] <= sims[o].steps

(***************************************************************************)
(* entity() (sim.py:183-205) gives an id under which the engine holds one  *)
(* entity, and one with these components: through stops, starts, whatever  *)
(* is lost in between or comes late, and where several entities have the   *)
(* same components and all but one of them cannot be looked up.            *)
(***************************************************************************)
LookupAgrees ==
  \A o \in Objects :
    object[o].built /\ o \in Held =>
      LET held == sims[o].entities IN
        \A k \in DOMAIN held :
          LET id == EntityMap(o, held[k].components) IN
            /\ \E l \in DOMAIN held : held[l].id = id
            /\ \A l \in DOMAIN held :
                 held[l].id = id => held[l].components = held[k].components
=============================================================================
