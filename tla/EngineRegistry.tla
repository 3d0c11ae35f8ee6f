--------------------------- MODULE EngineRegistry ----------------------------
(***************************************************************************)
(* What the engine service promises to its clients: between a call and its *)
(* reply there is one moment at which the call takes effect, and no other; *)
(* the effect is that of the request the client made, on the simulation it *)
(* names.  A simulation that was stepped keeps its definition until it is  *)
(* dropped; a step runs all of its systems once, in order, up to the first *)
(* that fails.                                                             *)
(***************************************************************************)
EXTENDS GraphRun

CONSTANTS
  Clients,
  Calls,      \* the requests each client may make
  NoCall

VARIABLES
  sims,       \* the simulations the engine holds, by name
  call,       \* the request each client waits on
  settled,    \* what it will be answered, once it has taken effect
  reply       \* the last answer each client got

vars == <<sims, call, settled, reply>>

Holding(def, locked, attrs) == [def |-> def, locked |-> locked, attrs |-> attrs]

(* What a new simulation has before its init graph runs.                   *)
NewAttrs(def) == [a \in def.attrs |-> Unset]

Answer(code, body) == [code |-> code, body |-> body]
Done == Answer("OK", <<>>)
Failed(code) == Answer(code, <<>>)
Waiting == Answer("NONE", <<>>)

Held == DOMAIN sims
With(name, sim) ==
  [x \in Held \cup {name} |-> IF x = name THEN sim ELSE sims[x]]

Init ==
  /\ sims = [name \in {} |-> 0]
  /\ call = [c \in Clients |-> NoCall]
  /\ settled = [c \in Clients |-> Waiting]
  /\ reply = [c \in Clients |-> Done]

Call(c, request) ==
  /\ call[c] = NoCall
  /\ call' = [call EXCEPT ![c] = request]
  /\ reply' = [reply EXCEPT ![c] = Waiting]
  /\ UNCHANGED <<sims, settled>>

(* The client waits on such a call, which has not taken effect.            *)
Pending(c, op) == call[c] # NoCall /\ settled[c] = Waiting /\ call[c].op = op

Replies(c, answer) ==
  /\ reply' = [reply EXCEPT ![c] = answer]
  /\ call' = [call EXCEPT ![c] = NoCall]
  /\ settled' = [settled EXCEPT ![c] = Waiting]

(* A call that takes effect is answered at once or later.                  *)
Answers(c, answer) ==
  \/ Replies(c, answer)
  \/ settled' = [settled EXCEPT ![c] = answer] /\ UNCHANGED <<call, reply>>

Reply(c) ==
  /\ settled[c] # Waiting
  /\ Replies(c, settled[c])
  /\ UNCHANGED sims

Name(c) == call[c].name

Missing(c) ==
  /\ Name(c) \notin Held
  /\ Answers(c, Failed("NOT_FOUND"))
  /\ UNCHANGED sims

(* Applying replaces a simulation that was not stepped yet.  If the init   *)
(* graph fails, what it did so far stays.                                  *)
ApplySimulation(c) ==
  /\ Pending(c, "Apply")
  /\ \/ /\ Name(c) \in Held
        /\ sims[Name(c)].locked
        /\ Answers(c, Failed("ALREADY_EXISTS"))
        /\ UNCHANGED sims
     \/ /\ Name(c) \in Held => ~sims[Name(c)].locked
        /\ LET def == call[c].def
               run == RunGraph(NewAttrs(def), def.init)
           IN /\ sims' = With(Name(c), Holding(def, FALSE, run.attrs))
              /\ Answers(c, IF run.ok THEN Answer("OK", <<"sim", def>>)
                                      ELSE Failed("INTERNAL"))

StepSimulation(c) ==
  /\ Pending(c, "Step")
  /\ \/ Missing(c)
     \/ /\ Name(c) \in Held
        /\ LET sim == sims[Name(c)]
               run == RunGraph(sim.attrs, FlattenSeq(sim.def.systems))
           IN /\ sims' = With(Name(c), Holding(sim.def, TRUE, run.attrs))
              /\ Answers(c, IF run.ok THEN Done ELSE Failed("INTERNAL"))

DropSimulation(c) ==
  /\ Pending(c, "Drop")
  /\ \/ Missing(c)
     \/ /\ Name(c) \in Held
        /\ sims' = [x \in Held \ {Name(c)} |-> sims[x]]
        /\ Answers(c, Done)

GetSimulation(c) ==
  /\ Pending(c, "GetSim")
  /\ \/ Missing(c)
     \/ /\ Name(c) \in Held
        /\ Answers(c, Answer("OK", <<"sim", sims[Name(c)].def>>))
        /\ UNCHANGED sims

ListSimulation(c) ==
  /\ Pending(c, "List")
  /\ Answers(c, Answer("OK", <<"names", Held>>))
  /\ UNCHANGED sims

GetAttribute(c) ==
  /\ Pending(c, "Get")
  /\ \/ Missing(c)
     \/ /\ Name(c) \in Held
        /\ LET attrs == sims[Name(c)].attrs IN
             Answers(c, IF Readable(attrs, call[c].attr)
                          THEN Answer("OK", <<"value", attrs[call[c].attr]>>)
                          ELSE Failed("NOT_FOUND"))
        /\ UNCHANGED sims

SetAttribute(c) ==
  /\ Pending(c, "Set")
  /\ \/ Missing(c)
     \/ /\ Name(c) \in Held
        /\ LET sim == sims[Name(c)]
               a   == call[c].attr
           IN IF Writable(sim.attrs, a)
                THEN /\ sims' = With(Name(c), Holding(sim.def, sim.locked,
                                                [sim.attrs EXCEPT ![a] = call[c].val]))
                     /\ Answers(c, Done)
                ELSE /\ Answers(c, Failed("INTERNAL"))
                     /\ UNCHANGED sims

Next == \E c \in Clients :
  \/ \E request \in Calls[c] : Call(c, request)
  \/ ApplySimulation(c) \/ StepSimulation(c) \/ DropSimulation(c)
  \/ GetSimulation(c) \/ ListSimulation(c)
  \/ GetAttribute(c) \/ SetAttribute(c)
  \/ Reply(c)

Spec == Init /\ [][Next]_vars
=============================================================================
