------------------------ MODULE EngineRegistryProofs ------------------------
(***************************************************************************)
(* For clients with simulations of their own the service implements        *)
(* EngineRegistry: every call takes its own effect in one step, and then   *)
(* returns what that settled, however many handlers are under way and      *)
(* whatever graphs they run.                                               *)
(*                                                                         *)
(* A handler that runs graphs has taken effect already when it begins to:  *)
(* SettledSims and SettledReply are what its simulation and its answer     *)
(* will be.  Its own steps bring the state closer to that and those of     *)
(* other handlers do not concern it, so both leave it alone.               *)
(***************************************************************************)
EXTENDS EngineServiceProofs

-----------------------------------------------------------------------------
(* What running a graph is, output by output.                              *)
After(after, run, outputs, n) ==
  after = [k \in 0 .. n |-> IF k = 0 THEN run ELSE RunOutput(after[k - 1], outputs[k])]

LEMMA AfterExists ==
  ASSUME NEW run, NEW outputs, NEW n \in Nat
  PROVE  \E after : After(after, run, outputs, n)
<1> DEFINE S == {m \in Nat : \E after : After(after, run, outputs, m)}
<1>1. 0 \in S
  <2> DEFINE after == [k \in 0 .. 0 |-> run]
  <2>1. After(after, run, outputs, 0)
    BY SMT DEF After
  <2> HIDE DEF after
  <2> QED
    BY <2>1
<1>2. ASSUME NEW m \in Nat, m \in S PROVE m + 1 \in S
  <2>1. PICK f : After(f, run, outputs, m)
    BY <1>2
  <2> DEFINE g == [k \in 0 .. m + 1 |->
                     IF k = m + 1 THEN RunOutput(f[m], outputs[m + 1]) ELSE f[k]]
  <2>2. \A k \in 0 .. m : f[k] = IF k = 0 THEN run ELSE RunOutput(f[k - 1], outputs[k])
    BY <2>1 DEF After
  <2>3. ASSUME NEW k \in 0 .. m + 1
        PROVE  g[k] = IF k = 0 THEN run ELSE RunOutput(g[k - 1], outputs[k])
    <3>1. CASE k = m + 1
      <4>1. m \in 0 .. m + 1 /\ m # m + 1 /\ k - 1 = m /\ k # 0
        BY <3>1, SMT
      <4>2. g[k - 1] = f[m] /\ g[k] = RunOutput(f[m], outputs[m + 1])
        BY <3>1, <4>1
      <4> QED
        BY <3>1, <4>1, <4>2
    <3>2. CASE k # m + 1
      <4>1. /\ k \in 0 .. m
            /\ k # 0 => k - 1 \in 0 .. m + 1 /\ k - 1 # m + 1
        BY <3>2, SMT
      <4>2. g[k] = f[k] /\ (k # 0 => g[k - 1] = f[k - 1])
        BY <3>2, <4>1
      <4> QED
        BY <2>2, <4>1, <4>2
    <3> QED
      BY <3>1, <3>2
  <2>4. g = [k \in 0 .. m + 1 |-> g[k]]
    OBVIOUS
  <2> HIDE DEF g
  <2>5. After(g, run, outputs, m + 1)
    BY <2>3, <2>4 DEF After
  <2> QED
    BY <2>5
<1>3. Nat \subseteq S
  <2> HIDE DEF S
  <2> QED
    BY <1>1, <1>2, Induction
<1> QED
  BY <1>3

(* What RunFrom returns is the last of a chain of runs.                    *)
LEMMA RunFromChain ==
  ASSUME NEW run, NEW outputs, Len(outputs) \in Nat
  PROVE  \E after :
           /\ after[0] = run
           /\ \A k \in 1 .. Len(outputs) : after[k] = RunOutput(after[k - 1], outputs[k])
           /\ RunFrom(run, outputs) = after[Len(outputs)]
<1> DEFINE f == CHOOSE after : After(after, run, outputs, Len(outputs))
<1>1. After(f, run, outputs, Len(outputs))
  BY AfterExists
<1>2. RunFrom(run, outputs) = f[Len(outputs)]
  BY DEF RunFrom, After
<1> HIDE DEF f
<1>3. f[0] = run /\ \A k \in 1 .. Len(outputs) : f[k] = RunOutput(f[k - 1], outputs[k])
  <2>1. 0 \in 0 .. Len(outputs) /\ \A k \in 1 .. Len(outputs) : k \in 0 .. Len(outputs) /\ k # 0
    BY SMT
  <2>2. \A k \in 0 .. Len(outputs) :
          f[k] = IF k = 0 THEN run ELSE RunOutput(f[k - 1], outputs[k])
    BY <1>1 DEF After
  <2> QED
    BY <2>1, <2>2
<1> QED
  BY <1>2, <1>3

LEMMA RunNothing ==
  ASSUME NEW run
  PROVE  RunFrom(run, <<>>) = run
<1>1. Len(<<>>) = 0
  BY SMT
<1>2. PICK after : after[0] = run /\ RunFrom(run, <<>>) = after[Len(<<>>)]
  BY <1>1, RunFromChain
<1> QED
  BY <1>1, <1>2

(* The outputs that follow the first run from what it left.                *)
LEMMA RunFirst ==
  ASSUME NEW run, NEW outputs \in Seq(Output), outputs # <<>>
  PROVE  RunFrom(run, outputs) = RunFrom(RunOutput(run, Head(outputs)), Tail(outputs))
<1> DEFINE n == Len(Tail(outputs))
<1>1. /\ n \in Nat /\ Len(outputs) = n + 1 /\ Head(outputs) = outputs[1]
      /\ \A k \in 1 .. n : Tail(outputs)[k] = outputs[k + 1]
  BY SMT
<1>2. PICK f : /\ f[0] = run
               /\ \A k \in 1 .. Len(outputs) : f[k] = RunOutput(f[k - 1], outputs[k])
               /\ RunFrom(run, outputs) = f[Len(outputs)]
  BY <1>1, RunFromChain
<1> DEFINE tail == Tail(outputs)
           next == RunOutput(run, Head(outputs))
<1> HIDE DEF tail, next
<1>3. n = Len(tail)
  BY DEF tail
<1> HIDE DEF n
<1>4. PICK g : /\ g[0] = next
               /\ \A k \in 1 .. Len(tail) : g[k] = RunOutput(g[k - 1], tail[k])
               /\ RunFrom(next, tail) = g[Len(tail)]
  BY <1>3, <1>1, RunFromChain
<1> DEFINE S == {k \in Nat : k <= n => g[k] = f[k + 1]}
<1>5. 0 \in S
  <2>1. 1 \in 1 .. Len(outputs) /\ 1 - 1 = 0 /\ 0 + 1 = 1
    BY <1>1, SMT
  <2>2. g[0] = f[0 + 1]
    BY <1>1, <1>2, <1>4, <2>1 DEF next
  <2> QED
    BY <2>2
<1>6. ASSUME NEW k \in Nat, k \in S PROVE k + 1 \in S
  <2> SUFFICES ASSUME k + 1 <= n PROVE g[k + 1] = f[(k + 1) + 1]
    OBVIOUS
  <2>1. /\ k <= n /\ k + 1 \in 1 .. n /\ (k + 1) + 1 \in 1 .. Len(outputs)
        /\ (k + 1) - 1 = k /\ ((k + 1) + 1) - 1 = k + 1
    BY <1>1, SMT
  <2>2. g[k] = f[k + 1]
    BY <1>6, <2>1
  <2>3. g[k + 1] = RunOutput(g[k], Tail(outputs)[k + 1])
    BY <1>3, <1>4, <2>1 DEF tail
  <2>4. f[(k + 1) + 1] = RunOutput(f[k + 1], outputs[(k + 1) + 1])
    BY <1>2, <2>1
  <2>5. Tail(outputs)[k + 1] = outputs[(k + 1) + 1]
    BY <1>1, <2>1
  <2> QED
    BY <2>2, <2>3, <2>4, <2>5
<1>7. n \in S
  <2> HIDE DEF S
  <2> QED
    BY <1>1, <1>5, <1>6, Induction
<1> QED
  BY <1>3, <1>1, <1>2, <1>4, <1>7, SMT DEF tail, next

(* Nothing is run after an output that failed.                             *)
LEMMA RunFailed ==
  ASSUME NEW attrs, NEW run, run = [ok |-> FALSE, attrs |-> attrs],
         NEW outputs \in Seq(Output)
  PROVE  RunFrom(run, outputs) = run
<1>1. Len(outputs) \in Nat
  BY SMT
<1>2. PICK f : /\ f[0] = run
               /\ \A k \in 1 .. Len(outputs) : f[k] = RunOutput(f[k - 1], outputs[k])
               /\ RunFrom(run, outputs) = f[Len(outputs)]
  BY <1>1, RunFromChain
<1> DEFINE S == {k \in Nat : k <= Len(outputs) => f[k] = run}
<1>3. 0 \in S
  BY <1>2
<1>4. ASSUME NEW k \in Nat, k \in S PROVE k + 1 \in S
  <2> SUFFICES ASSUME k + 1 <= Len(outputs) PROVE f[k + 1] = run
    OBVIOUS
  <2>1. k <= Len(outputs) /\ k + 1 \in 1 .. Len(outputs) /\ (k + 1) - 1 = k
    BY <1>1, SMT
  <2>2. f[k + 1] = RunOutput(run, outputs[k + 1])
    BY <1>2, <1>4, <2>1
  <2>3. RunOutput(run, outputs[k + 1]) = run
    BY Zenon DEF RunOutput
  <2> QED
    BY <2>2, <2>3, Zenon
<1>5. Len(outputs) \in S
  <2> HIDE DEF S
  <2> QED
    BY <1>1, <1>3, <1>4, Induction
<1> QED
  BY <1>1, <1>2, <1>5, SMT

-----------------------------------------------------------------------------

(* What the handler of c knows besides Good(c) about its simulation and    *)
(* what it has left to do.                                                 *)
Knows(c) ==
  /\ pc[c] = "idle" => call[c] = NoCall
  /\ pc[c] = "found" => Name(c) \in Held
  /\ Running(c) /\ call[c].op = "Apply" => sims[Name(c)].def = call[c].def
  /\ pc[c] = "lock" => todo[c] = FlattenSeq(sims[Name(c)].def.systems)
  /\ pc[c] = "store" => /\ Evaluates(sims[Name(c)].attrs, Head(todo[c]))
                        /\ tmp[c] = ValueOf(sims[Name(c)].attrs, Head(todo[c]))

RInv == IInv /\ Types /\ \A c \in Clients : Knows(c)

(* What is not in the hands of the handler of d.                           *)
LEMMA NameApart ==
  ASSUME OwnSimulations, RInv, NEW c \in Clients, NEW d \in Clients, c # d,
         pc[c] \in Entered, pc[d] \in Entered
  PROVE  Name(c) # Name(d)
<1>1. /\ call[c] \in Calls[c] /\ call[c].op # "List"
      /\ call[d] \in Calls[d] /\ call[d].op # "List"
  BY SMT DEF RInv, IInv, Good, Entered, Using
<1> QED
  BY <1>1 DEF OwnSimulations, Name

LEMMA OwnSimulationApart ==
  ASSUME OwnSimulations, RInv, NEW d \in Clients, Frame(d), NEW c \in Clients, c # d,
         pc[c] \in Entered
  PROVE  /\ Name(c)' = Name(c)
         /\ Name(c) \in Held' <=> Name(c) \in Held
         /\ Name(c) \in Held => sims'[Name(c)] = sims[Name(c)]
<1>1. Name(c)' = Name(c)
  BY DEF Frame, Name
<1>2. CASE UNCHANGED sims
  BY <1>1, <1>2 DEF Held
<1>3. CASE ~UNCHANGED sims
  <2>1. pc[d] \in Entered
    BY <1>3 DEF Frame
  <2> QED
    BY <1>1, <1>3, <2>1, NameApart DEF Frame
<1> QED
  BY <1>2, <1>3

LEMMA RunningIsEntered ==
  ASSUME RInv, NEW c \in Clients, Running(c)
  PROVE  pc[c] \in Entered /\ Name(c) \in Held
BY SMT DEF RInv, IInv, Good, Running, Entered, Using, Intact

LEMMA OthersKnow ==
  ASSUME OwnSimulations, RInv, NEW d \in Clients, Frame(d), Aside(d),
         NEW c \in Clients, c # d
  PROVE  Knows(c)'
<1>1. CASE pc[c] \in Entered
  <2>1. /\ Name(c)' = Name(c)
        /\ Name(c) \in Held' <=> Name(c) \in Held
        /\ Name(c) \in Held => sims'[Name(c)] = sims[Name(c)]
    BY <1>1, OwnSimulationApart
  <2>2. /\ call'[c] = call[c] /\ pc'[c] = pc[c] /\ todo'[c] = todo[c] /\ tmp'[c] = tmp[c]
    BY DEF Aside
  <2>3. pc[c] \in Using \cup {"begin", "found"} => Name(c) \in Held
    BY SMT DEF RInv, IInv, Good, Knows, Intact, Using
  <2> QED
    BY <2>1, <2>2, <2>3 DEF RInv, Knows, Running, Using
<1>2. CASE pc[c] \notin Entered
  BY <1>2 DEF RInv, Aside, Knows, Running, Entered, Using
<1> QED
  BY <1>1, <1>2

-----------------------------------------------------------------------------
(* What is settled.                                                        *)
LEMMA SettledRunning ==
  ASSUME OwnSimulations, RInv, NEW c \in Clients, Running(c)
  PROVE  SettledSims[Name(c)] =
           [def    |-> sims[Name(c)].def,
            locked |-> sims[Name(c)].locked,
            attrs  |-> Outcome(c).attrs]
<1>1. pc[c] \in Entered /\ Name(c) \in Held
  BY RunningIsEntered
<1>2. \A d \in Runner(Name(c)) : d = c
  <2> SUFFICES ASSUME NEW d \in Clients, Running(d), Name(d) = Name(c), d # c PROVE FALSE
    BY DEF Runner
  <2> QED
    BY <1>1, RunningIsEntered, NameApart
<1>3. Runner(Name(c)) = {c}
  BY <1>2 DEF Runner
<1>4. (CHOOSE d \in Runner(Name(c)) : TRUE) = c
  BY <1>3
<1> QED
  BY <1>1, <1>3, <1>4, Zenon DEF SettledSims

LEMMA SettledIdle ==
  ASSUME NEW name \in Held, \A c \in Clients : Running(c) => Name(c) # name
  PROVE  SettledSims[name] =
           [def    |-> sims[name].def,
            locked |-> sims[name].locked,
            attrs  |-> sims[name].attrs]
<1>1. Runner(name) = {}
  BY DEF Runner
<1> QED
  BY <1>1, Zenon DEF SettledSims

FinalReply(outcome, request) ==
  IF ~outcome.ok THEN Failed("INTERNAL")
  ELSE IF request.op = "Apply" THEN Answer("OK", <<"sim", request.def>>)
  ELSE Done

(* All of this holds of the next state as well.                            *)
Settled ==
  /\ OwnSimulations /\ RInv =>
       \A c \in Clients : Running(c) =>
         SettledSims[Name(c)] =
           [def    |-> sims[Name(c)].def,
            locked |-> sims[Name(c)].locked,
            attrs  |-> Outcome(c).attrs]
  /\ \A name \in Held : (\A c \in Clients : Running(c) => Name(c) # name) =>
       SettledSims[name] =
         [def    |-> sims[name].def,
          locked |-> sims[name].locked,
          attrs  |-> sims[name].attrs]
  /\ SettledSims = [name \in Held |-> SettledSims[name]]
  /\ SettledReply = [c \in Clients |-> SettledReply[c]]
  /\ \A c \in Clients :
       /\ ~Running(c) => SettledReply[c] = Waiting
       /\ Running(c) => SettledReply[c] = FinalReply(Outcome(c), call[c])

LEMMA SettledIsTrue == Settled
<1>1. SettledSims = [name \in Held |-> SettledSims[name]]
  BY Zenon DEF SettledSims
<1>2. SettledReply = [c \in Clients |-> SettledReply[c]]
  BY Zenon DEF SettledReply
<1>3. \A c \in Clients :
        /\ ~Running(c) => SettledReply[c] = Waiting
        /\ Running(c) => SettledReply[c] = FinalReply(Outcome(c), call[c])
  BY Zenon DEF SettledReply, FinalReply
<1> QED
  BY <1>1, <1>2, <1>3, SettledRunning, SettledIdle, Zenon DEF Settled

LEMMA SettledNext == Settled'
BY SettledIsTrue, PTL

LEMMA WillReply ==
  ASSUME NEW c \in Clients
  PROVE  /\ ~Running(c) => SettledReply[c] = Waiting
         /\ Running(c) => SettledReply[c] = FinalReply(Outcome(c), call[c])
         /\ ~Running(c)' => SettledReply'[c] = Waiting
         /\ Running(c)' => SettledReply'[c] = FinalReply(Outcome(c)', call'[c])
<1>1. /\ ~Running(c) => SettledReply[c] = Waiting
      /\ Running(c) => SettledReply[c] = FinalReply(Outcome(c), call[c])
  BY SettledIsTrue, Zenon DEF Settled
<1>2. /\ ~Running(c)' => SettledReply'[c] = Waiting
      /\ Running(c)' => SettledReply'[c] = FinalReply(Outcome(c), call[c])'
  BY SettledNext, Zenon DEF Settled, Waiting, Answer
<1>3. FinalReply(Outcome(c), call[c])' = FinalReply(Outcome(c)', call'[c])
  BY DEF FinalReply, Failed, Answer, Done
<1> QED
  BY <1>1, <1>2, <1>3, Zenon

(* A step of one handler does not change what is settled for others.       *)
LEMMA OthersSettled ==
  ASSUME OwnSimulations, RInv, NEW d \in Clients, Frame(d), Aside(d),
         NEW c \in Clients, c # d
  PROVE  /\ Running(c)' <=> Running(c)
         /\ Name(c)' = Name(c)
         /\ Running(c) => Outcome(c)' = Outcome(c)
         /\ SettledReply'[c] = SettledReply[c]
<1>1. /\ call'[c] = call[c] /\ pc'[c] = pc[c] /\ todo'[c] = todo[c] /\ reply'[c] = reply[c]
  BY DEF Aside
<1>2. (Running(c)' <=> Running(c)) /\ Name(c)' = Name(c) /\ LeftToRun(c)' = LeftToRun(c)
  BY <1>1 DEF Running, Name, LeftToRun
<1>3. Running(c) => Outcome(c)' = Outcome(c)
  <2> SUFFICES ASSUME Running(c) PROVE Outcome(c)' = Outcome(c)
    OBVIOUS
  <2>1. pc[c] \in Entered /\ Name(c) \in Held
    BY RunningIsEntered
  <2>2. sims'[Name(c)] = sims[Name(c)]
    BY <2>1, OwnSimulationApart
  <2> QED
    BY <1>2, <2>2 DEF Outcome
<1>4. SettledReply'[c] = SettledReply[c]
  <2>1. CASE Running(c)
    BY <1>1, <1>2, <1>3, <2>1, WillReply
  <2>2. CASE ~Running(c)
    BY <1>1, <1>2, <2>2, WillReply
  <2> QED
    BY <2>1, <2>2
<1> QED
  BY <1>2, <1>3, <1>4

(* ... nor what is settled about simulations it has nothing to do with.    *)
LEMMA ElsewhereSettled ==
  ASSUME OwnSimulations, RInv, RInv', NEW d \in Clients, Frame(d), Aside(d),
         NEW name \in Held, name \in Held', sims'[name] = sims[name],
         ~(Running(d) /\ Name(d) = name), ~(Running(d)' /\ Name(d)' = name)
  PROVE  SettledSims'[name] = SettledSims[name]
<1>1. CASE \E c \in Clients : Running(c) /\ Name(c) = name
  <2>1. PICK c \in Clients : Running(c) /\ Name(c) = name
    BY <1>1
  <2>2. c # d
    BY <2>1
  <2>3. Running(c)' /\ Name(c)' = name /\ Outcome(c)' = Outcome(c)
    BY <2>1, <2>2, OthersSettled
  <2>4. SettledSims'[name] = [def    |-> sims'[name].def,
                              locked |-> sims'[name].locked,
                              attrs  |-> Outcome(c)'.attrs]
    <3>1. OwnSimulations'
      BY DEF OwnSimulations
    <3> QED
      BY <2>3, <3>1, SettledNext, Zenon DEF Settled
  <2> QED
    BY <2>1, <2>3, <2>4, SettledRunning
<1>2. CASE \A c \in Clients : Running(c) => Name(c) # name
  <2>1. ASSUME NEW c \in Clients, Running(c)' PROVE Name(c)' # name
    <3>1. CASE c = d
      BY <2>1, <3>1
    <3>2. CASE c # d
      BY <1>2, <2>1, <3>2, OthersSettled
    <3> QED
      BY <3>1, <3>2
  <2>2. SettledSims'[name] = [def    |-> sims'[name].def,
                              locked |-> sims'[name].locked,
                              attrs  |-> sims'[name].attrs]
    BY <2>1, SettledNext, Zenon DEF Settled
  <2>3. SettledSims[name] = [def    |-> sims[name].def,
                             locked |-> sims[name].locked,
                             attrs  |-> sims[name].attrs]
    BY <1>2, SettledIdle
  <2> QED
    BY <2>2, <2>3
<1> QED
  BY <1>1, <1>2

-----------------------------------------------------------------------------
(* The invariant.                                                          *)
LEMMA IdleKnows ==
  ASSUME NEW d \in Clients, pc'[d] \in {"idle", "enter", "check", "replace", "read"},
         pc'[d] = "idle" => call'[d] = NoCall
  PROVE  Knows(d)'
BY SMT DEF Knows, Running

LEMMA ReturnKnows ==
  ASSUME RInv, NEW d \in Clients, NEW answer, Return(d, answer)
  PROVE  Knows(d)'
<1>1. pc'[d] = "idle" /\ call'[d] = NoCall
  BY SMT DEF RInv, Types, TypeOK, Return
<1> QED
  BY <1>1, IdleKnows

LEMMA GotoAt ==
  ASSUME RInv, NEW d \in Clients, NEW label, Goto(d, label)
  PROVE  pc'[d] = label /\ call' = call /\ reply' = reply /\ Name(d)' = Name(d)
BY SMT DEF RInv, Types, TypeOK, Goto, Name

LEMMA ChecksKnow ==
  ASSUME RInv, NEW d \in Clients, CheckExists(d) \/ CheckHeld(d) \/ CheckUnlocked(d)
  PROVE  Knows(d)'
<1>1. CASE \E code : Return(d, Failed(code))
  BY <1>1, ReturnKnows
<1>2. CASE Goto(d, "found") /\ Name(d) \in Held /\ UNCHANGED sims
  BY <1>2, GotoAt DEF Knows, Running, Held
<1>3. CASE Goto(d, "check") \/ Goto(d, "replace")
  BY <1>3, GotoAt, IdleKnows
<1>4. CheckHeld(d) => Goto(d, "check") \/ Goto(d, "replace")
  BY DEF CheckHeld
<1> QED
  BY <1>1, <1>2, <1>3, <1>4, Zenon DEF CheckExists, CheckUnlocked

LEMMA ReplaceKnows ==
  ASSUME RInv, NEW d \in Clients, Replace(d)
  PROVE  Knows(d)'
<1>1. /\ Goto(d, "begin")
      /\ sims' = [x \in Held \cup {Name(d)} |->
                    IF x = Name(d) THEN NewSim(call[d].def) ELSE sims[x]]
  BY Zenon DEF Replace
<1>2. sims'[Name(d)].def = call[d].def
  BY <1>1 DEF NewSim
<1> QED
  BY <1>1, <1>2, GotoAt DEF Knows, Running

LEMMA BindsKnow ==
  ASSUME RInv, NEW d \in Clients,
         BeginInit(d) \/ BindStep(d) \/ BindSet(d) \/ BindRead(d)
  PROVE  Knows(d)'
<1>1. CASE BeginInit(d)
  <2>1. pc[d] = "begin" /\ Goto(d, "run") /\ UNCHANGED sims
    BY <1>1, Zenon DEF BeginInit
  <2> QED
    BY <2>1, GotoAt DEF RInv, Knows, Running
<1>2. CASE BindStep(d)
  <2>1. /\ Goto(d, "lock") /\ UNCHANGED sims
        /\ todo' = [todo EXCEPT ![d] = FlattenSeq(sims[Name(d)].def.systems)]
    BY <1>2, Zenon DEF BindStep, Refer
  <2>2. todo'[d] = FlattenSeq(sims[Name(d)].def.systems)
    BY <2>1 DEF RInv, Types, TypeOK
  <2> QED
    BY <2>1, <2>2, GotoAt DEF Knows, Running
<1>3. CASE BindSet(d)
  <2>1. Goto(d, "run") /\ call[d].op = "Set"
    BY <1>3, Zenon DEF BindSet
  <2> QED
    BY <2>1, GotoAt DEF Knows
<1>4. CASE BindRead(d)
  <2>1. Goto(d, "read")
    BY <1>4, Zenon DEF BindRead
  <2> QED
    BY <2>1, GotoAt, IdleKnows
<1> QED
  BY <1>1, <1>2, <1>3, <1>4

LEMMA LockKnows ==
  ASSUME RInv, NEW d \in Clients, Lock(d)
  PROVE  Knows(d)'
<1>1. pc[d] = "lock" /\ Goto(d, "run")
  BY Zenon DEF Lock
<1>2. call[d].op = "Step"
  BY <1>1, SMT DEF RInv, Types, Belongs
<1> QED
  BY <1>1, <1>2, GotoAt DEF Knows

LEMMA EvaluateKnows ==
  ASSUME RInv, NEW d \in Clients, Evaluate(d)
  PROVE  Knows(d)'
<1> DEFINE attrs == sims[Name(d)].attrs
           out == Head(todo[d])
<1>1. pc[d] = "run" /\ UNCHANGED sims
  BY Zenon DEF Evaluate
<1>2. CASE Evaluates(attrs, out)
  <2>1. /\ tmp' = [tmp EXCEPT ![d] = ValueOf(attrs, out)]
        /\ Goto(d, "store") /\ UNCHANGED todo
    BY <1>2, Zenon DEF Evaluate
  <2>2. tmp'[d] = ValueOf(attrs, out)
    BY <2>1 DEF RInv, Types, TypeOK
  <2> QED
    BY <1>1, <1>2, <2>1, <2>2, GotoAt DEF RInv, Knows, Running
<1>3. CASE ~Evaluates(attrs, out)
  <2>1. Return(d, Failed("INTERNAL"))
    BY <1>3, Zenon DEF Evaluate
  <2> QED
    BY <2>1, ReturnKnows
<1> QED
  BY <1>2, <1>3

(* A store changes one attribute of the simulation and nothing else.       *)
LEMMA StoreEffect ==
  ASSUME RInv, NEW d \in Clients, Store(d)
  PROVE  LET name == Name(d)
             a == Head(todo[d]).target
         IN  /\ pc[d] = "store" /\ name \in Held
             /\ Writable(sims[name].attrs, a) =>
                  /\ Held' = Held
                  /\ \A x \in Held \ {name} : sims'[x] = sims[x]
                  /\ sims'[name].attrs = [sims[name].attrs EXCEPT ![a] = tmp[d]]
                  /\ sims'[name].def = sims[name].def
                  /\ sims'[name].locked = sims[name].locked
                  /\ Goto(d, "run")
                  /\ todo'[d] = Tail(todo[d])
             /\ ~Writable(sims[name].attrs, a) =>
                  Return(d, Failed("INTERNAL")) /\ UNCHANGED sims
<1> DEFINE name == Name(d)
           a == Head(todo[d]).target
<1>1. pc[d] = "store" /\ name \in Held
  BY Zenon DEF Store, Intact
<1>2. CASE Writable(sims[name].attrs, a)
  <2>1. /\ sims' = [sims EXCEPT ![name].attrs[a] = tmp[d]]
        /\ todo' = [todo EXCEPT ![d] = Tail(@)]
        /\ Goto(d, "run")
    BY <1>2, Zenon DEF Store
  <2>2. todo'[d] = Tail(todo[d])
    BY <2>1 DEF RInv, Types, TypeOK
  <2>3. sims[name] \in Sim
    BY <1>1 DEF RInv, Types, TypeOK
  <2> DEFINE attrs == [sims[name].attrs EXCEPT ![a] = tmp[d]]
  <2>4. /\ Held' = Held
        /\ \A x \in Held : sims'[x] = IF x = name THEN [sims[name] EXCEPT !.attrs = attrs]
                                                  ELSE sims[x]
    BY <1>1, <2>1, Zenon DEF Held
  <2> HIDE DEF attrs
  <2>5. /\ [sims[name] EXCEPT !.attrs = attrs].attrs = attrs
        /\ [sims[name] EXCEPT !.attrs = attrs].def = sims[name].def
        /\ [sims[name] EXCEPT !.attrs = attrs].locked = sims[name].locked
    BY <2>3, Zenon DEF Sim
  <2>6. \A x \in Held \ {name} : sims'[x] = sims[x]
    BY <2>4
  <2>7. sims'[name] = [sims[name] EXCEPT !.attrs = attrs]
    BY <1>1, <2>4
  <2> QED
    BY <1>1, <1>2, <2>1, <2>2, <2>4, <2>5, <2>6, <2>7, Zenon DEF attrs
<1>3. CASE ~Writable(sims[name].attrs, a)
  BY <1>1, <1>3, Zenon DEF Store
<1> QED
  BY <1>2, <1>3

LEMMA StoreKnows ==
  ASSUME RInv, NEW d \in Clients, Store(d)
  PROVE  Knows(d)'
<1>1. CASE Writable(sims[Name(d)].attrs, Head(todo[d]).target)
  <2>1. /\ Goto(d, "run") /\ pc[d] = "store"
        /\ sims'[Name(d)].def = sims[Name(d)].def
    BY <1>1, StoreEffect
  <2> QED
    BY <2>1, GotoAt DEF RInv, Knows, Running
<1>2. CASE ~Writable(sims[Name(d)].attrs, Head(todo[d]).target)
  BY <1>2, StoreEffect, ReturnKnows
<1> QED
  BY <1>1, <1>2

LEMMA NextRInv ==
  ASSUME OwnSimulations, RInv, NEW d \in Clients,
         Handle(d) \/ \E request \in Calls[d] : Call(d, request)
  PROVE  RInv' /\ Frame(d) /\ Aside(d)
<1>1. Keeps(d) /\ Types' /\ Aside(d)
  BY StepKeeps, StepTyped DEF RInv
<1>2. IInv'
  BY <1>1, OthersStayGood DEF RInv, IInv, Keeps
<1>3. ASSUME NEW request, Call(d, request) PROVE Knows(d)'
  <2>1. pc'[d] = "enter"
    BY <1>3, SMT DEF Call, RInv, Types, TypeOK
  <2> QED
    BY <2>1, IdleKnows
<1>4. ASSUME NEW answer, Return(d, answer) PROVE Knows(d)'
  BY <1>4, ReturnKnows
<1>5. Knows(d)'
  BY <1>3, <1>4, NoUndefinedStep, ChecksKnow, ReplaceKnows, BindsKnow, LockKnows,
     EvaluateKnows, StoreKnows, Zenon
     DEF RInv, Handle, ListSimulation, AtThrows, Erase, Read, Finish
<1> QED
  BY <1>1, <1>2, <1>5, OthersKnow DEF RInv, Keeps

-----------------------------------------------------------------------------
(* The definitions of the registry in terms of those of the service.       *)
LEMMA RegistryRuns ==
  ASSUME NEW attrs, NEW outputs
  PROVE  Registry!RunGraph(attrs, outputs) = RunGraph(attrs, outputs)
BY DEF Registry!RunGraph, Registry!RunFrom, Registry!RunOutput, Registry!Evaluates,
       Registry!Readable, Registry!Writable, Registry!ValueOf,
       RunGraph, RunFrom, RunOutput, Evaluates, Readable, Writable, ValueOf

LEMMA RegistryHolds ==
  /\ Registry!Held = Held
  /\ \A c : Registry!Name(c) = Name(c)
  /\ Registry!Waiting = Waiting /\ Registry!Done = Done
  /\ \A code : Registry!Failed(code) = Failed(code)
  /\ \A code, body : Registry!Answer(code, body) = Answer(code, body)
<1>1. DOMAIN SettledSims = Held
  BY Zenon DEF SettledSims
<1> QED
  BY <1>1 DEF Registry!Held, Registry!Name, Registry!Waiting, Registry!Done,
              Registry!Failed, Registry!Answer, Name, Waiting, Done, Failed, Answer

LEMMA RegistryFlattens ==
  ASSUME NEW seqs
  PROVE  Registry!FlattenSeq(seqs) = FlattenSeq(seqs)
BY DEF Registry!FlattenSeq, FlattenSeq

(* A call is pending until its handler takes effect or returns.            *)
LEMMA RegistryPending ==
  ASSUME RInv, NEW d \in Clients, ~Running(d), pc[d] # "idle", NEW op, call[d].op = op
  PROVE  Registry!Pending(d, op)
<1>1. call[d] # NoCall
  BY NoCallAssumption DEF RInv, IInv, Good
<1> QED
  BY <1>1, WillReply, RegistryHolds DEF Registry!Pending

LEMMA RegistryStep ==
  ASSUME NEW d \in Clients,
         \/ \E request \in Calls[d] : Registry!Call(d, request)
         \/ Registry!ApplySimulation(d) \/ Registry!StepSimulation(d)
         \/ Registry!DropSimulation(d) \/ Registry!GetSimulation(d)
         \/ Registry!ListSimulation(d) \/ Registry!GetAttribute(d)
         \/ Registry!SetAttribute(d) \/ Registry!Reply(d)
  PROVE  Registry!Next
BY Zenon DEF Registry!Next

LEMMA RegistryMisses ==
  ASSUME RInv, NEW d \in Clients, ~Running(d), pc[d] # "idle",
         call[d].op \in {"Step", "Drop", "GetSim", "Get", "Set"},
         Name(d) \notin Held, Registry!Replies(d, Failed("NOT_FOUND")),
         SettledSims' = SettledSims
  PROVE  Registry!Next
<1>1. Registry!Missing(d)
  BY RegistryHolds DEF Registry!Missing, Registry!Answers
<1>2. Registry!Pending(d, call[d].op)
  BY RegistryPending
<1> QED
  BY <1>1, <1>2, RegistryStep, Zenon DEF Registry!StepSimulation, Registry!DropSimulation,
     Registry!GetSimulation, Registry!GetAttribute, Registry!SetAttribute

-----------------------------------------------------------------------------
(* What a step of the service is to a client of the registry.              *)
Stutters ==
  /\ SettledSims' = SettledSims /\ SettledReply' = SettledReply
  /\ UNCHANGED <<call, reply>>

SettledAnswer(d, answer) == SettledReply' = [SettledReply EXCEPT ![d] = answer]

LEMMA SimulationsAlike ==
  ASSUME Held' = Held, \A name \in Held : SettledSims'[name] = SettledSims[name]
  PROVE  SettledSims' = SettledSims
<1>1. SettledSims = [name \in Held |-> SettledSims[name]]
  BY SettledIsTrue, Zenon DEF Settled
<1>2. SettledSims' = [name \in Held' |-> SettledSims'[name]]
  BY SettledNext, Zenon DEF Settled
<1> QED
  BY <1>1, <1>2, Zenon

LEMMA OneAnswers ==
  ASSUME OwnSimulations, RInv, NEW d \in Clients, Frame(d), Aside(d)
  PROVE  SettledAnswer(d, SettledReply'[d])
<1>1. SettledReply = [c \in Clients |-> SettledReply[c]]
  BY SettledIsTrue, Zenon DEF Settled
<1>2. SettledReply' = [c \in Clients |-> SettledReply'[c]]
  BY SettledNext, Zenon DEF Settled
<1>3. \A c \in Clients \ {d} : SettledReply'[c] = SettledReply[c]
  BY OthersSettled
<1> DEFINE s == SettledReply
           t == SettledReply'
<1> HIDE DEF s, t
<1>4. s = [c \in Clients |-> s[c]] /\ t = [c \in Clients |-> t[c]]
      /\ \A c \in Clients \ {d} : t[c] = s[c]
  BY <1>1, <1>2, <1>3 DEF s, t
<1>5. t = [s EXCEPT ![d] = t[d]]
  BY <1>4, SMT
<1> QED
  BY <1>5 DEF s, t, SettledAnswer

LEMMA NothingAnswered ==
  ASSUME OwnSimulations, RInv, NEW d \in Clients, Frame(d), Aside(d),
         SettledReply'[d] = SettledReply[d]
  PROVE  SettledReply' = SettledReply
<1>1. SettledReply = [c \in Clients |-> SettledReply[c]]
  BY SettledIsTrue, Zenon DEF Settled
<1>2. SettledReply' = [c \in Clients |-> SettledReply'[c]]
  BY SettledNext, Zenon DEF Settled
<1>3. \A c \in Clients : SettledReply'[c] = SettledReply[c]
  BY OthersSettled
<1> QED
  BY <1>1, <1>2, <1>3, Zenon

(* Nothing is settled while a handler is not running graphs ...            *)
LEMMA QuietStep ==
  ASSUME OwnSimulations, RInv, RInv', NEW d \in Clients, Frame(d), Aside(d),
         ~Running(d), ~Running(d)', UNCHANGED sims
  PROVE  SettledSims' = SettledSims /\ SettledReply' = SettledReply
<1>1. Held' = Held
  BY DEF Held
<1>2. \A name \in Held : SettledSims'[name] = SettledSims[name]
  BY <1>1, ElsewhereSettled
<1>3. SettledReply'[d] = SettledReply[d]
  BY WillReply
<1> QED
  BY <1>1, <1>2, <1>3, SimulationsAlike, NothingAnswered

(* ... and when it returns, it has answered.                               *)
LEMMA ReturnEffect ==
  ASSUME OwnSimulations, RInv, NEW d \in Clients, NEW answer, Return(d, answer),
         Frame(d), Aside(d)
  PROVE  ~Running(d)' /\ Registry!Replies(d, answer)
<1>1. /\ pc'[d] = "idle"
      /\ call' = [call EXCEPT ![d] = NoCall]
      /\ reply' = [reply EXCEPT ![d] = answer]
  BY Zenon DEF Return, RInv, Types, TypeOK
<1>2. ~Running(d)'
  BY <1>1 DEF Running
<1>3. SettledReply' = [SettledReply EXCEPT ![d] = Waiting]
  BY <1>2, OneAnswers, WillReply DEF SettledAnswer
<1> QED
  BY <1>1, <1>2, <1>3, RegistryHolds DEF Registry!Replies

(* A handler that is running graphs comes closer to its answer.            *)
LEMMA RunningStep ==
  ASSUME OwnSimulations, RInv, RInv', NEW d \in Clients, Frame(d), Aside(d),
         Running(d), Held' = Held,
         \A name \in Held \ {Name(d)} : sims'[name] = sims[name],
         sims'[Name(d)].def = sims[Name(d)].def,
         sims'[Name(d)].locked = sims[Name(d)].locked,
         \/ Running(d)' /\ Outcome(d)' = Outcome(d) /\ UNCHANGED <<call, reply>>
         \/ Outcome(d).attrs = sims'[Name(d)].attrs /\ Return(d, SettledReply[d])
  PROVE  Stutters \/ Registry!Next
<1>1. Name(d) \in Held
  BY RunningIsEntered
<1>2. ASSUME NEW name \in Held, name # Name(d)
      PROVE  SettledSims'[name] = SettledSims[name]
  <2>1. Running(d)' => UNCHANGED call
    BY ReturnEffect
  <2>2. Running(d)' => Name(d)' # name
    BY <1>2, <2>1 DEF Name
  <2> QED
    BY <1>2, <2>2, ElsewhereSettled
<1>3. SettledSims[Name(d)] = [def    |-> sims[Name(d)].def,
                              locked |-> sims[Name(d)].locked,
                              attrs  |-> Outcome(d).attrs]
  BY SettledRunning
<1>4. CASE Running(d)' /\ Outcome(d)' = Outcome(d) /\ UNCHANGED <<call, reply>>
  <2>1. Name(d)' = Name(d)
    BY <1>4 DEF Name
  <2>2. OwnSimulations'
    BY DEF OwnSimulations
  <2>3. SettledSims'[Name(d)'] = [def    |-> sims'[Name(d)'].def,
                                  locked |-> sims'[Name(d)'].locked,
                                  attrs  |-> Outcome(d)'.attrs]
    BY <1>4, <2>2, SettledNext, Zenon DEF Settled
  <2>4. SettledSims'[Name(d)] = SettledSims[Name(d)]
    BY <1>3, <1>4, <2>1, <2>3
  <2>5. SettledReply'[d] = SettledReply[d]
    BY <1>4, WillReply
  <2> QED
    BY <1>2, <1>4, <2>4, <2>5, SimulationsAlike, NothingAnswered DEF Stutters
<1>5. CASE Outcome(d).attrs = sims'[Name(d)].attrs /\ Return(d, SettledReply[d])
  <2>1. ~Running(d)' /\ Registry!Replies(d, SettledReply[d])
    BY <1>5, ReturnEffect
  <2>2. \A c \in Clients : Running(c)' => Name(c)' # Name(d)
    <3> SUFFICES ASSUME NEW c \in Clients, Running(c)' PROVE Name(c)' # Name(d)
      OBVIOUS
    <3>1. c # d
      BY <2>1
    <3>2. Running(c) /\ Name(c)' = Name(c)
      BY <3>1, OthersSettled
    <3> QED
      BY <3>1, <3>2, RunningIsEntered, NameApart
  <2>3. SettledSims'[Name(d)] = [def    |-> sims'[Name(d)].def,
                                 locked |-> sims'[Name(d)].locked,
                                 attrs  |-> sims'[Name(d)].attrs]
    BY <1>1, <2>2, SettledNext, Zenon DEF Settled
  <2>4. SettledSims'[Name(d)] = SettledSims[Name(d)]
    BY <1>3, <1>5, <2>3
  <2>5. SettledReply[d] # Waiting
    <3>1. SettledReply[d] = FinalReply(Outcome(d), call[d])
      BY WillReply
    <3>2. SettledReply[d].code \in {"OK", "INTERNAL"}
      BY <3>1 DEF FinalReply, Failed, Done, Answer
    <3> QED
      BY <3>2 DEF Waiting, Answer
  <2>6. SettledSims' = SettledSims
    BY <1>2, <2>4, SimulationsAlike
  <2>7. Registry!Reply(d)
    BY <2>1, <2>5, <2>6, RegistryHolds DEF Registry!Reply
  <2> QED
    BY <2>7, RegistryStep
<1> QED
  BY <1>4, <1>5

(* A step in which the simulation of d's call takes on its settled value.  *)
LEMMA EffectiveStep ==
  ASSUME OwnSimulations, RInv, RInv', NEW d \in Clients, Frame(d), Aside(d),
         ~Running(d), Running(d)', UNCHANGED <<call, reply>>, pc[d] \in Entered,
         Held' = Held \cup {Name(d)},
         \A name \in Held \ {Name(d)} : sims'[name] = sims[name]
  PROVE  /\ SettledSims' =
              [name \in DOMAIN SettledSims \cup {Name(d)} |->
                 IF name = Name(d)
                   THEN [def    |-> sims'[Name(d)].def,
                         locked |-> sims'[Name(d)].locked,
                         attrs  |-> Outcome(d)'.attrs]
                   ELSE SettledSims[name]]
         /\ SettledAnswer(d, SettledReply'[d])
         /\ Name(d) \in Held => SettledSims[Name(d)] = [def    |-> sims[Name(d)].def,
                                                        locked |-> sims[Name(d)].locked,
                                                        attrs  |-> sims[Name(d)].attrs]
<1>1. Name(d)' = Name(d)
  BY DEF Name
<1>2. ASSUME NEW name \in Held, name # Name(d)
      PROVE  SettledSims'[name] = SettledSims[name]
  BY <1>1, <1>2, ElsewhereSettled
<1>3. OwnSimulations'
  BY DEF OwnSimulations
<1>4. SettledSims'[Name(d)'] = [def    |-> sims'[Name(d)'].def,
                                locked |-> sims'[Name(d)'].locked,
                                attrs  |-> Outcome(d)'.attrs]
  BY <1>3, SettledNext, Zenon DEF Settled
<1>5. SettledSims' = [name \in Held' |-> SettledSims'[name]] /\ DOMAIN SettledSims = Held
  BY SettledIsTrue, SettledNext, Zenon DEF Settled, SettledSims
<1>6. Name(d) \in Held => SettledSims[Name(d)] = [def    |-> sims[Name(d)].def,
                                                  locked |-> sims[Name(d)].locked,
                                                  attrs  |-> sims[Name(d)].attrs]
  <2>1. \A c \in Clients : Running(c) => Name(c) # Name(d)
    BY RunningIsEntered, NameApart
  <2> QED
    BY <2>1, SettledIdle
<1> QED
  BY <1>1, <1>2, <1>4, <1>5, <1>6, OneAnswers, Zenon

-----------------------------------------------------------------------------
(* Each step of the service, in turn.                                      *)
LEMMA NobodyRuns ==
  ASSUME OwnSimulations, RInv, NEW d \in Clients, ~Running(d),
         call[d] \in Calls[d], call[d].op # "List"
  PROVE  /\ \A c \in Clients : Running(c) => Name(c) # Name(d)
         /\ Name(d) \in Held =>
              /\ SettledSims[Name(d)].def = sims[Name(d)].def
              /\ SettledSims[Name(d)].locked = sims[Name(d)].locked
              /\ SettledSims[Name(d)].attrs = sims[Name(d)].attrs
<1>1. ASSUME NEW c \in Clients, Running(c) PROVE Name(c) # Name(d)
  <2>1. call[c] \in Calls[c] /\ call[c].op # "List"
    BY <1>1, RunningIsEntered, SMT DEF RInv, IInv, Good, Entered, Using
  <2>2. c # d
    BY <1>1
  <2> QED
    BY <2>1, <2>2 DEF OwnSimulations, Name
<1>2. Name(d) \in Held =>
        SettledSims[Name(d)] = [def    |-> sims[Name(d)].def,
                                locked |-> sims[Name(d)].locked,
                                attrs  |-> sims[Name(d)].attrs]
  BY <1>1, SettledIdle
<1> DEFINE settled == SettledSims[Name(d)]
<1> HIDE DEF settled
<1>3. ASSUME Name(d) \in Held
      PROVE  /\ settled.def = sims[Name(d)].def
             /\ settled.locked = sims[Name(d)].locked
             /\ settled.attrs = sims[Name(d)].attrs
  <2>1. settled = [def    |-> sims[Name(d)].def,
                   locked |-> sims[Name(d)].locked,
                   attrs  |-> sims[Name(d)].attrs]
    BY <1>2, <1>3 DEF settled
  <2> QED
    BY <2>1, Zenon
<1> QED
  BY <1>1, <1>3 DEF settled

LEMMA CallStep ==
  ASSUME OwnSimulations, RInv, RInv', NEW d \in Clients, Frame(d), Aside(d),
         NEW request \in Calls[d], Call(d, request)
  PROVE  Registry!Next
<1>1. /\ UNCHANGED sims /\ pc[d] = "idle" /\ pc'[d] = "enter"
      /\ call' = [call EXCEPT ![d] = request]
      /\ reply' = [reply EXCEPT ![d] = Waiting]
  BY SMT DEF Call, RInv, Types, TypeOK
<1>2. ~Running(d) /\ ~Running(d)' /\ call[d] = NoCall
  BY <1>1 DEF Running, RInv, Knows
<1>3. SettledSims' = SettledSims /\ SettledReply' = SettledReply
  BY <1>1, <1>2, QuietStep
<1>4. Registry!Call(d, request)
  BY <1>1, <1>2, <1>3, RegistryHolds DEF Registry!Call
<1> QED
  BY <1>4, RegistryStep

LEMMA ListStep ==
  ASSUME OwnSimulations, RInv, RInv', NEW d \in Clients, Frame(d), Aside(d),
         ListSimulation(d)
  PROVE  Registry!Next
<1>1. /\ pc[d] = "enter" /\ call[d].op = "List" /\ UNCHANGED sims
      /\ Return(d, Answer("OK", <<"names", Held>>))
  BY Zenon DEF ListSimulation
<1>2. ~Running(d) /\ Registry!Pending(d, "List")
  BY <1>1, RegistryPending DEF Running
<1>3. ~Running(d)' /\ Registry!Replies(d, Answer("OK", <<"names", Held>>))
  BY <1>1, ReturnEffect
<1>4. SettledSims' = SettledSims
  BY <1>1, <1>2, <1>3, QuietStep
<1>5. Registry!ListSimulation(d)
  BY <1>2, <1>3, <1>4, RegistryHolds DEF Registry!ListSimulation, Registry!Answers
<1> QED
  BY <1>5, RegistryStep

(* A step that only says where the handler is.                             *)
LEMMA GotoStep ==
  ASSUME OwnSimulations, RInv, RInv', NEW d \in Clients, Frame(d), Aside(d),
         ~Running(d), NEW label \in {"check", "found", "replace", "lock", "read"},
         Goto(d, label), UNCHANGED sims
  PROVE  Stutters
<1>1. pc'[d] = label /\ call' = call /\ reply' = reply
  BY GotoAt
<1>2. ~Running(d)'
  BY <1>1 DEF Running
<1> QED
  BY <1>1, <1>2, QuietStep DEF Stutters

LEMMA CheckExistsStep ==
  ASSUME OwnSimulations, RInv, RInv', NEW d \in Clients, Frame(d), Aside(d),
         CheckExists(d)
  PROVE  Stutters \/ Registry!Next
<1>1. /\ pc[d] = "enter" /\ UNCHANGED sims
      /\ call[d].op \in {"Step", "Drop", "GetSim", "Get", "Set"}
  BY Zenon DEF CheckExists
<1>2. ~Running(d)
  BY <1>1 DEF Running
<1>3. CASE Name(d) \in Held
  <2>1. Goto(d, "found")
    BY <1>3, Zenon DEF CheckExists
  <2> QED
    BY <1>1, <1>2, <2>1, GotoStep
<1>4. CASE Name(d) \notin Held
  <2>1. Return(d, Failed("NOT_FOUND"))
    BY <1>4, Zenon DEF CheckExists
  <2>2. ~Running(d)' /\ Registry!Replies(d, Failed("NOT_FOUND"))
    BY <2>1, ReturnEffect
  <2>3. SettledSims' = SettledSims
    BY <1>1, <1>2, <2>2, QuietStep
  <2> QED
    BY <1>1, <1>2, <1>4, <2>2, <2>3, RegistryMisses
<1> QED
  BY <1>3, <1>4

LEMMA CheckHeldStep ==
  ASSUME OwnSimulations, RInv, RInv', NEW d \in Clients, Frame(d), Aside(d),
         CheckHeld(d)
  PROVE  Stutters
<1>1. /\ pc[d] = "enter" /\ UNCHANGED sims
      /\ Goto(d, "check") \/ Goto(d, "replace")
  BY DEF CheckHeld
<1>2. ~Running(d)
  BY <1>1 DEF Running
<1> QED
  BY <1>1, <1>2, GotoStep

LEMMA CheckUnlockedStep ==
  ASSUME OwnSimulations, RInv, RInv', NEW d \in Clients, Frame(d), Aside(d),
         CheckUnlocked(d)
  PROVE  Stutters \/ Registry!Next
<1>1. pc[d] = "check" /\ Name(d) \in Held /\ UNCHANGED sims
  BY Zenon DEF CheckUnlocked
<1>2. ~Running(d) /\ call[d] \in Calls[d] /\ call[d].op = "Apply"
  BY <1>1 DEF Running, RInv, Types, Belongs
<1>3. CASE sims[Name(d)].locked
  <2>1. Return(d, Failed("ALREADY_EXISTS"))
    BY <1>3, Zenon DEF CheckUnlocked
  <2>2. ~Running(d)' /\ Registry!Replies(d, Failed("ALREADY_EXISTS"))
    BY <2>1, ReturnEffect
  <2>3. SettledSims' = SettledSims
    BY <1>1, <1>2, <2>2, QuietStep
  <2>4. SettledSims[Name(d)].locked
    BY <1>1, <1>2, <1>3, NobodyRuns
  <2>5. Registry!Pending(d, "Apply")
    BY <1>1, <1>2, RegistryPending
  <2>6. Registry!ApplySimulation(d)
    BY <1>1, <2>2, <2>3, <2>4, <2>5, RegistryHolds, Zenon
       DEF Registry!ApplySimulation, Registry!Answers
  <2> QED
    BY <2>6, RegistryStep
<1>4. CASE ~sims[Name(d)].locked
  <2>1. Goto(d, "replace")
    BY <1>4, Zenon DEF CheckUnlocked
  <2> QED
    BY <1>1, <1>2, <2>1, GotoStep
<1> QED
  BY <1>3, <1>4

LEMMA ReadStep ==
  ASSUME OwnSimulations, RInv, RInv', NEW d \in Clients, Frame(d), Aside(d), Read(d)
  PROVE  Registry!Next
<1> DEFINE sim == sims[Name(d)]
           answer == IF call[d].op = "GetSim" THEN Answer("OK", <<"sim", sim.def>>)
                     ELSE IF Readable(sim.attrs, call[d].attr)
                       THEN Answer("OK", <<"value", sim.attrs[call[d].attr]>>)
                       ELSE Failed("NOT_FOUND")
<1>1. pc[d] = "read" /\ UNCHANGED sims /\ Name(d) \in Held /\ Return(d, answer)
  BY Zenon DEF Read, Intact
<1>2. /\ ~Running(d) /\ call[d] \in Calls[d] /\ call[d].op \in {"Get", "GetSim"}
  BY <1>1 DEF Running, RInv, Types, Belongs
<1>3. SettledSims' = SettledSims /\ Registry!Replies(d, answer)
  <2> HIDE DEF answer
  <2>1. ~Running(d)' /\ Registry!Replies(d, answer)
    BY <1>1, ReturnEffect
  <2> QED
    BY <1>1, <1>2, <2>1, QuietStep
<1>4. SettledSims[Name(d)].def = sim.def /\ SettledSims[Name(d)].attrs = sim.attrs
  BY <1>1, <1>2, NobodyRuns
<1>5. CASE call[d].op = "GetSim"
  <2>1. Registry!Replies(d, Answer("OK", <<"sim", SettledSims[Name(d)].def>>))
    BY <1>3, <1>4, <1>5
  <2>2. Registry!Pending(d, "GetSim")
    BY <1>1, <1>2, <1>5, RegistryPending
  <2>3. Registry!GetSimulation(d)
    BY <1>1, <1>3, <2>1, <2>2, RegistryHolds, Zenon
       DEF Registry!GetSimulation, Registry!Answers
  <2> QED
    BY <2>3, RegistryStep
<1>6. CASE call[d].op = "Get"
  <2>1. Registry!Replies(d, IF Readable(sim.attrs, call[d].attr)
                              THEN Answer("OK", <<"value", sim.attrs[call[d].attr]>>)
                              ELSE Failed("NOT_FOUND"))
    BY <1>3, <1>6
  <2>2. Registry!Readable(sim.attrs, call[d].attr) <=> Readable(sim.attrs, call[d].attr)
    BY DEF Registry!Readable, Readable
  <2>3. Registry!Pending(d, "Get")
    BY <1>1, <1>2, <1>6, RegistryPending
  <2>4. Registry!GetAttribute(d)
    BY <1>1, <1>3, <1>4, <2>1, <2>2, <2>3, RegistryHolds, Zenon
       DEF Registry!GetAttribute, Registry!Answers
  <2> QED
    BY <2>4, RegistryStep
<1> QED
  BY <1>2, <1>5, <1>6

(* Taking references is something the registry does not see.               *)
LEMMA BindQuietly ==
  ASSUME OwnSimulations, RInv, RInv', NEW d \in Clients, Frame(d), Aside(d),
         BindStep(d) \/ BindRead(d)
  PROVE  Stutters
<1>1. /\ pc[d] = "found" /\ UNCHANGED sims
      /\ Goto(d, "lock") \/ Goto(d, "read")
  BY Zenon DEF BindStep, BindRead, Refer
<1>2. ~Running(d)
  BY <1>1 DEF Running
<1> QED
  BY <1>1, <1>2, GotoStep

(* The init graph runs on what Replace made.                               *)
LEMMA BeginInitStep ==
  ASSUME OwnSimulations, RInv, RInv', NEW d \in Clients, Frame(d), Aside(d), BeginInit(d)
  PROVE  Stutters \/ Registry!Next
<1>1. /\ pc[d] = "begin" /\ Name(d) \in Held /\ UNCHANGED sims /\ Goto(d, "run")
      /\ todo' = [todo EXCEPT ![d] = sims[Name(d)].def.init]
  BY Zenon DEF BeginInit
<1>2. pc'[d] = "run" /\ call' = call /\ reply' = reply /\ Name(d)' = Name(d)
  BY <1>1, GotoAt
<1>3. todo'[d] = call[d].def.init
  <2>1. call[d].op = "Apply" /\ todo'[d] = sims[Name(d)].def.init
    BY <1>1, SMT DEF RInv, Types, TypeOK, Belongs
  <2> QED
    BY <1>1, <2>1 DEF RInv, Knows, Running
<1>4. Running(d) /\ Running(d)'
  BY <1>1, <1>2 DEF Running
<1>5. LeftToRun(d) = call[d].def.init /\ LeftToRun(d)' = call[d].def.init
  BY <1>1, <1>2, <1>3 DEF LeftToRun
<1>6. Outcome(d)' = Outcome(d)
  BY <1>1, <1>2, <1>5 DEF Outcome
<1>7. Held' = Held
  BY <1>1 DEF Held
<1> QED
  BY <1>1, <1>2, <1>4, <1>6, <1>7, RunningStep

(* What is left to run, if there is any, starts with its first output.     *)
LEMMA FirstOutcome ==
  ASSUME RInv, NEW d \in Clients, pc[d] \in {"run", "store"}, todo[d] # <<>>
  PROVE  LET attrs == sims[Name(d)].attrs
             out   == Head(todo[d])
         IN  /\ Evaluates(attrs, out) /\ Writable(attrs, out.target) =>
                  Outcome(d) = RunGraph([attrs EXCEPT ![out.target] = ValueOf(attrs, out)],
                                        Tail(todo[d]))
             /\ ~(Evaluates(attrs, out) /\ Writable(attrs, out.target)) =>
                  Outcome(d) = [ok |-> FALSE, attrs |-> attrs]
<1> DEFINE attrs == sims[Name(d)].attrs
           out   == Head(todo[d])
           start == [ok |-> TRUE, attrs |-> attrs]
<1>1. todo[d] \in Seq(Output) /\ Tail(todo[d]) \in Seq(Output)
  BY SMT DEF RInv, Types, TypeOK
<1>2. Outcome(d) = RunFrom(start, todo[d])
  BY DEF Outcome, LeftToRun, RunGraph
<1> HIDE DEF attrs, out
<1>3. start.ok /\ start.attrs = attrs
  BY Zenon
<1>4. Outcome(d) = RunFrom(RunOutput(start, out), Tail(todo[d]))
  BY <1>1, <1>2, RunFirst DEF out
<1>5. CASE Evaluates(attrs, out) /\ Writable(attrs, out.target)
  <2>1. RunOutput(start, out) =
          [ok |-> TRUE, attrs |-> [attrs EXCEPT ![out.target] = ValueOf(attrs, out)]]
    BY <1>3, <1>5, Zenon DEF RunOutput
  <2> QED
    BY <1>4, <1>5, <2>1, Zenon DEF RunGraph, attrs, out
<1>6. CASE ~(Evaluates(attrs, out) /\ Writable(attrs, out.target))
  <2>1. RunOutput(start, out) = [ok |-> FALSE, attrs |-> attrs]
    BY <1>3, <1>6, Zenon DEF RunOutput
  <2>2. Outcome(d) = [ok |-> FALSE, attrs |-> attrs]
    BY <1>1, <1>4, <2>1, RunFailed
  <2> QED
    BY <1>6, <2>2, Zenon DEF attrs, out
<1> QED
  BY <1>5, <1>6

LEMMA OutcomeParts ==
  ASSUME NEW outcome, NEW ok \in BOOLEAN, NEW attrs, outcome = [ok |-> ok, attrs |-> attrs]
  PROVE  (outcome.ok <=> ok) /\ outcome.attrs = attrs
<1>1. outcome.ok = ok
  BY Zenon
<1>2. outcome.attrs = attrs
  BY Zenon
<1> QED
  BY <1>1, <1>2, Zenon

(* A handler whose graph fails has changed nothing since.                  *)
LEMMA FailingStep ==
  ASSUME OwnSimulations, RInv, RInv', NEW d \in Clients, Frame(d), Aside(d),
         pc[d] \in {"run", "store"}, UNCHANGED sims, Return(d, Failed("INTERNAL")),
         Outcome(d) = [ok |-> FALSE, attrs |-> sims[Name(d)].attrs]
  PROVE  Stutters \/ Registry!Next
<1>1. Running(d)
  BY DEF Running
<1>2. ~Outcome(d).ok /\ Outcome(d).attrs = sims[Name(d)].attrs
  BY OutcomeParts
<1>3. SettledReply[d] = Failed("INTERNAL")
  BY <1>1, <1>2, WillReply, Zenon DEF FinalReply
<1>4. Held' = Held
  BY DEF Held
<1> QED
  BY <1>1, <1>2, <1>3, <1>4, RunningStep

LEMMA EvaluateStep ==
  ASSUME OwnSimulations, RInv, RInv', NEW d \in Clients, Frame(d), Aside(d), Evaluate(d)
  PROVE  Stutters \/ Registry!Next
<1> DEFINE attrs == sims[Name(d)].attrs
           out   == Head(todo[d])
<1>1. pc[d] = "run" /\ todo[d] # <<>> /\ UNCHANGED sims
  BY Zenon DEF Evaluate
<1>2. CASE Evaluates(attrs, out)
  <2>1. Goto(d, "store") /\ UNCHANGED todo
    BY <1>2, Zenon DEF Evaluate
  <2>2. pc'[d] = "store" /\ call' = call /\ reply' = reply /\ Name(d)' = Name(d)
    BY <2>1, GotoAt
  <2>3. Running(d) /\ Running(d)' /\ Outcome(d)' = Outcome(d) /\ Held' = Held
    BY <1>1, <2>1, <2>2 DEF Running, Outcome, LeftToRun, Held
  <2> QED
    BY <1>1, <2>2, <2>3, RunningStep
<1>3. CASE ~Evaluates(attrs, out)
  <2>1. Return(d, Failed("INTERNAL"))
    BY <1>3, Zenon DEF Evaluate
  <2>2. Outcome(d) = [ok |-> FALSE, attrs |-> attrs]
    BY <1>1, <1>3, FirstOutcome
  <2> QED
    BY <1>1, <2>1, <2>2, FailingStep
<1> QED
  BY <1>2, <1>3

LEMMA StoreStep ==
  ASSUME OwnSimulations, RInv, RInv', NEW d \in Clients, Frame(d), Aside(d), Store(d)
  PROVE  Stutters \/ Registry!Next
<1> DEFINE name  == Name(d)
           attrs == sims[name].attrs
           out   == Head(todo[d])
<1>1. /\ pc[d] = "store" /\ name \in Held /\ todo[d] # <<>>
      /\ Evaluates(attrs, out) /\ tmp[d] = ValueOf(attrs, out)
  <2>1. pc[d] = "store" /\ name \in Held
    BY StoreEffect
  <2>2. todo[d] # <<>>
    BY <2>1 DEF RInv, Types, Belongs
  <2> QED
    BY <2>1, <2>2 DEF RInv, Knows
<1>2. CASE Writable(attrs, out.target)
  <2>1. /\ Held' = Held
        /\ \A x \in Held \ {name} : sims'[x] = sims[x]
        /\ sims'[name].attrs = [attrs EXCEPT ![out.target] = tmp[d]]
        /\ sims'[name].def = sims[name].def
        /\ sims'[name].locked = sims[name].locked
        /\ Goto(d, "run")
        /\ todo'[d] = Tail(todo[d])
    BY <1>2, StoreEffect
  <2>2. pc'[d] = "run" /\ call' = call /\ reply' = reply /\ Name(d)' = name
    BY <2>1, GotoAt
  <2>3. Running(d) /\ Running(d)'
    BY <1>1, <2>2 DEF Running
  <2>4. Outcome(d)' = RunGraph(sims'[name].attrs, Tail(todo[d]))
    BY <2>1, <2>2 DEF Outcome, LeftToRun
  <2>5. Outcome(d) = RunGraph(sims'[name].attrs, Tail(todo[d]))
    BY <1>1, <1>2, <2>1, FirstOutcome
  <2> QED
    BY <2>1, <2>2, <2>3, <2>4, <2>5, RunningStep
<1>3. CASE ~Writable(attrs, out.target)
  <2>1. Return(d, Failed("INTERNAL")) /\ UNCHANGED sims
    BY <1>3, StoreEffect
  <2>2. Outcome(d) = [ok |-> FALSE, attrs |-> attrs]
    BY <1>1, <1>3, FirstOutcome
  <2> QED
    BY <1>1, <2>1, <2>2, FailingStep
<1> QED
  BY <1>2, <1>3

LEMMA FinishStep ==
  ASSUME OwnSimulations, RInv, RInv', NEW d \in Clients, Frame(d), Aside(d), Finish(d)
  PROVE  Stutters \/ Registry!Next
<1> DEFINE answer == IF call[d].op = "Apply" THEN Answer("OK", <<"sim", sims[Name(d)].def>>)
                                              ELSE Done
<1>1. pc[d] = "run" /\ todo[d] = <<>> /\ UNCHANGED sims /\ Return(d, answer)
  BY DEF Finish
<1> HIDE DEF answer
<1>2. Running(d)
  BY <1>1 DEF Running
<1>3. Outcome(d) = [ok |-> TRUE, attrs |-> sims[Name(d)].attrs]
  BY <1>1, RunNothing DEF Outcome, LeftToRun, RunGraph
<1>4. Outcome(d).ok /\ Outcome(d).attrs = sims[Name(d)].attrs
  BY <1>3, OutcomeParts
<1>5. SettledReply[d] = answer
  <2>1. call[d].op = "Apply" => sims[Name(d)].def = call[d].def
    BY <1>2 DEF RInv, Knows
  <2>2. SettledReply[d] = FinalReply(Outcome(d), call[d])
    BY <1>2, WillReply
  <2> QED
    BY <1>4, <2>1, <2>2, Zenon DEF FinalReply, answer
<1>6. Held' = Held
  BY <1>1 DEF Held
<1> QED
  BY <1>1, <1>2, <1>4, <1>5, <1>6, RunningStep

-----------------------------------------------------------------------------
(* The steps by which a call that runs graphs takes effect.                *)
LEMMA TakesEffect ==
  ASSUME OwnSimulations, RInv, RInv', NEW d \in Clients, Frame(d), Aside(d),
         ~Running(d), Running(d)', UNCHANGED <<call, reply>>, pc[d] \in Entered,
         Held' = Held \cup {Name(d)},
         \A name \in Held \ {Name(d)} : sims'[name] = sims[name]
  PROVE  /\ SettledSims' = Registry!With(Name(d), Registry!Holding(
                             sims'[Name(d)].def, sims'[Name(d)].locked, Outcome(d)'.attrs))
         /\ Registry!Answers(d, FinalReply(Outcome(d)', call[d]))
<1>1. SettledReply'[d] = FinalReply(Outcome(d)', call'[d])
  BY WillReply
<1>2. SettledReply' = [SettledReply EXCEPT ![d] = FinalReply(Outcome(d)', call[d])]
  BY <1>1, EffectiveStep DEF SettledAnswer
<1>3. SettledSims' =
         [name \in DOMAIN SettledSims \cup {Name(d)} |->
            IF name = Name(d)
              THEN [def    |-> sims'[Name(d)].def,
                    locked |-> sims'[Name(d)].locked,
                    attrs  |-> Outcome(d)'.attrs]
              ELSE SettledSims[name]]
  BY EffectiveStep
<1> QED
  BY <1>2, <1>3, Zenon
     DEF Registry!Answers, Registry!With, Registry!Holding, Registry!Held

LEMMA ReplaceStep ==
  ASSUME OwnSimulations, RInv, RInv', NEW d \in Clients, Frame(d), Aside(d), Replace(d)
  PROVE  Registry!Next
<1> DEFINE name == Name(d)
           def  == call[d].def
           run  == RunGraph(Registry!NewAttrs(def), def.init)
<1>1. /\ pc[d] = "replace" /\ Goto(d, "begin")
      /\ sims' = [x \in Held \cup {name} |-> IF x = name THEN NewSim(def) ELSE sims[x]]
  BY Zenon DEF Replace
<1>2. /\ call[d] \in Calls[d] /\ call[d].op = "Apply"
      /\ name \in Held => ~sims[name].locked
  BY <1>1 DEF RInv, Types, Belongs, IInv, Good
<1>3. pc'[d] = "begin" /\ call' = call /\ reply' = reply /\ name' = name
  BY <1>1, GotoAt
<1>4. ~Running(d) /\ Running(d)' /\ pc[d] \in Entered
  BY <1>1, <1>3 DEF Running, Entered
<1>5. Held' = Held \cup {name} /\ \A x \in Held \ {name} : sims'[x] = sims[x]
  BY <1>1 DEF Held
<1>6. sims'[name] = NewSim(def)
  BY <1>1
<1>7. /\ NewSim(def).def = def /\ NewSim(def).locked = FALSE
      /\ NewSim(def).attrs = Registry!NewAttrs(def)
  BY Zenon DEF NewSim, Registry!NewAttrs
<1>8. Outcome(d)' = run
  <2>1. LeftToRun(d)' = def.init
    BY <1>3 DEF LeftToRun
  <2>2. Outcome(d)' = RunGraph(sims'[name'].attrs, LeftToRun(d)')
    BY DEF Outcome
  <2> QED
    BY <1>3, <1>6, <1>7, <2>1, <2>2
<1>9. /\ SettledSims' = Registry!With(name, Registry!Holding(def, FALSE, run.attrs))
      /\ Registry!Answers(d, FinalReply(run, call[d]))
  <2> HIDE DEF run
  <2>1. /\ SettledSims' = Registry!With(name, Registry!Holding(
                            sims'[name].def, sims'[name].locked, Outcome(d)'.attrs))
        /\ Registry!Answers(d, FinalReply(Outcome(d)', call[d]))
    BY <1>3, <1>4, <1>5, TakesEffect
  <2> QED
    BY <1>6, <1>7, <1>8, <2>1, Zenon
<1>10. name \in Held => ~SettledSims[name].locked
  BY <1>2, <1>4, NobodyRuns, Zenon
<1>11. FinalReply(run, call[d]) = IF run.ok THEN Answer("OK", <<"sim", def>>)
                                          ELSE Failed("INTERNAL")
  BY <1>2, Zenon DEF FinalReply
<1>12. Registry!ApplySimulation(d)
  <2>1. run = Registry!RunGraph(Registry!NewAttrs(def), def.init)
    BY RegistryRuns
  <2>2. Registry!Pending(d, "Apply")
    BY <1>1, <1>2, <1>4, RegistryPending
  <2> HIDE DEF run
  <2> QED
    BY <1>9, <1>10, <1>11, <2>1, <2>2, RegistryHolds, Zenon DEF Registry!ApplySimulation
<1> QED
  BY <1>12, RegistryStep

LEMMA LockStep ==
  ASSUME OwnSimulations, RInv, RInv', NEW d \in Clients, Frame(d), Aside(d), Lock(d)
  PROVE  Registry!Next
<1> DEFINE name == Name(d)
           sim  == sims[name]
           run  == RunGraph(sim.attrs, FlattenSeq(sim.def.systems))
<1>1. /\ pc[d] = "lock" /\ name \in Held /\ Goto(d, "run")
      /\ sims' = [sims EXCEPT ![name].locked = TRUE] /\ UNCHANGED todo
  BY Zenon DEF Lock
<1>2. call[d] \in Calls[d] /\ call[d].op = "Step" /\ todo[d] = FlattenSeq(sim.def.systems)
  BY <1>1 DEF RInv, Types, Belongs, Knows
<1>3. pc'[d] = "run" /\ call' = call /\ reply' = reply /\ name' = name
  BY <1>1, GotoAt
<1>4. ~Running(d) /\ Running(d)' /\ pc[d] \in Entered
  BY <1>1, <1>3 DEF Running, Entered, Using
<1>5. /\ Held' = Held \cup {name} /\ \A x \in Held \ {name} : sims'[x] = sims[x]
      /\ sims'[name] = [sim EXCEPT !.locked = TRUE]
  BY <1>1 DEF Held
<1>6. sim \in Sim
  BY <1>1 DEF RInv, Types, TypeOK
<1>7. /\ sims'[name].def = sim.def /\ sims'[name].locked = TRUE
      /\ sims'[name].attrs = sim.attrs
  <2> HIDE DEF sim
  <2> QED
    BY <1>5, <1>6, Zenon DEF Sim
<1>8. Outcome(d)' = run
  <2>1. LeftToRun(d)' = FlattenSeq(sim.def.systems)
    BY <1>1, <1>2, <1>3 DEF LeftToRun
  <2>2. Outcome(d)' = RunGraph(sims'[name'].attrs, LeftToRun(d)')
    BY DEF Outcome
  <2> QED
    BY <1>3, <1>7, <2>1, <2>2
<1>9. /\ SettledSims' = Registry!With(name, Registry!Holding(sim.def, TRUE, run.attrs))
      /\ Registry!Answers(d, FinalReply(run, call[d]))
  <2> HIDE DEF run
  <2>1. /\ SettledSims' = Registry!With(name, Registry!Holding(
                            sims'[name].def, sims'[name].locked, Outcome(d)'.attrs))
        /\ Registry!Answers(d, FinalReply(Outcome(d)', call[d]))
    BY <1>3, <1>4, <1>5, TakesEffect
  <2> QED
    BY <1>7, <1>8, <2>1, Zenon
<1>10. SettledSims[name].def = sim.def /\ SettledSims[name].attrs = sim.attrs
  BY <1>1, <1>2, <1>4, NobodyRuns
<1>11. FinalReply(run, call[d]) = IF run.ok THEN Done ELSE Failed("INTERNAL")
  BY <1>2, Zenon DEF FinalReply
<1>12. Registry!StepSimulation(d)
  <2>1. run = Registry!RunGraph(SettledSims[name].attrs,
                                Registry!FlattenSeq(SettledSims[name].def.systems))
    BY <1>10, RegistryRuns, RegistryFlattens
  <2>2. Registry!Pending(d, "Step")
    BY <1>1, <1>2, <1>4, RegistryPending
  <2> HIDE DEF run
  <2> QED
    BY <1>1, <1>9, <1>10, <1>11, <2>1, <2>2, RegistryHolds, Zenon
       DEF Registry!StepSimulation
<1> QED
  BY <1>12, RegistryStep

(* SetAttribute runs a graph of one output.                                *)
LEMMA RunOne ==
  ASSUME NEW attrs, NEW out \in Output
  PROVE  RunGraph(attrs, <<out>>) = RunOutput([ok |-> TRUE, attrs |-> attrs], out)
<1>1. /\ <<out>> \in Seq(Output) /\ <<out>> # <<>>
      /\ Head(<<out>>) = out /\ Tail(<<out>>) = <<>>
  BY SMT
<1> QED
  BY <1>1, RunFirst, RunNothing DEF RunGraph

LEMMA SettingRuns ==
  ASSUME NEW attrs, NEW a \in Attrs, NEW v \in Vals
  PROVE  RunGraph(attrs, <<[target |-> a, from |-> NoAttr, add |-> v]>>) =
           IF Writable(attrs, a) THEN [ok |-> TRUE, attrs |-> [attrs EXCEPT ![a] = v]]
                                 ELSE [ok |-> FALSE, attrs |-> attrs]
<1> DEFINE out   == [target |-> a, from |-> NoAttr, add |-> v]
           start == [ok |-> TRUE, attrs |-> attrs]
<1>1. out \in Output
  BY DEF Output
<1>2. out.target = a /\ out.from = NoAttr /\ out.add = v
  OBVIOUS
<1>3. start.ok /\ start.attrs = attrs
  BY Zenon
<1>4. ValueOf(attrs, out) = v
  <2>1. (0 + v) % ValMod = v
    BY ValModAssumption, SMT DEF Vals
  <2> QED
    BY <1>2, <2>1 DEF ValueOf
<1>5. Evaluates(attrs, out)
  BY <1>2 DEF Evaluates
<1>6. RunGraph(attrs, <<out>>) = RunOutput(start, out)
  BY <1>1, RunOne
<1>7. RunOutput(start, out) =
        IF Writable(attrs, a) THEN [ok |-> TRUE, attrs |-> [attrs EXCEPT ![a] = v]]
                              ELSE [ok |-> FALSE, attrs |-> attrs]
  <2> HIDE DEF out, start
  <2> QED
    BY <1>2, <1>3, <1>4, <1>5, Zenon DEF RunOutput
<1> QED
  BY <1>6, <1>7

LEMMA BindSetStep ==
  ASSUME OwnSimulations, RInv, RInv', NEW d \in Clients, Frame(d), Aside(d), BindSet(d)
  PROVE  Registry!Next
<1> DEFINE name == Name(d)
           sim  == sims[name]
           a    == call[d].attr
           v    == call[d].val
           out  == [target |-> a, from |-> NoAttr, add |-> v]
           run  == RunGraph(sim.attrs, <<out>>)
<1>1. /\ pc[d] = "found" /\ name \in Held /\ Goto(d, "run") /\ UNCHANGED sims
      /\ call[d].op = "Set" /\ todo' = [todo EXCEPT ![d] = <<out>>]
  BY Zenon DEF BindSet, Refer
<1>2. call[d] \in Calls[d] /\ todo'[d] = <<out>>
  BY <1>1 DEF RInv, Types, TypeOK, Belongs
<1>3. a \in Attrs /\ v \in Vals
  BY <1>1, <1>2, Fields
<1>4. pc'[d] = "run" /\ call' = call /\ reply' = reply /\ name' = name
  BY <1>1, GotoAt
<1>5. ~Running(d) /\ Running(d)' /\ pc[d] \in Entered /\ Held' = Held
  BY <1>1, <1>4 DEF Running, Entered, Held
<1>6. Outcome(d)' = run
  BY <1>1, <1>2, <1>4 DEF Outcome, LeftToRun
<1>7. /\ SettledSims' = Registry!With(name, Registry!Holding(sim.def, sim.locked, run.attrs))
      /\ Registry!Answers(d, FinalReply(run, call[d]))
  <2> HIDE DEF run
  <2>1. Held' = Held \cup {name} /\ \A x \in Held \ {name} : sims'[x] = sims[x]
    BY <1>1, <1>5
  <2>2. /\ SettledSims' = Registry!With(name, Registry!Holding(
                            sims'[name].def, sims'[name].locked, Outcome(d)'.attrs))
        /\ Registry!Answers(d, FinalReply(Outcome(d)', call[d]))
    BY <1>4, <1>5, <2>1, TakesEffect
  <2> QED
    BY <1>1, <1>6, <2>2, Zenon
<1>8. /\ SettledSims[name].def = sim.def /\ SettledSims[name].attrs = sim.attrs
      /\ SettledSims[name].locked = sim.locked
  BY <1>1, <1>2, <1>5, NobodyRuns
<1>9. FinalReply(run, call[d]) = IF run.ok THEN Done ELSE Failed("INTERNAL")
  BY <1>1, Zenon DEF FinalReply
<1>10. Registry!Writable(SettledSims[name].attrs, a) <=> Writable(sim.attrs, a)
  BY <1>8 DEF Registry!Writable, Writable
<1>11. Registry!Pending(d, "Set")
  BY <1>1, <1>5, RegistryPending
<1>12. CASE Writable(sim.attrs, a)
  <2>1. run = [ok |-> TRUE, attrs |-> [sim.attrs EXCEPT ![a] = v]]
    BY <1>3, <1>12, SettingRuns
  <2>2. run.ok /\ run.attrs = [sim.attrs EXCEPT ![a] = v]
    <3> HIDE DEF run
    <3> QED
      BY <2>1, OutcomeParts
  <2>3. Registry!SetAttribute(d)
    <3> HIDE DEF run
    <3> QED
      BY <1>1, <1>7, <1>8, <1>9, <1>10, <1>12, <1>11, <2>2, RegistryHolds, Zenon
         DEF Registry!SetAttribute
  <2> QED
    BY <2>3, RegistryStep
<1>13. CASE ~Writable(sim.attrs, a)
  <2>1. run = [ok |-> FALSE, attrs |-> sim.attrs]
    BY <1>3, <1>13, SettingRuns
  <2>2. ~run.ok /\ run.attrs = sim.attrs
    <3> HIDE DEF run
    <3> QED
      BY <2>1, OutcomeParts
  <2>3. SettledSims' = SettledSims
    <3>1. SettledSims[name] = [def |-> sim.def, locked |-> sim.locked, attrs |-> sim.attrs]
      BY <1>1, <1>2, <1>5, NobodyRuns, SettledIdle
    <3>2. SettledSims'[name] = [def |-> sim.def, locked |-> sim.locked, attrs |-> sim.attrs]
      <4> HIDE DEF run
      <4> QED
        BY <1>1, <1>7, <2>2, RegistryHolds DEF Registry!With, Registry!Holding
    <3>3. \A x \in Held \ {name} : SettledSims'[x] = SettledSims[x]
      <4> HIDE DEF run
      <4> QED
        BY <1>7, RegistryHolds DEF Registry!With
    <3> QED
      BY <1>5, <3>1, <3>2, <3>3, SimulationsAlike
  <2>4. Registry!SetAttribute(d)
    <3> HIDE DEF run
    <3> QED
      BY <1>1, <1>7, <1>9, <1>10, <1>13, <1>11, <2>2, <2>3, RegistryHolds, Zenon
         DEF Registry!SetAttribute
  <2> QED
    BY <2>4, RegistryStep
<1> QED
  BY <1>12, <1>13

-----------------------------------------------------------------------------
LEMMA EraseStep ==
  ASSUME OwnSimulations, RInv, RInv', NEW d \in Clients, Frame(d), Aside(d), Erase(d)
  PROVE  Registry!Next
<1> DEFINE name == Name(d)
<1>1. /\ pc[d] = "found" /\ call[d].op = "Drop" /\ Return(d, Done)
      /\ sims' = [x \in Held \ {name} |-> sims[x]]
  BY Zenon DEF Erase
<1>2. /\ call[d] \in Calls[d] /\ name \in Held
      /\ ~Running(d) /\ ~Running(d)' /\ Registry!Replies(d, Done)
  BY <1>1, ReturnEffect DEF RInv, Types, Belongs, Knows, Running
<1>3. Held' = Held \ {name} /\ \A x \in Held' : sims'[x] = sims[x]
  BY <1>1 DEF Held
<1>4. \A x \in Held' : SettledSims'[x] = SettledSims[x]
  BY <1>2, <1>3, ElsewhereSettled
<1>5. SettledSims' = [x \in Held' |-> SettledSims'[x]]
  BY SettledNext, Zenon DEF Settled
<1>6. SettledSims' = [x \in Held \ {name} |-> SettledSims[x]]
  BY <1>3, <1>4, <1>5, Zenon
<1>7. Registry!Pending(d, "Drop")
  BY <1>1, <1>2, RegistryPending
<1>8. Registry!DropSimulation(d)
  BY <1>2, <1>6, <1>7, RegistryHolds, Zenon DEF Registry!DropSimulation, Registry!Answers
<1> QED
  BY <1>8, RegistryStep

(* With simulations of their own, handlers find what they have looked up.  *)
LEMMA NothingThrows ==
  ASSUME RInv, NEW d \in Clients
  PROVE  ~AtThrows(d)
BY Zenon DEF RInv, Knows, AtThrows

LEMMA EveryStep ==
  ASSUME OwnSimulations, RInv, NEW d \in Clients,
         Handle(d) \/ \E request \in Calls[d] : Call(d, request)
  PROVE  Stutters \/ Registry!Next
<1>1. RInv' /\ Frame(d) /\ Aside(d)
  BY NextRInv
<1>2. CASE \E request \in Calls[d] : Call(d, request)
  BY <1>1, <1>2, CallStep
<1>3. CASE Handle(d)
  <2>1. ~UseDestroyed(d) /\ ~NullDereference(d) /\ ~AtThrows(d)
    BY NoUndefinedStep, NothingThrows DEF RInv
  <2>2. \/ ListSimulation(d) \/ CheckExists(d) \/ CheckHeld(d) \/ CheckUnlocked(d)
        \/ Replace(d) \/ BeginInit(d) \/ BindStep(d) \/ BindSet(d) \/ BindRead(d) \/ Erase(d)
        \/ Read(d) \/ Lock(d) \/ Evaluate(d) \/ Store(d) \/ Finish(d)
    BY <1>3, <2>1, Zenon DEF Handle
  <2> QED
    BY <1>1, <2>2, ListStep, CheckExistsStep, CheckHeldStep, CheckUnlockedStep, ReplaceStep,
       BeginInitStep, BindQuietly, BindSetStep, EraseStep, ReadStep, LockStep, EvaluateStep, StoreStep,
       FinishStep, Zenon
<1> QED
  BY <1>2, <1>3

LEMMA NothingHappens ==
  ASSUME RInv, UNCHANGED vars
  PROVE  RInv' /\ Stutters
<1>1. UNCHANGED <<sims, up, call, pc, ref, todo, tmp, reply>>
  BY DEF vars, handlers
<1>2. RInv'
  <2>1. \A c \in Clients : Knows(c)'
    BY <1>1 DEF RInv, Knows, Running, Name, Held
  <2> QED
    BY <2>1, StaysTrue, TypesStutter DEF RInv
<1>3. SettledSims' = SettledSims
  BY <1>1 DEF SettledSims, Runner, Outcome, LeftToRun, Running, Name, Held
<1>4. SettledReply' = SettledReply
  BY <1>1 DEF SettledReply, Outcome, LeftToRun, Running, Name
<1> QED
  BY <1>1, <1>2, <1>3, <1>4 DEF Stutters

LEMMA InitSettled == Init => RInv /\ Registry!Init
<1> SUFFICES ASSUME Init PROVE RInv /\ Registry!Init
  OBVIOUS
<1>1. IInv
  BY InitIInv
<1>2. Types
  BY InitTypes
<1>3. /\ \A c \in Clients : pc[c] = "idle" /\ call[c] = NoCall
      /\ call = [c \in Clients |-> NoCall] /\ reply = [c \in Clients |-> Done]
  BY SMT DEF Init
<1>4. \A c \in Clients : ~Running(c) /\ Knows(c)
  BY <1>3 DEF Running, Knows
<1>5. SettledSims = [name \in {} |-> 0]
  <2>1. Held = {}
    BY DEF Init, Held
  <2>2. SettledSims = [name \in Held |-> SettledSims[name]]
    BY SettledIsTrue, Zenon DEF Settled
  <2> QED
    BY <2>1, <2>2, SMT
<1>6. SettledReply = [c \in Clients |-> Waiting]
  <2>1. \A c \in Clients : SettledReply[c] = Waiting
    BY <1>4, WillReply
  <2>2. SettledReply = [c \in Clients |-> SettledReply[c]]
    BY SettledIsTrue, Zenon DEF Settled
  <2> QED
    BY <2>1, <2>2, Zenon
<1> QED
  BY <1>1, <1>2, <1>3, <1>4, <1>5, <1>6, RegistryHolds, Zenon DEF RInv, Registry!Init

(* Clients that keep to simulations of their own see the service of        *)
(* EngineRegistry: each call takes the effect of its own request, once,    *)
(* between call and reply, on the simulation it names                      *)
(* (engineService.cpp:20-227).                                             *)
THEOREM Refinement ==
  ASSUME OwnSimulations
  PROVE  Spec => ImplementsRegistry
<1>1. Init => RInv /\ Registry!Init
  BY InitSettled
<1>2. RInv /\ [Next]_vars => RInv' /\ [Registry!Next]_Registry!vars
  <2> SUFFICES ASSUME RInv, [Next]_vars PROVE RInv' /\ [Registry!Next]_Registry!vars
    OBVIOUS
  <2>1. CASE UNCHANGED vars
    BY <2>1, NothingHappens, Zenon DEF Stutters, Registry!vars
  <2>2. CASE Next
    BY <2>2, NextRInv, EveryStep, OwnSimulations, Zenon DEF Next, Stutters, Registry!vars
  <2> QED
    BY <2>1, <2>2
<1> QED
  BY <1>1, <1>2, PTL DEF Spec, Registry!Spec, ImplementsRegistry
=============================================================================
