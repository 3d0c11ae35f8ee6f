------------------------- MODULE EngineServiceProofs -------------------------
(***************************************************************************)
(* What clients that keep to simulations of their own can rely on, however *)
(* many they are and whatever definitions they apply.                      *)
(*                                                                         *)
(* The handlers lock nothing, so what a handler knows of its simulation is *)
(* true only because the handlers of other clients stay away from it:      *)
(* Good(c) is what the handler of c knows, and Frame(d) what a step of d's *)
(* handler leaves alone.                                                   *)
(***************************************************************************)
EXTENDS EngineService, FiniteSetTheorems, NaturalsInduction,
        WellFoundedInduction, TLAPS

(* Induction over numbers is by a least counterexample.                    *)
LEMMA LeastElement ==
  ASSUME NEW S \in SUBSET Nat, S # {}
  PROVE  \E m \in S : \A k \in S : m <= k
<1> DEFINE Less == OpToRel(<, Nat)
<1>1. Less = {pair \in Nat \X Nat : pair[1] < pair[2]}
  BY DEF OpToRel
<1>2. PICK m \in S : \A k \in S : <<k, m>> \notin Less
  <2> HIDE DEF Less
  <2> QED
    BY NatLessThanWellFounded, WFMin DEF Less
<1> HIDE DEF Less
<1>3. \A k \in S : ~ k < m
  BY <1>1, <1>2
<1> QED
  BY <1>2, <1>3, SMT

LEMMA MinIsLeast ==
  ASSUME NEW S \in SUBSET Nat, S # {}
  PROVE  Min(S) \in S /\ \A k \in S : Min(S) <= k
BY LeastElement DEF Min

(* A set of numbers that has 0 and with each number the next has them all. *)
LEMMA Induction ==
  ASSUME NEW S, 0 \in S, \A n \in Nat : n \in S => n + 1 \in S
  PROVE  Nat \subseteq S
<1> SUFFICES ASSUME NEW n \in Nat \ S PROVE FALSE
  OBVIOUS
<1>1. PICK m \in Nat \ S : \A k \in Nat \ S : m <= k
  BY LeastElement
<1>2. m # 0
  BY <1>1
<1>3. m - 1 \in Nat /\ m - 1 \notin Nat \ S
  BY <1>1, <1>2, SMT
<1>4. (m - 1) + 1 \in S
  BY <1>3
<1>5. (m - 1) + 1 = m
  BY <1>1, SMT
<1> QED
  BY <1>1, <1>4, <1>5

-----------------------------------------------------------------------------
(* Flattening a sequence of graphs gives a graph.                          *)
Flattened(flat, seqs, n) ==
  flat = [k \in 1 .. n |-> IF k = 1 THEN seqs[k] ELSE flat[k - 1] \o seqs[k]]

LEMMA FlattenedExists ==
  ASSUME NEW seqs, NEW n \in Nat
  PROVE  \E flat : Flattened(flat, seqs, n)
<1> DEFINE S == {m \in Nat : \E flat : Flattened(flat, seqs, m)}
<1>1. 0 \in S
  <2> DEFINE flat == [k \in 1 .. 0 |-> seqs[k]]
  <2>1. Flattened(flat, seqs, 0)
    BY SMT DEF Flattened
  <2> HIDE DEF flat
  <2> QED
    BY <2>1
<1>2. ASSUME NEW m \in Nat, m \in S PROVE m + 1 \in S
  <2>1. PICK f : Flattened(f, seqs, m)
    BY <1>2
  <2> DEFINE g == [k \in 1 .. m + 1 |->
                     IF k = m + 1 THEN (IF k = 1 THEN seqs[k] ELSE f[m] \o seqs[k])
                                  ELSE f[k]]
  <2>2. \A k \in 1 .. m : f[k] = IF k = 1 THEN seqs[k] ELSE f[k - 1] \o seqs[k]
    BY <2>1 DEF Flattened
  <2>3. ASSUME NEW k \in 1 .. m + 1
        PROVE  g[k] = IF k = 1 THEN seqs[k] ELSE g[k - 1] \o seqs[k]
    <3>1. CASE k = m + 1
      <4>1. k # 1 => m \in 1 .. m + 1 /\ m # m + 1 /\ k - 1 = m
        BY <3>1, SMT
      <4> QED
        BY <3>1, <4>1
    <3>2. CASE k # m + 1
      <4>1. /\ k \in 1 .. m
            /\ k # 1 => k - 1 \in 1 .. m + 1 /\ k - 1 # m + 1
        BY <3>2, SMT
      <4>2. g[k] = f[k] /\ (k # 1 => g[k - 1] = f[k - 1])
        BY <3>2, <4>1
      <4> QED
        BY <2>2, <4>1, <4>2
    <3> QED
      BY <3>1, <3>2
  <2>4. g = [k \in 1 .. m + 1 |-> g[k]]
    OBVIOUS
  <2> HIDE DEF g
  <2>5. Flattened(g, seqs, m + 1)
    BY <2>3, <2>4 DEF Flattened
  <2> QED
    BY <2>5
<1>3. Nat \subseteq S
  <2> HIDE DEF S
  <2> QED
    BY <1>1, <1>2, Induction
<1> QED
  BY <1>3

LEMMA FlattenTyped ==
  ASSUME NEW T, NEW seqs \in Seq(Seq(T))
  PROVE  FlattenSeq(seqs) \in Seq(T)
<1>1. Len(seqs) \in Nat /\ \A k \in 1 .. Len(seqs) : seqs[k] \in Seq(T)
  BY SMT
<1>2. CASE Len(seqs) = 0
  <2>1. seqs = <<>>
    BY <1>2, SMT
  <2> QED
    BY <1>2, <2>1, SMT DEF FlattenSeq
<1>3. CASE Len(seqs) # 0
  <2> DEFINE f == CHOOSE flat : Flattened(flat, seqs, Len(seqs))
  <2>1. Flattened(f, seqs, Len(seqs))
    BY <1>1, FlattenedExists
  <2>2. FlattenSeq(seqs) = f[Len(seqs)]
    BY <1>3 DEF FlattenSeq, Flattened
  <2> HIDE DEF f
  <2>3. \A k \in 1 .. Len(seqs) : f[k] = IF k = 1 THEN seqs[k] ELSE f[k - 1] \o seqs[k]
    BY <2>1 DEF Flattened
  <2> DEFINE S == {k \in Nat : k < Len(seqs) => f[k + 1] \in Seq(T)}
  <2>4. 0 \in S
    <3>1. 0 + 1 = 1 /\ 1 \in 1 .. Len(seqs)
      BY <1>1, <1>3, SMT
    <3> QED
      BY <1>1, <2>3, <3>1
  <2>5. ASSUME NEW k \in Nat, k \in S PROVE k + 1 \in S
    <3> SUFFICES ASSUME k + 1 < Len(seqs) PROVE f[(k + 1) + 1] \in Seq(T)
      OBVIOUS
    <3>1. /\ k < Len(seqs) /\ (k + 1) + 1 \in 1 .. Len(seqs) /\ (k + 1) + 1 # 1
          /\ ((k + 1) + 1) - 1 = k + 1
      BY <1>1, SMT
    <3>2. f[k + 1] \in Seq(T) /\ seqs[(k + 1) + 1] \in Seq(T)
      BY <1>1, <2>5, <3>1
    <3>3. f[(k + 1) + 1] = f[k + 1] \o seqs[(k + 1) + 1]
      BY <2>3, <3>1
    <3> QED
      BY <3>2, <3>3, SMT
  <2>6. Len(seqs) - 1 \in Nat /\ Len(seqs) - 1 < Len(seqs) /\ (Len(seqs) - 1) + 1 = Len(seqs)
    BY <1>1, <1>3, SMT
  <2>7. Len(seqs) - 1 \in S
    <3> HIDE DEF S
    <3> QED
      BY <2>4, <2>5, <2>6, Induction
  <2> QED
    BY <2>2, <2>6, <2>7
<1> QED
  BY <1>2, <1>3
-----------------------------------------------------------------------------

Using == {"lock", "read", "run", "store"}
Entered == Using \cup {"check", "found", "replace", "begin"}

Good(c) ==
  /\ pc[c] \in {"idle", "enter"} \cup Entered
  /\ pc[c] # "idle" => call[c] \in Calls[c]
  /\ pc[c] \in Entered => call[c].op # "List"
  /\ pc[c] \in Using => Intact(c)
  /\ pc[c] \in {"check", "begin"} => Name(c) \in Held
  /\ pc[c] \in {"check", "replace"} => call[c].op = "Apply"
  /\ pc[c] = "replace" /\ Name(c) \in Held => ~sims[Name(c)].locked

Records ==
  \A name \in Held : {"gen", "def", "locked", "attrs"} \subseteq DOMAIN sims[name]

Functions == DOMAIN call = Clients /\ DOMAIN pc = Clients /\ DOMAIN ref = Clients

IInv == Functions /\ Records /\ \A c \in Clients : Good(c)

Frame(d) ==
  /\ \A c \in Clients \ {d} :
       call'[c] = call[c] /\ pc'[c] = pc[c] /\ ref'[c] = ref[c]
  /\ \/ UNCHANGED sims
     \/ /\ pc[d] \in Entered
        /\ \A name : name # Name(d) =>
             /\ name \in Held' <=> name \in Held
             /\ name \in Held => sims'[name] = sims[name]

(* What a step of one client's handler leaves alone is enough for what the *)
(* handlers of the others know.                                            *)
LEMMA OthersStayGood ==
  ASSUME OwnSimulations, IInv, NEW d \in Clients, Frame(d), NEW c \in Clients, c # d
  PROVE  Good(c)'
<1>1. CASE UNCHANGED sims
  BY <1>1, SMT DEF IInv, Functions, Good, Frame, Intact, Name, Held, Entered, Using
<1>2. CASE ~UNCHANGED sims /\ pc[c] \notin Entered
  BY <1>2, SMT DEF IInv, Functions, Good, Frame, Intact, Name, Held, Entered, Using
<1>3. CASE ~UNCHANGED sims /\ pc[c] \in Entered
  <2>1. Name(c) # Name(d)
    <3>1. /\ call[c] \in Calls[c] /\ call[c].op # "List"
          /\ call[d] \in Calls[d] /\ call[d].op # "List"
      BY <1>3, SMT DEF IInv, Good, Frame, Entered, Using
    <3> QED
      BY <3>1 DEF OwnSimulations, Name
  <2>2. /\ Name(c) \in Held' <=> Name(c) \in Held
        /\ Name(c) \in Held => sims'[Name(c)] = sims[Name(c)]
    BY <1>3, <2>1 DEF Frame
  <2> QED
    BY <1>3, <2>2, SMT DEF IInv, Functions, Good, Frame, Intact, Name, Held, Entered, Using
<1> QED
  BY <1>1, <1>2, <1>3

(* What a step of a handler has to do with what is known.                  *)
Keeps(d) == Functions' /\ Records' /\ Good(d)' /\ Frame(d)

LEMMA ReturnKeeps ==
  ASSUME IInv, NEW d \in Clients, NEW answer, Return(d, answer), UNCHANGED sims
  PROVE  Keeps(d)
BY SMT DEF IInv, Functions, Records, Good, Frame, Keeps, Return, Intact, Name, Held,
           Entered, Using

LEMMA GotoKeeps ==
  ASSUME IInv, NEW d \in Clients, NEW label, Goto(d, label), UNCHANGED <<sims, ref>>,
         Good(d)'
  PROVE  Keeps(d)
BY SMT DEF IInv, Functions, Records, Frame, Keeps, Goto, Held

LEMMA CallKeeps ==
  ASSUME IInv, NEW d \in Clients, NEW request \in Calls[d], Call(d, request)
  PROVE  Keeps(d)
BY SMT DEF IInv, Functions, Records, Good, Frame, Keeps, Call, Intact, Name, Held,
           Entered, Using

LEMMA ChecksKeep ==
  ASSUME IInv, NEW d \in Clients, CheckExists(d) \/ CheckHeld(d) \/ CheckUnlocked(d)
  PROVE  Keeps(d)
<1> USE DEF IInv, Good, Goto, Name, Held, Entered, Using
<1>1. CASE CheckExists(d)
  <2>1. CASE Name(d) \in Held
    <3>1. Goto(d, "found") /\ UNCHANGED <<sims, ref>> /\ pc[d] = "enter" /\ call[d].op # "List"
      BY <1>1, <2>1, Zenon DEF CheckExists
    <3>2. Good(d)'
      BY <3>1, SMT DEF Functions
    <3> QED
      BY <3>1, <3>2, GotoKeeps
  <2>2. CASE Name(d) \notin Held
    BY <1>1, <2>2, ReturnKeeps DEF CheckExists
  <2> QED
    BY <2>1, <2>2
<1>2. CASE CheckUnlocked(d)
  <2>1. CASE sims[Name(d)].locked
    BY <1>2, <2>1, ReturnKeeps DEF CheckUnlocked
  <2>2. CASE ~sims[Name(d)].locked
    <3>1. Goto(d, "replace") /\ UNCHANGED <<sims, ref>> /\ pc[d] = "check"
      BY <1>2, <2>2, Zenon DEF CheckUnlocked
    <3>2. Good(d)'
      BY <2>2, <3>1, SMT DEF Functions
    <3> QED
      BY <3>1, <3>2, GotoKeeps
  <2> QED
    BY <2>1, <2>2
<1>3. CASE CheckHeld(d)
  <2>1. /\ Goto(d, IF Name(d) \in Held THEN "check" ELSE "replace")
        /\ UNCHANGED <<sims, ref>> /\ pc[d] = "enter" /\ call[d].op = "Apply"
    BY <1>3, Zenon DEF CheckHeld
  <2>2. Good(d)'
    BY <2>1, SMT DEF Functions
  <2> QED
    BY <2>1, <2>2, GotoKeeps
<1> QED
  BY <1>1, <1>2, <1>3

LEMMA ReplaceKeeps ==
  ASSUME IInv, NEW d \in Clients, Replace(d)
  PROVE  Keeps(d)
BY SMT DEF IInv, Functions, Records, Good, Frame, Keeps, Replace, NewSim, Goto, Intact,
           Name, Held, Entered, Using

LEMMA BindsKeep ==
  ASSUME IInv, NEW d \in Clients,
         BeginInit(d) \/ BindStep(d) \/ BindSet(d) \/ BindRead(d)
  PROVE  Keeps(d)
BY SMT DEF IInv, Functions, Records, Good, Frame, Keeps, BeginInit, BindStep, BindSet,
           BindRead, Refer, Goto, Intact, Name, Held, Entered, Using

LEMMA EraseKeeps ==
  ASSUME IInv, NEW d \in Clients, Erase(d)
  PROVE  Keeps(d)
BY SMT DEF IInv, Functions, Records, Good, Frame, Keeps, Erase, Return, Intact, Name,
           Held, Entered, Using

LEMMA LockKeeps ==
  ASSUME IInv, NEW d \in Clients, Lock(d)
  PROVE  Keeps(d)
BY SMT DEF IInv, Functions, Records, Good, Frame, Keeps, Lock, Goto, Intact, Name,
           Held, Entered, Using

LEMMA EvaluateKeeps ==
  ASSUME IInv, NEW d \in Clients, Evaluate(d)
  PROVE  Keeps(d)
<1>1. CASE Evaluates(sims[Name(d)].attrs, Head(todo[d]))
  <2>1. Goto(d, "store") /\ UNCHANGED <<sims, ref>> /\ pc[d] = "run"
    BY <1>1, Zenon DEF Evaluate
  <2>2. Good(d)'
    BY <2>1, SMT DEF IInv, Good, Functions, Goto, Intact, Name, Held, Entered, Using
  <2> QED
    BY <2>1, <2>2, GotoKeeps
<1>2. CASE ~Evaluates(sims[Name(d)].attrs, Head(todo[d]))
  <2>1. Return(d, Failed("INTERNAL")) /\ UNCHANGED sims
    BY <1>2, Zenon DEF Evaluate
  <2> QED
    BY <2>1, ReturnKeeps
<1> QED
  BY <1>1, <1>2

LEMMA StoreKeeps ==
  ASSUME IInv, NEW d \in Clients, Store(d)
  PROVE  Keeps(d)
<1>1. CASE Writable(sims[Name(d)].attrs, Head(todo[d]).target)
  <2>1. /\ sims' = [sims EXCEPT ![Name(d)].attrs[Head(todo[d]).target] = tmp[d]]
        /\ Goto(d, "run") /\ UNCHANGED ref /\ pc[d] = "store"
    BY <1>1, Zenon DEF Store
  <2> QED
    BY <2>1, SMT DEF IInv, Functions, Records, Good, Frame, Keeps, Goto, Intact, Name,
                     Held, Entered, Using
<1>2. CASE ~Writable(sims[Name(d)].attrs, Head(todo[d]).target)
  <2>1. Return(d, Failed("INTERNAL")) /\ UNCHANGED sims
    BY <1>2, Zenon DEF Store
  <2> QED
    BY <2>1, ReturnKeeps
<1> QED
  BY <1>1, <1>2

LEMMA AnswersKeep ==
  ASSUME IInv, NEW d \in Clients,
         ListSimulation(d) \/ AtThrows(d) \/ Read(d) \/ Finish(d)
  PROVE  Keeps(d)
<1>1. PICK answer : Return(d, answer) /\ UNCHANGED sims
  BY Zenon DEF ListSimulation, AtThrows, Read, Finish
<1> QED
  BY <1>1, ReturnKeeps

(* Nothing that was destroyed is used, and nothing is dereferenced that is *)
(* not there.                                                              *)
LEMMA NoUndefinedStep ==
  ASSUME IInv, NEW d \in Clients
  PROVE  ~UseDestroyed(d) /\ ~NullDereference(d)
BY SMT DEF IInv, Good, UseDestroyed, NullDereference, Intact, Held, Using

LEMMA StepKeeps ==
  ASSUME IInv, NEW d \in Clients, Handle(d) \/ \E request \in Calls[d] : Call(d, request)
  PROVE  Keeps(d)
<1>1. CASE Handle(d)
  <2>1. \/ ListSimulation(d) \/ AtThrows(d) \/ Read(d) \/ Finish(d)
        \/ CheckExists(d) \/ CheckHeld(d) \/ CheckUnlocked(d)
        \/ BeginInit(d) \/ BindStep(d) \/ BindSet(d) \/ BindRead(d)
        \/ Replace(d) \/ Erase(d) \/ Lock(d) \/ Evaluate(d) \/ Store(d)
    BY <1>1, NoUndefinedStep DEF Handle
  <2> QED
    BY <2>1, AnswersKeep, ChecksKeep, BindsKeep, ReplaceKeeps, EraseKeeps, LockKeeps,
       EvaluateKeeps, StoreKeeps
<1> QED
  BY <1>1, CallKeeps

(* The engine stays up: only the undefined steps can crash it.             *)
LEMMA StaysUp ==
  ASSUME IInv, up, [Next]_vars
  PROVE  up'
<1>1. ASSUME NEW d \in Clients, Handle(d) PROVE UNCHANGED up
  BY <1>1, NoUndefinedStep, Zenon DEF Handle, ListSimulation, CheckExists, CheckHeld,
     CheckUnlocked, Replace, BeginInit, AtThrows, BindStep, BindSet, BindRead, Refer, Erase, Read, Lock,
     Evaluate, Store, Finish, Return, Goto
<1>2. ASSUME NEW d \in Clients, NEW request, Call(d, request) PROVE UNCHANGED up
  BY <1>2, Zenon DEF Call
<1>3. CASE UNCHANGED vars
  BY <1>3, Zenon DEF vars
<1> QED
  BY <1>1, <1>2, <1>3, Zenon DEF Next

LEMMA InitIInv == Init => IInv /\ up
<1> SUFFICES ASSUME Init PROVE IInv /\ up
  OBVIOUS
<1>1. IInv
  BY SMT DEF Init, IInv, Functions, Records, Good, Held, Entered, Using
<1>2. up
  BY Zenon DEF Init
<1> QED
  BY <1>1, <1>2

LEMMA StaysTrue ==
  ASSUME IInv, UNCHANGED vars
  PROVE  IInv'
BY SMT DEF vars, handlers, IInv, Functions, Records, Good, Intact, Name, Held

LEMMA NextIInv ==
  ASSUME OwnSimulations, IInv, [Next]_vars
  PROVE  IInv'
<1>1. ASSUME NEW d \in Clients, Handle(d) \/ \E request \in Calls[d] : Call(d, request)
      PROVE  IInv'
  <2>1. Keeps(d)
    BY <1>1, StepKeeps
  <2>2. \A c \in Clients : Good(c)'
    BY <2>1, OthersStayGood DEF Keeps
  <2> QED
    BY <2>1, <2>2 DEF IInv, Keeps
<1> QED
  BY <1>1, StaysTrue DEF Next

THEOREM Invariance ==
  ASSUME OwnSimulations
  PROVE  Spec => [](IInv /\ up)
<1>1. IInv /\ up /\ [Next]_vars => (IInv /\ up)'
  BY NextIInv, StaysUp, OwnSimulations
<1> QED
  BY InitIInv, <1>1, PTL DEF Spec

(* Clients with simulations of their own never use one that was destroyed, *)
(* and never crash the engine.                                             *)
THEOREM OwnReferencesIntact ==
  ASSUME OwnSimulations
  PROVE  Spec => []ReferencesIntact
<1>1. IInv /\ up => ReferencesIntact
  BY Zenon DEF IInv, Good, ReferencesIntact, Using
<1> QED
  BY Invariance, <1>1, PTL

-----------------------------------------------------------------------------
(* The shape of the state, for clients that share simulations as well: no  *)
(* step, an undefined one neither, takes a handler where its call does not *)
(* belong.                                                                 *)
Simulations ==
  /\ Held \subseteq SimNames
  /\ \A name \in Held :
       /\ sims[name] \in Sim
       /\ DOMAIN sims[name].attrs = sims[name].def.attrs

Codes == {"NONE", "OK", "NOT_FOUND", "ALREADY_EXISTS", "INTERNAL", "UNKNOWN"}

Belongs(c) ==
  /\ pc[c] # "idle" => call[c] \in Calls[c]
  /\ pc[c] = "found" => call[c].op \in {"Step", "Drop", "GetSim", "Get", "Set"}
  /\ pc[c] \in {"check", "replace", "begin"} => call[c].op = "Apply"
  /\ pc[c] = "lock" => call[c].op = "Step"
  /\ pc[c] = "read" => call[c].op \in {"Get", "GetSim"}
  /\ pc[c] \in {"run", "store"} => call[c].op \in {"Apply", "Step", "Set"}
  /\ pc[c] = "store" => todo[c] # <<>>

Types ==
  /\ TypeOK
  /\ DOMAIN call = Clients /\ DOMAIN reply = Clients
  /\ \A c \in Clients : Belongs(c)

LEMMA Fields ==
  ASSUME NEW c \in Clients, NEW request \in Calls[c]
  PROVE  /\ request.op \in {"List", "Apply", "Step", "Drop", "GetSim", "Get", "Set"}
         /\ request.op # "List" => request.name \in SimNames
         /\ request.op = "Apply" => request.def \in SimDef
         /\ request.op \in {"Get", "Set"} => request.attr \in Attrs
         /\ request.op = "Set" => request.val \in Vals
<1>1. request \in Requests(SimNames)
  BY CallsAssumption
<1> QED
  BY <1>1, SimDefsAssumption, SMT DEF Requests

(* There is always a gen that no simulation has and no handler refers to.  *)
LEMMA UnusedGenIsUnused ==
  ASSUME Types
  PROVE  /\ UnusedGen \in Gens
         /\ \A name \in Held : UnusedGen # sims[name].gen
         /\ \A c \in Clients : UnusedGen # ref[c]
<1> DEFINE S == {sims[name].gen : name \in Held}
           R == {ref[c] : c \in Clients}
           n == Cardinality(SimNames) + Cardinality(Clients)
<1>1. IsFiniteSet(S) /\ Cardinality(S) <= Cardinality(SimNames) /\ Cardinality(S) \in Nat
  <2> DEFINE f == [name \in Held |-> sims[name].gen]
  <2>1. f \in Surjection(Held, S)
    BY DEF Surjection
  <2>2. Held \in SUBSET SimNames
    BY DEF Types, TypeOK
  <2>3. IsFiniteSet(Held) /\ Cardinality(Held) <= Cardinality(SimNames)
    BY <2>2, FiniteAssumption, FS_Subset
  <2> HIDE DEF f, S
  <2>4. IsFiniteSet(S) /\ Cardinality(S) <= Cardinality(Held)
    BY <2>1, <2>3, FS_Surjection
  <2> QED
    BY <2>3, <2>4, FiniteAssumption, FS_CardinalityType, SMT
<1>2. IsFiniteSet(R) /\ Cardinality(R) <= Cardinality(Clients) /\ Cardinality(R) \in Nat
  <2> DEFINE f == [c \in Clients |-> ref[c]]
  <2>1. f \in Surjection(Clients, R)
    BY DEF Surjection
  <2> HIDE DEF f, R
  <2>2. IsFiniteSet(R) /\ Cardinality(R) <= Cardinality(Clients)
    BY <2>1, FiniteAssumption, FS_Surjection
  <2> QED
    BY <2>2, FS_CardinalityType
<1>3. n \in Nat
  BY FiniteAssumption, FS_CardinalityType
<1> HIDE DEF S, R
<1>4. IsFiniteSet(S \cup R) /\ Cardinality(S \cup R) <= n
  <2>1. /\ IsFiniteSet(S \cup R)
        /\ Cardinality(S \cup R) = Cardinality(S) + Cardinality(R) - Cardinality(S \cap R)
    BY <1>1, <1>2, FS_Union
  <2>2. IsFiniteSet(S \cap R)
    BY <1>1, FS_Subset
  <2>3. Cardinality(S \cap R) \in Nat
    BY <2>2, FS_CardinalityType
  <2> QED
    BY <1>1, <1>2, <2>1, <2>3, FiniteAssumption, FS_CardinalityType, SMT
<1>5. Gens = 1 .. n + 1 /\ Cardinality(Gens) = n + 1
  BY <1>3, FS_Interval, SMT DEF Gens
<1>6. Gens \ (S \cup R) # {}
  <2> SUFFICES ASSUME Gens \in SUBSET (S \cup R) PROVE FALSE
    OBVIOUS
  <2>1. Cardinality(Gens) <= Cardinality(S \cup R)
    BY <1>4, FS_Subset
  <2> QED
    BY <1>3, <1>4, <1>5, <2>1, FS_CardinalityType, SMT
<1>7. Gens \ (S \cup R) \in SUBSET Nat
  BY <1>3, <1>5
<1>8. Min(Gens \ (S \cup R)) \in Gens \ (S \cup R)
  BY <1>6, <1>7, MinIsLeast
<1> QED
  BY <1>8 DEF UnusedGen, S, R

LEMMA NewSimTyped ==
  ASSUME Types, NEW def \in SimDef
  PROVE  /\ NewSim(def) \in Sim
         /\ NewSim(def).def = def
         /\ DOMAIN NewSim(def).attrs = def.attrs
<1>1. def.attrs \in SUBSET Attrs
  BY DEF SimDef
<1>2. [a \in def.attrs |-> Unset] \in [def.attrs -> Vals \cup {Unset}]
  OBVIOUS
<1>3. [a \in def.attrs |-> Unset] \in AttrValues
  BY <1>1, <1>2 DEF AttrValues
<1> QED
  BY <1>3, UnusedGenIsUnused, SMT DEF NewSim, Sim

StoredIn(sim, a, v) == [sim EXCEPT !.attrs[a] = v]

LEMMA StoringTyped ==
  ASSUME NEW sim \in Sim, NEW a, NEW v \in Vals \cup {Unset},
         DOMAIN sim.attrs = sim.def.attrs
  PROVE  /\ StoredIn(sim, a, v) \in Sim
         /\ DOMAIN StoredIn(sim, a, v).attrs = StoredIn(sim, a, v).def.attrs
<1> DEFINE attrs == [sim.attrs EXCEPT ![a] = v]
<1>1. PICK A \in SUBSET Attrs : sim.attrs \in [A -> Vals \cup {Unset}]
  BY DEF Sim, AttrValues
<1>2. attrs \in [A -> Vals \cup {Unset}]
  BY <1>1
<1>3. attrs \in AttrValues /\ DOMAIN attrs = DOMAIN sim.attrs
  BY <1>1, <1>2 DEF AttrValues
<1> HIDE DEF attrs
<1>4. [sim EXCEPT !.attrs = attrs] \in Sim
      /\ [sim EXCEPT !.attrs = attrs].attrs = attrs
      /\ [sim EXCEPT !.attrs = attrs].def = sim.def
  BY <1>3, SMT DEF Sim
<1>5. StoredIn(sim, a, v) = [sim EXCEPT !.attrs = attrs]
  BY DEF StoredIn, attrs
<1>6. DOMAIN attrs = sim.def.attrs
  BY <1>3
<1> QED
  BY <1>4, <1>5, <1>6

(* What a step of one client's handler does to the shape of the rest.      *)
Aside(d) == \A c \in Clients \ {d} :
  /\ call'[c] = call[c] /\ pc'[c] = pc[c] /\ ref'[c] = ref[c]
  /\ todo'[c] = todo[c] /\ tmp'[c] = tmp[c] /\ reply'[c] = reply[c]

LEMMA ReturnTyped ==
  ASSUME Types, NEW d \in Clients, NEW answer, answer.code \in Codes, Return(d, answer),
         Simulations'
  PROVE  Types' /\ Aside(d)
<1>1. /\ reply' = [reply EXCEPT ![d] = answer]
      /\ call' = [call EXCEPT ![d] = NoCall]
      /\ pc' = [pc EXCEPT ![d] = "idle"]
      /\ ref' = [ref EXCEPT ![d] = NoRef]
      /\ todo' = [todo EXCEPT ![d] = <<>>]
      /\ tmp' = [tmp EXCEPT ![d] = Unset]
      /\ up' = up
  BY Zenon DEF Return
<1>2. /\ DOMAIN call' = Clients /\ DOMAIN reply' = Clients /\ up' \in BOOLEAN
      /\ \A c \in Clients : call'[c] \in Calls[c] \cup {NoCall}
      /\ \A c \in Clients : reply'[c].code \in Codes
  BY <1>1, SMT DEF Types, TypeOK, Codes
<1>3. /\ pc' \in [Clients -> {"idle", "enter", "check", "found", "replace", "begin", "lock",
                              "read", "run", "store"}]
      /\ ref' \in [Clients -> Gens \cup {NoRef}]
      /\ todo' \in [Clients -> Seq(Output)]
      /\ tmp' \in [Clients -> Vals \cup {Unset}]
  BY <1>1, SMT DEF Types, TypeOK
<1>4. Aside(d) /\ pc'[d] = "idle"
  BY <1>1, SMT DEF Types, TypeOK, Aside
<1>5. \A c \in Clients : Belongs(c)'
  BY <1>4, SMT DEF Types, Belongs, Aside
<1> QED
  BY <1>2, <1>3, <1>4, <1>5 DEF Types, TypeOK, Simulations, Held, Codes

LEMMA GotoTyped ==
  ASSUME Types, NEW d \in Clients,
         NEW label \in {"check", "found", "replace", "begin", "lock", "read", "run", "store"},
         Goto(d, label), Simulations', Belongs(d)', Aside(d),
         ref' \in [Clients -> Gens \cup {NoRef}], todo' \in [Clients -> Seq(Output)],
         tmp' \in [Clients -> Vals \cup {Unset}]
  PROVE  Types'
<1>1. pc' = [pc EXCEPT ![d] = label] /\ UNCHANGED <<up, call, reply>>
  BY Zenon DEF Goto
<1>2. pc' \in [Clients -> {"idle", "enter", "check", "found", "replace", "begin", "lock",
                           "read", "run", "store"}]
  BY <1>1, SMT DEF Types, TypeOK
<1>3. \A c \in Clients : Belongs(c)'
  BY SMT DEF Types, Belongs, Aside
<1> QED
  BY <1>1, <1>2, <1>3 DEF Types, TypeOK, Simulations, Held

LEMMA CallTyped ==
  ASSUME Types, NEW d \in Clients, NEW request \in Calls[d], Call(d, request)
  PROVE  Types' /\ Aside(d)
<1>1. /\ pc[d] = "idle"
      /\ call' = [call EXCEPT ![d] = request]
      /\ pc' = [pc EXCEPT ![d] = "enter"]
      /\ reply' = [reply EXCEPT ![d] = Waiting]
      /\ UNCHANGED <<sims, up, ref, todo, tmp>>
  BY Zenon DEF Call
<1>2. /\ DOMAIN call' = Clients /\ DOMAIN reply' = Clients
      /\ \A c \in Clients : call'[c] \in Calls[c] \cup {NoCall}
      /\ \A c \in Clients : reply'[c].code \in Codes
  BY <1>1, SMT DEF Types, TypeOK, Codes, Waiting, Answer
<1>3. pc' \in [Clients -> {"idle", "enter", "check", "found", "replace", "begin", "lock",
                           "read", "run", "store"}]
  BY <1>1, SMT DEF Types, TypeOK
<1>4. Aside(d) /\ pc'[d] = "enter" /\ call'[d] = request
  BY <1>1, SMT DEF Types, TypeOK, Aside
<1>5. \A c \in Clients : Belongs(c)'
  BY <1>4, SMT DEF Types, Belongs, Aside
<1> QED
  BY <1>1, <1>2, <1>3, <1>4, <1>5 DEF Types, TypeOK, Held, Codes

LEMMA SameSimulations ==
  ASSUME Types, UNCHANGED sims
  PROVE  Simulations'
BY DEF Types, TypeOK, Simulations, Held

LEMMA ChecksTyped ==
  ASSUME Types, NEW d \in Clients, CheckExists(d) \/ CheckHeld(d) \/ CheckUnlocked(d)
  PROVE  Types' /\ Aside(d)
<1>1. UNCHANGED sims /\ pc[d] \in {"enter", "check"}
  BY SMT DEF CheckExists, CheckHeld, CheckUnlocked
<1>2. Simulations'
  BY <1>1, SameSimulations
<1>3. CASE \E code \in Codes : Return(d, Failed(code))
  <2>1. \A code \in Codes : Failed(code).code \in Codes
    BY DEF Failed, Answer
  <2> QED
    BY <1>2, <1>3, <2>1, ReturnTyped
<1>4. ASSUME NEW label \in {"check", "found", "replace"}, Goto(d, label),
             UNCHANGED <<ref, todo, tmp>>,
             label = "found" => call[d].op \in {"Step", "Drop", "GetSim", "Get", "Set"},
             label # "found" => call[d].op = "Apply"
      PROVE  Types' /\ Aside(d)
  <2>1. Aside(d) /\ Belongs(d)'
    BY <1>1, <1>4, SMT DEF Types, TypeOK, Goto, Aside, Belongs
  <2>2. /\ ref' \in [Clients -> Gens \cup {NoRef}] /\ todo' \in [Clients -> Seq(Output)]
        /\ tmp' \in [Clients -> Vals \cup {Unset}]
    BY <1>4 DEF Types, TypeOK
  <2> QED
    BY <1>2, <1>4, <2>1, <2>2, GotoTyped
<1>5. CASE CheckExists(d)
  <2>1. CASE Name(d) \in Held
    BY <1>4, <1>5, <2>1, Zenon DEF CheckExists
  <2>2. CASE Name(d) \notin Held
    BY <1>3, <1>5, <2>2 DEF CheckExists, Codes
  <2> QED
    BY <2>1, <2>2
<1>6. CASE CheckUnlocked(d)
  <2>1. CASE sims[Name(d)].locked
    BY <1>3, <1>6, <2>1 DEF CheckUnlocked, Codes
  <2>2. CASE ~sims[Name(d)].locked
    <3>1. /\ Goto(d, "replace") /\ UNCHANGED <<ref, todo, tmp>>
          /\ pc[d] = "check"
      BY <1>6, <2>2, Zenon DEF CheckUnlocked
    <3>2. call[d].op = "Apply"
      BY <3>1, SMT DEF Types, Belongs
    <3> QED
      BY <1>4, <3>1, <3>2
  <2> QED
    BY <2>1, <2>2
<1>7. CASE CheckHeld(d)
  <2>1. /\ Goto(d, IF Name(d) \in Held THEN "check" ELSE "replace")
        /\ UNCHANGED <<ref, todo, tmp>> /\ call[d].op = "Apply"
    BY <1>7, Zenon DEF CheckHeld
  <2>2. Goto(d, "check") \/ Goto(d, "replace")
    BY <2>1
  <2> QED
    BY <1>4, <2>1, <2>2
<1> QED
  BY <1>5, <1>6, <1>7

LEMMA ReplaceTyped ==
  ASSUME Types, NEW d \in Clients, Replace(d)
  PROVE  Types' /\ Aside(d)
<1>1. /\ pc[d] = "replace" /\ Goto(d, "begin") /\ UNCHANGED <<ref, todo, tmp>>
      /\ sims' = [x \in Held \cup {Name(d)} |->
                    IF x = Name(d) THEN NewSim(call[d].def) ELSE sims[x]]
  BY Zenon DEF Replace
<1>2. call[d] \in Calls[d] /\ call[d].op = "Apply"
  BY <1>1, SMT DEF Types, Belongs
<1>3. Name(d) \in SimNames /\ call[d].def \in SimDef
  BY <1>2, Fields DEF Name
<1>4. Simulations'
  BY <1>1, <1>3, NewSimTyped DEF Types, TypeOK, Simulations, Held
<1>5. Aside(d) /\ Belongs(d)'
  BY <1>1, <1>2, SMT DEF Types, TypeOK, Goto, Aside, Belongs
<1>6. /\ ref' \in [Clients -> Gens \cup {NoRef}] /\ todo' \in [Clients -> Seq(Output)]
      /\ tmp' \in [Clients -> Vals \cup {Unset}]
  BY <1>1 DEF Types, TypeOK
<1> QED
  BY <1>1, <1>4, <1>5, <1>6, GotoTyped

LEMMA BindsTyped ==
  ASSUME Types, NEW d \in Clients,
         BeginInit(d) \/ BindStep(d) \/ BindSet(d) \/ BindRead(d)
  PROVE  Types' /\ Aside(d)
<1> DEFINE sim == sims[Name(d)]
<1>1. /\ UNCHANGED <<sims, tmp>>
      /\ Name(d) \in Held
      /\ ref' = [ref EXCEPT ![d] = sim.gen]
  BY Zenon DEF BeginInit, BindStep, BindSet, BindRead, Refer
<1>2. Simulations' /\ tmp' \in [Clients -> Vals \cup {Unset}]
  BY <1>1, SameSimulations DEF Types, TypeOK
<1>3. sim \in Sim
  BY <1>1 DEF Types, TypeOK
<1>4. ref' \in [Clients -> Gens \cup {NoRef}]
  BY <1>1, <1>3, SMT DEF Types, TypeOK, Sim
<1>5. sim.def.init \in Seq(Output) /\ FlattenSeq(sim.def.systems) \in Seq(Output)
  BY <1>3, FlattenTyped DEF Sim, SimDef
<1>6. ASSUME NEW label \in {"lock", "read", "run"}, Goto(d, label),
             NEW outputs \in Seq(Output), todo' = [todo EXCEPT ![d] = outputs],
             pc[d] # "idle",
             label = "lock" => call[d].op = "Step",
             label = "read" => call[d].op \in {"Get", "GetSim"},
             label = "run" => call[d].op \in {"Apply", "Set"}
      PROVE  Types' /\ Aside(d)
  <2>1. todo' \in [Clients -> Seq(Output)]
    BY <1>6 DEF Types, TypeOK
  <2>2. Aside(d) /\ Belongs(d)'
    BY <1>1, <1>6, SMT DEF Types, TypeOK, Goto, Aside, Belongs
  <2> QED
    BY <1>2, <1>4, <1>6, <2>1, <2>2, GotoTyped
<1>7. CASE BeginInit(d)
  <2>1. /\ pc[d] = "begin" /\ Goto(d, "run")
        /\ todo' = [todo EXCEPT ![d] = sim.def.init]
    BY <1>7, Zenon DEF BeginInit
  <2>2. call[d].op = "Apply"
    BY <2>1, SMT DEF Types, Belongs
  <2> QED
    BY <1>5, <1>6, <2>1, <2>2
<1>8. CASE BindStep(d)
  <2>1. /\ pc[d] = "found" /\ Goto(d, "lock") /\ call[d].op = "Step"
        /\ todo' = [todo EXCEPT ![d] = FlattenSeq(sim.def.systems)]
    BY <1>8, Zenon DEF BindStep, Refer
  <2> QED
    BY <1>5, <1>6, <2>1
<1>9. CASE BindSet(d)
  <2> DEFINE out == [target |-> call[d].attr, from |-> NoAttr, add |-> call[d].val]
  <2>1. /\ pc[d] = "found" /\ Goto(d, "run") /\ call[d].op = "Set"
        /\ todo' = [todo EXCEPT ![d] = <<out>>]
    BY <1>9, Zenon DEF BindSet, Refer
  <2>2. call[d] \in Calls[d]
    BY <2>1, SMT DEF Types, Belongs
  <2>3. call[d].attr \in Attrs /\ call[d].val \in Vals
    BY <2>1, <2>2, Fields
  <2>4. out \in Output
    BY <2>3 DEF Output
  <2> HIDE DEF out
  <2>5. <<out>> \in Seq(Output)
    BY <2>4
  <2> QED
    BY <1>6, <2>1, <2>5
<1>10. CASE BindRead(d)
  <2>1. /\ pc[d] = "found" /\ Goto(d, "read") /\ call[d].op \in {"Get", "GetSim"}
        /\ UNCHANGED todo
    BY <1>10, Zenon DEF BindRead, Refer
  <2>2. todo' = [todo EXCEPT ![d] = todo[d]] /\ todo[d] \in Seq(Output)
    BY <2>1, SMT DEF Types, TypeOK
  <2> QED
    BY <1>6, <2>1, <2>2
<1> QED
  BY <1>7, <1>8, <1>9, <1>10

LEMMA EraseTyped ==
  ASSUME Types, NEW d \in Clients, Erase(d)
  PROVE  Types' /\ Aside(d)
<1>1. /\ sims' = [x \in Held \ {Name(d)} |-> sims[x]]
      /\ Return(d, Done)
  BY Zenon DEF Erase
<1>2. Simulations'
  BY <1>1 DEF Types, TypeOK, Simulations, Held
<1> QED
  BY <1>1, <1>2, ReturnTyped DEF Done, Answer, Codes

WithLock(sim, b) == [sim EXCEPT !.locked = b]

LEMMA LockingTyped ==
  ASSUME NEW sim \in Sim, NEW b \in BOOLEAN
  PROVE  /\ WithLock(sim, b) \in Sim
         /\ WithLock(sim, b).attrs = sim.attrs
         /\ WithLock(sim, b).def = sim.def
BY SMT DEF Sim, WithLock

LEMMA LockTyped ==
  ASSUME Types, NEW d \in Clients, Lock(d)
  PROVE  Types' /\ Aside(d)
<1>1. /\ pc[d] = "lock" /\ Goto(d, "run") /\ UNCHANGED <<ref, todo, tmp>>
      /\ sims' = [sims EXCEPT ![Name(d)].locked = TRUE]
      /\ Name(d) \in Held
  BY Zenon DEF Lock
<1> DEFINE sim == sims[Name(d)]
           locked == WithLock(sim, TRUE)
<1>2. sim \in Sim
  BY <1>1 DEF Types, TypeOK
<1>3. locked \in Sim /\ locked.attrs = sim.attrs /\ locked.def = sim.def
  BY <1>2, LockingTyped
<1>4. Held' = Held /\ \A name \in Held : sims'[name] = IF name = Name(d) THEN locked ELSE sims[name]
  BY <1>1, Zenon DEF Held, WithLock
<1>5. Simulations'
  <2> HIDE DEF locked
  <2>1. \A name \in Held : sims[name] \in Sim /\ DOMAIN sims[name].attrs = sims[name].def.attrs
    BY DEF Types, TypeOK
  <2>2. DOMAIN locked.attrs = locked.def.attrs
    BY <1>1, <1>3, <2>1
  <2>3. Held \subseteq SimNames
    BY DEF Types, TypeOK
  <2> QED
    BY <1>3, <1>4, <2>1, <2>2, <2>3, Zenon DEF Simulations
<1>6. Aside(d) /\ Belongs(d)'
  BY <1>1, SMT DEF Types, TypeOK, Goto, Aside, Belongs
<1>7. /\ ref' \in [Clients -> Gens \cup {NoRef}] /\ todo' \in [Clients -> Seq(Output)]
      /\ tmp' \in [Clients -> Vals \cup {Unset}]
  BY <1>1 DEF Types, TypeOK
<1> QED
  BY <1>1, <1>5, <1>6, <1>7, GotoTyped

(* A value that an output evaluates to.                                    *)
LEMMA ValueTyped ==
  ASSUME NEW sim \in Sim, NEW out \in Output, Evaluates(sim.attrs, out)
  PROVE  ValueOf(sim.attrs, out) \in Vals
<1>1. PICK A \in SUBSET Attrs : sim.attrs \in [A -> Vals \cup {Unset}]
  BY DEF Sim, AttrValues
<1>2. out.add \in Nat
  BY ValModAssumption DEF Output, Vals
<1>3. out.from # NoAttr => sim.attrs[out.from] \in Nat
  BY <1>1, ValModAssumption DEF Evaluates, Readable, Vals
<1>4. \A n \in Nat : n % ValMod \in 0 .. ValMod - 1
  BY ValModAssumption, SMT
<1>5. CASE out.from = NoAttr
  BY <1>2, <1>4, <1>5 DEF ValueOf, Vals
<1>6. CASE out.from # NoAttr
  BY <1>2, <1>3, <1>4, <1>6 DEF ValueOf, Vals
<1> QED
  BY <1>5, <1>6

LEMMA EvaluateTyped ==
  ASSUME Types, NEW d \in Clients, Evaluate(d)
  PROVE  Types' /\ Aside(d)
<1> DEFINE sim == sims[Name(d)]
           out == Head(todo[d])
<1>1. pc[d] = "run" /\ todo[d] # <<>> /\ Intact(d) /\ UNCHANGED sims
  BY Zenon DEF Evaluate
<1>2. Simulations'
  BY <1>1, SameSimulations
<1>3. sim \in Sim /\ out \in Output
  BY <1>1, SMT DEF Types, TypeOK, Intact
<1>4. CASE Evaluates(sim.attrs, out)
  <2>1. /\ tmp' = [tmp EXCEPT ![d] = ValueOf(sim.attrs, out)]
        /\ Goto(d, "store") /\ UNCHANGED <<ref, todo>>
    BY <1>4, Zenon DEF Evaluate
  <2>2. ValueOf(sim.attrs, out) \in Vals
    BY <1>3, <1>4, ValueTyped
  <2> HIDE DEF sim, out
  <2>3. tmp' \in [Clients -> Vals \cup {Unset}]
    BY <2>1, <2>2 DEF Types, TypeOK
  <2>4. Aside(d) /\ Belongs(d)'
    BY <1>1, <2>1, SMT DEF Types, TypeOK, Goto, Aside, Belongs
  <2>5. ref' \in [Clients -> Gens \cup {NoRef}] /\ todo' \in [Clients -> Seq(Output)]
    BY <2>1 DEF Types, TypeOK
  <2> QED
    BY <1>2, <2>1, <2>3, <2>4, <2>5, GotoTyped
<1>5. CASE ~Evaluates(sim.attrs, out)
  <2>1. Return(d, Failed("INTERNAL"))
    BY <1>5, Zenon DEF Evaluate
  <2> QED
    BY <1>2, <2>1, ReturnTyped DEF Failed, Answer, Codes
<1> QED
  BY <1>4, <1>5

(* The next output is up.                                                  *)
LEMMA AdvanceTyped ==
  ASSUME Types, NEW d \in Clients, pc[d] = "store", Simulations',
         todo' = [todo EXCEPT ![d] = Tail(@)], tmp' = [tmp EXCEPT ![d] = Unset],
         Goto(d, "run"), UNCHANGED ref
  PROVE  Types' /\ Aside(d)
<1>1. todo[d] \in Seq(Output) /\ todo[d] # <<>>
  BY SMT DEF Types, TypeOK, Belongs
<1>2. todo' \in [Clients -> Seq(Output)]
  BY <1>1, SMT DEF Types, TypeOK
<1>3. tmp' \in [Clients -> Vals \cup {Unset}] /\ ref' \in [Clients -> Gens \cup {NoRef}]
  BY DEF Types, TypeOK
<1>4. Aside(d) /\ Belongs(d)'
  BY SMT DEF Types, TypeOK, Goto, Aside, Belongs
<1> QED
  BY <1>2, <1>3, <1>4, GotoTyped

LEMMA StoreTyped ==
  ASSUME Types, NEW d \in Clients, Store(d)
  PROVE  Types' /\ Aside(d)
<1> DEFINE sim == sims[Name(d)]
           a == Head(todo[d]).target
           stored == StoredIn(sim, a, tmp[d])
<1>1. pc[d] = "store" /\ Name(d) \in Held
  BY Zenon DEF Store, Intact
<1>2. sim \in Sim /\ DOMAIN sim.attrs = sim.def.attrs /\ tmp[d] \in Vals \cup {Unset}
  BY <1>1 DEF Types, TypeOK
<1>3. CASE Writable(sim.attrs, a)
  <2>1. /\ sims' = [sims EXCEPT ![Name(d)].attrs[a] = tmp[d]]
        /\ todo' = [todo EXCEPT ![d] = Tail(@)]
        /\ tmp' = [tmp EXCEPT ![d] = Unset]
        /\ Goto(d, "run") /\ UNCHANGED ref
    BY <1>3, Zenon DEF Store
  <2>2. Held' = Held
        /\ \A name \in Held : sims'[name] = IF name = Name(d) THEN stored ELSE sims[name]
    BY <1>1, <2>1, Zenon DEF Held, StoredIn
  <2>3. stored \in Sim /\ DOMAIN stored.attrs = stored.def.attrs
    <3> HIDE DEF sim, a
    <3> QED
      BY <1>2, StoringTyped
  <2>4. Simulations'
    <3> HIDE DEF stored
    <3> QED
      BY <2>2, <2>3 DEF Types, TypeOK, Simulations
  <2> QED
    BY <1>1, <2>1, <2>4, AdvanceTyped
<1>4. CASE ~Writable(sim.attrs, a)
  <2>1. Return(d, Failed("INTERNAL")) /\ UNCHANGED sims
    BY <1>4, Zenon DEF Store
  <2> QED
    BY <2>1, SameSimulations, ReturnTyped DEF Failed, Answer, Codes
<1> QED
  BY <1>3, <1>4

LEMMA AnswersTyped ==
  ASSUME Types, NEW d \in Clients,
         ListSimulation(d) \/ AtThrows(d) \/ Read(d) \/ Finish(d)
  PROVE  Types' /\ Aside(d)
<1>1. PICK answer : Return(d, answer) /\ answer.code \in Codes /\ UNCHANGED sims
  <2>1. \A body : Answer("OK", body).code \in Codes
    BY DEF Answer, Codes
  <2>2. /\ Failed("UNKNOWN").code \in Codes /\ Failed("NOT_FOUND").code \in Codes
        /\ Done.code \in Codes
    BY DEF Failed, Done, Answer, Codes
  <2> QED
    BY <2>1, <2>2, Zenon DEF ListSimulation, AtThrows, Read, Finish
<1> QED
  BY <1>1, SameSimulations, ReturnTyped

LEMMA UndefinedTyped ==
  ASSUME Types, NEW d \in Clients, UseDestroyed(d) \/ NullDereference(d)
  PROVE  Types' /\ Aside(d)
<1>1. CASE Crash
  <2>1. up' \in BOOLEAN /\ UNCHANGED <<sims, call, pc, ref, todo, tmp, reply>>
    BY <1>1, Zenon DEF Crash, handlers
  <2> QED
    BY <2>1, Zenon DEF Types, TypeOK, Belongs, Aside, Held
<1>2. ASSUME NEW answer, Return(d, answer), answer.code \in Codes, UNCHANGED sims
      PROVE  Types' /\ Aside(d)
  BY <1>2, SameSimulations, ReturnTyped
<1>3. CASE pc[d] = "lock" /\ Goto(d, "run") /\ UNCHANGED <<sims, ref, todo, tmp>>
  <2>1. Aside(d) /\ Belongs(d)'
    BY <1>3, SMT DEF Types, TypeOK, Goto, Aside, Belongs
  <2>2. /\ ref' \in [Clients -> Gens \cup {NoRef}] /\ todo' \in [Clients -> Seq(Output)]
        /\ tmp' \in [Clients -> Vals \cup {Unset}]
    BY <1>3 DEF Types, TypeOK
  <2> QED
    BY <1>3, <2>1, <2>2, SameSimulations, GotoTyped
<1>4. ASSUME NEW v \in Vals, tmp' = [tmp EXCEPT ![d] = v], pc[d] = "run", todo[d] # <<>>,
             Goto(d, "store"), UNCHANGED <<sims, ref, todo>>
      PROVE  Types' /\ Aside(d)
  <2>1. tmp' \in [Clients -> Vals \cup {Unset}]
    BY <1>4 DEF Types, TypeOK
  <2>2. Aside(d) /\ Belongs(d)'
    BY <1>4, SMT DEF Types, TypeOK, Goto, Aside, Belongs
  <2>3. ref' \in [Clients -> Gens \cup {NoRef}] /\ todo' \in [Clients -> Seq(Output)]
    BY <1>4 DEF Types, TypeOK
  <2> QED
    BY <1>4, <2>1, <2>2, <2>3, SameSimulations, GotoTyped
<1>5. CASE /\ pc[d] = "store"
           /\ todo' = [todo EXCEPT ![d] = Tail(@)] /\ tmp' = [tmp EXCEPT ![d] = Unset]
           /\ Goto(d, "run") /\ UNCHANGED <<sims, ref>>
  BY <1>5, SameSimulations, AdvanceTyped
<1>6. /\ \A body : Answer("OK", body).code \in Codes
      /\ Failed("INTERNAL").code \in Codes /\ Failed("NOT_FOUND").code \in Codes
  BY DEF Failed, Answer, Codes
<1> QED
  BY <1>1, <1>2, <1>3, <1>4, <1>5, <1>6, Zenon DEF UseDestroyed, NullDereference

LEMMA InitTypes == Init => Types
<1> SUFFICES ASSUME Init PROVE Types
  OBVIOUS
<1>1. Held = {}
  BY Zenon DEF Init, Held
<1>2. /\ DOMAIN call = Clients /\ DOMAIN reply = Clients
      /\ \A c \in Clients : call[c] = NoCall /\ reply[c].code = "OK"
  BY DEF Init, Done, Answer
<1>3. <<>> \in Seq(Output)
  OBVIOUS
<1> QED
  BY <1>1, <1>2, <1>3 DEF Init, Types, TypeOK, Belongs

LEMMA StepTyped ==
  ASSUME Types, NEW d \in Clients, Handle(d) \/ \E request \in Calls[d] : Call(d, request)
  PROVE  Types' /\ Aside(d)
BY CallTyped, ChecksTyped, ReplaceTyped, BindsTyped, EraseTyped, LockTyped, EvaluateTyped,
   StoreTyped, AnswersTyped, UndefinedTyped, Zenon DEF Handle

LEMMA TypesStutter ==
  ASSUME Types, UNCHANGED vars
  PROVE  Types'
BY SMT DEF vars, handlers, Types, TypeOK, Belongs, Held

LEMMA TypesInvariant == Spec => []Types
<1>1. Types /\ [Next]_vars => Types'
  BY StepTyped, TypesStutter DEF Next
<1> QED
  BY InitTypes, <1>1, PTL DEF Spec

(***************************************************************************)
(* The shape of the service's state, whatever simulations clients share,   *)
(* undefined steps included.                                               *)
(***************************************************************************)
THEOREM TypeCorrect == Spec => []TypeOK
<1>1. Types => TypeOK
  BY DEF Types
<1> QED
  BY TypesInvariant, <1>1, PTL

-----------------------------------------------------------------------------
(* How a handler goes on.                                                  *)
Takes(d, from, to) == pc[d] = from /\ pc'[d] = to

LEMMA Goes ==
  ASSUME Types, NEW d \in Clients
  PROVE  /\ \A label : Goto(d, label) => pc'[d] = label
         /\ \A answer : Return(d, answer) => pc'[d] = "idle"
BY Zenon DEF Types, TypeOK, Goto, Return

LEMMA HandlerGoes ==
  ASSUME Types, NEW d \in Clients, Handle(d)
  PROVE  \/ Crash \/ pc'[d] = "idle"
         \/ Takes(d, "enter", "found") \/ Takes(d, "enter", "check")
         \/ /\ Takes(d, "enter", "replace") \/ Takes(d, "check", "replace")
            /\ UNCHANGED <<sims, call>>
            /\ ~(Name(d) \in Held /\ sims[Name(d)].locked)
         \/ \E label \in {"lock", "run", "read"} : Takes(d, "found", label)
         \/ Takes(d, "replace", "begin")
         \/ Takes(d, "begin", "run")
         \/ todo'[d] = todo[d] /\ (Takes(d, "lock", "run") \/ Takes(d, "run", "store"))
         \/ todo'[d] = Tail(todo[d]) /\ Takes(d, "store", "run")
<1> DEFINE Ends == Crash \/ pc'[d] = "idle"
<1>1. \A label : Goto(d, label) => pc'[d] = label
  BY Goes
<1>2. ASSUME NEW answer, Return(d, answer) PROVE Ends
  BY <1>2, Goes
<1>3. CASE ListSimulation(d) \/ AtThrows(d) \/ Read(d) \/ Finish(d) \/ Erase(d)
  <2>1. \E answer : Return(d, answer)
    BY <1>3, Zenon DEF ListSimulation, AtThrows, Read, Finish, Erase
  <2> QED
    BY <1>2, <2>1
<1>4. CASE CheckExists(d)
  <2>1. pc[d] = "enter" /\ (Goto(d, "found") \/ Return(d, Failed("NOT_FOUND")))
    BY <1>4, Zenon DEF CheckExists
  <2> QED
    BY <1>1, <1>2, <2>1, Zenon DEF Takes
<1>5. CASE CheckUnlocked(d)
  <2>1. pc[d] = "check" /\ UNCHANGED sims
    BY <1>5, Zenon DEF CheckUnlocked
  <2>2. CASE sims[Name(d)].locked
    <3>1. Return(d, Failed("ALREADY_EXISTS"))
      BY <1>5, <2>2, Zenon DEF CheckUnlocked
    <3> QED
      BY <1>2, <3>1
  <2>3. CASE ~sims[Name(d)].locked
    <3>1. Goto(d, "replace")
      BY <1>5, <2>3, Zenon DEF CheckUnlocked
    <3>2. pc'[d] = "replace" /\ UNCHANGED call
      BY <1>1, <3>1, Zenon DEF Goto
    <3> QED
      BY <2>1, <2>3, <3>2, Zenon DEF Takes
  <2> QED
    BY <2>2, <2>3
<1>6. CASE Replace(d) \/ BeginInit(d) \/ BindStep(d) \/ BindSet(d) \/ BindRead(d)
  <2>1. \/ pc[d] = "replace" /\ Goto(d, "begin")
        \/ pc[d] = "begin" /\ Goto(d, "run")
        \/ pc[d] = "found" /\ (Goto(d, "lock") \/ Goto(d, "run") \/ Goto(d, "read"))
    BY <1>6, Zenon DEF Replace, BeginInit, BindStep, BindSet, BindRead, Refer
  <2> QED
    BY <1>1, <2>1, Zenon DEF Takes
<1>7. todo \in [Clients -> Seq(Output)]
  BY DEF Types, TypeOK
<1>8. CASE Lock(d) \/ Evaluate(d)
  <2>1. \/ pc[d] = "lock" /\ Goto(d, "run") /\ UNCHANGED todo
        \/ pc[d] = "run" /\ Goto(d, "store") /\ UNCHANGED todo
        \/ Return(d, Failed("INTERNAL"))
    BY <1>8, Zenon DEF Lock, Evaluate
  <2> QED
    BY <1>1, <1>2, <2>1, Zenon DEF Takes
<1>9. CASE Store(d)
  <2>1. \/ /\ pc[d] = "store" /\ Goto(d, "run")
           /\ todo' = [todo EXCEPT ![d] = Tail(@)]
        \/ Return(d, Failed("INTERNAL"))
    BY <1>9, Zenon DEF Store
  <2> QED
    BY <1>1, <1>2, <1>7, <2>1, Zenon DEF Takes
<1>10. CASE UseDestroyed(d) \/ NullDereference(d)
  <2>1. \/ Crash
        \/ \E answer : Return(d, answer)
        \/ pc[d] = "lock" /\ Goto(d, "run") /\ UNCHANGED todo
        \/ pc[d] = "run" /\ Goto(d, "store") /\ UNCHANGED todo
        \/ /\ pc[d] = "store" /\ Goto(d, "run")
           /\ todo' = [todo EXCEPT ![d] = Tail(@)]
    BY <1>10, Zenon DEF UseDestroyed, NullDereference
  <2> QED
    BY <1>1, <1>2, <1>7, <2>1, Zenon DEF Takes
<1>11. CASE CheckHeld(d)
  <2>1. /\ pc[d] = "enter" /\ UNCHANGED sims
        /\ Goto(d, IF Name(d) \in Held THEN "check" ELSE "replace")
    BY <1>11, Zenon DEF CheckHeld
  <2>2. UNCHANGED call /\ pc'[d] = IF Name(d) \in Held THEN "check" ELSE "replace"
    BY <1>1, <2>1, Zenon DEF Goto
  <2> QED
    BY <2>1, <2>2, Zenon DEF Takes
<1> QED
  BY <1>3, <1>4, <1>5, <1>6, <1>8, <1>9, <1>10, <1>11, Zenon DEF Handle

(***************************************************************************)
(* Handlers advance, however many clients share simulations and whatever   *)
(* they do to them.  With a handler that can always take a step and is     *)
(* given its turn, which is what is left to model checking, every call is  *)
(* answered or the engine crashes.                                         *)
(***************************************************************************)
THEOREM EveryHandlerAdvances == Spec => HandlersAdvance
<1> DEFINE Advance(c) ==
      pc[c] # "idle" =>
        IF Handle(c) THEN pc'[c] = "idle" \/ ~up' \/ Closer(c)
                     ELSE UNCHANGED <<call[c], pc[c], ref[c], todo[c], tmp[c]>>
<1>1. ASSUME Types, NEW c \in Clients, Handle(c)
      PROVE  pc'[c] = "idle" \/ ~up' \/ Closer(c)
  <2>1. todo[c] \in Seq(Output) /\ Belongs(c)
    BY <1>1 DEF Types, TypeOK
  <2>2. ASSUME NEW from, NEW to, Takes(c, from, to), Parts[to] < Parts[from]
        PROVE  Closer(c)
    BY <2>2 DEF Takes, Closer
  <2>3. CASE todo'[c] = todo[c] /\ (Takes(c, "lock", "run") \/ Takes(c, "run", "store"))
    BY <2>1, <2>3, SMT DEF Takes, Closer, Left, Parts, Rest
  <2>4. CASE todo'[c] = Tail(todo[c]) /\ Takes(c, "store", "run")
    <3>1. Len(Tail(todo[c])) = Len(todo[c]) - 1 /\ Len(todo[c]) \in Nat
      BY <2>1, <2>4, SMT DEF Takes, Belongs
    <3> QED
      BY <2>4, <3>1, SMT DEF Takes, Closer, Left, Parts, Rest
  <2>5. /\ Parts["found"] < Parts["enter"] /\ Parts["check"] < Parts["enter"]
        /\ Parts["replace"] < Parts["enter"] /\ Parts["replace"] < Parts["check"]
        /\ Parts["begin"] < Parts["replace"] /\ Parts["run"] < Parts["begin"]
        /\ \A label \in {"lock", "run", "read"} : Parts[label] < Parts["found"]
    BY SMT DEF Parts
  <2> QED
    BY <1>1, <2>2, <2>3, <2>4, <2>5, HandlerGoes, Zenon DEF Crash
<1>2. ASSUME Types, Next, NEW c \in Clients
      PROVE  Advance(c)
  <2>1. PICK d \in Clients : Handle(d) \/ \E request \in Calls[d] : Call(d, request)
    BY <1>2, Zenon DEF Next
  <2>2. Aside(d)
    BY <1>2, <2>1, StepTyped
  <2>3. CASE d = c
    <3>1. pc[c] # "idle" => Handle(c)
      BY <2>1, <2>3, Zenon DEF Call
    <3>2. Handle(c) => pc'[c] = "idle" \/ ~up' \/ Closer(c)
      BY <1>1, <1>2
    <3> QED
      BY <3>1, <3>2, Zenon
  <2>4. CASE d # c
    BY <1>1, <1>2, <2>2, <2>4, Zenon DEF Aside
  <2> QED
    BY <2>3, <2>4
<1>3. Types /\ [Next]_vars => [\A c \in Clients : Advance(c)]_vars
  BY <1>2
<1> QED
  BY TypesInvariant, <1>3, PTL DEF Spec, HandlersAdvance

-----------------------------------------------------------------------------
(* Replacing a simulation.                                                 *)
(* Nothing holds the lock of a simulation between the check and the        *)
(* assignment of ApplySimulation (engineService.cpp:38-45).  What keeps    *)
(* the outcome of the check true is that only a step locks, and that       *)
(* whoever steps the simulation is waiting for this handler.               *)
Unstarted(c) == pc[c] = "replace" => ~(Name(c) \in Held /\ sims[Name(c)].locked)

(* What a step does to the simulations that stay in the map.               *)
SameObject(old, new) == new.gen = old.gen /\ new.def = old.def

LEMMA StoredSame ==
  ASSUME NEW sim \in Sim, NEW a, NEW v
  PROVE  /\ SameObject(sim, StoredIn(sim, a, v))
         /\ StoredIn(sim, a, v).locked = sim.locked
BY SMT DEF Sim, StoredIn, SameObject

LEMMA LockedSame ==
  ASSUME NEW sim \in Sim
  PROVE  SameObject(sim, WithLock(sim, TRUE)) /\ WithLock(sim, TRUE).locked
BY SMT DEF Sim, WithLock, SameObject

LEMMA Stay ==
  ASSUME Types, NEW d \in Clients, Handle(d), ~Replace(d)
  PROVE  /\ Held' \subseteq Held
         /\ \A name \in Held' :
              /\ SameObject(sims[name], sims'[name])
              /\ sims[name].locked => sims'[name].locked
              /\ sims'[name].locked => \/ sims[name].locked
                                       \/ pc[d] = "lock" /\ name = Name(d)
<1>1. \A name \in Held : sims[name] \in Sim
  BY DEF Types, TypeOK
<1>2. CASE UNCHANGED sims
  BY <1>2, Zenon DEF Held, SameObject
<1>3. CASE Erase(d)
  BY <1>3, Zenon DEF Erase, Held, SameObject
<1>4. CASE Lock(d)
  <2>1. /\ pc[d] = "lock" /\ Name(d) \in Held /\ Held' = Held
        /\ \A name \in Held :
             sims'[name] = IF name = Name(d) THEN WithLock(sims[name], TRUE) ELSE sims[name]
    BY <1>4, Zenon DEF Lock, Held, WithLock
  <2> QED
    BY <1>1, <2>1, LockedSame, Zenon DEF SameObject
<1>5. CASE Store(d) /\ ~UNCHANGED sims
  <2> DEFINE a == Head(todo[d]).target
  <2>1. Name(d) \in Held /\ sims' = [sims EXCEPT ![Name(d)].attrs[a] = tmp[d]]
    BY <1>5, Zenon DEF Store, Intact
  <2>2. /\ Held' = Held
        /\ \A name \in Held :
             sims'[name] = IF name = Name(d) THEN StoredIn(sims[name], a, tmp[d])
                                             ELSE sims[name]
    BY <2>1, Zenon DEF Held, StoredIn
  <2> HIDE DEF a
  <2>3. \A sim \in Sim : /\ SameObject(sim, StoredIn(sim, a, tmp[d]))
                         /\ StoredIn(sim, a, tmp[d]).locked = sim.locked
    BY StoredSame
  <2>4. ASSUME NEW name \in Held
        PROVE  SameObject(sims[name], sims'[name]) /\ sims'[name].locked = sims[name].locked
    <3>1. CASE name = Name(d)
      BY <1>1, <2>2, <2>3, <3>1
    <3>2. CASE name # Name(d)
      BY <2>2, <3>2 DEF SameObject
    <3> QED
      BY <3>1, <3>2
  <2> QED
    BY <2>2, <2>4, Zenon
<1>6. CASE ListSimulation(d) \/ CheckExists(d) \/ CheckHeld(d) \/ CheckUnlocked(d)
           \/ BeginInit(d)
  BY <1>2, <1>6, Zenon DEF ListSimulation, CheckExists, CheckHeld, CheckUnlocked, BeginInit
<1>7. CASE AtThrows(d) \/ BindStep(d) \/ BindSet(d) \/ BindRead(d) \/ Read(d)
  BY <1>2, <1>7, Zenon DEF AtThrows, BindStep, BindSet, BindRead, Refer, Read
<1>8. CASE Evaluate(d) \/ Finish(d)
  BY <1>2, <1>8, Zenon DEF Evaluate, Finish
<1>9. CASE UseDestroyed(d) \/ NullDereference(d)
  <2>1. UNCHANGED sims
    BY <1>9, Zenon DEF UseDestroyed, NullDereference, Crash
  <2> QED
    BY <1>2, <2>1
<1> QED
  BY <1>2, <1>3, <1>4, <1>5, <1>6, <1>7, <1>8, <1>9, Zenon DEF Handle

LEMMA NewUnlocked ==
  ASSUME NEW d \in Clients, Replace(d)
  PROVE  /\ Held' = Held \cup {Name(d)} /\ ~sims'[Name(d)].locked
         /\ \A name \in Held : name # Name(d) => sims'[name] = sims[name]
<1>1. \A def : ~NewSim(def).locked
  BY DEF NewSim
<1>2. sims' = [x \in Held \cup {Name(d)} |->
                 IF x = Name(d) THEN NewSim(call[d].def) ELSE sims[x]]
  BY Zenon DEF Replace
<1> QED
  BY <1>1, <1>2, Zenon DEF Held

LEMMA UnstartedKept ==
  ASSUME SoleDriver, Types, Types', NEW d \in Clients, Handle(d), Aside(d),
         NEW c \in Clients, Unstarted(c)
  PROVE  Unstarted(c)'
<1> SUFFICES ASSUME pc'[c] = "replace", Name(c)' \in Held', sims'[Name(c)'].locked
             PROVE  FALSE
  BY DEF Unstarted
<1>1. CASE c = d
  <2>1. \/ UNCHANGED <<sims, call>> /\ ~(Name(d) \in Held /\ sims[Name(d)].locked)
        \/ Crash
    BY <1>1, HandlerGoes, Zenon DEF Takes
  <2>2. CASE Crash
    <3>1. UNCHANGED <<sims, call, pc>>
      BY <2>2, Zenon DEF Crash, handlers
    <3> QED
      BY <1>1, <3>1, Zenon DEF Unstarted, Name, Held
  <2> QED
    BY <1>1, <2>1, <2>2, Zenon DEF Name, Held
<1>2. CASE c # d
  <2>1. pc[c] = "replace" /\ Name(c)' = Name(c)
    BY <1>2, Zenon DEF Aside, Name
  <2>2. ~(Name(c) \in Held /\ sims[Name(c)].locked)
    BY <2>1 DEF Unstarted
  <2>3. CASE Replace(d)
    BY <2>1, <2>2, <2>3, NewUnlocked, Zenon
  <2>4. CASE ~Replace(d)
    <3>1. pc[d] = "lock" /\ Name(c) = Name(d)
      BY <2>1, <2>2, <2>4, Stay, Zenon
    <3>2. /\ call[c] \in Calls[c] /\ call[c].op = "Apply"
          /\ call[d] \in Calls[d] /\ call[d].op = "Step"
      BY <2>1, <3>1 DEF Types, Belongs
    <3> QED
      BY <1>2, <3>1, <3>2, Zenon DEF SoleDriver, Name
  <2> QED
    BY <2>3, <2>4
<1> QED
  BY <1>1, <1>2

(***************************************************************************)
(* A simulation that was stepped is not replaced when only the client that *)
(* steps it applies definitions to it; others may drop it, set its         *)
(* attributes and even crash the engine.  That nobody else applies a       *)
(* definition is needed: with two that do, model checking finds the step   *)
(* of one between the check and the assignment of the other.               *)
(***************************************************************************)
THEOREM SoleDriverLockedNeverReplaced ==
  ASSUME SoleDriver
  PROVE  Spec => LockedNeverReplaced
<1> DEFINE LInv == Types /\ \A c \in Clients : Unstarted(c)
           Kept(name) == sims[name].locked /\ name \in Held' =>
             /\ sims'[name].gen = sims[name].gen
             /\ sims'[name].def = sims[name].def
             /\ sims'[name].locked
<1>1. Init => LInv
  BY InitTypes, Zenon DEF Init, Unstarted
<1>2. ASSUME LInv, [Next]_vars
      PROVE  LInv' /\ \A name \in Held : UNCHANGED vars \/ Kept(name)
  <2>1. CASE UNCHANGED vars
    BY <1>2, <2>1, TypesStutter, Zenon DEF vars, handlers, Unstarted, Name, Held
  <2>2. ASSUME NEW d \in Clients, NEW request \in Calls[d], Call(d, request)
        PROVE  LInv' /\ \A name \in Held : Kept(name)
    <3>1. Types' /\ Aside(d) /\ UNCHANGED sims
      BY <1>2, <2>2, CallTyped, Zenon DEF Call
    <3>2. pc'[d] = "enter"
      BY <1>2, <2>2, Zenon DEF Types, TypeOK, Call
    <3>3. ASSUME NEW c \in Clients PROVE Unstarted(c)'
      BY <1>2, <3>1, <3>2, Zenon DEF Unstarted, Aside, Name, Held
    <3> QED
      BY <3>1, <3>3, Zenon DEF Held
  <2>3. ASSUME NEW d \in Clients, Handle(d)
        PROVE  LInv' /\ \A name \in Held : Kept(name)
    <3>1. Types' /\ Aside(d)
      BY <1>2, <2>3, StepTyped
    <3>2. \A c \in Clients : Unstarted(c)'
      BY <1>2, <2>3, <3>1, SoleDriver, UnstartedKept
    <3>3. ASSUME NEW name \in Held, sims[name].locked, name \in Held'
          PROVE  SameObject(sims[name], sims'[name]) /\ sims'[name].locked
      <4>1. CASE Replace(d)
        <5>1. name # Name(d)
          BY <1>2, <3>3, <4>1, Zenon DEF Replace, Unstarted
        <5> QED
          BY <3>3, <4>1, <5>1, NewUnlocked, Zenon DEF SameObject
      <4>2. CASE ~Replace(d)
        BY <1>2, <2>3, <3>3, <4>2, Stay
      <4> QED
        BY <4>1, <4>2
    <3> QED
      BY <3>1, <3>2, <3>3, Zenon DEF SameObject
  <2> QED
    BY <1>2, <2>1, <2>2, <2>3 DEF Next
<1>3. LInv /\ [Next]_vars => [\A name \in Held : Kept(name)]_vars
  BY <1>2
<1>4. LInv /\ [Next]_vars => LInv'
  BY <1>2
<1> HIDE DEF LInv
<1> QED
  BY <1>1, <1>3, <1>4, PTL DEF Spec, LockedNeverReplaced

(* With a simulation of its own a client is its sole driver.               *)
THEOREM OwnLockedNeverReplaced ==
  ASSUME OwnSimulations
  PROVE  Spec => LockedNeverReplaced
<1>1. SoleDriver
  BY OwnSimulations, Zenon DEF OwnSimulations, SoleDriver
<1> QED
  BY <1>1, SoleDriverLockedNeverReplaced
=============================================================================
