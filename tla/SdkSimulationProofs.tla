------------------------ MODULE SdkSimulationProofs -------------------------
(***************************************************************************)
(* Proofs about SdkSimulation, for any number of objects, systems, steps,  *)
(* strays and restarts.  The invariant says of each call how far it can be *)
(* (Staged), and of each object what its fields and its call say of each   *)
(* other (Fields), what they say of the simulation the engine has for it   *)
(* (InMap, Present), and how many steps that may have run, counting those  *)
(* that strays may yet bring (the last two conjuncts of Local).  What a    *)
(* caller of another object does leaves all of that alone (Frame).         *)
(***************************************************************************)
EXTENDS SdkSimulation, FiniteSetTheorems, WellFoundedInduction, NaturalsInduction, TLAPS

Ops == {"none", "construct", "start", "stop", "step"}
Stages == {"none", "sent", "replace", "init", "lock", "run", "erase", "answered"}
Codes == {"none", "OK", "NOT_FOUND", "ALREADY_EXISTS", "INTERNAL", "UNAVAILABLE"}
Defs == [entities : Seq(EntityDef), systems : Seq(System)]
Answers == [entities : Seq(EntityDef), systems : Seq(System), stray : BOOLEAN]
CallsType == [op : Ops, def : Defs, at : Stages, intact : BOOLEAN, code : Codes,
              answer : Answers]
SimsType == [entities : Seq(EntityDef), systems : Seq(System),
             locked : BOOLEAN, steps : Nat, stray : BOOLEAN]

Sound(sim) ==
  /\ sim \in SimsType
  /\ AllSet(sim.entities)
  /\ AllSet(sim.systems)
  /\ sim.steps > 0 => sim.locked

Shape ==
  /\ given \in [Objects -> EntityDefs]
  /\ object \in [Objects -> Object]
  /\ call \in [Callers -> CallsType]
  /\ Held \subseteq Objects
  /\ \A x \in Held : Sound(sims[x])
  /\ restarts \in 0 .. MaxRestarts
  /\ excused \in [Objects -> BOOLEAN]
  /\ okSteps \in [Objects -> Nat]
  /\ raisedSteps \in [Objects -> Nat]

(* The same functions in the same order.                                   *)
SameFns(s, t) == Len(s) = Len(t) /\ \A k \in DOMAIN s : s[k].fn = t[k].fn

(* The systems of an object begin with those committed.                    *)
Commits(mine, systems) ==
  /\ Len(systems) <= Len(mine)
  /\ \A k \in DOMAIN mine :
       IF k <= Len(systems) THEN mine[k] = systems[k] ELSE mine[k].id = UNSET

(* The entities an object was given, with ids.                             *)
IdsOf(entities, s) == \E top \in Tops(entities) : s = Numbered(entities, top)

Ok(x, op) == x.op = op /\ x.at = "answered" /\ x.code = "OK"

(* A call x for an object given these entities.                            *)
Staged(entities, held, x) ==
  /\ x.at = "none" => x.op = "none"
  /\ x.at \in {"replace", "init"} => x.op \in {"construct", "start"}
  /\ x.at \in {"lock", "run"} => x.op = "step"
  /\ x.at = "erase" => x.op = "stop"
  /\ x.at \in {"sent", "replace"} /\ x.op \in {"construct", "start"} =>
       x.def.entities = entities \/ IdsOf(entities, x.def.entities)
  /\ x.at \in {"init", "lock", "run"} /\ x.intact => held
  /\ x.at \in {"none", "sent", "replace", "erase"} => x.intact

Fields(entities, obj, x) ==
  /\ obj.built => IdsOf(entities, obj.entities)
  /\ obj.started => obj.built
  /\ x.op = "construct" => ~obj.built
  /\ x.op = "start" => obj.built /\ ~obj.started
  /\ x.op \in {"stop", "step"} => obj.started
  /\ Ok(x, "construct") => IdsOf(entities, x.answer.entities)
  /\ x.op = "start" /\ x.at \in {"sent", "replace"} => x.def.systems = obj.systems
  /\ Ok(x, "step") /\ ~x.answer.stray => Commits(obj.systems, x.answer.systems)

InMap(entities, obj, x, sim) ==
  /\ IdsOf(entities, sim.entities)
  /\ ~sim.stray =>
       /\ obj.started => Commits(obj.systems, sim.systems)
       /\ x.op = "start" /\ x.at = "init" => SameFns(obj.systems, sim.systems)
       /\ Ok(x, "start") => /\ x.answer.systems = sim.systems
                            /\ SameFns(obj.systems, sim.systems)
       /\ x.at \in {"lock", "run"} => x.intact

(* The start() of an object is done with the map.                          *)
Registered(obj, x) == obj.started \/ (x.op = "start" /\ x.at = "init") \/ Ok(x, "start")

Present(obj, x, held, pardon) == Registered(obj, x) /\ ~pardon /\ ~Ok(x, "stop") => held

(* An object's own step that the engine has certainly run, or may have run *)
(* without the object knowing yet.                                         *)
HasRun(x) == IF x.op = "step" /\ (x.at = "run" \/ Ok(x, "step")) THEN 1 ELSE 0
Coming(x) == IF x.op = "step" /\ x.at \notin {"sent", "lock"} THEN 1 ELSE 0

(* Strays that may yet step the simulation.                                *)
Pends(x) == x.op = "step" /\ (x.at = "sent" \/ (x.at = "lock" /\ x.intact))
Pending(o) == {s \in Strays : Of(s) = o /\ Pends(call[s])}
StepsOf(o) == IF o \in Held THEN sims[o].steps ELSE 0

Local(o) ==
  /\ Fields(given[o], object[o], call[o])
  /\ o \in Held => InMap(given[o], object[o], call[o], sims[o])
  /\ Present(object[o], call[o], o \in Held, excused[o])
  /\ o \in Held /\ ~sims[o].stray => okSteps[o] + HasRun(call[o]) <= sims[o].steps
  /\ StepsOf(o) + Cardinality(Pending(o)) <= okSteps[o] + raisedSteps[o] + Coming(call[o])

AllStaged(o) == \A c \in Callers : Of(c) = o => Staged(given[o], o \in Held, call[c])

Good(o) == AllStaged(o) /\ Local(o)

IInv == Shape /\ \A o \in Objects : Good(o)

(* What a caller of p leaves alone.                                        *)
Frame(p) ==
  /\ UNCHANGED given
  /\ \A c \in Callers : Of(c) # p => call'[c] = call[c]
  /\ \A o \in Objects \ {p} :
       /\ object'[o] = object[o]
       /\ excused'[o] = excused[o]
       /\ okSteps'[o] = okSteps[o] /\ raisedSteps'[o] = raisedSteps[o]
  /\ \A x : x # p => /\ x \in Held' <=> x \in Held
                     /\ x \in Held => sims'[x] = sims[x]

Keeps(p) == Shape' /\ Frame(p) /\ Good(p)'


-----------------------------------------------------------------------------
(* Numbering.                                                              *)

LEMMA Counts ==
  ASSUME NEW s, NEW k \in Nat
  PROVE  /\ IsFiniteSet(UnsetUpTo(s, k))
         /\ Cardinality(UnsetUpTo(s, k)) \in Nat
         /\ \A l \in 1 .. k : s[l].id = UNSET => Cardinality(UnsetUpTo(s, k)) > 0
<1>1. IsFiniteSet(1 .. k)
  BY FS_Interval
<1>2. UnsetUpTo(s, k) \subseteq 1 .. k
  BY DEF UnsetUpTo
<1>3. IsFiniteSet(UnsetUpTo(s, k)) /\ Cardinality(UnsetUpTo(s, k)) \in Nat
  BY <1>1, <1>2, FS_Subset, FS_CardinalityType
<1>4. ASSUME NEW l \in 1 .. k, s[l].id = UNSET
      PROVE  Cardinality(UnsetUpTo(s, k)) > 0
  <2>1. UnsetUpTo(s, k) # {}
    BY <1>4 DEF UnsetUpTo
  <2> QED
    BY <1>3, <2>1, FS_EmptySet, SMT
<1> QED
  BY <1>3, <1>4

LEMMA CountsGrow ==
  ASSUME NEW s, NEW k \in Nat, NEW l \in Nat, k < l, s[l].id = UNSET
  PROVE  Cardinality(UnsetUpTo(s, k)) < Cardinality(UnsetUpTo(s, l))
<1>1. UnsetUpTo(s, k) \subseteq UnsetUpTo(s, l) /\ l \in UnsetUpTo(s, l) /\ l \notin UnsetUpTo(s, k)
  BY SMT DEF UnsetUpTo
<1>2. /\ Cardinality(UnsetUpTo(s, k)) <= Cardinality(UnsetUpTo(s, l))
      /\ Cardinality(UnsetUpTo(s, k)) # Cardinality(UnsetUpTo(s, l))
  BY <1>1, Counts, FS_Subset
<1> QED
  BY <1>2, Counts, SMT

(* Systems keep their functions and get ids.                               *)
LEMMA NumberedSystems ==
  ASSUME NEW s \in Seq(System), NEW top \in Tops(s)
  PROVE  /\ Numbered(s, top) \in Seq(System)
         /\ SameFns(s, Numbered(s, top))
         /\ AllSet(Numbered(s, top))
<1>1. DOMAIN s = 1 .. Len(s) /\ Len(s) \in Nat /\ \A k \in 1 .. Len(s) : s[k] \in System
  BY SMT
<1>2. top \in Nat
  BY <1>1, SMT DEF Tops, System, UNSET
<1>3. ASSUME NEW k \in 1 .. Len(s)
      PROVE  /\ Numbered(s, top)[k] \in System
             /\ Numbered(s, top)[k].fn = s[k].fn
             /\ Numbered(s, top)[k].id # UNSET
  <2>1. /\ Cardinality(UnsetUpTo(s, k)) \in Nat
        /\ s[k].id = UNSET => Cardinality(UnsetUpTo(s, k)) > 0
    BY Counts, <1>1, SMT
  <2> DEFINE id == IF s[k].id = UNSET THEN top + Cardinality(UnsetUpTo(s, k)) ELSE s[k].id
  <2>2. Numbered(s, top)[k] = [s[k] EXCEPT !.id = id]
    BY <1>1 DEF Numbered
  <2>3. id \in Nat /\ id # UNSET
    BY <2>1, <1>1, <1>2, SMT DEF System, UNSET
  <2> HIDE DEF id
  <2> QED
    BY <2>2, <2>3, <1>1, SMT DEF System
<1>4. DOMAIN Numbered(s, top) = 1 .. Len(s)
  BY <1>1 DEF Numbered
<1>5. Numbered(s, top) \in [1 .. Len(s) -> System]
  BY <1>3, <1>4, <1>1, Zenon DEF Numbered
<1>6. Numbered(s, top) \in Seq(System)
  BY <1>5, <1>1, SMT
<1>7. Len(Numbered(s, top)) = Len(s)
  BY <1>4, <1>6, <1>1, SMT
<1> QED
  BY <1>1, <1>3, <1>4, <1>6, <1>7 DEF SameFns, AllSet

LEMMA WithId ==
  ASSUME NEW x \in EntityDef, NEW i \in Nat
  PROVE  /\ [x EXCEPT !.id = i] \in EntityDef
         /\ [x EXCEPT !.id = i].id = i
         /\ i = x.id => [x EXCEPT !.id = i] = x
BY SMT DEF EntityDef

(* Entities get distinct ids, and keep those they have.                    *)
LEMMA NumberedEntities ==
  ASSUME NEW s \in Seq(EntityDef), DistinctIds(s), NEW top \in Tops(s)
  PROVE  /\ Numbered(s, top) \in Seq(EntityDef)
         /\ DistinctIds(Numbered(s, top))
         /\ AllSet(Numbered(s, top))
         /\ AllSet(s) => Numbered(s, top) = s
<1>1. DOMAIN s = 1 .. Len(s) /\ Len(s) \in Nat /\ \A k \in 1 .. Len(s) : s[k] \in EntityDef
  BY SMT
<1>2. top \in Nat /\ \A k \in 1 .. Len(s) : s[k].id <= top
  <2>1. \A x \in EntityDef : x.id \in Nat
    BY DEF EntityDef
  <2>2. \A k \in 1 .. Len(s) : s[k].id \in Nat
    BY <2>1, <1>1
  <2> QED
    BY <2>2, <1>1 DEF Tops, UNSET
<1> DEFINE id(k) == IF s[k].id = UNSET THEN top + Cardinality(UnsetUpTo(s, k)) ELSE s[k].id
<1>3. ASSUME NEW k \in 1 .. Len(s)
      PROVE  /\ Numbered(s, top)[k] \in EntityDef
             /\ Numbered(s, top)[k].id = id(k)
             /\ id(k) # UNSET
             /\ s[k].id # UNSET => Numbered(s, top)[k] = s[k]
  <2>1. /\ Cardinality(UnsetUpTo(s, k)) \in Nat
        /\ s[k].id = UNSET => Cardinality(UnsetUpTo(s, k)) > 0
    BY Counts, <1>1, SMT
  <2>2. Numbered(s, top)[k] = [s[k] EXCEPT !.id = id(k)]
    BY <1>1 DEF Numbered
  <2>3. id(k) \in Nat /\ id(k) # UNSET
    BY <2>1, <1>1, <1>2, SMT DEF EntityDef, UNSET
  <2>4. s[k].id # UNSET => id(k) = s[k].id
    OBVIOUS
  <2> HIDE DEF id
  <2>5. s[k] \in EntityDef
    BY <1>1
  <2>6. /\ [s[k] EXCEPT !.id = id(k)] \in EntityDef
        /\ [s[k] EXCEPT !.id = id(k)].id = id(k)
        /\ id(k) = s[k].id => [s[k] EXCEPT !.id = id(k)] = s[k]
    BY <2>3, <2>5, WithId
  <2> QED
    BY <2>2, <2>3, <2>4, <2>6, Zenon
<1>4. DOMAIN Numbered(s, top) = 1 .. Len(s)
  BY <1>1 DEF Numbered
<1>5. Numbered(s, top) \in [1 .. Len(s) -> EntityDef]
  BY <1>3, <1>4, <1>1, Zenon DEF Numbered
<1>6. Numbered(s, top) \in Seq(EntityDef)
  BY <1>5, <1>1, SMT
<1>7. AllSet(Numbered(s, top))
  BY <1>3, <1>4 DEF AllSet
<1>8. ASSUME NEW k \in 1 .. Len(s), NEW l \in 1 .. Len(s), id(k) = id(l)
      PROVE  ~ k < l
  <2> SUFFICES ASSUME k < l PROVE FALSE
    OBVIOUS
  <2>1. /\ Cardinality(UnsetUpTo(s, k)) \in Nat
        /\ Cardinality(UnsetUpTo(s, l)) \in Nat
        /\ s[k].id = UNSET => Cardinality(UnsetUpTo(s, k)) > 0
        /\ s[l].id = UNSET => Cardinality(UnsetUpTo(s, l)) > 0
        /\ s[l].id = UNSET => Cardinality(UnsetUpTo(s, k)) < Cardinality(UnsetUpTo(s, l))
    BY Counts, CountsGrow, <1>1, SMT
  <2>2. s[k].id \in Nat /\ s[l].id \in Nat
    BY <1>1, SMT DEF EntityDef
  <2>3. s[k].id = s[l].id /\ s[k].id # UNSET => FALSE
    BY <1>1, SMT DEF DistinctIds
  <2> QED
    BY <1>8, <2>1, <2>2, <2>3, <1>2, SMT
<1>9. DistinctIds(Numbered(s, top))
  <2> SUFFICES ASSUME NEW k \in 1 .. Len(s), NEW l \in 1 .. Len(s), id(k) = id(l)
               PROVE  k = l
    BY <1>3, <1>4 DEF DistinctIds
  <2>1. ~ k < l /\ ~ l < k
    BY <1>8
  <2> QED
    BY <2>1, <1>1, SMT
<1>10. AllSet(s) => Numbered(s, top) = s
  BY <1>1, <1>3, <1>4, <1>5, SMT DEF AllSet
<1> QED
  BY <1>6, <1>7, <1>9, <1>10

-----------------------------------------------------------------------------

(* There is but one way to number entities.                                *)
LEMMA IdsAreUnique ==
  ASSUME NEW s \in Seq(EntityDef), NEW t, NEW u, IdsOf(s, t), IdsOf(s, u)
  PROVE  t = u
<1>1. PICK top \in Tops(s), max \in Tops(s) : t = Numbered(s, top) /\ u = Numbered(s, max)
  BY DEF IdsOf
<1>2. \A k \in DOMAIN s : s[k].id \in Nat
  <2>1. \A k \in DOMAIN s : s[k] \in EntityDef
    BY SMT
  <2> QED
    BY <2>1 DEF EntityDef
<1>3. top \in Nat /\ max \in Nat /\ top <= max /\ max <= top
  BY <1>2, SMT DEF Tops, UNSET
<1>4. top = max
  BY <1>3, SMT
<1> QED
  BY <1>1, <1>4

LEMMA IdsAreSet ==
  ASSUME NEW s \in Seq(EntityDef), DistinctIds(s), NEW t, IdsOf(s, t)
  PROVE  t \in Seq(EntityDef) /\ DistinctIds(t) /\ AllSet(t)
BY NumberedEntities DEF IdsOf

(* Applying entities that have ids does not number them again.             *)
LEMMA AppliedAgain ==
  ASSUME NEW s \in Seq(EntityDef), DistinctIds(s), NEW t, t = s \/ IdsOf(s, t),
         NEW top \in Tops(t)
  PROVE  /\ IdsOf(s, Numbered(t, top))
         /\ Numbered(t, top) \in Seq(EntityDef)
         /\ AllSet(Numbered(t, top))
<1>1. CASE t = s
  BY <1>1, NumberedEntities DEF IdsOf
<1>2. CASE IdsOf(s, t)
  <2>1. t \in Seq(EntityDef) /\ DistinctIds(t) /\ AllSet(t)
    BY <1>2, IdsAreSet
  <2>2. Numbered(t, top) = t
    BY <2>1, NumberedEntities
  <2> QED
    BY <1>2, <2>1, <2>2
<1> QED
  BY <1>1, <1>2

-----------------------------------------------------------------------------
(* The records of calls.                                                   *)

LEMMA Constants ==
  /\ NoDef \in Defs
  /\ NoAnswer \in Answers /\ ~NoAnswer.stray
  /\ RanUnknown \in Answers /\ RanUnknown.stray
  /\ Idle \in CallsType /\ Idle.op = "none" /\ Idle.at = "none" /\ Idle.intact
<1>1. <<>> \in Seq(EntityDef) /\ <<>> \in Seq(System)
  OBVIOUS
<1>2. NoDef \in Defs /\ NoAnswer \in Answers /\ ~NoAnswer.stray
  BY <1>1 DEF NoDef, NoAnswer, Defs, Answers
<1>3. RanUnknown \in Answers /\ RanUnknown.stray
  BY <1>1 DEF RanUnknown, NoAnswer, Answers
<1>4. "none" \in Ops /\ "none" \in Stages /\ "none" \in Codes /\ TRUE \in BOOLEAN
  BY DEF Ops, Stages, Codes
<1>5. Idle \in CallsType /\ Idle.op = "none" /\ Idle.at = "none" /\ Idle.intact
  BY <1>2, <1>4, Zenon DEF Idle, CallsType
<1> QED
  BY <1>2, <1>3, <1>5

LEMMA SentCall ==
  ASSUME NEW op \in Ops, NEW def \in Defs
  PROVE  /\ Sent(op, def) \in CallsType
         /\ Sent(op, def).op = op
         /\ Sent(op, def).def = def
         /\ Sent(op, def).at = "sent"
         /\ Sent(op, def).intact
<1>1. "sent" \in Stages
  BY DEF Stages
<1> QED
  BY <1>1, Constants, Zenon DEF Sent, Idle, CallsType

LEMMA AnsweredCall ==
  ASSUME NEW op \in Ops, NEW code \in Codes, NEW answer \in Answers
  PROVE  /\ Answered(op, code, answer) \in CallsType
         /\ Answered(op, code, answer).op = op
         /\ Answered(op, code, answer).at = "answered"
         /\ Answered(op, code, answer).code = code
         /\ Answered(op, code, answer).answer = answer
<1>1. "answered" \in Stages
  BY DEF Stages
<1> QED
  BY <1>1, Constants, Zenon DEF Answered, Idle, CallsType

LEMMA MovedCall ==
  ASSUME NEW x \in CallsType, NEW stage \in Stages
  PROVE  LET y == [x EXCEPT !.at = stage] IN
           /\ y \in CallsType
           /\ y.at = stage
           /\ y.op = x.op /\ y.def = x.def /\ y.intact = x.intact
           /\ y.code = x.code /\ y.answer = x.answer
BY SMT DEF CallsType

LEMMA DangledCall ==
  ASSUME NEW x \in CallsType, NEW b \in BOOLEAN
  PROVE  LET y == [x EXCEPT !.intact = b] IN
           /\ y \in CallsType
           /\ y.intact = b
           /\ y.at = x.at /\ y.op = x.op /\ y.def = x.def
           /\ y.code = x.code /\ y.answer = x.answer
BY Zenon DEF CallsType

LEMMA CallersOf ==
  /\ \A o \in Objects : o \in Callers /\ Of(o) = o /\ o \notin Strays
  /\ \A s \in Strays : s \in Callers /\ Of(s) \in Objects /\ s \notin Objects
  /\ \A c \in Callers : Of(c) \in Objects /\ (c \in Objects \/ c \in Strays)
BY StraysAssumption, Zenon DEF Callers, Of

LEMMA PendingFinite ==
  ASSUME NEW o
  PROVE  IsFiniteSet(Pending(o)) /\ Cardinality(Pending(o)) \in Nat
<1>1. Pending(o) \subseteq Strays
  BY DEF Pending
<1> QED
  BY <1>1, StraysAssumption, FS_Subset, FS_CardinalityType

LEMMA Fewer ==
  ASSUME NEW S \in SUBSET Strays, NEW T \in SUBSET S
  PROVE  /\ Cardinality(S) \in Nat /\ Cardinality(T) \in Nat
         /\ Cardinality(T) <= Cardinality(S)
         /\ \A s \in S \ T : Cardinality(T) < Cardinality(S)
<1>1. IsFiniteSet(S) /\ IsFiniteSet(T)
  BY StraysAssumption, FS_Subset
<1>2. Cardinality(S) \in Nat /\ Cardinality(T) \in Nat /\ Cardinality(T) <= Cardinality(S)
  BY <1>1, FS_CardinalityType, FS_Subset
<1>3. T # S => Cardinality(T) # Cardinality(S)
  BY <1>1, FS_Subset
<1> QED
  BY <1>2, <1>3, SMT

LEMMA Arithmetic ==
  \A x \in CallsType : HasRun(x) \in {0, 1} /\ Coming(x) \in {0, 1}
BY DEF HasRun, Coming

-----------------------------------------------------------------------------
(* Steps that change one call and nothing else.                            *)

(* An object and its call, its steps that are known, and nothing else.     *)
LEMMA OwnSteps ==
  ASSUME IInv, NEW p \in Objects, NEW obj \in Object, NEW new \in CallsType,
         NEW e \in BOOLEAN, NEW a \in Nat, NEW b \in Nat,
         object' = [object EXCEPT ![p] = obj],
         call' = [call EXCEPT ![p] = new],
         excused' = [excused EXCEPT ![p] = e],
         okSteps' = [okSteps EXCEPT ![p] = a],
         raisedSteps' = [raisedSteps EXCEPT ![p] = b],
         UNCHANGED <<given, sims, restarts>>,
         Staged(given[p], p \in Held, new),
         Fields(given[p], obj, new),
         p \in Held => InMap(given[p], obj, new, sims[p]),
         Present(obj, new, p \in Held, e),
         a + HasRun(new) <= okSteps[p] + HasRun(call[p]),
         a + b + Coming(new) >= okSteps[p] + raisedSteps[p] + Coming(call[p])
  PROVE  Keeps(p)
<1>1. UNCHANGED <<given, sims, restarts>> /\ Held' = Held
  BY Zenon DEF Held
<1>2. Shape /\ Good(p) /\ p \in Callers
  BY CallersOf DEF IInv
<1>3. /\ call' \in [Callers -> CallsType]
      /\ call'[p] = new
      /\ \A c \in Callers \ {p} : call'[c] = call[c]
  BY <1>2, Zenon DEF Shape
<1>4. /\ object' \in [Objects -> Object]
      /\ object'[p] = obj
      /\ \A o \in Objects \ {p} : object'[o] = object[o]
  BY <1>2, Zenon DEF Shape
<1>5. /\ excused' \in [Objects -> BOOLEAN]
      /\ excused'[p] = e
      /\ \A o \in Objects \ {p} : excused'[o] = excused[o]
  BY <1>2, Zenon DEF Shape
<1>6. /\ okSteps' \in [Objects -> Nat] /\ raisedSteps' \in [Objects -> Nat]
      /\ okSteps'[p] = a /\ raisedSteps'[p] = b
      /\ \A o \in Objects \ {p} :
           okSteps'[o] = okSteps[o] /\ raisedSteps'[o] = raisedSteps[o]
  BY <1>2, SMT DEF Shape
<1>7. Shape'
  BY <1>1, <1>2, <1>3, <1>4, <1>5, <1>6 DEF Shape
<1>8. Frame(p)
  BY <1>1, <1>3, <1>4, <1>5, <1>6, CallersOf, Zenon DEF Frame
<1>9. AllStaged(p)'
  BY <1>1, <1>2, <1>3, Zenon DEF Good, AllStaged
<1>10. Pending(p)' = Pending(p)
  <2>1. \A s \in Strays : call'[s] = call[s]
    BY <1>3, CallersOf
  <2> QED
    BY <2>1, Zenon DEF Pending
<1>11. Local(p)'
  <2>1. call[p] \in CallsType /\ okSteps[p] \in Nat /\ raisedSteps[p] \in Nat
    BY <1>2 DEF Shape
  <2>2. p \in Held => sims[p].steps \in Nat
    BY <1>2, SMT DEF Shape, Sound, SimsType
  <2>3. StepsOf(p)' = StepsOf(p) /\ StepsOf(p) \in Nat
    BY <1>1, <2>2 DEF StepsOf
  <2>4. Local(p)
    BY <1>2 DEF Good
  <2>5. p \in Held /\ ~sims[p].stray => a + HasRun(new) <= sims[p].steps
    BY <2>1, <2>2, <2>4, Arithmetic, SMT DEF Local
  <2>6. StepsOf(p) + Cardinality(Pending(p)) <= a + b + Coming(new)
    BY <2>1, <2>3, <2>4, PendingFinite, Arithmetic, SMT DEF Local
  <2> QED
    BY <1>1, <1>3, <1>4, <1>5, <1>6, <1>10, <2>3, <2>5, <2>6, Zenon DEF Local
<1> QED
  BY <1>7, <1>8, <1>9, <1>11 DEF Keeps, Good

(* The call of an object alone.                                            *)
LEMMA OwnMoves ==
  ASSUME IInv, NEW p \in Objects, NEW new \in CallsType,
         call' = [call EXCEPT ![p] = new],
         UNCHANGED <<given, object, sims, restarts, history>>,
         Staged(given[p], p \in Held, new),
         Fields(given[p], object[p], new),
         p \in Held => InMap(given[p], object[p], new, sims[p]),
         Present(object[p], new, p \in Held, excused[p]),
         HasRun(new) <= HasRun(call[p]), Coming(new) >= Coming(call[p])
  PROVE  Keeps(p)
<1>1. Shape /\ call[p] \in CallsType
  BY CallersOf DEF IInv, Shape
<1>2. /\ object[p] \in Object /\ excused[p] \in BOOLEAN
      /\ okSteps[p] \in Nat /\ raisedSteps[p] \in Nat
  BY <1>1 DEF Shape
<1>3. /\ object' = [object EXCEPT ![p] = object[p]]
      /\ excused' = [excused EXCEPT ![p] = excused[p]]
      /\ okSteps' = [okSteps EXCEPT ![p] = okSteps[p]]
      /\ raisedSteps' = [raisedSteps EXCEPT ![p] = raisedSteps[p]]
  BY <1>1, Zenon DEF Shape, history
<1>4. /\ okSteps[p] + HasRun(new) <= okSteps[p] + HasRun(call[p])
      /\ okSteps[p] + raisedSteps[p] + Coming(new) >=
           okSteps[p] + raisedSteps[p] + Coming(call[p])
  BY <1>1, <1>2, Arithmetic, SMT
<1>5. UNCHANGED <<given, sims, restarts>>
  OBVIOUS
<1> QED
  BY <1>2, <1>3, <1>4, <1>5, OwnSteps

(* What the invariant says of an object.                                   *)
LEMMA Known ==
  ASSUME IInv, NEW p \in Objects
  PROVE  /\ Shape
         /\ p \in Callers /\ Of(p) = p
         /\ object[p] \in Object /\ call[p] \in CallsType
         /\ given[p] \in Seq(EntityDef) /\ DistinctIds(given[p])
         /\ excused[p] \in BOOLEAN /\ okSteps[p] \in Nat /\ raisedSteps[p] \in Nat
         /\ Staged(given[p], p \in Held, call[p])
         /\ Fields(given[p], object[p], call[p])
         /\ p \in Held => InMap(given[p], object[p], call[p], sims[p]) /\ Sound(sims[p])
         /\ Present(object[p], call[p], p \in Held, excused[p])
<1>1. Shape /\ Good(p) /\ p \in Callers /\ Of(p) = p
  BY CallersOf DEF IInv
<1>2. given[p] \in Seq(EntityDef) /\ DistinctIds(given[p])
  BY <1>1, EntityDefsAssumption, SMT DEF Shape
<1>3. /\ object[p] \in Object /\ call[p] \in CallsType
      /\ excused[p] \in BOOLEAN /\ okSteps[p] \in Nat /\ raisedSteps[p] \in Nat
      /\ p \in Held => Sound(sims[p])
  BY <1>1 DEF Shape
<1> QED
  BY <1>1, <1>2, <1>3 DEF Good, AllStaged, Local

(* A call other than a step() returns.                                     *)
LEMMA OwnReturns ==
  ASSUME IInv, NEW p \in Objects, NEW obj \in Object,
         object' = [object EXCEPT ![p] = obj],
         call' = [call EXCEPT ![p] = Idle],
         UNCHANGED <<given, sims, restarts, history>>,
         call[p].op # "step",
         obj.built => IdsOf(given[p], obj.entities),
         obj.started => obj.built,
         p \in Held /\ ~sims[p].stray /\ obj.started =>
           Commits(obj.systems, sims[p].systems),
         obj.started /\ ~excused[p] => p \in Held
  PROVE  Keeps(p)
<1>1. /\ Shape /\ call[p] \in CallsType
      /\ excused[p] \in BOOLEAN /\ okSteps[p] \in Nat /\ raisedSteps[p] \in Nat
  BY Known
<1>2. /\ excused' = [excused EXCEPT ![p] = excused[p]]
      /\ okSteps' = [okSteps EXCEPT ![p] = okSteps[p]]
      /\ raisedSteps' = [raisedSteps EXCEPT ![p] = raisedSteps[p]]
  BY <1>1, Zenon DEF Shape, history
<1>3. Staged(given[p], p \in Held, Idle)
  BY Constants DEF Staged
<1>4. Fields(given[p], obj, Idle)
  BY Constants DEF Fields, Ok
<1>5. p \in Held => InMap(given[p], obj, Idle, sims[p])
  <2>1. p \in Held => IdsOf(given[p], sims[p].entities)
    BY Known DEF InMap
  <2> QED
    BY <2>1, Constants DEF InMap, Ok
<1>6. Present(obj, Idle, p \in Held, excused[p])
  BY Constants DEF Present, Registered, Ok
<1>7. /\ okSteps[p] + HasRun(Idle) <= okSteps[p] + HasRun(call[p])
      /\ okSteps[p] + raisedSteps[p] + Coming(Idle) >=
           okSteps[p] + raisedSteps[p] + Coming(call[p])
  BY <1>1, Constants, SMT DEF HasRun, Coming
<1>8. UNCHANGED <<given, sims, restarts>> /\ Idle \in CallsType
  BY Constants
<1> QED
  BY <1>1, <1>2, <1>3, <1>4, <1>5, <1>6, <1>7, <1>8, OwnSteps

LEMMA StrayMoves ==
  ASSUME IInv, NEW c \in Strays, NEW new \in CallsType,
         call' = [call EXCEPT ![c] = new],
         UNCHANGED <<given, object, sims, restarts, history>>,
         Staged(given[Of(c)], Of(c) \in Held, new),
         Pends(new) => Pends(call[c])
  PROVE  Keeps(Of(c))
<1> DEFINE p == Of(c)
<1>0. p \in Objects /\ c \in Callers /\ c # p /\ p \in Callers /\ Of(p) = p
  BY CallersOf
<1>1. UNCHANGED <<given, object, sims, restarts, excused, okSteps, raisedSteps>>
      /\ Held' = Held
  BY Zenon DEF history, Held
<1>2. Shape /\ Good(p)
  BY <1>0 DEF IInv
<1>3. /\ call' \in [Callers -> CallsType]
      /\ call'[c] = new
      /\ \A d \in Callers \ {c} : call'[d] = call[d]
  BY <1>0, <1>2, Zenon DEF Shape
<1>4. Shape'
  BY <1>1, <1>2, <1>3 DEF Shape
<1>5. Frame(p)
  BY <1>1, <1>3, Zenon DEF Frame
<1>6. AllStaged(p)'
  BY <1>1, <1>2, <1>3, Zenon DEF Good, AllStaged
<1>7. Pending(p)' \subseteq Pending(p) /\ Pending(p) \subseteq Strays
  BY <1>3, CallersOf, Zenon DEF Pending
<1>8. Local(p)'
  <2>1. call[p] \in CallsType /\ okSteps[p] \in Nat /\ raisedSteps[p] \in Nat
    BY <1>0, <1>2 DEF Shape
  <2>2. p \in Held => sims[p].steps \in Nat
    BY <1>2, SMT DEF Shape, Sound, SimsType
  <2> HIDE DEF p
  <2>3. StepsOf(p)' = StepsOf(p) /\ StepsOf(p) \in Nat
    BY <1>1, <2>2 DEF StepsOf
  <2>4. Local(p)
    BY <1>2 DEF Good
  <2> DEFINE P == Pending(p)
             Q == Pending(p)'
  <2>5. Cardinality(Q) \in Nat /\ Cardinality(P) \in Nat /\ Cardinality(Q) <= Cardinality(P)
    BY <1>7, Fewer
  <2> HIDE DEF P, Q
  <2>6. StepsOf(p) + Cardinality(P) <= okSteps[p] + raisedSteps[p] + Coming(call[p])
    BY <2>4 DEF Local, P
  <2>7. StepsOf(p) + Cardinality(Q) <= okSteps[p] + raisedSteps[p] + Coming(call[p])
    BY <2>1, <2>3, <2>5, <2>6, Arithmetic, SMT
  <2>8. (StepsOf(p) + Cardinality(Pending(p)) <= okSteps[p] + raisedSteps[p] + Coming(call[p]))'
    BY <1>0, <1>1, <1>3, <2>3, <2>7, Zenon DEF Q
  <2> QED
    BY <1>0, <1>1, <1>3, <2>4, <2>8, Zenon DEF Local
<1> QED
  BY <1>4, <1>5, <1>6, <1>8 DEF Keeps, Good

-----------------------------------------------------------------------------
(* What users do.                                                          *)

LEMMA StartKeeps ==
  ASSUME IInv, NEW p \in Objects, Start(p)
  PROVE  Keeps(p)
<1> DEFINE def == Build(p, TRUE)
           new == Sent("start", def)
<1>1. /\ call[p].at = "none" /\ object[p].built /\ ~object[p].started
      /\ call' = [call EXCEPT ![p] = new]
      /\ UNCHANGED <<given, object, sims, restarts, history>>
  BY Zenon DEF Start, MayStart, Sends, IsIdle
<1>2. Shape /\ Local(p) /\ Staged(given[p], p \in Held, call[p])
  BY CallersOf, Zenon DEF IInv, Good, AllStaged
<1>3. def.entities = object[p].entities /\ def.systems = object[p].systems /\ def \in Defs
  <2>1. object[p].entities \in Seq(EntityDef) /\ object[p].systems \in Seq(System)
    BY <1>2, SMT DEF Shape, Object
  <2> QED
    BY <2>1 DEF Build, Defs
<1> HIDE DEF def
<1>4. "start" \in Ops
  BY DEF Ops
<1>5. /\ new \in CallsType /\ new.op = "start" /\ new.def = def /\ new.at = "sent"
      /\ new.intact
  BY <1>3, <1>4, SentCall
<1> HIDE DEF new
<1>6. Fields(given[p], object[p], call[p])
  BY <1>2 DEF Local
<1>7. Staged(given[p], p \in Held, new)
  BY <1>1, <1>3, <1>5, <1>6, Zenon DEF Staged, Fields
<1>8. Fields(given[p], object[p], new)
  BY <1>1, <1>3, <1>5, <1>6, Zenon DEF Fields, Ok
<1>9. p \in Held => InMap(given[p], object[p], new, sims[p])
  BY <1>2, <1>5, Zenon DEF Local, InMap, Ok
<1>10. Present(object[p], new, p \in Held, excused[p])
  BY <1>1, <1>5, Zenon DEF Present, Registered, Ok
<1>11. HasRun(new) = 0 /\ Coming(new) = 0 /\ HasRun(call[p]) = 0 /\ Coming(call[p]) = 0
  BY <1>1, <1>2, <1>5, SMT DEF Staged, HasRun, Coming
<1>12. HasRun(new) <= HasRun(call[p]) /\ Coming(new) >= Coming(call[p])
  BY <1>11, SMT
<1> QED
  BY <1>1, <1>5, <1>7, <1>8, <1>9, <1>10, <1>12, OwnMoves

(* stop() and step() of an object that is started.                         *)
LEMMA SendsKeeps ==
  ASSUME IInv, NEW p \in Objects, NEW op \in {"stop", "step"},
         IsIdle(p), object[p].started, Sends(p, op, NoDef), UNCHANGED object
  PROVE  Keeps(p)
<1> DEFINE new == Sent(op, NoDef)
<1>1. /\ call[p].at = "none"
      /\ call' = [call EXCEPT ![p] = new]
      /\ UNCHANGED <<given, object, sims, restarts, history>>
  BY Zenon DEF Sends, IsIdle
<1>2. Shape /\ Local(p) /\ Staged(given[p], p \in Held, call[p])
  BY CallersOf, Zenon DEF IInv, Good, AllStaged
<1>3. op \in Ops
  BY DEF Ops
<1>4. new \in CallsType /\ new.op = op /\ new.at = "sent" /\ new.intact
  BY <1>3, Constants, SentCall
<1> HIDE DEF new
<1>5. Fields(given[p], object[p], call[p])
  BY <1>2 DEF Local
<1>6. op # "construct" /\ op # "start" /\ op # "none"
  OBVIOUS
<1>7. Staged(given[p], p \in Held, new)
  BY <1>4, <1>6, Zenon DEF Staged
<1>8. Fields(given[p], object[p], new)
  BY <1>4, <1>5, <1>6, Zenon DEF Fields, Ok
<1>9. p \in Held => InMap(given[p], object[p], new, sims[p])
  BY <1>2, <1>4, Zenon DEF Local, InMap, Ok
<1>10. Present(object[p], new, p \in Held, excused[p])
  BY <1>1, <1>2, Zenon DEF Local, Present, Registered, Ok
<1>11. HasRun(new) = 0 /\ Coming(new) = 0 /\ HasRun(call[p]) = 0 /\ Coming(call[p]) = 0
  BY <1>1, <1>2, <1>4, SMT DEF Staged, HasRun, Coming, Ok
<1>12. HasRun(new) <= HasRun(call[p]) /\ Coming(new) >= Coming(call[p])
  BY <1>11, SMT
<1> QED
  BY <1>1, <1>4, <1>7, <1>8, <1>9, <1>10, <1>12, OwnMoves

LEMMA StopKeeps ==
  ASSUME IInv, NEW p \in Objects, Stop(p)
  PROVE  Keeps(p)
BY SendsKeeps, Zenon DEF Stop

LEMMA StepKeeps ==
  ASSUME IInv, NEW p \in Objects, Step(p)
  PROVE  Keeps(p)
BY SendsKeeps, Zenon DEF Step

LEMMA ConstructKeeps ==
  ASSUME IInv, NEW p \in Objects, Construct(p)
  PROVE  Keeps(p)
<1> DEFINE def == [entities |-> given[p], systems |-> <<>>]
           new == Sent("construct", def)
           obj == NewObject(given[p])
<1>1. /\ call[p].at = "none"
      /\ object' = [object EXCEPT ![p] = obj]
      /\ call' = [call EXCEPT ![p] = new]
      /\ UNCHANGED <<given, sims, restarts, history>>
  BY Zenon DEF Construct, Sends, IsIdle
<1>2. /\ Shape /\ call[p] \in CallsType
      /\ given[p] \in Seq(EntityDef)
      /\ excused[p] \in BOOLEAN /\ okSteps[p] \in Nat /\ raisedSteps[p] \in Nat
      /\ call[p].op = "none"
  BY <1>1, Known DEF Staged
<1>3. <<>> \in Seq(System) /\ "construct" \in Ops
  BY DEF Ops
<1>4. def \in Defs /\ def.entities = given[p]
  BY <1>2, <1>3 DEF Defs
<1>5. obj \in Object /\ ~obj.built /\ ~obj.started
  BY <1>2, <1>3, Zenon DEF NewObject, Object
<1> HIDE DEF def, obj
<1>6. /\ new \in CallsType /\ new.op = "construct" /\ new.def = def /\ new.at = "sent"
      /\ new.intact
  BY <1>3, <1>4, SentCall
<1> HIDE DEF new
<1>7. /\ excused' = [excused EXCEPT ![p] = excused[p]]
      /\ okSteps' = [okSteps EXCEPT ![p] = okSteps[p]]
      /\ raisedSteps' = [raisedSteps EXCEPT ![p] = raisedSteps[p]]
  BY <1>1, <1>2, Zenon DEF Shape, history
<1>8. Staged(given[p], p \in Held, new)
  BY <1>4, <1>6 DEF Staged
<1>9. Fields(given[p], obj, new)
  BY <1>5, <1>6 DEF Fields, Ok
<1>10. p \in Held => InMap(given[p], obj, new, sims[p])
  <2>1. p \in Held => IdsOf(given[p], sims[p].entities)
    BY Known DEF InMap
  <2> QED
    BY <2>1, <1>5, <1>6 DEF InMap, Ok
<1>11. Present(obj, new, p \in Held, excused[p])
  BY <1>5, <1>6 DEF Present, Registered, Ok
<1>12. /\ okSteps[p] + HasRun(new) <= okSteps[p] + HasRun(call[p])
       /\ okSteps[p] + raisedSteps[p] + Coming(new) >=
            okSteps[p] + raisedSteps[p] + Coming(call[p])
  BY <1>2, <1>6, SMT DEF HasRun, Coming
<1>13. UNCHANGED <<given, sims, restarts>>
  BY <1>1
<1> QED
  BY <1>1, <1>2, <1>5, <1>6, <1>7, <1>8, <1>9, <1>10, <1>11, <1>12, <1>13, OwnSteps

(* Systems without an id come after those that have one.                   *)
LEMMA CommitsAppended ==
  ASSUME NEW mine \in Seq(System), NEW new \in System, new.id = UNSET,
         NEW s \in Seq(System), Commits(mine, s)
  PROVE  Commits(Append(mine, new), s)
<1>1. /\ Len(Append(mine, new)) = Len(mine) + 1
      /\ \A k \in 1 .. Len(mine) : Append(mine, new)[k] = mine[k]
      /\ Append(mine, new)[Len(mine) + 1] = new
      /\ DOMAIN mine = 1 .. Len(mine)
      /\ DOMAIN Append(mine, new) = 1 .. Len(mine) + 1
      /\ Len(mine) \in Nat /\ Len(s) \in Nat
  BY SMT
<1>2. /\ Len(s) <= Len(mine)
      /\ \A k \in 1 .. Len(mine) :
           IF k <= Len(s) THEN mine[k] = s[k] ELSE mine[k].id = UNSET
  BY <1>1 DEF Commits
<1>3. \A k \in 1 .. Len(mine) + 1 :
        IF k <= Len(s) THEN Append(mine, new)[k] = s[k]
                       ELSE Append(mine, new)[k].id = UNSET
  BY <1>1, <1>2, SMT
<1> QED
  BY <1>1, <1>2, <1>3, SMT DEF Commits

LEMMA WithSystems ==
  ASSUME NEW obj \in Object, NEW s \in Seq(System)
  PROVE  LET changed == [obj EXCEPT !.systems = s] IN
           /\ changed \in Object
           /\ changed.systems = s
           /\ changed.entities = obj.entities
           /\ changed.built = obj.built
           /\ changed.started = obj.started
BY SMT DEF Object

LEMMA RegisterSystemKeeps ==
  ASSUME IInv, NEW p \in Objects, NEW fn \in Fns, RegisterSystem(p, fn)
  PROVE  Keeps(p)
<1> DEFINE sys == [fn |-> fn, id |-> UNSET]
           mine == object[p].systems
           obj == [object[p] EXCEPT !.systems = Append(mine, sys)]
<1>1. /\ object' = [object EXCEPT ![p] = obj]
      /\ UNCHANGED <<given, call, sims, restarts, history>>
      /\ call[p].at = "none"
  BY Zenon DEF RegisterSystem, IsIdle
<1>2. /\ Shape /\ call[p] \in CallsType /\ object[p] \in Object
      /\ excused[p] \in BOOLEAN /\ okSteps[p] \in Nat /\ raisedSteps[p] \in Nat
      /\ Staged(given[p], p \in Held, call[p])
      /\ Fields(given[p], object[p], call[p])
      /\ p \in Held => InMap(given[p], object[p], call[p], sims[p]) /\ Sound(sims[p])
      /\ Present(object[p], call[p], p \in Held, excused[p])
  BY Known
<1>3. sys \in System /\ sys.id = UNSET
  BY SMT DEF System, UNSET
<1>4. mine \in Seq(System) /\ Append(mine, sys) \in Seq(System)
  BY <1>2, <1>3, SMT DEF Object
<1>5. /\ obj \in Object
      /\ obj.systems = Append(mine, sys)
      /\ obj.entities = object[p].entities
      /\ obj.built = object[p].built
      /\ obj.started = object[p].started
  <2> HIDE DEF sys
  <2> QED
    BY <1>2, <1>4, WithSystems, Zenon
<1> HIDE DEF obj
<1>6. call[p].op = "none"
  BY <1>1, <1>2 DEF Staged
<1>7. Fields(given[p], obj, call[p])
  BY <1>2, <1>5, <1>6, Zenon DEF Fields, Ok
<1>8. p \in Held => InMap(given[p], obj, call[p], sims[p])
  <2> SUFFICES ASSUME p \in Held PROVE InMap(given[p], obj, call[p], sims[p])
    OBVIOUS
  <2>1. InMap(given[p], object[p], call[p], sims[p]) /\ sims[p].systems \in Seq(System)
    BY <1>2, SMT DEF Sound, SimsType
  <2>2. Commits(mine, sims[p].systems) => Commits(obj.systems, sims[p].systems)
    <3> HIDE DEF sys, mine
    <3> QED
      BY <1>3, <1>4, <1>5, <2>1, CommitsAppended
  <2> QED
    BY <1>1, <1>5, <1>6, <2>1, <2>2, Zenon DEF InMap, Ok
<1>9. Present(obj, call[p], p \in Held, excused[p])
  BY <1>2, <1>5, Zenon DEF Present, Registered
<1>10. /\ call' = [call EXCEPT ![p] = call[p]]
       /\ excused' = [excused EXCEPT ![p] = excused[p]]
       /\ okSteps' = [okSteps EXCEPT ![p] = okSteps[p]]
       /\ raisedSteps' = [raisedSteps EXCEPT ![p] = raisedSteps[p]]
  BY <1>1, <1>2, Zenon DEF Shape, history
<1>11. /\ okSteps[p] + HasRun(call[p]) <= okSteps[p] + HasRun(call[p])
       /\ okSteps[p] + raisedSteps[p] + Coming(call[p]) >=
            okSteps[p] + raisedSteps[p] + Coming(call[p])
  BY <1>2, Arithmetic, SMT
<1>12. UNCHANGED <<given, sims, restarts>>
  BY <1>1
<1> QED
  BY <1>1, <1>2, <1>5, <1>7, <1>8, <1>9, <1>10, <1>11, <1>12, OwnSteps

-----------------------------------------------------------------------------
(* What comes back.                                                        *)

LEMMA ConstructReturnsKeeps ==
  ASSUME IInv, NEW p \in Objects, ConstructReturns(p)
  PROVE  Keeps(p)
<1> DEFINE ok == Returned(p, "construct")
           entities == IF ok THEN call[p].answer.entities ELSE object[p].entities
           obj == [object[p] EXCEPT !.built = ok, !.entities = entities]
<1>1. /\ object' = [object EXCEPT ![p] = obj]
      /\ call' = [call EXCEPT ![p] = Idle]
      /\ UNCHANGED <<given, sims, restarts, history>>
      /\ call[p].op = "construct"
  BY Zenon DEF ConstructReturns, Resume, IsAnswered, IsAt
<1>2. /\ call[p] \in CallsType /\ object[p] \in Object
      /\ Fields(given[p], object[p], call[p])
  BY Known
<1>3. ok \in BOOLEAN /\ (ok <=> Ok(call[p], "construct"))
  BY Zenon DEF Returned, IsAnswered, IsAt, Ok
<1>4. entities \in Seq(EntityDef)
  BY <1>2, SMT DEF Object, CallsType, Answers
<1>5. ok => IdsOf(given[p], entities)
  BY <1>2, <1>3 DEF Fields
<1>6. ~object[p].started
  BY <1>1, <1>2 DEF Fields
<1>7. /\ obj \in Object
      /\ obj.built = ok
      /\ obj.entities = entities
      /\ obj.started = object[p].started
  <2> HIDE DEF ok, entities
  <2> QED
    BY <1>2, <1>3, <1>4, Zenon DEF Object
<1> HIDE DEF obj, entities, ok
<1> QED
  BY <1>1, <1>5, <1>6, <1>7, OwnReturns

LEMMA WithIdsTyped ==
  ASSUME NEW s \in Seq(System), NEW t \in Seq(System)
  PROVE  WithIds(s, t) \in Seq(System)
<1> DEFINE n == IF Len(s) <= Len(t) THEN Len(s) ELSE Len(t)
<1>1. /\ DOMAIN s = 1 .. Len(s) /\ DOMAIN t = 1 .. Len(t)
      /\ Len(s) \in Nat /\ Len(t) \in Nat
      /\ \A k \in 1 .. Len(s) : s[k] \in System
      /\ \A k \in 1 .. Len(t) : t[k] \in System
  BY SMT
<1>2. n \in Nat /\ DOMAIN s \cap DOMAIN t = 1 .. n
  <2>1. \A i, j \in Nat : i <= j => (1 .. i) \cap (1 .. j) = 1 .. i
    BY SMT
  <2>2. Len(s) <= Len(t) \/ Len(t) <= Len(s)
    BY <1>1, SMT
  <2> QED
    BY <1>1, <2>1, <2>2
<1>3. ASSUME NEW u \in System, NEW v \in System
      PROVE  [u EXCEPT !.id = v.id] \in System
  BY Zenon DEF System
<1>4. WithIds(s, t) \in [1 .. n -> System]
  <2>1. \A k \in 1 .. n : k \in 1 .. Len(s) /\ k \in 1 .. Len(t)
    BY <1>1, <1>2
  <2> HIDE DEF n
  <2> QED
    BY <1>1, <1>2, <1>3, <2>1, Zenon DEF WithIds
<1> HIDE DEF n
<1> QED
  BY <1>2, <1>4, SMT

(* After start() the ids of the systems are those the engine has.          *)
LEMMA WithIdsOf ==
  ASSUME NEW s \in Seq(System), NEW t \in Seq(System), SameFns(s, t)
  PROVE  WithIds(s, t) = t
<1>1. /\ DOMAIN s = 1 .. Len(s) /\ DOMAIN t = 1 .. Len(s) /\ Len(s) \in Nat
      /\ \A k \in 1 .. Len(s) : s[k] \in System /\ t[k] \in System /\ s[k].fn = t[k].fn
  BY SMT DEF SameFns
<1>2. ASSUME NEW u \in System, NEW v \in System, u.fn = v.fn
      PROVE  [u EXCEPT !.id = v.id] = v
  BY <1>2, SMT DEF System
<1>3. WithIds(s, t) = [k \in 1 .. Len(s) |-> t[k]]
  BY <1>1, <1>2 DEF WithIds
<1>4. t = [k \in 1 .. Len(s) |-> t[k]]
  BY <1>1, SMT
<1> QED
  BY <1>3, <1>4

LEMMA CommitsItself ==
  ASSUME NEW s \in Seq(System)
  PROVE  Commits(s, s)
<1>1. Len(s) \in Nat /\ DOMAIN s = 1 .. Len(s)
  BY SMT
<1> QED
  BY <1>1, SMT DEF Commits

LEMMA StartReturnsKeeps ==
  ASSUME IInv, NEW p \in Objects, StartReturns(p)
  PROVE  Keeps(p)
<1> DEFINE ok == Returned(p, "start")
           mine == IF ok THEN WithIds(object[p].systems, call[p].answer.systems)
                         ELSE object[p].systems
           obj == [object[p] EXCEPT !.started = ok, !.systems = mine]
<1>1. /\ object' = [object EXCEPT ![p] = obj]
      /\ call' = [call EXCEPT ![p] = Idle]
      /\ UNCHANGED <<given, sims, restarts, history>>
      /\ call[p].op = "start"
  BY Zenon DEF StartReturns, Resume, IsAnswered, IsAt, MarkStarted
<1>2. /\ call[p] \in CallsType /\ object[p] \in Object
      /\ Fields(given[p], object[p], call[p])
      /\ p \in Held => InMap(given[p], object[p], call[p], sims[p]) /\ Sound(sims[p])
      /\ Present(object[p], call[p], p \in Held, excused[p])
  BY Known
<1>3. ok \in BOOLEAN /\ (ok <=> Ok(call[p], "start"))
  BY Zenon DEF Returned, IsAnswered, IsAt, Ok
<1>4. object[p].systems \in Seq(System) /\ call[p].answer.systems \in Seq(System)
  BY <1>2, SMT DEF Object, CallsType, Answers
<1>5. mine \in Seq(System)
  BY <1>4, WithIdsTyped
<1>6. p \in Held /\ ~sims[p].stray /\ ok => Commits(mine, sims[p].systems)
  <2> SUFFICES ASSUME p \in Held, ~sims[p].stray, ok
               PROVE  Commits(mine, sims[p].systems)
    OBVIOUS
  <2>1. /\ call[p].answer.systems = sims[p].systems
        /\ SameFns(object[p].systems, sims[p].systems)
    BY <1>2, <1>3, Zenon DEF InMap
  <2>2. mine = sims[p].systems
    BY <1>4, <2>1, WithIdsOf
  <2> HIDE DEF mine
  <2> QED
    BY <1>5, <2>2, CommitsItself
<1>7. ok /\ ~excused[p] => p \in Held
  BY <1>1, <1>2, <1>3 DEF Present, Registered, Ok
<1>8. /\ obj \in Object
      /\ obj.started = ok
      /\ obj.systems = mine
      /\ obj.entities = object[p].entities
      /\ obj.built = object[p].built
  <2> HIDE DEF ok, mine
  <2> QED
    BY <1>2, <1>3, <1>5, Zenon DEF Object
<1>9. object[p].built /\ IdsOf(given[p], object[p].entities)
  BY <1>1, <1>2 DEF Fields
<1> HIDE DEF obj, mine, ok
<1> QED
  BY <1>1, <1>6, <1>7, <1>8, <1>9, OwnReturns

LEMMA StopReturnsKeeps ==
  ASSUME IInv, NEW p \in Objects, StopReturns(p)
  PROVE  Keeps(p)
<1> DEFINE ok == Returned(p, "stop")
           obj == [object[p] EXCEPT !.started = ~ok]
<1>1. /\ object' = [object EXCEPT ![p] = obj]
      /\ call' = [call EXCEPT ![p] = Idle]
      /\ UNCHANGED <<given, sims, restarts, history>>
      /\ call[p].op = "stop"
  BY Zenon DEF StopReturns, Resume, IsAnswered, IsAt
<1>2. /\ call[p] \in CallsType /\ object[p] \in Object
      /\ Fields(given[p], object[p], call[p])
      /\ p \in Held => InMap(given[p], object[p], call[p], sims[p])
      /\ Present(object[p], call[p], p \in Held, excused[p])
  BY Known
<1>3. (~ok) \in BOOLEAN /\ (ok <=> Ok(call[p], "stop"))
  BY Zenon DEF Returned, IsAnswered, IsAt, Ok
<1>4. /\ obj \in Object
      /\ obj.started = ~ok
      /\ obj.systems = object[p].systems
      /\ obj.entities = object[p].entities
      /\ obj.built = object[p].built
  <2> HIDE DEF ok
  <2> QED
    BY <1>2, <1>3, Zenon DEF Object
<1>5. object[p].started /\ object[p].built /\ IdsOf(given[p], object[p].entities)
  BY <1>1, <1>2 DEF Fields
<1>6. ~ok /\ ~excused[p] => p \in Held
  BY <1>2, <1>3, <1>5 DEF Present, Registered
<1>7. p \in Held /\ ~sims[p].stray => Commits(object[p].systems, sims[p].systems)
  BY <1>2, <1>5 DEF InMap
<1> HIDE DEF obj, ok
<1> QED
  BY <1>1, <1>4, <1>5, <1>6, <1>7, OwnReturns

(* What an answer that arrives adds to the steps known is what the engine  *)
(* had already counted.                                                    *)
LEMMA StepReturnsKeeps ==
  ASSUME IInv, NEW p \in Objects, StepReturns(p)
  PROVE  Keeps(p)
<1> DEFINE ok == Returned(p, "step")
           a == IF ok THEN okSteps[p] + 1 ELSE okSteps[p]
           b == IF ok THEN raisedSteps[p] ELSE raisedSteps[p] + 1
<1>1. /\ call' = [call EXCEPT ![p] = Idle]
      /\ okSteps' = [okSteps EXCEPT ![p] = IF ok THEN @ + 1 ELSE @]
      /\ raisedSteps' = [raisedSteps EXCEPT ![p] =
                           IF ~ok /\ call'[p].at = "none" THEN @ + 1 ELSE @]
      /\ UNCHANGED <<given, object, sims, restarts, excused>>
      /\ call[p].op = "step" /\ call[p].at = "answered"
  BY Zenon DEF StepReturns, Resume, IsAnswered, IsAt, IsIdle
<1>2. /\ Shape /\ call[p] \in CallsType /\ object[p] \in Object /\ p \in Callers
      /\ excused[p] \in BOOLEAN /\ okSteps[p] \in Nat /\ raisedSteps[p] \in Nat
      /\ Fields(given[p], object[p], call[p])
      /\ p \in Held => InMap(given[p], object[p], call[p], sims[p])
      /\ Present(object[p], call[p], p \in Held, excused[p])
  BY Known
<1>3. call'[p].at = "none"
  BY <1>1, <1>2, Constants, Zenon DEF Shape
<1>4. /\ object' = [object EXCEPT ![p] = object[p]]
      /\ excused' = [excused EXCEPT ![p] = excused[p]]
      /\ okSteps' = [okSteps EXCEPT ![p] = a]
      /\ raisedSteps' = [raisedSteps EXCEPT ![p] = b]
  <2>1. /\ object' = [object EXCEPT ![p] = object[p]]
        /\ excused' = [excused EXCEPT ![p] = excused[p]]
    BY <1>1, <1>2, Zenon DEF Shape
  <2>2. okSteps' = [okSteps EXCEPT ![p] = a]
    BY <1>1, Zenon
  <2>3. raisedSteps' = [raisedSteps EXCEPT ![p] = b]
    <3>1. CASE ok
      BY <1>1, <3>1, Zenon
    <3>2. CASE ~ok
      BY <1>1, <1>3, <3>2, Zenon
    <3> QED
      BY <3>1, <3>2
  <2> QED
    BY <2>1, <2>2, <2>3
<1>5. a \in Nat /\ b \in Nat
  BY <1>2, SMT
<1>6. ok <=> Ok(call[p], "step")
  BY Zenon DEF Returned, IsAnswered, IsAt, Ok
<1>7. object[p].started
  BY <1>1, <1>2 DEF Fields
<1>8. Staged(given[p], p \in Held, Idle)
  BY Constants DEF Staged
<1>9. Fields(given[p], object[p], Idle)
  BY <1>2, Constants DEF Fields, Ok
<1>10. p \in Held => InMap(given[p], object[p], Idle, sims[p])
  BY <1>2, Constants, Zenon DEF InMap, Ok
<1>11. Present(object[p], Idle, p \in Held, excused[p])
  BY <1>1, <1>2, <1>7, Constants DEF Present, Registered, Ok
<1>12. HasRun(Idle) = 0 /\ Coming(Idle) = 0 /\ Coming(call[p]) = 1
       /\ HasRun(call[p]) = IF ok THEN 1 ELSE 0
  BY <1>1, <1>6, Constants DEF HasRun, Coming
<1>13. /\ a + HasRun(Idle) <= okSteps[p] + HasRun(call[p])
       /\ a + b + Coming(Idle) >= okSteps[p] + raisedSteps[p] + Coming(call[p])
  <2> HIDE DEF ok
  <2> QED
    BY <1>2, <1>12, SMT
<1>14. UNCHANGED <<given, sims, restarts>> /\ Idle \in CallsType
  BY <1>1, Constants
<1>15. call' = [call EXCEPT ![p] = Idle]
  BY <1>1
<1> HIDE DEF a, b, ok
<1> QED
  BY <1>2, <1>4, <1>5, <1>8, <1>9, <1>10, <1>11, <1>13, <1>14, <1>15, OwnSteps

-----------------------------------------------------------------------------
(* Handlers that leave the map as it is.                                   *)

(* From its arrival to the part that does something.                       *)
LEMMA GotoKeeps ==
  ASSUME IInv, NEW c \in Callers, NEW stage \in {"replace", "lock", "erase"},
         Goto(c, stage), UNCHANGED <<given, object, sims, restarts, history>>,
         call[c].at = "sent",
         stage = "replace" => call[c].op \in {"construct", "start"},
         stage = "lock" => call[c].op = "step" /\ Of(c) \in Held,
         stage = "erase" => call[c].op = "stop"
  PROVE  Keeps(Of(c))
<1> DEFINE p == Of(c)
           new == [call[c] EXCEPT !.at = stage]
<1>1. call' = [call EXCEPT ![c] = new]
  BY Zenon DEF Goto
<1>2. p \in Objects /\ (c \in Objects => p = c) /\ (c \in Objects \/ c \in Strays)
  BY CallersOf
<1>3. call[c] \in CallsType /\ Staged(given[p], p \in Held, call[c])
  BY <1>2 DEF IInv, Shape, Good, AllStaged
<1>4. stage \in Stages
  BY DEF Stages
<1>5. /\ new \in CallsType
      /\ new.at = stage
      /\ new.op = call[c].op /\ new.def = call[c].def /\ new.intact = call[c].intact
      /\ new.code = call[c].code /\ new.answer = call[c].answer
  BY <1>3, <1>4, MovedCall
<1>6. call[c].intact
  BY <1>3 DEF Staged
<1> HIDE DEF new
<1>7. Staged(given[p], p \in Held, new)
  BY <1>3, <1>5, <1>6 DEF Staged
<1>8. CASE c \in Strays
  <2>1. Pends(new) => Pends(call[c])
    BY <1>5 DEF Pends
  <2> QED
    BY <1>1, <1>5, <1>7, <1>8, <2>1, StrayMoves
<1>9. CASE c \in Objects
  <2>0. p = c
    BY <1>2, <1>9
  <2>1. /\ Fields(given[c], object[c], call[c])
        /\ c \in Held => InMap(given[c], object[c], call[c], sims[c])
        /\ Present(object[c], call[c], c \in Held, excused[c])
    BY <1>9, Known
  <2>2. Fields(given[c], object[c], new)
    BY <1>5, <2>1 DEF Fields, Ok
  <2>3. c \in Held => InMap(given[c], object[c], new, sims[c])
    BY <1>5, <1>6, <2>1 DEF InMap, Ok
  <2>4. Present(object[c], new, c \in Held, excused[c])
    BY <1>5, <2>1 DEF Present, Registered, Ok
  <2>5. HasRun(new) = 0 /\ HasRun(call[c]) = 0 /\ Coming(new) = 0 /\ Coming(call[c]) = 0
    BY <1>5 DEF HasRun, Coming, Ok
  <2>6. HasRun(new) <= HasRun(call[c]) /\ Coming(new) >= Coming(call[c])
    BY <2>5, SMT
  <2> QED
    BY <1>1, <1>5, <1>7, <1>9, <2>0, <2>2, <2>3, <2>4, <2>6, OwnMoves
<1> QED
  BY <1>2, <1>8, <1>9

(* An answer.                                                              *)
LEMMA AnswerKeeps ==
  ASSUME IInv, NEW c \in Callers, NEW code \in Codes, NEW answer \in Answers,
         Answer(c, code, answer), UNCHANGED <<given, object, sims, restarts, history>>,
         call[c].at \in {"sent", "init", "run"},
         call[c].op # "none",
         code = "OK" /\ call[c].op = "construct" => IdsOf(given[Of(c)], answer.entities),
         code = "OK" /\ call[c].op = "start" =>
           /\ call[c].at = "init"
           /\ Of(c) \in Held
           /\ answer.systems = sims[Of(c)].systems,
         code = "OK" => call[c].op # "stop",
         code = "OK" /\ call[c].op = "step" =>
           /\ call[c].at = "run"
           /\ c \in Objects /\ ~answer.stray => Commits(object[c].systems, answer.systems)
  PROVE  Keeps(Of(c))
<1> DEFINE p == Of(c)
           new == Outcome(c, code, answer)
<1>1. call' = [call EXCEPT ![c] = new]
  BY Zenon DEF Answer
<1>2. p \in Objects /\ (c \in Objects => p = c) /\ (c \in Objects \/ c \in Strays)
      /\ (c \in Strays => c \notin Objects)
  BY CallersOf
<1>3. call[c] \in CallsType /\ Staged(given[p], p \in Held, call[c])
  BY <1>2 DEF IInv, Shape, Good, AllStaged
<1>4. CASE c \in Strays
  <2>1. new = Idle
    BY <1>2, <1>4 DEF Outcome
  <2>2. new \in CallsType /\ Staged(given[p], p \in Held, new) /\ ~Pends(new)
    BY <2>1, Constants DEF Staged, Pends
  <2> HIDE DEF new
  <2> QED
    BY <1>1, <1>4, <2>2, StrayMoves
<1>5. CASE c \in Objects
  <2>0. p = c
    BY <1>2, <1>5
  <2>1. /\ Fields(given[c], object[c], call[c])
        /\ c \in Held => InMap(given[c], object[c], call[c], sims[c])
        /\ Present(object[c], call[c], c \in Held, excused[c])
    BY <1>5, Known
  <2>2. new = Answered(call[c].op, code, answer) /\ call[c].op \in Ops
    BY <1>3, <1>5, Zenon DEF Outcome, CallsType
  <2>3. /\ new \in CallsType /\ new.op = call[c].op /\ new.at = "answered"
        /\ new.code = code /\ new.answer = answer
    BY <2>2, AnsweredCall
  <2> HIDE DEF new
  <2>4. Staged(given[c], c \in Held, new)
    BY <2>3 DEF Staged
  <2>5. Fields(given[c], object[c], new)
    BY <1>5, <2>0, <2>1, <2>3 DEF Fields, Ok
  <2>6. c \in Held => InMap(given[c], object[c], new, sims[c])
    BY <2>0, <2>1, <2>3 DEF InMap, Ok
  <2>7. Present(object[c], new, c \in Held, excused[c])
    BY <2>0, <2>1, <2>3 DEF Present, Registered, Ok
  <2>8. HasRun(new) <= HasRun(call[c]) /\ Coming(new) >= Coming(call[c])
    <3>1. call[c].op = "step" /\ code = "OK" => HasRun(call[c]) = 1
      BY DEF HasRun
    <3>2. ~(call[c].op = "step" /\ code = "OK") => HasRun(new) = 0
      BY <2>3 DEF HasRun, Ok
    <3>3. call[c].op = "step" => Coming(new) = 1
      BY <2>3 DEF Coming
    <3>4. call[c].op # "step" => Coming(call[c]) = 0
      BY DEF Coming
    <3> QED
      BY <1>3, <2>3, <3>1, <3>2, <3>3, <3>4, Arithmetic, SMT
  <2> QED
    BY <1>1, <1>5, <2>0, <2>3, <2>4, <2>5, <2>6, <2>7, <2>8, OwnMoves
<1> QED
  BY <1>2, <1>4, <1>5

LEMMA CodesTyped ==
  {"OK", "NOT_FOUND", "ALREADY_EXISTS", "INTERNAL", "UNAVAILABLE"} \subseteq Codes
BY DEF Codes

(* What the invariant says of any caller.                                  *)
LEMMA KnownCaller ==
  ASSUME IInv, NEW c \in Callers
  PROVE  /\ Of(c) \in Objects
         /\ call[c] \in CallsType
         /\ Staged(given[Of(c)], Of(c) \in Held, call[c])
<1>1. Of(c) \in Objects
  BY CallersOf
<1> QED
  BY <1>1 DEF IInv, Shape, Good, AllStaged

LEMMA CheckKeeps ==
  ASSUME IInv, NEW c \in Callers, Check(c)
  PROVE  Keeps(Of(c))
<1>1. /\ call[c].op \in {"construct", "start"} /\ call[c].at = "sent"
      /\ UNCHANGED <<given, object, sims, restarts, history>>
      /\ Answer(c, "ALREADY_EXISTS", NoAnswer) \/ Goto(c, "replace")
  BY Zenon DEF Check, IsAt
<1>2. ASSUME Answer(c, "ALREADY_EXISTS", NoAnswer) PROVE Keeps(Of(c))
  <2>1. "ALREADY_EXISTS" \in Codes /\ NoAnswer \in Answers
    BY CodesTyped, Constants
  <2> QED
    BY <1>1, <1>2, <2>1, AnswerKeeps
<1>3. ASSUME Goto(c, "replace") PROVE Keeps(Of(c))
  BY <1>1, <1>3, GotoKeeps
<1> QED
  BY <1>1, <1>2, <1>3

LEMMA NotFoundKeeps ==
  ASSUME IInv, NEW c \in Callers, NotFound(c)
  PROVE  Keeps(Of(c))
<1>1. /\ call[c].op \in {"step", "stop"} /\ call[c].at = "sent"
      /\ UNCHANGED <<given, object, sims, restarts, history>>
      /\ Answer(c, "NOT_FOUND", NoAnswer)
  BY Zenon DEF NotFound, IsAt
<1>2. "NOT_FOUND" \in Codes /\ NoAnswer \in Answers
  BY CodesTyped, Constants
<1> QED
  BY <1>1, <1>2, AnswerKeeps

LEMMA BindKeeps ==
  ASSUME IInv, NEW c \in Callers, Bind(c)
  PROVE  Keeps(Of(c))
<1>1. /\ call[c].op = "step" /\ call[c].at = "sent" /\ Of(c) \in Held
      /\ UNCHANGED <<given, object, sims, restarts, history>>
      /\ Goto(c, "lock")
  BY Zenon DEF Bind, IsAt
<1> QED
  BY <1>1, GotoKeeps

LEMMA FoundKeeps ==
  ASSUME IInv, NEW c \in Callers, Found(c)
  PROVE  Keeps(Of(c))
<1>1. /\ call[c].op = "stop" /\ call[c].at = "sent"
      /\ UNCHANGED <<given, object, sims, restarts, history>>
      /\ Goto(c, "erase")
  BY Zenon DEF Found, IsAt
<1> QED
  BY <1>1, GotoKeeps

LEMMA FinishApplyKeeps ==
  ASSUME IInv, NEW c \in Callers, FinishApply(c)
  PROVE  Keeps(Of(c))
<1> DEFINE answer == Definition(sims[Of(c)])
<1>1. /\ call[c].at = "init"
      /\ UNCHANGED <<given, object, sims, restarts, history>>
      /\ \/ Of(c) \in Held /\ Answer(c, "OK", answer)
         \/ Answer(c, "INTERNAL", NoAnswer)
  BY Zenon DEF FinishApply
<1>2. call[c].op \in {"construct", "start"}
  BY <1>1, KnownCaller DEF Staged
<1>3. ASSUME Of(c) \in Held, Answer(c, "OK", answer) PROVE Keeps(Of(c))
  <2>1. /\ Sound(sims[Of(c)])
        /\ InMap(given[Of(c)], object[Of(c)], call[Of(c)], sims[Of(c)])
    BY <1>3, Known, KnownCaller
  <2>2. /\ sims[Of(c)].entities \in Seq(EntityDef)
        /\ sims[Of(c)].systems \in Seq(System)
    BY <2>1, SMT DEF Sound, SimsType
  <2>3. /\ answer \in Answers
        /\ answer.entities = sims[Of(c)].entities
        /\ answer.systems = sims[Of(c)].systems
    BY <2>2, Zenon DEF Definition, Answers
  <2>4. IdsOf(given[Of(c)], answer.entities)
    BY <2>1, <2>3 DEF InMap
  <2>5. "OK" \in Codes
    BY CodesTyped
  <2> HIDE DEF answer
  <2> QED
    BY <1>1, <1>2, <1>3, <2>3, <2>4, <2>5, AnswerKeeps
<1>4. ASSUME Answer(c, "INTERNAL", NoAnswer) PROVE Keeps(Of(c))
  <2>1. "INTERNAL" \in Codes /\ NoAnswer \in Answers
    BY CodesTyped, Constants
  <2> QED
    BY <1>1, <1>2, <1>4, <2>1, AnswerKeeps
<1> QED
  BY <1>1, <1>3, <1>4

(* An object that steps is started, and what it steps holds the systems it *)
(* committed if no stray put it there.                                     *)
LEMMA FinishStepKeeps ==
  ASSUME IInv, NEW c \in Callers, FinishStep(c)
  PROVE  Keeps(Of(c))
<1> DEFINE answer == Ran(sims[Of(c)])
<1>1. /\ call[c].at = "run"
      /\ UNCHANGED <<given, object, sims, restarts, history>>
      /\ \/ call[c].intact /\ Answer(c, "OK", answer)
         \/ Answer(c, "OK", RanUnknown)
         \/ Answer(c, "INTERNAL", NoAnswer)
  BY Zenon DEF FinishStep
<1>2. call[c].op = "step" /\ (call[c].intact => Of(c) \in Held)
  BY <1>1, KnownCaller DEF Staged
<1>3. ASSUME call[c].intact, Answer(c, "OK", answer) PROVE Keeps(Of(c))
  <2>1. /\ Sound(sims[Of(c)])
        /\ InMap(given[Of(c)], object[Of(c)], call[Of(c)], sims[Of(c)])
        /\ Fields(given[Of(c)], object[Of(c)], call[Of(c)])
    BY <1>2, <1>3, Known, KnownCaller
  <2>2. sims[Of(c)].systems \in Seq(System) /\ sims[Of(c)].stray \in BOOLEAN
    BY <2>1, SMT DEF Sound, SimsType
  <2>3. <<>> \in Seq(EntityDef)
    OBVIOUS
  <2>4. /\ answer \in Answers
        /\ answer.systems = sims[Of(c)].systems
        /\ answer.stray = sims[Of(c)].stray
    BY <2>2, <2>3, Zenon DEF Ran, Answers
  <2>5. ASSUME c \in Objects, ~answer.stray
        PROVE  Commits(object[c].systems, answer.systems)
    <3>1. Of(c) = c
      BY <2>5, CallersOf
    <3> QED
      BY <1>2, <2>1, <2>4, <2>5, <3>1 DEF InMap, Fields
  <2>6. "OK" \in Codes
    BY CodesTyped
  <2> HIDE DEF answer
  <2> QED
    BY <1>1, <1>2, <1>3, <2>4, <2>5, <2>6, AnswerKeeps
<1>4. ASSUME Answer(c, "OK", RanUnknown) PROVE Keeps(Of(c))
  <2>1. "OK" \in Codes /\ RanUnknown \in Answers /\ RanUnknown.stray
    BY CodesTyped, Constants
  <2> QED
    BY <1>1, <1>2, <1>4, <2>1, AnswerKeeps
<1>5. ASSUME Answer(c, "INTERNAL", NoAnswer) PROVE Keeps(Of(c))
  <2>1. "INTERNAL" \in Codes /\ NoAnswer \in Answers
    BY CodesTyped, Constants
  <2> QED
    BY <1>1, <1>2, <1>5, <2>1, AnswerKeeps
<1> QED
  BY <1>1, <1>3, <1>4, <1>5

LEMMA LoseKeeps ==
  ASSUME IInv, NEW s \in Strays, Lose(s)
  PROVE  Keeps(Of(s))
<1>1. /\ call' = [call EXCEPT ![s] = Idle]
      /\ UNCHANGED <<given, object, sims, restarts, history>>
  BY Zenon DEF Lose
<1>2. /\ Idle \in CallsType
      /\ Staged(given[Of(s)], Of(s) \in Held, Idle)
      /\ Pends(Idle) => Pends(call[s])
  BY Constants DEF Staged, Pends
<1> QED
  BY <1>1, <1>2, StrayMoves

-----------------------------------------------------------------------------
(* Handlers that change the map.                                           *)

(* What destroying a simulation does to the calls.                         *)
LEMMA DestroysCalls ==
  ASSUME Shape, NEW c \in Callers, NEW new \in CallsType, Destroys(c, new)
  PROVE  /\ call' \in [Callers -> CallsType]
         /\ call'[c] = new
         /\ \A d \in Callers : Of(d) # Of(c) => call'[d] = call[d]
         /\ \A d \in Callers \ {c} :
              /\ call'[d].at = call[d].at /\ call'[d].op = call[d].op
              /\ call'[d].def = call[d].def /\ call'[d].code = call[d].code
              /\ call'[d].answer = call[d].answer
              /\ call'[d].intact =>
                   call[d].intact /\ ~(Of(d) = Of(c) /\ call[d].at \in {"init", "lock", "run"})
              /\ call[d].intact /\ call[d].at \notin {"init", "lock", "run"} =>
                   call'[d].intact
<1> DEFINE b(d) == call[d].intact /\
                     ~(Of(d) = Of(c) /\ call[d].at \in {"init", "lock", "run"})
<1>1. call' = [d \in Callers |-> IF d = c THEN new ELSE [call[d] EXCEPT !.intact = b(d)]]
  BY Zenon DEF Destroys
<1>2. \A d \in Callers : call[d] \in CallsType /\ b(d) \in BOOLEAN
  BY Zenon DEF Shape
<1>3. ASSUME NEW d \in Callers
      PROVE  LET y == [call[d] EXCEPT !.intact = b(d)] IN
               /\ y \in CallsType
               /\ y.intact = b(d)
               /\ y.at = call[d].at /\ y.op = call[d].op /\ y.def = call[d].def
               /\ y.code = call[d].code /\ y.answer = call[d].answer
  <2> HIDE DEF b
  <2> QED
    BY <1>2, DangledCall
<1>4. ASSUME NEW d \in Callers, Of(d) # Of(c)
      PROVE  call'[d] = call[d]
  <2>1. call[d] \in CallsType /\ call[d].intact \in BOOLEAN
    BY <1>2, Zenon DEF CallsType
  <2>2. b(d) = call[d].intact
    BY <1>4, <2>1
  <2> HIDE DEF b
  <2>3. \A x \in CallsType : [x EXCEPT !.intact = x.intact] = x
    BY Zenon DEF CallsType
  <2>4. d # c /\ call'[d] = [call[d] EXCEPT !.intact = call[d].intact]
    BY <1>1, <1>4, <2>2
  <2> QED
    BY <2>1, <2>3, <2>4
<1>5. \A d \in Callers \ {c} :
        /\ call'[d] = [call[d] EXCEPT !.intact = b(d)]
        /\ call'[d] \in CallsType
  BY <1>1, <1>3
<1>6. call'[c] = new
  BY <1>1
<1>7. call' \in [Callers -> CallsType]
  <2> HIDE DEF b
  <2> QED
    BY <1>1, <1>5, <1>6
<1>8. ASSUME NEW d \in Callers \ {c}
      PROVE  /\ call'[d].at = call[d].at /\ call'[d].op = call[d].op
             /\ call'[d].def = call[d].def /\ call'[d].code = call[d].code
             /\ call'[d].answer = call[d].answer
             /\ call'[d].intact = b(d)
  <2> HIDE DEF b
  <2> QED
    BY <1>3, <1>5
<1> QED
  BY <1>4, <1>6, <1>7, <1>8

(* The calls after that, but for the one that did it.                      *)
LEMMA DestroysStaged ==
  ASSUME IInv, NEW c \in Callers, NEW new \in CallsType, Destroys(c, new),
         UNCHANGED given, Staged(given[Of(c)], Of(c) \in Held', new), ~Pends(new)
  PROVE  /\ AllStaged(Of(c))'
         /\ Pending(Of(c))' \subseteq Unbegun(Of(c))
         /\ Unbegun(Of(c)) \subseteq Pending(Of(c))
<1>1. Shape
  BY DEF IInv
<1>2. /\ call'[c] = new
      /\ \A d \in Callers \ {c} :
           /\ call'[d].at = call[d].at /\ call'[d].op = call[d].op
           /\ call'[d].def = call[d].def
           /\ call'[d].intact =>
                call[d].intact /\ ~(Of(d) = Of(c) /\ call[d].at \in {"init", "lock", "run"})
           /\ call[d].intact /\ call[d].at \notin {"init", "lock", "run"} => call'[d].intact
  BY <1>1, DestroysCalls
<1>3. ASSUME NEW d \in Callers \ {c}, Of(d) = Of(c)
      PROVE  Staged(given[Of(c)], Of(c) \in Held', call'[d])
  <2>1. Staged(given[Of(c)], Of(c) \in Held, call[d])
    BY <1>3, KnownCaller
  <2>2. /\ call'[d].at = call[d].at /\ call'[d].op = call[d].op
        /\ call'[d].def = call[d].def
        /\ call[d].at \in {"init", "lock", "run"} => ~call'[d].intact
        /\ call[d].intact /\ call[d].at \notin {"init", "lock", "run"} => call'[d].intact
    BY <1>2, <1>3
  <2> QED
    BY <2>1, <2>2 DEF Staged
<1>4. AllStaged(Of(c))'
  <2> SUFFICES ASSUME NEW d \in Callers, Of(d) = Of(c)
               PROVE  Staged(given[Of(c)], Of(c) \in Held', call'[d])
    BY DEF AllStaged
  <2> QED
    BY <1>2, <1>3
<1>5. ASSUME NEW s \in Strays, s # c, Of(s) = Of(c), Pends(call'[s])
      PROVE  IsAt(s, "step", "sent")
  <2>1. s \in Callers \ {c}
    BY <1>5, CallersOf
  <2> QED
    BY <1>2, <1>5, <2>1 DEF Pends, IsAt
<1>6. ~Pends(call'[c])
  BY <1>2
<1> QED
  BY <1>4, <1>5, <1>6, Zenon DEF Pending, Unbegun, Pends, IsAt

(* What the engine holds after a definition was applied.                   *)
LEMMA ApplicationsSound ==
  ASSUME NEW entities \in Seq(EntityDef), DistinctIds(entities),
         NEW def \in Defs, def.entities = entities \/ IdsOf(entities, def.entities),
         NEW stray \in BOOLEAN, NEW sim \in Applications(def, stray)
  PROVE  /\ Sound(sim)
         /\ IdsOf(entities, sim.entities)
         /\ SameFns(def.systems, sim.systems)
         /\ sim.steps = 0
         /\ sim.stray = stray
<1>1. def.systems \in Seq(System)
  BY SMT DEF Defs
<1>2. PICK top \in Tops(def.entities), max \in Tops(def.systems) :
        sim = [entities |-> Numbered(def.entities, top),
               systems |-> Numbered(def.systems, max),
               locked |-> FALSE, steps |-> 0, stray |-> stray]
  BY DEF Applications
<1>3. /\ IdsOf(entities, Numbered(def.entities, top))
      /\ Numbered(def.entities, top) \in Seq(EntityDef)
      /\ AllSet(Numbered(def.entities, top))
  BY AppliedAgain
<1>4. /\ Numbered(def.systems, max) \in Seq(System)
      /\ SameFns(def.systems, Numbered(def.systems, max))
      /\ AllSet(Numbered(def.systems, max))
  BY <1>1, NumberedSystems
<1>5. /\ sim.entities = Numbered(def.entities, top)
      /\ sim.systems = Numbered(def.systems, max)
      /\ sim.steps = 0 /\ sim.stray = stray
  BY <1>2
<1>6. sim \in SimsType
  BY <1>2, <1>3, <1>4, SMT DEF SimsType
<1>7. ~ sim.steps > 0
  BY <1>5, SMT
<1> QED
  BY <1>3, <1>4, <1>5, <1>6, <1>7 DEF Sound

LEMMA WithTyped ==
  ASSUME Shape, NEW sim, Sound(sim), NEW x \in Objects, sims' = With(sim, x)
  PROVE  /\ Held' = Held \cup {x}
         /\ sims'[x] = sim
         /\ \A y \in Held : y # x => sims'[y] = sims[y]
         /\ Held' \subseteq Objects
         /\ \A y \in Held' : Sound(sims'[y])
<1>1. Held' = Held \cup {x}
  BY DEF With, Held
<1>2. \A y \in Held' : sims'[y] = IF y = x THEN sim ELSE sims[y]
  BY <1>1 DEF With
<1> QED
  BY <1>1, <1>2, SMT DEF Shape

(* A simulation is put in the map: whoever put it there, it has the        *)
(* object's entities; the object's own has its systems and begins its      *)
(* history.                                                                *)
LEMMA ReplaceKeeps ==
  ASSUME IInv, NEW c \in Callers, Replace(c)
  PROVE  Keeps(Of(c))
<1> DEFINE p == Of(c)
           new == [call[c] EXCEPT !.at = "init", !.def = NoDef]
<1>1. /\ call[c].at = "replace"
      /\ \E sim \in Applications(call[c].def, c \in Strays) : sims' = With(sim, p)
      /\ Destroys(c, new)
      /\ IF c \in Objects THEN Forget(c) ELSE UNCHANGED history
      /\ UNCHANGED <<given, object, restarts>>
  BY Zenon DEF Replace
<1>2. /\ p \in Objects /\ (c \in Objects => p = c) /\ (c \in Objects \/ c \in Strays)
      /\ (c \in Strays <=> c \notin Objects) /\ p \in Callers /\ Of(p) = p
  BY CallersOf
<1>3. call[c] \in CallsType /\ Staged(given[p], p \in Held, call[c])
  BY KnownCaller
<1>4. /\ Shape
      /\ object[p] \in Object /\ call[p] \in CallsType
      /\ given[p] \in Seq(EntityDef) /\ DistinctIds(given[p])
      /\ okSteps[p] \in Nat /\ raisedSteps[p] \in Nat
      /\ Fields(given[p], object[p], call[p])
  BY <1>2, Known
<1>5. /\ call[c].def \in Defs /\ call[c].op \in {"construct", "start"} /\ call[c].intact
      /\ call[c].def.entities = given[p] \/ IdsOf(given[p], call[c].def.entities)
  BY <1>1, <1>3, SMT DEF CallsType, Staged
<1>6. PICK sim \in Applications(call[c].def, c \in Strays) : sims' = With(sim, p)
  BY <1>1
<1>7. /\ Sound(sim) /\ IdsOf(given[p], sim.entities)
      /\ SameFns(call[c].def.systems, sim.systems)
      /\ sim.steps = 0
      /\ sim.stray <=> c \in Strays
  <2> DEFINE stray == c \in Strays
             def == call[c].def
             entities == given[p]
  <2>1. stray \in BOOLEAN /\ sim \in Applications(def, stray)
    OBVIOUS
  <2>2. /\ entities \in Seq(EntityDef) /\ DistinctIds(entities) /\ def \in Defs
        /\ def.entities = entities \/ IdsOf(entities, def.entities)
    BY <1>4, <1>5
  <2> HIDE DEF stray, def, entities
  <2>3. /\ Sound(sim) /\ IdsOf(entities, sim.entities)
        /\ SameFns(def.systems, sim.systems) /\ sim.steps = 0 /\ sim.stray = stray
    BY <2>1, <2>2, ApplicationsSound
  <2> QED
    BY <2>3 DEF stray, def, entities
<1>8. /\ Held' = Held \cup {p} /\ sims'[p] = sim
      /\ \A y \in Held : y # p => sims'[y] = sims[y]
      /\ Held' \subseteq Objects
      /\ \A y \in Held' : Sound(sims'[y])
  BY <1>2, <1>4, <1>6, <1>7, WithTyped
<1>9. /\ new \in CallsType
      /\ new.at = "init" /\ new.op = call[c].op /\ new.intact = call[c].intact
  <2>1. "init" \in Stages
    BY DEF Stages
  <2> QED
    BY <1>3, <2>1, Constants, Zenon DEF CallsType
<1> HIDE DEF new, p
<1>10. Staged(given[p], p \in Held', new) /\ ~Pends(new)
  BY <1>5, <1>8, <1>9 DEF Staged, Pends
<1>11. /\ call' \in [Callers -> CallsType]
       /\ call'[c] = new
       /\ \A d \in Callers : Of(d) # p => call'[d] = call[d]
       /\ \A d \in Callers \ {c} :
            /\ call'[d].at = call[d].at /\ call'[d].op = call[d].op
            /\ call'[d].def = call[d].def /\ call'[d].code = call[d].code
            /\ call'[d].answer = call[d].answer
  BY <1>1, <1>4, <1>9, DestroysCalls DEF p
<1>12. /\ AllStaged(p)'
       /\ Pending(p)' \subseteq Unbegun(p)
       /\ Unbegun(p) \subseteq Pending(p)
  BY <1>1, <1>9, <1>10, DestroysStaged DEF p
<1>13. /\ excused' \in [Objects -> BOOLEAN]
       /\ okSteps' \in [Objects -> Nat] /\ raisedSteps' \in [Objects -> Nat]
       /\ \A o \in Objects \ {p} :
            /\ excused'[o] = excused[o]
            /\ okSteps'[o] = okSteps[o] /\ raisedSteps'[o] = raisedSteps[o]
       /\ c \in Objects => okSteps'[p] = 0 /\ raisedSteps'[p] = Cardinality(Unbegun(p))
       /\ c \in Strays => okSteps'[p] = okSteps[p] /\ raisedSteps'[p] = raisedSteps[p]
  <2>1. CASE c \in Objects
    <3>1. /\ excused' = [excused EXCEPT ![c] = FALSE]
          /\ okSteps' = [okSteps EXCEPT ![c] = 0]
          /\ raisedSteps' = [raisedSteps EXCEPT ![c] = Cardinality(Unbegun(c))]
      BY <1>1, <2>1, Zenon DEF Forget
    <3>2. Cardinality(Unbegun(c)) \in Nat
      <4>1. Unbegun(c) \in SUBSET Strays
        BY DEF Unbegun
      <4> QED
        BY <4>1, Fewer
    <3> QED
      BY <1>2, <1>4, <2>1, <3>1, <3>2, SMT DEF Shape
  <2>2. CASE c \in Strays
    BY <1>1, <1>2, <1>4, <2>2, Zenon DEF history, Shape
  <2> QED
    BY <1>2, <2>1, <2>2
<1>14. Shape'
  BY <1>1, <1>4, <1>8, <1>11, <1>13 DEF Shape
<1>15. Frame(p)
  BY <1>1, <1>8, <1>11, <1>13, Zenon DEF Frame
<1>16. /\ call'[p].op = call[p].op
       /\ c \in Objects => call'[p].at = "init"
       /\ c \in Strays => /\ call'[p].at = call[p].at /\ call'[p].def = call[p].def
                          /\ call'[p].code = call[p].code
                          /\ call'[p].answer = call[p].answer
  BY <1>2, <1>9, <1>11
<1>17. Fields(given[p], object[p], call'[p])
  <2>1. CASE c \in Objects
    BY <1>2, <1>4, <1>16, <2>1 DEF Fields, Ok
  <2>2. CASE c \in Strays
    BY <1>4, <1>16, <2>2 DEF Fields, Ok
  <2> QED
    BY <1>2, <2>1, <2>2
<1>18. InMap(given[p], object[p], call'[p], sim)
  <2>1. CASE c \in Objects
    <3>1. p = c /\ call'[p].op \in {"construct", "start"} /\ call'[p].at = "init"
      BY <1>2, <1>5, <1>16, <2>1
    <3>2. ~object[p].started
      BY <1>17, <3>1 DEF Fields
    <3>3. call[p].op = "start" => SameFns(object[p].systems, sim.systems)
      BY <1>1, <1>4, <1>7, <3>1 DEF Fields
    <3> QED
      BY <1>7, <1>16, <3>1, <3>2, <3>3 DEF InMap, Ok
  <2>2. CASE c \in Strays
    BY <1>7, <2>2 DEF InMap
  <2> QED
    BY <1>2, <2>1, <2>2
<1>19. ~sim.stray => okSteps'[p] + HasRun(call'[p]) <= sim.steps
  <2> SUFFICES ASSUME c \in Objects PROVE okSteps'[p] + HasRun(call'[p]) <= sim.steps
    BY <1>2, <1>7
  <2>1. call'[p].at = "init" /\ okSteps'[p] = 0
    BY <1>13, <1>16
  <2>2. HasRun(call'[p]) = 0
    BY <2>1 DEF HasRun, Ok
  <2> QED
    BY <1>7, <2>1, <2>2, SMT
<1>20. Cardinality(Pending(p)') <= okSteps'[p] + raisedSteps'[p] + Coming(call'[p])
  <2> DEFINE P == Pending(p)
             Q == Pending(p)'
             U == Unbegun(p)
  <2>1. P \in SUBSET Strays /\ Q \in SUBSET U /\ U \in SUBSET P /\ U \in SUBSET Strays
    BY <1>12 DEF Pending
  <2>2. /\ Cardinality(P) \in Nat /\ Cardinality(Q) \in Nat /\ Cardinality(U) \in Nat
        /\ Cardinality(Q) <= Cardinality(U) /\ Cardinality(U) <= Cardinality(P)
    BY <2>1, Fewer
  <2>3. StepsOf(p) + Cardinality(P) <= okSteps[p] + raisedSteps[p] + Coming(call[p])
    BY <1>2 DEF IInv, Good, Local
  <2> HIDE DEF P, Q, U
  <2>4. CASE c \in Objects
    <3>1. okSteps'[p] = 0 /\ raisedSteps'[p] = Cardinality(U)
      BY <1>13, <2>4 DEF U
    <3>2. call'[p] \in CallsType
      BY <1>2, <1>11
    <3>3. Cardinality(Q) <= okSteps'[p] + raisedSteps'[p] + Coming(call'[p])
      BY <2>2, <3>1, <3>2, Arithmetic, SMT
    <3> QED
      BY <3>3 DEF Q
  <2>5. CASE c \in Strays
    <3>1. okSteps'[p] = okSteps[p] /\ raisedSteps'[p] = raisedSteps[p]
      BY <1>13, <2>5
    <3>2. Coming(call'[p]) = Coming(call[p])
      BY <1>16, <2>5 DEF Coming
    <3>3. StepsOf(p) \in Nat
      BY <1>4, SMT DEF StepsOf, Shape, Sound, SimsType
    <3>4. okSteps[p] \in Nat /\ raisedSteps[p] \in Nat /\ Coming(call[p]) \in {0, 1}
      BY <1>4, Arithmetic
    <3>5. Cardinality(Q) <= okSteps[p] + raisedSteps[p] + Coming(call[p])
      BY <2>2, <2>3, <3>3, <3>4, SMT
    <3> QED
      BY <3>1, <3>2, <3>5 DEF Q
  <2> QED
    BY <1>2, <2>4, <2>5
<1>21. Local(p)'
  <2>1. p \in Held' /\ sims'[p] = sim /\ sim.steps = 0 /\ UNCHANGED <<given, object>>
    BY <1>1, <1>7, <1>8
  <2>2. StepsOf(p)' = 0
    BY <2>1 DEF StepsOf
  <2>3. Cardinality(Pending(p)') \in Nat
    BY <1>12, Fewer DEF Unbegun
  <2>4. StepsOf(p)' + Cardinality(Pending(p)') <= okSteps'[p] + raisedSteps'[p] + Coming(call'[p])
    <3> DEFINE n == Cardinality(Pending(p)')
    <3>1. 0 + n = n
      <4> HIDE DEF n
      <4> QED
        BY <2>3, SMT DEF n
    <3> QED
      BY <1>20, <2>2, <3>1
  <2> QED
    BY <1>17, <1>18, <1>19, <2>1, <2>4, Zenon DEF Local, Present
<1> QED
  BY <1>12, <1>14, <1>15, <1>21 DEF Keeps, Good, p

LEMMA LockedSim ==
  ASSUME NEW sim, Sound(sim), NEW n \in Nat
  PROVE  LET locked == [sim EXCEPT !.locked = TRUE, !.steps = n] IN
           /\ Sound(locked)
           /\ locked.steps = n /\ locked.entities = sim.entities
           /\ locked.systems = sim.systems /\ locked.stray = sim.stray
<1>1. sim \in SimsType /\ AllSet(sim.entities) /\ AllSet(sim.systems)
  BY DEF Sound
<1> DEFINE locked == [sim EXCEPT !.locked = TRUE, !.steps = n]
<1>2. /\ locked \in SimsType
      /\ locked.steps = n /\ locked.entities = sim.entities
      /\ locked.systems = sim.systems /\ locked.stray = sim.stray
      /\ locked.locked
  BY <1>1, Zenon DEF SimsType
<1> HIDE DEF locked
<1>3. Sound(locked)
  BY <1>1, <1>2 DEF Sound
<1> QED
  BY <1>2, <1>3 DEF locked

(* What a stray's step adds it no longer may bring; an object's own it     *)
(* will know of.                                                           *)
LEMMA LockKeeps ==
  ASSUME IInv, NEW c \in Callers, Lock(c)
  PROVE  Keeps(Of(c))
<1> DEFINE p == Of(c)
           new == [call[c] EXCEPT !.at = "run"]
           n == IF call[c].intact THEN sims[p].steps + 1 ELSE sims[p].steps
           locked == [sims[p] EXCEPT !.locked = TRUE, !.steps = n]
<1>1. /\ call[c].at = "lock"
      /\ call' = [call EXCEPT ![c] = new]
      /\ UNCHANGED <<given, object, restarts, excused, okSteps, raisedSteps>>
      /\ \/ p \in Held /\ sims' = [sims EXCEPT ![p] = locked]
         \/ ~call[c].intact /\ sims' = sims
  BY Zenon DEF Lock, Goto, history
<1>2. /\ p \in Objects /\ (c \in Objects => p = c) /\ (c \in Objects \/ c \in Strays)
      /\ (c \in Strays <=> c \notin Objects) /\ p \in Callers /\ Of(p) = p
  BY CallersOf
<1>3. call[c] \in CallsType /\ Staged(given[p], p \in Held, call[c])
  BY KnownCaller
<1>4. /\ Shape
      /\ call[p] \in CallsType /\ okSteps[p] \in Nat /\ raisedSteps[p] \in Nat
      /\ Fields(given[p], object[p], call[p])
      /\ p \in Held => InMap(given[p], object[p], call[p], sims[p]) /\ Sound(sims[p])
      /\ Present(object[p], call[p], p \in Held, excused[p])
  BY <1>2, Known
<1>5. call[c].op = "step" /\ (call[c].intact => p \in Held)
  BY <1>1, <1>3 DEF Staged
<1>6. /\ new \in CallsType
      /\ new.at = "run"
      /\ new.op = call[c].op /\ new.def = call[c].def /\ new.intact = call[c].intact
      /\ new.code = call[c].code /\ new.answer = call[c].answer
  <2>1. "run" \in Stages
    BY DEF Stages
  <2> QED
    BY <1>3, <2>1, MovedCall
<1>7. /\ call' \in [Callers -> CallsType]
      /\ call'[c] = new
      /\ \A d \in Callers \ {c} : call'[d] = call[d]
  <2> HIDE DEF new
  <2> QED
    BY <1>1, <1>4, <1>6, Zenon DEF Shape
<1>8. p \in Held => sims[p].steps \in Nat /\ n \in Nat
  BY <1>4, SMT DEF Sound, SimsType
<1>9. /\ Held' = Held
      /\ \A x : x # p /\ x \in Held => sims'[x] = sims[x]
      /\ p \in Held => /\ Sound(sims'[p])
                       /\ sims'[p].entities = sims[p].entities
                       /\ sims'[p].systems = sims[p].systems
                       /\ sims'[p].stray = sims[p].stray
                       /\ sims'[p].steps = n
  <2>1. CASE p \in Held /\ sims' = [sims EXCEPT ![p] = locked]
    <3>1. /\ Sound(locked)
          /\ locked.steps = n /\ locked.entities = sims[p].entities
          /\ locked.systems = sims[p].systems /\ locked.stray = sims[p].stray
      <4> HIDE DEF n, p
      <4> QED
        BY <1>4, <1>8, <2>1, LockedSim
    <3>2. Held' = Held /\ sims'[p] = locked /\ \A x \in Held : x # p => sims'[x] = sims[x]
      <4> HIDE DEF locked
      <4> QED
        BY <2>1, Zenon DEF Held
    <3> HIDE DEF locked
    <3> QED
      BY <3>1, <3>2
  <2>2. CASE ~call[c].intact /\ sims' = sims
    BY <1>4, <2>2, Zenon DEF Held
  <2> QED
    BY <1>1, <2>1, <2>2
<1> HIDE DEF new, n, locked, p
<1>10. Shape'
  <2>1. \A x \in Held' : Sound(sims'[x])
    BY <1>4, <1>9 DEF Shape
  <2> QED
    BY <1>1, <1>4, <1>7, <1>9, <2>1 DEF Shape
<1>11. Frame(p)
  <2>1. \A d \in Callers : Of(d) # p => call'[d] = call[d]
    BY <1>7 DEF p
  <2> QED
    BY <1>1, <1>9, <2>1, Zenon DEF Frame
<1>12. AllStaged(p)'
  <2>1. Staged(given[p], p \in Held, new)
    BY <1>3, <1>5, <1>6 DEF Staged
  <2>2. AllStaged(p)
    BY <1>2 DEF IInv, Good
  <2> QED
    BY <1>1, <1>7, <1>9, <2>1, <2>2, Zenon DEF AllStaged
<1>13. /\ call'[p].op = call[p].op /\ call'[p].def = call[p].def
       /\ call'[p].answer = call[p].answer /\ call'[p].code = call[p].code
       /\ call'[p].intact = call[p].intact
       /\ c \in Objects => call[p].at = "lock" /\ call'[p].at = "run"
       /\ c \in Strays => call'[p] = call[p]
  BY <1>1, <1>2, <1>6, <1>7
<1>14. Fields(given[p], object[p], call'[p])
  <2>1. CASE c \in Objects
    BY <1>4, <1>13, <2>1 DEF Fields, Ok
  <2>2. CASE c \in Strays
    BY <1>4, <1>13, <2>2
  <2> QED
    BY <1>2, <2>1, <2>2
<1>15. p \in Held => InMap(given[p], object[p], call'[p], sims'[p])
  <2> SUFFICES ASSUME p \in Held PROVE InMap(given[p], object[p], call'[p], sims'[p])
    OBVIOUS
  <2>1. /\ InMap(given[p], object[p], call[p], sims[p])
        /\ sims'[p].entities = sims[p].entities
        /\ sims'[p].systems = sims[p].systems
        /\ sims'[p].stray = sims[p].stray
    BY <1>4, <1>9
  <2>2. CASE c \in Objects
    BY <1>13, <2>1, <2>2 DEF InMap, Ok
  <2>3. CASE c \in Strays
    BY <1>13, <2>1, <2>3 DEF InMap
  <2> QED
    BY <1>2, <2>2, <2>3
<1>16. Present(object[p], call'[p], p \in Held, excused[p])
  <2>1. CASE c \in Objects
    BY <1>4, <1>13, <2>1 DEF Present, Registered, Ok
  <2>2. CASE c \in Strays
    BY <1>4, <1>13, <2>2
  <2> QED
    BY <1>2, <2>1, <2>2
<1>17. Local(p)
  BY <1>2 DEF IInv, Good
<1>18. ASSUME p \in Held, ~sims[p].stray
       PROVE  okSteps[p] + HasRun(call'[p]) <= n
  <2>1. okSteps[p] + HasRun(call[p]) <= sims[p].steps
    BY <1>17, <1>18 DEF Local
  <2>2. sims[p].steps <= n /\ n \in Nat /\ sims[p].steps \in Nat
    BY <1>8, <1>18, SMT DEF n
  <2>3. CASE c \in Objects
    <3>1. HasRun(call[p]) = 0 /\ HasRun(call'[p]) = 1
      BY <1>2, <1>5, <1>13, <2>3 DEF HasRun, Ok
    <3>2. call[c].intact
      BY <1>2, <1>4, <1>13, <1>18, <2>3 DEF InMap
    <3>3. n = sims[p].steps + 1
      BY <3>2 DEF n
    <3> QED
      BY <1>4, <2>1, <2>2, <3>1, <3>3, SMT
  <2>4. CASE c \in Strays
    <3>1. HasRun(call'[p]) = HasRun(call[p]) /\ HasRun(call[p]) \in {0, 1}
      BY <1>4, <1>13, <2>4, Arithmetic
    <3> QED
      BY <1>4, <2>1, <2>2, <3>1, SMT
  <2> QED
    BY <1>2, <2>3, <2>4
<1>19. StepsOf(p)' + Cardinality(Pending(p)') <= okSteps[p] + raisedSteps[p] + Coming(call'[p])
  <2> DEFINE P == Pending(p)
             Q == Pending(p)'
             i == StepsOf(p)
             j == StepsOf(p)'
  <2>1. /\ i \in Nat /\ j \in Nat
        /\ j = i \/ (call[c].intact /\ j = i + 1)
    <3>1. CASE p \in Held
      <4>1. i = sims[p].steps /\ j = n /\ i \in Nat /\ n \in Nat
        BY <1>8, <1>9, <3>1 DEF StepsOf
      <4>2. n = i \/ (call[c].intact /\ n = i + 1)
        BY <4>1 DEF n
      <4> QED
        BY <4>1, <4>2
    <3>2. CASE p \notin Held
      BY <1>9, <3>2 DEF StepsOf
    <3> QED
      BY <3>1, <3>2
  <2>2. \A s \in Strays : s # c => call'[s] = call[s]
    BY <1>7, CallersOf
  <2>3. ~Pends(new) /\ (call[c].intact => Pends(call[c]))
    BY <1>1, <1>5, <1>6 DEF Pends
  <2>4. P \in SUBSET Strays /\ Q \in SUBSET P
    BY <1>7, <2>2, <2>3, Zenon DEF Pending
  <2>5. c \in Strays /\ call[c].intact => c \in P \ Q
    BY <1>7, <2>3 DEF Pending, p
  <2>6. i + Cardinality(P) <= okSteps[p] + raisedSteps[p] + Coming(call[p])
    BY <1>17 DEF Local
  <2>7. /\ Cardinality(P) \in Nat /\ Cardinality(Q) \in Nat
        /\ Cardinality(Q) <= Cardinality(P)
        /\ c \in Strays /\ call[c].intact => Cardinality(Q) < Cardinality(P)
    <3> HIDE DEF P, Q
    <3> QED
      BY <2>4, <2>5, Fewer
  <2>8. okSteps[p] \in Nat /\ raisedSteps[p] \in Nat
    BY <1>4
  <2> HIDE DEF P, Q, i, j
  <2>9. CASE c \in Objects
    <3>1. Coming(call[p]) = 0 /\ Coming(call'[p]) = 1
      BY <1>2, <1>5, <1>13, <2>9 DEF Coming
    <3>2. j + Cardinality(Q) <= okSteps[p] + raisedSteps[p] + 1
      BY <2>1, <2>6, <2>7, <2>8, <3>1, SMT
    <3> QED
      BY <3>1, <3>2 DEF Q, j
  <2>10. CASE c \in Strays
    <3>1. Coming(call[p]) = Coming(call'[p]) /\ Coming(call[p]) \in {0, 1}
      BY <1>4, <1>13, <2>10, Arithmetic
    <3>2. j + Cardinality(Q) <= okSteps[p] + raisedSteps[p] + Coming(call[p])
      BY <2>1, <2>6, <2>7, <2>8, <2>10, <3>1, SMT
    <3> QED
      BY <3>1, <3>2 DEF Q, j
  <2> QED
    BY <1>2, <2>9, <2>10
<1>20. Local(p)'
  BY <1>1, <1>9, <1>14, <1>15, <1>16, <1>18, <1>19, Zenon DEF Local
<1> QED
  BY <1>10, <1>11, <1>12, <1>20 DEF Keeps, Good, p

(* A simulation is dropped: the object is told, or a stray's answer was    *)
(* lost.                                                                   *)
LEMMA EraseKeeps ==
  ASSUME IInv, NEW c \in Callers, Erase(c)
  PROVE  Keeps(Of(c))
<1> DEFINE p == Of(c)
           new == Outcome(c, "OK", NoAnswer)
<1>1. /\ call[c].at = "erase"
      /\ sims' = [x \in Held \ {p} |-> sims[x]]
      /\ Destroys(c, new)
      /\ excused' = [excused EXCEPT ![p] = @ \/ c \in Strays]
      /\ UNCHANGED <<given, object, restarts, okSteps, raisedSteps>>
  BY Zenon DEF Erase
<1>2. /\ p \in Objects /\ (c \in Objects => p = c) /\ (c \in Objects \/ c \in Strays)
      /\ (c \in Strays <=> c \notin Objects) /\ p \in Callers /\ Of(p) = p
  BY CallersOf
<1>3. call[c] \in CallsType /\ Staged(given[p], p \in Held, call[c])
  BY KnownCaller
<1>4. /\ Shape
      /\ call[p] \in CallsType /\ okSteps[p] \in Nat /\ raisedSteps[p] \in Nat
      /\ Fields(given[p], object[p], call[p])
  BY <1>2, Known
<1>5. call[c].op = "stop"
  BY <1>1, <1>3 DEF Staged
<1>6. /\ Held' = Held \ {p}
      /\ \A x \in Held' : sims'[x] = sims[x]
  BY <1>1, Zenon DEF Held
<1>7. /\ new \in CallsType
      /\ c \in Objects => new.at = "answered" /\ new.op = "stop" /\ new.code = "OK"
      /\ c \in Strays => new = Idle
  <2>1. CASE c \in Objects
    <3>1. new = Answered("stop", "OK", NoAnswer) /\ "stop" \in Ops /\ "OK" \in Codes
      BY <1>5, <2>1 DEF Outcome, Ops, Codes
    <3> HIDE DEF new
    <3> QED
      BY <1>2, <2>1, <3>1, Constants, AnsweredCall
  <2>2. CASE c \in Strays
    BY <1>2, <2>2, Constants DEF Outcome
  <2> QED
    BY <1>2, <2>1, <2>2
<1> HIDE DEF new, p
<1>8. Staged(given[p], p \in Held', new) /\ ~Pends(new)
  <2>1. CASE c \in Objects
    BY <1>7, <2>1 DEF Staged, Pends
  <2>2. CASE c \in Strays
    BY <1>7, <2>2, Constants DEF Staged, Pends
  <2> QED
    BY <1>2, <2>1, <2>2
<1>9. /\ call' \in [Callers -> CallsType]
      /\ call'[c] = new
      /\ \A d \in Callers : Of(d) # p => call'[d] = call[d]
      /\ \A d \in Callers \ {c} :
           /\ call'[d].at = call[d].at /\ call'[d].op = call[d].op
           /\ call'[d].def = call[d].def /\ call'[d].code = call[d].code
           /\ call'[d].answer = call[d].answer
  BY <1>1, <1>4, <1>7, DestroysCalls DEF p
<1>10. /\ AllStaged(p)'
       /\ Pending(p)' \subseteq Unbegun(p)
       /\ Unbegun(p) \subseteq Pending(p)
  BY <1>1, <1>7, <1>8, DestroysStaged DEF p
<1>11. /\ excused' \in [Objects -> BOOLEAN]
       /\ \A o \in Objects \ {p} : excused'[o] = excused[o]
       /\ c \in Strays => excused'[p]
  BY <1>1, <1>2, <1>4, Zenon DEF Shape
<1>12. Shape'
  BY <1>1, <1>4, <1>6, <1>9, <1>11 DEF Shape
<1>13. Frame(p)
  BY <1>1, <1>6, <1>9, <1>11, Zenon DEF Frame
<1>14. /\ c \in Objects => call'[p] = new /\ call[p].op = "stop"
       /\ c \in Strays => /\ call'[p].at = call[p].at /\ call'[p].def = call[p].def
                          /\ call'[p].op = call[p].op
                          /\ call'[p].code = call[p].code
                          /\ call'[p].answer = call[p].answer
  BY <1>2, <1>5, <1>9
<1>15. Fields(given[p], object[p], call'[p])
  <2>1. CASE c \in Objects
    BY <1>4, <1>7, <1>14, <2>1 DEF Fields, Ok
  <2>2. CASE c \in Strays
    BY <1>4, <1>14, <2>2 DEF Fields, Ok
  <2> QED
    BY <1>2, <2>1, <2>2
<1>16. Present(object[p], call'[p], p \in Held', excused'[p])
  <2>1. CASE c \in Objects
    BY <1>7, <1>14, <2>1 DEF Present, Ok
  <2>2. CASE c \in Strays
    BY <1>11, <2>2 DEF Present
  <2> QED
    BY <1>2, <2>1, <2>2
<1>17. Coming(call'[p]) >= Coming(call[p])
  <2>1. CASE c \in Objects
    <3>1. Coming(call[p]) = 0
      BY <1>14, <2>1 DEF Coming
    <3>2. Coming(call'[p]) \in {0, 1}
      BY <1>2, <1>9, Arithmetic
    <3> QED
      BY <3>1, <3>2, SMT
  <2>2. CASE c \in Strays
    <3>1. Coming(call'[p]) = Coming(call[p]) /\ Coming(call[p]) \in {0, 1}
      BY <1>4, <1>14, <2>2, Arithmetic DEF Coming
    <3> QED
      BY <3>1, SMT
  <2> QED
    BY <1>2, <2>1, <2>2
<1>18. StepsOf(p)' + Cardinality(Pending(p)') <= okSteps[p] + raisedSteps[p] + Coming(call'[p])
  <2> DEFINE P == Pending(p)
             Q == Pending(p)'
  <2>1. P \in SUBSET Strays /\ Q \in SUBSET P
    BY <1>10 DEF Pending
  <2>2. /\ Cardinality(P) \in Nat /\ Cardinality(Q) \in Nat
        /\ Cardinality(Q) <= Cardinality(P)
    <3> HIDE DEF P, Q
    <3> QED
      BY <2>1, Fewer
  <2>3. StepsOf(p) + Cardinality(P) <= okSteps[p] + raisedSteps[p] + Coming(call[p])
    BY <1>2 DEF IInv, Good, Local
  <2>4. StepsOf(p) \in Nat
    BY <1>4, SMT DEF StepsOf, Shape, Sound, SimsType
  <2>5. /\ okSteps[p] \in Nat /\ raisedSteps[p] \in Nat
        /\ Coming(call[p]) \in {0, 1} /\ Coming(call'[p]) \in {0, 1}
    BY <1>2, <1>4, <1>9, Arithmetic
  <2>6. StepsOf(p)' = 0
    BY <1>6 DEF StepsOf
  <2> HIDE DEF P, Q
  <2>7. 0 + Cardinality(Q) <= okSteps[p] + raisedSteps[p] + Coming(call'[p])
    BY <1>17, <2>2, <2>3, <2>4, <2>5, SMT
  <2> QED
    BY <2>6, <2>7 DEF Q
<1>19. Local(p)'
  <2>1. p \notin Held'
    BY <1>6
  <2> QED
    BY <1>1, <1>15, <1>16, <1>18, <2>1, Zenon DEF Local
<1> QED
  BY <1>10, <1>12, <1>13, <1>19 DEF Keeps, Good, p


-----------------------------------------------------------------------------
(* What is lost.                                                           *)

(* A call that is answered is given up: nothing is left of it.             *)
LEMMA GiveUpAnsweredKeeps ==
  ASSUME IInv, NEW p \in Objects, GiveUp(p), call[p].at = "answered",
         call' = [call EXCEPT ![p] = Idle]
  PROVE  Keeps(p)
<1> DEFINE e == excused[p] \/ Ok(call[p], "stop")
           b == IF call[p].op = "step" THEN raisedSteps[p] + 1 ELSE raisedSteps[p]
<1>1. /\ excused' = [excused EXCEPT ![p] = e]
      /\ raisedSteps' = [raisedSteps EXCEPT ![p] = b]
      /\ UNCHANGED <<given, object, sims, restarts, okSteps>>
  BY Zenon DEF GiveUp, Returned, IsAnswered, IsAt, Ok
<1>2. /\ Shape
      /\ object[p] \in Object /\ call[p] \in CallsType
      /\ excused[p] \in BOOLEAN /\ okSteps[p] \in Nat /\ raisedSteps[p] \in Nat
      /\ Fields(given[p], object[p], call[p])
      /\ p \in Held => InMap(given[p], object[p], call[p], sims[p])
      /\ Present(object[p], call[p], p \in Held, excused[p])
  BY Known
<1>3. object' = [object EXCEPT ![p] = object[p]] /\ okSteps' = [okSteps EXCEPT ![p] = okSteps[p]]
  BY <1>1, <1>2, Zenon DEF Shape
<1>4. e \in BOOLEAN /\ b \in Nat
  BY <1>2, SMT
<1>5. /\ Staged(given[p], p \in Held, Idle)
      /\ Fields(given[p], object[p], Idle)
      /\ p \in Held => InMap(given[p], object[p], Idle, sims[p])
      /\ Present(object[p], Idle, p \in Held, e)
  BY <1>2, Constants DEF Staged, Fields, InMap, Present, Registered, Ok
<1>6. HasRun(Idle) = 0 /\ Coming(Idle) = 0
  BY Constants DEF HasRun, Coming
<1>7. Coming(call[p]) = IF call[p].op = "step" THEN 1 ELSE 0
  BY DEF Coming
<1>8. /\ okSteps[p] + HasRun(Idle) <= okSteps[p] + HasRun(call[p])
      /\ okSteps[p] + b + Coming(Idle) >= okSteps[p] + raisedSteps[p] + Coming(call[p])
  BY <1>2, <1>6, <1>7, Arithmetic, SMT
<1>9. /\ UNCHANGED <<given, sims, restarts>>
      /\ Idle \in CallsType /\ object[p] \in Object /\ okSteps[p] \in Nat
  BY <1>1, <1>2, Constants
<1>10. /\ excused' = [excused EXCEPT ![p] = e]
       /\ raisedSteps' = [raisedSteps EXCEPT ![p] = b]
       /\ call' = [call EXCEPT ![p] = Idle]
  BY <1>1
<1> HIDE DEF e, b
<1> QED
  BY <1>3, <1>4, <1>5, <1>8, <1>9, <1>10, OwnSteps

(* A call under way becomes a stray.  A step of it that is to come is one  *)
(* that raised.                                                            *)
LEMMA GiveUpSentKeeps ==
  ASSUME IInv, NEW p \in Objects, GiveUp(p), call[p].at # "answered",
         NEW s \in Strays, Of(s) = p, IsIdle(s),
         call' = [call EXCEPT ![p] = Idle, ![s] = call[p]]
  PROVE  Keeps(p)
<1> DEFINE b == IF call[p].op = "step" THEN raisedSteps[p] + 1 ELSE raisedSteps[p]
<1>1. /\ excused' = [excused EXCEPT ![p] = @ \/ Returned(p, "stop")]
      /\ raisedSteps' = [raisedSteps EXCEPT ![p] = b]
      /\ UNCHANGED <<given, object, sims, restarts, okSteps>>
  BY Zenon DEF GiveUp
<1>2. /\ Shape
      /\ p \in Callers
      /\ object[p] \in Object /\ call[p] \in CallsType
      /\ excused[p] \in BOOLEAN /\ okSteps[p] \in Nat /\ raisedSteps[p] \in Nat
      /\ Staged(given[p], p \in Held, call[p])
      /\ Fields(given[p], object[p], call[p])
      /\ p \in Held => InMap(given[p], object[p], call[p], sims[p])
      /\ Present(object[p], call[p], p \in Held, excused[p])
  BY Known
<1>3. s \in Callers /\ s # p /\ p \notin Strays
  BY CallersOf
<1>4. /\ call' \in [Callers -> CallsType]
      /\ call'[p] = Idle /\ call'[s] = call[p]
      /\ \A c \in Callers \ {p, s} : call'[c] = call[c]
  BY <1>2, <1>3, Constants, Zenon DEF Shape
<1>5. /\ excused' = excused
      /\ raisedSteps' \in [Objects -> Nat] /\ raisedSteps'[p] = b
      /\ \A o \in Objects \ {p} : raisedSteps'[o] = raisedSteps[o]
  <2>1. (excused[p] \/ Returned(p, "stop")) = excused[p]
    BY <1>2, Zenon DEF Returned, IsAnswered, IsAt
  <2>2. excused' = excused
    BY <1>1, <1>2, <2>1, Zenon DEF Shape
  <2>3. b \in Nat
    BY <1>2, SMT
  <2> HIDE DEF b
  <2> QED
    BY <1>1, <1>2, <2>2, <2>3, SMT DEF Shape
<1>6. Held' = Held
  BY <1>1, Zenon DEF Held
<1>7. Shape'
  BY <1>1, <1>2, <1>4, <1>5, <1>6 DEF Shape
<1>8. Frame(p)
  <2>1. \A c \in Callers : Of(c) # p => call'[c] = call[c]
    BY <1>4, CallersOf
  <2> QED
    BY <1>1, <1>5, <1>6, <2>1 DEF Frame
<1>9. AllStaged(p)'
  <2>1. Staged(given[p], p \in Held, Idle)
    BY Constants DEF Staged
  <2>2. AllStaged(p)
    BY DEF IInv, Good
  <2> QED
    BY <1>1, <1>2, <1>4, <1>6, <2>1, <2>2, Zenon DEF AllStaged
<1>10. /\ Fields(given[p], object[p], Idle)
       /\ p \in Held => InMap(given[p], object[p], Idle, sims[p])
       /\ Present(object[p], Idle, p \in Held, excused[p])
  BY <1>2, Constants DEF Fields, InMap, Present, Registered, Ok
<1>11. HasRun(Idle) = 0 /\ Coming(Idle) = 0
  BY Constants DEF HasRun, Coming
<1>12. Local(p)
  BY DEF IInv, Good
<1>13. p \in Held => sims[p].steps \in Nat
  BY <1>2, SMT DEF Shape, Sound, SimsType
<1>14. p \in Held /\ ~sims[p].stray => okSteps[p] + HasRun(Idle) <= sims[p].steps
  BY <1>2, <1>11, <1>12, <1>13, Arithmetic, SMT DEF Local
<1>15. StepsOf(p) + Cardinality(Pending(p)') <= okSteps[p] + b + Coming(Idle)
  <2> DEFINE P == Pending(p)
             Q == Pending(p)'
  <2>1. IsFiniteSet(P) /\ Cardinality(P) \in Nat
    BY PendingFinite
  <2>2. Q = IF Pends(call[p]) THEN P \cup {s} ELSE P
    <3>1. ~Pends(call[s])
      BY <1>3, KnownCaller DEF Pends, IsIdle
    <3>2. \A t \in Strays \ {s} : call'[t] = call[t]
      BY <1>3, <1>4, CallersOf
    <3>3. \A t \in Strays : Pends(call'[t]) <=> Pends(call[t]) \/ (t = s /\ Pends(call[p]))
      BY <1>4, <3>1, <3>2
    <3>4. \A t : t \in Q <=> t \in P \/ (t = s /\ Pends(call[p]))
      BY <3>3, Zenon DEF Pending
    <3> HIDE DEF P, Q
    <3> QED
      BY <3>4
  <2>3. Cardinality(P \cup {s}) \in Nat /\ Cardinality(P \cup {s}) <= Cardinality(P) + 1
    <3> HIDE DEF P
    <3>1. Cardinality(P \cup {s}) = IF s \in P THEN Cardinality(P) ELSE Cardinality(P) + 1
      BY <2>1, FS_AddElement, Zenon
    <3> QED
      BY <2>1, <3>1, SMT
  <2>4. StepsOf(p) + Cardinality(P) <= okSteps[p] + raisedSteps[p] + Coming(call[p])
    BY <1>12 DEF Local
  <2>5. StepsOf(p) \in Nat
    BY <1>13 DEF StepsOf
  <2> HIDE DEF P, Q
  <2>6. CASE Pends(call[p])
    <3>1. Coming(call[p]) = 0 /\ b = raisedSteps[p] + 1
      BY <2>6 DEF Pends, Coming
    <3>2. Cardinality(Q) \in Nat /\ Cardinality(Q) <= Cardinality(P) + 1
      BY <2>2, <2>3, <2>6
    <3> QED
      BY <1>2, <1>11, <2>1, <2>4, <2>5, <3>1, <3>2, SMT DEF Q
  <2>7. CASE ~Pends(call[p])
    <3>1. Cardinality(Q) = Cardinality(P)
      BY <2>2, <2>7
    <3>2. b \in Nat /\ b >= raisedSteps[p] + Coming(call[p]) /\ Coming(call[p]) \in {0, 1}
      <4>1. CASE call[p].op = "step"
        BY <1>2, <4>1, Arithmetic, SMT
      <4>2. CASE call[p].op # "step"
        <5>1. Coming(call[p]) = 0
          BY <4>2 DEF Coming
        <5> QED
          BY <1>2, <4>2, <5>1, SMT
      <4> QED
        BY <4>1, <4>2
    <3> HIDE DEF b
    <3> QED
      BY <1>2, <1>11, <2>1, <2>4, <2>5, <3>1, <3>2, SMT DEF Q
  <2> QED
    BY <2>6, <2>7
<1>16. Local(p)'
  <2>1. StepsOf(p)' = StepsOf(p)
    BY <1>1, <1>6 DEF StepsOf
  <2> HIDE DEF b
  <2> QED
    BY <1>1, <1>4, <1>5, <1>6, <1>10, <1>14, <1>15, <2>1, Zenon DEF Local
<1> QED
  BY <1>7, <1>8, <1>9, <1>16 DEF Keeps, Good

LEMMA GiveUpKeeps ==
  ASSUME IInv, NEW p \in Objects, GiveUp(p)
  PROVE  Keeps(p)
<1>1. CASE call[p].at = "answered" /\ call' = [call EXCEPT ![p] = Idle]
  BY <1>1, GiveUpAnsweredKeeps
<1>2. CASE /\ call[p].at # "answered"
           /\ \E s \in Strays : /\ Of(s) = p /\ IsIdle(s)
                                /\ call' = [call EXCEPT ![p] = Idle, ![s] = call[p]]
  BY <1>2, GiveUpSentKeeps
<1> QED
  BY <1>1, <1>2 DEF GiveUp

(* A restart leaves nothing to agree with.                                 *)
LEMMA RestartKeeps ==
  ASSUME IInv, Restart
  PROVE  IInv'
<1>1. /\ restarts < MaxRestarts /\ restarts' = restarts + 1
      /\ sims' = [x \in {} |-> 0]
      /\ excused' = [o \in Objects |-> TRUE]
      /\ UNCHANGED <<given, object, okSteps, raisedSteps>>
  BY Zenon DEF Restart
<1>2. Held' = {}
  BY <1>1 DEF Held
<1>3. restarts' \in 0 .. MaxRestarts
  BY <1>1, BoundsAssumption, SMT DEF IInv, Shape
<1>4. ASSUME NEW c \in Callers
      PROVE  /\ call'[c] \in CallsType
             /\ c \in Strays => call'[c] = Idle
             /\ c \notin Strays =>
                  \/ call[c].at \in {"none", "sent", "answered"} /\ call'[c] = call[c]
                  \/ /\ call[c].at \notin {"none", "sent", "answered"}
                     /\ call'[c].at = "answered" /\ call'[c].op = call[c].op
                     /\ call'[c].code = "UNAVAILABLE"
  <2> DEFINE failed == Answered(call[c].op, "UNAVAILABLE", NoAnswer)
  <2>1. call'[c] = IF c \in Strays THEN Idle
                   ELSE IF call[c].at \in {"none", "sent", "answered"} THEN call[c]
                   ELSE failed
    BY Zenon DEF Restart
  <2>2. call[c] \in CallsType /\ call[c].op \in Ops
    BY KnownCaller, SMT DEF CallsType
  <2>3. /\ failed \in CallsType /\ failed.at = "answered"
        /\ failed.op = call[c].op /\ failed.code = "UNAVAILABLE"
    <3>1. "UNAVAILABLE" \in Codes
      BY DEF Codes
    <3> QED
      BY <2>2, <3>1, Constants, AnsweredCall
  <2> HIDE DEF failed
  <2> QED
    BY <2>1, <2>2, <2>3, Constants
<1>5. call' \in [Callers -> CallsType]
  <2>1. DOMAIN call' = Callers /\ call' = [c \in Callers |-> call'[c]]
    BY Zenon DEF Restart
  <2> QED
    BY <1>4, <2>1, Zenon
<1>6. Shape'
  <2>1. excused' \in [Objects -> BOOLEAN]
    BY <1>1, Zenon
  <2> QED
    BY <1>1, <1>2, <1>3, <1>5, <2>1, Zenon DEF IInv, Shape
<1>7. ASSUME NEW o \in Objects PROVE Good(o)'
  <2>1. /\ Fields(given[o], object[o], call[o])
        /\ call[o] \in CallsType
        /\ okSteps[o] \in Nat /\ raisedSteps[o] \in Nat
    BY Known
  <2>2. o \in Callers /\ o \notin Strays
    BY CallersOf
  <2>3. AllStaged(o)'
    <3> SUFFICES ASSUME NEW c \in Callers, Of(c) = o
                 PROVE  Staged(given[o], o \in Held', call'[c])
      BY <1>1, Zenon DEF AllStaged
    <3>1. Staged(given[o], o \in Held, call[c])
      BY KnownCaller
    <3>2. CASE c \in Strays
      BY <1>4, <3>2, Constants DEF Staged
    <3>3. CASE c \notin Strays
      BY <1>4, <3>1, <3>3 DEF Staged
    <3> QED
      BY <3>2, <3>3
  <2>4. Fields(given[o], object[o], call'[o])
    <3>1. CASE call'[o] = call[o]
      BY <2>1, <3>1
    <3>2. CASE call'[o].op = call[o].op /\ call'[o].at = "answered"
               /\ call'[o].code = "UNAVAILABLE"
      BY <2>1, <3>2 DEF Fields, Ok
    <3> QED
      BY <1>4, <2>2, <3>1, <3>2
  <2>5. Coming(call'[o]) >= Coming(call[o])
    <3>1. Coming(call[o]) \in {0, 1} /\ Coming(call'[o]) \in {0, 1}
      BY <1>4, <2>1, <2>2, Arithmetic
    <3>2. Coming(call[o]) = 1 => Coming(call'[o]) = 1
      <4>1. CASE call'[o] = call[o]
        BY <4>1
      <4>2. CASE call'[o].op = call[o].op /\ call'[o].at = "answered"
        BY <4>2 DEF Coming
      <4> QED
        BY <1>4, <2>2, <4>1, <4>2
    <3> QED
      BY <3>1, <3>2, SMT
  <2>6. Cardinality(Pending(o)') = 0 /\ StepsOf(o)' = 0
    <3>1. \A s \in Strays : ~Pends(call'[s])
      BY <1>4, CallersOf, Constants DEF Pends
    <3>2. Pending(o)' = {}
      BY <3>1, Zenon DEF Pending
    <3>3. StepsOf(o)' = 0
      BY <1>2 DEF StepsOf
    <3> QED
      BY <3>2, <3>3, FS_EmptySet
  <2>7. 0 + 0 <= okSteps[o] + raisedSteps[o] + Coming(call'[o])
    <3>1. Coming(call'[o]) \in {0, 1}
      BY <1>4, <2>2, Arithmetic
    <3> QED
      BY <2>1, <3>1, SMT
  <2>8. excused'[o] /\ o \notin Held'
    BY <1>1, <1>2
  <2>9. Present(object[o], call'[o], o \in Held', excused'[o])
    BY <2>8 DEF Present
  <2>10. Local(o)'
    BY <1>1, <2>4, <2>6, <2>7, <2>8, <2>9 DEF Local
  <2> QED
    BY <2>3, <2>10 DEF Good
<1> QED
  BY <1>6, <1>7 DEF IInv

-----------------------------------------------------------------------------
(* All together.                                                           *)

LEMMA OthersStayGood ==
  ASSUME IInv, NEW p \in Objects, Frame(p), NEW o \in Objects, o # p
  PROVE  Good(o)'
<1>1. /\ UNCHANGED given
      /\ object'[o] = object[o] /\ excused'[o] = excused[o]
      /\ okSteps'[o] = okSteps[o] /\ raisedSteps'[o] = raisedSteps[o]
      /\ (o \in Held') = (o \in Held)
      /\ o \in Held => sims'[o] = sims[o]
      /\ \A c \in Callers : Of(c) = o => call'[c] = call[c]
  BY DEF Frame
<1>2. AllStaged(o) /\ Local(o)
  BY DEF IInv, Good
<1>3. AllStaged(o)'
  BY <1>1, <1>2, Zenon DEF AllStaged
<1>4. call'[o] = call[o]
  BY <1>1, CallersOf
<1>5. Pending(o)' = Pending(o)
  <2>1. \A s \in Strays : Of(s) = o => call'[s] = call[s]
    BY <1>1, CallersOf
  <2>2. \A s : s \in Pending(o)' <=> s \in Pending(o)
    BY <2>1, Zenon DEF Pending
  <2> DEFINE P == Pending(o)
             Q == Pending(o)'
  <2> HIDE DEF P, Q
  <2>3. P = Q
    BY <2>2 DEF P, Q
  <2> QED
    BY <2>3 DEF P, Q
<1>6. StepsOf(o)' = StepsOf(o)
  BY <1>1, Zenon DEF StepsOf
<1>7. Local(o)'
  BY <1>1, <1>2, <1>4, <1>5, <1>6, Zenon DEF Local
<1> QED
  BY <1>3, <1>7 DEF Good

LEMMA HandleKeeps ==
  ASSUME IInv, NEW c \in Callers, Handle(c)
  PROVE  Keeps(Of(c))
BY CheckKeeps, ReplaceKeeps, FinishApplyKeeps, NotFoundKeeps, BindKeeps, LockKeeps,
   FinishStepKeeps, FoundKeeps, EraseKeeps, Zenon DEF Handle

LEMMA ActionsKeep ==
  ASSUME IInv, NEW p \in Objects,
         \/ Construct(p) \/ Start(p) \/ Stop(p) \/ Step(p)
         \/ \E fn \in Fns : RegisterSystem(p, fn)
         \/ ConstructReturns(p) \/ StartReturns(p) \/ StopReturns(p) \/ StepReturns(p)
         \/ GiveUp(p)
  PROVE  Keeps(p)
BY ConstructKeeps, StartKeeps, StopKeeps, StepKeeps, RegisterSystemKeeps,
   ConstructReturnsKeeps, StartReturnsKeeps, StopReturnsKeeps, StepReturnsKeeps,
   GiveUpKeeps, Zenon

LEMMA InitIInv == Init => IInv
<1> SUFFICES ASSUME Init PROVE IInv
  OBVIOUS
<1>1. <<>> \in Seq(System) /\ <<>> \in Seq(EntityDef)
  OBVIOUS
<1>2. /\ NewObject(<<>>) \in Object
      /\ ~NewObject(<<>>).built /\ ~NewObject(<<>>).started
  BY <1>1, Zenon DEF NewObject, Object
<1>3. Held = {}
  BY DEF Init, Held
<1>4. Shape
  BY <1>2, <1>3, Constants, BoundsAssumption, SMT DEF Init, Shape
<1>5. ASSUME NEW o \in Objects PROVE Good(o)
  <2>1. /\ o \in Callers
        /\ object[o] = NewObject(<<>>)
        /\ okSteps[o] = 0 /\ raisedSteps[o] = 0
        /\ \A c \in Callers : call[c] = Idle
    BY CallersOf DEF Init
  <2>2. call[o] = Idle
    BY <2>1
  <2>3. AllStaged(o)
    BY <2>1, Constants DEF AllStaged, Staged
  <2>4. Fields(given[o], object[o], Idle) /\ Present(object[o], Idle, o \in Held, excused[o])
    BY <1>2, <2>1, Constants DEF Fields, Present, Registered, Ok
  <2>5. Pending(o) = {}
    BY <2>1, CallersOf, Constants DEF Pending, Pends
  <2>6. StepsOf(o) = 0 /\ Cardinality(Pending(o)) = 0 /\ Coming(Idle) = 0
    BY <1>3, <2>5, FS_EmptySet, Constants DEF StepsOf, Coming
  <2>7. 0 + 0 <= okSteps[o] + raisedSteps[o] + Coming(Idle)
    BY <2>1, <2>6, SMT
  <2>8. o \notin Held
    BY <1>3
  <2>9. Local(o)
    BY <2>2, <2>4, <2>6, <2>7, <2>8 DEF Local
  <2> QED
    BY <2>3, <2>9 DEF Good
<1> QED
  BY <1>4, <1>5 DEF IInv

LEMMA NextIInv == IInv /\ [Next]_vars => IInv'
<1> SUFFICES ASSUME IInv, [Next]_vars PROVE IInv'
  OBVIOUS
<1>1. ASSUME NEW p \in Objects, Keeps(p) PROVE IInv'
  <2>1. \A o \in Objects : Good(o)'
    BY <1>1, OthersStayGood DEF Keeps
  <2> QED
    BY <1>1, <2>1 DEF IInv, Keeps
<1>2. CASE UNCHANGED vars
  <2>1. UNCHANGED <<given, object, call, sims, restarts, excused, okSteps, raisedSteps>>
    BY <1>2 DEF vars, history
  <2>2. Held' = Held
    BY <2>1 DEF Held
  <2>3. Shape'
    BY <2>1, <2>2, Zenon DEF IInv, Shape
  <2>4. ASSUME NEW o \in Objects
        PROVE  Good(o)'
    <3>1. Pending(o)' = Pending(o) /\ StepsOf(o)' = StepsOf(o)
      BY <2>1, <2>2 DEF Pending, StepsOf
    <3>2. AllStaged(o)' /\ Local(o)'
      BY <2>1, <2>2, <3>1, Zenon DEF IInv, Good, AllStaged, Local
    <3> QED
      BY <3>2 DEF Good
  <2> QED
    BY <2>3, <2>4 DEF IInv
<1>3. CASE Restart
  BY <1>3, RestartKeeps
<1>4. CASE \E c \in Callers : Handle(c)
  BY <1>1, <1>4, HandleKeeps, CallersOf
<1>5. CASE \E s \in Strays : Lose(s)
  BY <1>1, <1>5, LoseKeeps, CallersOf
<1> QED
  BY <1>1, <1>2, <1>3, <1>4, <1>5, ActionsKeep DEF Next

THEOREM Invariance == Spec => []IInv
BY InitIInv, NextIInv, PTL DEF Spec

(***************************************************************************)
(* The shape of the state, for any number of objects and any bounds; and   *)
(* handlers have references into what is there, or know it destroyed.      *)
(***************************************************************************)
THEOREM TypeCorrect == Spec => []TypeOK
<1>1. IInv => TypeOK
  <2> SUFFICES ASSUME IInv PROVE TypeOK
    OBVIOUS
  <2>1. ASSUME NEW c \in Callers
        PROVE  /\ call[c].op \in {"none", "construct", "start", "stop", "step"}
               /\ call[c].at \in {"none", "sent", "replace", "init", "lock", "run", "erase",
                                  "answered"}
               /\ call[c].code \in {"none", "OK", "NOT_FOUND", "ALREADY_EXISTS", "INTERNAL",
                                    "UNAVAILABLE"}
               /\ call[c].at \in {"init", "lock", "run"} /\ call[c].intact => Of(c) \in Held
    <3>1. call[c] \in CallsType /\ Staged(given[Of(c)], Of(c) \in Held, call[c])
      BY KnownCaller
    <3>2. call[c].op \in Ops /\ call[c].at \in Stages /\ call[c].code \in Codes
      BY <3>1, SMT DEF CallsType
    <3> QED
      BY <3>1, <3>2 DEF Ops, Stages, Codes, Staged
  <2>2. \A x \in Held : /\ sims[x].entities \in Seq(EntityDef)
                        /\ sims[x].systems \in Seq(System)
    BY SMT DEF IInv, Shape, Sound, SimsType
  <2> QED
    BY <2>1, <2>2 DEF IInv, Shape, Sound, TypeOK
<1> QED
  BY Invariance, <1>1, PTL

(***************************************************************************)
(* An object that says it is started is, whatever calls were given up      *)
(* before and after the engine carried them out or are under way in it     *)
(* still, unless one of them was a stop() since or the engine restarted    *)
(* (sim.py:153-181, client.py:158-172); and with its systems, unless it is *)
(* an apply that was given up that came last.                              *)
(***************************************************************************)
THEOREM StartedIsTrue == Spec => []StartedIsRegistered
<1>1. IInv => StartedIsRegistered
  <2> SUFFICES ASSUME IInv, NEW o \in Objects, object[o].started, IsIdle(o), ~excused[o]
               PROVE  /\ o \in Held
                      /\ sims[o].entities = object[o].entities
                      /\ ~sims[o].stray => Committed(o, sims[o].systems)
    BY DEF StartedIsRegistered
  <2>1. /\ given[o] \in Seq(EntityDef)
        /\ Fields(given[o], object[o], call[o])
        /\ o \in Held => InMap(given[o], object[o], call[o], sims[o])
        /\ Present(object[o], call[o], o \in Held, excused[o])
    BY Known
  <2>2. o \in Held
    BY <2>1 DEF Present, Registered, Ok, IsIdle
  <2>3. IdsOf(given[o], sims[o].entities) /\ IdsOf(given[o], object[o].entities)
    BY <2>1, <2>2 DEF InMap, Fields
  <2>4. sims[o].entities = object[o].entities
    BY <2>1, <2>3, IdsAreUnique
  <2>5. ~sims[o].stray => Commits(object[o].systems, sims[o].systems)
    BY <2>1, <2>2 DEF InMap
  <2> QED
    BY <2>2, <2>4, <2>5 DEF Committed, Commits
<1> QED
  BY Invariance, <1>1, PTL

(***************************************************************************)
(* The engine has run the steps that returned and at most those that       *)
(* raised, or were under way unasked for, besides: no call is ever handled *)
(* twice (client.py:158-172).                                              *)
(***************************************************************************)
THEOREM NoStepTwice == Spec => []StepsAtMostOnce
<1>1. IInv => StepsAtMostOnce
  <2> SUFFICES ASSUME IInv, NEW o \in Objects, object[o].started, IsIdle(o), o \in Held
               PROVE  /\ sims[o].steps <= okSteps[o] + raisedSteps[o]
                      /\ ~sims[o].stray => okSteps[o] <= sims[o].steps
    BY DEF StepsAtMostOnce
  <2>1. Local(o)
    BY DEF IInv, Good
  <2>2. /\ okSteps[o] \in Nat /\ raisedSteps[o] \in Nat
        /\ Staged(given[o], o \in Held, call[o]) /\ Sound(sims[o])
    BY Known
  <2>3. sims[o].steps \in Nat
    BY <2>2, SMT DEF Sound, SimsType
  <2>4. HasRun(call[o]) = 0 /\ Coming(call[o]) = 0
    BY <2>2 DEF Staged, IsIdle, HasRun, Coming
  <2>5. okSteps[o] + HasRun(call[o]) <= sims[o].steps \/ sims[o].stray
    BY <2>1 DEF Local
  <2>6. sims[o].steps + Cardinality(Pending(o)) <= okSteps[o] + raisedSteps[o] + Coming(call[o])
    BY <2>1 DEF Local, StepsOf
  <2> QED
    BY <2>2, <2>3, <2>4, <2>5, <2>6, PendingFinite, SMT
<1> QED
  BY Invariance, <1>1, PTL

(***************************************************************************)
(* A step that returns ran the systems the object knows to be committed,   *)
(* in their order (sim.py:247-263), whatever else of the object is under   *)
(* way in the engine, unless an apply or a stop() of that changed the      *)
(* simulation under it.                                                    *)
(***************************************************************************)
THEOREM StepsRunCommitted == Spec => StepRanCommitted
<1> DEFINE RanCommitted ==
             \A o \in Objects :
               okSteps'[o] > okSteps[o] /\ ~call[o].answer.stray =>
                 Committed(o, call[o].answer.systems)
<1>1. IInv /\ [Next]_vars => [RanCommitted]_vars
  <2> SUFFICES ASSUME IInv, [Next]_vars, NEW o \in Objects,
                      okSteps'[o] > okSteps[o], ~call[o].answer.stray
               PROVE  Committed(o, call[o].answer.systems)
    BY Zenon
  <2>1. okSteps \in [Objects -> Nat]
    BY DEF IInv, Shape
  <2>2. ~ UNCHANGED okSteps
    <3>1. okSteps[o] \in Nat
      BY <2>1
    <3> QED
      BY <3>1, SMT
  <2>3. (\E p \in Objects : StepReturns(p)) \/ (\E c \in Callers : Replace(c))
    BY <2>2, Zenon DEF Next, vars, history, Construct, Start, Stop, Step, Sends,
       RegisterSystem, ConstructReturns, StartReturns, StopReturns, GiveUp, Lose, Restart,
       Handle, Check, FinishApply, NotFound, Bind, Lock, FinishStep, Found, Erase
  <2>4. \A q \in Objects : okSteps[q] \in Nat
    BY <2>1
  <2>5. ASSUME NEW c \in Callers, Replace(c)
        PROVE  FALSE
    <3>1. c \in Objects /\ okSteps' = [okSteps EXCEPT ![c] = 0]
      BY <2>2, <2>5, Zenon DEF Replace, Forget, history
    <3> QED
      BY <2>1, <2>4, <3>1, SMT
  <2>6. PICK p \in Objects : StepReturns(p)
    BY <2>3, <2>5
  <2>7. okSteps' = [okSteps EXCEPT ![p] = IF Returned(p, "step") THEN @ + 1 ELSE @]
    BY <2>6, Zenon DEF StepReturns
  <2>8. o = p /\ Returned(o, "step")
    BY <2>7, <2>1, <2>4, SMT
  <2>9. Ok(call[o], "step")
    BY <2>8 DEF Returned, IsAnswered, IsAt, Ok
  <2>10. Fields(given[o], object[o], call[o])
    BY Known
  <2> QED
    BY <2>9, <2>10 DEF Fields, Commits, Committed
<1> QED
  BY <1>1, Invariance, PTL DEF Spec, StepRanCommitted

LEMMA Largest ==
  ASSUME NEW n \in Nat, NEW S \in SUBSET (1 .. n), S # {}
  PROVE  Max(S) \in S
<1> DEFINE Less == OpToRel(<, Nat)
           D == {n - k : k \in S}
<1>1. D \subseteq Nat /\ D # {}
  <2>1. \A k \in S : n - k \in Nat
    BY SMT
  <2> QED
    BY <2>1
<1>2. PICK d \in D : \A e \in D : <<e, d>> \notin Less
  <2> HIDE DEF D
  <2> QED
    BY <1>1, NatLessThanWellFounded, WFMin
<1>3. \A e \in D : ~ e < d
  <2>1. Less = {pair \in Nat \X Nat : pair[1] < pair[2]}
    BY DEF OpToRel
  <2> HIDE DEF Less, D
  <2> QED
    BY <1>1, <1>2, <2>1
<1>4. PICK m \in S : d = n - m
  OBVIOUS
<1>5. ASSUME NEW k \in S
      PROVE  m >= k
  <2>1. n - k \in D
    OBVIOUS
  <2>2. ~ (n - k < d)
    BY <1>3, <2>1
  <2> QED
    BY <1>4, <2>2, SMT
<1> QED
  BY <1>5 DEF Max

(***************************************************************************)
(* Looking up components that an entity of the engine has gives the id of  *)
(* one that has them (sim.py:183-205), whatever lists of entities share    *)
(* which components and whichever apply came last.                         *)
(***************************************************************************)
THEOREM LookupsAgree == Spec => []LookupAgrees
<1>1. IInv => LookupAgrees
  <2> SUFFICES ASSUME IInv, NEW o \in Objects, object[o].built, o \in Held,
                      NEW k \in DOMAIN sims[o].entities
               PROVE  LET held == sims[o].entities
                          id == EntityMap(o, held[k].components)
                      IN  /\ \E l \in DOMAIN held : held[l].id = id
                          /\ \A l \in DOMAIN held :
                               held[l].id = id => held[l].components = held[k].components
    BY DEF LookupAgrees
  <2> DEFINE s == object[o].entities
             S == {l \in DOMAIN s : s[l].components = s[k].components}
  <2>1. /\ given[o] \in Seq(EntityDef) /\ DistinctIds(given[o])
        /\ Fields(given[o], object[o], call[o])
        /\ InMap(given[o], object[o], call[o], sims[o])
    BY Known
  <2>2. IdsOf(given[o], sims[o].entities) /\ IdsOf(given[o], s)
    BY <2>1 DEF Fields, InMap
  <2>3. sims[o].entities = s
    BY <2>1, <2>2, IdsAreUnique
  <2>4. s \in Seq(EntityDef) /\ DistinctIds(s) /\ AllSet(s)
    BY <2>1, <2>2, IdsAreSet
  <2>5. Len(s) \in Nat /\ S \in SUBSET (1 .. Len(s)) /\ k \in S
    BY <2>3, <2>4, SMT
  <2>6. Max(S) \in S
    <3> HIDE DEF s, S
    <3> QED
      BY <2>5, Largest
  <2>7. EntityMap(o, s[k].components) = s[Max(S)].id
    BY DEF EntityMap
  <2>8. \A l \in DOMAIN s : s[l].id = s[Max(S)].id => l = Max(S)
    <3>1. Max(S) \in DOMAIN s
      BY <2>6
    <3> HIDE DEF s, S
    <3> QED
      BY <2>4, <3>1, Zenon DEF DistinctIds, AllSet
  <2> QED
    BY <2>3, <2>6, <2>7, <2>8
<1> QED
  BY Invariance, <1>1, PTL
=============================================================================
