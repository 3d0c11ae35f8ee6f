-------------------------- MODULE SimulationProofs ---------------------------
(***************************************************************************)
(* What the constructor of Simulation makes of any definition.  Four       *)
(* invariants, each on top of the ones before: what is where (Shape), that *)
(* groups tell types apart (Grouped), that ids tell entities apart         *)
(* (Identified), whose core is that ids are generated above every id in    *)
(* use and that there is room for those still to come, and that the store  *)
(* and the two indexes agree on the components created (Placed).           *)
(***************************************************************************)
EXTENDS Simulation, FiniteSetTheorems, TLAPS

L == Len(request.entities)

Shape ==
  /\ request \in SimDef
  /\ entityIds \in [1 .. L -> Ids]
  /\ systemIds \in [Systems -> Ids]
  /\ phase \in {"ids", "entities", "done"}
  /\ n \in 0 .. L
  /\ j \in Nat
  /\ n = 0 => j = 0
  /\ n > 0 => j <= Len(ComponentsOf(n))
  /\ nextEntityId \in Ids
  /\ phase = "ids" => n = 0
  /\ phase # "done" => systemIds = request.systems
  /\ Len(created) = n
  /\ created \in Seq(Seq(Nat \X Nat))
  /\ DOMAIN entityCompMap \subseteq Ids
  /\ \A id \in DOMAIN entityCompMap : entityCompMap[id] \subseteq Nat \X Nat

LEMMA EntitiesAre ==
  ASSUME request \in SimDef
  PROVE  /\ request.entities \in Seq(EntityDef)
         /\ L \in Nat /\ Entities = 1 .. L
         /\ request.systems \in Seq(Ids)
         /\ Len(request.systems) \in Nat /\ Systems = 1 .. Len(request.systems)
         /\ \A k \in 1 .. L : /\ request.entities[k].id \in Ids
                              /\ ComponentsOf(k) \in Seq(Names)
                              /\ Len(ComponentsOf(k)) \in Nat
<1>1. request.entities \in Seq(EntityDef) /\ request.systems \in Seq(Ids)
  BY SMT DEF SimDef
<1>2. L \in Nat /\ Entities = 1 .. L
  BY <1>1, SMT DEF L, Entities
<1>3. Len(request.systems) \in Nat /\ Systems = 1 .. Len(request.systems)
  BY <1>1, SMT DEF Systems
<1>4. ASSUME NEW k \in 1 .. L
      PROVE  /\ request.entities[k].id \in Ids
             /\ ComponentsOf(k) \in Seq(Names)
             /\ Len(ComponentsOf(k)) \in Nat
  <2>1. request.entities[k] \in EntityDef
    BY <1>1, SMT DEF L
  <2>2. request.entities[k].id \in Ids /\ ComponentsOf(k) \in Seq(Names)
    BY <2>1, SMT DEF EntityDef, ComponentsOf
  <2> QED
    BY <2>2, SMT
<1> QED
  BY <1>1, <1>2, <1>3, <1>4

LEMMA SuccessorIn ==
  ASSUME NEW id \in Nat
  PROVE  Successor(id) \in Ids /\ (id + 1 < IdMod => Successor(id) = id + 1)
BY IdModAssumption, SMT DEF Successor, Ids

LEMMA Appended ==
  ASSUME NEW S, NEW s \in Seq(S), NEW e \in S
  PROVE  /\ Append(s, e) \in Seq(S)
         /\ Len(s) \in Nat
         /\ Len(Append(s, e)) = Len(s) + 1
         /\ DOMAIN Append(s, e) = 1 .. Len(s) + 1
         /\ Append(s, e)[Len(s) + 1] = e
         /\ \A c \in 1 .. Len(s) : Append(s, e)[c] = s[c]
BY SMT

-----------------------------------------------------------------------------
(* Groups.                                                                 *)

Grouped ==
  /\ IsFiniteSet(DOMAIN typeNameGroupMap)
  /\ DOMAIN typeNameGroupMap \subseteq Names
  /\ \A x \in DOMAIN typeNameGroupMap :
       /\ typeNameGroupMap[x] \in Nat
       /\ typeNameGroupMap[x] < Cardinality(DOMAIN typeNameGroupMap)
  /\ \A g \in DOMAIN compStore : compStore[g] \in Seq(Component)
  /\ GroupsHoldOneType

(* A new type gets a group of its own.                                     *)
LEMMA GroupFacts ==
  ASSUME Grouped, NEW name \in Names
  PROVE  /\ Group(name) \in Nat
         /\ \A x \in DOMAIN typeNameGroupMap : Group(x) = typeNameGroupMap[x]
         /\ \A x \in DOMAIN typeNameGroupMap : Group(x) = Group(name) => x = name
<1>1. Cardinality(DOMAIN typeNameGroupMap) \in Nat
  BY FS_CardinalityType DEF Grouped
<1> QED
  BY <1>1, SMT DEF Grouped, Group, GroupsHoldOneType

LEMMA StoredFacts ==
  ASSUME Grouped, NEW g
  PROVE  /\ Stored(g) \in Seq(Component)
         /\ Len(Stored(g)) \in Nat
         /\ \A c \in 1 .. Len(Stored(g)) :
              /\ Stored(g)[c].typeName \in DOMAIN typeNameGroupMap
              /\ typeNameGroupMap[Stored(g)[c].typeName] = g
<1>1. Stored(g) \in Seq(Component)
  BY SMT DEF Grouped, Stored
<1>2. Len(Stored(g)) \in Nat
  BY <1>1, SMT
<1>3. CASE g \in DOMAIN compStore
  BY <1>1, <1>3, SMT DEF Grouped, Stored, GroupsHoldOneType
<1>4. CASE g \notin DOMAIN compStore
  BY <1>4, SMT DEF Stored
<1> QED
  BY <1>1, <1>2, <1>3, <1>4

LEMMA AddGrouped ==
  ASSUME Grouped, NEW name \in Names, NEW comp \in Component, comp.typeName = name,
         typeNameGroupMap' = [x \in DOMAIN typeNameGroupMap \cup {name} |-> Group(x)],
         compStore' = [g \in DOMAIN compStore \cup {Group(name)} |->
                         IF g = Group(name) THEN Append(Stored(g), comp) ELSE compStore[g]]
  PROVE  Grouped'
<1> DEFINE Old == DOMAIN typeNameGroupMap
<1>1. DOMAIN typeNameGroupMap' = Old \cup {name}
  BY SMT
<1>2. /\ IsFiniteSet(Old \cup {name})
      /\ Cardinality(Old) \in Nat
      /\ Cardinality(Old \cup {name}) =
           IF name \in Old THEN Cardinality(Old) ELSE Cardinality(Old) + 1
  BY FS_AddElement, FS_CardinalityType DEF Grouped
<1>3. \A x \in Old \cup {name} : typeNameGroupMap'[x] = Group(x)
  BY SMT
<1>4. \A x \in Old \cup {name} :
        Group(x) \in Nat /\ Group(x) < Cardinality(Old \cup {name})
  BY <1>2, GroupFacts, SMT DEF Grouped, Group
<1>5. \A x, y \in Old \cup {name} : Group(x) = Group(y) => x = y
  BY GroupFacts, SMT DEF Grouped, GroupsHoldOneType
<1>6. \A g \in DOMAIN compStore' :
        /\ compStore'[g] \in Seq(Component)
        /\ \A c \in DOMAIN compStore'[g] :
             /\ compStore'[g][c].typeName \in Old \cup {name}
             /\ Group(compStore'[g][c].typeName) = g
  <2> SUFFICES ASSUME NEW g \in DOMAIN compStore'
               PROVE  /\ compStore'[g] \in Seq(Component)
                      /\ \A c \in DOMAIN compStore'[g] :
                           /\ compStore'[g][c].typeName \in Old \cup {name}
                           /\ Group(compStore'[g][c].typeName) = g
    OBVIOUS
  <2>1. CASE g = Group(name)
    <3>1. compStore'[g] = Append(Stored(g), comp)
      BY <2>1, SMT
    <3>2. Stored(g) \in Seq(Component) /\ Len(Stored(g)) \in Nat
      BY StoredFacts
    <3> DEFINE grown == Append(Stored(g), comp)
    <3>0. /\ grown \in Seq(Component)
          /\ DOMAIN grown = 1 .. Len(Stored(g)) + 1
          /\ grown[Len(Stored(g)) + 1] = comp
          /\ \A c \in 1 .. Len(Stored(g)) : grown[c] = Stored(g)[c]
      BY <3>2, Appended
    <3> HIDE DEF grown
    <3>3. /\ compStore'[g] \in Seq(Component)
          /\ DOMAIN compStore'[g] = 1 .. Len(Stored(g)) + 1
          /\ compStore'[g][Len(Stored(g)) + 1] = comp
          /\ \A c \in 1 .. Len(Stored(g)) : compStore'[g][c] = Stored(g)[c]
      <4>1. compStore'[g] = grown
        BY <3>1, Zenon DEF grown
      <4> QED
        BY <3>0, <4>1, Zenon
    <3>4. \A c \in 1 .. Len(Stored(g)) :
            Stored(g)[c].typeName \in Old /\ Group(Stored(g)[c].typeName) = g
      <4>1. \A c \in 1 .. Len(Stored(g)) :
              /\ Stored(g)[c].typeName \in Old
              /\ typeNameGroupMap[Stored(g)[c].typeName] = g
        BY StoredFacts
      <4>2. \A x \in Old : Group(x) = typeNameGroupMap[x]
        BY GroupFacts
      <4> QED
        BY <4>1, <4>2, Zenon
    <3>5. ASSUME NEW c \in DOMAIN compStore'[g]
          PROVE  /\ compStore'[g][c].typeName \in Old \cup {name}
                 /\ Group(compStore'[g][c].typeName) = g
      <4>1. CASE c \in 1 .. Len(Stored(g))
        BY <4>1, <3>3, <3>4
      <4>2. CASE c = Len(Stored(g)) + 1
        BY <4>2, <3>3, <2>1
      <4> QED
        BY <3>2, <3>3, <4>1, <4>2, SMT
    <3> QED
      BY <3>3, <3>5
  <2>2. CASE g # Group(name)
    <3>1. g \in DOMAIN compStore /\ compStore'[g] = compStore[g]
      BY <2>2, SMT
    <3>2. ASSUME NEW c \in DOMAIN compStore[g]
          PROVE  /\ compStore[g][c].typeName \in Old
                 /\ typeNameGroupMap[compStore[g][c].typeName] = g
      BY <3>1, Zenon DEF Grouped, GroupsHoldOneType
    <3>3. \A x \in Old : Group(x) = typeNameGroupMap[x]
      BY GroupFacts
    <3>4. compStore[g] \in Seq(Component)
      BY <3>1 DEF Grouped
    <3> QED
      BY <3>1, <3>2, <3>3, <3>4, Zenon
  <2> QED
    BY <2>1, <2>2
<1>7. GroupsHoldOneType'
  <2> HIDE DEF Old
  <2> USE <1>1
  <2>1. ASSUME NEW x \in DOMAIN typeNameGroupMap', NEW y \in DOMAIN typeNameGroupMap',
               typeNameGroupMap'[x] = typeNameGroupMap'[y]
        PROVE  x = y
    <3>1. x \in Old \cup {name} /\ y \in Old \cup {name}
      BY Zenon
    <3>2. typeNameGroupMap'[x] = Group(x) /\ typeNameGroupMap'[y] = Group(y)
      BY <1>3, <3>1
    <3> QED
      BY <1>5, <2>1, <3>1, <3>2
  <2>2. ASSUME NEW g \in DOMAIN compStore', NEW c \in DOMAIN compStore'[g]
        PROVE  /\ compStore'[g][c].typeName \in DOMAIN typeNameGroupMap'
               /\ typeNameGroupMap'[compStore'[g][c].typeName] = g
    <3> DEFINE x == compStore'[g][c].typeName
    <3>1. x \in Old \cup {name} /\ Group(x) = g
      BY <1>6
    <3> HIDE DEF x
    <3>2. typeNameGroupMap'[x] = Group(x)
      BY <1>3, <3>1
    <3> QED
      BY <3>1, <3>2, Zenon DEF x
  <2> QED
    BY <2>1, <2>2, Zenon DEF GroupsHoldOneType
<1> QED
  BY <1>1, <1>2, <1>3, <1>4, <1>6, <1>7 DEF Grouped

-----------------------------------------------------------------------------
(* What each step does to the shape of the state.                          *)

LEMMA InitShape == Init => Shape /\ Grouped
<1> SUFFICES ASSUME Init PROVE Shape /\ Grouped
  OBVIOUS
<1>1. request \in SimDef
  BY SimDefsAssumption DEF Init
<1>2. Shape
  BY <1>1, EntitiesAre, IdModAssumption, SMT DEF Init, Shape, Ids
<1>3. IsFiniteSet(DOMAIN typeNameGroupMap) /\ DOMAIN typeNameGroupMap = {}
  BY FS_EmptySet, SMT DEF Init
<1>4. DOMAIN compStore = {}
  BY SMT DEF Init
<1> QED
  BY <1>2, <1>3, <1>4, SMT DEF Grouped, GroupsHoldOneType

LEMMA SetEntityIdsShape ==
  ASSUME Shape, Grouped, SetEntityIds
  PROVE  Shape' /\ Grouped'
<1>1. Grouped'
  BY SMT DEF SetEntityIds, Grouped, GroupsHoldOneType
<1>2. ConfiguredIds \subseteq Ids
  BY EntitiesAre, SMT DEF Shape, ConfiguredIds
<1>3. nextEntityId' \in Ids
  BY <1>2, SuccessorIn, IdModAssumption, SMT DEF SetEntityIds, Ids
<1>4. DOMAIN entityCompMap' \subseteq Ids
  BY <1>2, SMT DEF SetEntityIds
<1>5. \A id \in DOMAIN entityCompMap' : entityCompMap'[id] \subseteq Nat \X Nat
  BY SMT DEF SetEntityIds
<1> QED
  BY <1>1, <1>3, <1>4, <1>5, SMT DEF SetEntityIds, Shape, L, simDef, Systems, ComponentsOf

LEMMA GeneratedIn ==
  ASSUME Shape
  PROVE  GeneratedId \in Ids /\ Successor(GeneratedId) \in Ids
<1>1. nextEntityId \in Ids /\ UNSET \in Nat
  BY DEF Shape, UNSET
<1>2. Successor(UNSET) \in Ids
  BY <1>1, SuccessorIn
<1>3. GeneratedId \in Ids
  BY <1>1, <1>2 DEF GeneratedId
<1>4. GeneratedId \in Nat
  BY <1>3, IdModAssumption, SMT DEF Ids
<1> QED
  BY <1>3, <1>4, SuccessorIn

LEMMA NextEntityShape ==
  ASSUME Shape, Grouped, NextEntity
  PROVE  Shape' /\ Grouped'
<1>1. Grouped'
  BY SMT DEF NextEntity, Grouped, GroupsHoldOneType
<1>2. /\ entityIds' \in [1 .. L -> Ids]
      /\ nextEntityId' \in Ids
      /\ DOMAIN entityCompMap' \subseteq Ids
      /\ \A id \in DOMAIN entityCompMap' : entityCompMap'[id] \subseteq Nat \X Nat
  <2>1. CASE entityIds[n + 1] = UNSET
    <3>1. GenerateEntityId
      BY <2>1 DEF NextEntity
    <3>2. DOMAIN entityCompMap' \subseteq Ids
      BY <3>1, GeneratedIn, SMT DEF GenerateEntityId, Registered, Shape
    <3>3. \A id \in DOMAIN entityCompMap' : entityCompMap'[id] \subseteq Nat \X Nat
      BY <3>1, SMT DEF GenerateEntityId, Registered, Shape
    <3>4. entityIds' \in [1 .. L -> Ids] /\ nextEntityId' \in Ids
      <4>1. /\ entityIds \in [1 .. L -> Ids]
            /\ entityIds' = [entityIds EXCEPT ![n + 1] = GeneratedId]
            /\ nextEntityId' = Successor(GeneratedId)
        BY <3>1, Zenon DEF GenerateEntityId, Shape
      <4> QED
        BY <4>1, GeneratedIn
    <3> QED
      BY <3>2, <3>3, <3>4
  <2>2. CASE entityIds[n + 1] # UNSET
    BY <2>2, SMT DEF NextEntity, Shape
  <2> QED
    BY <2>1, <2>2
<1>3. n + 1 \in 1 .. L /\ n' = n + 1 /\ n + 1 \in 0 .. L
  BY EntitiesAre, SMT DEF NextEntity, Shape, L
<1>4. created' \in Seq(Seq(Nat \X Nat)) /\ Len(created') = n + 1
  <2>1. <<>> \in Seq(Nat \X Nat)
    BY SMT
  <2> QED
    BY <2>1, Appended, SMT DEF NextEntity, Shape
<1>5. Len(ComponentsOf(n + 1)) \in Nat
  BY <1>3, EntitiesAre DEF Shape
<1> QED
  BY <1>1, <1>2, <1>3, <1>4, <1>5, SMT DEF NextEntity, Shape, L, Systems, ComponentsOf

(* What AddComponent adds, in one place.                                   *)
LEMMA Adding ==
  ASSUME Shape, Grouped, AddComponent
  PROVE  /\ n \in 1 .. L /\ j + 1 \in 1 .. Len(ComponentsOf(n))
         /\ ComponentsOf(n) \in Seq(Names)
         /\ ComponentsOf(n)[j + 1] \in Names
         /\ Group(ComponentsOf(n)[j + 1]) \in Nat
         /\ Len(Stored(Group(ComponentsOf(n)[j + 1]))) \in Nat
<1>1. n \in 1 .. L /\ j # Len(ComponentsOf(n)) /\ j <= Len(ComponentsOf(n)) /\ j \in Nat
  BY SMT DEF AddComponent, EntityDone, Shape
<1>2. ComponentsOf(n) \in Seq(Names) /\ Len(ComponentsOf(n)) \in Nat
  BY <1>1, EntitiesAre DEF Shape
<1>3. j + 1 \in 1 .. Len(ComponentsOf(n)) /\ ComponentsOf(n)[j + 1] \in Names
  BY <1>1, <1>2, SMT
<1> QED
  BY <1>1, <1>2, <1>3, GroupFacts, StoredFacts

LEMMA AddComponentShape ==
  ASSUME Shape, Grouped, AddComponent
  PROVE  Shape' /\ Grouped'
<1> DEFINE name   == ComponentsOf(n)[j + 1]
           comp   == [typeName |-> name, hasSchema |-> name \in request.declared]
           handle == <<Group(name), Len(Stored(Group(name))) + 1>>
<1>1. comp \in Component /\ comp.typeName = name /\ name \in Names
  <2> DEFINE hasSchema == name \in request.declared
  <2>1. hasSchema \in BOOLEAN
    BY SMT
  <2>2. name \in Names
    BY Adding
  <2> HIDE DEF name, hasSchema
  <2>3. [typeName |-> name, hasSchema |-> hasSchema] \in Component
    BY <2>1, <2>2, SMT DEF Component
  <2>4. comp = [typeName |-> name, hasSchema |-> hasSchema]
    BY Zenon DEF hasSchema
  <2>5. [typeName |-> name, hasSchema |-> hasSchema].typeName = name
    BY SMT
  <2> HIDE DEF comp
  <2> QED
    BY <2>2, <2>3, <2>4, <2>5, Zenon
<1>2. handle \in Nat \X Nat
  BY Adding, SMT
<1>3. Grouped'
  <2>1. /\ typeNameGroupMap' = [x \in DOMAIN typeNameGroupMap \cup {name} |-> Group(x)]
        /\ compStore' = [g \in DOMAIN compStore \cup {Group(name)} |->
                            IF g = Group(name) THEN Append(Stored(g), comp)
                                               ELSE compStore[g]]
    BY Zenon DEF AddComponent
  <2> QED
    BY <1>1, <2>1, AddGrouped
<1>4. /\ entityCompMap' = [entityCompMap EXCEPT ![entityIds[n]] = @ \cup {handle}]
      /\ created' = [created EXCEPT ![n] = Append(@, handle)]
      /\ j' = j + 1
      /\ UNCHANGED <<request, entityIds, systemIds, phase, n, nextEntityId>>
      /\ phase = "entities"
  BY Zenon DEF AddComponent, simDef
<1> HIDE DEF name, comp, handle
<1>5. /\ DOMAIN entityCompMap' \subseteq Ids
      /\ \A id \in DOMAIN entityCompMap' : entityCompMap'[id] \subseteq Nat \X Nat
  BY <1>2, <1>4, SMT DEF Shape
<1>6. created' \in Seq(Seq(Nat \X Nat)) /\ Len(created') = n
  <2>1. n \in 1 .. Len(created) /\ created[n] \in Seq(Nat \X Nat)
    BY Adding, SMT DEF Shape
  <2>2. Append(created[n], handle) \in Seq(Nat \X Nat)
    BY <1>2, <2>1, Appended
  <2> HIDE DEF Shape
  <2> QED
    BY <1>4, <2>1, <2>2, SMT DEF Shape
<1>7. n > 0 /\ j + 1 \in Nat /\ j + 1 <= Len(ComponentsOf(n))
  BY Adding, SMT
<1>8. L' = L /\ Systems' = Systems /\ ComponentsOf(n)' = ComponentsOf(n)
  BY <1>4, Zenon DEF L, Systems, ComponentsOf
<1>9. Shape'
  BY <1>4, <1>5, <1>6, <1>7, <1>8, SMT DEF Shape
<1> QED
  BY <1>3, <1>9

LEMMA SetSystemIdsShape ==
  ASSUME Shape, Grouped, SetSystemIds
  PROVE  Shape' /\ Grouped'
<1>1. Grouped'
  BY SMT DEF SetSystemIds, indexes, Grouped, GroupsHoldOneType
<1>2. PICK maxId \in {systemIds[k] : k \in Systems} \cup {0} : systemIds' = NumberedFrom(maxId)
  BY Zenon DEF SetSystemIds
<1>3. maxId \in Nat
  BY <1>2, SMT DEF Shape, Ids
<1>4. \A k \in Systems : IsFiniteSet(UnsetUpTo(k))
  <2> SUFFICES ASSUME NEW k \in Systems PROVE IsFiniteSet(UnsetUpTo(k))
    OBVIOUS
  <2>1. IsFiniteSet(1 .. k)
    BY EntitiesAre, FS_Interval, SMT DEF Shape
  <2> QED
    BY <2>1, FS_Subset DEF UnsetUpTo
<1>5. \A k \in Systems : (maxId + Cardinality(UnsetUpTo(k))) % IdMod \in Ids
  BY <1>3, <1>4, FS_CardinalityType, IdModAssumption, SMT DEF Ids
<1>6. systemIds' \in [Systems -> Ids]
  BY <1>2, <1>5, SMT DEF NumberedFrom, Shape
<1> QED
  BY <1>1, <1>6, SMT DEF SetSystemIds, indexes, Shape, L, Systems, ComponentsOf

-----------------------------------------------------------------------------
(* Ids.                                                                    *)

Respected == ConfiguredDistinct /\ EntityHeadroom

(* While there are entities left, generation is above all ids in use and   *)
(* has room for one id each.                                               *)
Room ==
  phase = "entities" /\ n < L =>
    /\ nextEntityId > 0
    /\ nextEntityId + (L - n) <= IdMod
    /\ \A k \in 1 .. L : entityIds[k] < nextEntityId
    /\ \A id \in DOMAIN entityCompMap : id < nextEntityId

Distinct ==
  \A k, l \in 1 .. L : entityIds[k] = entityIds[l] /\ entityIds[k] # UNSET => k = l

Filled ==
  /\ \A k \in 1 .. L : k > n => entityIds[k] = request.entities[k].id
  /\ \A k \in 1 .. L : k <= n => entityIds[k] # UNSET
  /\ \A k \in 1 .. L : request.entities[k].id \in {UNSET, entityIds[k]}
  /\ phase = "done" => n = L

Identified == Filled /\ (Respected => Room /\ Distinct)

LEMMA InitIdentified == Init /\ Shape => Identified
<1> SUFFICES ASSUME Init, Shape PROVE Identified
  OBVIOUS
<1>1. /\ \A k \in 1 .. L : entityIds[k] = request.entities[k].id
      /\ n = 0 /\ phase = "ids"
      /\ L \in Nat /\ Entities = 1 .. L
  BY EntitiesAre, SMT DEF Init, Shape
<1>2. Filled
  BY <1>1, SMT DEF Filled
<1>3. Respected => Distinct
  BY <1>1, SMT DEF Respected, ConfiguredDistinct, Distinct
<1> QED
  BY <1>1, <1>2, <1>3, SMT DEF Identified, Room

LEMMA SetEntityIdsIdentified ==
  ASSUME Shape, Identified, SetEntityIds
  PROVE  Identified'
<1>1. /\ phase = "ids" /\ n = 0 /\ phase' = "entities"
      /\ UNCHANGED <<request, entityIds, n>>
      /\ entityCompMap' = [id \in ConfiguredIds |-> {}]
  BY SMT DEF SetEntityIds, simDef, Shape
<1>2. L \in Nat /\ Entities = 1 .. L /\ entityIds \in [1 .. L -> Ids]
  BY EntitiesAre, Zenon DEF Shape
<1>3. Filled' /\ (Respected' => Respected) /\ (Distinct => Distinct')
  BY <1>1, Zenon DEF Identified, Filled, Respected, ConfiguredDistinct, EntityHeadroom,
                     Distinct, L, Entities
<1>4. ASSUME Respected, 0 < L PROVE Room'
  <2>1. PICK maxId \in ConfiguredIds \cup {0} :
          /\ \A id \in ConfiguredIds : id <= maxId
          /\ nextEntityId' = Successor(maxId)
    BY Zenon DEF SetEntityIds
  <2>2. \A k \in 1 .. L : entityIds[k] = request.entities[k].id /\ entityIds[k] \in Nat
    BY <1>1, <1>2, SMT DEF Identified, Filled, Ids
  <2>3. \A k \in 1 .. L : entityIds[k] + L < IdMod
    BY <1>2, <1>4, <2>2, SMT DEF Respected, EntityHeadroom, L
  <2>4. maxId \in Nat /\ maxId + L < IdMod
    <3>1. CASE maxId = 0
      <4>1. 1 \in 1 .. L
        BY <1>2, <1>4, SMT
      <4> QED
        BY <1>2, <2>2, <2>3, <3>1, <4>1, IdModAssumption, SMT
    <3>2. CASE maxId \in ConfiguredIds
      BY <1>2, <2>2, <2>3, <3>2, SMT DEF ConfiguredIds
    <3> QED
      BY <3>1, <3>2
  <2>5. nextEntityId' = maxId + 1
    BY <1>2, <1>4, <2>1, <2>4, SuccessorIn, IdModAssumption, SMT
  <2>6. \A k \in 1 .. L : entityIds[k] <= maxId
    BY <1>2, <2>1, <2>2, <2>4, SMT DEF ConfiguredIds, UNSET
  <2>7. \A id \in DOMAIN entityCompMap' : id \in Nat /\ id <= maxId
    BY <1>1, <1>2, <2>1, <2>2, SMT DEF ConfiguredIds
  <2>8. L' = L
    BY <1>1 DEF L
  <2> HIDE DEF L
  <2> QED
    BY <1>1, <1>2, <2>2, <2>4, <2>5, <2>6, <2>7, <2>8, IdModAssumption, SMT DEF Room
<1>5. L' = L
  BY <1>1 DEF L
<1>6. ASSUME Respected, ~(0 < L) PROVE Room'
  BY <1>1, <1>2, <1>5, <1>6, SMT DEF Room
<1> QED
  BY <1>3, <1>4, <1>6 DEF Identified

LEMMA NextEntityIdentified ==
  ASSUME Shape, Identified, NextEntity
  PROVE  Identified'
<1>1. /\ phase = "entities" /\ n < L /\ n' = n + 1
      /\ UNCHANGED <<request, phase>>
  BY Zenon DEF NextEntity, L
<1>2. /\ L \in Nat /\ Entities = 1 .. L /\ entityIds \in [1 .. L -> Ids]
      /\ n \in Nat /\ n + 1 \in 1 .. L /\ nextEntityId \in Ids
  BY <1>1, EntitiesAre, SMT DEF Shape
<1>3. L' = L /\ (Respected' => Respected)
  BY <1>1, Zenon DEF L, Respected, ConfiguredDistinct, EntityHeadroom, Entities
<1>4. CASE entityIds[n + 1] # UNSET
  <2>1. UNCHANGED <<entityIds, entityCompMap, nextEntityId>>
    BY <1>4 DEF NextEntity
  <2> HIDE DEF L
  <2>2. Filled'
    BY <1>1, <1>2, <1>3, <1>4, <2>1, SMT DEF Identified, Filled
  <2>3. Distinct => Distinct'
    BY <1>3, <2>1 DEF Distinct
  <2>4. Room => Room'
    BY <1>1, <1>2, <1>3, <2>1, IdModAssumption, SMT DEF Room, Ids
  <2> QED
    BY <1>3, <2>2, <2>3, <2>4 DEF Identified
<1>5. CASE entityIds[n + 1] = UNSET
  <2>1. /\ entityIds' = [entityIds EXCEPT ![n + 1] = GeneratedId]
        /\ entityCompMap' = Registered({nextEntityId, GeneratedId})
        /\ nextEntityId' = Successor(GeneratedId)
    BY <1>5 DEF NextEntity, GenerateEntityId
  <2>2. GeneratedId # UNSET
    BY <1>2, IdModAssumption, SMT DEF GeneratedId, Successor, UNSET, Ids
  <2>3. entityIds'[n + 1] = GeneratedId /\ \A k \in 1 .. L : k # n + 1 => entityIds'[k] = entityIds[k]
    BY <1>2, <2>1, SMT
  <2>4. DOMAIN entityCompMap' = DOMAIN entityCompMap \cup {nextEntityId, GeneratedId}
    BY <2>1 DEF Registered
  <2>5. request.entities[n + 1].id = UNSET
    BY <1>2, <1>5, SMT DEF Identified, Filled
  <2> HIDE DEF L
  <2>6. Filled'
    BY <1>1, <1>2, <1>3, <2>2, <2>3, <2>5, SMT DEF Identified, Filled
  <2>7. ASSUME Respected PROVE Room' /\ Distinct'
    <3>1. /\ GeneratedId = nextEntityId
          /\ nextEntityId > 0
          /\ nextEntityId + (L - n) <= IdMod
          /\ \A k \in 1 .. L : entityIds[k] < nextEntityId
          /\ \A id \in DOMAIN entityCompMap : id < nextEntityId
      BY <1>1, <1>2, <2>7, SMT DEF Identified, Room, GeneratedId, UNSET, Ids
    <3>2. Distinct'
      <4>1. Distinct
        BY <2>7 DEF Identified
      <4>2. \A k \in 1 .. L : entityIds[k] \in Nat /\ entityIds[k] # nextEntityId
        BY <1>2, <3>1, IdModAssumption, SMT DEF Ids
      <4>3. entityIds'[n + 1] = nextEntityId
        BY <2>3, <3>1
      <4>4. ASSUME NEW k \in 1 .. L, NEW l \in 1 .. L,
                   entityIds'[k] = entityIds'[l], entityIds'[k] # UNSET
            PROVE  k = l
        <5>1. CASE k = n + 1 \/ l = n + 1
          BY <2>3, <4>2, <4>3, <4>4, <5>1, Zenon
        <5>2. CASE k # n + 1 /\ l # n + 1
          BY <2>3, <4>1, <4>4, <5>2, Zenon DEF Distinct
        <5> QED
          BY <5>1, <5>2
      <4> QED
        BY <1>3, <4>4 DEF Distinct
    <3>3. ASSUME n + 1 < L PROVE Room'
      <4>1. nextEntityId' = nextEntityId + 1
        BY <1>2, <2>1, <3>1, <3>3, SuccessorIn, IdModAssumption, SMT DEF Ids
      <4>2. \A k \in 1 .. L : entityIds'[k] < nextEntityId + 1
        BY <1>2, <2>3, <3>1, IdModAssumption, SMT DEF Ids
      <4>3. \A id \in DOMAIN entityCompMap' : id < nextEntityId + 1
        BY <1>2, <2>4, <3>1, IdModAssumption, SMT DEF Ids, Shape
      <4> QED
        <5>1. /\ nextEntityId + 1 > 0
              /\ nextEntityId + 1 + (L - (n + 1)) <= IdMod
          BY <1>2, <3>1, IdModAssumption, SMT DEF Ids
        <5> QED
          BY <1>1, <1>3, <4>1, <4>2, <4>3, <5>1, Zenon DEF Room
    <3>4. ASSUME ~(n + 1 < L) PROVE Room'
      BY <1>1, <1>3, <3>4, Zenon DEF Room
    <3> QED
      BY <3>2, <3>3, <3>4
  <2> QED
    BY <1>3, <2>6, <2>7 DEF Identified
<1> QED
  BY <1>4, <1>5

LEMMA AddComponentIdentified ==
  ASSUME Shape, Identified, AddComponent
  PROVE  Identified'
<1>1. /\ UNCHANGED <<request, entityIds, phase, n, nextEntityId>>
      /\ DOMAIN entityCompMap' = DOMAIN entityCompMap
  BY SMT DEF AddComponent, simDef
<1> QED
  BY <1>1, Zenon DEF Identified, Filled, Room, Distinct, Respected, ConfiguredDistinct,
                     EntityHeadroom, L, Entities

LEMMA SetSystemIdsIdentified ==
  ASSUME Shape, Identified, SetSystemIds
  PROVE  Identified'
<1>1. /\ UNCHANGED <<request, entityIds, n>>
      /\ phase' = "done" /\ n = L
  BY Zenon DEF SetSystemIds, L
<1>2. Room'
  BY <1>1, SMT DEF Room
<1> QED
  BY <1>1, <1>2, Zenon DEF Identified, Filled, Distinct, Respected, ConfiguredDistinct,
                     EntityHeadroom, L, Entities

-----------------------------------------------------------------------------
(* Systems.                                                                *)

LEMMA UnsetCounts ==
  ASSUME Shape, NEW k \in Systems
  PROVE  /\ IsFiniteSet(UnsetUpTo(k))
         /\ Cardinality(UnsetUpTo(k)) \in 0 .. Len(request.systems)
         /\ systemIds[k] = UNSET => Cardinality(UnsetUpTo(k)) > 0
<1>1. k \in 1 .. Len(request.systems) /\ Len(request.systems) \in Nat
  BY EntitiesAre DEF Shape
<1>2. IsFiniteSet(1 .. k) /\ Cardinality(1 .. k) = k
  BY <1>1, FS_Interval, SMT
<1>3. /\ IsFiniteSet(UnsetUpTo(k))
      /\ Cardinality(UnsetUpTo(k)) \in Nat
      /\ Cardinality(UnsetUpTo(k)) <= k
  BY <1>2, FS_Subset, FS_CardinalityType DEF UnsetUpTo
<1>4. systemIds[k] = UNSET => UnsetUpTo(k) # {}
  BY <1>1, SMT DEF UnsetUpTo
<1>5. systemIds[k] = UNSET => Cardinality(UnsetUpTo(k)) # 0
  BY <1>3, <1>4, FS_EmptySet
<1> QED
  BY <1>1, <1>3, <1>5, SMT

LEMMA UnsetCountsGrow ==
  ASSUME Shape, NEW k \in Systems, NEW l \in Systems, k < l, systemIds[l] = UNSET
  PROVE  Cardinality(UnsetUpTo(k)) < Cardinality(UnsetUpTo(l))
<1>1. k \in Nat /\ l \in Nat /\ 1 <= l
  BY EntitiesAre, SMT DEF Shape
<1>2. UnsetUpTo(k) \subseteq UnsetUpTo(l) /\ l \in UnsetUpTo(l) /\ l \notin UnsetUpTo(k)
  BY <1>1, SMT DEF UnsetUpTo
<1>3. /\ Cardinality(UnsetUpTo(k)) <= Cardinality(UnsetUpTo(l))
      /\ Cardinality(UnsetUpTo(k)) # Cardinality(UnsetUpTo(l))
  BY <1>2, UnsetCounts, FS_Subset
<1> QED
  BY <1>3, UnsetCounts, SMT

LEMMA SetSystemIdsIdentify ==
  ASSUME Shape, SetSystemIds, SystemHeadroom
  PROVE  \A k \in Systems :
           /\ systemIds'[k] # UNSET
           /\ request.systems[k] = UNSET =>
                \A l \in Systems : systemIds'[k] = systemIds'[l] => k = l
<1>1. PICK maxId \in {systemIds[k] : k \in Systems} \cup {0} :
        /\ \A k \in Systems : systemIds[k] <= maxId
        /\ systemIds' = NumberedFrom(maxId)
  BY Zenon DEF SetSystemIds
<1> DEFINE count(k) == Cardinality(UnsetUpTo(k))
           size == Len(request.systems)
<1>2. /\ Systems = 1 .. size /\ size \in Nat
      /\ systemIds = request.systems
      /\ \A k \in Systems : systemIds[k] \in Nat /\ systemIds[k] + size < IdMod
  <2>1. systemIds = request.systems
    BY SMT DEF SetSystemIds, Shape
  <2>2. \A k \in Systems : systemIds[k] \in Nat
    BY IdModAssumption, SMT DEF Shape, Ids
  <2> QED
    BY <2>1, <2>2, EntitiesAre DEF Shape, SystemHeadroom
<1>3. ASSUME NEW k \in Systems
      PROVE  maxId \in Nat /\ maxId + size < IdMod
  <2>1. CASE maxId = 0
    <3>1. systemIds[k] \in Nat /\ systemIds[k] + size < IdMod
      BY <1>2
    <3> QED
      BY <1>2, <2>1, <3>1, IdModAssumption, SMT
  <2>2. CASE maxId # 0
    BY <1>1, <1>2, <2>2
  <2> QED
    BY <2>1, <2>2
<1>4. \A k \in Systems :
        /\ count(k) \in 0 .. size
        /\ systemIds[k] = UNSET => count(k) > 0
  BY UnsetCounts
<1>5. \A k, l \in Systems : k < l /\ systemIds[l] = UNSET => count(k) < count(l)
  BY UnsetCountsGrow
<1> HIDE DEF count, size
<1>6. ASSUME NEW k \in Systems
      PROVE  /\ systemIds[k] # UNSET => systemIds'[k] = systemIds[k]
             /\ systemIds[k] = UNSET => systemIds'[k] = maxId + count(k)
  <2>1. systemIds'[k] = IF systemIds[k] = UNSET THEN (maxId + count(k)) % IdMod
                                                 ELSE systemIds[k]
    BY <1>1, Zenon DEF NumberedFrom, count
  <2>2. maxId + count(k) \in 0 .. IdMod - 1
    <3>1. maxId \in Nat /\ maxId + size < IdMod /\ count(k) \in 0 .. size
      BY <1>3, <1>4
    <3> QED
      BY <1>2, <3>1, IdModAssumption, SMT
  <2>3. (maxId + count(k)) % IdMod = maxId + count(k)
    BY <2>2, IdModAssumption, SMT
  <2> QED
    BY <2>1, <2>3, Zenon
<1>7. ASSUME NEW k \in Systems
      PROVE  systemIds'[k] # UNSET
  <2>1. maxId \in Nat /\ count(k) \in 0 .. size
    BY <1>3, <1>4
  <2>2. CASE systemIds[k] = UNSET
    <3>1. systemIds'[k] = maxId + count(k) /\ count(k) > 0
      BY <1>4, <1>6, <2>2
    <3> QED
      BY <1>2, <2>1, <3>1, SMT DEF UNSET
  <2>3. CASE systemIds[k] # UNSET
    BY <1>6, <2>3
  <2> QED
    BY <2>2, <2>3
<1>8. ASSUME NEW k \in Systems, systemIds[k] = UNSET,
             NEW l \in Systems, systemIds'[k] = systemIds'[l]
      PROVE  k = l
  <2>1. systemIds'[k] = maxId + count(k) /\ count(k) > 0 /\ count(k) \in Nat /\ maxId \in Nat
    <3>1. /\ systemIds'[k] = maxId + count(k)
          /\ count(k) > 0 /\ count(k) \in 0 .. size /\ maxId \in Nat
      BY <1>3, <1>4, <1>6, <1>8
    <3> QED
      BY <1>2, <3>1, SMT
  <2>2. CASE systemIds[l] # UNSET
    <3>1. systemIds'[l] = systemIds[l] /\ systemIds[l] <= maxId /\ systemIds[l] \in Nat
      BY <1>1, <1>2, <1>6, <2>2
    <3>2. maxId + count(k) = systemIds[l]
      BY <1>8, <2>1, <3>1, Zenon
    <3> QED
      BY <2>1, <3>1, <3>2, SMT
  <2>3. CASE systemIds[l] = UNSET
    <3>1. count(k) = count(l)
      <4>1. systemIds'[l] = maxId + count(l) /\ count(l) \in 0 .. size
        BY <1>4, <1>6, <2>3
      <4>2. maxId + count(k) = maxId + count(l)
        BY <1>8, <2>1, <4>1, Zenon
      <4> QED
        BY <1>2, <2>1, <4>1, <4>2, SMT
    <3>2. ~(k < l) /\ ~(l < k)
      BY <1>5, <1>8, <2>1, <2>3, <3>1, SMT
    <3>3. k \in Nat /\ l \in Nat
      BY <1>2, SMT
    <3> QED
      BY <3>2, <3>3, SMT
  <2> QED
    BY <2>2, <2>3
<1> QED
  BY <1>2, <1>7, <1>8

-----------------------------------------------------------------------------
(* Components.                                                             *)

(* Each component of an entity that was created is in the store, in the    *)
(* group of its type; created lists them in the order of the definition.   *)
InStore(h, name) ==
  /\ name \in DOMAIN typeNameGroupMap
  /\ h[1] = typeNameGroupMap[name]
  /\ h[1] \in DOMAIN compStore
  /\ h[2] \in 1 .. Len(compStore[h[1]])

Handles(k) == {created[k][a] : a \in 1 .. Len(created[k])}

Created ==
  /\ \A k \in 1 .. n :
       /\ Len(created[k]) = IF k = n THEN j ELSE Len(ComponentsOf(k))
       /\ \A a \in 1 .. Len(created[k]) : InStore(created[k][a], ComponentsOf(k)[a])
  /\ phase = "done" /\ n > 0 => j = Len(ComponentsOf(n))

(* The entity index has them under the id of the entity, and nothing yet   *)
(* under the ids of entities to come.                                      *)
Indexed ==
  phase # "ids" =>
    \A k \in 1 .. L :
      entityIds[k] # UNSET =>
        /\ entityIds[k] \in DOMAIN entityCompMap
        /\ entityCompMap[entityIds[k]] = IF k <= n THEN Handles(k) ELSE {}

Placed == Created /\ (Respected => Indexed)

(* What a step does not touch stays as it is.                              *)
LEMMA CreatedSame ==
  ASSUME Created,
         UNCHANGED <<request, n, j, typeNameGroupMap, compStore, created>>,
         phase' = "done" /\ n > 0 => j = Len(ComponentsOf(n))
  PROVE  Created'
<1>1. \A k : ComponentsOf(k)' = ComponentsOf(k)
  BY Zenon DEF ComponentsOf
<1>2. \A h, name : InStore(h, name) => InStore(h, name)'
  BY SMT DEF InStore
<1>3. ASSUME NEW k \in 1 .. n, NEW a \in 1 .. Len(created[k])
      PROVE  InStore(created[k][a], ComponentsOf(k)[a])'
  <2>1. InStore(created[k][a], ComponentsOf(k)[a])
    BY DEF Created
  <2> QED
    BY <1>1, <1>2, <2>1, SMT DEF InStore
<1>4. ASSUME NEW k \in 1 .. n
      PROVE  Len(created[k]) = IF k = n THEN j ELSE Len(ComponentsOf(k))
  BY DEF Created
<1> QED
  BY <1>1, <1>3, <1>4, Zenon DEF Created

LEMMA IndexedSame ==
  ASSUME Indexed, phase # "ids",
         UNCHANGED <<request, entityIds, n, entityCompMap, created>>
  PROVE  Indexed'
<1>1. L' = L
  BY DEF L
<1>2. \A k : Handles(k)' = Handles(k)
  BY Zenon DEF Handles
<1> QED
  BY <1>1, <1>2, Zenon DEF Indexed

LEMMA RespectedSame ==
  ASSUME UNCHANGED request
  PROVE  Respected' <=> Respected
BY Zenon DEF Respected, ConfiguredDistinct, EntityHeadroom, Entities

LEMMA InitPlaced == Init /\ Shape => Placed
<1> SUFFICES ASSUME Init, Shape PROVE Placed
  OBVIOUS
<1>1. n = 0 /\ phase = "ids"
  BY DEF Init
<1>2. 1 .. n = {}
  BY <1>1, SMT
<1> QED
  BY <1>1, <1>2, SMT DEF Placed, Created, Indexed

LEMMA SetEntityIdsPlaced ==
  ASSUME Shape, Identified, Placed, SetEntityIds
  PROVE  Placed'
<1>1. /\ phase = "ids" /\ n = 0 /\ phase' = "entities"
      /\ UNCHANGED <<request, entityIds, n, j>>
      /\ entityCompMap' = [id \in ConfiguredIds |-> {}]
  BY SMT DEF SetEntityIds, simDef, Shape
<1>2. L \in Nat /\ Entities = 1 .. L /\ L' = L
  BY <1>1, EntitiesAre DEF Shape, L
<1>3. Created'
  <2>1. 1 .. n' = {}
    BY <1>1, SMT
  <2> QED
    BY <1>1, <2>1, SMT DEF Created
<1>4. Indexed'
  <2> SUFFICES ASSUME NEW k \in 1 .. L, entityIds[k] # UNSET
               PROVE  /\ entityIds[k] \in DOMAIN entityCompMap'
                      /\ entityCompMap'[entityIds[k]] = {}
                      /\ ~(k <= n)
    BY <1>1, <1>2, Zenon DEF Indexed
  <2>1. entityIds[k] \in ConfiguredIds
    BY <1>2 DEF ConfiguredIds
  <2> QED
    BY <1>1, <1>2, <2>1, SMT
<1> QED
  BY <1>3, <1>4 DEF Placed

LEMMA NextEntityCreated ==
  ASSUME Shape, Placed, NextEntity
  PROVE  Created'
<1>1. /\ n' = n + 1 /\ j' = 0 /\ created' = Append(created, <<>>)
      /\ phase = "entities"
      /\ UNCHANGED <<request, phase, typeNameGroupMap, compStore>>
      /\ n > 0 => j = Len(ComponentsOf(n))
  BY Zenon DEF NextEntity, EntityDone
<1>2. n \in Nat /\ Len(created) = n
  BY SMT DEF Shape
<1>3. /\ \A k \in 1 .. n : created'[k] = created[k]
      /\ created'[n + 1] = <<>>
  <2>1. <<>> \in Seq(Nat \X Nat)
    BY SMT
  <2> QED
    BY <1>1, <1>2, <2>1, Appended DEF Shape
<1>4. ASSUME NEW k \in 1 .. n'
      PROVE  /\ Len(created'[k]) = IF k = n' THEN j' ELSE Len(ComponentsOf(k)')
             /\ \A a \in 1 .. Len(created'[k]) : InStore(created[k][a], ComponentsOf(k)[a])'
  <2>1. ASSUME k = n + 1
        PROVE  /\ Len(created'[k]) = IF k = n' THEN j' ELSE Len(ComponentsOf(k)')
               /\ 1 .. Len(created'[k]) = {}
    <3>1. Len(<<>>) = 0 /\ 1 .. Len(<<>>) = {}
      BY SMT
    <3>2. created'[k] = <<>> /\ k = n' /\ j' = 0
      BY <1>1, <1>3, <2>1, Zenon
    <3>3. Len(created'[k]) = j' /\ 1 .. Len(created'[k]) = {}
      BY <3>1, <3>2, Zenon
    <3> QED
      BY <3>2, <3>3, Zenon
  <2>2. ASSUME k # n + 1
        PROVE  /\ Len(created'[k]) = IF k = n' THEN j' ELSE Len(ComponentsOf(k)')
               /\ \A a \in 1 .. Len(created'[k]) : InStore(created[k][a], ComponentsOf(k)[a])'
    <3>1. k \in 1 .. n
      BY <1>1, <1>2, <2>2, SMT
    <3>2. Len(created[k]) = Len(ComponentsOf(k))
      <4>1. Len(created[k]) = IF k = n THEN j ELSE Len(ComponentsOf(k))
        BY <3>1, Zenon DEF Placed, Created
      <4>2. k = n => j = Len(ComponentsOf(k))
        BY <1>1, <1>2, <3>1, SMT
      <4> QED
        BY <4>1, <4>2, Zenon
    <3>3. \A a \in 1 .. Len(created[k]) : InStore(created[k][a], ComponentsOf(k)[a])
      BY <3>1, Zenon DEF Placed, Created
    <3>4. created'[k] = created[k] /\ k # n'
      BY <1>1, <1>3, <2>2, <3>1, Zenon
    <3>5. Len(created'[k]) = IF k = n' THEN j' ELSE Len(ComponentsOf(k)')
      BY <1>1, <3>2, <3>4, Zenon DEF ComponentsOf
    <3>6. \A a \in 1 .. Len(created'[k]) : InStore(created[k][a], ComponentsOf(k)[a])'
      BY <1>1, <3>3, <3>4, Zenon DEF InStore, ComponentsOf
    <3> QED
      BY <3>5, <3>6
  <2> QED
    BY <2>1, <2>2, Zenon
<1> QED
  BY <1>1, <1>4, Zenon DEF Created

LEMMA NextEntityIndexed ==
  ASSUME Shape, Identified, Placed, NextEntity, Respected
  PROVE  Indexed'
<1>1. /\ phase = "entities" /\ n < L /\ n' = n + 1
      /\ created' = Append(created, <<>>)
      /\ UNCHANGED <<request, phase>>
  BY Zenon DEF NextEntity, L
<1>2. /\ L \in Nat /\ L' = L /\ n \in Nat /\ n + 1 \in 1 .. L
      /\ entityIds \in [1 .. L -> Ids] /\ Len(created) = n
      /\ nextEntityId \in Ids
  BY <1>1, EntitiesAre, SMT DEF Shape, L
<1>3. /\ \A k \in 1 .. n : created'[k] = created[k]
      /\ created'[n + 1] = <<>>
  <2>1. <<>> \in Seq(Nat \X Nat)
    BY SMT
  <2> QED
    BY <1>1, <1>2, <2>1, Appended DEF Shape
<1>4. ASSUME NEW k \in 1 .. n + 1
      PROVE  Handles(k)' = IF k = n + 1 THEN {} ELSE Handles(k)
  <2>1. ASSUME k = n + 1 PROVE Handles(k)' = {}
    <3>1. 1 .. Len(<<>>) = {}
      BY SMT
    <3>2. 1 .. Len(created'[k]) = {}
      BY <1>3, <2>1, <3>1, Zenon
    <3> QED
      BY <3>2, Zenon DEF Handles
  <2>2. ASSUME k # n + 1 PROVE Handles(k)' = Handles(k)
    <3>1. created'[k] = created[k]
      BY <1>2, <1>3, <2>2, SMT
    <3> QED
      BY <3>1, Zenon DEF Handles
  <2> QED
    BY <2>1, <2>2, Zenon
<1>5. \A k \in 1 .. L :
        entityIds[k] # UNSET =>
          /\ entityIds[k] \in DOMAIN entityCompMap
          /\ entityCompMap[entityIds[k]] = IF k <= n THEN Handles(k) ELSE {}
  <2> HIDE DEF L
  <2>1. phase # "ids" /\ Indexed
    BY <1>1, SMT DEF Placed
  <2> QED
    BY <2>1, Zenon DEF Indexed
<1>6. SUFFICES ASSUME NEW k \in 1 .. L, entityIds'[k] # UNSET
               PROVE  /\ entityIds'[k] \in DOMAIN entityCompMap'
                      /\ entityCompMap'[entityIds'[k]] =
                           IF k <= n + 1 THEN Handles(k)' ELSE {}
  BY <1>1, <1>2, Zenon DEF Indexed
<1> HIDE DEF L
<1>7. \/ k \in 1 .. n + 1 /\ k <= n /\ k <= n + 1 /\ k # n + 1
      \/ k \in 1 .. n + 1 /\ k = n + 1 /\ ~(k <= n) /\ k <= n + 1
      \/ ~(k <= n) /\ ~(k <= n + 1) /\ k # n + 1
  BY <1>2, SMT
<1>8. CASE entityIds[n + 1] # UNSET
  <2>1. UNCHANGED <<entityIds, entityCompMap>>
    BY <1>8, Zenon DEF NextEntity
  <2> QED
    BY <1>4, <1>5, <1>6, <1>7, <2>1, Zenon
<1>9. CASE entityIds[n + 1] = UNSET
  <2>1. /\ entityIds' = [entityIds EXCEPT ![n + 1] = GeneratedId]
        /\ entityCompMap' = Registered({nextEntityId, GeneratedId})
    BY <1>9 DEF NextEntity, GenerateEntityId
  <2>2. /\ GeneratedId = nextEntityId
        /\ \A id \in DOMAIN entityCompMap : id < nextEntityId
    BY <1>1, <1>2, SMT DEF Identified, Room, GeneratedId, UNSET, Ids
  <2>3. nextEntityId \notin DOMAIN entityCompMap
    BY <1>2, <2>2, IdModAssumption, SMT DEF Ids
  <2>4. /\ DOMAIN entityCompMap' = DOMAIN entityCompMap \cup {nextEntityId}
        /\ entityCompMap'[nextEntityId] = {}
        /\ \A id \in DOMAIN entityCompMap : entityCompMap'[id] = entityCompMap[id]
    BY <2>1, <2>2, <2>3, SMT DEF Registered
  <2>5. /\ entityIds'[n + 1] = nextEntityId
        /\ k # n + 1 => entityIds'[k] = entityIds[k]
    BY <1>2, <2>1, <2>2, SMT
  <2> QED
    BY <1>4, <1>5, <1>6, <1>7, <2>4, <2>5, Zenon
<1> QED
  BY <1>8, <1>9

LEMMA AddComponentPlaced ==
  ASSUME Shape, Grouped, Identified, Placed, AddComponent
  PROVE  Placed'
<1> DEFINE name   == ComponentsOf(n)[j + 1]
           group  == Group(name)
           comp   == [typeName |-> name, hasSchema |-> name \in request.declared]
           handle == <<group, Len(Stored(group)) + 1>>
<1>1. /\ typeNameGroupMap' = [x \in DOMAIN typeNameGroupMap \cup {name} |-> Group(x)]
      /\ compStore' = [g \in DOMAIN compStore \cup {group} |->
                         IF g = group THEN Append(Stored(g), comp) ELSE compStore[g]]
      /\ entityCompMap' = [entityCompMap EXCEPT ![entityIds[n]] = @ \cup {handle}]
      /\ created' = [created EXCEPT ![n] = Append(@, handle)]
      /\ j' = j + 1
      /\ UNCHANGED <<request, entityIds, phase, n>>
      /\ phase = "entities"
  BY Zenon DEF AddComponent, simDef
<1>2. /\ n \in 1 .. L /\ L \in Nat /\ L' = L
      /\ j + 1 \in 1 .. Len(ComponentsOf(n)) /\ j \in Nat
      /\ name \in Names /\ group \in Nat
      /\ Stored(group) \in Seq(Component) /\ Len(Stored(group)) \in Nat
      /\ Len(created) = n /\ created[n] \in Seq(Nat \X Nat)
      /\ handle \in Nat \X Nat
  <2>1. n \in 1 .. L /\ j + 1 \in 1 .. Len(ComponentsOf(n)) /\ name \in Names /\ group \in Nat
    BY Adding
  <2>2. Stored(group) \in Seq(Component) /\ Len(Stored(group)) \in Nat
    BY StoredFacts
  <2>3. j \in Nat /\ Len(created) = n /\ created[n] \in Seq(Nat \X Nat)
    BY <2>1, SMT DEF Shape
  <2>4. handle \in Nat \X Nat
    BY <2>1, <2>2, SMT
  <2>5. L \in Nat /\ L' = L
    BY <1>1, EntitiesAre DEF Shape, L
  <2> QED
    BY <2>1, <2>2, <2>3, <2>4, <2>5
<1>3. comp \in Component
  <2> DEFINE hasSchema == name \in request.declared
  <2>1. hasSchema \in BOOLEAN
    BY SMT
  <2>2. name \in Names
    BY <1>2
  <2> HIDE DEF name, hasSchema
  <2>3. [typeName |-> name, hasSchema |-> hasSchema] \in Component
    BY <2>1, <2>2, SMT DEF Component
  <2> QED
    BY <2>3, Zenon DEF hasSchema
<1>4. /\ handle[1] = group /\ handle[2] = Len(Stored(group)) + 1
  BY SMT
<1>5. /\ name \in DOMAIN typeNameGroupMap' /\ typeNameGroupMap'[name] = group
      /\ \A x \in DOMAIN typeNameGroupMap :
           x \in DOMAIN typeNameGroupMap' /\ typeNameGroupMap'[x] = typeNameGroupMap[x]
  <2>1. \A x \in DOMAIN typeNameGroupMap : Group(x) = typeNameGroupMap[x]
    BY <1>2, GroupFacts
  <2> HIDE DEF name
  <2> QED
    BY <1>1, <2>1, Zenon
<1> HIDE DEF name, comp
<1>6. /\ group \in DOMAIN compStore'
      /\ Len(compStore'[group]) = Len(Stored(group)) + 1
      /\ \A g \in DOMAIN compStore :
           /\ g \in DOMAIN compStore'
           /\ Len(compStore[g]) \in Nat /\ Len(compStore'[g]) \in Nat
           /\ Len(compStore[g]) <= Len(compStore'[g])
  <2> DEFINE grown == Append(Stored(group), comp)
  <2>1. Len(grown) = Len(Stored(group)) + 1
    BY <1>2, <1>3, Appended
  <2>2. DOMAIN compStore' = DOMAIN compStore \cup {group} /\ compStore'[group] = grown
    BY <1>1, Zenon
  <2> HIDE DEF grown
  <2>3. ASSUME NEW g \in DOMAIN compStore
        PROVE  /\ Len(compStore[g]) \in Nat /\ Len(compStore'[g]) \in Nat
               /\ Len(compStore[g]) <= Len(compStore'[g])
    <3>1. compStore[g] \in Seq(Component) /\ Len(compStore[g]) \in Nat
      <4>1. compStore[g] \in Seq(Component)
        BY Zenon DEF Grouped
      <4> QED
        BY <4>1, SMT
    <3>2. CASE g = group
      <4>1. compStore[g] = Stored(group) /\ compStore'[g] = grown
        BY <2>2, <3>2, Zenon DEF Stored
      <4>2. Len(compStore'[g]) = Len(compStore[g]) + 1
        BY <2>1, <4>1, Zenon
      <4> QED
        BY <3>1, <4>2, SMT
    <3>3. CASE g # group
      <4>1. compStore'[g] = compStore[g]
        BY <1>1, <3>3, Zenon
      <4>2. Len(compStore[g]) <= Len(compStore[g])
        BY <3>1, SMT
      <4> QED
        BY <3>1, <4>1, <4>2, Zenon
    <3> QED
      BY <3>2, <3>3
  <2> QED
    BY <2>1, <2>2, <2>3, Zenon
<1>7. ASSUME NEW h, NEW x, h = handle, x = name
      PROVE  InStore(h, x)'
  <2>1. Len(Stored(group)) + 1 \in 1 .. Len(Stored(group)) + 1
    BY <1>2, SMT
  <2> HIDE DEF handle, group
  <2> QED
    BY <1>4, <1>5, <1>6, <1>7, <2>1, Zenon DEF InStore
<1>8. ASSUME NEW h, NEW x, InStore(h, x)
      PROVE  InStore(h, x)'
  <2>1. /\ x \in DOMAIN typeNameGroupMap' /\ h[1] = typeNameGroupMap'[x]
        /\ h[1] \in DOMAIN compStore'
    BY <1>5, <1>6, <1>8, Zenon DEF InStore
  <2>2. h[2] \in 1 .. Len(compStore'[h[1]])
    <3>1. /\ Len(compStore[h[1]]) \in Nat /\ Len(compStore'[h[1]]) \in Nat
          /\ Len(compStore[h[1]]) <= Len(compStore'[h[1]])
          /\ h[2] \in 1 .. Len(compStore[h[1]])
      BY <1>6, <1>8, Zenon DEF InStore
    <3> QED
      BY <3>1, SMT
  <2> QED
    BY <2>1, <2>2, Zenon DEF InStore
<1> HIDE DEF handle, group
<1>9. /\ \A k \in 1 .. n : k # n => created'[k] = created[k]
      /\ Len(created[n]) = j /\ Len(created'[n]) = j + 1
      /\ created'[n][j + 1] = handle
      /\ \A a \in 1 .. j : created'[n][a] = created[n][a]
  <2>1. Len(created[n]) = j
    BY <1>2, SMT DEF Placed, Created
  <2> DEFINE longer == Append(created[n], handle)
  <2>2. /\ Len(longer) = j + 1 /\ longer[j + 1] = handle
        /\ \A a \in 1 .. j : longer[a] = created[n][a]
    BY <1>2, <2>1, Appended
  <2>3. n \in DOMAIN created /\ DOMAIN created = 1 .. n
    BY <1>2, SMT DEF Shape
  <2>4. created'[n] = longer /\ \A k \in 1 .. n : k # n => created'[k] = created[k]
    BY <1>1, <2>3, Zenon
  <2> HIDE DEF longer
  <2> QED
    BY <2>1, <2>2, <2>4, Zenon
<1>10. Created'
  <2>1. ASSUME NEW k \in 1 .. n
        PROVE  /\ Len(created'[k]) = IF k = n THEN j + 1 ELSE Len(ComponentsOf(k))
               /\ \A a \in 1 .. Len(created'[k]) : InStore(created[k][a], ComponentsOf(k)[a])'
    <3>1. /\ Len(created[k]) = IF k = n THEN j ELSE Len(ComponentsOf(k))
          /\ \A a \in 1 .. Len(created[k]) : InStore(created[k][a], ComponentsOf(k)[a])
      BY Zenon DEF Placed, Created
    <3>2. CASE k # n
      <4>1. created'[k] = created[k]
        BY <1>9, <3>2
      <4>2. ASSUME NEW a \in 1 .. Len(created'[k])
            PROVE  InStore(created[k][a], ComponentsOf(k)[a])'
        <5>1. InStore(created[k][a], ComponentsOf(k)[a])
          BY <3>1, <4>1, Zenon
        <5>2. PICK h, x : h = created[k][a] /\ x = ComponentsOf(k)[a]
          OBVIOUS
        <5>3. InStore(h, x)'
          BY <1>8, <5>1, <5>2, Zenon
        <5> QED
          BY <1>1, <4>1, <5>2, <5>3, Zenon DEF InStore, ComponentsOf
      <4> QED
        BY <3>1, <3>2, <4>1, <4>2, Zenon
    <3>3. CASE k = n
      <4>1. ASSUME NEW a \in 1 .. Len(created'[k])
            PROVE  InStore(created[k][a], ComponentsOf(k)[a])'
        <5>1. a \in 1 .. j \/ a = j + 1
          BY <1>2, <1>9, <3>3, <4>1, SMT
        <5>2. PICK h, x : h = created'[k][a] /\ x = ComponentsOf(k)[a]
          OBVIOUS
        <5>3. InStore(h, x)'
          <6>1. CASE a \in 1 .. j
            <7>1. h = created[k][a] /\ a \in 1 .. Len(created[k])
              BY <1>9, <3>3, <5>2, <6>1, Zenon
            <7> QED
              BY <1>8, <3>1, <5>2, <7>1, Zenon
          <6>2. CASE a = j + 1
            <7>1. h = handle /\ x = name
              BY <1>9, <3>3, <5>2, <6>2, Zenon DEF name
            <7> QED
              BY <1>7, <7>1
          <6> QED
            BY <5>1, <6>1, <6>2
        <5> QED
          BY <1>1, <5>2, <5>3, Zenon DEF InStore, ComponentsOf
      <4> QED
        BY <1>9, <3>3, <4>1, Zenon
    <3> QED
      BY <3>2, <3>3
  <2>2. phase' # "done"
    BY <1>1, SMT
  <2> QED
    BY <1>1, <2>1, <2>2, Zenon DEF Created, ComponentsOf
<1>11. ASSUME NEW k \in 1 .. n
       PROVE  Handles(k)' = IF k = n THEN Handles(k) \cup {handle} ELSE Handles(k)
  <2>1. ASSUME k # n PROVE Handles(k)' = Handles(k)
    <3>1. created'[k] = created[k]
      BY <1>9, <2>1
    <3> QED
      BY <3>1, Zenon DEF Handles
  <2>2. ASSUME k = n PROVE Handles(k)' = Handles(k) \cup {handle}
    <3>1. 1 .. j + 1 = 1 .. j \cup {j + 1}
      BY <1>2, SMT
    <3>2. Handles(k)' = {created'[k][a] : a \in 1 .. j \cup {j + 1}}
      BY <1>9, <2>2, <3>1, Zenon DEF Handles
    <3>3. Handles(k) = {created[k][a] : a \in 1 .. j}
      BY <1>9, <2>2, Zenon DEF Handles
    <3>4. \A a \in 1 .. j : created'[k][a] = created[k][a]
      BY <1>9, <2>2, Zenon
    <3>5. created'[k][j + 1] = handle
      BY <1>9, <2>2, Zenon
    <3>6. {created'[k][a] : a \in 1 .. j \cup {j + 1}} =
            {created[k][a] : a \in 1 .. j} \cup {created'[k][j + 1]}
      <4> DEFINE f == created'[k]
                 g == created[k]
                 S == 1 .. j
                 e == j + 1
      <4>1. \A a \in S : f[a] = g[a]
        BY <3>4
      <4> HIDE DEF f, g, S, e
      <4>2. {f[a] : a \in S \cup {e}} = {g[a] : a \in S} \cup {f[e]}
        <5>1. ASSUME NEW x \in {f[a] : a \in S \cup {e}}
              PROVE  x \in {g[a] : a \in S} \cup {f[e]}
          BY <4>1, Zenon
        <5>2. ASSUME NEW x \in {g[a] : a \in S} \cup {f[e]}
              PROVE  x \in {f[a] : a \in S \cup {e}}
          BY <4>1, Zenon
        <5> QED
          BY <5>1, <5>2, Zenon
      <4> QED
        BY <4>2, Zenon DEF f, g, S, e
    <3> QED
      BY <3>2, <3>3, <3>5, <3>6, Zenon
  <2> QED
    BY <2>1, <2>2, Zenon
<1>12. ASSUME Respected PROVE Indexed'
  <2>1. Distinct /\ Filled
    BY <1>12 DEF Identified
  <2>2. entityIds[n] # UNSET /\ n <= n
    BY <1>2, <2>1, SMT DEF Filled
  <2> HIDE DEF L
  <2>3. Indexed /\ phase # "ids"
    BY <1>1, <1>12, SMT DEF Placed
  <2>4. ASSUME NEW k \in 1 .. L, entityIds[k] # UNSET
        PROVE  /\ entityIds[k] \in DOMAIN entityCompMap'
               /\ entityCompMap'[entityIds[k]] = IF k <= n THEN Handles(k)' ELSE {}
    <3>1. /\ entityIds[k] \in DOMAIN entityCompMap
          /\ entityCompMap[entityIds[k]] = IF k <= n THEN Handles(k) ELSE {}
      BY <2>3, <2>4, Zenon DEF Indexed
    <3>2. k <= n => k \in 1 .. n
      BY <1>2, SMT
    <3>3. DOMAIN entityCompMap' = DOMAIN entityCompMap
      BY <1>1, SMT
    <3>4. CASE k = n
      <4>1. entityCompMap'[entityIds[k]] = Handles(k) \cup {handle}
        BY <1>1, <2>2, <3>1, <3>4, Zenon
      <4> QED
        BY <1>11, <2>2, <3>1, <3>2, <3>3, <3>4, <4>1, Zenon
    <3>5. CASE k # n
      <4>1. entityIds[k] # entityIds[n]
        BY <1>2, <2>1, <2>4, <3>5, Zenon DEF Distinct
      <4>2. entityCompMap'[entityIds[k]] = entityCompMap[entityIds[k]]
        BY <1>1, <3>1, <4>1, Zenon
      <4> QED
        BY <1>11, <3>1, <3>2, <3>3, <3>5, <4>2, Zenon
    <3> QED
      BY <3>4, <3>5
  <2> QED
    BY <1>1, <1>2, <2>4, Zenon DEF Indexed
<1>13. Respected' => Respected
  BY <1>1, Zenon DEF Respected, ConfiguredDistinct, EntityHeadroom, Entities
<1> QED
  BY <1>10, <1>12, <1>13 DEF Placed

LEMMA SetSystemIdsPlaced ==
  ASSUME Shape, Placed, SetSystemIds
  PROVE  Placed'
<1>1. /\ UNCHANGED <<request, entityIds, n, j, entityCompMap, typeNameGroupMap,
                     compStore, created>>
      /\ phase' = "done" /\ phase = "entities"
      /\ n > 0 => j = Len(ComponentsOf(n))
  BY Zenon DEF SetSystemIds, indexes, EntityDone
<1>2. Created'
  BY <1>1, CreatedSame DEF Placed
<1>3. phase # "ids"
  BY <1>1, SMT
<1>4. Respected' => Indexed'
  BY <1>1, <1>3, RespectedSame, IndexedSame DEF Placed
<1> QED
  BY <1>2, <1>4 DEF Placed


-----------------------------------------------------------------------------
(* The theorems.                                                           *)

IInv == Shape /\ Grouped /\ Identified /\ Placed /\ SystemIdsIdentify

LEMMA Initially == Init => IInv
<1> SUFFICES ASSUME Init PROVE IInv
  OBVIOUS
<1>1. Shape /\ Grouped /\ Identified /\ Placed
  BY InitShape, InitIdentified, InitPlaced
<1>2. phase # "done"
  BY SMT DEF Init
<1> QED
  BY <1>1, <1>2 DEF IInv, SystemIdsIdentify

LEMMA Preserved ==
  ASSUME IInv, [Next]_vars
  PROVE  IInv'
<1> USE DEF IInv
<1>1. CASE SetEntityIds
  <2>1. phase' # "done"
    BY <1>1, SMT DEF SetEntityIds
  <2> QED
    BY <1>1, <2>1, SetEntityIdsShape, SetEntityIdsIdentified, SetEntityIdsPlaced
       DEF SystemIdsIdentify
<1>2. CASE NextEntity
  <2>1. phase' # "done"
    BY <1>2, SMT DEF NextEntity
  <2>2. Placed'
    <3>1. Respected' => Respected
      BY <1>2, Zenon DEF NextEntity, Respected, ConfiguredDistinct, EntityHeadroom, Entities
    <3> QED
      BY <1>2, <3>1, NextEntityCreated, NextEntityIndexed DEF Placed
  <2> QED
    BY <1>2, <2>1, <2>2, NextEntityShape, NextEntityIdentified DEF SystemIdsIdentify
<1>3. CASE AddComponent
  <2>1. phase' # "done"
    BY <1>3, SMT DEF AddComponent
  <2> QED
    BY <1>3, <2>1, AddComponentShape, AddComponentIdentified, AddComponentPlaced
       DEF SystemIdsIdentify
<1>4. CASE SetSystemIds
  <2>1. request' = request
    BY <1>4 DEF SetSystemIds
  <2>2. SystemIdsIdentify'
    BY <1>4, <2>1, SetSystemIdsIdentify, Zenon
       DEF SystemIdsIdentify, SystemHeadroom, Systems
  <2> QED
    BY <1>4, <2>2, SetSystemIdsShape, SetSystemIdsIdentified, SetSystemIdsPlaced
<1>5. CASE UNCHANGED vars
  <2>1. UNCHANGED <<request, entityIds, systemIds, phase, n, j, nextEntityId,
                    entityCompMap, typeNameGroupMap, compStore, created>>
    BY <1>5, Zenon DEF vars, simDef, indexes
  <2>2. Shape'
    BY <2>1, Zenon DEF Shape, L, Systems, ComponentsOf
  <2>3. Grouped'
    BY <2>1, Zenon DEF Grouped, GroupsHoldOneType
  <2>4. Identified'
    BY <2>1, Zenon DEF Identified, Filled, Room, Distinct, Respected,
                       ConfiguredDistinct, EntityHeadroom, L, Entities
  <2>5. SystemIdsIdentify'
    BY <2>1, Zenon DEF SystemIdsIdentify, SystemHeadroom, Systems
  <2>6. Placed'
    <3>1. Created'
      BY <2>1, CreatedSame, Zenon DEF Placed, Created
    <3>2. CASE phase = "ids"
      BY <2>1, <3>1, <3>2 DEF Placed, Indexed
    <3>3. CASE phase # "ids"
      BY <2>1, <3>1, <3>3, RespectedSame, IndexedSame DEF Placed
    <3> QED
      BY <3>2, <3>3
  <2> QED
    BY <2>2, <2>3, <2>4, <2>5, <2>6
<1> QED
  BY <1>1, <1>2, <1>3, <1>4, <1>5 DEF Next

LEMMA Invariance == Spec => []IInv
<1>1. IInv /\ [Next]_vars => IInv'
  BY Preserved
<1> QED
  BY Initially, <1>1, PTL DEF Spec

(***************************************************************************)
(* Type correctness of the constructor's state, for every set of           *)
(* definitions and every width of an id.                                   *)
(***************************************************************************)
THEOREM TypeCorrect == Spec => []TypeOK
<1>1. IInv => TypeOK
  <2> SUFFICES ASSUME IInv PROVE TypeOK
    OBVIOUS
  <2>1. Shape /\ Grouped
    BY DEF IInv
  <2>2. entityIds \in [Entities -> Ids] /\ n \in 0 .. Len(request.entities)
    BY <2>1, EntitiesAre, Zenon DEF Shape, L
  <2>3. j \in 0 .. IF n = 0 THEN 0 ELSE Len(ComponentsOf(n))
    <3>1. n # 0 => Len(ComponentsOf(n)) \in Nat
      BY <2>1, EntitiesAre, SMT DEF Shape
    <3> QED
      BY <2>1, <3>1, EntitiesAre, SMT DEF Shape
  <2> QED
    BY <2>1, <2>2, <2>3, Zenon DEF TypeOK, Shape, Grouped
<1> QED
  BY Invariance, <1>1, PTL

(***************************************************************************)
(* A group of the component store holds components of one type only, and   *)
(* two type names never share one, however many entities a definition      *)
(* lists and in whatever order names first appear in it                    *)
(* (componentTypeIndex.cpp, componentStore.h:18-23).                       *)
(***************************************************************************)
THEOREM GroupsTellTypesApart == Spec => []GroupsHoldOneType
<1>1. IInv => GroupsHoldOneType
  BY DEF IInv, Grouped
<1> QED
  BY Invariance, <1>1, PTL

(***************************************************************************)
(* Entity ids identify entities, for any number of entities and any        *)
(* distinct configured ids that leave room above the largest               *)
(* (entityIndex.h:34-50, simulation.h:27-44).                              *)
(***************************************************************************)
THEOREM EntityIdsAreKeys == Spec => []EntityIdsIdentify
<1>1. IInv => EntityIdsIdentify
  <2> SUFFICES ASSUME IInv, ConfiguredDistinct, EntityHeadroom, phase = "done"
               PROVE  /\ \A k, l \in Entities : entityIds[k] = entityIds[l] => k = l
                      /\ \A k \in Entities :
                           /\ entityIds[k] # UNSET
                           /\ request.entities[k].id \in {UNSET, entityIds[k]}
    BY DEF EntityIdsIdentify
  <2>1. Shape /\ Filled /\ Distinct /\ n = L
    BY DEF IInv, Identified, Respected, Filled
  <2>2. L \in Nat /\ Entities = 1 .. L
    BY <2>1, EntitiesAre DEF Shape
  <2> HIDE DEF L
  <2>3. \A k \in 1 .. L : k <= n
    BY <2>1, <2>2, SMT
  <2> QED
    BY <2>1, <2>2, <2>3, Zenon DEF Filled, Distinct
<1> QED
  BY Invariance, <1>1, PTL

(***************************************************************************)
(* Generated system ids are set and meet no other system's id, for any     *)
(* number of systems with room above the largest id (simulation.h:74-90).  *)
(***************************************************************************)
THEOREM SystemIdsAreKeys == Spec => []SystemIdsIdentify
<1>1. IInv => SystemIdsIdentify
  BY DEF IInv
<1> QED
  BY Invariance, <1>1, PTL

(***************************************************************************)
(* A lookup (ics.cpp:4-25) of a component an entity was defined with finds *)
(* that component and no other, and of a name it was not defined with      *)
(* nothing, for any number of entities, types and components: what the     *)
(* three tables hold about a component is never told apart by when it was  *)
(* created.                                                                *)
(***************************************************************************)
THEOREM LookupIsExact == Spec => []LookupFindsOwnComponent
<1>1. IInv => LookupFindsOwnComponent
  <2> SUFFICES ASSUME IInv, ConfiguredDistinct, EntityHeadroom, NamesDistinct,
                      phase = "done", NEW k \in Entities
               PROVE  /\ \A a \in DOMAIN ComponentsOf(k) :
                           Matches(ComponentsOf(k)[a], entityIds[k]) = {created[k][a]}
                      /\ \A name \in Names :
                           (\A a \in DOMAIN ComponentsOf(k) : ComponentsOf(k)[a] # name) =>
                             Matches(name, entityIds[k]) = {}
    BY Zenon DEF LookupFindsOwnComponent
  <2> DEFINE names == ComponentsOf(k)
             id    == entityIds[k]
  <2>1. /\ Shape /\ Grouped /\ Filled /\ Created /\ Indexed
        /\ n = L /\ phase # "ids"
    BY SMT DEF IInv, Identified, Placed, Respected, Filled
  <2>2. /\ k \in 1 .. n /\ k \in 1 .. L /\ k <= n
        /\ DOMAIN names = 1 .. Len(names)
    <3>1. L \in Nat /\ Entities = 1 .. L
      BY <2>1, EntitiesAre DEF Shape
    <3>2. names \in Seq(Names)
      BY <2>1, <3>1, EntitiesAre DEF Shape
    <3> QED
      BY <2>1, <3>1, <3>2, SMT
  <2> HIDE DEF L
  <2>3. id \in DOMAIN entityCompMap /\ entityCompMap[id] = Handles(k)
    BY <2>1, <2>2, Zenon DEF Indexed, Filled
  <2>4. /\ Len(created[k]) = Len(names)
        /\ \A a \in DOMAIN names : InStore(created[k][a], names[a])
    <3>1. Len(created[k]) = Len(names)
      <4>1. Len(created[k]) = IF k = n THEN j ELSE Len(names)
        BY <2>1, <2>2, Zenon DEF Created
      <4>2. k = n => j = Len(names)
        BY <2>1, <2>2, SMT DEF Created
      <4> QED
        BY <4>1, <4>2, Zenon
    <3> QED
      BY <2>1, <2>2, <3>1, Zenon DEF Created
  <2>5. \A a, b \in DOMAIN names : names[a] = names[b] => a = b
    BY Zenon DEF NamesDistinct
  <2>6. \A x, y \in DOMAIN typeNameGroupMap :
          typeNameGroupMap[x] = typeNameGroupMap[y] => x = y
    BY <2>1, Zenon DEF Grouped, GroupsHoldOneType
  <2>7. ASSUME NEW a \in DOMAIN names
        PROVE  created[k][a] \in AsCompSet
    <3> DEFINE h == created[k][a]
    <3>1. h \in Nat \X Nat
      <4>1. created[k] \in Seq(Nat \X Nat)
        BY <2>1, <2>2, SMT DEF Shape
      <4>2. a \in 1 .. Len(created[k])
        BY <2>2, <2>4, Zenon
      <4> QED
        BY <4>1, <4>2, SMT
    <3> HIDE DEF h
    <3>2. h = <<h[1], h[2]>>
      BY <3>1, SMT
    <3>3. h[1] \in DOMAIN compStore /\ h[2] \in 1 .. Len(compStore[h[1]])
      BY <2>4, Zenon DEF InStore, h
    <3>4. h[2] \in DOMAIN compStore[h[1]]
      <4>1. compStore[h[1]] \in Seq(Component)
        BY <2>1, <3>3, Zenon DEF Grouped
      <4> QED
        BY <3>3, <4>1, SMT
    <3>5. h \in AsCompSet
      <4> DEFINE g == h[1]
                 c == h[2]
      <4>1. h = <<g, c>> /\ g \in DOMAIN compStore /\ c \in DOMAIN compStore[g]
        BY <3>2, <3>3, <3>4, Zenon
      <4> HIDE DEF g, c
      <4>2. <<g, c>> \in {<<g, d>> : d \in DOMAIN compStore[g]}
        BY <4>1, Zenon
      <4> QED
        BY <4>1, <4>2, Zenon DEF AsCompSet
    <3> QED
      BY <3>5, Zenon DEF h
  <2>8. ASSUME NEW name
        PROVE  /\ \A h \in Matches(name, id) :
                    /\ name \in DOMAIN typeNameGroupMap /\ h[1] = typeNameGroupMap[name]
                    /\ \E b \in DOMAIN names : h = created[k][b]
               /\ \A b \in DOMAIN names :
                    /\ created[k][b] \in AsCompSet
                    /\ name \in DOMAIN typeNameGroupMap
                    /\ created[k][b][1] = typeNameGroupMap[name]
                    => created[k][b] \in Matches(name, id)
    <3>1. Handles(k) = {created[k][b] : b \in DOMAIN names}
      BY <2>2, <2>4, Zenon DEF Handles
    <3> HIDE DEF names, id
    <3>2. Matches(name, id) = OfType(name) \cap {created[k][b] : b \in DOMAIN names}
      BY <2>3, <3>1, Zenon DEF Matches
    <3> QED
      BY <3>2, Zenon DEF OfType
  <2> HIDE DEF names, id
  <2>9. ASSUME NEW a \in DOMAIN names
        PROVE  Matches(names[a], id) = {created[k][a]}
    <3>1. ASSUME NEW h \in Matches(names[a], id) PROVE h = created[k][a]
      <4>1. PICK b \in DOMAIN names : h = created[k][b]
        BY <2>8, Zenon
      <4>2. typeNameGroupMap[names[a]] = typeNameGroupMap[names[b]]
        BY <2>4, <2>8, <4>1, Zenon DEF InStore
      <4>3. names[a] = names[b]
        BY <2>4, <2>6, <4>2, Zenon DEF InStore
      <4> QED
        BY <2>5, <4>1, <4>3, Zenon
    <3>2. created[k][a] \in Matches(names[a], id)
      BY <2>4, <2>7, <2>8, Zenon DEF InStore
    <3> QED
      BY <3>1, <3>2, Zenon
  <2>10. ASSUME NEW name \in Names, \A a \in DOMAIN names : names[a] # name
         PROVE  Matches(name, id) = {}
    <3>1. ASSUME NEW h \in Matches(name, id) PROVE FALSE
      <4>1. PICK b \in DOMAIN names : h = created[k][b]
        BY <2>8, Zenon
      <4>2. /\ name \in DOMAIN typeNameGroupMap
            /\ typeNameGroupMap[name] = typeNameGroupMap[names[b]]
        BY <2>4, <2>8, <4>1, Zenon DEF InStore
      <4> QED
        BY <2>4, <2>6, <2>10, <4>2, Zenon DEF InStore
    <3> QED
      BY <3>1, Zenon
  <2> QED
    BY <2>9, <2>10, Zenon DEF names, id
<1> QED
  BY Invariance, <1>1, PTL
=============================================================================
