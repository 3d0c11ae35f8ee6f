----------------------------- MODULE Simulation ------------------------------
(***************************************************************************)
(* The constructor of Simulation (sim/include/simulation.h): it takes the  *)
(* definition a client sent, gives ids to the entities and systems that    *)
(* have none, creates the components of every entity and files them in the *)
(* component store, the type index and the entity index.  Lookups then go  *)
(* through all three (sim/src/ics.cpp).                                    *)
(*                                                                         *)
(* One action per iteration of the constructor's loops.  A component store *)
(* of the engine only ever grows, so a component vector is the sequence of *)
(* what was added and the id of a component is its place in it (theorems   *)
(* Refinement and AsCompSetExact of module CompVecProofs).                 *)
(*                                                                         *)
(* A definition Bug<Name> is a mutated form of <Name> that the             *)
(* specification does not use.                                             *)
(***************************************************************************)
EXTENDS Naturals, Sequences, FiniteSets

CONSTANTS
  Names,     \* component type names
  IdMod,     \* ids are unsigned integers below IdMod (2^32 in the code)
  SimDefs    \* the definitions clients may send

UNSET == 0   \* UNSET_ENTITY_ID and UNSET_SYSTEM_ID

Ids == 0 .. IdMod - 1

EntityDef == [id : Ids, components : Seq(Names)]

(* declared: the names for which the definition lists a ComponentDef.      *)
SimDef == [entities : Seq(EntityDef), systems : Seq(Ids),
           declared : SUBSET Names]

ASSUME IdModAssumption == IdMod \in Nat /\ IdMod > 1
ASSUME SimDefsAssumption == SimDefs \subseteq SimDef

VARIABLES
  request,            \* the definition as the client sent it
  entityIds,          \* simDef: the definition, ids being filled in; all but
  systemIds,          \*   the ids is as the client sent it
  phase,              \* which part of the constructor comes next
  n, j,               \* the entity in progress and its components created
  nextEntityId,       \* EntityIndex
  entityCompMap,      \*   handles of each entity id
  typeNameGroupMap,   \* ComponentTypeIndex: the group of each type name
  compStore,          \* ComponentStore: the components of each group
  created             \* history: the handles created for each entity

simDef == <<entityIds, systemIds>>
indexes == <<entityCompMap, typeNameGroupMap>>
vars == <<request, simDef, phase, n, j, nextEntityId, indexes, compStore, created>>

Component == [typeName : Names, hasSchema : BOOLEAN]

Entities == DOMAIN request.entities
Systems == DOMAIN request.systems
ComponentsOf(k) == request.entities[k].components
ConfiguredIds == {entityIds[k] : k \in Entities} \ {UNSET}

Init ==
  /\ request \in SimDefs
  /\ entityIds = [k \in Entities |-> request.entities[k].id]
  /\ systemIds = request.systems
  /\ phase = "ids"
  /\ n = 0
  /\ j = 0
  /\ nextEntityId = 0
  /\ entityCompMap = [id \in {} |-> {}]
  /\ typeNameGroupMap = [name \in {} |-> 0]
  /\ compStore = [g \in {} |-> <<>>]
  /\ created = <<>>

-----------------------------------------------------------------------------
BugSuccessorNoWrap(id) == id + 1
BugSuccessorForgotten(id) == id

(* The increment of an unsigned integer.                                   *)
Successor(id) == (id + 1) % IdMod

(* setEntityIds: generation starts after the largest configured id.        *)
SetEntityIds ==
  /\ phase = "ids"
  /\ entityCompMap' = [id \in ConfiguredIds |-> {}]
  /\ \E maxId \in ConfiguredIds \cup {0} :
       /\ \A id \in ConfiguredIds : id <= maxId
       /\ nextEntityId' = Successor(maxId)
  /\ phase' = "entities"
  /\ UNCHANGED <<request, simDef, n, j, typeNameGroupMap, compStore, created>>

(* addEntityId, called again if it returned the value that means unset;    *)
(* the ids it went through are all registered, one that already is keeps   *)
(* its entry.                                                              *)
GeneratedId == IF nextEntityId = UNSET THEN Successor(UNSET) ELSE nextEntityId

Registered(ids) ==
  [id \in DOMAIN entityCompMap \cup ids |->
     IF id \in DOMAIN entityCompMap THEN entityCompMap[id] ELSE {}]

GenerateEntityId ==
  /\ entityIds' = [entityIds EXCEPT ![n + 1] = GeneratedId]
  /\ entityCompMap' = Registered({nextEntityId, GeneratedId})
  /\ nextEntityId' = Successor(GeneratedId)

EntityDone == n > 0 => j = Len(ComponentsOf(n))

NextEntity ==
  /\ phase = "entities"
  /\ EntityDone
  /\ n < Len(request.entities)
  /\ IF entityIds[n + 1] = UNSET
       THEN GenerateEntityId
       ELSE UNCHANGED <<entityIds, entityCompMap, nextEntityId>>
  /\ n' = n + 1
  /\ j' = 0
  /\ created' = Append(created, <<>>)
  /\ UNCHANGED <<request, systemIds, phase, typeNameGroupMap, compStore>>

BugGroupCounterStuck(name) ==
  IF name \in DOMAIN typeNameGroupMap THEN typeNameGroupMap[name] ELSE 0

(* addComponentType: groups are numbered in the order names first appear.  *)
Group(name) ==
  IF name \in DOMAIN typeNameGroupMap THEN typeNameGroupMap[name]
                                      ELSE Cardinality(DOMAIN typeNameGroupMap)

Stored(g) == IF g \in DOMAIN compStore THEN compStore[g] ELSE <<>>

(* Component j + 1 of entity n.  A name without a ComponentDef gets a      *)
(* default one, with an empty schema.                                      *)
AddComponent ==
  LET name   == ComponentsOf(n)[j + 1]
      group  == Group(name)
      comp   == [typeName |-> name, hasSchema |-> name \in request.declared]
      handle == <<group, Len(Stored(group)) + 1>>
  IN
  /\ phase = "entities"
  /\ ~EntityDone
  /\ typeNameGroupMap' = [x \in DOMAIN typeNameGroupMap \cup {name} |-> Group(x)]
  /\ compStore' = [g \in DOMAIN compStore \cup {group} |->
                     IF g = group THEN Append(Stored(g), comp) ELSE compStore[g]]
  /\ entityCompMap' = [entityCompMap EXCEPT ![entityIds[n]] = @ \cup {handle}]
  /\ created' = [created EXCEPT ![n] = Append(@, handle)]
  /\ j' = j + 1
  /\ UNCHANGED <<request, simDef, phase, n, nextEntityId>>

(* The unset systems are numbered upwards from the largest id in use.      *)
UnsetUpTo(k) == {l \in 1 .. k : systemIds[l] = UNSET}

BugSystemIdsFromCount(maxId) ==
  [k \in Systems |-> IF systemIds[k] = UNSET THEN k % IdMod ELSE systemIds[k]]

NumberedFrom(maxId) ==
  [k \in Systems |-> IF systemIds[k] = UNSET
                       THEN (maxId + Cardinality(UnsetUpTo(k))) % IdMod
                       ELSE systemIds[k]]

SetSystemIds ==
  /\ phase = "entities"
  /\ n = Len(request.entities)
  /\ EntityDone
  /\ \E maxId \in {systemIds[k] : k \in Systems} \cup {0} :
       /\ \A k \in Systems : systemIds[k] <= maxId
       /\ systemIds' = NumberedFrom(maxId)
  /\ phase' = "done"
  /\ UNCHANGED <<request, entityIds, n, j, nextEntityId, indexes, compStore,
                 created>>

Next == SetEntityIds \/ NextEntity \/ AddComponent \/ SetSystemIds

Spec == Init /\ [][Next]_vars

-----------------------------------------------------------------------------
(***************************************************************************)
(* getComponent: everything stored, kept if it has the type and belongs to *)
(* the entity.  The call succeeds when exactly one handle is left.         *)
(***************************************************************************)
AsCompSet == UNION {{<<g, k>> : k \in DOMAIN compStore[g]} : g \in DOMAIN compStore}

OfType(name) ==
  {h \in AsCompSet : name \in DOMAIN typeNameGroupMap /\ h[1] = typeNameGroupMap[name]}

BugMatchesAnyEntity(name, id) == OfType(name)

Matches(name, id) ==
  OfType(name) \cap (IF id \in DOMAIN entityCompMap THEN entityCompMap[id] ELSE {})

-----------------------------------------------------------------------------
(***************************************************************************)
(* The shape of the constructor's state.                                   *)
(***************************************************************************)
TypeOK ==
  /\ request \in SimDef
  /\ entityIds \in [Entities -> Ids]
  /\ systemIds \in [Systems -> Ids]
  /\ phase \in {"ids", "entities", "done"}
  /\ n \in 0 .. Len(request.entities)
  /\ j \in 0 .. IF n = 0 THEN 0 ELSE Len(ComponentsOf(n))
  /\ nextEntityId \in Ids
  /\ DOMAIN entityCompMap \subseteq Ids
  /\ \A id \in DOMAIN entityCompMap : entityCompMap[id] \subseteq Nat \X Nat
  /\ DOMAIN typeNameGroupMap \subseteq Names
  /\ \A g \in DOMAIN compStore : compStore[g] \in Seq(Component)
  /\ Len(created) = n

(* What a client has to respect for ids to work out: the ids it configures *)
(* are different, ...                                                      *)
ConfiguredDistinct ==
  \A k, l \in Entities :
    request.entities[k].id = request.entities[l].id =>
      k = l \/ request.entities[k].id = UNSET

(* ... and leave room above them for the ids to generate.                  *)
EntityHeadroom ==
  \A k \in Entities :
    request.entities[k].id + Len(request.entities) < IdMod

SystemHeadroom ==
  \A k \in Systems :
    request.systems[k] + Len(request.systems) < IdMod

(***************************************************************************)
(* Entity ids identify entities (ecs.proto:14-16): at the end each entity  *)
(* has an id, its own, and the ids the client configured are kept, so that *)
(* applying the answer again changes nothing.  Generation skips past the   *)
(* configured ids (entityIndex.h:34-50, entityIndex.cpp:5-13).             *)
(***************************************************************************)
EntityIdsIdentify ==
  ConfiguredDistinct /\ EntityHeadroom /\ phase = "done" =>
    /\ \A k, l \in Entities : entityIds[k] = entityIds[l] => k = l
    /\ \A k \in Entities :
         /\ entityIds[k] # UNSET
         /\ request.entities[k].id \in {UNSET, entityIds[k]}

(***************************************************************************)
(* The same of generated system ids (simulation.h:74-90): none is unset    *)
(* and none meets the id of another system.                                *)
(***************************************************************************)
SystemIdsIdentify ==
  SystemHeadroom /\ phase = "done" =>
    \A k \in Systems :
      /\ systemIds[k] # UNSET
      /\ request.systems[k] = UNSET =>
           \A l \in Systems : systemIds[k] = systemIds[l] => k = l

(* No entity lists a component name twice.                                 *)
NamesDistinct ==
  \A k \in Entities :
    \A a, b \in DOMAIN ComponentsOf(k) :
      ComponentsOf(k)[a] = ComponentsOf(k)[b] => a = b

(***************************************************************************)
(* The store and the two indexes agree: getComponent (ics.cpp:4-25) with   *)
(* the id of an entity and the name of one of its components finds the     *)
(* component created for that place, and only it; with any other id of an  *)
(* entity it finds nothing of this one.                                    *)
(***************************************************************************)
LookupFindsOwnComponent ==
  ConfiguredDistinct /\ EntityHeadroom /\ NamesDistinct /\ phase = "done" =>
    \A k \in Entities :
      LET names == ComponentsOf(k) IN
        /\ \A a \in DOMAIN names :
             Matches(names[a], entityIds[k]) = {created[k][a]}
        /\ \A name \in Names :
             (\A a \in DOMAIN names : names[a] # name) =>
               Matches(name, entityIds[k]) = {}

(***************************************************************************)
(* Components of different types never share a group of the store: the     *)
(* code reads a whole group through one C++ type (componentStore.h:18-23). *)
(***************************************************************************)
GroupsHoldOneType ==
  /\ \A x, y \in DOMAIN typeNameGroupMap :
       typeNameGroupMap[x] = typeNameGroupMap[y] => x = y
  /\ \A g \in DOMAIN compStore : \A c \in DOMAIN compStore[g] :
       LET name == compStore[g][c].typeName IN
         name \in DOMAIN typeNameGroupMap /\ typeNameGroupMap[name] = g
=============================================================================
