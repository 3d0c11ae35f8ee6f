---------------------------- MODULE MCSimulation -----------------------------
(***************************************************************************)
(* Model checking of Simulation: every definition with up to two entities, *)
(* each without components, with one, with two or with a name repeated;    *)
(* every definition with three entities of one component each; and every   *)
(* list of up to four system ids.                                          *)
(***************************************************************************)
EXTENDS Simulation, SequencesExt

CONSTANTS pos, vel

MCNames == {pos, vel}

ComponentLists == {<<>>, <<pos>>, <<vel, pos>>, <<vel, vel>>}

Defs(entities, systems) ==
  [entities : entities, systems : systems, declared : {{pos}}]

(* What varies is the components of two entities, ...                      *)
ComponentRich ==
  Defs(BoundedSeq([id : Ids, components : ComponentLists], 2), {<<UNSET>>})

(* ... the ids of three entities ...                                       *)
IdRich ==
  Defs(TupleOf([id : Ids, components : {<<vel>>}], 3), {<<>>})

(* ... or the ids of the systems.                                          *)
SystemRich == Defs({<<>>}, BoundedSeq(Ids, 4))

MCSimDefs == ComponentRich \cup IdRich \cup SystemRich
=============================================================================
