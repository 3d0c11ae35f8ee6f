--------------------------- MODULE MCSdkSimulation ---------------------------
(***************************************************************************)
(* One object and room for two calls given up; another object would have   *)
(* nothing to do with it.                                                  *)
(***************************************************************************)
EXTENDS SdkSimulation, TLC

CONSTANTS o1, s1, s2, pos, vel

MCStrayOf == [s \in Strays |-> o1]

(* Strays are alike.                                                       *)
Symmetry == Permutations(Strays)

Entity(id, components) == [id |-> id, components |-> components]

(* One id configured and one to generate, and two entities that collide.   *)
MCEntityDefs == {
  <<Entity(UNSET, {pos}), Entity(1, {vel})>>,
  <<Entity(UNSET, {pos}), Entity(UNSET, {pos})>>}
=============================================================================
