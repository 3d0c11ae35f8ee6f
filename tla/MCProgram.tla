------------------------------ MODULE MCProgram ------------------------------
(* Program with a few calls, and drivers older and newer than what the     *)
(* program asks for.                                                       *)
EXTENDS Program

MCVersions == {10, 21, 33, 46}
=============================================================================
