------------------------------ MODULE MCPicker ------------------------------
(***************************************************************************)
(* Instances of Picker for TLC.  There is no symmetry: CoversTheDex is a   *)
(* liveness property.                                                      *)
(***************************************************************************)
EXTENDS Picker

=============================================================================
