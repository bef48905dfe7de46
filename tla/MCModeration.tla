---------------------------- MODULE MCModeration ----------------------------
(***************************************************************************)
(* Instances of Moderation for TLC.  Names, credits, bases and Pokemon are *)
(* only compared for equality, so permuting them maps behaviours to        *)
(* behaviours; no liveness property is checked on these instances.         *)
(***************************************************************************)
EXTENDS Moderation, TLC

Symmetry == Permutations(Names) \cup Permutations(Credits)
                \cup Permutations(Bases) \cup Permutations(Pokemon)

=============================================================================
