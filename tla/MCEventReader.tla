---------------------------- MODULE MCEventReader ----------------------------
(* Roots are treated alike. *)
EXTENDS EventReader, TLC

MCSymmetry == Permutations(Roots)
=============================================================================
