---------------------------- MODULE MCEventPush ------------------------------
(* Values of the constants of EventPush for the model checker. *)
EXTENDS EventPush, TLC

ImportSymmetry == Permutations(Importer) \cup Permutations(Accepted)
=============================================================================
