---------------------------- MODULE MCParcelPush -----------------------------
(* Values of the constants of ParcelPush for the model checker. *)
EXTENDS ParcelPush, TLC

\* A platform with two parcels, for the order and the contents of its messages, and another,
\* so that one can fail while the other goes on.
PlatformOfThree == "p1" :> "A" @@ "p2" :> "A" @@ "p3" :> "B"
=============================================================================
