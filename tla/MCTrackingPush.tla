--------------------------- MODULE MCTrackingPush ----------------------------
(* Values of the constants of TrackingPush for the model checker. *)
EXTENDS TrackingPush, TLC

\* Two platforms, so that one can be disabled while the other goes on.
PlatformOfTwo == "a" :> "A" @@ "b" :> "B"
=============================================================================
