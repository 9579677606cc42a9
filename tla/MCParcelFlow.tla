---------------------------- MODULE MCParcelFlow -----------------------------
(* Values of the constants of ParcelFlow for the model checker. *)
EXTENDS ParcelFlow, TLC

\* REMAINING leaves a new parcel in status CREATED, which the job does not push.
FlowEvents == 1 :> "DELIVERING" @@ 2 :> "ARRIVED" @@ 3 :> "REMAINING"

NoAim == "p1" :> NotCrawled
OnePlatform == "p1" :> "A"
=============================================================================
