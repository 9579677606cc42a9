------------------------- MODULE MCTrackingHandler -------------------------
(* Values of the constants of TrackingHandler for the model checker. *)
EXTENDS TrackingHandler, TLC

\* A scan on the way, an arrival, and a code nobody recorded.
ApartEvents == 1 :> "DELIVERING" @@ 2 :> "ARRIVED" @@ 3 :> Unrecorded

\* A parcel crawled until it is delivered and one crawled until it is on its way.
TwoAims == "p1" :> "ARRIVED" @@ "p2" :> "IN_TRANSIT"

\* Overlapping handlers: an arrival, a return, and a code with an empty status.
OverlapEvents == 1 :> "LOST" @@ 2 :> "ARRIVED" @@ 3 :> "RETURNED" @@ 4 :> NoStatus

\* The handlers of a safety run are interchangeable.
HandlerSymmetry == Permutations(Handler)

OneAim == "p1" :> "ARRIVED"
=============================================================================
