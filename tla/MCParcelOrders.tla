--------------------------- MODULE MCParcelOrders ----------------------------
(* Values of the constants of ParcelOrders for the model checker. *)
EXTENDS ParcelOrders

\* Two orders at carriers, one at CAINIAO, and an import.
Kinds == [o \in Order |->
  CASE o \in {"o1", "o2"} -> "carrier" [] o = "o3" -> "cainiao" [] OTHER -> "import"]
Formats == [o \in Order |-> IF o = "o2" THEN "zpl" ELSE "pdf"]
=============================================================================
