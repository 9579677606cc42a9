------------------------------ MODULE MCInvoices ------------------------------
(***************************************************************************)
(* An invoice of Colissimo, and two of COLISPRIVE.                         *)
(***************************************************************************)
EXTENDS Invoices

MCKindOf == [i \in Invoice |-> IF i = "cm" THEN "colissimo" ELSE "colisprive"]
=============================================================================
