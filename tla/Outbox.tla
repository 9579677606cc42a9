------------------------------- MODULE Outbox --------------------------------
(***************************************************************************)
(* What a push job promises of the table it works off, whatever the table  *)
(* holds: an item leaves the table only when it has been delivered at      *)
(* least once, or when the platform it is for does not want it.  Delivery  *)
(* is not exactly once: an item may be delivered again while it waits and  *)
(* even after it has left.                                                 *)
(***************************************************************************)
CONSTANT Item

VARIABLES
  requested,   \* items that were ever put into the table
  waiting,     \* items in the table
  delivered,   \* items handed to the consumer at least once
  excused      \* items given up because nobody wants them

vars == <<requested, waiting, delivered, excused>>

Init ==
  /\ requested = {}
  /\ waiting = {}
  /\ delivered = {}
  /\ excused = {}

Request(S) ==
  /\ S \cap requested = {}
  /\ requested' = requested \cup S
  /\ waiting' = waiting \cup S
  /\ UNCHANGED <<delivered, excused>>

Deliver(S) ==
  /\ S \subseteq requested
  /\ delivered' = delivered \cup S
  /\ UNCHANGED <<requested, waiting, excused>>

Remove(S) ==
  /\ S \cap waiting \subseteq delivered
  /\ waiting' = waiting \ S
  /\ UNCHANGED <<requested, delivered, excused>>

Excuse(S) ==
  /\ S \subseteq requested
  /\ waiting' = waiting \ S
  /\ excused' = excused \cup S
  /\ UNCHANGED <<requested, delivered>>

Next == \E S \in SUBSET Item : Request(S) \/ Deliver(S) \/ Remove(S) \/ Excuse(S)

Spec == Init /\ [][Next]_vars

\* Nothing that was put into the table is lost without a delivery or an excuse.
NothingLost == requested \subseteq waiting \cup delivered \cup excused
=============================================================================
