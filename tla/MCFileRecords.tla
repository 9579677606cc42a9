---------------------------- MODULE MCFileRecords ----------------------------
(* Values of the constants of FileRecords for the model checker. *)
EXTENDS FileRecords

\* Both files come to one server.
OneServer == [f \in File |-> "ftl"]
=============================================================================
