---------------------------- MODULE TrackingPush -----------------------------
(***************************************************************************)
(* TrackingPushJob: the trackings a platform has asked for wait in         *)
(* npm_tracking_push_log with status READY.  An execution reads the oldest *)
(* of them, sends one message per platform and client, and then marks all  *)
(* it has read as SUCCESS.                                                 *)
(*                                                                         *)
(* NormalJob does not await handle, so that JobController starts the next  *)
(* execution whether or not the last one has ended.                        *)
(***************************************************************************)
EXTENDS Integers, Sequences, FiniteSets

CONSTANTS
  Group,         \* pairs of a platform and a client, or of a platform without one
  Platform,
  PlatformOf,    \* [Group -> Platform]
  Run,           \* executions of the job at the same time
  BatchLimit,    \* rows read by one execution (500 in the code)
  MaxRows,       \* bound: rows of npm_tracking_push_log
  MaxFailures    \* bound: failed calls and restarts

ASSUME PlatformAssumption == PlatformOf \in [Group -> Platform]
ASSUME SizeAssumption == BatchLimit \in Nat \ {0} /\ MaxRows \in Nat

VARIABLES
  row,        \* the group of every row; its place is its id
  ready,      \* the rows with status READY
  enabled,    \* the platforms with an enabled row in npm_tracking_push
  step,       \* where each execution is
  known,      \* the platforms it found enabled
  batch,      \* the rows it read
  unsent,     \* the groups it has still to send
  delivered,  \* the rows that were in a message
  failures

runVars == <<step, known, batch, unsent>>
vars == <<row, ready, enabled, runVars, delivered, failures>>

Id == 1 .. MaxRows

TypeOK ==
  /\ row \in Seq(Group) /\ Len(row) <= MaxRows
  /\ ready \subseteq DOMAIN row
  /\ enabled \subseteq Platform
  /\ step \in [Run -> {"idle", "reading", "sending"}]
  /\ known \in [Run -> SUBSET Platform]
  /\ batch \in [Run -> SUBSET Id]
  /\ unsent \in [Run -> SUBSET Group]
  /\ delivered \subseteq DOMAIN row
  /\ failures \in Nat

Init ==
  /\ row = <<>>
  /\ ready = {}
  /\ enabled = Platform
  /\ step = [r \in Run |-> "idle"]
  /\ known = [r \in Run |-> {}]
  /\ batch = [r \in Run |-> {}]
  /\ unsent = [r \in Run |-> {}]
  /\ delivered = {}
  /\ failures = 0

-----------------------------------------------------------------------------
\* addSyncTracking: trackings were stored, and those of enabled platforms are added.
AddRows(gs) ==
  /\ Len(row) + Len(gs) <= MaxRows
  /\ \A n \in DOMAIN gs : PlatformOf[gs[n]] \in enabled
  /\ row' = row \o gs
  /\ ready' = ready \cup (Len(row) + 1 .. Len(row) + Len(gs))
  /\ UNCHANGED <<enabled, runVars, delivered, failures>>

Configure(pl) ==
  /\ enabled' = IF pl \in enabled THEN enabled \ {pl} ELSE enabled \cup {pl}
  /\ UNCHANGED <<row, ready, runVars, delivered, failures>>

FindConfigs(r) ==
  /\ step[r] = "idle"
  /\ step' = [step EXCEPT ![r] = "reading"]
  /\ known' = [known EXCEPT ![r] = enabled]
  /\ UNCHANGED <<row, ready, enabled, batch, unsent, delivered, failures>>

\* Wrong: whichever rows the database returns.
NewestFirst(n, S) == {i \in S : Cardinality({j \in S : j > i}) < n}

\* The n oldest of a set of rows.
Oldest(n, S) == {i \in S : Cardinality({j \in S : j < i}) < n}

\* Wrong: the rows of platforms that are not enabled are skipped.
FindRowsOfEnabled(r) ==
  /\ step[r] = "reading"
  /\ step' = [step EXCEPT ![r] = "sending"]
  /\ LET found == Oldest(BatchLimit, ready)
     IN /\ batch' = [batch EXCEPT ![r] = found]
        /\ unsent' = [unsent EXCEPT ![r] = {row[i] : i \in found} \cap
                                           {g \in Group : PlatformOf[g] \in known[r]}]
  /\ UNCHANGED <<row, ready, enabled, known, delivered, failures>>

FindRows(r) ==
  /\ step[r] = "reading"
  /\ step' = [step EXCEPT ![r] = "sending"]
  /\ LET found == Oldest(BatchLimit, ready)
     IN /\ batch' = [batch EXCEPT ![r] = found]
        /\ unsent' = [unsent EXCEPT ![r] = {row[i] : i \in found}]
  /\ UNCHANGED <<row, ready, enabled, known, delivered, failures>>

\* The groups come platform by platform; the order of the platforms is open.
Send(r, g) ==
  /\ step[r] = "sending"
  /\ g \in unsent[r]
  /\ PlatformOf[g] \in known[r]
  /\ unsent' = [unsent EXCEPT ![r] = @ \ {g}]
  /\ delivered' = delivered \cup {i \in batch[r] : row[i] = g}
  /\ UNCHANGED <<row, ready, enabled, step, known, batch, failures>>

End(r) ==
  /\ step' = [step EXCEPT ![r] = "idle"]
  /\ known' = [known EXCEPT ![r] = {}]
  /\ batch' = [batch EXCEPT ![r] = {}]
  /\ unsent' = [unsent EXCEPT ![r] = {}]

\* Wrong: the last row that was read is not marked.
MarkSuccessButLast(r) ==
  /\ step[r] = "sending"
  /\ unsent[r] = {}
  /\ ready' = ready \ {i \in batch[r] : \E j \in batch[r] : i < j}
  /\ End(r)
  /\ UNCHANGED <<row, enabled, delivered, failures>>

\* All that was read is marked, once every message has been sent.
MarkSuccess(r) ==
  /\ step[r] = "sending"
  /\ unsent[r] = {}
  /\ ready' = ready \ batch[r]
  /\ End(r)
  /\ UNCHANGED <<row, enabled, delivered, failures>>

\* A row of a platform that was not found enabled: its configuration is undefined,
\* and the execution ends with a TypeError, whatever it has sent before.
NoConfig(r) ==
  /\ step[r] = "sending"
  /\ \E g \in unsent[r] : PlatformOf[g] \notin known[r]
  /\ End(r)
  /\ UNCHANGED <<row, ready, enabled, delivered, failures>>

\* A call fails, or the process restarts.
Break(r) ==
  /\ failures < MaxFailures
  /\ failures' = failures + 1
  /\ step[r] # "idle"
  /\ End(r)
  /\ UNCHANGED <<row, ready, enabled, delivered>>

RunStep(r) ==
  \/ FindConfigs(r)
  \/ FindRows(r)
  \/ \E g \in Group : Send(r, g)
  \/ MarkSuccess(r)
  \/ NoConfig(r)

Next ==
  \/ \E g \in Group : AddRows(<<g>>)
  \/ \E pl \in Platform : Configure(pl)
  \/ \E r \in Run : RunStep(r) \/ Break(r)

Spec == Init /\ [][Next]_vars

\* SM calls the job at regular times, and what the job awaits is answered.
FairSpec == Spec /\ \A r \in Run : WF_vars(RunStep(r))

-----------------------------------------------------------------------------
Box == INSTANCE Outbox WITH
  Item <- Id, requested <- DOMAIN row, waiting <- ready, excused <- {}

\* The job implements the outbox and excuses nothing: a row becomes SUCCESS only once
\* it was sent, although executions overlap, break off half way, and find platforms
\* that were disabled after their rows had been added.
ImplementsOutbox == Box!Spec

\* No row reaches a client before an older one of the same client, whichever
\* executions overlap and wherever they break off.
NoRowOvertakes ==
  \A i, j \in DOMAIN row :
    i < j /\ row[i] = row[j] /\ j \in delivered => i \in delivered

\* A row is sent and marked in the end, provided all platforms stay enabled from some
\* time on: one that is disabled keeps back the rows of all the others.
ReadyDrains ==
  <>[](enabled = Platform) => \A i \in Id : i \in ready ~> i \notin ready
=============================================================================
