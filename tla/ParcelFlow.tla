----------------------------- MODULE ParcelFlow ------------------------------
(***************************************************************************)
(* TrackingHandler and ParcelPush together.  They share two tables: the    *)
(* handlers insert the push requests the job works off, and both of them   *)
(* write ord_parcel.sync: the job sets it for what it has sent, and a      *)
(* handler writes it back as it read it, with the rest of the row.         *)
(*                                                                         *)
(* Nothing fails here; what failures do is in the two modules themselves.  *)
(***************************************************************************)
EXTENDS TrackingHandler

CONSTANTS Platform, PlatformOf, Run, BatchLimit, ChunkSize, MaxRequests

VARIABLES
  queue,      \* all push requests, in the order of their ids
  outbox, enabled, current, worker, rest, topic, logged, excused, pushFailures

Push == INSTANCE ParcelPush WITH
  request <- queue,
  synced <- {p \in Parcel : parcel[p].sync},
  failures <- pushFailures,
  MaxFailures <- 0

ASSUME RunAssumption == Push!None \notin Run

outboxVars == <<queue, outbox, enabled, logged>>
jobVars == <<current, worker, rest, topic, excused, pushFailures>>
unshared == <<trackings, eventStatus, requests, target, agings, pc, locals, failures>>
flowVars == <<vars, outboxVars, jobVars>>

FlowInit ==
  /\ Init
  /\ Push!Init

\* The orders in which the elements of a set can come.
Orders(S) == {s \in [1 .. Cardinality(S) -> S] : \A p \in S : \E i \in DOMAIN s : s[i] = p}

\* Wrong: a parcel whose status has not changed needs no push.
InsertRequestsOfNewStatus(h) ==
  /\ RequestPushes(h)
  /\ \E order \in Orders({p \in Changed(h) : copy[h][p].status # origin[h][p].status}) :
       Push!RequestPushes([i \in DOMAIN order |->
         [parcel |-> order[i], wanted |-> copy[h][order[i]].status # "CREATED"]])

\* Wrong: a parcel that is synced needs no push.
InsertRequestsOfUnsynced(h) ==
  /\ RequestPushes(h)
  /\ \E order \in Orders({p \in Changed(h) : ~origin[h][p].sync}) :
       Push!RequestPushes([i \in DOMAIN order |->
         [parcel |-> order[i], wanted |-> copy[h][order[i]].status # "CREATED"]])

\* The rows are inserted in the order in which the folds of the batch ended.
InsertRequests(h) ==
  /\ RequestPushes(h)
  /\ \E order \in Orders(Changed(h)) :
       Push!RequestPushes([i \in DOMAIN order |->
         [parcel |-> order[i], wanted |-> copy[h][order[i]].status # "CREATED"]])

\* The other steps of a handler.
Continue(h) ==
  /\ \/ ReadParcels(h)
     \/ \E t \in todo[h] : FoldTracking(h, t)
     \/ SaveParcels(h)
     \/ NothingChanged(h)
     \/ ReadTargets(h)
     \/ WriteTargets(h)
     \/ WriteAgings(h)
  /\ UNCHANGED <<outboxVars, jobVars>>

Call(h) ==
  /\ \E t, u \in Tracking : InsertTrackings(h, {t, u})
  /\ UNCHANGED <<outboxVars, jobVars>>

\* The job's step, and what it means for the parcels.
Work(r, pl) ==
  /\ parcel' = [p \in Parcel |->
       IF worker[r][pl] = "syncing" /\ p \in Push!ParcelsOf(Push!Chunk(r, pl))
       THEN [parcel[p] EXCEPT !.sync = TRUE] ELSE parcel[p]]
  /\ Push!WorkerAction(r, pl)
  /\ UNCHANGED unshared

Administer(r) ==
  /\ parcel' = parcel
  /\ Push!FindRequests(r) \/ Push!ReadConfigs(r) \/ Push!EndRun(r)
  /\ UNCHANGED unshared

FlowNext ==
  \/ \E h \in Handler : Call(h) \/ Continue(h) \/ InsertRequests(h)
  \/ \E r \in Run : Administer(r) \/ \E pl \in Platform : Work(r, pl)

FlowSpec == FlowInit /\ [][FlowNext]_flowVars

\* No two handlers work on one parcel at the same time.
ApartFlowSpec == FlowInit /\ [][FlowNext /\ Apart']_flowVars

\* Whoever called a handler waits for it, and SM calls the job at regular times.
FairFlowSpec ==
  /\ FlowSpec
  /\ \A h \in Handler : WF_flowVars(Continue(h) \/ InsertRequests(h))
  /\ \A r \in Run : /\ WF_flowVars(Administer(r))
                    /\ \A pl \in Platform : WF_flowVars(Work(r, pl))
-----------------------------------------------------------------------------
Settled ==
  /\ \A h \in Handler : pc[h] = "idle"
  /\ current = Push!None /\ outbox = {}

\* A handler may overwrite the sync the job has just set, but whoever does so also
\* requests another push: when all is done, every parcel on its way is synced.
SyncHeals ==
  Settled => \A p \in Parcel : parcel[p].status # "CREATED" => parcel[p].sync

\* The row a request carries: it is the k-th one of its parcel.
RowOf(i) ==
  LET p == queue[i].parcel
  IN requests[p][Cardinality({j \in 1 .. i : queue[j].parcel = p})]

Told(p) == {i \in Push!Delivered : queue[i].parcel = p}

\* When all is done, what a platform was told last of a parcel on its way is what
\* the parcel says, provided no two handlers were at work on it at the same time.
PlatformKnowsParcel ==
  Settled => \A p \in Parcel : parcel[p].status # "CREATED" =>
    \E i \in Told(p) : /\ \A j \in Told(p) : j <= i
                      /\ RowOf(i) = [parcel[p] EXCEPT !.sync = RowOf(i).sync]

\* A stored proof of delivery is eventually told to the platform of the parcel, with
\* a date no later than its own.
ArrivalEventuallyTold ==
  \A t \in Tracking :
    (t \in trackings /\ eventStatus[t.event] = "ARRIVED") ~>
      \E i \in Told(t.parcel) : NotLater(RowOf(i).arrivedAt, t.ts)
=============================================================================
