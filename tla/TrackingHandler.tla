--------------------------- MODULE TrackingHandler ---------------------------
(***************************************************************************)
(* TrackingHandlerNewService.handleTracking as its callers run it: the     *)
(* Kafka listener, the crawler, the file parser, the API.  They live in    *)
(* separate processes and share the database, so several handlers may work *)
(* on one parcel at the same time.                                         *)
(*                                                                         *)
(* A handler first stores the trackings it was given, then reads parcels   *)
(* and trackings in one query, folds the trackings into its own copy of    *)
(* the rows (one event lookup per tracking, hence one step per tracking),  *)
(* and then writes parcels, push requests, crawler targets and agings one  *)
(* table after the other.  No transaction spans two of these writes, and   *)
(* a handler may fail between any two of them.                             *)
(***************************************************************************)
EXTENDS TrackingRules, Sequences, FiniteSets

CONSTANTS
  Handler,        \* concurrent runs of handleTracking
  KnownEvent,     \* [Event -> status or Unrecorded]: sct_event at the start
  Aim,            \* [Parcel -> the aim of its crawler target, or NotCrawled]
  Unrecorded,     \* an event sct_event has no row for
  NotCrawled,     \* a parcel without a crawler target
  MaxTrackings,   \* bound: trackings ever stored
  MaxFailures     \* bound: handlers that fail or are killed

AimStatus == {"IN_TRANSIT", "ARRIVED"}
EventStatus == ParcelStatus \cup {NoStatus}

ASSUME UnrecordedAssumption == Unrecorded \notin EventStatus
ASSUME KnownEventAssumption == KnownEvent \in [Event -> EventStatus \cup {Unrecorded}]
ASSUME NotCrawledAssumption == NotCrawled \notin AimStatus
ASSUME AimAssumption == Aim \in [Parcel -> AimStatus \cup {NotCrawled}]

VARIABLES
  trackings,    \* sct_tracking
  parcel,       \* ord_parcel, the columns of Row
  eventStatus,  \* sct_event: the parcelStatus of each event
  requests,     \* npm_parcel_push_request: per parcel, in the order of their ids
  target,       \* sct_crawler_target of each parcel
  agings,       \* sts_parcel_aging_hot: <<transferredAt, arrivedAt>> of a parcel
  pc,           \* where each handler is
  batch,        \* the tracking numbers it was called with
  todo,         \* the trackings it has read and not folded yet
  origin,       \* originParcel: the rows as it read them
  copy,         \* the rows it is computing
  targetRead,   \* the crawler targets it has read
  failures      \* handlers that failed so far

database == <<trackings, parcel, eventStatus, requests, target, agings>>
locals == <<batch, todo, origin, copy, targetRead>>
vars == <<database, pc, locals, failures>>

Step == {"idle", "called", "folding", "saved", "requested", "targetsRead", "targetsWritten"}

CrawlerTarget == [active : BOOLEAN, status : ParcelStatus]

TypeOK ==
  /\ trackings \subseteq Tracking
  /\ parcel \in [Parcel -> Row]
  /\ eventStatus \in [Event -> EventStatus \cup {Unrecorded}]
  /\ requests \in [Parcel -> Seq(Row)]
  /\ target \in [Parcel -> CrawlerTarget]
  /\ agings \in [Parcel -> Date \X Date]
  /\ pc \in [Handler -> Step]
  /\ batch \in [Handler -> SUBSET Parcel]
  /\ todo \in [Handler -> SUBSET Tracking]
  /\ origin \in [Handler -> [Parcel -> Row]]
  /\ copy \in [Handler -> [Parcel -> Row]]
  /\ targetRead \in [Handler -> [Parcel -> CrawlerTarget]]
  /\ failures \in Nat

-----------------------------------------------------------------------------
NoRows == [p \in Parcel |-> NewRow]
NewTargets == [p \in Parcel |-> [active |-> TRUE, status |-> "CREATED"]]

Init ==
  /\ trackings = {}
  /\ parcel = NoRows
  /\ eventStatus = KnownEvent
  /\ requests = [p \in Parcel |-> <<>>]
  /\ target = NewTargets
  /\ agings = [p \in Parcel |-> <<NoDate, NoDate>>]
  /\ pc = [h \in Handler |-> "idle"]
  /\ batch = [h \in Handler |-> {}]
  /\ todo = [h \in Handler |-> {}]
  /\ origin = [h \in Handler |-> NoRows]
  /\ copy = [h \in Handler |-> NoRows]
  /\ targetRead = [h \in Handler |-> NewTargets]
  /\ failures = 0

Goto(h, from, to) == pc[h] = from /\ pc' = [pc EXCEPT ![h] = to]

\* What a run that has ended leaves in memory is of no use to anyone.
Forget(h) ==
  /\ batch' = [batch EXCEPT ![h] = {}]
  /\ todo' = [todo EXCEPT ![h] = {}]
  /\ origin' = [origin EXCEPT ![h] = NoRows]
  /\ copy' = [copy EXCEPT ![h] = NoRows]
  /\ targetRead' = [targetRead EXCEPT ![h] = NewTargets]

Changed(h) == {p \in batch[h] : copy[h][p] # origin[h][p]}

ParcelsOf(T) == {t.parcel : t \in T}

\* A caller stores trackings T, rows already there being ignored.  The crawler
\* and the parser then handle the parcels of the inserted rows only; the API
\* and the webhook those of every row, so that a redelivered message handles
\* parcels anew without storing anything.
InsertTrackings(h, T) ==
  /\ Goto(h, "idle", "called")
  /\ Cardinality(trackings \cup T) <= MaxTrackings
  /\ trackings' = trackings \cup T
  /\ \E S \in {T, T \ trackings} :
       /\ S # {}
       /\ batch' = [batch EXCEPT ![h] = ParcelsOf(S)]
  /\ UNCHANGED <<parcel, eventStatus, requests, target, agings,
                 todo, origin, copy, targetRead, failures>>

RowsOf(h) == [p \in Parcel |-> IF p \in batch[h] THEN parcel[p] ELSE NewRow]

\* Wrong: only the trackings later than the last one folded.
ReadParcelsNewestOnly(h) ==
  /\ Goto(h, "called", "folding")
  /\ todo' = [todo EXCEPT ![h] = {t \in trackings : t.parcel \in batch[h]
                                                   /\ t.ts >= parcel[t.parcel].last.ts}]
  /\ origin' = [origin EXCEPT ![h] = RowsOf(h)]
  /\ copy' = [copy EXCEPT ![h] = RowsOf(h)]
  /\ UNCHANGED <<database, batch, targetRead, failures>>

\* One query joins the parcels of the batch to their trackings.
ReadParcels(h) ==
  /\ Goto(h, "called", "folding")
  /\ todo' = [todo EXCEPT ![h] = {t \in trackings : t.parcel \in batch[h]}]
  /\ origin' = [origin EXCEPT ![h] = RowsOf(h)]
  /\ copy' = [copy EXCEPT ![h] = RowsOf(h)]
  /\ UNCHANGED <<database, batch, targetRead, failures>>

\* findTrackingEvent: an event nobody recorded is saved as UNKNOWN.
StatusFound(e) == IF eventStatus[e] = Unrecorded THEN "UNKNOWN" ELSE eventStatus[e]

\* The next tracking of one parcel; the parcels of a batch advance independently.
FoldTracking(h, t) ==
  /\ pc[h] = "folding"
  /\ IsFirst(t, {u \in todo[h] : u.parcel = t.parcel})
  /\ copy' = [copy EXCEPT ![h][t.parcel] = ApplyTracking(@, t, StatusFound(t.event))]
  /\ todo' = [todo EXCEPT ![h] = @ \ {t}]
  /\ eventStatus' = [eventStatus EXCEPT ![t.event] = StatusFound(t.event)]
  /\ UNCHANGED <<trackings, parcel, requests, target, agings, pc,
                 batch, origin, targetRead, failures>>

\* bulkUpdate writes every tracking column of a changed row, sync included, as
\* the handler read and folded it.
SaveParcels(h) ==
  /\ todo[h] = {}
  /\ Changed(h) # {}
  /\ Goto(h, "folding", "saved")
  /\ parcel' = [p \in Parcel |-> IF p \in Changed(h) THEN copy[h][p] ELSE parcel[p]]
  /\ UNCHANGED <<trackings, eventStatus, requests, target, agings, locals, failures>>

\* Every call after the fold returns at once on an empty list of parcels.
NothingChanged(h) ==
  /\ todo[h] = {}
  /\ Changed(h) = {}
  /\ Goto(h, "folding", "idle")
  /\ Forget(h)
  /\ UNCHANGED <<database, failures>>

\* Wrong: the request carries the row as it was read.
RequestPushesOfOrigin(h) ==
  /\ Goto(h, "saved", "requested")
  /\ requests' = [p \in Parcel |-> IF p \in Changed(h) THEN Append(requests[p], origin[h][p])
                                   ELSE requests[p]]
  /\ UNCHANGED <<trackings, parcel, eventStatus, target, agings, locals, failures>>

RequestPushes(h) ==
  /\ Goto(h, "saved", "requested")
  /\ requests' = [p \in Parcel |-> IF p \in Changed(h) THEN Append(requests[p], copy[h][p])
                                   ELSE requests[p]]
  /\ UNCHANGED <<trackings, parcel, eventStatus, target, agings, locals, failures>>

\* updateCrawlerTarget finds the targets ...
ReadTargets(h) ==
  /\ Goto(h, "requested", "targetsRead")
  /\ targetRead' = [targetRead EXCEPT ![h] = target]
  /\ UNCHANGED <<database, batch, todo, origin, copy, failures>>

AimReachedOnArrivalOnly(p, row) == Aim[p] = "ARRIVED" /\ row.arrivedAt # NoDate

AimReached(p, row) ==
  \/ Aim[p] = "IN_TRANSIT" /\ row.transferredAt # NoDate
  \/ Aim[p] = "ARRIVED" /\ row.arrivedAt # NoDate

\* ... and writes back active and status of the ones it found.
WriteTargets(h) ==
  /\ Goto(h, "targetsRead", "targetsWritten")
  /\ target' = [p \in Parcel |->
       IF p \in Changed(h) /\ Aim[p] # NotCrawled
       THEN [active |-> targetRead[h][p].active /\ ~AimReached(p, copy[h][p]),
             status |-> copy[h][p].status]
       ELSE target[p]]
  /\ UNCHANGED <<trackings, parcel, eventStatus, requests, agings, locals, failures>>

\* computeParcelAging upserts a row per parcel whose status is ARRIVED.
WriteAgings(h) ==
  /\ Goto(h, "targetsWritten", "idle")
  /\ agings' = [p \in Parcel |->
       IF p \in Changed(h) /\ copy[h][p].status = "ARRIVED"
       THEN <<copy[h][p].transferredAt, copy[h][p].arrivedAt>>
       ELSE agings[p]]
  /\ Forget(h)
  /\ UNCHANGED <<trackings, parcel, eventStatus, requests, target, failures>>

\* An exception (a lookup that fails is caught and ends the run; the errors of
\* the later calls end it in the caller) or the death of the process.
Fail(h) ==
  /\ pc[h] # "idle"
  /\ failures < MaxFailures
  /\ failures' = failures + 1
  /\ pc' = [pc EXCEPT ![h] = "idle"]
  /\ Forget(h)
  /\ UNCHANGED database

HandlerStep(h) ==
  \/ ReadParcels(h)
  \/ \E t \in todo[h] : FoldTracking(h, t)
  \/ SaveParcels(h)
  \/ NothingChanged(h)
  \/ RequestPushes(h)
  \/ ReadTargets(h)
  \/ WriteTargets(h)
  \/ WriteAgings(h)

Next ==
  \E h \in Handler :
    \/ \E t, u \in Tracking : InsertTrackings(h, {t, u})
    \/ HandlerStep(h)
    \/ Fail(h)

Spec == Init /\ [][Next]_vars
-----------------------------------------------------------------------------
(***************************************************************************)
(* Properties that hold however many handlers run at once.                 *)
(***************************************************************************)

\* Stated of one row, because the proofs also need them of a handler's copy.
FlagsAgreeIn(row) ==
  /\ row.isArrived <=> row.arrivedAt # NoDate
  /\ row.isReturned <=> row.returnedAt # NoDate
  /\ row.status = "ARRIVED" => row.isArrived
  /\ row.status = "RETURNED" => row.isReturned
  /\ row.status = "LOST" => row.isLost
  /\ row.status \in FinalStatus => row.isFinished

TransferPrecedes(row) ==
  /\ row.arrivedAt # NoDate =>
       row.transferredAt # NoDate /\ row.transferredAt <= row.arrivedAt
  /\ row.returnedAt # NoDate =>
       row.transferredAt # NoDate /\ row.transferredAt <= row.returnedAt

AgingMeasured(row) ==
  row.arrivedAt # NoDate => row.aging = row.arrivedAt - row.transferredAt

\* Status, flags and dates of a stored parcel never contradict one another,
\* although stale copies may overwrite newer rows: handleTracking writes all the
\* columns of a row together.
FlagsAgree == \A p \in Parcel : FlagsAgreeIn(parcel[p])

\* A parcel is put on the network no later than it arrives or returns, and its
\* aging is the time in between, also when the tracking that proves an earlier
\* transfer is stored long after the arrival was.
AgingIsTransferToArrival ==
  \A p \in Parcel : TransferPrecedes(parcel[p]) /\ AgingMeasured(parcel[p])

\* Trackings of p whose event has one of these statuses.
With(S, p) == {t \in trackings : t.parcel = p /\ StatusFound(t.event) \in S}

Transferring == EventStatus \ (NotTransferring \cup OnlyLast)

Times(T) == {t.ts : t \in T}

HasEvidence(p, row) ==
  /\ row.arrivedAt \in Times(With({"ARRIVED"}, p)) \cup {NoDate}
  /\ row.returnedAt \in Times(With({"RETURNED"}, p)) \cup {NoDate}
  /\ row.transferredAt \in Times(With(Transferring, p)) \cup {NoDate}

\* No milestone without evidence: the date of an arrival, a return or a transfer
\* is the timestamp of a stored tracking of that parcel with that meaning.
MilestonesHaveEvidence == \A p \in Parcel : HasEvidence(p, parcel[p])

Quiet == failures = 0 /\ \A h \in Handler : pc[h] = "idle"

\* Unless a handler failed, the row a parcel ends up with was also handed to the
\* push outbox, whatever the order of the handlers' writes.
ChangeIsAnnounced ==
  Quiet => \A p \in Parcel :
             parcel[p] = NewRow \/ \E i \in DOMAIN requests[p] : requests[p][i] = parcel[p]

NotLater(new, old) == old # NoDate => new # NoDate /\ new <= old

Advances(old, new) ==
  /\ NotLater(new.transferredAt, old.transferredAt)
  /\ NotLater(new.arrivedAt, old.arrivedAt)
  /\ NotLater(new.returnedAt, old.returnedAt)
  /\ old.isFinished => new.isFinished
  /\ old.isAppointed => new.isAppointed
  /\ old.isLost => new.isLost

\* A handler that writes over the very row it read takes no milestone away and
\* moves none to a later date; only handlers that overlap on a parcel can undo
\* each other's work.
SoloSaveAdvances ==
  [][\A p \in Parcel :
       (\E h \in Handler : SaveParcels(h) /\ p \in Changed(h) /\ parcel[p] = origin[h][p])
         => Advances(parcel[p], parcel'[p])]_vars

-----------------------------------------------------------------------------
(***************************************************************************)
(* Properties of handlers that are never at work on one parcel at the same *)
(* time, which nothing in the code sees to: their callers do, or do not.   *)
(***************************************************************************)

Apart == \A g, h \in Handler : g # h => batch[g] \cap batch[h] = {}

ApartSpec == Init /\ [][Next /\ Apart']_vars

Earliest(D) == IF D = {} THEN NoDate ELSE CHOOSE d \in D : \A e \in D : d <= e

Latest(T) == CHOOSE t \in T : \A u \in T : Precedes(u, t)

\* What the stored trackings of a parcel say of it, independently of the order
\* and the batches they came in: the reference for the fold.
ToldByTrackings(p, row) ==
  LET all == {t \in trackings : t.parcel = p}
      telling == With(EventStatus \ (OnlyLast \cup {NoStatus}), p)
  IN /\ row.arrivedAt = Earliest(Times(With({"ARRIVED"}, p)))
     /\ row.returnedAt = Earliest(Times(With({"RETURNED"}, p)))
     /\ row.transferredAt = Earliest(Times(With(Transferring, p)))
     /\ row.isFinished <=> With(FinalStatus, p) # {}
     /\ all # {} => row.last = LastOf(Latest(all))
     /\ telling # {} => row.status = StatusFound(Latest(telling).event)

\* When the handlers are done and none failed, each parcel says what all of its
\* trackings say, however they were split over files, messages and crawls.
CaughtUp == Quiet => \A p \in Parcel : ToldByTrackings(p, parcel[p])

\* Handler h ends its run without failing only if its parcels are as they should be.
RunEndsRepaired(h) ==
  (pc[h] # "idle" /\ pc'[h] = "idle" /\ failures' = failures)
    => \A p \in batch[h] : ToldByTrackings(p, parcel'[p])

\* A run that ends without failing leaves its parcels as their trackings tell,
\* also when an earlier run died halfway: the parcel row is always repaired by the
\* next run, whatever the earlier one had already written.
RerunRepairs == [][\A h \in Handler : RunEndsRepaired(h)]_vars

\* The consumers of the parcel keep up with it: a crawler target that has reached
\* its aim is switched off, and an arrived parcel has its aging on record.
ConsumersKeepUp ==
  Quiet => \A p \in Parcel :
             /\ Aim[p] = "IN_TRANSIT" /\ parcel[p].transferredAt # NoDate => ~target[p].active
             /\ Aim[p] = "ARRIVED" /\ parcel[p].arrivedAt # NoDate => ~target[p].active
             /\ parcel[p].status = "ARRIVED" =>
                  agings[p] = <<parcel[p].transferredAt, parcel[p].arrivedAt>>
=============================================================================
