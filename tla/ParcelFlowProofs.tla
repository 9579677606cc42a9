-------------------------- MODULE ParcelFlowProofs ---------------------------
(***************************************************************************)
(* What TrackingHandler promises for every set of parcels, events and      *)
(* handlers, however many trackings are stored and handlers fail; and what *)
(* it promises together with the push of parcels.                          *)
(*                                                                         *)
(* The first part is about one turn of the fold on one row.  The second    *)
(* proves the inductive invariant IInv of the handlers, the third draws    *)
(* the properties of their specification from it.  The fourth is about     *)
(* handlers that have no parcel in common at the same time: it carries     *)
(* through the fold what the trackings folded so far prove of a row, and   *)
(* follows the row from there to the consumers.                            *)
(*                                                                         *)
(* The last part is about the flow.  A sync that a handler has overwritten *)
(* heals, for any number of handlers and executions, overlapping in any    *)
(* way; and when no two handlers have a parcel in common at the same time, *)
(* a platform was told last what the parcel says.                          *)
(*                                                                         *)
(* With several handlers a parcel may be written from a copy that was read *)
(* before the job set sync, and again from an older copy; what each of     *)
(* them has in common is that the last writer has a request to make.  So a *)
(* parcel on its way that is not synced is always Covered: by a handler    *)
(* that has saved it and is about to request its push, by a request in the *)
(* outbox, or by a function of the job that has deleted the request and is *)
(* about to set sync.                                                      *)
(***************************************************************************)
EXTENDS ParcelFlow, FiniteSetTheorems, TLAPS

-----------------------------------------------------------------------------
(* One tracking on one row. *)

LEMMA EarlierDateFacts ==
  ASSUME NEW d \in Date, NEW ts \in 1 .. MaxTime
  PROVE  /\ EarlierDate(d, ts) \in Date
         /\ EarlierDate(d, ts) # NoDate
         /\ EarlierDate(d, ts) \in {d, ts}
         /\ EarlierDate(d, ts) <= ts
         /\ d # NoDate => EarlierDate(d, ts) <= d
BY TimeAssumption DEF EarlierDate, Date, NoDate

LEMMA TrackingType ==
  ASSUME NEW t \in Tracking
  PROVE  /\ t.ts \in 1 .. MaxTime /\ t.ts \in Date /\ t.ts # NoDate
         /\ LastOf(t) \in [ts : Date, event : Nat]
<1>1. t.ts \in 1 .. MaxTime /\ t.event \in Nat
  BY EventAssumption DEF Tracking
<1>2. t.ts \in Date /\ t.ts # NoDate
  BY <1>1, TimeAssumption DEF Date, NoDate
<1> QED
  BY <1>1, <1>2 DEF LastOf

LEMMA FollowEventType ==
  ASSUME NEW row \in Row, NEW t \in Tracking, NEW s \in EventStatus
  PROVE  FollowEvent(row, t, s) \in Row
<1> DEFINE transferred == IF s \in NotTransferring THEN row.transferredAt
                          ELSE EarlierDate(row.transferredAt, t.ts)
           arrived == IF s = "ARRIVED" THEN EarlierDate(row.arrivedAt, t.ts)
                      ELSE row.arrivedAt
           returned == IF s = "RETURNED" THEN EarlierDate(row.returnedAt, t.ts)
                       ELSE row.returnedAt
           status == IF s = NoStatus THEN row.status ELSE s
<1>1. t.ts \in 1 .. MaxTime
  BY TrackingType
<1>2. /\ row.transferredAt \in Date
      /\ row.arrivedAt \in Date
      /\ row.returnedAt \in Date
      /\ row.status \in ParcelStatus
      /\ row.aging \in Int
  BY DEF Row
<1>3. \A d \in Date : EarlierDate(d, t.ts) \in Date
  BY <1>1, EarlierDateFacts
<1>4. transferred \in Date /\ arrived \in Date /\ returned \in Date
  BY <1>2, <1>3
<1>5. status \in ParcelStatus
  BY <1>2 DEF EventStatus
<1>6. LastOf(t) \in [ts : Date, event : Nat]
  BY TrackingType
<1>7. (IF s = "ARRIVED" THEN arrived - transferred ELSE row.aging) \in Int
  BY <1>2, <1>4 DEF Date
<1> HIDE DEF transferred, arrived, returned, status
<1>8. FollowEvent(row, t, s) =
        [row EXCEPT !.status = status, !.last = LastOf(t),
                    !.transferredAt = transferred, !.arrivedAt = arrived,
                    !.returnedAt = returned,
                    !.aging = IF s = "ARRIVED" THEN arrived - transferred ELSE @,
                    !.isArrived = @ \/ s = "ARRIVED",
                    !.isReturned = @ \/ s = "RETURNED",
                    !.isAppointed = @ \/ s = "APPOINTED",
                    !.isLost = @ \/ s = "LOST",
                    !.isFinished = @ \/ status \in FinalStatus]
  BY DEF FollowEvent, transferred, arrived, returned, status
<1> QED
  BY <1>4, <1>5, <1>6, <1>7, <1>8 DEF Row

\* The columns of the result, so that the facts below need not open the record.
LEMMA FollowEventColumns ==
  ASSUME NEW row \in Row, NEW t \in Tracking, NEW s \in EventStatus
  PROVE  LET new == FollowEvent(row, t, s)
         IN /\ new.status = IF s = NoStatus THEN row.status ELSE s
            /\ new.transferredAt = IF s \in NotTransferring THEN row.transferredAt
                                   ELSE EarlierDate(row.transferredAt, t.ts)
            /\ new.arrivedAt = IF s = "ARRIVED" THEN EarlierDate(row.arrivedAt, t.ts)
                               ELSE row.arrivedAt
            /\ new.returnedAt = IF s = "RETURNED" THEN EarlierDate(row.returnedAt, t.ts)
                                ELSE row.returnedAt
            /\ new.aging = IF s = "ARRIVED" THEN new.arrivedAt - new.transferredAt
                           ELSE row.aging
            /\ (new.isArrived <=> row.isArrived \/ s = "ARRIVED")
            /\ (new.isReturned <=> row.isReturned \/ s = "RETURNED")
            /\ (new.isAppointed <=> row.isAppointed \/ s = "APPOINTED")
            /\ (new.isLost <=> row.isLost \/ s = "LOST")
            /\ (new.isFinished <=> row.isFinished \/ new.status \in FinalStatus)
BY DEF FollowEvent, Row

LEMMA OnlyLastColumns ==
  ASSUME NEW row \in Row, NEW t \in Tracking
  PROVE  LET new == [row EXCEPT !.last = LastOf(t)]
         IN /\ new.status = row.status
            /\ new.transferredAt = row.transferredAt
            /\ new.arrivedAt = row.arrivedAt
            /\ new.returnedAt = row.returnedAt
            /\ new.aging = row.aging
            /\ (new.isArrived <=> row.isArrived)
            /\ (new.isReturned <=> row.isReturned)
            /\ (new.isAppointed <=> row.isAppointed)
            /\ (new.isLost <=> row.isLost)
            /\ (new.isFinished <=> row.isFinished)
BY DEF Row

LEMMA ApplyTrackingType ==
  ASSUME NEW row \in Row, NEW t \in Tracking, NEW s \in EventStatus
  PROVE  ApplyTracking(row, t, s) \in Row
<1>1. CASE s \in OnlyLast
  BY <1>1, TrackingType DEF ApplyTracking, Row
<1>2. CASE s \notin OnlyLast
  BY <1>2, FollowEventType DEF ApplyTracking
<1> QED
  BY <1>1, <1>2

LEMMA ApplyTrackingAgrees ==
  ASSUME NEW row \in Row, NEW t \in Tracking, NEW s \in EventStatus, FlagsAgreeIn(row)
  PROVE  FlagsAgreeIn(ApplyTracking(row, t, s))
<1>1. CASE s \in OnlyLast
  BY <1>1, OnlyLastColumns DEF ApplyTracking, FlagsAgreeIn
<1>2. CASE s \notin OnlyLast
  <2> DEFINE new == FollowEvent(row, t, s)
  <2>1. /\ row.arrivedAt \in Date /\ row.returnedAt \in Date
        /\ t.ts \in 1 .. MaxTime
    BY DEF Row, Tracking
  <2>2. \A d \in Date : EarlierDate(d, t.ts) # NoDate
    BY TrackingType, EarlierDateFacts
  <2>3. new.isArrived <=> new.arrivedAt # NoDate
    BY <2>1, <2>2, FollowEventColumns DEF FlagsAgreeIn
  <2>4. new.isReturned <=> new.returnedAt # NoDate
    BY <2>1, <2>2, FollowEventColumns DEF FlagsAgreeIn
  <2>5. /\ new.status = "ARRIVED" => new.isArrived
        /\ new.status = "RETURNED" => new.isReturned
        /\ new.status = "LOST" => new.isLost
        /\ new.status \in FinalStatus => new.isFinished
    BY FollowEventColumns DEF FlagsAgreeIn
  <2> QED
    BY <1>2, <2>3, <2>4, <2>5 DEF ApplyTracking, FlagsAgreeIn
<1> QED
  BY <1>1, <1>2

\* The dates of the row after an event, against the tracking and the row before.
LEMMA FollowEventDates ==
  ASSUME NEW row \in Row, NEW t \in Tracking, NEW s \in EventStatus
  PROVE  LET new == FollowEvent(row, t, s)
         IN /\ new.transferredAt \in Date /\ new.arrivedAt \in Date
            /\ new.returnedAt \in Date
            /\ row.transferredAt # NoDate =>
                 new.transferredAt # NoDate /\ new.transferredAt <= row.transferredAt
            /\ row.arrivedAt # NoDate =>
                 new.arrivedAt # NoDate /\ new.arrivedAt <= row.arrivedAt
            /\ row.returnedAt # NoDate =>
                 new.returnedAt # NoDate /\ new.returnedAt <= row.returnedAt
            /\ s \notin NotTransferring =>
                 new.transferredAt # NoDate /\ new.transferredAt <= t.ts
            /\ new.transferredAt = row.transferredAt
                 \/ (s \notin NotTransferring /\ new.transferredAt = t.ts)
            /\ new.arrivedAt = row.arrivedAt
                 \/ (s = "ARRIVED" /\ new.arrivedAt = t.ts)
            /\ new.returnedAt = row.returnedAt
                 \/ (s = "RETURNED" /\ new.returnedAt = t.ts)
<1> DEFINE new == FollowEvent(row, t, s)
<1>1. /\ row.transferredAt \in Date /\ row.arrivedAt \in Date
      /\ row.returnedAt \in Date /\ t.ts \in 1 .. MaxTime
  BY DEF Row, Tracking
<1>2. \A d \in Date : /\ EarlierDate(d, t.ts) \in Date
                      /\ EarlierDate(d, t.ts) # NoDate
                      /\ EarlierDate(d, t.ts) \in {d, t.ts}
                      /\ EarlierDate(d, t.ts) <= t.ts
                      /\ d # NoDate => EarlierDate(d, t.ts) <= d
  BY <1>1, EarlierDateFacts
<1>3. \A d \in Date : d <= d
  BY DEF Date
<1>4. /\ new.transferredAt = IF s \in NotTransferring THEN row.transferredAt
                             ELSE EarlierDate(row.transferredAt, t.ts)
      /\ new.arrivedAt = IF s = "ARRIVED" THEN EarlierDate(row.arrivedAt, t.ts)
                         ELSE row.arrivedAt
      /\ new.returnedAt = IF s = "RETURNED" THEN EarlierDate(row.returnedAt, t.ts)
                          ELSE row.returnedAt
  BY FollowEventColumns
<1> HIDE DEF new
<1>5. /\ new.transferredAt \in Date
      /\ row.transferredAt # NoDate =>
           new.transferredAt # NoDate /\ new.transferredAt <= row.transferredAt
      /\ s \notin NotTransferring =>
           new.transferredAt # NoDate /\ new.transferredAt <= t.ts
      /\ new.transferredAt = row.transferredAt
           \/ (s \notin NotTransferring /\ new.transferredAt = t.ts)
  BY <1>1, <1>2, <1>3, <1>4
<1>6. /\ new.arrivedAt \in Date
      /\ row.arrivedAt # NoDate =>
           new.arrivedAt # NoDate /\ new.arrivedAt <= row.arrivedAt
      /\ new.arrivedAt = row.arrivedAt \/ (s = "ARRIVED" /\ new.arrivedAt = t.ts)
  BY <1>1, <1>2, <1>3, <1>4
<1>7. /\ new.returnedAt \in Date
      /\ row.returnedAt # NoDate =>
           new.returnedAt # NoDate /\ new.returnedAt <= row.returnedAt
      /\ new.returnedAt = row.returnedAt \/ (s = "RETURNED" /\ new.returnedAt = t.ts)
  BY <1>1, <1>2, <1>3, <1>4
<1> QED
  BY <1>5, <1>6, <1>7 DEF new

LEMMA ApplyTrackingTransferPrecedes ==
  ASSUME NEW row \in Row, NEW t \in Tracking, NEW s \in EventStatus, TransferPrecedes(row)
  PROVE  TransferPrecedes(ApplyTracking(row, t, s))
<1>1. CASE s \in OnlyLast
  BY <1>1, OnlyLastColumns DEF ApplyTracking, TransferPrecedes
<1>2. CASE s \notin OnlyLast
  <2> DEFINE new == FollowEvent(row, t, s)
  <2>1. /\ row.transferredAt \in Int /\ row.arrivedAt \in Int /\ row.returnedAt \in Int
        /\ new.transferredAt \in Int /\ new.arrivedAt \in Int /\ new.returnedAt \in Int
        /\ t.ts \in Int /\ t.ts # NoDate
    BY FollowEventType DEF Row, Tracking, Date, NoDate
  <2>2. "ARRIVED" \notin NotTransferring /\ "RETURNED" \notin NotTransferring
    BY DEF NotTransferring, NoStatus
  <2> HIDE DEF new
  <2>3. TransferPrecedes(new)
    BY <2>1, <2>2, FollowEventDates DEF TransferPrecedes, new
  <2> QED
    BY <1>2, <2>3 DEF ApplyTracking, new
<1> QED
  BY <1>1, <1>2

LEMMA ApplyTrackingAdvances ==
  ASSUME NEW row \in Row, NEW t \in Tracking, NEW s \in EventStatus
  PROVE  Advances(row, ApplyTracking(row, t, s))
<1>1. CASE s \in OnlyLast
  <2>1. /\ row.transferredAt <= row.transferredAt
        /\ row.arrivedAt <= row.arrivedAt
        /\ row.returnedAt <= row.returnedAt
    BY DEF Row, Date
  <2> QED
    BY <1>1, <2>1, OnlyLastColumns DEF ApplyTracking, Advances, NotLater
<1>2. CASE s \notin OnlyLast
  BY <1>2, FollowEventDates, FollowEventColumns DEF ApplyTracking, Advances, NotLater
<1> QED
  BY <1>1, <1>2

LEMMA AdvancesTransitive ==
  ASSUME NEW r1 \in Row, NEW r2 \in Row, NEW r3 \in Row,
         Advances(r1, r2), Advances(r2, r3)
  PROVE  Advances(r1, r3)
BY DEF Advances, NotLater, Row, Date

LEMMA AdvancesReflexive ==
  ASSUME NEW row \in Row
  PROVE  Advances(row, row)
BY DEF Advances, NotLater, Row, Date

LEMMA NewRowFacts ==
  /\ NewRow \in Row
  /\ FlagsAgreeIn(NewRow)
  /\ TransferPrecedes(NewRow)
  /\ NewRow.arrivedAt = NoDate /\ NewRow.returnedAt = NoDate
  /\ NewRow.transferredAt = NoDate
<1>1. NewRow \in Row
  BY TimeAssumption DEF NewRow, Row, NoLast, NoDate, NoAging, ParcelStatus, Date
<1> QED
  BY <1>1 DEF NewRow, FlagsAgreeIn, TransferPrecedes, FinalStatus

-----------------------------------------------------------------------------
(* The invariant. *)

\* A handler folds only what is stored.
TodoStored == \A h \in Handler : todo[h] \subseteq trackings

Sound(p, row) == FlagsAgreeIn(row) /\ TransferPrecedes(row) /\ HasEvidence(p, row)

ParcelsSound == \A p \in Parcel : Sound(p, parcel[p]) /\ AgingMeasured(parcel[p])

\* A copy is sound at every turn of the fold, and ahead of the row it started from.
CopiesSound == \A h \in Handler : \A p \in Parcel :
                 Sound(p, copy[h][p]) /\ Advances(origin[h][p], copy[h][p])

Arrivals(h, p) == {t \in todo[h] : t.parcel = p /\ StatusFound(t.event) = "ARRIVED"}

\* In the middle of a fold the aging may lag behind a transfer that moved to an
\* earlier date, but only as long as an arrival is still to be folded; once the
\* last one is, no tracking left can move the transfer.
AgingComes == \A h \in Handler : \A p \in Parcel :
                (pc[h] = "folding" /\ copy[h][p].arrivedAt # NoDate /\ Arrivals(h, p) = {})
                  => /\ AgingMeasured(copy[h][p])
                     /\ \A t \in todo[h] : t.parcel = p => copy[h][p].transferredAt <= t.ts

IInv == TypeOK /\ TodoStored /\ ParcelsSound /\ CopiesSound /\ AgingComes

-----------------------------------------------------------------------------
(* Types. *)

LEMMA InitType == Init => TypeOK
<1> SUFFICES ASSUME Init PROVE TypeOK
  OBVIOUS
<1>1. NewRow \in Row
  BY NewRowFacts
<1>2. [active |-> TRUE, status |-> "CREATED"] \in CrawlerTarget
  BY DEF CrawlerTarget, ParcelStatus
<1>3. NoDate \in Date
  BY TimeAssumption DEF NoDate, Date
<1> QED
  BY <1>1, <1>2, <1>3, KnownEventAssumption DEF Init, TypeOK, NoRows, NewTargets, Step

LEMMA StatusFoundType ==
  ASSUME TypeOK, NEW e \in Event
  PROVE  StatusFound(e) \in EventStatus
BY DEF TypeOK, StatusFound, EventStatus, ParcelStatus

LEMMA ForgetType ==
  ASSUME TypeOK, NEW h \in Handler, Forget(h)
  PROVE  /\ batch' \in [Handler -> SUBSET Parcel]
         /\ todo' \in [Handler -> SUBSET Tracking]
         /\ origin' \in [Handler -> [Parcel -> Row]]
         /\ copy' \in [Handler -> [Parcel -> Row]]
         /\ targetRead' \in [Handler -> [Parcel -> CrawlerTarget]]
<1>1. NoRows \in [Parcel -> Row]
  BY NewRowFacts DEF NoRows
<1>2. NewTargets \in [Parcel -> CrawlerTarget]
  BY DEF NewTargets, CrawlerTarget, ParcelStatus
<1> QED
  BY <1>1, <1>2 DEF TypeOK, Forget

LEMMA NextType == TypeOK /\ [Next]_vars => TypeOK'
<1> SUFFICES ASSUME TypeOK, [Next]_vars PROVE TypeOK'
  OBVIOUS
<1> USE DEF database, locals
<1>1. ASSUME NEW h \in Handler, NEW t \in Tracking, NEW u \in Tracking,
             InsertTrackings(h, {t, u})
      PROVE  TypeOK'
  <2>1. batch' \in [Handler -> SUBSET Parcel]
    <3>1. PICK S \in {{t, u}, {t, u} \ trackings} :
                 batch' = [batch EXCEPT ![h] = ParcelsOf(S)]
      BY <1>1 DEF InsertTrackings
    <3>2. ParcelsOf(S) \subseteq Parcel
      BY DEF ParcelsOf, Tracking
    <3> QED
      BY <3>1, <3>2 DEF TypeOK
  <2>2. pc' \in [Handler -> Step]
    BY <1>1 DEF TypeOK, InsertTrackings, Goto, Step
  <2> QED
    BY <1>1, <2>1, <2>2 DEF TypeOK, InsertTrackings
<1>2. ASSUME NEW h \in Handler, ReadParcels(h) PROVE TypeOK'
  <2>1. RowsOf(h) \in [Parcel -> Row]
    BY NewRowFacts DEF TypeOK, RowsOf
  <2>2. {t \in trackings : t.parcel \in batch[h]} \subseteq Tracking
    BY DEF TypeOK
  <2>3. pc' \in [Handler -> Step]
    BY <1>2 DEF TypeOK, ReadParcels, Goto, Step
  <2> QED
    BY <1>2, <2>1, <2>2, <2>3 DEF TypeOK, ReadParcels
<1>3. ASSUME NEW h \in Handler, NEW t \in todo[h], FoldTracking(h, t) PROVE TypeOK'
  <2>1. t \in Tracking /\ t.parcel \in Parcel /\ t.event \in Event
    BY DEF TypeOK, Tracking
  <2>2. StatusFound(t.event) \in EventStatus
    BY <2>1, StatusFoundType
  <2>3. ApplyTracking(copy[h][t.parcel], t, StatusFound(t.event)) \in Row
    BY <2>1, <2>2, ApplyTrackingType DEF TypeOK
  <2>4. copy' \in [Handler -> [Parcel -> Row]]
    BY <1>3, <2>1, <2>3 DEF TypeOK, FoldTracking
  <2>5. eventStatus' \in [Event -> EventStatus \cup {Unrecorded}]
    BY <1>3, <2>1, <2>2 DEF TypeOK, FoldTracking
  <2>6. todo' \in [Handler -> SUBSET Tracking]
    BY <1>3 DEF TypeOK, FoldTracking
  <2> QED
    BY <1>3, <2>4, <2>5, <2>6 DEF TypeOK, FoldTracking
<1>4. ASSUME NEW h \in Handler, SaveParcels(h) PROVE TypeOK'
  BY <1>4 DEF TypeOK, SaveParcels, Goto, Step
<1>5. ASSUME NEW h \in Handler, NothingChanged(h) PROVE TypeOK'
  <2>1. pc' \in [Handler -> Step]
    BY <1>5 DEF TypeOK, NothingChanged, Goto, Step
  <2> QED
    BY <1>5, <2>1, ForgetType DEF TypeOK, NothingChanged
<1>6. ASSUME NEW h \in Handler, RequestPushes(h) PROVE TypeOK'
  <2>1. requests' \in [Parcel -> Seq(Row)]
    BY <1>6 DEF TypeOK, RequestPushes
  <2>2. pc' \in [Handler -> Step]
    BY <1>6 DEF TypeOK, RequestPushes, Goto, Step
  <2> QED
    BY <1>6, <2>1, <2>2 DEF TypeOK, RequestPushes
<1>7. ASSUME NEW h \in Handler, ReadTargets(h) PROVE TypeOK'
  BY <1>7 DEF TypeOK, ReadTargets, Goto, Step
<1>8. ASSUME NEW h \in Handler, WriteTargets(h) PROVE TypeOK'
  <2>1. target' \in [Parcel -> CrawlerTarget]
    <3>1. \A p \in Parcel : /\ targetRead[h][p].active \in BOOLEAN
                            /\ copy[h][p].status \in ParcelStatus
      BY DEF TypeOK, Row, CrawlerTarget
    <3>2. \A p \in Parcel :
             [active |-> targetRead[h][p].active /\ ~AimReached(p, copy[h][p]),
              status |-> copy[h][p].status] \in CrawlerTarget
      BY <3>1, Zenon DEF CrawlerTarget
    <3> QED
      BY <1>8, <3>2 DEF TypeOK, WriteTargets
  <2>2. pc' \in [Handler -> Step]
    BY <1>8 DEF TypeOK, WriteTargets, Goto, Step
  <2> QED
    BY <1>8, <2>1, <2>2 DEF TypeOK, WriteTargets
<1>9. ASSUME NEW h \in Handler, WriteAgings(h) PROVE TypeOK'
  <2>1. agings' \in [Parcel -> Date \X Date]
    <3>1. \A p \in Parcel : <<copy[h][p].transferredAt, copy[h][p].arrivedAt>> \in Date \X Date
      BY DEF TypeOK, Row
    <3> QED
      BY <1>9, <3>1 DEF TypeOK, WriteAgings
  <2>2. pc' \in [Handler -> Step]
    BY <1>9 DEF TypeOK, WriteAgings, Goto, Step
  <2> QED
    BY <1>9, <2>1, <2>2, ForgetType DEF TypeOK, WriteAgings
<1>10. ASSUME NEW h \in Handler, Fail(h) PROVE TypeOK'
  <2>1. pc' \in [Handler -> Step]
    BY <1>10 DEF TypeOK, Fail, Step
  <2> QED
    BY <1>10, <2>1, ForgetType DEF TypeOK, Fail
<1>11. CASE UNCHANGED vars
  BY <1>11 DEF TypeOK, vars
<1> QED
  BY <1>1, <1>2, <1>3, <1>4, <1>5, <1>6, <1>7, <1>8, <1>9, <1>10, <1>11
  DEF Next, HandlerStep

\* The columns of a parcel, the queue of its push requests and the working copies
\* of the handlers keep their types, whatever trackings come in.
THEOREM TypesHold == Spec => []TypeOK
<1>1. Init => TypeOK
  BY InitType
<1>2. TypeOK /\ [Next]_vars => TypeOK'
  BY NextType
<1> QED
  BY <1>1, <1>2, PTL DEF Spec

-----------------------------------------------------------------------------
(* What a step does to the meaning of the stored trackings: nothing is lost *)
(* and no event changes its status.                                        *)

StoreGrows ==
  /\ trackings \subseteq trackings'
  /\ \A e \in Event : (eventStatus[e] # Unrecorded => eventStatus'[e] = eventStatus[e])
                     /\ (eventStatus[e] = Unrecorded => eventStatus'[e] \in {Unrecorded, "UNKNOWN"})

LEMMA StepGrowsStore ==
  ASSUME TypeOK, [Next]_vars
  PROVE  StoreGrows
<1> USE DEF database, locals
<1>1. ASSUME NEW h \in Handler, NEW t \in todo[h], FoldTracking(h, t)
      PROVE  StoreGrows
  <2>1. t.event \in Event
    BY DEF TypeOK, Tracking
  <2> QED
    BY <1>1, <2>1 DEF TypeOK, FoldTracking, StoreGrows, StatusFound
<1>2. ASSUME UNCHANGED eventStatus, trackings \subseteq trackings'
      PROVE  StoreGrows
  BY <1>2 DEF StoreGrows
<1> QED
  BY <1>1, <1>2 DEF Next, HandlerStep, vars, InsertTrackings, ReadParcels, SaveParcels,
     NothingChanged, RequestPushes, ReadTargets, WriteTargets, WriteAgings, Fail

LEMMA StatusStays ==
  ASSUME StoreGrows, NEW e \in Event
  PROVE  StatusFound(e)' = StatusFound(e)
BY UnrecordedAssumption DEF StoreGrows, StatusFound, EventStatus, ParcelStatus

LEMMA WithGrows ==
  ASSUME TypeOK, StoreGrows, NEW p
  PROVE  \A S : With(S, p) \subseteq With(S, p)'
<1> SUFFICES ASSUME NEW S, NEW t \in With(S, p)
             PROVE  t \in With(S, p)'
  OBVIOUS
<1>1. t \in trackings /\ t.parcel = p /\ StatusFound(t.event) \in S /\ t.event \in Event
  BY DEF With, TypeOK, Tracking
<1>2. t \in trackings' /\ StatusFound(t.event)' \in S
  BY <1>1, StatusStays DEF StoreGrows
<1> QED
  BY <1>1, <1>2 DEF With

LEMMA EvidenceStays ==
  ASSUME TypeOK, StoreGrows, NEW p \in Parcel, NEW row, HasEvidence(p, row)
  PROVE  HasEvidence(p, row)'
<1>1. \A S : Times(With(S, p)) \subseteq Times(With(S, p))'
  BY WithGrows DEF Times
<1>2. /\ Times(With({"ARRIVED"}, p)) \subseteq Times(With({"ARRIVED"}, p))'
      /\ Times(With({"RETURNED"}, p)) \subseteq Times(With({"RETURNED"}, p))'
      /\ Times(With(Transferring, p)) \subseteq Times(With(Transferring, p))'
  BY <1>1
<1> QED
  BY <1>2 DEF HasEvidence

LEMMA SoundStays ==
  ASSUME TypeOK, StoreGrows, NEW p \in Parcel, NEW row, Sound(p, row)
  PROVE  Sound(p, row)'
<1>1. HasEvidence(p, row)'
  BY EvidenceStays DEF Sound
<1> QED
  BY <1>1 DEF Sound, FlagsAgreeIn, TransferPrecedes

LEMMA NewRowSound ==
  ASSUME NEW p \in Parcel
  PROVE  Sound(p, NewRow)
BY NewRowFacts DEF Sound, HasEvidence

\* A stored tracking is the evidence of whatever it changes.
LEMMA ApplyTrackingSound ==
  ASSUME TypeOK, NEW t \in trackings, NEW row \in Row, Sound(t.parcel, row)
  PROVE  Sound(t.parcel, ApplyTracking(row, t, StatusFound(t.event)))
<1> DEFINE p == t.parcel
           s == StatusFound(t.event)
           new == ApplyTracking(row, t, s)
<1>1. t \in Tracking /\ p \in Parcel /\ t.event \in Event
  BY DEF TypeOK, Tracking
<1>2. s \in EventStatus
  BY <1>1, StatusFoundType
<1>3. FlagsAgreeIn(new) /\ TransferPrecedes(new)
  BY <1>1, <1>2, ApplyTrackingAgrees, ApplyTrackingTransferPrecedes DEF Sound
<1>4. HasEvidence(p, new)
  <2>1. CASE s \in OnlyLast
    BY <2>1, OnlyLastColumns, <1>1 DEF ApplyTracking, Sound, HasEvidence
  <2>2. CASE s \notin OnlyLast
    <3>1. \A S : s \in S => t.ts \in Times(With(S, p))
      BY DEF With, Times
    <3>2. s \notin NotTransferring => s \in Transferring
      BY <1>2, <2>2 DEF Transferring
    <3>3. /\ new.transferredAt = row.transferredAt
              \/ (s \notin NotTransferring /\ new.transferredAt = t.ts)
          /\ new.arrivedAt = row.arrivedAt \/ (s = "ARRIVED" /\ new.arrivedAt = t.ts)
          /\ new.returnedAt = row.returnedAt \/ (s = "RETURNED" /\ new.returnedAt = t.ts)
      BY <1>1, <1>2, <2>2, FollowEventDates DEF ApplyTracking
    <3>4. HasEvidence(p, row)
      BY DEF Sound
    <3> HIDE DEF new, s, p
    <3>5. new.arrivedAt \in Times(With({"ARRIVED"}, p)) \cup {NoDate}
      BY <3>1, <3>3, <3>4 DEF HasEvidence
    <3>6. new.returnedAt \in Times(With({"RETURNED"}, p)) \cup {NoDate}
      BY <3>1, <3>3, <3>4 DEF HasEvidence
    <3>7. new.transferredAt \in Times(With(Transferring, p)) \cup {NoDate}
      BY <3>1, <3>2, <3>3, <3>4 DEF HasEvidence
    <3> QED
      BY <3>5, <3>6, <3>7 DEF HasEvidence
  <2> QED
    BY <2>1, <2>2
<1> QED
  BY <1>3, <1>4 DEF Sound

-----------------------------------------------------------------------------
(* The invariant is inductive. *)

LEMMA InitInv == Init => IInv
<1> SUFFICES ASSUME Init PROVE IInv
  OBVIOUS
<1>1. TypeOK
  BY InitType
<1>2. \A p \in Parcel : Sound(p, NewRow) /\ AgingMeasured(NewRow) /\ Advances(NewRow, NewRow)
  BY NewRowSound, NewRowFacts, AdvancesReflexive DEF AgingMeasured
<1> QED
  BY <1>1, <1>2 DEF Init, IInv, TodoStored, ParcelsSound, CopiesSound, AgingComes, NoRows

Private == TodoStored /\ CopiesSound /\ AgingComes

LEMMA ParcelsUntouched ==
  ASSUME IInv, StoreGrows, UNCHANGED parcel
  PROVE  ParcelsSound'
BY SoundStays DEF IInv, ParcelsSound, AgingMeasured

LEMMA PrivateUntouched ==
  ASSUME IInv, StoreGrows, UNCHANGED <<todo, origin, copy>>,
         \A h \in Handler : pc'[h] = "folding" => pc[h] = "folding"
  PROVE  Private'
<1>1. TodoStored'
  BY DEF IInv, TodoStored, StoreGrows
<1>2. CopiesSound'
  <2> SUFFICES ASSUME NEW h \in Handler, NEW p \in Parcel
               PROVE  Sound(p, copy[h][p])' /\ Advances(origin[h][p], copy[h][p])'
    BY DEF CopiesSound
  <2>1. Sound(p, copy[h][p]) /\ Advances(origin[h][p], copy[h][p])
    BY DEF IInv, CopiesSound
  <2>2. \A row : Sound(p, row) => Sound(p, row)'
    BY SoundStays DEF IInv
  <2> QED
    BY <2>1, <2>2 DEF Advances, NotLater
<1>3. AgingComes'
  <2> SUFFICES ASSUME NEW h \in Handler, NEW p \in Parcel,
                      pc'[h] = "folding", copy[h][p].arrivedAt # NoDate, Arrivals(h, p)' = {}
               PROVE  /\ AgingMeasured(copy[h][p])
                      /\ \A t \in todo[h] : t.parcel = p => copy[h][p].transferredAt <= t.ts
    BY DEF AgingComes, AgingMeasured
  <2>1. Arrivals(h, p) = {}
    BY StatusStays DEF Arrivals, IInv, TypeOK, Tracking
  <2> QED
    BY <2>1 DEF IInv, AgingComes
<1> QED
  BY <1>1, <1>2, <1>3 DEF Private

LEMMA ForgetKeepsPrivate ==
  ASSUME IInv, StoreGrows, NEW h \in Handler, Forget(h), pc' = [pc EXCEPT ![h] = "idle"]
  PROVE  Private'
<1>1. /\ todo' = [todo EXCEPT ![h] = {}]
      /\ origin' = [origin EXCEPT ![h] = NoRows]
      /\ copy' = [copy EXCEPT ![h] = NoRows]
  BY DEF Forget
<1>2. TypeOK
  BY DEF IInv
<1>3. TodoStored'
  BY <1>1, <1>2 DEF IInv, TodoStored, StoreGrows, TypeOK
<1>4. CopiesSound'
  <2> SUFFICES ASSUME NEW g \in Handler, NEW p \in Parcel
               PROVE  Sound(p, copy[g][p])' /\ Advances(origin[g][p], copy[g][p])'
    BY DEF CopiesSound
  <2>1. \A row : Sound(p, row) => Sound(p, row)'
    BY <1>2, SoundStays
  <2>2. CASE g = h
    <3>1. copy'[g][p] = NewRow /\ origin'[g][p] = NewRow
      BY <1>1, <1>2, <2>2 DEF NoRows, TypeOK
    <3> QED
      BY <3>1, <2>1, NewRowSound, NewRowFacts, AdvancesReflexive
  <2>3. CASE g # h
    <3>1. copy'[g][p] = copy[g][p] /\ origin'[g][p] = origin[g][p]
      BY <1>1, <1>2, <2>3 DEF TypeOK
    <3>2. Sound(p, copy[g][p]) /\ Advances(origin[g][p], copy[g][p])
      BY DEF IInv, CopiesSound
    <3> QED
      BY <3>1, <3>2, <2>1
  <2> QED
    BY <2>2, <2>3
<1>5. AgingComes'
  <2> SUFFICES ASSUME NEW g \in Handler, NEW p \in Parcel,
                      pc'[g] = "folding", copy'[g][p].arrivedAt # NoDate, Arrivals(g, p)' = {}
               PROVE  /\ AgingMeasured(copy'[g][p])
                      /\ \A t \in todo'[g] : t.parcel = p => copy'[g][p].transferredAt <= t.ts
    BY DEF AgingComes, AgingMeasured
  <2>1. g # h
    BY <1>2 DEF TypeOK
  <2>2. copy'[g] = copy[g] /\ todo'[g] = todo[g] /\ pc[g] = "folding"
    BY <1>1, <1>2, <2>1 DEF TypeOK
  <2>3. Arrivals(g, p) = {}
    BY <2>2, <1>2, StatusStays DEF Arrivals, TypeOK, Tracking
  <2> QED
    BY <2>2, <2>3 DEF IInv, AgingComes
<1> QED
  BY <1>3, <1>4, <1>5 DEF Private

LEMMA ReadKeepsPrivate ==
  ASSUME IInv, StoreGrows, NEW h \in Handler, ReadParcels(h)
  PROVE  Private'
<1> DEFINE Read == {t \in trackings : t.parcel \in batch[h]}
<1>1. /\ todo' = [todo EXCEPT ![h] = Read]
      /\ origin' = [origin EXCEPT ![h] = RowsOf(h)]
      /\ copy' = [copy EXCEPT ![h] = RowsOf(h)]
      /\ pc' = [pc EXCEPT ![h] = "folding"]
      /\ trackings' = trackings /\ eventStatus' = eventStatus
  BY DEF ReadParcels, Goto, database
<1>2. TypeOK
  BY DEF IInv
<1>3. /\ todo'[h] = Read /\ copy'[h] = RowsOf(h) /\ origin'[h] = RowsOf(h)
      /\ \A g \in Handler : g # h =>
           /\ todo'[g] = todo[g] /\ copy'[g] = copy[g] /\ origin'[g] = origin[g]
           /\ pc'[g] = pc[g]
  BY <1>1, <1>2 DEF TypeOK
<1>4. \A p \in Parcel : /\ RowsOf(h)[p] \in Row
                        /\ Sound(p, RowsOf(h)[p])
                        /\ AgingMeasured(RowsOf(h)[p])
                        /\ RowsOf(h)[p].arrivedAt # NoDate => p \in batch[h]
  BY <1>2, NewRowSound, NewRowFacts
  DEF IInv, ParcelsSound, RowsOf, AgingMeasured, TypeOK
<1> HIDE DEF Read
<1>5. TodoStored'
  BY <1>1, <1>3 DEF IInv, TodoStored, Read
<1>6. CopiesSound'
  <2> SUFFICES ASSUME NEW g \in Handler, NEW p \in Parcel
               PROVE  Sound(p, copy[g][p])' /\ Advances(origin[g][p], copy[g][p])'
    BY DEF CopiesSound
  <2>1. \A row : Sound(p, row) => Sound(p, row)'
    BY <1>2, SoundStays
  <2>2. CASE g = h
    BY <1>3, <1>4, <2>1, <2>2, AdvancesReflexive
  <2>3. CASE g # h
    <3>1. Sound(p, copy[g][p]) /\ Advances(origin[g][p], copy[g][p])
      BY DEF IInv, CopiesSound
    <3> QED
      BY <1>3, <2>1, <2>3, <3>1
  <2> QED
    BY <2>2, <2>3
<1>7. AgingComes'
  <2> SUFFICES ASSUME NEW g \in Handler, NEW p \in Parcel,
                      pc'[g] = "folding", copy'[g][p].arrivedAt # NoDate, Arrivals(g, p)' = {}
               PROVE  /\ AgingMeasured(copy'[g][p])
                      /\ \A t \in todo'[g] : t.parcel = p => copy'[g][p].transferredAt <= t.ts
    BY DEF AgingComes, AgingMeasured
  <2>1. CASE g = h
    <3>1. p \in batch[h] /\ RowsOf(h)[p] = parcel[p]
      BY <1>3, <1>4, <2>1 DEF RowsOf
    <3>2. PICK t \in With({"ARRIVED"}, p) : TRUE
      BY <1>3, <1>4, <2>1 DEF Sound, HasEvidence, Times
    <3>3. t \in Read /\ t.parcel = p /\ StatusFound(t.event) = "ARRIVED"
      BY <3>1, <3>2 DEF With, Read
    <3>4. t.event \in Event
      BY <1>2, <3>2 DEF With, TypeOK, Tracking
    <3>5. t \in Arrivals(h, p)'
      BY <1>3, <3>3, <3>4, StatusStays DEF Arrivals
    <3> QED
      BY <2>1, <3>5
  <2>2. CASE g # h
    <3>1. todo'[g] = todo[g] /\ \A e \in Event : StatusFound(e)' = StatusFound(e)
      BY <1>3, <2>2, StatusStays
    <3>2. Arrivals(g, p) = {}
      BY <1>2, <3>1 DEF Arrivals, TypeOK, Tracking
    <3> QED
      BY <1>3, <2>2, <3>2 DEF IInv, AgingComes
  <2> QED
    BY <2>1, <2>2
<1> QED
  BY <1>5, <1>6, <1>7 DEF Private

\* The heart of the argument: why the aging is right once the fold is over.
LEMMA FoldedAging ==
  ASSUME NEW row \in Row, NEW t \in Tracking, NEW s \in EventStatus,
         NEW T \in SUBSET Tracking, IsFirst(t, T), TransferPrecedes(row),
         \/ s = "ARRIVED"
         \/ ApplyTracking(row, t, s).arrivedAt = NoDate
         \/ AgingMeasured(row) /\ \A u \in T : row.transferredAt <= u.ts
  PROVE  LET new == ApplyTracking(row, t, s)
         IN new.arrivedAt # NoDate =>
              AgingMeasured(new) /\ \A u \in T : new.transferredAt <= u.ts
<1> DEFINE new == ApplyTracking(row, t, s)
<1>1. \A u \in T : t.ts <= u.ts
  BY DEF IsFirst, Precedes, Tracking
<1>2. t.ts \in Int /\ \A u \in T : u.ts \in Int
  BY DEF Tracking
<1>3. /\ row.transferredAt \in Int /\ row.arrivedAt \in Int
      /\ new.transferredAt \in Int
  BY ApplyTrackingType DEF Row, Date
<1>4. CASE s = "ARRIVED"
  <2>1. "ARRIVED" \notin OnlyLast /\ "ARRIVED" \notin NotTransferring
    BY DEF OnlyLast, NotTransferring, NoStatus
  <2>2. new = FollowEvent(row, t, s)
    BY <1>4, <2>1 DEF ApplyTracking
  <2>3. AgingMeasured(new)
    BY <1>4, <2>2, FollowEventColumns DEF AgingMeasured
  <2>4. new.transferredAt <= t.ts
    BY <1>4, <2>1, <2>2, FollowEventDates
  <2> HIDE DEF new
  <2>5. \A u \in T : new.transferredAt <= u.ts
    BY <1>1, <1>2, <1>3, <2>4
  <2> QED
    BY <2>3, <2>5 DEF new
<1>5. CASE s # "ARRIVED" /\ new.arrivedAt # NoDate
  <2>1. AgingMeasured(row) /\ \A u \in T : row.transferredAt <= u.ts
    BY <1>5
  <2>2. CASE s \in OnlyLast
    BY <2>1, <2>2, OnlyLastColumns DEF ApplyTracking, AgingMeasured
  <2>3. CASE s \notin OnlyLast
    <3>1. new = FollowEvent(row, t, s)
      BY <2>3 DEF ApplyTracking
    <3>2. new.arrivedAt = row.arrivedAt /\ new.aging = row.aging
      BY <1>5, <3>1, FollowEventColumns
    <3>3. row.transferredAt # NoDate
      BY <1>5, <3>2 DEF TransferPrecedes
    <3>4. row.transferredAt <= t.ts
      BY <2>1 DEF IsFirst
    <3>5. \/ new.transferredAt = row.transferredAt
          \/ new.transferredAt = t.ts
      BY <3>1, FollowEventDates
    <3>6. new.transferredAt <= row.transferredAt
      BY <3>1, <3>3, FollowEventDates
    <3> HIDE DEF new
    <3>7. new.transferredAt = row.transferredAt
      BY <1>2, <1>3, <3>4, <3>5, <3>6
    <3> QED
      BY <2>1, <3>2, <3>7 DEF AgingMeasured, new
  <2> QED
    BY <2>2, <2>3
<1> QED
  BY <1>4, <1>5

LEMMA FoldKeepsPrivate ==
  ASSUME IInv, StoreGrows, NEW h \in Handler, NEW t \in todo[h], FoldTracking(h, t)
  PROVE  Private'
<1> DEFINE q == t.parcel
           s == StatusFound(t.event)
           new == ApplyTracking(copy[h][q], t, s)
<1>1. /\ todo' = [todo EXCEPT ![h] = @ \ {t}]
      /\ copy' = [copy EXCEPT ![h][q] = new]
      /\ UNCHANGED <<origin, pc, trackings>>
      /\ pc[h] = "folding"
      /\ IsFirst(t, {u \in todo[h] : u.parcel = q})
  BY DEF FoldTracking
<1>2. TypeOK /\ t \in trackings /\ t \in Tracking /\ q \in Parcel /\ t.event \in Event
  BY DEF IInv, TypeOK, TodoStored, Tracking
<1>3. s \in EventStatus /\ copy[h][q] \in Row
  BY <1>2, StatusFoundType DEF TypeOK
<1>4. Sound(q, copy[h][q]) /\ Advances(origin[h][q], copy[h][q])
  BY <1>2 DEF IInv, CopiesSound
<1>5. Sound(q, new)
  BY <1>2, <1>3, <1>4, ApplyTrackingSound
<1>6. new \in Row /\ Advances(copy[h][q], new)
  BY <1>2, <1>3, ApplyTrackingType, ApplyTrackingAdvances
<1>7. Advances(origin[h][q], new)
  BY <1>2, <1>3, <1>4, <1>6, AdvancesTransitive DEF TypeOK
<1>8. \A g \in Handler : \A p \in Parcel :
         copy'[g][p] = IF g = h /\ p = q THEN new ELSE copy[g][p]
  BY <1>1, <1>2 DEF TypeOK
<1>9. \A g \in Handler : todo'[g] = IF g = h THEN todo[h] \ {t} ELSE todo[g]
  BY <1>1, <1>2 DEF TypeOK
<1>10. TodoStored'
  BY <1>1, <1>9 DEF IInv, TodoStored
<1>11. CopiesSound'
  <2> SUFFICES ASSUME NEW g \in Handler, NEW p \in Parcel
               PROVE  Sound(p, copy[g][p])' /\ Advances(origin[g][p], copy[g][p])'
    BY DEF CopiesSound
  <2>1. \A row : Sound(p, row) => Sound(p, row)'
    BY <1>2, SoundStays
  <2>2. Sound(p, copy[g][p]) /\ Advances(origin[g][p], copy[g][p])
    BY DEF IInv, CopiesSound
  <2> HIDE DEF new, q
  <2> QED
    BY <1>1, <1>5, <1>7, <1>8, <2>1, <2>2
<1>12. AgingComes'
  <2> SUFFICES ASSUME NEW g \in Handler, NEW p \in Parcel,
                      pc'[g] = "folding", copy'[g][p].arrivedAt # NoDate, Arrivals(g, p)' = {}
               PROVE  /\ AgingMeasured(copy'[g][p])
                      /\ \A u \in todo'[g] : u.parcel = p => copy'[g][p].transferredAt <= u.ts
    BY DEF AgingComes, AgingMeasured
  <2>1. \A u \in Arrivals(g, p) : g = h /\ u = t
    <3> SUFFICES ASSUME NEW u \in Arrivals(g, p), ~(g = h /\ u = t)
                 PROVE  FALSE
      OBVIOUS
    <3>1. u \in todo[g] /\ u.parcel = p /\ StatusFound(u.event) = "ARRIVED" /\ u.event \in Event
      BY <1>2 DEF Arrivals, TypeOK, Tracking
    <3>2. u \in todo'[g] /\ StatusFound(u.event)' = "ARRIVED"
      BY <1>9, <3>1, StatusStays
    <3> QED
      BY <3>1, <3>2 DEF Arrivals
  <2>2. CASE g = h /\ p = q
    <3> DEFINE T == {u \in todo[h] : u.parcel = q}
    <3>1. T \in SUBSET Tracking /\ IsFirst(t, T)
      BY <1>1, <1>2 DEF TypeOK
    <3>2. TransferPrecedes(copy[h][q])
      BY <1>4 DEF Sound
    <3>3. \/ s = "ARRIVED"
          \/ new.arrivedAt = NoDate
          \/ AgingMeasured(copy[h][q]) /\ \A u \in T : copy[h][q].transferredAt <= u.ts
      <4>1. SUFFICES ASSUME s # "ARRIVED", new.arrivedAt # NoDate
                     PROVE  AgingMeasured(copy[h][q])
                            /\ \A u \in T : copy[h][q].transferredAt <= u.ts
        OBVIOUS
      <4>2. Arrivals(h, q) = {}
        BY <2>1, <2>2, <4>1 DEF Arrivals
      <4>3. copy[h][q].arrivedAt # NoDate
        <5>1. CASE s \in OnlyLast
          BY <4>1, <5>1, <1>2, <1>3, OnlyLastColumns DEF ApplyTracking
        <5>2. CASE s \notin OnlyLast
          BY <4>1, <5>2, <1>2, <1>3, FollowEventColumns DEF ApplyTracking
        <5> QED
          BY <5>1, <5>2
      <4> QED
        BY <1>1, <1>2, <4>2, <4>3 DEF IInv, AgingComes
    <3>4. new.arrivedAt # NoDate =>
             AgingMeasured(new) /\ \A u \in T : new.transferredAt <= u.ts
      BY <1>2, <1>3, <3>1, <3>2, <3>3, FoldedAging
    <3> HIDE DEF new
    <3> QED
      BY <1>8, <1>9, <2>2, <3>4
  <2>3. CASE ~(g = h /\ p = q)
    <3>1. Arrivals(g, p) = {}
      BY <2>1, <2>3 DEF Arrivals
    <3>2. copy'[g][p] = copy[g][p] /\ pc[g] = "folding" /\ todo'[g] \subseteq todo[g]
      BY <1>1, <1>8, <1>9, <2>3
    <3> QED
      BY <3>1, <3>2 DEF IInv, AgingComes
  <2> QED
    BY <2>2, <2>3
<1> QED
  BY <1>10, <1>11, <1>12 DEF Private

LEMMA SaveKeepsParcels ==
  ASSUME IInv, StoreGrows, NEW h \in Handler, SaveParcels(h)
  PROVE  ParcelsSound'
<1>1. /\ \A p \in Parcel : parcel'[p] = IF p \in Changed(h) THEN copy[h][p] ELSE parcel[p]
      /\ pc[h] = "folding" /\ todo[h] = {}
  BY DEF SaveParcels, Goto
<1> SUFFICES ASSUME NEW p \in Parcel
             PROVE  Sound(p, parcel[p])' /\ AgingMeasured(parcel[p])'
  BY DEF ParcelsSound
<1>2. \A row : Sound(p, row) => Sound(p, row)'
  BY SoundStays DEF IInv
<1>3. CASE p \in Changed(h)
  <2>1. Sound(p, copy[h][p])
    BY DEF IInv, CopiesSound
  <2>2. AgingMeasured(copy[h][p])
    <3>1. Arrivals(h, p) = {}
      BY <1>1 DEF Arrivals
    <3> QED
      BY <1>1, <3>1 DEF IInv, AgingComes, AgingMeasured
  <2>3. parcel'[p] = copy[h][p]
    BY <1>1, <1>3
  <2> QED
    BY <1>2, <2>1, <2>2, <2>3 DEF AgingMeasured
<1>4. CASE p \notin Changed(h)
  <2>1. Sound(p, parcel[p]) /\ AgingMeasured(parcel[p])
    BY DEF IInv, ParcelsSound
  <2>2. parcel'[p] = parcel[p]
    BY <1>1, <1>4
  <2> QED
    BY <1>2, <2>1, <2>2 DEF AgingMeasured
<1> QED
  BY <1>3, <1>4

LEMMA NextInv == IInv /\ [Next]_vars => IInv'
<1> SUFFICES ASSUME IInv, [Next]_vars PROVE IInv'
  OBVIOUS
<1> USE DEF database, locals
<1>1. TypeOK /\ TypeOK' /\ StoreGrows
  BY NextType, StepGrowsStore DEF IInv
<1>2. Private' /\ ParcelsSound'
  <2>1. ASSUME NEW h \in Handler, NEW T, InsertTrackings(h, T)
        PROVE  Private' /\ ParcelsSound'
    <3>1. \A g \in Handler : pc'[g] = "folding" => pc[g] = "folding"
      BY <1>1, <2>1 DEF InsertTrackings, Goto, TypeOK
    <3> QED
      BY <1>1, <2>1, <3>1, PrivateUntouched, ParcelsUntouched DEF InsertTrackings
  <2>2. ASSUME NEW h \in Handler, ReadParcels(h)
        PROVE  Private' /\ ParcelsSound'
    <3>1. UNCHANGED parcel
      BY <2>2 DEF ReadParcels
    <3> QED
      BY <1>1, <2>2, <3>1, ReadKeepsPrivate, ParcelsUntouched
  <2>3. ASSUME NEW h \in Handler, NEW t \in todo[h], FoldTracking(h, t)
        PROVE  Private' /\ ParcelsSound'
    <3>1. UNCHANGED parcel
      BY <2>3 DEF FoldTracking
    <3> QED
      BY <1>1, <2>3, <3>1, FoldKeepsPrivate, ParcelsUntouched
  <2>4. ASSUME NEW h \in Handler, SaveParcels(h)
        PROVE  Private' /\ ParcelsSound'
    <3>1. \A g \in Handler : pc'[g] = "folding" => pc[g] = "folding"
      BY <1>1, <2>4 DEF SaveParcels, Goto, TypeOK
    <3>2. UNCHANGED <<todo, origin, copy>>
      BY <2>4 DEF SaveParcels
    <3> QED
      BY <1>1, <2>4, <3>1, <3>2, PrivateUntouched, SaveKeepsParcels
  <2>5. ASSUME NEW h \in Handler, UNCHANGED parcel, Forget(h),
               pc' = [pc EXCEPT ![h] = "idle"]
        PROVE  Private' /\ ParcelsSound'
    BY <1>1, <2>5, ForgetKeepsPrivate, ParcelsUntouched
  <2>6. ASSUME NEW h \in Handler,
               NothingChanged(h) \/ WriteAgings(h) \/ Fail(h)
        PROVE  Private' /\ ParcelsSound'
    BY <2>5, <2>6 DEF NothingChanged, WriteAgings, Fail, Goto
  <2>7. ASSUME NEW h \in Handler,
               RequestPushes(h) \/ ReadTargets(h) \/ WriteTargets(h)
        PROVE  Private' /\ ParcelsSound'
    <3>1. \A g \in Handler : pc'[g] = "folding" => pc[g] = "folding"
      BY <1>1, <2>7 DEF RequestPushes, ReadTargets, WriteTargets, Goto, TypeOK
    <3>2. UNCHANGED <<parcel, todo, origin, copy>>
      BY <2>7 DEF RequestPushes, ReadTargets, WriteTargets
    <3> QED
      BY <1>1, <3>1, <3>2, PrivateUntouched, ParcelsUntouched
  <2>8. CASE UNCHANGED vars
    <3>1. UNCHANGED <<parcel, todo, origin, copy, pc>>
      BY <2>8 DEF vars
    <3> QED
      BY <1>1, <3>1, PrivateUntouched, ParcelsUntouched
  <2> QED
    BY <2>1, <2>2, <2>3, <2>4, <2>6, <2>7, <2>8 DEF Next, HandlerStep
<1> QED
  BY <1>1, <1>2 DEF IInv, Private

THEOREM Invariance == Spec => []IInv
<1> QED
  BY InitInv, NextInv, PTL DEF Spec

-----------------------------------------------------------------------------
(* What follows from the invariant. *)

\* However many handlers overwrite one another's rows, the columns of a stored
\* parcel agree with one another.
THEOREM FlagsAlwaysAgree == Spec => []FlagsAgree
<1>1. IInv => FlagsAgree
  BY DEF IInv, ParcelsSound, Sound, FlagsAgree
<1> QED
  BY <1>1, Invariance, PTL

\* The aging of an arrived parcel is always the time from its transfer to its
\* arrival, and neither date is missing.
THEOREM AgingIsAlwaysTransferToArrival == Spec => []AgingIsTransferToArrival
<1>1. IInv => AgingIsTransferToArrival
  BY DEF IInv, ParcelsSound, Sound, AgingIsTransferToArrival
<1> QED
  BY <1>1, Invariance, PTL

\* Every milestone of every parcel is the time of a stored tracking that proves it.
THEOREM MilestonesAlwaysHaveEvidence == Spec => []MilestonesHaveEvidence
<1>1. IInv => MilestonesHaveEvidence
  BY DEF IInv, ParcelsSound, Sound, MilestonesHaveEvidence
<1> QED
  BY <1>1, Invariance, PTL

\* A handler that writes over the row it read only takes a parcel forward.
THEOREM SoloSavesAdvance == Spec => SoloSaveAdvances
<1>1. IInv /\ [Next]_vars =>
        [\A p \in Parcel :
           (\E h \in Handler : SaveParcels(h) /\ p \in Changed(h) /\ parcel[p] = origin[h][p])
             => Advances(parcel[p], parcel'[p])]_vars
  <2> SUFFICES ASSUME IInv, NEW p \in Parcel, NEW h \in Handler,
                      SaveParcels(h), p \in Changed(h), parcel[p] = origin[h][p]
               PROVE  Advances(parcel[p], parcel'[p])
    OBVIOUS
  <2>1. parcel'[p] = copy[h][p]
    BY DEF SaveParcels
  <2> QED
    BY <2>1 DEF IInv, CopiesSound
<1> QED
  BY <1>1, Invariance, PTL DEF Spec, SoloSaveAdvances

Announced(p) == \E i \in DOMAIN requests[p] : requests[p][i] = parcel[p]

\* Between the two writes of a handler the announcement is still to come.
AnnouncementDue(p) == \E h \in Handler :
  pc[h] = "saved" /\ p \in Changed(h) /\ copy[h][p] = parcel[p]

Announcing == failures = 0 => \A p \in Parcel :
                parcel[p] = NewRow \/ Announced(p) \/ AnnouncementDue(p)

LEMMA NextAnnouncing == IInv /\ Announcing /\ [Next]_vars => Announcing'
<1> SUFFICES ASSUME IInv, Announcing, [Next]_vars, failures' = 0, NEW p \in Parcel
             PROVE  (parcel[p] = NewRow \/ Announced(p) \/ AnnouncementDue(p))'
  BY DEF Announcing
<1> USE DEF database, locals
<1>1. TypeOK
  BY DEF IInv
<1>2. failures = 0
  <2>1. failures' = failures \/ failures' = failures + 1
    BY DEF Next, HandlerStep, vars, InsertTrackings, ReadParcels, FoldTracking,
       SaveParcels, NothingChanged, RequestPushes, ReadTargets, WriteTargets, WriteAgings,
       Fail
  <2> QED
    BY <1>1, <2>1 DEF TypeOK
<1>3. parcel[p] = NewRow \/ Announced(p) \/ AnnouncementDue(p)
  BY <1>2 DEF Announcing
<1>4. ASSUME UNCHANGED <<parcel, requests>>, NEW h \in Handler, pc[h] # "saved",
             \A g \in Handler : g # h => /\ pc'[g] = pc[g] /\ batch'[g] = batch[g]
                                         /\ copy'[g] = copy[g] /\ origin'[g] = origin[g]
      PROVE  (parcel[p] = NewRow \/ Announced(p) \/ AnnouncementDue(p))'
  BY <1>3, <1>4 DEF Announced, AnnouncementDue, Changed
<1>5. ASSUME NEW h \in Handler, SaveParcels(h)
      PROVE  (parcel[p] = NewRow \/ Announced(p) \/ AnnouncementDue(p))'
  <2>1. /\ pc[h] = "folding" /\ pc'[h] = "saved"
        /\ \A g \in Handler : g # h => pc'[g] = pc[g]
        /\ UNCHANGED <<requests, batch, copy, origin>>
    BY <1>1, <1>5 DEF SaveParcels, Goto, TypeOK
  <2>2. CASE p \in Changed(h)
    <3>1. parcel'[p] = copy[h][p]
      BY <1>5, <2>2 DEF SaveParcels
    <3> QED
      BY <2>1, <2>2, <3>1 DEF AnnouncementDue, Changed
  <2>3. CASE p \notin Changed(h)
    <3>1. parcel'[p] = parcel[p]
      BY <1>5, <2>3 DEF SaveParcels
    <3> QED
      BY <1>3, <2>1, <3>1 DEF Announced, AnnouncementDue, Changed
  <2> QED
    BY <2>2, <2>3
<1>6. ASSUME NEW h \in Handler, RequestPushes(h)
      PROVE  (parcel[p] = NewRow \/ Announced(p) \/ AnnouncementDue(p))'
  <2>1. /\ \A g \in Handler : g # h => pc'[g] = pc[g]
        /\ UNCHANGED <<parcel, batch, copy, origin>>
        /\ requests'[p] = IF p \in Changed(h) THEN Append(requests[p], copy[h][p])
                          ELSE requests[p]
    BY <1>1, <1>6 DEF RequestPushes, Goto, TypeOK
  <2>2. requests[p] \in Seq(Row) /\ copy[h][p] \in Row
    BY <1>1 DEF TypeOK
  <2>3. Announced(p) => Announced(p)'
    BY <2>1, <2>2 DEF Announced
  <2>4. ASSUME p \in Changed(h), copy[h][p] = parcel[p]
        PROVE  Announced(p)'
    <3>1. Len(requests[p]) + 1 \in DOMAIN requests'[p]
      BY <2>1, <2>2, <2>4
    <3>2. requests'[p][Len(requests[p]) + 1] = copy[h][p]
      BY <2>1, <2>2, <2>4
    <3> QED
      BY <2>1, <2>4, <3>1, <3>2 DEF Announced
  <2>5. AnnouncementDue(p) => Announced(p)' \/ AnnouncementDue(p)'
    BY <2>1, <2>4 DEF AnnouncementDue, Changed
  <2> QED
    BY <1>3, <2>1, <2>3, <2>5
<1>7. ASSUME NEW h \in Handler, UNCHANGED <<parcel, requests>>,
             \/ \E T : InsertTrackings(h, T)
             \/ ReadParcels(h) \/ NothingChanged(h)
             \/ \E t \in todo[h] : FoldTracking(h, t)
             \/ ReadTargets(h) \/ WriteTargets(h) \/ WriteAgings(h)
      PROVE  (parcel[p] = NewRow \/ Announced(p) \/ AnnouncementDue(p))'
  <2>1. /\ pc[h] # "saved"
        /\ \A g \in Handler : g # h => /\ pc'[g] = pc[g] /\ batch'[g] = batch[g]
                                        /\ copy'[g] = copy[g] /\ origin'[g] = origin[g]
    BY <1>1, <1>7 DEF InsertTrackings, ReadParcels, FoldTracking, NothingChanged,
       ReadTargets, WriteTargets, WriteAgings, Goto, Forget, TypeOK
  <2> QED
    BY <1>4, <1>7, <2>1
<1>8. CASE UNCHANGED vars
  BY <1>3, <1>8 DEF vars, Announced, AnnouncementDue, Changed
<1>9. ~\E h \in Handler : Fail(h)
  BY <1>1, <1>2 DEF Fail, TypeOK
<1> QED
  BY <1>5, <1>6, <1>7, <1>8, <1>9 DEF Next, HandlerStep, InsertTrackings, ReadParcels,
     FoldTracking, NothingChanged, ReadTargets, WriteTargets, WriteAgings

\* While no handler has failed, the row a parcel ends up with has been handed to
\* the push outbox.
THEOREM ChangesAreAnnounced == Spec => []ChangeIsAnnounced
<1>1. Init => Announcing
  BY DEF Init, Announcing, NoRows
<1>2. Announcing => ChangeIsAnnounced
  BY DEF Announcing, AnnouncementDue, Announced, ChangeIsAnnounced, Quiet
<1> QED
  BY <1>1, <1>2, Invariance, NextAnnouncing, PTL DEF Spec

-----------------------------------------------------------------------------
(* What the fold computes.  Tells says of a row that it shows what a set of *)
(* trackings proves.  Where ToldByTrackings chooses the earliest date and   *)
(* the latest tracking, Tells bounds the dates and names a latest tracking, *)
(* so that it can be carried from one turn to the next.                     *)

Stored(p) == {t \in trackings : t.parcel = p}

Telling == EventStatus \ (OnlyLast \cup {NoStatus})

\* The trackings of a set whose event has one of these statuses.
Meaning(T, S) == {t \in T : StatusFound(t.event) \in S}

IsLast(t, T) == t \in T /\ \A u \in T : Precedes(u, t)

DatesTold(row, T) ==
  /\ \A t \in Meaning(T, {"ARRIVED"}) : NotLater(row.arrivedAt, t.ts)
  /\ \A t \in Meaning(T, {"RETURNED"}) : NotLater(row.returnedAt, t.ts)
  /\ \A t \in Meaning(T, Transferring) : NotLater(row.transferredAt, t.ts)

FinishTold(row, T) == Meaning(T, FinalStatus) # {} => row.isFinished

LastTold(row, T) == T # {} => \E t \in T : IsLast(t, T) /\ row.last = LastOf(t)

StatusTold(row, T) ==
  LET telling == Meaning(T, Telling)
  IN telling # {} =>
       \E t \in telling : IsLast(t, telling) /\ row.status = StatusFound(t.event)

Tells(row, T) ==
  DatesTold(row, T) /\ FinishTold(row, T) /\ LastTold(row, T) /\ StatusTold(row, T)

LEMMA TellsNothing == \A row : Tells(row, {})
BY DEF Tells, DatesTold, FinishTold, LastTold, StatusTold, Meaning

LEMMA MeaningStays ==
  ASSUME TypeOK, StoreGrows, NEW T \in SUBSET Tracking
  PROVE  \A S : Meaning(T, S)' = Meaning(T, S)
BY StatusStays DEF Meaning, Tracking

LEMMA TellsStays ==
  ASSUME TypeOK, StoreGrows, NEW T \in SUBSET Tracking, NEW row, Tells(row, T)
  PROVE  Tells(row, T)'
<1>1. /\ Meaning(T, {"ARRIVED"})' = Meaning(T, {"ARRIVED"})
      /\ Meaning(T, {"RETURNED"})' = Meaning(T, {"RETURNED"})
      /\ Meaning(T, Transferring)' = Meaning(T, Transferring)
      /\ Meaning(T, FinalStatus)' = Meaning(T, FinalStatus)
      /\ Meaning(T, Telling)' = Meaning(T, Telling)
  BY MeaningStays
<1>2. \A t \in T : StatusFound(t.event)' = StatusFound(t.event)
  BY StatusStays DEF Tracking
<1>3. Meaning(T, Telling) \subseteq T
  BY DEF Meaning
<1>4. DatesTold(row, T)'
  BY <1>1 DEF Tells, DatesTold, NotLater
<1>5. FinishTold(row, T)' /\ LastTold(row, T)'
  BY <1>1 DEF Tells, FinishTold, LastTold, IsLast, Precedes, LastOf
<1>6. StatusTold(row, T)'
  BY <1>1, <1>2, <1>3 DEF Tells, StatusTold, IsLast, Precedes
<1> QED
  BY <1>4, <1>5, <1>6 DEF Tells

\* The columns no milestone is about.
LEMMA ApplyTrackingColumns ==
  ASSUME NEW row \in Row, NEW t \in Tracking, NEW s \in EventStatus
  PROVE  LET new == ApplyTracking(row, t, s)
         IN /\ new.last = LastOf(t)
            /\ new.status = IF s \in Telling THEN s ELSE row.status
            /\ new.isFinished <=>
                 row.isFinished \/ (s \notin OnlyLast /\ new.status \in FinalStatus)
<1>1. CASE s \in OnlyLast
  BY <1>1, OnlyLastColumns DEF ApplyTracking, Row, Telling
<1>2. CASE s \notin OnlyLast
  <2>1. ApplyTracking(row, t, s).last = LastOf(t)
    BY <1>2 DEF ApplyTracking, FollowEvent, Row
  <2> QED
    BY <1>2, <2>1, FollowEventColumns DEF ApplyTracking, Telling
<1> QED
  BY <1>1, <1>2

LEMMA PrecedesReflexive == ASSUME NEW t \in Tracking PROVE Precedes(t, t)
<1>1. t.event \in Nat
  BY EventAssumption DEF Tracking
<1> QED
  BY <1>1 DEF Precedes

LEMMA NotLaterTransitive ==
  ASSUME NEW d1 \in Date, NEW d2 \in Date, NEW d3 \in Date, NotLater(d1, d2), NotLater(d2, d3)
  PROVE  NotLater(d1, d3)
BY DEF NotLater, Date

\* One more tracking, which none of those already folded comes after.
LEMMA FoldedTells ==
  ASSUME TypeOK, NEW row \in Row, NEW T \in SUBSET Tracking, NEW t \in Tracking,
         \A u \in T : Precedes(u, t), Tells(row, T)
  PROVE  Tells(ApplyTracking(row, t, StatusFound(t.event)), T \cup {t})
<1> DEFINE s == StatusFound(t.event)
           new == ApplyTracking(row, t, s)
           all == T \cup {t}
<1>1. t.event \in Event /\ t.ts \in Date
  BY TrackingType DEF Tracking
<1>2. s \in EventStatus
  BY <1>1, StatusFoundType
<1>3. new \in Row /\ Advances(row, new)
  BY <1>2, ApplyTrackingType, ApplyTrackingAdvances
<1>4. /\ row.arrivedAt \in Date /\ row.returnedAt \in Date /\ row.transferredAt \in Date
      /\ new.arrivedAt \in Date /\ new.returnedAt \in Date /\ new.transferredAt \in Date
      /\ \A u \in T : u.ts \in Date
  BY <1>3, TrackingType DEF Row
<1>5. /\ s = "ARRIVED" => NotLater(new.arrivedAt, t.ts)
      /\ s = "RETURNED" => NotLater(new.returnedAt, t.ts)
      /\ s \in Transferring => NotLater(new.transferredAt, t.ts)
  <2>1. SUFFICES ASSUME s \notin OnlyLast
                 PROVE  /\ s = "ARRIVED" => NotLater(new.arrivedAt, t.ts)
                        /\ s = "RETURNED" => NotLater(new.returnedAt, t.ts)
                        /\ s \in Transferring => NotLater(new.transferredAt, t.ts)
    BY DEF OnlyLast, Transferring
  <2>2. new = FollowEvent(row, t, s)
    BY <2>1 DEF ApplyTracking
  <2>3. /\ new.arrivedAt = IF s = "ARRIVED" THEN EarlierDate(row.arrivedAt, t.ts)
                           ELSE row.arrivedAt
        /\ new.returnedAt = IF s = "RETURNED" THEN EarlierDate(row.returnedAt, t.ts)
                            ELSE row.returnedAt
    BY <1>2, <2>2, FollowEventColumns
  <2>4. \A d \in Date : EarlierDate(d, t.ts) # NoDate /\ EarlierDate(d, t.ts) <= t.ts
    BY TrackingType, EarlierDateFacts
  <2>5. s \in Transferring => new.transferredAt # NoDate /\ new.transferredAt <= t.ts
    BY <1>2, <2>2, FollowEventDates DEF Transferring
  <2> HIDE DEF new, s
  <2> QED
    BY <1>4, <2>3, <2>4, <2>5 DEF NotLater
<1>6. new.last = LastOf(t) /\ new.status = IF s \in Telling THEN s ELSE row.status
  BY <1>2, ApplyTrackingColumns
<1>7. s \in FinalStatus => new.isFinished
  <2>1. FinalStatus \subseteq Telling /\ FinalStatus \cap OnlyLast = {}
    BY DEF FinalStatus, Telling, EventStatus, ParcelStatus, OnlyLast, NoStatus
  <2> QED
    BY <1>2, <1>6, <2>1, ApplyTrackingColumns
<1>8. row.isFinished => new.isFinished
  BY <1>3 DEF Advances
<1>9. \A S : Meaning(all, S) = Meaning(T, S) \cup (IF s \in S THEN {t} ELSE {})
  BY DEF Meaning
<1>10. IsLast(t, all)
  BY PrecedesReflexive DEF IsLast
<1> HIDE DEF new, s
<1>11. DatesTold(new, all)
  <2>1. /\ \A u \in Meaning(T, {"ARRIVED"}) : NotLater(new.arrivedAt, u.ts)
        /\ \A u \in Meaning(T, {"RETURNED"}) : NotLater(new.returnedAt, u.ts)
        /\ \A u \in Meaning(T, Transferring) : NotLater(new.transferredAt, u.ts)
    <3>1. NotLater(new.arrivedAt, row.arrivedAt) /\ NotLater(new.returnedAt, row.returnedAt)
          /\ NotLater(new.transferredAt, row.transferredAt)
      BY <1>3 DEF Advances
    <3>2. \A S : Meaning(T, S) \subseteq T
      BY DEF Meaning
    <3> QED
      BY <1>4, <3>1, <3>2, NotLaterTransitive DEF Tells, DatesTold
  <2>2. /\ \A u \in Meaning(all, {"ARRIVED"}) : NotLater(new.arrivedAt, u.ts)
        /\ \A u \in Meaning(all, {"RETURNED"}) : NotLater(new.returnedAt, u.ts)
        /\ \A u \in Meaning(all, Transferring) : NotLater(new.transferredAt, u.ts)
    <3>1. \A S : \A u \in Meaning(all, S) : u \in Meaning(T, S) \/ (u = t /\ s \in S)
      BY <1>9
    <3> QED
      BY <1>5, <2>1, <3>1
  <2> QED
    BY <2>2 DEF DatesTold
<1>12. FinishTold(new, all)
  BY <1>7, <1>8, <1>9 DEF Tells, FinishTold
<1>13. LastTold(new, all)
  BY <1>6, <1>10 DEF LastTold
<1>14. StatusTold(new, all)
  <2> DEFINE old == Meaning(T, Telling)
             telling == Meaning(all, Telling)
  <2>1. CASE s \in Telling
    <3>1. telling = old \cup {t} /\ telling \subseteq all
      BY <1>9, <2>1 DEF Meaning
    <3>2. IsLast(t, telling) /\ new.status = s
      BY <1>6, <1>10, <2>1, <3>1 DEF IsLast
    <3> QED
      BY <3>2 DEF StatusTold, IsLast, s
  <2>2. CASE s \notin Telling
    <3>1. telling = old /\ new.status = row.status
      BY <1>6, <1>9, <2>2
    <3>2. StatusTold(row, T)
      BY DEF Tells
    <3> QED
      BY <3>1, <3>2 DEF StatusTold
  <2> QED
    BY <2>1, <2>2
<1> QED
  BY <1>11, <1>12, <1>13, <1>14 DEF Tells, new, s

LEMMA EarliestIs ==
  ASSUME NEW D \in SUBSET Int, NEW d \in D \cup {NoDate},
         \A e \in D : d # NoDate /\ d <= e
  PROVE  Earliest(D) = d
<1>1. CASE D = {}
  BY <1>1 DEF Earliest
<1>2. CASE D # {}
  <2>1. d \in D
    BY <1>2
  <2>2. \A e \in D : (\A f \in D : e <= f) => e = d
    BY <2>1
  <2> DEFINE Least(e) == \A f \in D : e <= f
  <2>3. Least(d)
    OBVIOUS
  <2>4. Earliest(D) = CHOOSE e \in D : Least(e)
    BY <1>2 DEF Earliest
  <2>5. \A e \in D : Least(e) => e = d
    BY <2>2
  <2> HIDE DEF Least
  <2>6. (CHOOSE e \in D : Least(e)) \in D /\ Least(CHOOSE e \in D : Least(e))
    BY <2>1, <2>3, Zenon
  <2> QED
    BY <2>4, <2>5, <2>6
<1> QED
  BY <1>1, <1>2

\* Two trackings after which none of a set comes differ in their parcels only.
LEMMA LatestIs ==
  ASSUME NEW T \in SUBSET Tracking, NEW t \in T, IsLast(t, T)
  PROVE  Latest(T).event = t.event /\ LastOf(Latest(T)) = LastOf(t)
<1> DEFINE u == Latest(T)
<1>1. u \in T /\ \A v \in T : Precedes(v, u)
  <2> DEFINE After(v) == \A w \in T : Precedes(w, v)
  <2>1. t \in T /\ After(t)
    BY DEF IsLast
  <2>2. Latest(T) = CHOOSE v \in T : After(v)
    BY DEF Latest
  <2> HIDE DEF After
  <2>3. (CHOOSE v \in T : After(v)) \in T /\ After(CHOOSE v \in T : After(v))
    BY <2>1, Zenon
  <2> QED
    BY <2>2, <2>3 DEF After
<1>2. Precedes(u, t) /\ Precedes(t, u)
  BY <1>1 DEF IsLast
<1> HIDE DEF u
<1>3. u.ts \in Int /\ t.ts \in Int /\ u.event \in Int /\ t.event \in Int
  <2>1. \A v \in T : v.ts \in Int /\ v.event \in Int
    <3> SUFFICES ASSUME NEW v \in T PROVE v.ts \in Int /\ v.event \in Int
      OBVIOUS
    <3>1. v.ts \in 1 .. MaxTime /\ v.event \in Event
      BY DEF Tracking
    <3>2. v.ts \in Int
      BY <3>1
    <3>3. v.event \in Nat
      BY <3>1, EventAssumption
    <3> QED
      BY <3>2, <3>3
  <2> QED
    BY <1>1, <2>1
<1>4. u.ts = t.ts /\ u.event = t.event
  BY <1>2, <1>3 DEF Precedes
<1> QED
  BY <1>4 DEF LastOf, u

\* A final status was reported.
FinishProved(p, row) == row.isFinished => With(FinalStatus, p) # {}

\* A row that shows what all the trackings of its parcel prove, and nothing they do
\* not prove, is the row ToldByTrackings asks for.
LEMMA TellsAll ==
  ASSUME TypeOK, NEW p \in Parcel, NEW row \in Row,
         HasEvidence(p, row), FinishProved(p, row), Tells(row, Stored(p))
  PROVE  ToldByTrackings(p, row)
<1>1. \A S : With(S, p) = Meaning(Stored(p), S)
  BY DEF With, Meaning, Stored
<1>2. Stored(p) \subseteq Tracking /\ \A S : Meaning(Stored(p), S) \subseteq Tracking
  BY DEF TypeOK, Stored, Meaning
<1>3. \A S : Times(With(S, p)) \subseteq Int
  BY <1>1, <1>2, TrackingType DEF Times, Date
<1>4. /\ \A e \in Times(With({"ARRIVED"}, p)) : NotLater(row.arrivedAt, e)
      /\ \A e \in Times(With({"RETURNED"}, p)) : NotLater(row.returnedAt, e)
      /\ \A e \in Times(With(Transferring, p)) : NotLater(row.transferredAt, e)
  BY <1>1 DEF Tells, DatesTold, Times
<1>5. \A S : \A e \in Times(With(S, p)) : e # NoDate
  BY <1>1, <1>2, TrackingType DEF Times
<1>6. row.arrivedAt = Earliest(Times(With({"ARRIVED"}, p)))
  <2> DEFINE D == Times(With({"ARRIVED"}, p))
  <2>1. D \in SUBSET Int /\ row.arrivedAt \in D \cup {NoDate}
    BY <1>3 DEF HasEvidence
  <2>2. \A e \in D : row.arrivedAt # NoDate /\ row.arrivedAt <= e
    BY <1>4, <1>5 DEF NotLater
  <2> HIDE DEF D
  <2>3. Earliest(D) = row.arrivedAt
    BY <2>1, <2>2, EarliestIs
  <2> QED
    BY <2>3 DEF D
<1>7. row.returnedAt = Earliest(Times(With({"RETURNED"}, p)))
  <2> DEFINE D == Times(With({"RETURNED"}, p))
  <2>1. D \in SUBSET Int /\ row.returnedAt \in D \cup {NoDate}
    BY <1>3 DEF HasEvidence
  <2>2. \A e \in D : row.returnedAt # NoDate /\ row.returnedAt <= e
    BY <1>4, <1>5 DEF NotLater
  <2> HIDE DEF D
  <2>3. Earliest(D) = row.returnedAt
    BY <2>1, <2>2, EarliestIs
  <2> QED
    BY <2>3 DEF D
<1>8. row.transferredAt = Earliest(Times(With(Transferring, p)))
  <2> DEFINE D == Times(With(Transferring, p))
  <2>1. D \in SUBSET Int /\ row.transferredAt \in D \cup {NoDate}
    BY <1>3 DEF HasEvidence
  <2>2. \A e \in D : row.transferredAt # NoDate /\ row.transferredAt <= e
    BY <1>4, <1>5 DEF NotLater
  <2> HIDE DEF D
  <2>3. Earliest(D) = row.transferredAt
    BY <2>1, <2>2, EarliestIs
  <2> QED
    BY <2>3 DEF D
<1>9. row.isFinished <=> With(FinalStatus, p) # {}
  <2>1. row.isFinished \in BOOLEAN
    BY DEF Row
  <2> QED
    BY <1>1, <2>1 DEF FinishProved, Tells, FinishTold
<1>10. Stored(p) # {} => row.last = LastOf(Latest(Stored(p)))
  BY <1>2, LatestIs DEF Tells, LastTold
<1>11. With(Telling, p) # {} => row.status = StatusFound(Latest(With(Telling, p)).event)
  <2>1. StatusTold(row, Stored(p))
    BY DEF Tells
  <2>2. With(Telling, p) \subseteq Tracking
    BY <1>1, <1>2
  <2>3. ASSUME With(Telling, p) # {}
        PROVE  \E t \in With(Telling, p) :
                 IsLast(t, With(Telling, p)) /\ row.status = StatusFound(t.event)
    BY <1>1, <2>1, <2>3 DEF StatusTold
  <2> QED
    BY <2>2, <2>3, LatestIs
<1> QED
  BY <1>6, <1>7, <1>8, <1>9, <1>10, <1>11 DEF ToldByTrackings, Telling, Stored

-----------------------------------------------------------------------------
(* No parcel is finished without a report of it, however many handlers run. *)

FinishesProved ==
  \A p \in Parcel : /\ FinishProved(p, parcel[p])
                    /\ \A h \in Handler : FinishProved(p, copy[h][p])

LEMMA ApplyTrackingFinish ==
  ASSUME TypeOK, NEW t \in trackings, NEW row \in Row, FlagsAgreeIn(row),
         FinishProved(t.parcel, row)
  PROVE  FinishProved(t.parcel, ApplyTracking(row, t, StatusFound(t.event)))
<1> DEFINE s == StatusFound(t.event)
           new == ApplyTracking(row, t, s)
<1>1. t \in Tracking /\ t.event \in Event
  BY DEF TypeOK, Tracking
<1>2. s \in EventStatus
  BY <1>1, StatusFoundType
<1>3. /\ new.status = IF s \in Telling THEN s ELSE row.status
      /\ new.isFinished <=> row.isFinished \/ (s \notin OnlyLast /\ new.status \in FinalStatus)
  BY <1>1, <1>2, ApplyTrackingColumns
<1>4. s \in FinalStatus => t \in With(FinalStatus, t.parcel)
  BY DEF With
<1> HIDE DEF new, s
<1> QED
  BY <1>3, <1>4 DEF FinishProved, FlagsAgreeIn, new, s

\* A row is only ever written from a copy.
LEMMA RowsSaved ==
  ASSUME TypeOK, [Next]_vars, NEW p \in Parcel
  PROVE  parcel'[p] = parcel[p] \/ \E h \in Handler : parcel'[p] = copy[h][p]
<1>1. ASSUME NEW h \in Handler, SaveParcels(h)
      PROVE  parcel'[p] = parcel[p] \/ parcel'[p] = copy[h][p]
  BY <1>1 DEF SaveParcels
<1>2. (\A h \in Handler : ~SaveParcels(h)) => UNCHANGED parcel
  BY DEF Next, HandlerStep, vars, database, locals, InsertTrackings, ReadParcels, FoldTracking,
     NothingChanged, RequestPushes, ReadTargets, WriteTargets, WriteAgings, Fail
<1> QED
  BY <1>1, <1>2

\* A copy is new, as stored, or one tracking further.
LEMMA CopiesMade ==
  ASSUME TypeOK, [Next]_vars, NEW h \in Handler, NEW p \in Parcel
  PROVE  \/ copy'[h][p] \in {copy[h][p], NewRow, parcel[p]}
         \/ \E t \in todo[h] :
              t.parcel = p /\ copy'[h][p] = ApplyTracking(copy[h][p], t, StatusFound(t.event))
<1>1. ASSUME NEW g \in Handler, Forget(g)
      PROVE  copy'[h][p] \in {copy[h][p], NewRow}
  BY <1>1 DEF Forget, NoRows, TypeOK
<1>2. ASSUME NEW g \in Handler, ReadParcels(g)
      PROVE  copy'[h][p] \in {copy[h][p], NewRow, parcel[p]}
  BY <1>2 DEF ReadParcels, RowsOf, TypeOK
<1>3. ASSUME NEW g \in Handler, NEW t \in todo[g], FoldTracking(g, t)
      PROVE  copy'[h][p] = IF g = h /\ t.parcel = p
                           THEN ApplyTracking(copy[h][p], t, StatusFound(t.event))
                           ELSE copy[h][p]
  <2>1. t.parcel \in Parcel
    BY DEF TypeOK, Tracking
  <2> QED
    BY <1>3, <2>1 DEF FoldTracking, TypeOK
<1>4. ASSUME NEW g \in Handler,
             \/ \E T : InsertTrackings(g, T)
             \/ SaveParcels(g) \/ RequestPushes(g) \/ ReadTargets(g) \/ WriteTargets(g)
      PROVE  copy' = copy
  BY <1>4 DEF InsertTrackings, SaveParcels, RequestPushes, ReadTargets, WriteTargets, locals
<1>5. UNCHANGED vars => copy' = copy
  BY DEF vars, locals
<1> QED
  BY <1>1, <1>2, <1>3, <1>4, <1>5 DEF Next, HandlerStep, NothingChanged, WriteAgings, Fail

LEMMA NextFinishes == IInv /\ FinishesProved /\ [Next]_vars => FinishesProved'
<1> SUFFICES ASSUME IInv, FinishesProved, [Next]_vars, NEW p \in Parcel
             PROVE  /\ FinishProved(p, parcel[p])'
                    /\ \A h \in Handler : FinishProved(p, copy[h][p])'
  BY DEF FinishesProved
<1>1. TypeOK /\ StoreGrows
  BY StepGrowsStore DEF IInv
<1>2. \A row : FinishProved(p, row) => FinishProved(p, row)'
  BY <1>1, WithGrows DEF FinishProved
<1>3. FinishProved(p, parcel[p]) /\ \A h \in Handler : FinishProved(p, copy[h][p])
  BY DEF FinishesProved
<1>4. FinishProved(p, parcel[p])'
  BY <1>1, <1>2, <1>3, RowsSaved
<1>5. ASSUME NEW h \in Handler
      PROVE  FinishProved(p, copy[h][p])'
  <2>1. FinishProved(p, NewRow)
    BY DEF FinishProved, NewRow
  <2>2. ASSUME NEW t \in todo[h], t.parcel = p
        PROVE  FinishProved(p, ApplyTracking(copy[h][p], t, StatusFound(t.event)))
    <3>1. t \in trackings /\ copy[h][p] \in Row /\ FlagsAgreeIn(copy[h][p])
      BY <1>1 DEF IInv, TodoStored, CopiesSound, Sound, TypeOK
    <3> QED
      BY <1>1, <1>3, <2>2, <3>1, ApplyTrackingFinish
  <2>3. \/ copy'[h][p] \in {copy[h][p], NewRow, parcel[p]}
        \/ \E t \in todo[h] :
             t.parcel = p /\ copy'[h][p] = ApplyTracking(copy[h][p], t, StatusFound(t.event))
    BY <1>1, CopiesMade
  <2> QED
    BY <1>2, <1>3, <2>1, <2>2, <2>3
<1> QED
  BY <1>4, <1>5

-----------------------------------------------------------------------------
(* Handlers that have no parcel in common.  Between the read and the save   *)
(* the copies of a handler show what the trackings folded so far prove, and *)
(* none of those that are left comes before one of them; from the save on,  *)
(* the rows do.                                                             *)

Folded(h, p) == Stored(p) \ todo[h]

FoldTells(h) == pc[h] = "folding" => \A p \in batch[h] :
  /\ origin[h][p] = parcel[p]
  /\ \A t \in Folded(h, p), u \in todo[h] : u.parcel = p => Precedes(t, u)
  /\ Tells(copy[h][p], Folded(h, p))

Writing == {"saved", "requested", "targetsRead", "targetsWritten"}

SavedTells(h) == pc[h] \in Writing => \A p \in batch[h] :
  copy[h][p] = parcel[p] /\ Tells(parcel[p], Stored(p))

\* A handler that has not saved its parcels yet.
WorksOn(h, p) == p \in batch[h] /\ pc[h] \in {"called", "folding"}

\* The parcels nobody is at work on, which a failed run may have left behind.
RestTells == failures = 0 => \A p \in Parcel :
  Tells(parcel[p], Stored(p)) \/ \E h \in Handler : WorksOn(h, p)

ApartInv ==
  /\ IInv /\ FinishesProved /\ Apart /\ RestTells
  /\ \A h \in Handler : FoldTells(h) /\ SavedTells(h)

Turn(h) ==
  \/ \E t, u \in Tracking : InsertTrackings(h, {t, u})
  \/ HandlerStep(h)
  \/ Fail(h)

\* What a turn of h leaves alone.
OthersStand(h) == \A g \in Handler : g # h =>
  /\ pc'[g] = pc[g] /\ batch'[g] = batch[g] /\ todo'[g] = todo[g]
  /\ origin'[g] = origin[g] /\ copy'[g] = copy[g]

LEMMA OthersStandStill == ASSUME TypeOK, NEW h \in Handler, Turn(h) PROVE OthersStand(h)
<1>1. CASE \E T : InsertTrackings(h, T)
  BY <1>1 DEF OthersStand, InsertTrackings, Goto, TypeOK
<1>2. CASE ReadParcels(h)
  BY <1>2 DEF OthersStand, ReadParcels, Goto, TypeOK
<1>3. CASE \E t \in todo[h] : FoldTracking(h, t)
  BY <1>3 DEF OthersStand, FoldTracking, TypeOK
<1>4. CASE SaveParcels(h) \/ RequestPushes(h) \/ ReadTargets(h) \/ WriteTargets(h)
  BY <1>4 DEF OthersStand, SaveParcels, RequestPushes, ReadTargets, WriteTargets, Goto, TypeOK, locals
<1>5. CASE NothingChanged(h) \/ WriteAgings(h) \/ Fail(h)
  BY <1>5 DEF OthersStand, NothingChanged, WriteAgings, Fail, Forget, Goto, TypeOK
<1> QED
  BY <1>1, <1>2, <1>3, <1>4, <1>5 DEF Turn, HandlerStep

LEMMA FailuresStay == ASSUME TypeOK, [Next]_vars, failures' = 0 PROVE failures = 0
<1>1. failures' = failures \/ failures' = failures + 1
  BY DEF Next, HandlerStep, vars, InsertTrackings, ReadParcels, FoldTracking,
     SaveParcels, NothingChanged, RequestPushes, ReadTargets, WriteTargets, WriteAgings, Fail
<1> QED
  BY <1>1 DEF TypeOK

LEMMA StoredTellsStays ==
  ASSUME TypeOK, StoreGrows, NEW p, NEW row,
         Stored(p)' = Stored(p), Tells(row, Stored(p))
  PROVE  Tells(row, Stored(p))'
<1>1. Stored(p) \in SUBSET Tracking
  BY DEF TypeOK, Stored
<1>2. \A T \in SUBSET Tracking : Tells(row, T) => Tells(row, T)'
  BY TellsStays
<1> QED
  BY <1>1, <1>2

\* What is known of a parcel that is in no batch of the handler, before or after its turn.
LEMMA ForeignParcel ==
  ASSUME TypeOK, NEW h \in Handler, Turn(h), NEW p \in Parcel, p \notin batch[h], p \notin batch'[h]
  PROVE  parcel'[p] = parcel[p] /\ Stored(p)' = Stored(p)
<1>1. CASE \E T : InsertTrackings(h, T)
  <2>1. PICK T : InsertTrackings(h, T)
    BY <1>1
  <2>2. trackings' = trackings \cup T /\ parcel' = parcel
    BY <2>1 DEF InsertTrackings
  <2>3. PICK S \in {T, T \ trackings} : batch'[h] = ParcelsOf(S)
    BY <2>1 DEF InsertTrackings, TypeOK
  <2> QED
    BY <2>2, <2>3 DEF Stored, ParcelsOf
<1>2. CASE SaveParcels(h)
  BY <1>2 DEF SaveParcels, Changed, Stored
<1>3. ASSUME UNCHANGED <<trackings, parcel>>
      PROVE  parcel'[p] = parcel[p] /\ Stored(p)' = Stored(p)
  BY <1>3 DEF Stored
<1> QED
  BY <1>1, <1>2, <1>3 DEF Turn, HandlerStep, ReadParcels, FoldTracking, NothingChanged,
     RequestPushes, ReadTargets, WriteTargets, WriteAgings, Fail, database

\* The turn of one handler does not disturb another.
LEMMA OthersTell ==
  ASSUME ApartInv, Apart', [Next]_vars, NEW h \in Handler, Turn(h), NEW g \in Handler, g # h
  PROVE  FoldTells(g)' /\ SavedTells(g)'
<1>1. TypeOK /\ StoreGrows
  BY StepGrowsStore DEF ApartInv, IInv
<1>2. /\ pc'[g] = pc[g] /\ batch'[g] = batch[g] /\ todo'[g] = todo[g]
      /\ origin'[g] = origin[g] /\ copy'[g] = copy[g]
  BY <1>1, OthersStandStill DEF OthersStand
<1>3. FoldTells(g) /\ SavedTells(g)
  BY DEF ApartInv
<1>4. ASSUME NEW p \in batch[g]
      PROVE  /\ p \in Parcel /\ parcel'[p] = parcel[p]
             /\ Stored(p)' = Stored(p) /\ Folded(g, p)' = Folded(g, p)
  <2>1. p \in Parcel /\ p \notin batch[h] /\ p \notin batch'[h]
    BY <1>1, <1>2 DEF ApartInv, Apart, TypeOK
  <2> QED
    BY <1>1, <1>2, <2>1, ForeignParcel DEF Folded
<1>5. ASSUME NEW p \in batch[g], Tells(copy[g][p], Folded(g, p))
      PROVE  Tells(copy[g][p], Folded(g, p))'
  <2>1. Folded(g, p) \in SUBSET Tracking
    BY <1>1 DEF Folded, Stored, TypeOK
  <2>2. \A T \in SUBSET Tracking : \A row : Tells(row, T) => Tells(row, T)'
    BY <1>1, TellsStays
  <2> QED
    BY <1>2, <1>4, <1>5, <2>1, <2>2
<1>6. FoldTells(g)'
  BY <1>2, <1>3, <1>4, <1>5 DEF FoldTells
<1>7. ASSUME NEW p \in batch[g], Tells(parcel[p], Stored(p))
      PROVE  Tells(parcel[p], Stored(p))'
  BY <1>1, <1>4, <1>7, StoredTellsStays
<1>8. SavedTells(g)'
  BY <1>2, <1>3, <1>4, <1>7 DEF SavedTells
<1> QED
  BY <1>6, <1>8

\* After a turn of h, a parcel tells, or h is at work on it, or nobody has touched it.
LEMMA RestStays ==
  ASSUME ApartInv, [Next]_vars, NEW h \in Handler, Turn(h),
         failures = 0 => \A p \in Parcel :
           \/ Tells(parcel[p], Stored(p))'
           \/ WorksOn(h, p)'
           \/ parcel'[p] = parcel[p] /\ Stored(p)' = Stored(p) /\ ~WorksOn(h, p)
  PROVE  RestTells'
<1>1. TypeOK /\ StoreGrows
  BY StepGrowsStore DEF ApartInv, IInv
<1> SUFFICES ASSUME failures' = 0, NEW p \in Parcel,
                    parcel'[p] = parcel[p], Stored(p)' = Stored(p), ~WorksOn(h, p)
             PROVE  Tells(parcel[p], Stored(p))' \/ \E g \in Handler : WorksOn(g, p)'
  BY <1>1, FailuresStay DEF RestTells
<1>2. failures = 0
  BY <1>1, FailuresStay
<1>3. CASE Tells(parcel[p], Stored(p))
  BY <1>1, <1>3, StoredTellsStays
<1>4. CASE \E g \in Handler : WorksOn(g, p)
  BY <1>1, <1>4, OthersStandStill DEF OthersStand, WorksOn
<1> QED
  BY <1>2, <1>3, <1>4 DEF ApartInv, RestTells

\* The trackings of a parcel that is not in the batch were all stored before.
LEMMA InsertTells ==
  ASSUME ApartInv, [Next]_vars, NEW h \in Handler, Turn(h), NEW T, InsertTrackings(h, T)
  PROVE  FoldTells(h)' /\ SavedTells(h)' /\ RestTells'
<1>1. TypeOK
  BY DEF ApartInv, IInv
<1>2. /\ pc[h] = "idle" /\ pc'[h] = "called" /\ parcel' = parcel
      /\ trackings' = trackings \cup T
  BY <1>1 DEF InsertTrackings, Goto, TypeOK
<1>3. PICK S \in {T, T \ trackings} : batch'[h] = ParcelsOf(S)
  BY <1>1 DEF InsertTrackings, TypeOK
<1>4. ASSUME NEW p \in Parcel, p \notin batch'[h]
      PROVE  Stored(p)' = Stored(p)
  BY <1>2, <1>3, <1>4 DEF Stored, ParcelsOf
<1>5. RestTells'
  BY <1>2, <1>4, RestStays DEF WorksOn
<1> QED
  BY <1>2, <1>5 DEF FoldTells, SavedTells, Writing

LEMMA ReadTells ==
  ASSUME ApartInv, [Next]_vars, NEW h \in Handler, Turn(h), ReadParcels(h)
  PROVE  FoldTells(h)' /\ SavedTells(h)' /\ RestTells'
<1>1. TypeOK
  BY DEF ApartInv, IInv
<1>2. /\ pc[h] = "called" /\ pc'[h] = "folding" /\ batch'[h] = batch[h]
      /\ todo'[h] = {t \in trackings : t.parcel \in batch[h]}
      /\ copy'[h] = RowsOf(h) /\ origin'[h] = RowsOf(h)
      /\ UNCHANGED <<trackings, parcel>>
  BY <1>1 DEF ReadParcels, Goto, TypeOK, database
<1>3. RestTells'
  BY <1>2, RestStays DEF WorksOn, Stored
<1>4. ASSUME NEW p \in batch[h]
      PROVE  /\ origin'[h][p] = parcel'[p]
             /\ Folded(h, p)' = {}
  BY <1>1, <1>2, <1>4 DEF RowsOf, Folded, Stored, TypeOK
<1>5. \A p \in batch[h] : Tells(copy[h][p], Folded(h, p))'
  BY <1>4, TellsNothing DEF Tells, DatesTold, FinishTold, LastTold, StatusTold, Meaning
<1>6. FoldTells(h)'
  BY <1>2, <1>4, <1>5 DEF FoldTells
<1> QED
  BY <1>2, <1>3, <1>6 DEF SavedTells, Writing

LEMMA FoldTurnTells ==
  ASSUME ApartInv, [Next]_vars, NEW h \in Handler, Turn(h), NEW t \in todo[h], FoldTracking(h, t)
  PROVE  FoldTells(h)' /\ SavedTells(h)' /\ RestTells'
<1> DEFINE q == t.parcel
           new == ApplyTracking(copy[h][q], t, StatusFound(t.event))
<1>1. TypeOK /\ StoreGrows /\ t \in trackings /\ todo[h] \subseteq trackings
  BY StepGrowsStore DEF ApartInv, IInv, TodoStored
<1>2. t \in Tracking /\ q \in Parcel /\ copy[h][q] \in Row
  BY <1>1 DEF TypeOK, Tracking
<1>3. /\ pc[h] = "folding" /\ pc'[h] = "folding"
      /\ todo'[h] = todo[h] \ {t}
      /\ \A p \in Parcel : copy'[h][p] = IF p = q THEN new ELSE copy[h][p]
      /\ IsFirst(t, {u \in todo[h] : u.parcel = q})
      /\ UNCHANGED <<trackings, parcel, batch, origin>>
  BY <1>1, <1>2 DEF FoldTracking, TypeOK
<1>4. SavedTells(h)' /\ RestTells'
  <2>1. \A p \in Parcel : WorksOn(h, p)' \/ ~WorksOn(h, p)
    BY <1>3 DEF WorksOn
  <2> QED
    BY <1>3, <2>1, RestStays DEF SavedTells, Writing, Stored
<1> SUFFICES ASSUME NEW p \in batch[h]
             PROVE  /\ origin'[h][p] = parcel'[p]
                    /\ \A f \in Folded(h, p)', u \in todo'[h] : u.parcel = p => Precedes(f, u)
                    /\ Tells(copy[h][p], Folded(h, p))'
  BY <1>3, <1>4 DEF FoldTells
<1>5. /\ origin[h][p] = parcel[p]
      /\ \A f \in Folded(h, p), u \in todo[h] : u.parcel = p => Precedes(f, u)
      /\ Tells(copy[h][p], Folded(h, p))
  BY <1>3 DEF ApartInv, FoldTells
<1>6. Folded(h, p)' = IF p = q THEN Folded(h, p) \cup {t} ELSE Folded(h, p)
  BY <1>1, <1>3 DEF Folded, Stored
<1>7. p \in Parcel /\ Folded(h, p) \in SUBSET Tracking /\ Folded(h, p) \cup {t} \in SUBSET Tracking
  BY <1>1, <1>2 DEF TypeOK, Folded, Stored
<1>8. \A T \in SUBSET Tracking : \A row : Tells(row, T) => Tells(row, T)'
  BY <1>1, TellsStays
<1>9. \A f \in Folded(h, p)', u \in todo'[h] : u.parcel = p => Precedes(f, u)
  <2>1. \A u \in todo[h] : u.parcel = q => Precedes(t, u)
    BY <1>3 DEF IsFirst
  <2> HIDE DEF new, q
  <2> QED
    BY <1>3, <1>5, <1>6, <2>1
<1>10. Tells(copy[h][p], Folded(h, p))'
  <2>1. CASE p = q
    <3>1. \A f \in Folded(h, p) : Precedes(f, t)
      BY <1>5, <2>1
    <3>2. Tells(new, Folded(h, p) \cup {t})
      BY <1>1, <1>2, <1>5, <1>7, <2>1, <3>1, FoldedTells
    <3> HIDE DEF new
    <3>3. copy'[h][p] = new /\ Folded(h, p)' = Folded(h, p) \cup {t}
      BY <1>2, <1>3, <1>6, <2>1
    <3> QED
      BY <1>7, <1>8, <3>2, <3>3
  <2>2. CASE p # q
    <3>1. copy'[h][p] = copy[h][p] /\ Folded(h, p)' = Folded(h, p)
      BY <1>3, <1>6, <1>7, <2>2
    <3> QED
      BY <1>5, <1>7, <1>8, <3>1
  <2> QED
    BY <2>1, <2>2
<1> QED
  BY <1>3, <1>5, <1>9, <1>10

\* When nothing is left to fold, the copies of the batch show all that is stored.
LEMMA FoldEnds ==
  ASSUME ApartInv, NEW h \in Handler, pc[h] = "folding", todo[h] = {}, NEW p \in batch[h]
  PROVE  /\ origin[h][p] = parcel[p]
         /\ Tells(copy[h][p], Stored(p))
<1>1. Folded(h, p) = Stored(p)
  BY DEF Folded
<1> QED
  BY <1>1 DEF ApartInv, FoldTells

LEMMA SaveTells ==
  ASSUME ApartInv, [Next]_vars, NEW h \in Handler, Turn(h), SaveParcels(h)
  PROVE  FoldTells(h)' /\ SavedTells(h)' /\ RestTells'
<1>1. TypeOK /\ StoreGrows
  BY StepGrowsStore DEF ApartInv, IInv
<1>2. /\ pc[h] = "folding" /\ pc'[h] = "saved" /\ todo[h] = {}
      /\ \A p \in Parcel : parcel'[p] = IF p \in Changed(h) THEN copy[h][p] ELSE parcel[p]
      /\ UNCHANGED <<trackings, batch, copy>>
  BY <1>1 DEF SaveParcels, Goto, TypeOK, locals
<1>3. \A p \in Parcel : Stored(p)' = Stored(p)
  BY <1>2 DEF Stored
<1>4. ASSUME NEW p \in batch[h]
      PROVE  copy'[h][p] = parcel'[p] /\ Tells(parcel[p], Stored(p))'
  <2>1. origin[h][p] = parcel[p] /\ Tells(copy[h][p], Stored(p)) /\ p \in Parcel
    BY <1>1, <1>2, FoldEnds DEF TypeOK
  <2>2. parcel'[p] = copy[h][p]
    BY <1>2, <2>1 DEF Changed
  <2> QED
    BY <1>1, <1>2, <1>3, <2>1, <2>2, StoredTellsStays
<1>5. \A p \in Parcel : p \notin batch[h] => parcel'[p] = parcel[p] /\ ~WorksOn(h, p)
  BY <1>2 DEF Changed, WorksOn
<1>6. RestTells'
  BY <1>3, <1>4, <1>5, RestStays
<1> QED
  BY <1>2, <1>4, <1>6 DEF FoldTells, SavedTells

LEMMA LeaveTells ==
  ASSUME ApartInv, [Next]_vars, NEW h \in Handler, Turn(h), NothingChanged(h)
  PROVE  FoldTells(h)' /\ SavedTells(h)' /\ RestTells'
<1>1. TypeOK /\ StoreGrows
  BY StepGrowsStore DEF ApartInv, IInv
<1>2. /\ pc[h] = "folding" /\ pc'[h] = "idle" /\ todo[h] = {} /\ Changed(h) = {}
      /\ UNCHANGED <<trackings, parcel>>
  BY <1>1 DEF NothingChanged, Goto, TypeOK, database
<1>3. \A p : Stored(p)' = Stored(p)
  BY <1>2 DEF Stored
<1>4. ASSUME NEW p \in batch[h]
      PROVE  Tells(parcel[p], Stored(p))'
  <2>1. origin[h][p] = parcel[p] /\ Tells(copy[h][p], Stored(p)) /\ p \in Parcel
    BY <1>1, <1>2, FoldEnds DEF TypeOK
  <2>2. copy[h][p] = parcel[p]
    BY <1>2, <2>1 DEF Changed
  <2> QED
    BY <1>1, <1>2, <1>3, <2>1, <2>2, StoredTellsStays
<1>5. RestTells'
  BY <1>2, <1>3, <1>4, RestStays DEF WorksOn
<1> QED
  BY <1>2, <1>5 DEF FoldTells, SavedTells, Writing

LEMMA WriteTells ==
  ASSUME ApartInv, [Next]_vars, NEW h \in Handler, Turn(h),
         RequestPushes(h) \/ ReadTargets(h) \/ WriteTargets(h)
  PROVE  FoldTells(h)' /\ SavedTells(h)' /\ RestTells'
<1>1. TypeOK /\ StoreGrows
  BY StepGrowsStore DEF ApartInv, IInv
<1>2. /\ pc[h] \in Writing /\ pc'[h] \in Writing
      /\ UNCHANGED <<trackings, parcel, batch, copy>>
  BY <1>1 DEF RequestPushes, ReadTargets, WriteTargets, Goto, TypeOK, database, locals, Writing
<1>3. RestTells'
  BY <1>2, RestStays DEF WorksOn, Writing, Stored
<1>4. ASSUME NEW p \in batch[h]
      PROVE  copy'[h][p] = parcel'[p] /\ Tells(parcel[p], Stored(p))'
  BY <1>1, <1>2, StoredTellsStays DEF ApartInv, SavedTells, Stored
<1> QED
  BY <1>2, <1>3, <1>4 DEF FoldTells, SavedTells, Writing

LEMMA EndTells ==
  ASSUME ApartInv, [Next]_vars, NEW h \in Handler, Turn(h), WriteAgings(h) \/ Fail(h)
  PROVE  FoldTells(h)' /\ SavedTells(h)' /\ RestTells'
<1>1. TypeOK
  BY DEF ApartInv, IInv
<1>2. pc'[h] = "idle"
  BY <1>1 DEF WriteAgings, Fail, Goto, TypeOK
<1>3. CASE WriteAgings(h)
  <2>1. pc[h] = "targetsWritten" /\ UNCHANGED <<trackings, parcel>>
    BY <1>3 DEF WriteAgings, Goto
  <2>2. RestTells'
    BY <2>1, RestStays DEF WorksOn, Stored
  <2> QED
    BY <1>2, <2>2 DEF FoldTells, SavedTells, Writing
<1>4. CASE Fail(h)
  <2>1. failures' # 0
    BY <1>1, <1>4 DEF Fail, TypeOK
  <2> QED
    BY <1>2, <2>1 DEF FoldTells, SavedTells, RestTells, Writing
<1> QED
  BY <1>3, <1>4

LEMMA TurnTells ==
  ASSUME ApartInv, [Next]_vars, NEW h \in Handler, Turn(h)
  PROVE  FoldTells(h)' /\ SavedTells(h)' /\ RestTells'
BY InsertTells, ReadTells, FoldTurnTells, SaveTells, LeaveTells, WriteTells, EndTells
DEF Turn, HandlerStep

LEMMA StutterTells ==
  ASSUME ApartInv, UNCHANGED vars
  PROVE  RestTells' /\ \A h \in Handler : FoldTells(h)' /\ SavedTells(h)'
<1>1. TypeOK /\ StoreGrows
  BY StepGrowsStore DEF ApartInv, IInv
<1>2. UNCHANGED <<trackings, parcel, pc, batch, todo, origin, copy, failures>>
  BY DEF vars, database, locals
<1>3. \A T \in SUBSET Tracking : \A row : Tells(row, T) => Tells(row, T)'
  BY <1>1, TellsStays
<1>4. \A h \in Handler : \A p :
         /\ Folded(h, p)' = Folded(h, p) /\ Folded(h, p) \in SUBSET Tracking
         /\ Stored(p)' = Stored(p) /\ Stored(p) \in SUBSET Tracking
         /\ WorksOn(h, p)' = WorksOn(h, p)
  BY <1>1, <1>2 DEF Folded, Stored, TypeOK, WorksOn
<1>5. RestTells'
  <2>1. \A p : Stored(p)' = Stored(p) /\ Stored(p) \in SUBSET Tracking
    BY <1>1, <1>2 DEF Stored, TypeOK
  <2> QED
    BY <1>2, <1>3, <1>4, <2>1 DEF ApartInv, RestTells
<1>6. ASSUME NEW h \in Handler PROVE FoldTells(h)' /\ SavedTells(h)'
  <2>1. batch[h] \subseteq Parcel
    BY <1>1 DEF TypeOK
  <2>2. FoldTells(h)'
    BY <1>2, <1>3, <1>4, <2>1 DEF ApartInv, FoldTells
  <2>3. SavedTells(h)'
    BY <1>2, <1>3, <1>4, <2>1 DEF ApartInv, SavedTells
  <2> QED
    BY <2>2, <2>3
<1> QED
  BY <1>5, <1>6

LEMMA ApartStarts == Init => ApartInv
<1> SUFFICES ASSUME Init PROVE ApartInv
  OBVIOUS
<1>1. FinishesProved
  BY DEF Init, FinishesProved, FinishProved, NoRows, NewRow
<1>2. \A p : Stored(p) = {}
  BY DEF Init, Stored
<1>3. \A h \in Handler : pc[h] = "idle" /\ batch[h] = {}
  BY DEF Init
<1>4. Apart
  BY <1>3 DEF Apart
<1> QED
  BY <1>1, <1>2, <1>3, <1>4, InitInv, TellsNothing
  DEF ApartInv, FoldTells, SavedTells, RestTells, Writing

LEMMA ApartStays == ApartInv /\ [Next /\ Apart']_vars => ApartInv'
<1> SUFFICES ASSUME ApartInv, [Next /\ Apart']_vars PROVE ApartInv'
  OBVIOUS
<1>1. [Next]_vars
  OBVIOUS
<1>2. IInv' /\ FinishesProved'
  BY <1>1, NextInv, NextFinishes DEF ApartInv
<1>3. CASE UNCHANGED vars
  <2>1. Apart'
    BY <1>3 DEF ApartInv, Apart, vars, locals
  <2> QED
    BY <1>2, <1>3, <2>1, StutterTells DEF ApartInv
<1>4. CASE Next /\ Apart'
  <2>1. PICK h \in Handler : Turn(h)
    BY <1>4 DEF Next, Turn
  <2>2. RestTells' /\ FoldTells(h)' /\ SavedTells(h)'
    BY <1>1, <2>1, TurnTells
  <2>3. \A g \in Handler : g # h => FoldTells(g)' /\ SavedTells(g)'
    BY <1>1, <1>4, <2>1, OthersTell
  <2> QED
    BY <1>2, <1>4, <2>2, <2>3 DEF ApartInv
<1> QED
  BY <1>3, <1>4

LEMMA RowIsTold ==
  ASSUME ApartInv, NEW p \in Parcel, Tells(parcel[p], Stored(p))
  PROVE  ToldByTrackings(p, parcel[p])
<1>1. TypeOK /\ parcel[p] \in Row /\ HasEvidence(p, parcel[p])
  BY DEF ApartInv, IInv, TypeOK, ParcelsSound, Sound
<1>2. FinishProved(p, parcel[p])
  BY DEF ApartInv, FinishesProved
<1> QED
  BY <1>1, <1>2, TellsAll

\* As long as no two handlers are at work on one parcel and none fails, every parcel ends
\* up saying what all of its trackings say, whatever the order and the batches they came in.
THEOREM ParcelsCatchUp == ApartSpec => []CaughtUp
<1>1. ApartInv => CaughtUp
  BY RowIsTold DEF CaughtUp, Quiet, ApartInv, RestTells, WorksOn
<1> QED
  BY <1>1, ApartStarts, ApartStays, PTL DEF ApartSpec

LEMMA RunEnds ==
  ASSUME ApartInv, Next, NEW g \in Handler, pc[g] # "idle", pc'[g] = "idle", failures' = failures
  PROVE  NothingChanged(g) \/ WriteAgings(g)
<1>1. TypeOK
  BY DEF ApartInv, IInv
<1>2. PICK h \in Handler : Turn(h)
  BY DEF Next, Turn
<1>3. g = h
  BY <1>1, <1>2, OthersStandStill DEF OthersStand
<1>4. ASSUME \/ \E T : InsertTrackings(g, T)
             \/ ReadParcels(g) \/ SaveParcels(g)
             \/ RequestPushes(g) \/ ReadTargets(g) \/ WriteTargets(g)
      PROVE  pc'[g] # "idle"
  BY <1>1, <1>4 DEF InsertTrackings, ReadParcels, SaveParcels, RequestPushes, ReadTargets,
     WriteTargets, Goto, TypeOK
<1>5. ~\E t \in todo[g] : FoldTracking(g, t)
  BY DEF FoldTracking
<1>6. ~Fail(g)
  BY <1>1 DEF Fail, TypeOK
<1> QED
  BY <1>2, <1>3, <1>4, <1>5, <1>6 DEF Turn, HandlerStep

\* A run that comes to its end leaves its parcels as their trackings tell, whatever the
\* runs before it left behind when they failed.
THEOREM RerunsRepair == ApartSpec => RerunRepairs
<1>1. ApartInv /\ [Next /\ Apart']_vars => [\A h \in Handler : RunEndsRepaired(h)]_vars
  <2> SUFFICES ASSUME ApartInv, Next, NEW g \in Handler, pc[g] # "idle", pc'[g] = "idle",
                      failures' = failures, NEW p \in batch[g]
               PROVE  ToldByTrackings(p, parcel'[p])
    BY DEF RunEndsRepaired
  <2>1. TypeOK /\ p \in Parcel
    BY DEF ApartInv, IInv, TypeOK
  <2>2. NothingChanged(g) \/ WriteAgings(g)
    BY RunEnds
  <2>3. parcel' = parcel
    BY <2>2 DEF NothingChanged, WriteAgings, database
  <2>4. Tells(parcel[p], Stored(p))
    <3>1. CASE NothingChanged(g)
      <4>1. pc[g] = "folding" /\ todo[g] = {} /\ Changed(g) = {}
        BY <3>1 DEF NothingChanged, Goto
      <4>2. origin[g][p] = parcel[p] /\ Tells(copy[g][p], Stored(p))
        BY <4>1, FoldEnds
      <4> QED
        BY <4>1, <4>2 DEF Changed
    <3>2. CASE WriteAgings(g)
      BY <3>2 DEF WriteAgings, Goto, ApartInv, SavedTells, Writing
    <3> QED
      BY <2>2, <3>1, <3>2
  <2> QED
    BY <2>1, <2>3, <2>4, RowIsTold
<1> QED
  BY <1>1, ApartStarts, ApartStays, PTL DEF ApartSpec, RerunRepairs

-----------------------------------------------------------------------------
(* The targets and the agings of handlers that have no parcel in common:    *)
(* what a consumer has not heard of yet is a parcel that a handler is still *)
(* about to write.                                                          *)

AgingOf(row) == <<row.transferredAt, row.arrivedAt>>

TargetDue(h, p) == p \in Changed(h) /\ pc[h] \in {"saved", "requested", "targetsRead"}
AgingDue(h, p) == p \in Changed(h) /\ pc[h] \in Writing

TargetFollows == failures = 0 => \A p \in Parcel :
  (AimReached(p, parcel[p]) => ~target[p].active) \/ \E h \in Handler : TargetDue(h, p)

AgingFollows == failures = 0 => \A p \in Parcel :
  \/ parcel[p].status = "ARRIVED" => agings[p] = AgingOf(parcel[p])
  \/ \E h \in Handler : AgingDue(h, p)

FollowInv == ApartInv /\ TargetFollows /\ AgingFollows

\* After a turn of h, the target of a parcel is right, or h is about to write it, or
\* nobody has touched it; and so is the aging.
LEMMA TargetsStay ==
  ASSUME FollowInv, [Next]_vars, NEW h \in Handler, Turn(h),
         failures = 0 => \A p \in Parcel :
           \/ (AimReached(p, parcel[p]) => ~target[p].active)'
           \/ TargetDue(h, p)'
           \/ parcel'[p] = parcel[p] /\ target'[p] = target[p] /\ ~TargetDue(h, p)
  PROVE  TargetFollows'
<1>1. TypeOK
  BY DEF FollowInv, ApartInv, IInv
<1> SUFFICES ASSUME failures' = 0, NEW p \in Parcel,
                    parcel'[p] = parcel[p], target'[p] = target[p], ~TargetDue(h, p)
             PROVE  \/ (AimReached(p, parcel[p]) => ~target[p].active)'
                    \/ \E g \in Handler : TargetDue(g, p)'
  BY <1>1, FailuresStay DEF TargetFollows
<1>2. failures = 0
  BY <1>1, FailuresStay
<1>3. CASE AimReached(p, parcel[p]) => ~target[p].active
  BY <1>3 DEF AimReached
<1>4. CASE \E g \in Handler : TargetDue(g, p)
  <2>1. PICK g \in Handler : TargetDue(g, p) /\ g # h
    BY <1>4
  <2>2. TargetDue(g, p)'
    BY <1>1, <2>1, OthersStandStill DEF OthersStand, TargetDue, Changed
  <2> QED
    BY <2>2
<1> QED
  BY <1>2, <1>3, <1>4 DEF FollowInv, TargetFollows

LEMMA AgingsStay ==
  ASSUME FollowInv, [Next]_vars, NEW h \in Handler, Turn(h),
         failures = 0 => \A p \in Parcel :
           \/ (parcel[p].status = "ARRIVED" => agings[p] = AgingOf(parcel[p]))'
           \/ AgingDue(h, p)'
           \/ parcel'[p] = parcel[p] /\ agings'[p] = agings[p] /\ ~AgingDue(h, p)
  PROVE  AgingFollows'
<1>1. TypeOK
  BY DEF FollowInv, ApartInv, IInv
<1> SUFFICES ASSUME failures' = 0, NEW p \in Parcel,
                    parcel'[p] = parcel[p], agings'[p] = agings[p], ~AgingDue(h, p)
             PROVE  \/ (parcel[p].status = "ARRIVED" => agings[p] = AgingOf(parcel[p]))'
                    \/ \E g \in Handler : AgingDue(g, p)'
  BY <1>1, FailuresStay DEF AgingFollows
<1>2. failures = 0
  BY <1>1, FailuresStay
<1>3. CASE parcel[p].status = "ARRIVED" => agings[p] = AgingOf(parcel[p])
  BY <1>3 DEF AgingOf
<1>4. CASE \E g \in Handler : AgingDue(g, p)
  <2>1. PICK g \in Handler : AgingDue(g, p) /\ g # h
    BY <1>4
  <2>2. AgingDue(g, p)'
    BY <1>1, <2>1, OthersStandStill DEF OthersStand, AgingDue, Changed
  <2> QED
    BY <2>2
<1> QED
  BY <1>2, <1>3, <1>4 DEF FollowInv, AgingFollows

LEMMA SaveFollows ==
  ASSUME FollowInv, [Next]_vars, NEW h \in Handler, Turn(h), SaveParcels(h)
  PROVE  TargetFollows' /\ AgingFollows'
<1>1. TypeOK
  BY DEF FollowInv, ApartInv, IInv
<1>2. /\ pc[h] = "folding" /\ pc'[h] = "saved"
      /\ \A p \in Parcel : p \notin Changed(h) => parcel'[p] = parcel[p]
      /\ Changed(h)' = Changed(h)
      /\ UNCHANGED <<target, agings>>
  BY <1>1 DEF SaveParcels, Goto, TypeOK, locals, Changed
<1>3. TargetFollows'
  BY <1>2, TargetsStay DEF TargetDue
<1>4. AgingFollows'
  BY <1>2, AgingsStay DEF AgingDue, Writing
<1> QED
  BY <1>3, <1>4

LEMMA TargetsFollow ==
  ASSUME FollowInv, [Next]_vars, NEW h \in Handler, Turn(h), WriteTargets(h)
  PROVE  TargetFollows' /\ AgingFollows'
<1>1. TypeOK
  BY DEF FollowInv, ApartInv, IInv
<1>2. /\ pc[h] = "targetsRead" /\ pc'[h] = "targetsWritten"
      /\ Changed(h)' = Changed(h)
      /\ UNCHANGED <<parcel, agings>>
  BY <1>1 DEF WriteTargets, Goto, TypeOK, locals, Changed
<1>3. AgingFollows'
  <2>1. \A p \in Parcel : AgingDue(h, p)' = AgingDue(h, p)
    BY <1>2 DEF AgingDue, Writing
  <2> QED
    BY <1>2, <2>1, AgingsStay
<1>4. ASSUME NEW p \in Parcel, p \in Changed(h), AimReached(p, parcel[p])
      PROVE  target'[p].active = FALSE
  <2>1. Aim[p] # NotCrawled
    BY <1>4, NotCrawledAssumption DEF AimReached, AimStatus
  <2>2. copy[h][p] = parcel[p]
    BY <1>2, <1>4 DEF FollowInv, ApartInv, SavedTells, Writing, Changed
  <2>3. target'[p] = [active |-> targetRead[h][p].active /\ ~AimReached(p, copy[h][p]),
                      status |-> copy[h][p].status]
    BY <1>4, <2>1 DEF WriteTargets
  <2>4. (targetRead[h][p].active /\ ~AimReached(p, copy[h][p])) = FALSE
    BY <1>4, <2>2
  <2>5. target'[p] = [active |-> FALSE, status |-> copy[h][p].status]
    BY <2>3, <2>4, Zenon
  <2> QED
    BY <2>5
<1>5. ASSUME NEW p \in Parcel, p \notin Changed(h)
      PROVE  target'[p] = target[p] /\ ~TargetDue(h, p)
  BY <1>5 DEF WriteTargets, TargetDue
<1>6. \A p \in Parcel : AimReached(p, parcel[p])' => AimReached(p, parcel[p])
  BY <1>2 DEF AimReached
<1>7. TargetFollows'
  BY <1>2, <1>4, <1>5, <1>6, TargetsStay
<1> QED
  BY <1>3, <1>7

LEMMA AgingsFollow ==
  ASSUME FollowInv, [Next]_vars, NEW h \in Handler, Turn(h), WriteAgings(h)
  PROVE  TargetFollows' /\ AgingFollows'
<1>1. TypeOK
  BY DEF FollowInv, ApartInv, IInv
<1>2. /\ pc[h] = "targetsWritten" /\ pc'[h] = "idle"
      /\ UNCHANGED <<parcel, target>>
      /\ \A p \in Parcel :
           agings'[p] = IF p \in Changed(h) /\ copy[h][p].status = "ARRIVED"
                        THEN AgingOf(copy[h][p]) ELSE agings[p]
  BY <1>1 DEF WriteAgings, Goto, TypeOK, AgingOf
<1>3. TargetFollows'
  BY <1>2, TargetsStay DEF TargetDue
<1>4. \A p \in Changed(h) : copy[h][p] = parcel[p]
  BY <1>2 DEF FollowInv, ApartInv, SavedTells, Writing, Changed
<1>5. ASSUME NEW p \in Changed(h), p \in Parcel, parcel[p].status = "ARRIVED"
      PROVE  agings'[p] = AgingOf(parcel[p])
  BY <1>2, <1>4, <1>5
<1>6. ASSUME NEW p \in Parcel, p \notin Changed(h)
      PROVE  agings'[p] = agings[p] /\ ~AgingDue(h, p)
  BY <1>2, <1>6 DEF AgingDue
<1>7. AgingFollows'
  <2>1. \A p \in Parcel : AgingOf(parcel[p])' = AgingOf(parcel[p])
    BY <1>2 DEF AgingOf
  <2> QED
    BY <1>2, <1>5, <1>6, <2>1, AgingsStay
<1> QED
  BY <1>3, <1>7

\* Whatever else a handler does, it keeps what the consumers have to hear of.
LEMMA OthersFollow ==
  ASSUME FollowInv, [Next]_vars, NEW h \in Handler, Turn(h),
         UNCHANGED <<parcel, target, agings>>,
         \/ pc[h] \notin Writing
         \/ /\ Changed(h)' = Changed(h) /\ pc'[h] \in Writing
            /\ pc[h] # "targetsRead" /\ pc'[h] # "targetsWritten"
  PROVE  TargetFollows' /\ AgingFollows'
<1>1. \A p \in Parcel : /\ TargetDue(h, p) => TargetDue(h, p)'
                        /\ AgingDue(h, p) => AgingDue(h, p)'
  BY DEF TargetDue, AgingDue, Writing
<1>2. TargetFollows'
  BY <1>1, TargetsStay
<1>3. AgingFollows'
  BY <1>1, AgingsStay
<1> QED
  BY <1>2, <1>3

LEMMA TurnFollows ==
  ASSUME FollowInv, [Next]_vars, NEW h \in Handler, Turn(h)
  PROVE  TargetFollows' /\ AgingFollows'
<1>1. TypeOK
  BY DEF FollowInv, ApartInv, IInv
<1>2. CASE \/ \E T : InsertTrackings(h, T)
           \/ ReadParcels(h) \/ NothingChanged(h)
           \/ \E t \in todo[h] : FoldTracking(h, t)
  <2>1. UNCHANGED <<parcel, target, agings>> /\ pc[h] \notin Writing
    BY <1>2 DEF InsertTrackings, ReadParcels, NothingChanged, FoldTracking, Goto, Writing,
       database
  <2> QED
    BY <2>1, OthersFollow
<1>3. CASE RequestPushes(h) \/ ReadTargets(h)
  <2>1. /\ UNCHANGED <<parcel, target, agings>> /\ Changed(h)' = Changed(h)
        /\ pc[h] \in {"saved", "requested"} /\ pc'[h] \in {"requested", "targetsRead"}
    BY <1>1, <1>3 DEF RequestPushes, ReadTargets, Goto, Changed, TypeOK, locals, database
  <2> QED
    BY <2>1, OthersFollow DEF Writing
<1>4. CASE Fail(h)
  <2>1. failures' # 0
    BY <1>1, <1>4 DEF Fail, TypeOK
  <2> QED
    BY <2>1 DEF TargetFollows, AgingFollows
<1> QED
  BY <1>2, <1>3, <1>4, SaveFollows, TargetsFollow, AgingsFollow DEF Turn, HandlerStep

LEMMA FollowStays == FollowInv /\ [Next /\ Apart']_vars => FollowInv'
<1> SUFFICES ASSUME FollowInv, [Next /\ Apart']_vars PROVE FollowInv'
  OBVIOUS
<1>1. ApartInv'
  BY ApartStays DEF FollowInv
<1>2. CASE UNCHANGED vars
  <2>1. /\ UNCHANGED <<parcel, target, agings, failures, pc>>
        /\ \A h : Changed(h)' = Changed(h)
    BY <1>2 DEF vars, database, locals, Changed
  <2>2. TargetFollows'
    BY <2>1 DEF FollowInv, TargetFollows, AimReached, TargetDue
  <2>3. AgingFollows'
    BY <2>1 DEF FollowInv, AgingFollows, AgingOf, AgingDue
  <2> QED
    BY <1>1, <2>2, <2>3 DEF FollowInv
<1>3. CASE Next
  <2>1. PICK h \in Handler : Turn(h)
    BY <1>3 DEF Next, Turn
  <2> QED
    BY <1>1, <1>3, <2>1, TurnFollows DEF FollowInv
<1> QED
  BY <1>2, <1>3

\* As long as no two handlers are at work on one parcel and none fails, a target that has
\* reached its aim is switched off and an arrival has its aging on record.
THEOREM ConsumersAlwaysKeepUp == ApartSpec => []ConsumersKeepUp
<1>1. Init => FollowInv
  <2> SUFFICES ASSUME Init PROVE FollowInv
    OBVIOUS
  <2>1. \A p \in Parcel : ~AimReached(p, parcel[p]) /\ parcel[p].status # "ARRIVED"
    BY DEF Init, NoRows, NewRow, AimReached, NoDate
  <2> QED
    BY <2>1, ApartStarts DEF FollowInv, TargetFollows, AgingFollows
<1>2. FollowInv => ConsumersKeepUp
  <2> SUFFICES ASSUME FollowInv, failures = 0, \A h \in Handler : pc[h] = "idle", NEW p \in Parcel
               PROVE  /\ AimReached(p, parcel[p]) => ~target[p].active
                      /\ parcel[p].status = "ARRIVED" => agings[p] = AgingOf(parcel[p])
    BY DEF ConsumersKeepUp, Quiet, AimReached, AgingOf
  <2> QED
    BY DEF FollowInv, TargetFollows, AgingFollows, TargetDue, AgingDue, Writing
<1> QED
  BY <1>1, <1>2, FollowStays, PTL DEF ApartSpec

-----------------------------------------------------------------------------
(* The flow of parcels to the platforms.                                   *)

\* A handler is about to request a push of p.
ToRequest(p) == \E h \in Handler : pc[h] = "saved" /\ p \in Changed(h) /\ copy[h][p].status # "CREATED"

\* A wanted request of p is in the outbox.
Waiting(p) == \E i \in outbox : queue[i].parcel = p /\ queue[i].wanted

\* The job has deleted a request of p and not set sync yet.
ToSync(p) ==
  \E r \in Run, pl \in Platform :
    worker[r][pl] = "syncing" /\ p \in Push!ParcelsOf(Push!Chunk(r, pl))

OnItsWay(p) == parcel[p].status # "CREATED"
Covered(p) == ToRequest(p) \/ Waiting(p) \/ ToSync(p)

JobTypes ==
  /\ queue \in Seq(Push!Request)
  /\ outbox \subseteq DOMAIN queue
  /\ enabled = Platform
  /\ worker \in [Run -> [Platform -> Push!WorkerStep]]
  /\ rest \in [Run -> [Platform -> SUBSET DOMAIN queue]]

BatchesAreFinite == \A h \in Handler : IsFiniteSet(batch[h])

\* No function works for an execution that JobController does not wait for, and none
\* discards, because every platform stays enabled.
WorkIsAwaited ==
  \A r \in Run, pl \in Platform :
    /\ worker[r][pl] # "discarding"
    /\ worker[r][pl] \in Push!Working => current = r

UnsyncedIsCovered == \A p \in Parcel : OnItsWay(p) /\ ~parcel[p].sync => Covered(p)

FlowInv == TypeOK /\ JobTypes /\ BatchesAreFinite /\ WorkIsAwaited /\ UnsyncedIsCovered

LEMMA FlowStarts == FlowInit => FlowInv
<1> SUFFICES ASSUME FlowInit PROVE FlowInv
  OBVIOUS
<1>1. TypeOK
  BY InitType DEF FlowInit
<1>2. JobTypes /\ WorkIsAwaited
  BY DEF FlowInit, Push!Init, JobTypes, WorkIsAwaited, Push!Idle, Push!Nothing,
         Push!WorkerStep, Push!Working
<1>3. BatchesAreFinite
  BY FS_EmptySet DEF FlowInit, Init, BatchesAreFinite
<1>4. UnsyncedIsCovered
  BY DEF FlowInit, Init, UnsyncedIsCovered, OnItsWay, NoRows, NewRow
<1> QED
  BY <1>1, <1>2, <1>3, <1>4 DEF FlowInv

\* What covers a parcel goes on covering it in every step that neither ends the
\* handling, nor takes the request, nor sets the sync that cover it.
LEMMA CoveredStays ==
  ASSUME JobTypes, NEW p \in Parcel, Covered(p),
         \A g \in Handler : pc[g] = "saved" =>
           /\ pc'[g] = "saved" /\ batch'[g] = batch[g]
           /\ origin'[g] = origin[g] /\ copy'[g] = copy[g],
         \A i \in DOMAIN queue : queue'[i] = queue[i],
         outbox \subseteq outbox',
         \A r \in Run, pl \in Platform : worker[r][pl] = "syncing" =>
           worker'[r][pl] = "syncing" /\ rest'[r][pl] = rest[r][pl]
  PROVE  Covered(p)'
<1>1. CASE ToRequest(p)
  BY <1>1 DEF ToRequest, Changed, Covered
<1>2. CASE Waiting(p)
  BY <1>2 DEF Waiting, Covered, JobTypes
<1>3. CASE ToSync(p)
  <2>1. PICK r \in Run, pl \in Platform :
          worker[r][pl] = "syncing" /\ p \in Push!ParcelsOf(Push!Chunk(r, pl))
    BY <1>3 DEF ToSync
  <2>2. Push!Chunk(r, pl)' = Push!Chunk(r, pl) /\ Push!Chunk(r, pl) \subseteq DOMAIN queue
    <3> DEFINE First(S) == Push!Oldest(ChunkSize, S)
    <3>1. Push!Chunk(r, pl) = First(rest[r][pl]) /\ Push!Chunk(r, pl)' = First(rest'[r][pl])
      BY DEF Push!Chunk
    <3>2. First(rest[r][pl]) \subseteq DOMAIN queue
      BY DEF Push!Oldest, JobTypes
    <3> HIDE DEF First
    <3> QED
      BY <2>1, <3>1, <3>2
  <2>3. PICK i \in Push!Chunk(r, pl) : p = queue[i].parcel
    BY <2>1 DEF Push!ParcelsOf
  <2>4. i \in Push!Chunk(r, pl)' /\ queue'[i] = queue[i]
    BY <2>2
  <2>5. p \in Push!ParcelsOf(Push!Chunk(r, pl))'
    BY <2>3, <2>4 DEF Push!ParcelsOf
  <2> QED
    BY <2>1, <2>5 DEF ToSync, Covered
<1> QED
  BY <1>1, <1>2, <1>3 DEF Covered

\* The handlers.

LEMMA JobUntouched ==
  ASSUME FlowInv, UNCHANGED <<outboxVars, jobVars>>
  PROVE  JobTypes' /\ WorkIsAwaited'
BY DEF FlowInv, JobTypes, WorkIsAwaited, outboxVars, jobVars

LEMMA CallKeeps ==
  ASSUME FlowInv, NEW h \in Handler, Call(h)
  PROVE  FlowInv'
<1> USE DEF FlowInv
<1>1. PICK t \in Tracking, u \in Tracking : InsertTrackings(h, {t, u})
  BY DEF Call
<1>2. JobTypes' /\ WorkIsAwaited'
  BY JobUntouched DEF Call
<1>3. TypeOK'
  BY <1>1, NextType DEF Next
<1>4. BatchesAreFinite'
  <2>1. PICK S \in {{t, u}, {t, u} \ trackings} : batch' = [batch EXCEPT ![h] = ParcelsOf(S)]
    BY <1>1 DEF InsertTrackings
  <2>2. ParcelsOf(S) \subseteq {t.parcel, u.parcel}
    BY DEF ParcelsOf
  <2>3. IsFiniteSet({t.parcel, u.parcel})
    <3>1. IsFiniteSet({t.parcel})
      BY FS_Singleton
    <3>2. IsFiniteSet({t.parcel} \cup {u.parcel})
      BY <3>1, FS_AddElement
    <3>3. {t.parcel, u.parcel} = {t.parcel} \cup {u.parcel}
      OBVIOUS
    <3> QED
      BY <3>2, <3>3
  <2>4. IsFiniteSet(ParcelsOf(S))
    BY <2>2, <2>3, FS_Subset
  <2> QED
    BY <2>1, <2>4 DEF BatchesAreFinite, TypeOK
<1>5. UnsyncedIsCovered'
  <2> SUFFICES ASSUME NEW p \in Parcel, OnItsWay(p)', ~parcel'[p].sync PROVE Covered(p)'
    BY DEF UnsyncedIsCovered
  <2>1. parcel' = parcel /\ Covered(p)
    BY <1>1 DEF InsertTrackings, UnsyncedIsCovered, OnItsWay
  <2>2. \A g \in Handler : pc[g] = "saved" =>
           /\ pc'[g] = "saved" /\ batch'[g] = batch[g]
           /\ origin'[g] = origin[g] /\ copy'[g] = copy[g]
    BY <1>1 DEF InsertTrackings, Goto, TypeOK
  <2> QED
    BY <2>1, <2>2, CoveredStays DEF Call, outboxVars, jobVars
<1> QED
  BY <1>2, <1>3, <1>4, <1>5

LEMMA ContinueKeeps ==
  ASSUME FlowInv, NEW h \in Handler, Continue(h)
  PROVE  FlowInv'
<1> USE DEF FlowInv
<1>1. UNCHANGED <<outboxVars, jobVars>> /\ HandlerStep(h)
  BY DEF Continue, HandlerStep
<1>2. JobTypes' /\ WorkIsAwaited'
  BY <1>1, JobUntouched
<1>3. TypeOK'
  BY <1>1, NextType DEF Next
<1>4. BatchesAreFinite'
  <2>1. batch' = batch \/ batch' = [batch EXCEPT ![h] = {}]
    BY DEF Continue, ReadParcels, FoldTracking, SaveParcels, NothingChanged, ReadTargets,
           WriteTargets, WriteAgings, Forget, locals
  <2> QED
    BY <2>1, FS_EmptySet DEF BatchesAreFinite, TypeOK
<1>5. \A g \in Handler : pc[g] = "saved" =>
         /\ pc'[g] = "saved" /\ batch'[g] = batch[g]
         /\ origin'[g] = origin[g] /\ copy'[g] = copy[g]
  <2> SUFFICES ASSUME NEW g \in Handler, pc[g] = "saved"
               PROVE  /\ pc'[g] = "saved" /\ batch'[g] = batch[g]
                      /\ origin'[g] = origin[g] /\ copy'[g] = copy[g]
    OBVIOUS
  <2>1. g # h
    BY DEF Continue, ReadParcels, FoldTracking, SaveParcels, NothingChanged, ReadTargets,
           WriteTargets, WriteAgings, Goto
  <2>2. CASE \E t \in todo[h] : FoldTracking(h, t)
    BY <2>1, <2>2 DEF FoldTracking, TypeOK
  <2>3. CASE ReadParcels(h) \/ SaveParcels(h) \/ ReadTargets(h) \/ WriteTargets(h)
    BY <2>1, <2>3 DEF ReadParcels, SaveParcels, ReadTargets, WriteTargets, Goto, TypeOK, locals
  <2>4. CASE NothingChanged(h) \/ WriteAgings(h)
    BY <2>1, <2>4 DEF NothingChanged, WriteAgings, Goto, Forget, TypeOK
  <2> QED
    BY <2>2, <2>3, <2>4 DEF Continue
<1>6. \A p \in Parcel : Covered(p) => Covered(p)'
  BY <1>1, <1>5, CoveredStays DEF outboxVars, jobVars
<1>7. CASE SaveParcels(h)
  <2>1. /\ parcel' = [p \in Parcel |-> IF p \in Changed(h) THEN copy[h][p] ELSE parcel[p]]
        /\ pc'[h] = "saved" /\ UNCHANGED <<batch, origin, copy>>
    BY <1>7 DEF SaveParcels, Goto, TypeOK, locals
  <2> SUFFICES ASSUME NEW p \in Parcel, OnItsWay(p)', ~parcel'[p].sync PROVE Covered(p)'
    BY <1>2, <1>3, <1>4 DEF UnsyncedIsCovered
  <2>2. CASE p \in Changed(h)
    BY <2>1, <2>2 DEF Covered, ToRequest, OnItsWay, Changed
  <2>3. CASE p \notin Changed(h)
    BY <1>6, <2>1, <2>3 DEF UnsyncedIsCovered, OnItsWay
  <2> QED
    BY <2>2, <2>3
<1>8. CASE ~SaveParcels(h)
  <2>1. parcel' = parcel
    BY <1>8 DEF Continue, ReadParcels, FoldTracking, NothingChanged, ReadTargets,
                WriteTargets, WriteAgings, database
  <2> QED
    BY <1>2, <1>3, <1>4, <1>6, <2>1 DEF UnsyncedIsCovered, OnItsWay
<1> QED
  BY <1>7, <1>8

\* The requests of the changed parcels, in some order, come behind those that were made.
Inserts(h, n, order) ==
  /\ order \in [1 .. n -> Changed(h)]
  /\ IsFiniteSet(Changed(h)) /\ n = Cardinality(Changed(h))
  /\ \A p \in Changed(h) : \E i \in 1 .. n : order[i] = p
  /\ outbox' = outbox \cup (Len(queue) + 1 .. Len(queue) + n)
  /\ queue' \in Seq(Push!Request) /\ Len(queue') = Len(queue) + n
  /\ \A i \in DOMAIN queue : queue'[i] = queue[i]
  /\ \A k \in 1 .. n : /\ queue'[Len(queue) + k].parcel = order[k]
                       /\ queue'[Len(queue) + k].wanted = (copy[h][order[k]].status # "CREATED")

LEMMA Inserted ==
  ASSUME FlowInv, NEW h \in Handler, InsertRequests(h)
  PROVE  \E n \in Nat : \E order : Inserts(h, n, order)
<1> USE DEF FlowInv
<1>1. PICK order \in Orders(Changed(h)) :
        Push!RequestPushes([i \in DOMAIN order |->
          [parcel |-> order[i], wanted |-> copy[h][order[i]].status # "CREATED"]])
  BY DEF InsertRequests
<1> DEFINE new == [i \in DOMAIN order |->
                     [parcel |-> order[i], wanted |-> copy[h][order[i]].status # "CREATED"]]
           n == Cardinality(Changed(h))
<1>2. Changed(h) \subseteq Parcel /\ n \in Nat /\ IsFiniteSet(Changed(h))
  <2>1. batch[h] \subseteq Parcel /\ IsFiniteSet(batch[h])
    BY DEF TypeOK, BatchesAreFinite
  <2>2. Changed(h) \subseteq batch[h]
    BY DEF Changed
  <2> QED
    BY <2>1, <2>2, FS_Subset, FS_CardinalityType
<1>3. /\ order \in [1 .. n -> Changed(h)]
      /\ \A p \in Changed(h) : \E i \in 1 .. n : order[i] = p
  BY DEF Orders
<1>4. new \in [1 .. n -> Push!Request]
  BY <1>2, <1>3 DEF Push!Request
<1>5. new \in Seq(Push!Request) /\ Len(new) = n
  BY <1>2, <1>4
<1>6. queue' = queue \o new /\ outbox' = outbox \cup (Len(queue) + 1 .. Len(queue) + n)
  BY <1>1, <1>5 DEF Push!RequestPushes
<1>7. \A k \in 1 .. n : /\ new[k].parcel = order[k]
                        /\ new[k].wanted = (copy[h][order[k]].status # "CREATED")
  BY <1>3
<1> HIDE DEF new
<1>8. /\ queue' \in Seq(Push!Request) /\ Len(queue') = Len(queue) + n
      /\ \A i \in DOMAIN queue : queue'[i] = queue[i]
      /\ \A k \in 1 .. n : queue'[Len(queue) + k] = new[k]
  <2>1. queue \in Seq(Push!Request)
    BY DEF JobTypes
  <2> DEFINE all == queue \o new
  <2>2. /\ all \in Seq(Push!Request) /\ Len(all) = Len(queue) + Len(new)
        /\ \A i \in DOMAIN queue : all[i] = queue[i]
        /\ \A k \in 1 .. Len(new) : all[Len(queue) + k] = new[k]
    <3>1. new \in Seq(Push!Request)
      BY <1>5
    <3> QED
      BY <2>1, <3>1
  <2>3. queue' = all /\ Len(new) = n
    BY <1>5, <1>6
  <2> HIDE DEF n, all
  <2> QED
    BY <2>2, <2>3
<1>9. Inserts(h, n, order)
  BY <1>2, <1>3, <1>6, <1>7, <1>8 DEF Inserts
<1> QED
  BY <1>2, <1>9

LEMMA RequestKeeps ==
  ASSUME FlowInv, NEW h \in Handler, InsertRequests(h)
  PROVE  FlowInv'
<1> USE DEF FlowInv
<1>1. RequestPushes(h)
  BY DEF InsertRequests
<1>2. PICK n \in Nat : \E order : Inserts(h, n, order)
  BY Inserted
<1>3. PICK order : Inserts(h, n, order)
  BY <1>2
<1>4. /\ order \in [1 .. n -> Changed(h)]
      /\ \A p \in Changed(h) : \E i \in 1 .. n : order[i] = p
      /\ \A k \in 1 .. n : /\ queue'[Len(queue) + k].parcel = order[k]
                           /\ queue'[Len(queue) + k].wanted = (copy[h][order[k]].status # "CREATED")
  BY <1>3 DEF Inserts
<1>6. outbox' = outbox \cup (Len(queue) + 1 .. Len(queue) + n)
  BY <1>3 DEF Inserts
<1>7. UNCHANGED <<enabled, current, worker, rest, parcel, batch, origin, copy>>
  BY <1>1 DEF InsertRequests, RequestPushes, Push!RequestPushes, locals
<1>8. /\ queue' \in Seq(Push!Request) /\ DOMAIN queue \subseteq DOMAIN queue'
      /\ (Len(queue) + 1 .. Len(queue) + n) \subseteq DOMAIN queue'
      /\ \A i \in DOMAIN queue : queue'[i] = queue[i]
  BY <1>3 DEF Inserts, JobTypes
<1>5. JobTypes'
  BY <1>6, <1>7, <1>8 DEF JobTypes
<1>10. TypeOK'
  BY <1>1, NextType DEF Next, HandlerStep
<1>11. BatchesAreFinite' /\ WorkIsAwaited'
  BY <1>7 DEF BatchesAreFinite, WorkIsAwaited
<1>12. pc[h] = "saved" /\ \A g \in Handler \ {h} : pc'[g] = pc[g]
  BY <1>1 DEF RequestPushes, Goto, TypeOK
<1>13. \A p \in Changed(h) : copy[h][p].status # "CREATED" => Waiting(p)'
  <2> SUFFICES ASSUME NEW p \in Changed(h), copy[h][p].status # "CREATED" PROVE Waiting(p)'
    OBVIOUS
  <2>1. PICK k \in 1 .. n : order[k] = p
    BY <1>4
  <2>2. queue'[Len(queue) + k].parcel = p /\ queue'[Len(queue) + k].wanted
    BY <1>4, <2>1
  <2>3. Len(queue) + k \in outbox'
    BY <1>6 DEF JobTypes
  <2> QED
    BY <2>2, <2>3 DEF Waiting
<1>14. UnsyncedIsCovered'
  <2> SUFFICES ASSUME NEW p \in Parcel, OnItsWay(p)', ~parcel'[p].sync PROVE Covered(p)'
    BY DEF UnsyncedIsCovered
  <2>1. Covered(p)
    BY <1>7 DEF UnsyncedIsCovered, OnItsWay
  <2>2. CASE \E g \in Handler \ {h} :
               pc[g] = "saved" /\ p \in Changed(g) /\ copy[g][p].status # "CREATED"
    BY <1>7, <1>12, <2>2 DEF Covered, ToRequest, Changed
  <2>3. CASE p \in Changed(h) /\ copy[h][p].status # "CREATED"
    BY <1>13, <2>3 DEF Covered
  <2>4. CASE Waiting(p)
    BY <1>6, <1>8, <2>4 DEF Covered, Waiting, JobTypes
  <2>5. CASE ToSync(p)
    <3>1. PICK r \in Run, pl \in Platform :
            worker[r][pl] = "syncing" /\ p \in Push!ParcelsOf(Push!Chunk(r, pl))
      BY <2>5 DEF ToSync
    <3>2. PICK i \in Push!Chunk(r, pl) : p = queue[i].parcel
      BY <3>1 DEF Push!ParcelsOf
    <3>3. i \in Push!Chunk(r, pl)' /\ i \in DOMAIN queue
      BY <1>7, <3>1, <3>2 DEF Push!Chunk, Push!Oldest, JobTypes
    <3>4. p \in Push!ParcelsOf(Push!Chunk(r, pl))'
      BY <1>8, <3>2, <3>3 DEF Push!ParcelsOf
    <3> QED
      BY <1>7, <3>1, <3>4 DEF ToSync, Covered
  <2> QED
    BY <2>1, <2>2, <2>3, <2>4, <2>5 DEF Covered, ToRequest
<1> QED
  BY <1>5, <1>10, <1>11, <1>14

\* The job.  What a handler has in hand it does not touch.

Synced(row) == [row EXCEPT !.sync = TRUE]

LEMMA SyncedRow ==
  ASSUME NEW row \in Row
  PROVE  Synced(row) \in Row /\ Synced(row).status = row.status /\ Synced(row).sync
BY DEF Synced, Row

LEMMA HandlersUntouched ==
  ASSUME TypeOK, BatchesAreFinite, UNCHANGED unshared, parcel' \in [Parcel -> Row],
         \A p \in Parcel : parcel'[p] \in {parcel[p], Synced(parcel[p])}
  PROVE  /\ TypeOK' /\ BatchesAreFinite'
         /\ \A p \in Parcel : OnItsWay(p)' = OnItsWay(p)
         /\ \A p \in Parcel : parcel[p].sync => parcel'[p].sync
<1>1. \A p \in Parcel : parcel'[p].status = parcel[p].status /\ (parcel[p].sync => parcel'[p].sync)
  BY SyncedRow DEF TypeOK
<1> QED
  BY <1>1 DEF TypeOK, BatchesAreFinite, OnItsWay, unshared, locals

LEMMA AdministerKeeps ==
  ASSUME FlowInv, NEW r \in Run, Administer(r)
  PROVE  FlowInv'
<1> USE DEF FlowInv
<1>1. TypeOK' /\ BatchesAreFinite' /\ parcel' = parcel
  <2>1. parcel' = parcel /\ UNCHANGED unshared
    BY DEF Administer
  <2>2. parcel' \in [Parcel -> Row] /\ \A p \in Parcel : parcel'[p] \in {parcel[p], Synced(parcel[p])}
    BY <2>1 DEF TypeOK
  <2> QED
    BY <2>1, <2>2, HandlersUntouched
<1>2. UNCHANGED <<pc, batch, origin, copy, queue, outbox, enabled>>
  BY DEF Administer, unshared, locals, Push!FindRequests, Push!ReadConfigs, Push!EndRun, Push!tables
<1>3. \A q \in Run, pl \in Platform : worker[q][pl] = "syncing" =>
         worker'[q][pl] = "syncing" /\ rest'[q][pl] = rest[q][pl]
  BY DEF Administer, JobTypes, Push!FindRequests, Push!ReadConfigs, Push!EndRun, Push!Idle,
         Push!Working, Push!WorkerStep
<1>4. UnsyncedIsCovered'
  BY <1>1, <1>2, <1>3, CoveredStays DEF UnsyncedIsCovered, OnItsWay
<1>5. CASE Push!FindRequests(r)
  <2>1. PICK B : /\ B \subseteq outbox
                 /\ rest' = [rest EXCEPT ![r] = [pl \in Platform |-> Push!For(pl, B)]]
                 /\ worker' = [worker EXCEPT ![r] = [pl \in Platform |->
                      IF Push!For(pl, B) = {} THEN "idle" ELSE "reading"]]
    BY <1>5 DEF Push!FindRequests, Push!Oldest
  <2>2. JobTypes'
    BY <1>2, <2>1 DEF JobTypes, Push!For, Push!WorkerStep
  <2>3. current = Push!None /\ current' = r
    BY <1>5 DEF Push!FindRequests
  <2>4. \A q \in Run \ {r}, pl \in Platform : worker[q][pl] \notin Push!Working
    BY <2>3, RunAssumption DEF WorkIsAwaited
  <2>5. WorkIsAwaited'
    BY <2>1, <2>3, <2>4 DEF WorkIsAwaited, JobTypes
  <2> QED
    BY <1>1, <1>4, <2>2, <2>5
<1>6. CASE Push!ReadConfigs(r)
  <2>1. /\ UNCHANGED <<current, rest>>
        /\ worker' = [worker EXCEPT ![r] = [pl \in Platform |->
             IF worker[r][pl] # "reading" THEN worker[r][pl] ELSE "filtering"]]
    BY <1>6 DEF Push!ReadConfigs, JobTypes
  <2>2. JobTypes'
    BY <1>2, <2>1 DEF JobTypes, Push!WorkerStep
  <2>3. WorkIsAwaited'
    BY <2>1 DEF WorkIsAwaited, JobTypes, Push!Working, Push!WorkerStep
  <2> QED
    BY <1>1, <1>4, <2>2, <2>3
<1>7. CASE Push!EndRun(r)
  <2>1. /\ rest' = rest /\ worker' = [worker EXCEPT ![r] = Push!Idle]
        /\ \A pl \in Platform : worker[r][pl] \notin Push!Working
        /\ current' = IF current = r THEN Push!None ELSE current
    BY <1>7 DEF Push!EndRun
  <2>2. JobTypes'
    BY <1>2, <2>1 DEF JobTypes, Push!Idle, Push!WorkerStep
  <2>3. WorkIsAwaited'
    BY <2>1 DEF WorkIsAwaited, JobTypes, Push!Idle, Push!Working, Push!WorkerStep
  <2> QED
    BY <1>1, <1>4, <2>2, <2>3
<1> QED
  BY <1>5, <1>6, <1>7 DEF Administer

LEMMA WorkKeeps ==
  ASSUME FlowInv, NEW r \in Run, NEW pl \in Platform, Work(r, pl)
  PROVE  FlowInv'
<1> USE DEF FlowInv
<1>1. /\ TypeOK' /\ BatchesAreFinite'
      /\ \A p \in Parcel : OnItsWay(p)' = OnItsWay(p)
      /\ \A p \in Parcel : parcel[p].sync => parcel'[p].sync
  <2> DEFINE taken(p) == worker[r][pl] = "syncing" /\ p \in Push!ParcelsOf(Push!Chunk(r, pl))
  <2>1. parcel' = [p \in Parcel |-> IF taken(p) THEN Synced(parcel[p]) ELSE parcel[p]]
    BY DEF Work, Synced
  <2> HIDE DEF taken
  <2>2. parcel' \in [Parcel -> Row] /\ \A p \in Parcel : parcel'[p] \in {parcel[p], Synced(parcel[p])}
    BY <2>1, SyncedRow DEF TypeOK
  <2>3. UNCHANGED unshared
    BY DEF Work
  <2> QED
    BY <2>2, <2>3, HandlersUntouched
<1>2. UNCHANGED <<pc, batch, origin, copy, queue, enabled, current>>
  BY DEF Work, unshared, locals, Push!WorkerAction, Push!Discard, Push!RemoveUnwanted,
         Push!PushMessage, Push!InsertLog, Push!DeleteRequests, Push!SetSync, Push!tables
<1>3. PICK to \in {"done", "pushing", "logging", "deleting", "syncing"} :
        worker' = [worker EXCEPT ![r][pl] = to]
  BY DEF Work, Push!WorkerAction, Push!Discard, Push!RemoveUnwanted, Push!PushMessage,
         Push!InsertLog, Push!DeleteRequests, Push!SetSync, Push!Goto
<1>4. worker[r][pl] \in Push!Working
  BY DEF Work, Push!WorkerAction, Push!Discard, Push!RemoveUnwanted, Push!PushMessage,
         Push!InsertLog, Push!DeleteRequests, Push!SetSync, Push!Goto, Push!Working, Push!WorkerStep
<1>5. PICK left \in SUBSET rest[r][pl] : rest' = [rest EXCEPT ![r][pl] = left]
  <2>1. rest \in [Run -> [Platform -> SUBSET DOMAIN queue]]
    BY DEF JobTypes
  <2>2. CASE rest' = rest
    BY <2>1, <2>2
  <2>3. CASE Push!Discard(r, pl) \/ Push!RemoveUnwanted(r, pl) \/ Push!SetSync(r, pl)
    BY <2>3 DEF Push!Discard, Push!RemoveUnwanted, Push!SetSync, Push!Wanted
  <2> QED
    BY <2>2, <2>3 DEF Work, Push!WorkerAction, Push!PushMessage, Push!InsertLog, Push!DeleteRequests
<1>6. outbox' \subseteq outbox
  BY DEF Work, Push!WorkerAction, Push!Discard, Push!RemoveUnwanted, Push!PushMessage,
         Push!InsertLog, Push!DeleteRequests, Push!SetSync, Push!Drop, Push!tables
<1>7. JobTypes'
  BY <1>2, <1>3, <1>5, <1>6 DEF JobTypes, Push!WorkerStep
<1>8. WorkIsAwaited'
  BY <1>2, <1>3, <1>4 DEF WorkIsAwaited, JobTypes, Push!Working, Push!WorkerStep
\* What the others are about to do is not affected.
<1>9. \A q \in Run, x \in Platform : <<q, x>> # <<r, pl>> =>
        worker'[q][x] = worker[q][x] /\ rest'[q][x] = rest[q][x]
  BY <1>3, <1>5 DEF JobTypes
<1>10. UnsyncedIsCovered'
  <2> SUFFICES ASSUME NEW p \in Parcel, OnItsWay(p), ~parcel[p].sync, ~parcel'[p].sync
               PROVE  Covered(p)'
    BY <1>1 DEF UnsyncedIsCovered
  <2>1. Covered(p)
    BY DEF UnsyncedIsCovered
  <2>2. CASE ToRequest(p)
    BY <1>2, <2>2 DEF Covered, ToRequest, Changed
  <2>3. ASSUME NEW i \in outbox, queue[i].parcel = p, queue[i].wanted PROVE Covered(p)'
    <3>1. CASE i \in outbox'
      BY <1>2, <2>3, <3>1 DEF Covered, Waiting
    <3>2. CASE Push!DeleteRequests(r, pl) /\ i \notin outbox'
      <4>1. i \in Push!Chunk(r, pl) /\ worker'[r][pl] = "syncing" /\ rest' = rest
        BY <1>3, <3>2 DEF Push!DeleteRequests, Push!Goto, JobTypes
      <4>2. i \in Push!Chunk(r, pl)'
        BY <4>1 DEF Push!Chunk
      <4>3. p \in Push!ParcelsOf(Push!Chunk(r, pl))'
        BY <1>2, <2>3, <4>2 DEF Push!ParcelsOf
      <4> QED
        BY <4>1, <4>3 DEF Covered, ToSync
    <3>3. CASE ~Push!DeleteRequests(r, pl)
      <4>1. worker[r][pl] # "discarding"
        BY DEF WorkIsAwaited
      <4>2. i \in outbox'
        BY <2>3, <3>3, <4>1 DEF Work, Push!WorkerAction, Push!Discard, Push!RemoveUnwanted,
             Push!PushMessage, Push!InsertLog, Push!SetSync, Push!Drop, Push!tables, Push!Goto,
             Push!Wanted
      <4> QED
        BY <3>1, <4>2
    <3> QED
      BY <3>1, <3>2, <3>3
  <2>4. ASSUME NEW q \in Run, NEW x \in Platform, worker[q][x] = "syncing",
               p \in Push!ParcelsOf(Push!Chunk(q, x))
        PROVE  Covered(p)'
    <3>1. <<q, x>> # <<r, pl>>
      <4>1. ASSUME q = r, x = pl PROVE FALSE
        <5>1. parcel'[p] = [parcel[p] EXCEPT !.sync = TRUE]
          BY <2>4, <4>1 DEF Work
        <5> QED
          BY <5>1 DEF TypeOK, Row
      <4> QED
        BY <4>1
    <3>2. worker'[q][x] = "syncing" /\ rest'[q][x] = rest[q][x]
      BY <1>9, <2>4, <3>1
    <3>3. Push!ParcelsOf(Push!Chunk(q, x))' = Push!ParcelsOf(Push!Chunk(q, x))
      BY <1>2, <3>2 DEF Push!ParcelsOf, Push!Chunk
    <3> QED
      BY <2>4, <3>2, <3>3 DEF Covered, ToSync
  <2> QED
    BY <2>1, <2>2, <2>3, <2>4 DEF Covered, Waiting, ToSync
<1> QED
  BY <1>1, <1>7, <1>8, <1>10

LEMMA FlowKeeps == FlowInv /\ [FlowNext]_flowVars => FlowInv'
<1> SUFFICES ASSUME FlowInv, [FlowNext]_flowVars PROVE FlowInv'
  OBVIOUS
<1>1. CASE UNCHANGED flowVars
  <2>1. TypeOK'
    BY <1>1, NextType DEF flowVars, FlowInv
  <2> QED
    BY <1>1, <2>1 DEF flowVars, vars, database, locals, outboxVars, jobVars, FlowInv, JobTypes,
         BatchesAreFinite, WorkIsAwaited, UnsyncedIsCovered, OnItsWay, Covered, ToRequest, Changed,
         Waiting, ToSync, Push!ParcelsOf, Push!Chunk
<1> QED
  BY <1>1, CallKeeps, ContinueKeeps, RequestKeeps, AdministerKeeps, WorkKeeps DEF FlowNext

\* When every handler has ended and the outbox is empty, all parcels on their way are synced,
\* for any number of handlers that overlap, although each of them may write back an old sync.
THEOREM SyncAlwaysHeals == FlowSpec => []SyncHeals
<1>1. FlowInv => SyncHeals
  <2> SUFFICES ASSUME FlowInv, Settled, NEW p \in Parcel, OnItsWay(p), ~parcel[p].sync
               PROVE  FALSE
    BY DEF SyncHeals, OnItsWay
  <2>1. ~ToRequest(p) /\ ~Waiting(p)
    BY DEF ToRequest, Waiting, Settled
  <2>2. ~ToSync(p)
    BY RunAssumption DEF ToSync, Settled, FlowInv, WorkIsAwaited, Push!Working, Push!WorkerStep
  <2> QED
    BY <2>1, <2>2 DEF FlowInv, UnsyncedIsCovered, Covered
<1> QED
  BY <1>1, FlowStarts, FlowKeeps, PTL DEF FlowSpec

-----------------------------------------------------------------------------
(* What a platform was told last, when no two handlers have a parcel in common. *)

\* The same row but for sync.
Same(row, other) == Synced(row) = Synced(other)

Ids(p) == {i \in DOMAIN queue : queue[i].parcel = p}
Saving(h, p) == pc[h] = "saved" /\ p \in Changed(h)

\* Only the job writes into a parcel that a handler is at work on.
CopiesAreSaved ==
  \A h \in Handler, p \in Parcel : Saving(h, p) => Same(copy[h][p], parcel[p])

\* The rows requested of a parcel are as many as its ids in the outbox ever were.
RowsAreCounted == \A p \in Parcel : Cardinality(Ids(p)) = Len(requests[p])

\* The last request of a parcel carries the row the parcel is in.
LastIsTold ==
  \A p \in Parcel : OnItsWay(p) /\ (\A h \in Handler : ~Saving(h, p)) =>
    /\ \E i \in Ids(p) : queue[i].wanted /\ \A j \in Ids(p) : j <= i
    /\ Same(requests[p][Len(requests[p])], parcel[p])

SentTypes == Push!Delivered \subseteq DOMAIN queue /\ topic \in [Platform -> Seq(SUBSET Nat)]
ChunkIsSent ==
  \A r \in Run, pl \in Platform :
    worker[r][pl] \in {"logging", "deleting", "syncing"} => Push!Chunk(r, pl) \subseteq Push!Delivered
WantedIsSent == \A i \in DOMAIN queue : queue[i].wanted => i \in outbox \/ i \in Push!Delivered

ToldInv ==
  /\ FlowInv /\ Apart
  /\ CopiesAreSaved /\ RowsAreCounted /\ LastIsTold
  /\ SentTypes /\ ChunkIsSent /\ WantedIsSent

LEMMA SameRow ==
  ASSUME NEW row \in Row
  PROVE  Same(row, row) /\ Same(row, Synced(row)) /\ Synced(Synced(row)) = Synced(row)
<1>1. Synced(Synced(row)) = Synced(row)
  BY DEF Synced, Row
<1> QED
  BY <1>1 DEF Same

LEMMA SameButSync ==
  ASSUME NEW row \in Row, NEW other \in Row, Same(row, other)
  PROVE  row = [other EXCEPT !.sync = row.sync] /\ row.status = other.status
<1>1. Synced(row) = [row EXCEPT !.sync = TRUE] /\ Synced(other) = [other EXCEPT !.sync = TRUE]
  BY DEF Synced
<1>2. [row EXCEPT !.sync = TRUE] = [other EXCEPT !.sync = TRUE]
  BY <1>1 DEF Same
<1>3. [[row EXCEPT !.sync = TRUE] EXCEPT !.sync = row.sync] = row
  BY DEF Row
<1>4. [[other EXCEPT !.sync = TRUE] EXCEPT !.sync = row.sync] = [other EXCEPT !.sync = row.sync]
  BY DEF Row
<1>5. row = [other EXCEPT !.sync = row.sync]
  BY <1>2, <1>3, <1>4
<1> QED
  BY <1>5, SyncedRow DEF Same

LEMMA ToldStarts == ASSUME FlowInit PROVE ToldInv
<1>1. FlowInv
  BY FlowStarts
<1>2. /\ queue = <<>> /\ \A p \in Parcel : requests[p] = <<>>
      /\ \A h \in Handler : pc[h] = "idle" /\ batch[h] = {}
  BY DEF FlowInit, Init, Push!Init
<1>3. Apart /\ CopiesAreSaved /\ LastIsTold
  BY <1>2 DEF FlowInit, Init, Apart, CopiesAreSaved, Saving, LastIsTold, OnItsWay, NoRows, NewRow
<1>4. RowsAreCounted
  <2> SUFFICES ASSUME NEW p \in Parcel PROVE Cardinality(Ids(p)) = Len(requests[p])
    BY DEF RowsAreCounted
  <2>1. DOMAIN queue = {} /\ Cardinality({}) = 0
    BY <1>2, FS_EmptySet
  <2>2. Ids(p) = {}
    BY <2>1 DEF Ids
  <2>3. Len(requests[p]) = 0
    BY <1>2
  <2> QED
    BY <2>1, <2>2, <2>3
<1>5. SentTypes /\ ChunkIsSent /\ WantedIsSent
  <2>1. topic = [pl \in Platform |-> <<>>] /\ worker = [r \in Run |-> Push!Idle]
    BY DEF FlowInit, Push!Init
  <2>2. Push!Delivered = {}
    BY <2>1 DEF Push!Delivered, Push!Sent
  <2> QED
    BY <1>2, <2>1, <2>2 DEF SentTypes, ChunkIsSent, WantedIsSent, Push!Idle
<1> QED
  BY <1>1, <1>3, <1>4, <1>5 DEF ToldInv

LEMMA HandlerTold ==
  ASSUME ToldInv, FlowInv', Apart', NEW h \in Handler, Call(h) \/ Continue(h)
  PROVE  ToldInv'
<1> USE DEF ToldInv
<1>1. UNCHANGED <<requests, queue, outbox, worker, rest, topic>>
  BY DEF Call, Continue, outboxVars, jobVars, InsertTrackings, ReadParcels, FoldTracking, SaveParcels,
         NothingChanged, ReadTargets, WriteTargets, WriteAgings, database
<1>2. RowsAreCounted' /\ SentTypes' /\ ChunkIsSent' /\ WantedIsSent'
  <2>1. Push!Delivered' = Push!Delivered
    BY <1>1 DEF Push!Delivered, Push!Sent
  <2>2. \A r \in Run, pl \in Platform : Push!Chunk(r, pl)' = Push!Chunk(r, pl)
    BY <1>1 DEF Push!Chunk
  <2>3. RowsAreCounted'
    BY <1>1 DEF RowsAreCounted, Ids
  <2>4. SentTypes' /\ WantedIsSent'
    BY <1>1, <2>1 DEF SentTypes, WantedIsSent
  <2>5. ChunkIsSent'
    BY <1>1, <2>1, <2>2 DEF ChunkIsSent
  <2> QED
    BY <2>3, <2>4, <2>5
<1>3. TypeOK
  BY DEF FlowInv
<1> DEFINE others == \A g \in Handler, p \in Parcel : g # h =>
                       copy'[g] = copy[g] /\ Saving(g, p)' = Saving(g, p)
<1>7. others
  <2>1. Turn(h)
    BY DEF Call, Continue, Turn, HandlerStep
  <2> QED
    BY <1>3, <2>1, OthersStandStill DEF OthersStand, Saving, Changed
<1> HIDE DEF others
<1>4. CASE SaveParcels(h)
  <2>1. /\ parcel' = [p \in Parcel |-> IF p \in Changed(h) THEN copy[h][p] ELSE parcel[p]]
        /\ pc[h] = "folding" /\ pc'[h] = "saved" /\ UNCHANGED <<batch, origin, copy>>
    BY <1>3, <1>4 DEF SaveParcels, Goto, TypeOK, locals
  <2>2. Changed(h)' = Changed(h)
    BY <2>1 DEF Changed
  <2>3. ASSUME NEW g \in Handler, NEW p \in Parcel, Saving(g, p)'
        PROVE  Same(copy'[g][p], parcel'[p])
    <3>1. CASE g = h
      BY <1>3, <2>1, <2>2, <2>3, <3>1, SameRow DEF Saving, TypeOK
    <3>2. CASE g # h
      <4>1. Saving(g, p) /\ copy'[g] = copy[g]
        BY <1>7, <2>3, <3>2 DEF others
      <4>2. p \notin Changed(h)
        BY <3>2, <4>1 DEF Apart, Saving, Changed
      <4> QED
        BY <2>1, <4>1, <4>2 DEF CopiesAreSaved
    <3> QED
      BY <3>1, <3>2
  <2>4. ASSUME NEW p \in Parcel, OnItsWay(p)', \A g \in Handler : ~Saving(g, p)'
        PROVE  parcel'[p] = parcel[p] /\ OnItsWay(p) /\ \A g \in Handler : ~Saving(g, p)
    <3>1. p \notin Changed(h)
      BY <2>1, <2>2, <2>4 DEF Saving
    <3>2. parcel'[p] = parcel[p] /\ ~Saving(h, p)
      BY <2>1, <3>1 DEF Saving
    <3> QED
      BY <1>7, <2>4, <3>2 DEF OnItsWay, others
  <2>5. LastIsTold'
    BY <1>1, <2>4 DEF LastIsTold, Ids
  <2> QED
    BY <1>2, <2>3, <2>5 DEF CopiesAreSaved
<1>5. CASE ~SaveParcels(h)
  <2>1. parcel' = parcel /\ pc[h] # "saved" /\ pc'[h] # "saved"
    BY <1>3, <1>5 DEF Call, Continue, InsertTrackings, ReadParcels, FoldTracking, NothingChanged,
         ReadTargets, WriteTargets, WriteAgings, database, Goto, TypeOK
  <2>2. \A g \in Handler, p \in Parcel :
          /\ Saving(g, p)' = Saving(g, p)
          /\ Saving(g, p) => copy'[g] = copy[g]
    BY <1>7, <2>1 DEF others, Saving
  <2>3. CopiesAreSaved' /\ LastIsTold'
    BY <1>1, <2>1, <2>2 DEF CopiesAreSaved, LastIsTold, Ids, OnItsWay
  <2> QED
    BY <1>2, <2>3
<1> QED
  BY <1>4, <1>5

LEMMA RequestTold ==
  ASSUME ToldInv, FlowInv', Apart', NEW h \in Handler, InsertRequests(h)
  PROVE  ToldInv'
<1> USE DEF ToldInv
<1>1. FlowInv /\ TypeOK /\ queue \in Seq(Push!Request) /\ Changed(h) \subseteq Parcel
  BY DEF FlowInv, JobTypes, TypeOK, Changed
<1>2. PICK n \in Nat : \E order : Inserts(h, n, order)
  BY <1>1, Inserted
<1>3. PICK order : Inserts(h, n, order)
  BY <1>2
<1>4. UNCHANGED <<worker, rest, topic, parcel, batch, origin, copy>> /\ pc[h] = "saved" /\ pc'[h] # "saved"
  BY <1>1 DEF InsertRequests, RequestPushes, Push!RequestPushes, locals, Goto, TypeOK
<1>5. requests' = [p \in Parcel |-> IF p \in Changed(h) THEN Append(requests[p], copy[h][p])
                                    ELSE requests[p]]
  BY DEF InsertRequests, RequestPushes
<1>6. /\ DOMAIN queue = 1 .. Len(queue) /\ DOMAIN queue' = 1 .. Len(queue) + n
      /\ Len(queue) \in Nat
  BY <1>1, <1>3 DEF Inserts
<1>7. \A i, k \in 1 .. n : order[i] = order[k] => i = k
  <2>1. order \in Surjection(1 .. n, Changed(h))
    BY <1>3 DEF Inserts, Surjection
  <2>2. IsFiniteSet(1 .. n) /\ Cardinality(1 .. n) = n
    BY FS_Interval
  <2>3. order \in Injection(1 .. n, Changed(h))
    BY <1>3, <2>1, <2>2, FS_Surjection DEF Inserts
  <2> QED
    BY <2>3 DEF Injection, IsInjective
\* The ids of a changed parcel are those it had and a new one.
<1>8. ASSUME NEW p \in Changed(h)
      PROVE  \E k \in 1 .. n : order[k] = p /\ Ids(p)' = Ids(p) \cup {Len(queue) + k}
  <2>1. PICK k \in 1 .. n : order[k] = p
    BY <1>3 DEF Inserts
  <2>2. ASSUME NEW i \in DOMAIN queue' PROVE queue'[i].parcel = p <=> i \in Ids(p) \cup {Len(queue) + k}
    <3>1. CASE i \in DOMAIN queue
      BY <1>3, <1>6, <3>1 DEF Inserts, Ids
    <3>2. CASE i \notin DOMAIN queue
      <4>1. PICK m \in 1 .. n : i = Len(queue) + m
        <5>1. i - Len(queue) \in 1 .. n /\ i = Len(queue) + (i - Len(queue))
          BY <1>6, <3>2
        <5> QED
          BY <5>1
      <4>2. queue'[i].parcel = order[m]
        BY <1>3, <4>1 DEF Inserts
      <4>3. i \notin Ids(p)
        BY <3>2 DEF Ids
      <4>4. i = Len(queue) + k <=> m = k
        BY <1>6, <4>1
      <4> QED
        BY <1>7, <2>1, <4>2, <4>3, <4>4
    <3> QED
      BY <3>1, <3>2
  <2>3. Ids(p) \cup {Len(queue) + k} \subseteq DOMAIN queue'
    BY <1>6 DEF Ids
  <2> QED
    BY <2>1, <2>2, <2>3 DEF Ids
<1>9. ASSUME NEW p \in Parcel \ Changed(h) PROVE Ids(p)' = Ids(p)
  <2>1. ASSUME NEW i \in DOMAIN queue' PROVE queue'[i].parcel = p <=> i \in Ids(p)
    <3>1. CASE i \in DOMAIN queue
      BY <1>3, <3>1 DEF Inserts, Ids
    <3>2. CASE i \notin DOMAIN queue
      <4>1. i - Len(queue) \in 1 .. n /\ i = Len(queue) + (i - Len(queue))
        BY <1>6, <3>2
      <4>2. queue'[i].parcel \in Changed(h)
        BY <1>3, <4>1 DEF Inserts
      <4> QED
        BY <3>2, <4>2 DEF Ids
    <3> QED
      BY <3>1, <3>2
  <2> QED
    BY <1>6, <2>1 DEF Ids
<1>10. \A p \in Parcel : IsFiniteSet(Ids(p)) /\ Ids(p) \subseteq 1 .. Len(queue)
  <2> SUFFICES ASSUME NEW p \in Parcel PROVE IsFiniteSet(Ids(p)) /\ Ids(p) \subseteq 1 .. Len(queue)
    OBVIOUS
  <2>1. Ids(p) \subseteq 1 .. Len(queue)
    BY <1>6 DEF Ids
  <2>2. IsFiniteSet(1 .. Len(queue))
    BY <1>6, FS_Interval
  <2> QED
    BY <2>1, <2>2, FS_Subset
<1>11. \A p \in Parcel : requests[p] \in Seq(Row) /\ copy[h][p] \in Row
  BY <1>1 DEF TypeOK
<1>12. RowsAreCounted'
  <2> SUFFICES ASSUME NEW p \in Parcel PROVE Cardinality(Ids(p)') = Len(requests'[p])
    BY DEF RowsAreCounted
  <2>1. CASE p \in Changed(h)
    <3>1. PICK k \in 1 .. n : Ids(p)' = Ids(p) \cup {Len(queue) + k}
      BY <1>8, <2>1
    <3>2. Len(queue) + k \notin Ids(p)
      BY <1>6, <1>10
    <3>3. Cardinality(Ids(p)') = Cardinality(Ids(p)) + 1
      BY <1>10, <3>1, <3>2, FS_AddElement
    <3>4. Len(requests'[p]) = Len(requests[p]) + 1
      BY <1>5, <1>11, <2>1
    <3> QED
      BY <3>3, <3>4 DEF RowsAreCounted
  <2>2. CASE p \notin Changed(h)
    BY <1>5, <1>9, <2>2 DEF RowsAreCounted
  <2> QED
    BY <2>1, <2>2
<1>18. \A g \in Handler, p \in Parcel : g # h => Saving(g, p)' = Saving(g, p)
  <2>1. Turn(h)
    BY DEF InsertRequests, Turn, HandlerStep
  <2> QED
    BY <1>1, <2>1, OthersStandStill DEF OthersStand, Saving, Changed
<1>13. LastIsTold'
  <2> SUFFICES ASSUME NEW p \in Parcel, OnItsWay(p), \A g \in Handler : ~Saving(g, p)'
               PROVE  /\ \E i \in Ids(p)' : queue'[i].wanted /\ \A j \in Ids(p)' : j <= i
                      /\ Same(requests'[p][Len(requests'[p])], parcel[p])
    BY <1>4 DEF LastIsTold, OnItsWay
  <2>1. CASE p \in Changed(h)
    <3>1. PICK k \in 1 .. n : order[k] = p /\ Ids(p)' = Ids(p) \cup {Len(queue) + k}
      BY <1>8, <2>1
    <3>2. Same(copy[h][p], parcel[p])
      BY <1>4, <2>1 DEF CopiesAreSaved, Saving
    <3>3. copy[h][p].status # "CREATED"
      BY <1>1, <3>2, SameButSync DEF OnItsWay, TypeOK
    <3>4. queue'[Len(queue) + k].wanted
      BY <1>3, <3>1, <3>3 DEF Inserts
    <3>5. \A j \in Ids(p)' : j <= Len(queue) + k
      BY <1>6, <1>10, <3>1
    <3>6. requests'[p][Len(requests'[p])] = copy[h][p]
      BY <1>5, <1>11, <2>1
    <3> QED
      BY <3>1, <3>2, <3>4, <3>5, <3>6
  <2>2. CASE p \notin Changed(h)
    <3>4. \A g \in Handler : ~Saving(g, p)
      BY <1>18, <2>2 DEF Saving
    <3>1. PICK i \in Ids(p) : queue[i].wanted /\ \A j \in Ids(p) : j <= i
      BY <3>4 DEF LastIsTold
    <3>2. queue'[i] = queue[i]
      BY <1>3 DEF Inserts, Ids
    <3>3. requests'[p] = requests[p] /\ Same(requests[p][Len(requests[p])], parcel[p])
      BY <1>5, <2>2, <3>4 DEF LastIsTold
    <3> QED
      BY <1>9, <2>2, <3>1, <3>2, <3>3
  <2> QED
    BY <2>1, <2>2
<1>14. CopiesAreSaved'
  <2> SUFFICES ASSUME NEW g \in Handler, NEW p \in Parcel, Saving(g, p)'
               PROVE  Same(copy[g][p], parcel[p])
    BY <1>4 DEF CopiesAreSaved
  <2>1. g # h
    BY <1>4 DEF Saving
  <2> QED
    BY <1>18, <2>1 DEF CopiesAreSaved
<1>15. Push!Delivered' = Push!Delivered
  BY <1>4 DEF Push!Delivered, Push!Sent
<1>16. SentTypes' /\ ChunkIsSent'
  BY <1>4, <1>6, <1>15 DEF SentTypes, ChunkIsSent, Push!Chunk
<1>17. WantedIsSent'
  <2> SUFFICES ASSUME NEW i \in DOMAIN queue', queue'[i].wanted
               PROVE  i \in outbox' \/ i \in Push!Delivered
    BY <1>15 DEF WantedIsSent
  <2>1. CASE i \in DOMAIN queue
    BY <1>3, <2>1 DEF Inserts, WantedIsSent
  <2>2. CASE i \notin DOMAIN queue
    BY <1>3, <1>6, <2>2 DEF Inserts
  <2> QED
    BY <2>1, <2>2
<1> QED
  BY <1>12, <1>13, <1>14, <1>16, <1>17

\* The job changes a parcel only in what is not told.
LEMMA RowsStay ==
  ASSUME ToldInv, UNCHANGED <<unshared, queue>>, parcel' \in [Parcel -> Row],
         \A p \in Parcel : parcel'[p] \in {parcel[p], Synced(parcel[p])}
  PROVE  CopiesAreSaved' /\ RowsAreCounted' /\ LastIsTold'
<1> USE DEF ToldInv
<1>1. TypeOK /\ BatchesAreFinite
  BY DEF FlowInv
<1>2. UNCHANGED <<pc, batch, origin, copy, requests, queue>>
  BY DEF unshared, locals
<1>3. \A p \in Parcel : OnItsWay(p)' = OnItsWay(p)
  BY <1>1, HandlersUntouched
<1>4. \A p \in Parcel : \A row : Same(row, parcel[p]) => Same(row, parcel'[p])
  <2> SUFFICES ASSUME NEW p \in Parcel, NEW row, Same(row, parcel[p]) PROVE Same(row, parcel'[p])
    OBVIOUS
  <2>1. parcel[p] \in Row
    BY <1>1 DEF TypeOK
  <2>2. Synced(Synced(parcel[p])) = Synced(parcel[p])
    BY <2>1, SameRow
  <2>3. CASE parcel'[p] = parcel[p]
    BY <2>3
  <2>4. CASE parcel'[p] = Synced(parcel[p])
    BY <2>2, <2>4 DEF Same
  <2> QED
    BY <2>3, <2>4
<1>5. \A p : Ids(p)' = Ids(p) /\ \A h : Saving(h, p)' = Saving(h, p)
  BY <1>2 DEF Ids, Saving, Changed
<1>6. CopiesAreSaved'
  BY <1>2, <1>4, <1>5 DEF CopiesAreSaved
<1>7. RowsAreCounted'
  BY <1>2, <1>5 DEF RowsAreCounted
<1>8. LastIsTold'
  BY <1>2, <1>3, <1>4, <1>5 DEF LastIsTold
<1> QED
  BY <1>6, <1>7, <1>8

LEMMA SentWith ==
  ASSUME SentTypes, NEW pl \in Platform, NEW S \in SUBSET Nat,
         topic' = [topic EXCEPT ![pl] = Append(@, S)]
  PROVE  Push!Delivered' = Push!Delivered \cup S /\ topic' \in [Platform -> Seq(SUBSET Nat)]
<1>1. topic \in [Platform -> Seq(SUBSET Nat)]
  BY DEF SentTypes
<1>2. \A q \in Platform : q # pl => Push!Sent(q)' = Push!Sent(q)
  BY <1>1 DEF Push!Sent
<1>3. Push!Sent(pl)' = Push!Sent(pl) \cup S
  <2> DEFINE t == topic[pl]
  <2>1. t \in Seq(SUBSET Nat) /\ topic'[pl] = Append(t, S)
    BY <1>1
  <2> HIDE DEF t
  <2>2. /\ DOMAIN Append(t, S) = DOMAIN t \cup {Len(t) + 1}
        /\ \A n \in DOMAIN t : Append(t, S)[n] = t[n]
        /\ Append(t, S)[Len(t) + 1] = S
    BY <2>1
  <2>3. UNION {Append(t, S)[n] : n \in DOMAIN Append(t, S)}
          = (UNION {t[n] : n \in DOMAIN t}) \cup S
    BY <2>2
  <2> QED
    BY <2>1, <2>3 DEF Push!Sent, t
<1>4. topic' \in [Platform -> Seq(SUBSET Nat)]
  BY <1>1
<1> QED
  BY <1>2, <1>3, <1>4 DEF Push!Delivered

LEMMA AdministerTold ==
  ASSUME ToldInv, FlowInv', Apart', NEW r \in Run, Administer(r)
  PROVE  ToldInv'
<1> USE DEF ToldInv
<1>1. parcel' = parcel /\ UNCHANGED unshared /\ UNCHANGED <<queue, outbox, topic>>
  BY DEF Administer, Push!FindRequests, Push!ReadConfigs, Push!EndRun, Push!tables
<1>2. TypeOK /\ JobTypes
  BY DEF FlowInv
<1>3. CopiesAreSaved' /\ RowsAreCounted' /\ LastIsTold'
  BY <1>1, <1>2, RowsStay DEF TypeOK
<1>4. Push!Delivered' = Push!Delivered
  BY <1>1 DEF Push!Delivered, Push!Sent
<1>5. SentTypes' /\ WantedIsSent'
  BY <1>1, <1>4 DEF SentTypes, WantedIsSent
<1>6. ChunkIsSent'
  <2> SUFFICES ASSUME NEW q \in Run, NEW x \in Platform,
                      worker'[q][x] \in {"logging", "deleting", "syncing"}
               PROVE  Push!Chunk(q, x)' \subseteq Push!Delivered
    BY <1>4 DEF ChunkIsSent
  <2>1. worker[q][x] = worker'[q][x] /\ rest'[q][x] = rest[q][x]
    <3>1. CASE Push!FindRequests(r)
      <4>1. PICK B : /\ rest' = [rest EXCEPT ![r] = [pl \in Platform |-> Push!For(pl, B)]]
                     /\ worker' = [worker EXCEPT ![r] = [pl \in Platform |->
                          IF Push!For(pl, B) = {} THEN "idle" ELSE "reading"]]
        BY <3>1 DEF Push!FindRequests
      <4>2. q # r
        BY <1>2, <4>1 DEF JobTypes
      <4> QED
        BY <1>2, <4>1, <4>2 DEF JobTypes
    <3>2. CASE Push!ReadConfigs(r) \/ Push!EndRun(r)
      BY <1>2, <3>2 DEF Push!ReadConfigs, Push!EndRun, Push!Idle, JobTypes
    <3> QED
      BY <3>1, <3>2 DEF Administer
  <2>2. Push!Chunk(q, x)' = Push!Chunk(q, x)
    BY <2>1 DEF Push!Chunk
  <2> QED
    BY <2>1, <2>2 DEF ChunkIsSent
<1> QED
  BY <1>1, <1>3, <1>5, <1>6

LEMMA WorkTold ==
  ASSUME ToldInv, FlowInv', Apart', NEW r \in Run, NEW pl \in Platform, Work(r, pl)
  PROVE  ToldInv'
<1> USE DEF ToldInv
<1>1. TypeOK /\ JobTypes /\ worker[r][pl] # "discarding"
  BY DEF FlowInv, WorkIsAwaited
<1>2. CopiesAreSaved' /\ RowsAreCounted' /\ LastIsTold'
  <2> DEFINE taken(p) == worker[r][pl] = "syncing" /\ p \in Push!ParcelsOf(Push!Chunk(r, pl))
  <2>1. parcel' = [p \in Parcel |-> IF taken(p) THEN Synced(parcel[p]) ELSE parcel[p]]
    BY DEF Work, Synced
  <2> HIDE DEF taken
  <2>2. parcel' \in [Parcel -> Row] /\ \A p \in Parcel : parcel'[p] \in {parcel[p], Synced(parcel[p])}
    BY <1>1, <2>1, SyncedRow DEF TypeOK
  <2>3. UNCHANGED <<unshared, queue>>
    BY DEF Work, Push!WorkerAction, Push!Discard, Push!RemoveUnwanted, Push!PushMessage,
           Push!InsertLog, Push!DeleteRequests, Push!SetSync, Push!tables
  <2> QED
    BY <2>2, <2>3, RowsStay
<1>3. queue' = queue
  BY DEF Work, Push!WorkerAction, Push!Discard, Push!RemoveUnwanted, Push!PushMessage,
         Push!InsertLog, Push!DeleteRequests, Push!SetSync, Push!tables
<1>4. Push!Chunk(r, pl) \subseteq DOMAIN queue /\ DOMAIN queue \subseteq Nat
  BY <1>1 DEF JobTypes, Push!Chunk, Push!Oldest
<1>5. CASE Push!PushMessage(r, pl)
  <2>1. topic' = [topic EXCEPT ![pl] = Append(@, Push!Chunk(r, pl))] /\ UNCHANGED <<outbox, rest>>
    BY <1>5 DEF Push!PushMessage, Push!tables
  <2>2. worker' = [worker EXCEPT ![r][pl] = "logging"]
    BY <1>5 DEF Push!PushMessage, Push!Goto
  <2>3. /\ Push!Delivered' = Push!Delivered \cup Push!Chunk(r, pl)
        /\ topic' \in [Platform -> Seq(SUBSET Nat)]
    <3>1. Push!Chunk(r, pl) \in SUBSET Nat
      BY <1>4
    <3> QED
      BY <2>1, <3>1, SentWith
  <2>4. SentTypes' /\ WantedIsSent'
    BY <1>3, <1>4, <2>1, <2>3 DEF SentTypes, WantedIsSent
  <2>5. \A q \in Run, x \in Platform : Push!Chunk(q, x)' = Push!Chunk(q, x)
    BY <2>1 DEF Push!Chunk
  <2>6. \A q \in Run, x \in Platform : <<q, x>> # <<r, pl>> => worker'[q][x] = worker[q][x]
    BY <1>1, <2>2 DEF JobTypes
  <2>7. ChunkIsSent'
    BY <2>3, <2>5, <2>6 DEF ChunkIsSent
  <2> QED
    BY <1>2, <2>4, <2>7
<1>6. CASE ~Push!PushMessage(r, pl)
  <2>1. Push!Delivered' = Push!Delivered /\ topic' = topic
    BY <1>6 DEF Work, Push!WorkerAction, Push!Discard, Push!RemoveUnwanted, Push!InsertLog,
         Push!DeleteRequests, Push!SetSync, Push!Delivered, Push!Sent
  <2>2. WantedIsSent'
    <3> SUFFICES ASSUME NEW i \in DOMAIN queue, queue[i].wanted, i \notin outbox'
                 PROVE  i \in Push!Delivered
      BY <1>3, <2>1 DEF WantedIsSent
    <3>1. CASE i \notin outbox
      BY <3>1 DEF WantedIsSent
    <3>2. CASE Push!DeleteRequests(r, pl) /\ i \in outbox
      <4>1. i \in Push!Chunk(r, pl) /\ worker[r][pl] = "deleting"
        BY <3>2 DEF Push!DeleteRequests, Push!Goto
      <4> QED
        BY <4>1 DEF ChunkIsSent
    <3>3. CASE ~Push!DeleteRequests(r, pl) /\ i \in outbox
      BY <1>1, <1>6, <3>3 DEF Work, Push!WorkerAction, Push!Discard, Push!RemoveUnwanted,
           Push!InsertLog, Push!SetSync, Push!Drop, Push!tables, Push!Goto, Push!Wanted
    <3> QED
      BY <3>1, <3>2, <3>3
  <2>3. ChunkIsSent'
    <3> SUFFICES ASSUME NEW q \in Run, NEW x \in Platform,
                        worker'[q][x] \in {"logging", "deleting", "syncing"}
                 PROVE  Push!Chunk(q, x)' \subseteq Push!Delivered
      BY <2>1 DEF ChunkIsSent
    <3>1. worker[q][x] \in {"logging", "deleting", "syncing"} /\ rest'[q][x] = rest[q][x]
      BY <1>1, <1>6 DEF Work, JobTypes, Push!WorkerAction, Push!Discard, Push!RemoveUnwanted,
           Push!InsertLog, Push!DeleteRequests, Push!SetSync, Push!Goto
    <3>2. Push!Chunk(q, x)' = Push!Chunk(q, x)
      BY <3>1 DEF Push!Chunk
    <3> QED
      BY <3>1, <3>2 DEF ChunkIsSent
  <2> QED
    BY <1>2, <1>3, <2>1, <2>2, <2>3 DEF SentTypes
<1> QED
  BY <1>5, <1>6

LEMMA ToldStays ==
  ASSUME ToldInv, [FlowNext /\ Apart']_flowVars
  PROVE  ToldInv'
<1>1. FlowInv'
  BY FlowKeeps DEF ToldInv
<1>2. CASE UNCHANGED flowVars
  <2>1. UNCHANGED <<pc, batch, origin, copy, requests, parcel, queue, outbox, worker, rest, topic>>
    BY <1>2 DEF flowVars, vars, database, locals, outboxVars, jobVars
  <2>2. Push!Delivered' = Push!Delivered
    BY <2>1 DEF Push!Delivered, Push!Sent
  <2>3. \A r \in Run, pl \in Platform : Push!Chunk(r, pl)' = Push!Chunk(r, pl)
    BY <2>1 DEF Push!Chunk
  <2>4. CopiesAreSaved' /\ RowsAreCounted' /\ LastIsTold'
    BY <2>1 DEF ToldInv, CopiesAreSaved, RowsAreCounted, LastIsTold, Ids, Saving, Changed, OnItsWay
  <2>5. SentTypes' /\ ChunkIsSent' /\ WantedIsSent'
    BY <2>1, <2>2, <2>3 DEF ToldInv, SentTypes, ChunkIsSent, WantedIsSent
  <2>6. Apart'
    BY <2>1 DEF ToldInv, Apart
  <2> QED
    BY <1>1, <2>4, <2>5, <2>6 DEF ToldInv
<1>3. ASSUME Apart', NEW g \in Handler, Call(g) \/ Continue(g) \/ InsertRequests(g) PROVE ToldInv'
  BY <1>1, <1>3, HandlerTold, RequestTold
<1>4. ASSUME Apart', NEW r \in Run, Administer(r) PROVE ToldInv'
  BY <1>1, <1>4, AdministerTold
<1>5. ASSUME Apart', NEW r \in Run, NEW pl \in Platform, Work(r, pl) PROVE ToldInv'
  BY <1>1, <1>5, WorkTold
<1> QED
  BY <1>2, <1>3, <1>4, <1>5 DEF FlowNext

LEMMA ToldIsKnown == ASSUME ToldInv PROVE PlatformKnowsParcel
<1> USE DEF ToldInv
<1> SUFFICES ASSUME Settled, NEW p \in Parcel, OnItsWay(p)
             PROVE  \E i \in Told(p) : /\ \A j \in Told(p) : j <= i
                                       /\ RowOf(i) = [parcel[p] EXCEPT !.sync = RowOf(i).sync]
  BY DEF PlatformKnowsParcel, OnItsWay
<1>1. TypeOK /\ JobTypes
  BY DEF FlowInv
<1>2. (\A h \in Handler : ~Saving(h, p)) /\ outbox = {}
  BY DEF Settled, Saving
<1>3. PICK i \in Ids(p) : queue[i].wanted /\ \A j \in Ids(p) : j <= i
  BY <1>2 DEF LastIsTold
<1>4. i \in Told(p)
  BY <1>2, <1>3 DEF WantedIsSent, Told, Ids
<1>5. \A j \in Told(p) : j <= i
  BY <1>3 DEF Told, Ids, SentTypes
<1>6. RowOf(i) = requests[p][Len(requests[p])]
  <2>1. queue[i].parcel = p
    BY <1>3 DEF Ids
  <2>2. {j \in 1 .. i : queue[j].parcel = p} = Ids(p)
    BY <1>1, <1>3 DEF Ids, JobTypes
  <2> QED
    BY <2>1, <2>2 DEF RowOf, RowsAreCounted
<1>7. requests[p][Len(requests[p])] \in Row
  <2>1. requests[p] \in Seq(Row)
    BY <1>1 DEF TypeOK
  <2>2. IsFiniteSet(Ids(p))
    <3>1. Ids(p) \subseteq 1 .. Len(queue) /\ Len(queue) \in Nat
      BY <1>1 DEF Ids, JobTypes
    <3>2. IsFiniteSet(1 .. Len(queue))
      BY <3>1, FS_Interval
    <3> QED
      BY <3>1, <3>2, FS_Subset
  <2>3. Cardinality(Ids(p)) # 0
    BY <1>3, <2>2, FS_EmptySet
  <2>4. Len(requests[p]) # 0
    BY <2>3 DEF RowsAreCounted
  <2> QED
    BY <2>1, <2>4
<1>8. parcel[p] \in Row /\ Same(requests[p][Len(requests[p])], parcel[p])
  BY <1>1, <1>2 DEF LastIsTold, TypeOK
<1>9. RowOf(i) = [parcel[p] EXCEPT !.sync = RowOf(i).sync]
  BY <1>6, <1>7, <1>8, SameButSync
<1> QED
  BY <1>4, <1>5, <1>9

\* As long as no two handlers are at work on one parcel, when all is done, what a platform
\* was told last of a parcel on its way is what the parcel says, however many executions of
\* the job overlap.
THEOREM PlatformAlwaysKnows == ApartFlowSpec => []PlatformKnowsParcel
<1>1. FlowInit => ToldInv
  BY ToldStarts
<1>2. ToldInv /\ [FlowNext /\ Apart']_flowVars => ToldInv'
  BY ToldStays
<1>3. ToldInv => PlatformKnowsParcel
  BY ToldIsKnown
<1> QED
  BY <1>1, <1>2, <1>3, PTL DEF ApartFlowSpec
=============================================================================
