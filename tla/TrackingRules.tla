---------------------------- MODULE TrackingRules ----------------------------
(***************************************************************************)
(* The rules by which one tracking changes the row of its parcel: the body *)
(* of the loop of TrackingHandlerNewService.handleTracing, and the order   *)
(* in which handleTracking feeds the trackings of a parcel to that loop.   *)
(*                                                                         *)
(* A date is a natural number, 0 standing for a null column.  A tracking   *)
(* is its parcel, its timestamp and its event code; event codes are        *)
(* numbers because the code sorts by them.                                 *)
(***************************************************************************)
EXTENDS Integers

CONSTANTS
  Parcel,     \* tracking numbers
  Event,      \* event codes of the carriers, ordered as the code orders them
  MaxTime     \* the latest timestamp of a tracking

ASSUME EventAssumption == Event \subseteq Nat
ASSUME TimeAssumption == MaxTime \in Nat \ {0}

NoDate == 0
NoAging == -1
NoStatus == ""     \* no event row, or one whose parcelStatus is empty

ParcelStatus ==
  {"UNKNOWN", "CREATED", "BEFORE_TRANSIT", "DELIVERING", "RETURNED", "ARRIVED",
   "APPOINTED", "STOPPED", "LOST", "DELETED", "REMAINING"}

\* Statuses of an event that leave everything but the last* columns alone.
OnlyLast == {"REMAINING", "CREATED"}

\* Statuses of an event that do not put the parcel on the carrier's network.
NotTransferring == {"CREATED", "UNKNOWN", "BEFORE_TRANSIT", "DELETED", NoStatus}

FinalStatus == {"ARRIVED", "RETURNED", "STOPPED", "LOST"}

Date == 0 .. MaxTime

Tracking == [parcel : Parcel, ts : 1 .. MaxTime, event : Event]

NoLast == [ts |-> NoDate, event |-> 0]

\* The columns of ord_parcel that tracking writes.  last stands for
\* lastEvent, lastDescription and lastTimestamps, which are always set together.
Row == [status : ParcelStatus, last : [ts : Date, event : Nat],
        transferredAt : Date, arrivedAt : Date, returnedAt : Date, aging : Int,
        isArrived : BOOLEAN, isReturned : BOOLEAN, isAppointed : BOOLEAN,
        isLost : BOOLEAN, isFinished : BOOLEAN, sync : BOOLEAN]

NewRow == [status |-> "CREATED", last |-> NoLast,
           transferredAt |-> NoDate, arrivedAt |-> NoDate, returnedAt |-> NoDate,
           aging |-> NoAging,
           isArrived |-> FALSE, isReturned |-> FALSE, isAppointed |-> FALSE,
           isLost |-> FALSE, isFinished |-> FALSE, sync |-> FALSE]

-----------------------------------------------------------------------------

\* Wrong variants of the rules, each a slip the code could have made; they are
\* here to see that the properties notice.
EarlierDateKeepsFirst(d1, d2) == IF d1 # NoDate THEN d1 ELSE d2
EarlierDateTakesNewest(d1, d2) == IF d2 # NoDate THEN d2 ELSE d1

EarlierDate(d1, d2) ==
  IF d1 # NoDate /\ d2 # NoDate
  THEN IF d1 < d2 THEN d1 ELSE d2
  ELSE IF d1 # NoDate THEN d1 ELSE d2

\* Trackings are taken by timestamp ascending, then by event code descending.
Precedes(t, u) == t.ts < u.ts \/ (t.ts = u.ts /\ t.event >= u.event)

IsFirst(t, S) == t \in S /\ \A u \in S : Precedes(t, u)

LastOf(t) == [ts |-> t.ts, event |-> t.event]

\* Wrong: the arrival alone does not count as being on the network.
FollowEventArrivalOffNetwork(row, t, s) ==
  [row EXCEPT !.status = s, !.last = LastOf(t),
              !.arrivedAt = IF s = "ARRIVED" THEN EarlierDate(@, t.ts) ELSE @,
              !.aging = IF s = "ARRIVED" THEN EarlierDate(row.arrivedAt, t.ts) - row.transferredAt
                        ELSE @,
              !.isArrived = @ \/ s = "ARRIVED",
              !.isFinished = @ \/ s \in FinalStatus]

\* Wrong: isFinished looks at the status the parcel had before.
FollowEventFinishedLate(row, t, s) ==
  [row EXCEPT !.status = IF s = NoStatus THEN @ ELSE s, !.last = LastOf(t),
              !.isLost = @ \/ s = "LOST",
              !.isFinished = @ \/ row.status \in FinalStatus]

\* Every other event sets the status (an empty one keeps it), the milestone its
\* status names, and isFinished once the status is final.
FollowEvent(row, t, s) ==
  LET status == IF s = NoStatus THEN row.status ELSE s
      transferred == IF s \in NotTransferring THEN row.transferredAt
                     ELSE EarlierDate(row.transferredAt, t.ts)
      arrived == IF s = "ARRIVED" THEN EarlierDate(row.arrivedAt, t.ts)
                 ELSE row.arrivedAt
  IN [row EXCEPT
        !.status = status,
        !.last = LastOf(t),
        !.transferredAt = transferred,
        !.arrivedAt = arrived,
        !.returnedAt = IF s = "RETURNED" THEN EarlierDate(@, t.ts) ELSE @,
        !.aging = IF s = "ARRIVED" THEN arrived - transferred ELSE @,
        !.isArrived = @ \/ s = "ARRIVED",
        !.isReturned = @ \/ s = "RETURNED",
        !.isAppointed = @ \/ s = "APPOINTED",
        !.isLost = @ \/ s = "LOST",
        !.isFinished = @ \/ status \in FinalStatus]

\* Wrong: a finished parcel is not followed any further.
ApplyTrackingUnlessFinished(row, t, s) ==
  IF row.isFinished THEN row ELSE FollowEvent(row, t, s)

\* Wrong: milestones take the time of the handling, not of the tracking.
ApplyTrackingNow(row, t, s) == FollowEvent(row, [t EXCEPT !.ts = MaxTime], s)

\* One turn of the loop: tracking t, whose event has parcel status s, on row.
ApplyTracking(row, t, s) ==
  IF s \in OnlyLast THEN [row EXCEPT !.last = LastOf(t)] ELSE FollowEvent(row, t, s)
=============================================================================
