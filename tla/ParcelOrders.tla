----------------------------- MODULE ParcelOrders -----------------------------
(***************************************************************************)
(* Orders of parcels.  An order is created at a carrier, which answers     *)
(* with tracking numbers; the order is logged, its numbers are looked up   *)
(* in the pool of numbers that were given before, its parcels are saved,   *)
(* and then, without anyone waiting for it, the numbers go into the pool   *)
(* and the label goes to S3 and into ord_parcel_label.  Parcels may also   *)
(* be imported, and old parcels are archived from outside, so that only    *)
(* the pool still knows their numbers.                                     *)
(*                                                                         *)
(* Orders run in several processes at once.  The id of a row is the pair   *)
(* of the order that saved it and its number, for an order saves once.     *)
(***************************************************************************)
EXTENDS Integers, FiniteSets

CONSTANTS
  Number,       \* tracking numbers
  Order,        \* requests for parcels, each of which runs once
  KindOf,       \* who answers an order: a carrier, CAINIAO, or nobody (an import)
  Format,       \* formats of labels
  FormatOf,     \* the format each order asks for
  Queued,       \* the orders whose label a Bull queue uploads (createCn)
  MaxParcels,   \* bound: parcels of an order
  MaxFailures   \* bound: failed calls and restarts

Pdf == "pdf"
Kind == {"carrier", "cainiao", "import"}

ASSUME NumberAssumption == IsFiniteSet(Number)
ASSUME KindAssumption == KindOf \in [Order -> Kind]
ASSUME FormatAssumption == Pdf \in Format /\ FormatOf \in [Order -> Format]
ASSUME QueueAssumption == Queued \subseteq Order
ASSUME BoundAssumption == MaxParcels \in Nat \ {0} /\ MaxFailures \in Nat

VARIABLES
  pc,        \* where each order is
  got,       \* the numbers the carrier has answered with, and the first of them
  rows,      \* all parcels that were ever saved
  hot,       \* those still in ord_parcel_hot; the others have been archived
  pool,      \* tracking_number_pool
  pooling,   \* the orders whose numbers are still to be inserted into the pool
  unpooled,  \* history: the numbers that did not get there
  logged,    \* ord_request_log: the numbers and formats of orders
  upload,    \* where the upload of the label of each order is
  nth,       \* the label it is at
  s3,        \* the labels that are in the file at each path
  labels,    \* ord_parcel_label
  failures

poolVars == <<pool, pooling, unpooled>>
labelVars == <<upload, nth, s3, labels>>
vars == <<pc, got, rows, hot, poolVars, logged, labelVars, failures>>

\* What a carrier answers: a number for each parcel, the first of which names the files.
Answer ==
  {a \in [first : Number, all : SUBSET Number] :
     a.first \in a.all /\ Cardinality(a.all) <= MaxParcels}
NoAnswer == [first |-> "none", all |-> {}]

Row == [order : Order, number : Number]
Step == {"idle", "logging", "checking", "saving", "answered", "rejected"}
UploadStep == {"none", "enqueuing", "putting", "saving", "ended", "failed", "lost"}

\* number.pdf is the zeroth, number-1.zpl the first file of a number.
Path == [number : Number, nth : 0 .. MaxParcels, format : Format]

TypeOK ==
  /\ pc \in [Order -> Step]
  /\ got \in [Order -> Answer \cup {NoAnswer}]
  /\ rows \subseteq Row /\ hot \subseteq rows
  /\ pool \subseteq Number /\ unpooled \subseteq Number
  /\ pooling \subseteq Order
  /\ logged \subseteq [number : Number, format : Format]
  /\ upload \in [Order -> UploadStep]
  /\ nth \in [Order -> 0 .. MaxParcels]
  /\ s3 \in [Path -> SUBSET Row]
  /\ labels \subseteq [row : Row, path : Path]
  /\ failures \in Nat

Init ==
  /\ pc = [o \in Order |-> "idle"]
  /\ got = [o \in Order |-> NoAnswer]
  /\ rows = {} /\ hot = {}
  /\ pool = {} /\ pooling = {} /\ unpooled = {}
  /\ logged = {}
  /\ upload = [o \in Order |-> "none"]
  /\ nth = [o \in Order |-> 0]
  /\ s3 = [p \in Path |-> {}]
  /\ labels = {}
  /\ failures = 0

-----------------------------------------------------------------------------
Goto(o, from, to) ==
  /\ pc[o] = from
  /\ pc' = [pc EXCEPT ![o] = to]

Fail == failures < MaxFailures /\ failures' = failures + 1

Given(o) == got[o].all
RowsOf(o, N) == {[order |-> o, number |-> n] : n \in N}
HotNumbers == {r.number : r \in hot}

\* CAINIAO is not looked up in the pool.
Checked(o) == KindOf[o] = "carrier"

\* The order is valid, and the carrier has answered.  CAINIAO answers with one parcel.
CreateAtCarrier(o, a) ==
  /\ KindOf[o] # "import"
  /\ KindOf[o] = "cainiao" => a.all = {a.first}
  /\ Goto(o, "idle", "logging")
  /\ got' = [got EXCEPT ![o] = a]
  /\ UNCHANGED <<rows, hot, poolVars, logged, labelVars, failures>>

\* The order is written to the log as a success, before its parcels are saved.
LogRequest(o) ==
  /\ Goto(o, "logging", IF Checked(o) THEN "checking" ELSE "saving")
  /\ logged' = logged \cup {[number |-> got[o].first, format |-> FormatOf[o]]}
  /\ UNCHANGED <<got, rows, hot, poolVars, labelVars, failures>>

\* Wrong: looks in the table that the unique index protects anyway.
CheckHot(o) ==
  /\ Goto(o, "checking", IF Given(o) \cap HotNumbers = {} THEN "saving" ELSE "rejected")
  /\ UNCHANGED <<got, rows, hot, poolVars, logged, labelVars, failures>>

CheckPool(o) ==
  /\ Goto(o, "checking", IF Given(o) \cap pool = {} THEN "saving" ELSE "rejected")
  /\ UNCHANGED <<got, rows, hot, poolVars, logged, labelVars, failures>>

Saved(o) ==
  /\ rows' = rows \cup RowsOf(o, Given(o))
  /\ hot' = hot \cup RowsOf(o, Given(o))
  /\ pooling' = pooling \cup {o}
  /\ upload' = [upload EXCEPT ![o] = IF o \in Queued THEN "enqueuing" ELSE "putting"]

\* Wrong: the rows the unique index refuses are left out.
SaveParcelsOrIgnore(o) ==
  /\ Goto(o, "saving", "answered")
  /\ rows' = rows \cup RowsOf(o, Given(o) \ HotNumbers)
  /\ hot' = hot \cup RowsOf(o, Given(o) \ HotNumbers)
  /\ pooling' = pooling \cup {o}
  /\ upload' = [upload EXCEPT ![o] = IF o \in Queued THEN "enqueuing" ELSE "putting"]
  /\ UNCHANGED <<got, pool, unpooled, logged, nth, s3, labels, failures>>

\* All parcels of the order, or none when the unique index refuses one of them.  An order
\* that CAINIAO repeats is answered all the same, but has no id and uploads no label.
SaveParcels(o) ==
  /\ IF Given(o) \cap HotNumbers = {}
     THEN Goto(o, "saving", "answered") /\ Saved(o)
     ELSE /\ Goto(o, "saving", IF KindOf[o] = "cainiao" THEN "answered" ELSE "rejected")
          /\ UNCHANGED <<rows, hot, pooling, upload>>
  /\ UNCHANGED <<got, pool, unpooled, logged, nth, s3, labels, failures>>

\* Wrong: the error is taken for the repetition of an order.
FailOrderSilently(o) ==
  /\ Fail
  /\ pc[o] \in {"logging", "checking", "saving"}
  /\ Goto(o, pc[o], "answered")
  /\ UNCHANGED <<got, rows, hot, poolVars, logged, labelVars>>

\* A query fails, and the caller is told so.
FailOrder(o) ==
  /\ Fail
  /\ pc[o] \in {"logging", "checking", "saving"}
  /\ Goto(o, pc[o], "rejected")
  /\ UNCHANGED <<got, rows, hot, poolVars, logged, labelVars>>

\* Wrong: only the first number of the order.
InsertFirstIntoPool(o) ==
  /\ o \in pooling
  /\ pool' = pool \cup {got[o].first}
  /\ pooling' = pooling \ {o}
  /\ UNCHANGED <<pc, got, rows, hot, unpooled, logged, labelVars, failures>>

InsertIntoPool(o) ==
  /\ o \in pooling
  /\ pool' = pool \cup Given(o)
  /\ pooling' = pooling \ {o}
  /\ UNCHANGED <<pc, got, rows, hot, unpooled, logged, labelVars, failures>>

FailPool(o) ==
  /\ Fail
  /\ o \in pooling
  /\ unpooled' = unpooled \cup Given(o)
  /\ pooling' = pooling \ {o}
  /\ UNCHANGED <<pc, got, rows, hot, pool, logged, labelVars>>

\* Parcels from outside, as far as their numbers are free; the pool is not asked.
ImportParcels(o, N) ==
  /\ KindOf[o] = "import"
  /\ Goto(o, "idle", "answered")
  /\ rows' = rows \cup RowsOf(o, N \ HotNumbers)
  /\ hot' = hot \cup RowsOf(o, N \ HotNumbers)
  /\ UNCHANGED <<got, poolVars, logged, labelVars, failures>>

Uploading(o) == upload[o] \in {"enqueuing", "putting", "saving"}

\* External: the parcels of an order leave the table after months, when nothing of the
\* order is under way any more, nor any other order that began before.
Archive(o) ==
  /\ o \notin pooling
  /\ ~Uploading(o)
  /\ \A q \in Order : pc[q] \in {"idle", "answered", "rejected"}
  /\ hot' = {r \in hot : r.order # o}
  /\ hot' # hot
  /\ UNCHANGED <<pc, got, rows, poolVars, logged, labelVars, failures>>

-----------------------------------------------------------------------------
Upload(o, from, to) ==
  /\ upload[o] = from
  /\ upload' = [upload EXCEPT ![o] = to]

IsPdf(o) == FormatOf[o] = Pdf
Single(o) == Given(o) = {got[o].first}
FirstRow(o) == [order |-> o, number |-> got[o].first]
Unlabelled(R) == \A l \in labels : l.row \notin R

Enqueue(o) ==
  /\ Upload(o, "enqueuing", "putting")
  /\ UNCHANGED <<pc, got, rows, hot, poolVars, logged, nth, s3, labels, failures>>

\* The labels of a pdf order are merged into one file; of another order, each file of the
\* loop holds the label of the first parcel, for `parcels[0]` is taken every time.
Content(o) == IF IsPdf(o) THEN RowsOf(o, Given(o)) ELSE {FirstRow(o)}

\* Wrong: counts the files from zero.
FileFromZero(o) ==
  [number |-> got[o].first, format |-> FormatOf[o], nth |-> IF IsPdf(o) THEN 0 ELSE nth[o]]

FileOf(o) ==
  [number |-> got[o].first, format |-> FormatOf[o], nth |-> IF IsPdf(o) THEN 0 ELSE nth[o] + 1]

PutLabel(o) ==
  /\ Upload(o, "putting", "saving")
  /\ s3' = [s3 EXCEPT ![FileOf(o)] = Content(o)]
  /\ UNCHANGED <<pc, got, rows, hot, poolVars, logged, nth, labels, failures>>

\* The rows of a pdf order are saved together, unless one is there from an upload before.
SavePdfLabels(o) ==
  /\ IsPdf(o)
  /\ Upload(o, "saving", "ended")
  /\ labels' = IF Unlabelled(RowsOf(o, Given(o)))
               THEN labels \cup {[row |-> r, path |-> FileOf(o)] : r \in RowsOf(o, Given(o))}
               ELSE labels
  /\ UNCHANGED <<pc, got, rows, hot, poolVars, logged, nth, s3, failures>>

\* Another format: the parcel of a single order has no id in the answer, so that its row is
\* refused; of several parcels the first has a row, and the second file is put and its row,
\* which is the row of the first parcel again, refused.
SaveNextLabel(o) ==
  /\ ~IsPdf(o)
  /\ IF Single(o) \/ ~Unlabelled({FirstRow(o)})
     THEN Upload(o, "saving", "ended") /\ UNCHANGED <<nth, labels>>
     ELSE /\ Upload(o, "saving", "putting")
          /\ labels' = labels \cup {[row |-> FirstRow(o), path |-> FileOf(o)]}
          /\ nth' = [nth EXCEPT ![o] = 1]
  /\ UNCHANGED <<pc, got, rows, hot, poolVars, logged, s3, failures>>

\* The error is logged at most, and nobody tries again.
FailUpload(o) ==
  /\ Fail
  /\ Uploading(o)
  /\ Upload(o, upload[o], "failed")
  /\ UNCHANGED <<pc, got, rows, hot, poolVars, logged, nth, s3, labels>>

\* Wrong: labels that a queue uploads are forgotten like the others.
AfterRestartLost(o) == IF Uploading(o) THEN "lost" ELSE upload[o]

\* A label in the queue is uploaded again from its beginning, any other is forgotten.
AfterRestart(o) ==
  IF ~Uploading(o) THEN upload[o]
  ELSE IF o \in Queued /\ upload[o] # "enqueuing" THEN "putting" ELSE "lost"

Restart ==
  /\ Fail
  /\ pc' = [o \in Order |-> IF pc[o] \in {"logging", "checking", "saving"}
                            THEN "rejected" ELSE pc[o]]
  /\ unpooled' = unpooled \cup UNION {Given(o) : o \in pooling}
  /\ pooling' = {}
  /\ upload' = [o \in Order |-> AfterRestart(o)]
  /\ nth' = [o \in Order |-> IF upload[o] \in {"putting", "saving"} THEN 0 ELSE nth[o]]
  /\ UNCHANGED <<got, rows, hot, pool, logged, s3, labels>>

-----------------------------------------------------------------------------
UploadLabel(o) == Enqueue(o) \/ PutLabel(o) \/ SavePdfLabels(o) \/ SaveNextLabel(o)

Next ==
  \/ \E o \in Order, a \in Answer : CreateAtCarrier(o, a)
  \/ \E o \in Order, N \in SUBSET Number \ {{}} : ImportParcels(o, N)
  \/ \E o \in Order :
       \/ LogRequest(o) \/ CheckPool(o) \/ SaveParcels(o) \/ FailOrder(o)
       \/ InsertIntoPool(o) \/ FailPool(o) \/ Archive(o)
       \/ UploadLabel(o) \/ FailUpload(o)
  \/ Restart

Spec == Init /\ [][Next]_vars

\* The upload of a label goes on, and Bull takes a job again whose process has stopped.
FairSpec == Spec /\ \A o \in Order : WF_vars(UploadLabel(o))

-----------------------------------------------------------------------------
Ordered(r) == KindOf[r.order] # "import"

\* A number is given to one parcel only, even after that parcel has been archived, although
\* the number is looked up long before it is inserted and nobody waits for the insert:
\* an order that was checked saves no number of an earlier order, unless that never got
\* into the pool.
NumberGivenOnce ==
  [][\A r \in rows' \ rows, q \in rows :
       Checked(r.order) /\ Ordered(q) /\ q.number = r.number => q.number \in unpooled]_vars

\* An order is answered only if there is a parcel for each of its numbers, its own or, for
\* an order that CAINIAO repeats, an earlier one.
AnsweredIsSaved ==
  \A o \in Order : pc[o] = "answered" => Given(o) \subseteq {r.number : r \in rows}

\* The file that a label row names holds the label of that parcel as long as the parcel is
\* not archived: no other order that was given its number writes over it.
LabelHoldsParcel ==
  \A l \in labels : l.row \in hot => l.row \in s3[l.path]

\* getLabelUrls: the path in the label row, or else one made of the number and the format
\* that a log of the number has, which is pdf when there is none.
FormatsLogged(n) == {x.format : x \in {y \in logged : y.number = n}}
Extensions(n) == IF FormatsLogged(n) = {} THEN {Pdf} ELSE FormatsLogged(n)
PathFor(n, e) == [number |-> n, format |-> e, nth |-> IF e = Pdf THEN 0 ELSE 1]
PathsServed(r) ==
  LET stored == {l \in labels : l.row = r}
  IN IF stored # {} THEN {l.path : l \in stored} ELSE {PathFor(r.number, e) : e \in Extensions(r.number)}

UploadedAlone(o) ==
  /\ upload[o] = "ended"
  /\ IsPdf(o) \/ Single(o)
  /\ \A q \in Order \ {o} : Given(q) \cap Given(o) = {}

\* Once the upload has ended, getLabelUrls finds the file with the label of the parcel,
\* with and without a label row, unless a carrier gave the number to two orders.  It holds
\* of pdf labels and of orders of a single parcel.
LabelServed ==
  \A r \in hot : UploadedAlone(r.order) => \A p \in PathsServed(r) : r \in s3[p]

\* A label that is in the queue gets its file and its rows, though the process stops in the
\* middle, unless a call of the upload fails.
QueuedLabelArrives ==
  \A o \in Queued :
    upload[o] = "putting" /\ IsPdf(o) ~>
      upload[o] = "failed" \/ \A r \in RowsOf(o, Given(o)) : \E l \in labels : l.row = r
=============================================================================
