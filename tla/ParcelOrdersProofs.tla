-------------------------- MODULE ParcelOrdersProofs --------------------------
(***************************************************************************)
(* What orders promise, whichever overlap, fail or stop: an answered order *)
(* has parcels, a number the pool was asked about is not given again, and  *)
(* the label of a parcel is in the file its row names.                     *)
(*                                                                         *)
(* What makes it so is the unique index on the numbers of hot parcels, and *)
(* that the parcels of an order stay hot as long as its numbers are on     *)
(* their way into the pool or its label is on its way into its file.       *)
(*                                                                         *)
(* That a label is found where getLabelUrls looks needs a second invariant *)
(* (Found): the request log is written by the order itself and before its  *)
(* parcels, a pdf has a row for all parcels of the order or for none, and  *)
(* a single label that is no pdf is in the file its format leads to.       *)
(***************************************************************************)
EXTENDS ParcelOrders, FiniteSetTheorems, TLAPS

Imports(o) == KindOf[o] = "import"
OwnRows(o) == RowsOf(o, Given(o))

\* An order has an answer from the moment the carrier gave one.
AnswerIsKept ==
  \A o \in Order :
    /\ Imports(o) => pc[o] \in {"idle", "answered"}
    /\ Imports(o) \/ pc[o] = "idle" => got[o] = NoAnswer
    /\ ~Imports(o) /\ pc[o] # "idle" => got[o] \in Answer
    /\ KindOf[o] = "cainiao" => \A n \in Given(o) : n = got[o].first

\* Rows are saved by orders that are answered, and those of an order all at once.
RowsAreSaved ==
  \A r \in rows :
    /\ pc[r.order] = "answered"
    /\ Ordered(r) => r.number \in Given(r.order)
HotIsUnique == \A r, q \in hot : r.number = q.number => r = q
HotIsWhole == \A r \in hot : Ordered(r) => OwnRows(r.order) \subseteq hot

\* Nothing that is under way is archived.
UnderWay(o) == o \in pooling \/ Uploading(o)
UnderWayIsHot ==
  \A o \in Order : UnderWay(o) => pc[o] = "answered" /\ ~Imports(o) /\ OwnRows(o) \subseteq hot

\* The pool knows the numbers of all orders, or will.
NumbersArePooled ==
  \A q \in rows : Ordered(q) => q.number \in pool \cup unpooled \/ q.order \in pooling
CheckedIsFree ==
  \A o \in Order : pc[o] = "saving" /\ Checked(o) =>
    \A q \in rows : Ordered(q) /\ q.number \in Given(o) => q \in hot \/ q.number \in unpooled

\* Labels are of ordered parcels, in the file of their order.
LabelsAreOwn ==
  \A l \in labels :
    LET o == l.row.order
    IN /\ pc[o] = "answered" /\ ~Imports(o)
       /\ l.row.number \in Given(o) /\ l.path.number = got[o].first
       /\ IsPdf(o) \/ l.row = FirstRow(o)
NextFileIsThere ==
  \A o \in Order : nth[o] # 0 =>
    nth[o] = 1 /\ pc[o] = "answered" /\ ~Single(o) /\ \E l \in labels : l.row = FirstRow(o)
PutIsThere == \A o \in Order : upload[o] = "saving" => s3[FileOf(o)] = Content(o)

IInv ==
  /\ TypeOK /\ AnswerIsKept /\ RowsAreSaved /\ HotIsUnique /\ HotIsWhole /\ UnderWayIsHot
  /\ NumbersArePooled /\ CheckedIsFree /\ LabelsAreOwn /\ NextFileIsThere /\ PutIsThere
  /\ AnsweredIsSaved /\ LabelHoldsParcel

-----------------------------------------------------------------------------
LEMMA InitIInv == Init => IInv
<1> SUFFICES ASSUME Init PROVE IInv
  OBVIOUS
<1>1. TypeOK
  BY BoundAssumption DEF Init, TypeOK, Step, UploadStep, Path
<1>2. /\ AnswerIsKept /\ RowsAreSaved /\ HotIsUnique /\ HotIsWhole
      /\ NumbersArePooled /\ CheckedIsFree /\ LabelsAreOwn /\ NextFileIsThere
      /\ PutIsThere /\ AnsweredIsSaved /\ LabelHoldsParcel
  BY DEF Init, AnswerIsKept, RowsAreSaved, HotIsUnique, HotIsWhole, NumbersArePooled,
         CheckedIsFree, LabelsAreOwn, NextFileIsThere, PutIsThere, AnsweredIsSaved,
         LabelHoldsParcel, Given, NoAnswer
<1>3. UnderWayIsHot
  BY DEF Init, UnderWayIsHot, UnderWay, Uploading
<1> QED
  BY <1>1, <1>2, <1>3 DEF IInv

-----------------------------------------------------------------------------
(* Rows of an order. *)

LEMMA OwnRow ==
  ASSUME NEW o, NEW r
  PROVE  r \in OwnRows(o) <=> \E n \in Given(o) : r = [order |-> o, number |-> n]
BY DEF OwnRows, RowsOf

LEMMA AnsweredOrder ==
  ASSUME IInv, NEW o \in Order, pc[o] # "idle", ~Imports(o)
  PROVE  /\ got[o].first \in Given(o) /\ Given(o) \subseteq Number /\ Cardinality(Given(o)) <= MaxParcels
         /\ OwnRows(o) \subseteq Row /\ FirstRow(o) \in OwnRows(o)
<1>1. got[o] \in Answer
  BY DEF IInv, AnswerIsKept
<1> QED
  BY <1>1 DEF Answer, Given, OwnRows, RowsOf, Row, FirstRow

\* Two orders under way, or with a hot label, name their files by different numbers.
LEMMA FirstIsOwn ==
  ASSUME IInv, NEW o \in Order, NEW p \in Order, got[o].first = got[p].first,
         pc[o] # "idle", ~Imports(o), OwnRows(o) \subseteq hot,
         pc[p] # "idle", ~Imports(p), OwnRows(p) \subseteq hot
  PROVE  o = p
<1>1. FirstRow(o) \in hot /\ FirstRow(p) \in hot
  BY AnsweredOrder
<1>2. FirstRow(o) = FirstRow(p)
  BY <1>1 DEF IInv, HotIsUnique, FirstRow
<1> QED
  BY <1>2 DEF FirstRow

\* The file at which an upload is has a place.
LEMMA FileIsPath ==
  ASSUME IInv, NEW o \in Order, Uploading(o)
  PROVE  FileOf(o) \in Path
<1>1. pc[o] = "answered" /\ ~Imports(o)
  BY DEF IInv, UnderWayIsHot, UnderWay
<1>2. got[o].first \in Number /\ FormatOf[o] \in Format
  BY <1>1, AnsweredOrder, FormatAssumption
<1>3. nth[o] = 0 \/ (nth[o] = 1 /\ ~Single(o))
  BY DEF IInv, NextFileIsThere
<1>4. nth[o] + 1 \in 0 .. MaxParcels
  <2>1. CASE nth[o] = 0
    BY <2>1, BoundAssumption
  <2>2. CASE nth[o] = 1 /\ ~Single(o)
    <3>1. got[o].first \in Given(o) /\ Given(o) \subseteq Number /\ Cardinality(Given(o)) <= MaxParcels
      BY <1>1, AnsweredOrder
    <3>2. IsFiniteSet(Given(o)) /\ Cardinality(Given(o)) \in Nat
      BY <3>1, FS_Subset, FS_CardinalityType, NumberAssumption
    <3>3. Cardinality(Given(o)) # 0
      BY <3>1, <3>2, FS_EmptySet
    <3>4. Cardinality(Given(o)) # 1
      <4> SUFFICES ASSUME Cardinality(Given(o)) = 1 PROVE FALSE
        OBVIOUS
      <4>1. PICK x : Given(o) = {x}
        BY <3>2, FS_Singleton
      <4> QED
        BY <2>2, <3>1, <4>1 DEF Single
    <3>5. Cardinality(Given(o)) >= 2
      BY <3>2, <3>3, <3>4
    <3> QED
      BY <2>2, <3>1, <3>2, <3>5, BoundAssumption
  <2> QED
    BY <1>3, <2>1, <2>2
<1>5. 0 \in 0 .. MaxParcels
  BY BoundAssumption
<1> QED
  BY <1>2, <1>4, <1>5 DEF FileOf, Path

-----------------------------------------------------------------------------
(* An order before its answer. *)

LEMMA OrderMoves ==
  ASSUME IInv, NEW o \in Order, NEW to \in Step \ {"idle", "answered"},
         pc[o] # "answered", pc' = [pc EXCEPT ![o] = to],
         got' \in [Order -> Answer \cup {NoAnswer}],
         \A p \in Order \ {o} : got'[p] = got[p],
         ~Imports(o), got'[o] \in Answer,
         KindOf[o] = "cainiao" => \A n \in got'[o].all : n = got'[o].first,
         to = "saving" /\ Checked(o) =>
           \A q \in rows : Ordered(q) /\ q.number \in got'[o].all => q \in hot \/ q.number \in unpooled,
         failures' \in Nat, logged' \subseteq [number : Number, format : Format],
         UNCHANGED <<rows, hot, pool, pooling, unpooled, upload, nth, s3, labels>>
  PROVE  IInv'
<1>1. TypeOK
  BY DEF IInv
<1>2. /\ pc' \in [Order -> Step] /\ pc'[o] = to
      /\ \A p \in Order \ {o} : pc'[p] = pc[p]
  BY <1>1 DEF TypeOK
<1>3. \A p \in Order : pc[p] = "answered" => p # o /\ pc'[p] = pc[p] /\ got'[p] = got[p]
  BY <1>2
<1>4. TypeOK'
  BY <1>1, <1>2 DEF TypeOK
<1>5. AnswerIsKept'
  BY <1>2 DEF IInv, AnswerIsKept, Given
<1>6. \A r \in rows : r.order \in Order /\ pc'[r.order] = "answered" /\ got'[r.order] = got[r.order]
  BY <1>1, <1>3 DEF IInv, RowsAreSaved, TypeOK, Row
<1>7. RowsAreSaved' /\ HotIsUnique' /\ NumbersArePooled'
  BY <1>6 DEF IInv, RowsAreSaved, HotIsUnique, NumbersArePooled, Given, Ordered
<1>8. HotIsWhole'
  BY <1>1, <1>6 DEF IInv, HotIsWhole, OwnRows, RowsOf, Given, Ordered, TypeOK
<1>9. UnderWayIsHot'
  BY <1>3 DEF IInv, UnderWayIsHot, UnderWay, Uploading, OwnRows, RowsOf, Given
<1>10. CheckedIsFree'
  BY <1>2 DEF IInv, CheckedIsFree, Checked, Ordered, Given
<1>11. \A l \in labels : l.row.order \in Order
  BY <1>1 DEF TypeOK, Row
<1>12. LabelsAreOwn' /\ LabelHoldsParcel'
  BY <1>3, <1>11 DEF IInv, LabelsAreOwn, LabelHoldsParcel, Given, IsPdf, FirstRow
<1>13. NextFileIsThere'
  BY <1>3 DEF IInv, NextFileIsThere, Single, Given, FirstRow
<1>14. PutIsThere'
  <2> SUFFICES ASSUME NEW p \in Order, upload[p] = "saving" PROVE s3[FileOf(p)'] = Content(p)'
    BY DEF PutIsThere
  <2>1. got'[p] = got[p]
    BY <1>3 DEF IInv, UnderWayIsHot, UnderWay, Uploading
  <2> QED
    BY <2>1 DEF IInv, PutIsThere, FileOf, Content, IsPdf, RowsOf, Given, FirstRow
<1>15. AnsweredIsSaved'
  BY <1>2, <1>3 DEF IInv, AnsweredIsSaved, Given
<1> QED
  BY <1>4, <1>5, <1>7, <1>8, <1>9, <1>10, <1>12, <1>13, <1>14, <1>15 DEF IInv

LEMMA CreateStep ==
  ASSUME IInv, NEW o \in Order, NEW a \in Answer, CreateAtCarrier(o, a)
  PROVE  IInv'
<1>1. /\ pc[o] = "idle" /\ pc' = [pc EXCEPT ![o] = "logging"] /\ got' = [got EXCEPT ![o] = a]
      /\ ~Imports(o) /\ (KindOf[o] = "cainiao" => a.all = {a.first})
      /\ UNCHANGED <<rows, hot, pool, pooling, unpooled, upload, nth, s3, labels, logged, failures>>
  BY DEF CreateAtCarrier, Goto, poolVars, labelVars, Imports
<1>2. TypeOK
  BY DEF IInv
<1>3. /\ got' \in [Order -> Answer \cup {NoAnswer}] /\ got'[o] = a
      /\ \A p \in Order \ {o} : got'[p] = got[p]
  BY <1>1, <1>2 DEF TypeOK
<1>4. "logging" \in Step \ {"idle", "answered"}
  BY DEF Step
<1> QED
  BY <1>1, <1>2, <1>3, <1>4, OrderMoves DEF TypeOK

LEMMA OrderSteps ==
  ASSUME IInv, NEW o \in Order, LogRequest(o) \/ CheckPool(o) \/ FailOrder(o)
  PROVE  IInv'
<1>1. TypeOK
  BY DEF IInv
<1>2. /\ UNCHANGED <<got, rows, hot, pool, pooling, unpooled, upload, nth, s3, labels>>
      /\ pc[o] \in {"logging", "checking", "saving"}
  BY DEF LogRequest, CheckPool, FailOrder, Goto, poolVars, labelVars
<1>3. ~Imports(o)
  BY <1>2 DEF IInv, AnswerIsKept
<1>4. got[o] \in Answer
  BY <1>2, <1>3 DEF IInv, AnswerIsKept
<1>5. KindOf[o] = "cainiao" => \A n \in got[o].all : n = got[o].first
  BY DEF IInv, AnswerIsKept, Given
<1>6. failures' \in Nat
  BY <1>1 DEF LogRequest, CheckPool, FailOrder, Fail, TypeOK
<1>7. logged' \subseteq [number : Number, format : Format]
  BY <1>1, <1>2, <1>3, AnsweredOrder, FormatAssumption DEF LogRequest, CheckPool, FailOrder, TypeOK
<1>8. PICK to \in Step \ {"idle", "answered"} :
        /\ pc' = [pc EXCEPT ![o] = to]
        /\ to = "saving" /\ Checked(o) => Given(o) \cap pool = {}
  BY DEF LogRequest, CheckPool, FailOrder, Goto, Step
<1>9. to = "saving" /\ Checked(o) =>
        \A q \in rows : Ordered(q) /\ q.number \in got[o].all => q \in hot \/ q.number \in unpooled
  <2> SUFFICES ASSUME to = "saving", Checked(o), NEW q \in rows, Ordered(q), q.number \in Given(o),
                      q.number \notin unpooled
               PROVE  q \in hot
    BY DEF Given
  <2>1. q.order \in pooling
    BY <1>8 DEF IInv, NumbersArePooled
  <2>2. q.number \in Given(q.order) /\ q \in Row
    BY <1>1 DEF IInv, RowsAreSaved, TypeOK
  <2>3. q \in OwnRows(q.order)
    BY <2>2 DEF OwnRows, RowsOf, Row
  <2> QED
    BY <1>1, <2>1, <2>3 DEF IInv, UnderWayIsHot, UnderWay, TypeOK
<1> QED
  BY <1>1, <1>2, <1>3, <1>4, <1>5, <1>6, <1>7, <1>8, <1>9, OrderMoves DEF TypeOK

-----------------------------------------------------------------------------
(* Parcels are saved and archived. *)

LEMMA SaveStep ==
  ASSUME IInv, NEW o \in Order, SaveParcels(o), Given(o) \cap HotNumbers = {}
  PROVE  IInv'
<1> DEFINE R == OwnRows(o)
<1>1. TypeOK
  BY DEF IInv
<1>2. /\ pc[o] = "saving" /\ pc' = [pc EXCEPT ![o] = "answered"]
      /\ rows' = rows \cup R /\ hot' = hot \cup R /\ pooling' = pooling \cup {o}
      /\ upload' = [upload EXCEPT ![o] = IF o \in Queued THEN "enqueuing" ELSE "putting"]
      /\ UNCHANGED <<got, pool, unpooled, logged, nth, s3, labels, failures>>
  BY DEF SaveParcels, Saved, Goto, OwnRows
<1>3. ~Imports(o)
  BY <1>2 DEF IInv, AnswerIsKept
<1>4. got[o].first \in Given(o) /\ R \subseteq Row /\ Given(o) \subseteq Number
  BY <1>2, <1>3, AnsweredOrder
<1>5. \A r \in R : r.order = o /\ r.number \in Given(o) /\ r \notin hot
  BY DEF OwnRows, RowsOf, HotNumbers
<1>6. /\ pc'[o] = "answered" /\ upload'[o] \in {"enqueuing", "putting"}
      /\ \A p \in Order \ {o} : pc'[p] = pc[p] /\ upload'[p] = upload[p]
      /\ pc' \in [Order -> Step] /\ upload' \in [Order -> UploadStep]
  BY <1>1, <1>2 DEF TypeOK, Step, UploadStep
<1> HIDE DEF R
<1>7. TypeOK'
  BY <1>1, <1>2, <1>4, <1>6 DEF TypeOK
<1>8. AnswerIsKept'
  BY <1>2, <1>3, <1>6 DEF IInv, AnswerIsKept, Given
<1>9. \A r \in rows : r.order \in Order /\ r.order # o
  BY <1>1, <1>2 DEF IInv, RowsAreSaved, TypeOK, Row
<1>10. RowsAreSaved'
  BY <1>2, <1>5, <1>6, <1>9 DEF IInv, RowsAreSaved, Given, Ordered
<1>11. HotIsUnique'
  <2> SUFFICES ASSUME NEW r \in hot', NEW q \in hot', r.number = q.number PROVE r = q
    BY DEF HotIsUnique
  <2>1. CASE r \in hot /\ q \in hot
    BY <2>1 DEF IInv, HotIsUnique
  <2>2. CASE r \in R /\ q \in R
    BY <2>2 DEF R, OwnRows, RowsOf
  <2>3. ASSUME NEW x \in R, NEW y \in hot PROVE x.number # y.number
    BY <1>5 DEF HotNumbers
  <2> QED
    BY <1>2, <2>1, <2>2, <2>3
<1>12. HotIsWhole'
  <2> SUFFICES ASSUME NEW r \in hot', Ordered(r) PROVE OwnRows(r.order)' \subseteq hot'
    BY DEF HotIsWhole, Ordered
  <2>1. OwnRows(r.order)' = OwnRows(r.order)
    BY <1>2 DEF OwnRows, Given
  <2> QED
    BY <1>2, <1>5, <2>1 DEF IInv, HotIsWhole, R
<1>13. UnderWayIsHot'
  <2> SUFFICES ASSUME NEW p \in Order, UnderWay(p)'
               PROVE  pc'[p] = "answered" /\ ~Imports(p) /\ OwnRows(p)' \subseteq hot'
    BY DEF UnderWayIsHot, Imports
  <2>1. OwnRows(p)' = OwnRows(p)
    BY <1>2 DEF OwnRows, Given
  <2>2. CASE p = o
    BY <1>2, <1>3, <1>6, <2>1, <2>2 DEF R
  <2>3. CASE p # o
    <3>1. UnderWay(p)
      BY <1>2, <1>6, <2>3 DEF UnderWay, Uploading
    <3> QED
      BY <1>2, <1>6, <2>1, <2>3, <3>1 DEF IInv, UnderWayIsHot
  <2> QED
    BY <2>2, <2>3
<1>14. NumbersArePooled'
  BY <1>2, <1>5 DEF IInv, NumbersArePooled, Ordered
<1>15. CheckedIsFree'
  BY <1>2, <1>6 DEF IInv, CheckedIsFree, Checked, Ordered, Given
<1>16. \A l \in labels : l.row.order \in Order /\ l.row \in Row
  BY <1>1 DEF TypeOK, Row
<1>17. LabelsAreOwn'
  BY <1>2, <1>6, <1>16 DEF IInv, LabelsAreOwn, Given, IsPdf, FirstRow
<1>18. LabelHoldsParcel'
  BY <1>2, <1>5 DEF IInv, LabelHoldsParcel, LabelsAreOwn
<1>19. NextFileIsThere'
  BY <1>2, <1>6 DEF IInv, NextFileIsThere, Single, Given, FirstRow
<1>20. PutIsThere'
  BY <1>2, <1>6 DEF IInv, PutIsThere, FileOf, Content, IsPdf, Given, FirstRow
<1>21. AnsweredIsSaved'
  <2> SUFFICES ASSUME NEW p \in Order, pc'[p] = "answered", NEW n \in Given(p)
               PROVE  \E r \in rows' : r.number = n
    BY <1>2 DEF AnsweredIsSaved, Given
  <2>1. CASE p = o
    <3>1. [order |-> o, number |-> n] \in R
      BY <2>1 DEF R, OwnRows, RowsOf
    <3> QED
      BY <1>2, <3>1
  <2>2. CASE p # o
    BY <1>2, <1>6, <2>2 DEF IInv, AnsweredIsSaved
  <2> QED
    BY <2>1, <2>2
<1> QED
  BY <1>7, <1>8, <1>10, <1>11, <1>12, <1>13, <1>14, <1>15, <1>17, <1>18, <1>19, <1>20, <1>21 DEF IInv

\* An import, or an order of CAINIAO that is repeated.
LEMMA OtherAnswer ==
  ASSUME IInv, NEW o \in Order, NEW N \in SUBSET Number,
         IF Imports(o) THEN pc[o] = "idle" ELSE N = {} /\ pc[o] = "saving",
         pc' = [pc EXCEPT ![o] = "answered"], N \cap HotNumbers = {},
         rows' = rows \cup RowsOf(o, N), hot' = hot \cup RowsOf(o, N),
         \A n \in Given(o) : \E r \in rows : r.number = n,
         UNCHANGED <<got, pool, pooling, unpooled, logged, upload, nth, s3, labels, failures>>
  PROVE  IInv'
<1> DEFINE R == RowsOf(o, N)
<1>1. TypeOK
  BY DEF IInv
<1>2. \A r \in R : r.order = o /\ r.number \in N /\ r \notin hot /\ r \in Row /\ ~Ordered(r)
  BY DEF RowsOf, HotNumbers, Row, Ordered, Imports
<1>3. /\ pc'[o] = "answered" /\ \A p \in Order \ {o} : pc'[p] = pc[p]
      /\ pc' \in [Order -> Step]
  BY <1>1 DEF TypeOK, Step
<1>4. \A r \in R, q \in hot : r.number # q.number
  BY <1>2 DEF HotNumbers
<1>5. \A r, q \in R : r.number = q.number => r = q
  BY DEF RowsOf
<1>6. rows' = rows \cup R /\ hot' = hot \cup R
  OBVIOUS
<1> HIDE DEF R
<1>7. TypeOK'
  BY <1>1, <1>2, <1>3, <1>6 DEF TypeOK
<1>8. AnswerIsKept'
  BY <1>3 DEF IInv, AnswerIsKept, Given
<1>9. RowsAreSaved'
  BY <1>1, <1>2, <1>3, <1>6 DEF IInv, RowsAreSaved, Given, Ordered, TypeOK, Row
<1>10. HotIsUnique'
  BY <1>4, <1>5, <1>6 DEF IInv, HotIsUnique
<1>11. \A p : OwnRows(p)' = OwnRows(p)
  BY DEF OwnRows, Given
<1>12. HotIsWhole'
  BY <1>2, <1>6, <1>11 DEF IInv, HotIsWhole, Ordered
<1>13. UnderWayIsHot'
  BY <1>3, <1>6, <1>11 DEF IInv, UnderWayIsHot, UnderWay, Uploading
<1>14. NumbersArePooled'
  BY <1>2, <1>6 DEF IInv, NumbersArePooled, Ordered
<1>15. CheckedIsFree'
  BY <1>2, <1>3, <1>6 DEF IInv, CheckedIsFree, Checked, Ordered, Given
<1>16. \A l \in labels : l.row.order \in Order
  BY <1>1 DEF TypeOK, Row
<1>17. LabelsAreOwn'
  BY <1>3, <1>16 DEF IInv, LabelsAreOwn, Given, IsPdf, FirstRow
<1>18. LabelHoldsParcel'
  BY <1>2, <1>6 DEF IInv, LabelHoldsParcel, LabelsAreOwn, Ordered, Imports
<1>19. NextFileIsThere'
  BY <1>3 DEF IInv, NextFileIsThere, Single, Given, FirstRow
<1>20. PutIsThere'
  BY DEF IInv, PutIsThere, FileOf, Content, IsPdf, Given, FirstRow
<1>21. AnsweredIsSaved'
  <2> SUFFICES ASSUME NEW p \in Order, pc'[p] = "answered", NEW n \in Given(p)
               PROVE  \E r \in rows' : r.number = n
    BY DEF AnsweredIsSaved, Given
  <2> QED
    BY <1>3, <1>6 DEF IInv, AnsweredIsSaved
<1> QED
  BY <1>7, <1>8, <1>9, <1>10, <1>12, <1>13, <1>14, <1>15, <1>17, <1>18, <1>19, <1>20, <1>21 DEF IInv

LEMMA AnswerSteps ==
  ASSUME IInv, NEW o \in Order,
         SaveParcels(o) \/ \E N \in SUBSET Number \ {{}} : ImportParcels(o, N)
  PROVE  IInv'
<1>1. TypeOK
  BY DEF IInv
<1>2. CASE SaveParcels(o) /\ Given(o) \cap HotNumbers = {}
  BY <1>2, SaveStep
<1>3. CASE SaveParcels(o) /\ Given(o) \cap HotNumbers # {}
  <2>1. /\ pc[o] = "saving" /\ pc' = [pc EXCEPT ![o] = IF KindOf[o] = "cainiao" THEN "answered" ELSE "rejected"]
        /\ UNCHANGED <<got, rows, hot, pool, pooling, unpooled, logged, upload, nth, s3, labels, failures>>
    BY <1>3 DEF SaveParcels, Goto
  <2>2. ~Imports(o) /\ got[o] \in Answer /\ (KindOf[o] = "cainiao" => \A n \in got[o].all : n = got[o].first)
    BY <2>1 DEF IInv, AnswerIsKept, Given
  <2>3. CASE KindOf[o] = "cainiao"
    <3>1. PICK r \in hot : r.number \in Given(o)
      BY <1>3 DEF HotNumbers
    <3>2. \A n \in Given(o) : n = r.number /\ r \in rows
      BY <1>1, <2>2, <2>3, <3>1 DEF Given, TypeOK
    <3>3. RowsOf(o, {}) = {} /\ {} \in SUBSET Number /\ {} \cap HotNumbers = {}
      BY DEF RowsOf
    <3>4. rows' = rows \cup RowsOf(o, {}) /\ hot' = hot \cup RowsOf(o, {})
      BY <2>1, <3>3
    <3> QED
      BY <2>1, <2>2, <2>3, <3>2, <3>3, <3>4, OtherAnswer
  <2>4. CASE KindOf[o] # "cainiao"
    <3>1. "rejected" \in Step \ {"idle", "answered"}
      BY DEF Step
    <3> QED
      BY <1>1, <2>1, <2>2, <2>4, <3>1, OrderMoves DEF TypeOK
  <2> QED
    BY <2>3, <2>4
<1>4. ASSUME NEW N \in SUBSET Number, ImportParcels(o, N) PROVE IInv'
  <2> DEFINE M == N \ HotNumbers
  <2>1. /\ Imports(o) /\ pc[o] = "idle" /\ pc' = [pc EXCEPT ![o] = "answered"]
        /\ rows' = rows \cup RowsOf(o, M) /\ hot' = hot \cup RowsOf(o, M)
        /\ UNCHANGED <<got, pool, pooling, unpooled, logged, upload, nth, s3, labels, failures>>
    BY <1>4 DEF ImportParcels, Goto, poolVars, labelVars, Imports
  <2>2. Given(o) = {}
    BY <2>1 DEF IInv, AnswerIsKept, Given, NoAnswer
  <2>3. M \in SUBSET Number /\ M \cap HotNumbers = {}
    OBVIOUS
  <2> HIDE DEF M
  <2> QED
    BY <2>1, <2>2, <2>3, OtherAnswer
<1> QED
  BY <1>2, <1>3, <1>4

LEMMA PoolSteps ==
  ASSUME IInv, NEW o \in Order, InsertIntoPool(o) \/ FailPool(o)
  PROVE  IInv'
<1>1. TypeOK
  BY DEF IInv
<1>2. /\ o \in pooling /\ pooling' = pooling \ {o}
      /\ pool \subseteq pool' /\ unpooled \subseteq unpooled' /\ Given(o) \subseteq pool' \cup unpooled'
      /\ pool' \cup unpooled' \subseteq pool \cup unpooled \cup Given(o)
      /\ failures' \in Nat
      /\ UNCHANGED <<pc, got, rows, hot, logged, upload, nth, s3, labels>>
  BY <1>1 DEF InsertIntoPool, FailPool, Fail, labelVars, TypeOK
<1>3. Given(o) \subseteq Number
  BY <1>2, AnsweredOrder DEF IInv, UnderWayIsHot, UnderWay
<1>4. TypeOK'
  BY <1>1, <1>2, <1>3 DEF TypeOK
<1>5. NumbersArePooled'
  BY <1>2 DEF IInv, NumbersArePooled, RowsAreSaved, Ordered
<1>6. CheckedIsFree'
  BY <1>2 DEF IInv, CheckedIsFree, Checked, Ordered, Given
<1>7. UnderWayIsHot'
  BY <1>2 DEF IInv, UnderWayIsHot, UnderWay, Uploading, OwnRows, Given
<1> QED
  BY <1>2, <1>4, <1>5, <1>6, <1>7
     DEF IInv, AnswerIsKept, RowsAreSaved, HotIsUnique, HotIsWhole, LabelsAreOwn, NextFileIsThere,
         PutIsThere, AnsweredIsSaved, LabelHoldsParcel, OwnRows, Given, Ordered, FileOf, Content, IsPdf,
         FirstRow, Single

LEMMA ArchiveStep ==
  ASSUME IInv, NEW o \in Order, Archive(o)
  PROVE  IInv'
<1>1. TypeOK
  BY DEF IInv
<1>2. /\ ~UnderWay(o) /\ \A q \in Order : pc[q] # "saving"
      /\ hot' = {r \in hot : r.order # o}
      /\ UNCHANGED <<pc, got, rows, pool, pooling, unpooled, logged, upload, nth, s3, labels, failures>>
  BY DEF Archive, UnderWay, poolVars, labelVars
<1>3. TypeOK'
  BY <1>1, <1>2 DEF TypeOK
<1>4. \A p, n : n \in OwnRows(p) => n.order = p
  BY DEF OwnRows, RowsOf
<1>5. HotIsUnique' /\ LabelHoldsParcel'
  BY <1>2 DEF IInv, HotIsUnique, LabelHoldsParcel
<1>6. \A p : OwnRows(p)' = OwnRows(p)
  BY <1>2 DEF OwnRows, Given
<1>7. HotIsWhole'
  BY <1>2, <1>4, <1>6 DEF IInv, HotIsWhole, Ordered
<1>8. UnderWayIsHot'
  <2> SUFFICES ASSUME NEW p \in Order, UnderWay(p)
               PROVE  pc[p] = "answered" /\ ~Imports(p) /\ OwnRows(p) \subseteq hot'
    BY <1>2, <1>6 DEF UnderWayIsHot, UnderWay, Uploading
  <2>1. p # o
    BY <1>2
  <2> QED
    BY <1>2, <1>4, <2>1 DEF IInv, UnderWayIsHot
<1>9. CheckedIsFree'
  BY <1>2 DEF CheckedIsFree
<1> QED
  BY <1>2, <1>3, <1>5, <1>7, <1>8, <1>9
     DEF IInv, AnswerIsKept, RowsAreSaved, NumbersArePooled, LabelsAreOwn, NextFileIsThere,
         PutIsThere, AnsweredIsSaved, Given, Ordered, FileOf, Content, IsPdf, FirstRow, Single

-----------------------------------------------------------------------------
(* Labels are uploaded. *)

LEMMA UploadMoves ==
  ASSUME IInv, UNCHANGED <<pc, got, rows, hot, pool, logged>>,
         pooling' \subseteq pooling, unpooled \subseteq unpooled',
         \A q \in rows : Ordered(q) => q.number \in pool \cup unpooled' \/ q.order \in pooling',
         \A p \in Order : Uploading(p)' => Uploading(p),
         TypeOK', LabelsAreOwn', LabelHoldsParcel', NextFileIsThere', PutIsThere'
  PROVE  IInv'
<1>1. UnderWayIsHot'
  BY DEF IInv, UnderWayIsHot, UnderWay, OwnRows, Given
<1>2. NumbersArePooled' /\ CheckedIsFree'
  BY DEF IInv, NumbersArePooled, CheckedIsFree, Checked, Ordered, Given
<1> QED
  BY <1>1, <1>2
     DEF IInv, AnswerIsKept, RowsAreSaved, HotIsUnique, HotIsWhole, AnsweredIsSaved, OwnRows, Given, Ordered

LEMMA UploadSteps ==
  ASSUME IInv, NEW o \in Order, UploadLabel(o) \/ FailUpload(o)
  PROVE  IInv'
<1> USE DEF poolVars
<1>1. TypeOK
  BY DEF IInv
<1>2. /\ UNCHANGED <<pc, got, rows, hot, pool, pooling, unpooled, logged>>
      /\ Uploading(o)
      /\ failures' \in Nat
  BY <1>1 DEF UploadLabel, Enqueue, PutLabel, SavePdfLabels, SaveNextLabel, FailUpload, Fail, Upload, Uploading,
              TypeOK
<1>3. PICK to \in UploadStep : upload' = [upload EXCEPT ![o] = to] /\ to # "none"
  BY DEF UploadLabel, Enqueue, PutLabel, SavePdfLabels, SaveNextLabel, FailUpload, Upload, UploadStep
<1>4. /\ upload'[o] = to /\ \A p \in Order \ {o} : upload'[p] = upload[p]
      /\ upload' \in [Order -> UploadStep]
  BY <1>1, <1>3 DEF TypeOK
<1>5. pc[o] = "answered" /\ ~Imports(o) /\ OwnRows(o) \subseteq hot
  BY <1>2 DEF IInv, UnderWayIsHot, UnderWay
<1>6. /\ got[o].first \in Given(o) /\ Given(o) \subseteq Number
      /\ OwnRows(o) \subseteq Row /\ FirstRow(o) \in OwnRows(o)
  BY <1>5, AnsweredOrder
<1>7. ASSUME TypeOK', LabelsAreOwn', LabelHoldsParcel', NextFileIsThere', PutIsThere' PROVE IInv'
  <2>1. \A p \in Order : Uploading(p)' => Uploading(p)
    BY <1>2, <1>4 DEF Uploading
  <2> QED
    BY <1>2, <1>7, <2>1, UploadMoves DEF IInv, NumbersArePooled
<1>8. CASE Enqueue(o) \/ FailUpload(o)
  <2>1. UNCHANGED <<nth, s3, labels>> /\ upload'[o] # "saving"
    BY <1>1, <1>8 DEF Enqueue, FailUpload, Upload, TypeOK
  <2>2. TypeOK'
    BY <1>1, <1>2, <1>4, <2>1 DEF TypeOK
  <2>3. LabelsAreOwn' /\ LabelHoldsParcel' /\ NextFileIsThere'
    BY <1>2, <2>1 DEF IInv, LabelsAreOwn, LabelHoldsParcel, NextFileIsThere, Given, IsPdf, FirstRow, Single
  <2>4. PutIsThere'
    BY <1>2, <1>4, <2>1 DEF IInv, PutIsThere, FileOf, Content, IsPdf, Given, FirstRow
  <2> QED
    BY <1>7, <2>2, <2>3, <2>4
<1>9. CASE PutLabel(o)
  <2>1. /\ upload[o] = "putting" /\ upload'[o] = "saving" /\ UNCHANGED <<nth, labels, failures>>
        /\ s3' = [s3 EXCEPT ![FileOf(o)] = Content(o)]
    BY <1>1, <1>9 DEF PutLabel, Upload, TypeOK
  <2>2. FileOf(o) \in Path
    BY <1>2, FileIsPath
  <2>3. Content(o) \subseteq OwnRows(o)
    BY <1>6 DEF Content, OwnRows
  <2>4. /\ s3' \in [Path -> SUBSET Row] /\ s3'[FileOf(o)] = Content(o)
        /\ \A x \in Path : x # FileOf(o) => s3'[x] = s3[x]
    BY <1>1, <1>6, <2>1, <2>2, <2>3 DEF TypeOK
  <2>5. TypeOK'
    BY <1>1, <1>2, <1>4, <2>1, <2>4 DEF TypeOK
  <2>6. LabelsAreOwn' /\ NextFileIsThere'
    BY <1>2, <2>1 DEF IInv, LabelsAreOwn, NextFileIsThere, Given, IsPdf, FirstRow, Single
  <2>7. FileOf(o).number = got[o].first
    BY DEF FileOf
  <2>8. LabelHoldsParcel'
    <3> SUFFICES ASSUME NEW l \in labels, l.row \in hot PROVE l.row \in s3'[l.path]
      BY <1>2, <2>1 DEF LabelHoldsParcel
    <3>1. l.row \in Row /\ l.row.order \in Order /\ l.path \in Path
      BY <1>1 DEF TypeOK, Row
    <3>2. CASE l.path # FileOf(o)
      BY <2>4, <3>1, <3>2 DEF IInv, LabelHoldsParcel
    <3>3. CASE l.path = FileOf(o)
      <4> DEFINE p == l.row.order
      <4>1. /\ pc[p] = "answered" /\ ~Imports(p) /\ l.row.number \in Given(p)
            /\ l.path.number = got[p].first /\ (IsPdf(p) \/ l.row = FirstRow(p))
        BY DEF IInv, LabelsAreOwn
      <4>2. OwnRows(p) \subseteq hot
        BY <4>1 DEF IInv, HotIsWhole, Ordered, Imports
      <4>3. o = p
        BY <1>5, <2>7, <3>1, <3>3, <4>1, <4>2, FirstIsOwn
      <4>4. l.row = [order |-> o, number |-> l.row.number]
        BY <3>1, <4>3 DEF Row
      <4>5. l.row \in Content(o)
        BY <4>1, <4>3, <4>4 DEF Content, RowsOf
      <4> QED
        BY <2>4, <3>3, <4>5
    <3> QED
      BY <3>2, <3>3
  <2>9. PutIsThere'
    <3> SUFFICES ASSUME NEW p \in Order, upload'[p] = "saving" PROVE s3'[FileOf(p)] = Content(p)
      BY <1>2, <2>1 DEF PutIsThere, FileOf, Content, IsPdf, Given, FirstRow
    <3>1. CASE p = o
      BY <2>4, <3>1
    <3>2. CASE p # o
      <4>1. upload[p] = "saving" /\ s3[FileOf(p)] = Content(p)
        BY <1>4, <3>2 DEF IInv, PutIsThere
      <4>2. pc[p] = "answered" /\ ~Imports(p) /\ OwnRows(p) \subseteq hot
        BY <4>1 DEF IInv, UnderWayIsHot, UnderWay, Uploading
      <4>3. FileOf(p) # FileOf(o)
        <5>1. got[o].first # got[p].first
          BY <1>5, <3>2, <4>2, FirstIsOwn
        <5> QED
          BY <5>1 DEF FileOf
      <4>4. s3' = [x \in Path |-> IF x = FileOf(o) THEN Content(o) ELSE s3[x]] /\ s3 = [x \in Path |-> s3[x]]
        BY <1>1, <2>1 DEF TypeOK
      <4>5. FileOf(p) \in Path
        BY <4>1, FileIsPath DEF Uploading
      <4> QED
        BY <4>1, <4>3, <4>4, <4>5
    <3> QED
      BY <3>1, <3>2
  <2> QED
    BY <1>7, <2>5, <2>6, <2>8, <2>9
<1>10. CASE SavePdfLabels(o)
  <2>1. /\ upload[o] = "saving" /\ upload'[o] = "ended" /\ UNCHANGED <<nth, s3, failures>> /\ IsPdf(o)
        /\ labels' \subseteq labels \cup {[row |-> r, path |-> FileOf(o)] : r \in OwnRows(o)}
        /\ labels \subseteq labels'
    BY <1>1, <1>10 DEF SavePdfLabels, Upload, TypeOK, OwnRows
  <2>2. s3[FileOf(o)] = OwnRows(o)
    BY <2>1 DEF IInv, PutIsThere, Content, OwnRows
  <2>3. FileOf(o) \in Path /\ FileOf(o).number = got[o].first
    BY <1>6, <2>1, BoundAssumption, FormatAssumption DEF FileOf, Path, IsPdf
  <2>4. \A l \in labels' \ labels : l.row \in OwnRows(o) /\ l.path = FileOf(o) /\ l \in [row : Row, path : Path]
    BY <1>6, <2>1, <2>3
  <2>5. TypeOK'
    BY <1>1, <1>2, <1>4, <2>1, <2>4 DEF TypeOK
  <2>6. \A r \in OwnRows(o) : r.order = o /\ r.number \in Given(o)
    BY DEF OwnRows, RowsOf
  <2>7. LabelsAreOwn'
    <3> SUFFICES ASSUME NEW l \in labels'
                 PROVE  /\ pc[l.row.order] = "answered" /\ ~Imports(l.row.order)
                        /\ l.row.number \in Given(l.row.order) /\ l.path.number = got[l.row.order].first
                        /\ IsPdf(l.row.order) \/ l.row = FirstRow(l.row.order)
      BY <1>2 DEF LabelsAreOwn, Given, IsPdf, FirstRow, Imports
    <3>1. CASE l \in labels
      BY <3>1 DEF IInv, LabelsAreOwn
    <3>2. CASE l \notin labels
      BY <1>5, <2>1, <2>3, <2>4, <2>6, <3>2
    <3> QED
      BY <3>1, <3>2
  <2>8. LabelHoldsParcel'
    BY <1>2, <2>1, <2>2, <2>4 DEF IInv, LabelHoldsParcel
  <2>9. NextFileIsThere'
    BY <1>2, <2>1 DEF IInv, NextFileIsThere, Given, FirstRow, Single
  <2>10. PutIsThere'
    BY <1>2, <1>4, <2>1 DEF IInv, PutIsThere, FileOf, Content, IsPdf, Given, FirstRow
  <2> QED
    BY <1>7, <2>5, <2>7, <2>8, <2>9, <2>10
<1>11. CASE SaveNextLabel(o) /\ (Single(o) \/ ~Unlabelled({FirstRow(o)}))
  <2>1. UNCHANGED <<nth, s3, labels, failures>> /\ upload'[o] = "ended"
    BY <1>1, <1>11 DEF SaveNextLabel, Upload, TypeOK
  <2>2. TypeOK'
    BY <1>1, <1>2, <1>4, <2>1 DEF TypeOK
  <2>3. LabelsAreOwn' /\ LabelHoldsParcel' /\ NextFileIsThere'
    BY <1>2, <2>1 DEF IInv, LabelsAreOwn, LabelHoldsParcel, NextFileIsThere, Given, IsPdf, FirstRow, Single
  <2>4. PutIsThere'
    BY <1>2, <1>4, <2>1 DEF IInv, PutIsThere, FileOf, Content, IsPdf, Given, FirstRow
  <2> QED
    BY <1>7, <2>2, <2>3, <2>4
<1>12. CASE SaveNextLabel(o) /\ ~(Single(o) \/ ~Unlabelled({FirstRow(o)}))
  <2> DEFINE new == [row |-> FirstRow(o), path |-> FileOf(o)]
  <2>1. /\ upload[o] = "saving" /\ upload'[o] = "putting" /\ UNCHANGED <<s3, failures>> /\ ~IsPdf(o) /\ ~Single(o)
        /\ labels' = labels \cup {new} /\ nth' = [nth EXCEPT ![o] = 1]
    BY <1>1, <1>12 DEF SaveNextLabel, Upload, TypeOK
  <2>2. nth' \in [Order -> 0 .. MaxParcels] /\ nth'[o] = 1 /\ \A p \in Order \ {o} : nth'[p] = nth[p]
    <3>1. 1 \in 0 .. MaxParcels
      BY BoundAssumption
    <3> QED
      BY <1>1, <2>1, <3>1 DEF TypeOK
  <2>3. s3[FileOf(o)] = {FirstRow(o)}
    BY <2>1 DEF IInv, PutIsThere, Content
  <2>4. new \in [row : Row, path : Path]
    BY <1>2, <1>6, FileIsPath
  <2>5. new.row = FirstRow(o) /\ new.path = FileOf(o) /\ new.path.number = got[o].first
    BY DEF FileOf
  <2>6. FirstRow(o).order = o /\ FirstRow(o).number \in Given(o)
    BY <1>6 DEF FirstRow
  <2> HIDE DEF new
  <2>7. TypeOK'
    BY <1>1, <1>2, <1>4, <2>1, <2>2, <2>4 DEF TypeOK
  <2>8. LabelsAreOwn'
    <3> SUFFICES ASSUME NEW l \in labels'
                 PROVE  /\ pc[l.row.order] = "answered" /\ ~Imports(l.row.order)
                        /\ l.row.number \in Given(l.row.order) /\ l.path.number = got[l.row.order].first
                        /\ IsPdf(l.row.order) \/ l.row = FirstRow(l.row.order)
      BY <1>2 DEF LabelsAreOwn, Given, IsPdf, FirstRow, Imports
    <3>1. CASE l \in labels
      BY <3>1 DEF IInv, LabelsAreOwn
    <3>2. CASE l = new
      BY <1>5, <2>5, <2>6, <3>2
    <3> QED
      BY <2>1, <3>1, <3>2
  <2>9. LabelHoldsParcel'
    BY <1>2, <2>1, <2>3, <2>5 DEF IInv, LabelHoldsParcel
  <2>10. NextFileIsThere'
    BY <1>2, <1>5, <2>1, <2>2, <2>5 DEF IInv, NextFileIsThere, Given, FirstRow, Single
  <2>11. PutIsThere'
    BY <1>2, <1>4, <2>1, <2>2 DEF IInv, PutIsThere, FileOf, Content, IsPdf, Given, FirstRow
  <2> QED
    BY <1>7, <2>7, <2>8, <2>9, <2>10, <2>11
<1> QED
  BY <1>8, <1>9, <1>10, <1>11, <1>12 DEF UploadLabel

-----------------------------------------------------------------------------
LEMMA RestartStep ==
  ASSUME IInv, Restart
  PROVE  IInv'
<1>1. TypeOK
  BY DEF IInv
<1>2. /\ \A o \in Order : pc'[o] = IF pc[o] \in {"logging", "checking", "saving"} THEN "rejected" ELSE pc[o]
      /\ pooling' = {} /\ unpooled' = unpooled \cup UNION {Given(o) : o \in pooling}
      /\ upload' = [o \in Order |-> AfterRestart(o)]
      /\ nth' = [o \in Order |-> IF upload[o] \in {"putting", "saving"} THEN 0 ELSE nth[o]]
      /\ failures' \in Nat
      /\ UNCHANGED <<got, rows, hot, pool, logged, s3, labels>>
  BY <1>1 DEF Restart, Fail, TypeOK
<1>3. \A o \in Order : /\ upload'[o] = upload[o] \/ upload'[o] \in {"putting", "lost"}
                       /\ upload'[o] = "saving" => FALSE
                       /\ Uploading(o)' => Uploading(o)
  BY <1>2 DEF AfterRestart, Uploading
<1>4. \A o \in pooling : Given(o) \subseteq Number
  BY <1>1, AnsweredOrder DEF IInv, UnderWayIsHot, UnderWay, TypeOK
<1>5. TypeOK'
  <2>1. pc' \in [Order -> Step]
    BY <1>1 DEF Restart, TypeOK, Step
  <2>2. upload' \in [Order -> UploadStep]
    BY <1>1, <1>2 DEF AfterRestart, TypeOK, UploadStep
  <2>3. nth' \in [Order -> 0 .. MaxParcels]
    BY <1>1, <1>2, BoundAssumption DEF TypeOK
  <2> QED
    BY <1>1, <1>2, <1>4, <2>1, <2>2, <2>3 DEF TypeOK
<1>6. AnswerIsKept'
  BY <1>2 DEF IInv, AnswerIsKept, Given
<1>7. \A r \in rows : r.order \in Order
  BY <1>1 DEF TypeOK, Row
<1>8. RowsAreSaved' /\ HotIsUnique' /\ HotIsWhole'
  BY <1>2, <1>7 DEF IInv, RowsAreSaved, HotIsUnique, HotIsWhole, Ordered, Given, OwnRows
<1>9. UnderWayIsHot'
  BY <1>2, <1>3 DEF IInv, UnderWayIsHot, UnderWay, OwnRows, Given
<1>10. NumbersArePooled'
  <2> SUFFICES ASSUME NEW q \in rows, Ordered(q), q.order \in pooling
               PROVE  q.number \in unpooled'
    BY <1>2 DEF IInv, NumbersArePooled, Ordered
  <2>1. q.number \in Given(q.order)
    BY DEF IInv, RowsAreSaved
  <2> QED
    BY <1>2, <2>1
<1>11. CheckedIsFree'
  BY <1>2 DEF CheckedIsFree
<1>12. \A l \in labels : l.row.order \in Order
  BY <1>1 DEF TypeOK, Row
<1>13. LabelsAreOwn' /\ LabelHoldsParcel'
  BY <1>2, <1>12 DEF IInv, LabelsAreOwn, LabelHoldsParcel, Given, IsPdf, FirstRow
<1>14. NextFileIsThere'
  BY <1>2 DEF IInv, NextFileIsThere, Given, FirstRow, Single
<1>15. PutIsThere'
  BY <1>3 DEF PutIsThere
<1>16. AnsweredIsSaved'
  BY <1>2 DEF IInv, AnsweredIsSaved, Given
<1> QED
  BY <1>5, <1>6, <1>8, <1>9, <1>10, <1>11, <1>13, <1>14, <1>15, <1>16 DEF IInv

LEMMA NextIInv == IInv /\ [Next]_vars => IInv'
<1> SUFFICES ASSUME IInv, [Next]_vars PROVE IInv'
  OBVIOUS
<1>1. CASE UNCHANGED vars
  <2>1. UNCHANGED <<pc, got, rows, hot, pool, pooling, unpooled, logged, upload, nth, s3, labels, failures>>
    BY <1>1 DEF vars, poolVars, labelVars
  <2>2. TypeOK' /\ LabelsAreOwn' /\ LabelHoldsParcel' /\ NextFileIsThere' /\ PutIsThere'
    BY <2>1 DEF IInv, TypeOK, LabelsAreOwn, LabelHoldsParcel, NextFileIsThere, PutIsThere, Given, IsPdf,
                FirstRow, Single, FileOf, Content
  <2>3. \A o \in Order : Uploading(o)' => Uploading(o)
    BY <2>1 DEF Uploading
  <2> QED
    BY <2>1, <2>2, <2>3, UploadMoves DEF IInv, NumbersArePooled
<1> QED
  BY <1>1, CreateStep, OrderSteps, AnswerSteps, PoolSteps, ArchiveStep, UploadSteps, RestartStep DEF Next

\* No step saves a number that the pool was asked about and an earlier order was given.
LEMMA NewRowsAreNew ==
  ASSUME IInv, [Next]_vars, NEW r \in rows' \ rows, NEW q \in rows,
         Checked(r.order), Ordered(q), q.number = r.number
  PROVE  q.number \in unpooled
<1> USE DEF poolVars, labelVars
<1>1. ASSUME NEW o \in Order, SaveParcels(o) PROVE q.number \in unpooled
  <2>1. r \in OwnRows(o) /\ Given(o) \cap HotNumbers = {} /\ pc[o] = "saving"
    BY <1>1 DEF SaveParcels, Saved, Goto, OwnRows
  <2>2. r.order = o /\ q.number \in Given(o)
    BY <2>1 DEF OwnRows, RowsOf
  <2>3. q \notin hot
    BY <2>1, <2>2 DEF HotNumbers
  <2> QED
    BY <2>1, <2>2, <2>3 DEF IInv, CheckedIsFree
<1>2. ASSUME NEW o \in Order, NEW N \in SUBSET Number, ImportParcels(o, N) PROVE FALSE
  <2>1. r.order = o /\ KindOf[o] = "import"
    BY <1>2 DEF ImportParcels, RowsOf
  <2> QED
    BY <2>1 DEF Checked
<1>3. PICK o \in Order : SaveParcels(o) \/ \E N \in SUBSET Number : ImportParcels(o, N)
  <2>1. rows' # rows
    OBVIOUS
  <2> QED
    BY <2>1
       DEF Next, vars, CreateAtCarrier, LogRequest, CheckPool, FailOrder, InsertIntoPool, FailPool, Archive,
           UploadLabel, Enqueue, PutLabel, SavePdfLabels, SaveNextLabel, FailUpload, Restart
<1> QED
  BY <1>1, <1>2, <1>3

-----------------------------------------------------------------------------
(***************************************************************************)
(* Labels are found.  A number that only one order was given has one file  *)
(* and one log, and that order put its label there before its upload       *)
(* ended.                                                                  *)
(***************************************************************************)
Log(o) == [number |-> got[o].first, format |-> FormatOf[o]]
LogsAreOwn ==
  \A y \in logged : \E q \in Order : ~Imports(q) /\ pc[q] \notin {"idle", "logging"} /\ y = Log(q)
SavedIsLogged ==
  \A o \in Order : ~Imports(o) /\ pc[o] \in {"checking", "saving", "answered"} => Log(o) \in logged

HasLabel(r) == \E l \in labels : l.row = r
PdfIsWhole ==
  \A o \in Order : IsPdf(o) /\ (upload[o] = "ended" \/ \E r \in OwnRows(o) : HasLabel(r)) =>
    \A r \in OwnRows(o) : HasLabel(r)

Alone(o) == \A q \in Order \ {o} : Given(q) \cap Given(o) = {}
EndedSingle(o) == upload[o] = "ended" /\ ~IsPdf(o) /\ Single(o) /\ Alone(o)
SingleIsThere == \A o \in Order : EndedSingle(o) => FirstRow(o) \in s3[FileOf(o)]
UploadIsAnswered == \A o \in Order : upload[o] # "none" => pc[o] = "answered" /\ ~Imports(o)

Found == LogsAreOwn /\ SavedIsLogged /\ PdfIsWhole /\ SingleIsThere /\ UploadIsAnswered

LEMMA InitFound == Init => Found
<1> SUFFICES ASSUME Init PROVE Found
  OBVIOUS
<1>1. logged = {} /\ labels = {} /\ \A o \in Order : pc[o] = "idle" /\ upload[o] = "none"
  BY DEF Init
<1> QED
  BY <1>1 DEF Found, LogsAreOwn, SavedIsLogged, PdfIsWhole, HasLabel, SingleIsThere, EndedSingle,
              UploadIsAnswered

\* What a single order has uploaded stays where it is.
LEMMA SingleFile ==
  ASSUME IInv, Found, NEW o \in Order, upload[o] = "ended", ~IsPdf(o), Single(o)
  PROVE  FileOf(o) \in Path /\ FileOf(o) = [number |-> got[o].first, format |-> FormatOf[o], nth |-> 1]
<1>1. pc[o] = "answered" /\ ~Imports(o)
  BY DEF Found, UploadIsAnswered
<1>2. got[o].first \in Number /\ FormatOf[o] \in Format
  BY <1>1, AnsweredOrder, FormatAssumption
<1>3. nth[o] = 0 /\ 1 \in 0 .. MaxParcels
  BY BoundAssumption DEF IInv, NextFileIsThere
<1> QED
  BY <1>2, <1>3 DEF FileOf, Path

\* A step that moves orders on, and neither logs nor uploads.
LEMMA FoundStays ==
  ASSUME IInv, Found, UNCHANGED <<got, logged, labels, s3>>,
         \A o \in Order :
           /\ pc[o] \notin {"idle", "logging"} => pc'[o] \notin {"idle", "logging"}
           /\ ~Imports(o) /\ pc'[o] \in {"checking", "saving", "answered"} =>
                pc[o] \in {"checking", "saving", "answered"}
           /\ pc[o] = "answered" => pc'[o] = "answered"
           /\ upload'[o] = "ended" => upload[o] = "ended" /\ nth'[o] = nth[o]
           /\ upload'[o] # "none" => upload[o] # "none" \/ (pc'[o] = "answered" /\ ~Imports(o))
  PROVE  Found'
<1>1. LogsAreOwn' /\ SavedIsLogged'
  BY DEF Found, LogsAreOwn, SavedIsLogged, Log
<1>2. PdfIsWhole'
  BY DEF Found, PdfIsWhole, HasLabel, OwnRows, Given, IsPdf
<1>3. SingleIsThere'
  <2> SUFFICES ASSUME NEW o \in Order, EndedSingle(o)' PROVE FirstRow(o)' \in s3'[FileOf(o)']
    BY DEF SingleIsThere
  <2>1. EndedSingle(o) /\ nth'[o] = nth[o]
    BY DEF EndedSingle, IsPdf, Single, Alone, Given
  <2> QED
    BY <2>1 DEF Found, SingleIsThere, FirstRow, FileOf, IsPdf
<1>4. UploadIsAnswered'
  BY DEF Found, UploadIsAnswered
<1> QED
  BY <1>1, <1>2, <1>3, <1>4 DEF Found

LEMMA CreateFound ==
  ASSUME IInv, Found, NEW o \in Order, NEW a \in Answer, CreateAtCarrier(o, a)
  PROVE  Found'
<1>1. /\ pc[o] = "idle" /\ ~Imports(o) /\ UNCHANGED <<logged, labels, s3, upload, nth>>
      /\ pc' = [pc EXCEPT ![o] = "logging"] /\ got' = [got EXCEPT ![o] = a]
  BY DEF CreateAtCarrier, Goto, poolVars, labelVars, Imports
<1>2. /\ pc'[o] = "logging" /\ \A q \in Order \ {o} : pc'[q] = pc[q] /\ got'[q] = got[q]
      /\ Given(o) = {} /\ upload[o] = "none"
  BY <1>1 DEF IInv, TypeOK, AnswerIsKept, Given, NoAnswer, Found, UploadIsAnswered
<1>3. LogsAreOwn' /\ SavedIsLogged'
  BY <1>1, <1>2 DEF Found, LogsAreOwn, SavedIsLogged, Log
<1>4. UploadIsAnswered'
  BY <1>1, <1>2 DEF Found, UploadIsAnswered
<1>5. \A r \in OwnRows(o)' : ~HasLabel(r)
  <2> SUFFICES ASSUME NEW r \in OwnRows(o)', NEW l \in labels, l.row = r PROVE FALSE
    BY DEF HasLabel
  <2>1. r.order = o
    BY DEF OwnRows, RowsOf
  <2> QED
    BY <1>1, <2>1 DEF IInv, LabelsAreOwn
<1>6. PdfIsWhole'
  <2> SUFFICES ASSUME NEW q \in Order, IsPdf(q),
                      upload[q] = "ended" \/ \E r \in OwnRows(q)' : HasLabel(r)
               PROVE  \A r \in OwnRows(q)' : HasLabel(r)
    BY <1>1 DEF PdfIsWhole, HasLabel, IsPdf
  <2>1. q # o
    BY <1>2, <1>5
  <2>2. OwnRows(q)' = OwnRows(q)
    BY <1>2, <2>1 DEF OwnRows, Given, RowsOf
  <2> QED
    BY <2>2 DEF Found, PdfIsWhole
<1>7. SingleIsThere'
  <2> SUFFICES ASSUME NEW q \in Order, EndedSingle(q)' PROVE FirstRow(q)' \in s3'[FileOf(q)']
    BY DEF SingleIsThere
  <2>1. q # o /\ got'[q] = got[q]
    BY <1>1, <1>2 DEF EndedSingle
  <2>2. Alone(q)
    BY <1>2, <2>1 DEF EndedSingle, Alone, Given
  <2>3. EndedSingle(q)
    BY <1>1, <2>1, <2>2 DEF EndedSingle, IsPdf, Single, Given
  <2> QED
    BY <1>1, <2>1, <2>3 DEF Found, SingleIsThere, FirstRow, FileOf, IsPdf
<1> QED
  BY <1>3, <1>4, <1>6, <1>7 DEF Found

LEMMA LogFound ==
  ASSUME IInv, Found, NEW o \in Order, LogRequest(o)
  PROVE  Found'
<1>1. /\ UNCHANGED <<got, labels, s3, upload, nth>> /\ logged' = logged \cup {Log(o)}
      /\ pc[o] = "logging" /\ pc'[o] \in {"checking", "saving"}
      /\ \A q \in Order \ {o} : pc'[q] = pc[q]
  BY DEF LogRequest, Goto, Log, poolVars, labelVars, IInv, TypeOK
<1>2. ~Imports(o)
  BY <1>1 DEF IInv, AnswerIsKept
<1>3. LogsAreOwn'
  <2> SUFFICES ASSUME NEW y \in logged'
               PROVE  \E q \in Order : ~Imports(q) /\ pc'[q] \notin {"idle", "logging"} /\ y = Log(q)
    BY <1>1 DEF LogsAreOwn, Log, Imports
  <2>1. CASE y = Log(o)
    BY <1>1, <1>2, <2>1
  <2>2. CASE y \in logged
    BY <1>1, <2>2 DEF Found, LogsAreOwn
  <2> QED
    BY <1>1, <2>1, <2>2
<1>4. SavedIsLogged'
  BY <1>1 DEF Found, SavedIsLogged, Log
<1>5. PdfIsWhole' /\ UploadIsAnswered'
  BY <1>1 DEF Found, PdfIsWhole, HasLabel, OwnRows, Given, IsPdf, UploadIsAnswered
<1>6. SingleIsThere'
  BY <1>1 DEF Found, SingleIsThere, EndedSingle, IsPdf, Single, Alone, Given, FirstRow, FileOf
<1> QED
  BY <1>3, <1>4, <1>5, <1>6 DEF Found

LEMMA UploadFound ==
  ASSUME IInv, Found, NEW o \in Order, UploadLabel(o)
  PROVE  Found'
<1> USE DEF poolVars
<1>1. TypeOK /\ Uploading(o) /\ UNCHANGED <<pc, got, logged>>
  BY DEF IInv, UploadLabel, Enqueue, PutLabel, SavePdfLabels, SaveNextLabel, Upload, Uploading
<1>2. pc[o] = "answered" /\ ~Imports(o)
  BY <1>1 DEF IInv, UnderWayIsHot, UnderWay
<1>3. got[o].first \in Given(o) /\ FirstRow(o) \in OwnRows(o)
  BY <1>2, AnsweredOrder
<1>4. PICK to \in UploadStep : upload' = [upload EXCEPT ![o] = to]
  BY DEF UploadLabel, Enqueue, PutLabel, SavePdfLabels, SaveNextLabel, Upload, UploadStep
<1>5. upload'[o] = to /\ \A q \in Order \ {o} : upload'[q] = upload[q]
  BY <1>1, <1>4 DEF TypeOK
<1>6. LogsAreOwn' /\ SavedIsLogged' /\ UploadIsAnswered'
  BY <1>1, <1>2, <1>5 DEF Found, LogsAreOwn, SavedIsLogged, UploadIsAnswered, Log
<1>7. \A q \in Order : \A r \in OwnRows(q) : r.order = q
  BY DEF OwnRows, RowsOf
\* Other orders keep their labels, and what was put alone.
<1>8. ASSUME labels \subseteq labels', \A l \in labels' \ labels : l.row \in OwnRows(o),
             IsPdf(o) /\ (to = "ended" \/ labels' # labels) => \A r \in OwnRows(o) : HasLabel(r)'
      PROVE  PdfIsWhole'
  <2> SUFFICES ASSUME NEW q \in Order, IsPdf(q),
                      upload'[q] = "ended" \/ \E r \in OwnRows(q) : HasLabel(r)',
                      NEW r \in OwnRows(q)
               PROVE  HasLabel(r)'
    BY <1>1 DEF PdfIsWhole, OwnRows, Given, IsPdf
  <2>1. CASE q # o
    <3>1. upload[q] = "ended" \/ \E x \in OwnRows(q) : HasLabel(x)
      BY <1>5, <1>7, <1>8, <2>1 DEF HasLabel
    <3> QED
      BY <1>8, <3>1 DEF Found, PdfIsWhole, HasLabel
  <2>2. CASE q = o /\ (to = "ended" \/ labels' # labels)
    BY <1>8, <2>2
  <2>3. CASE q = o /\ to # "ended" /\ labels' = labels
    BY <1>5, <2>3 DEF Found, PdfIsWhole, HasLabel
  <2> QED
    BY <2>1, <2>2, <2>3
<1>9. ASSUME \A q \in Order \ {o} : nth'[q] = nth[q],
             \A q \in Order \ {o} : EndedSingle(q) => s3'[FileOf(q)] = s3[FileOf(q)],
             EndedSingle(o)' => FirstRow(o) \in s3'[FileOf(o)']
      PROVE  SingleIsThere'
  <2> SUFFICES ASSUME NEW q \in Order, EndedSingle(q)' PROVE FirstRow(q)' \in s3'[FileOf(q)']
    BY DEF SingleIsThere
  <2>1. FirstRow(q)' = FirstRow(q)
    BY <1>1 DEF FirstRow
  <2>2. CASE q = o
    BY <1>9, <2>1, <2>2
  <2>3. CASE q # o
    <3>1. EndedSingle(q)
      BY <1>1, <1>5, <2>3 DEF EndedSingle, IsPdf, Single, Alone, Given
    <3>2. FileOf(q)' = FileOf(q)
      BY <1>1, <1>9, <2>3 DEF FileOf, IsPdf
    <3> QED
      BY <1>9, <2>1, <2>3, <3>1, <3>2 DEF Found, SingleIsThere
  <2> QED
    BY <2>2, <2>3
<1>10. CASE Enqueue(o)
  <2>1. UNCHANGED <<nth, s3, labels>> /\ to = "putting"
    BY <1>5, <1>10, <1>1 DEF Enqueue, Upload, TypeOK
  <2>2. PdfIsWhole'
    BY <1>8, <2>1
  <2>3. SingleIsThere'
    BY <1>5, <1>9, <2>1 DEF EndedSingle
  <2> QED
    BY <1>6, <2>2, <2>3 DEF Found
<1>11. CASE PutLabel(o)
  <2>1. UNCHANGED <<nth, labels>> /\ to = "saving" /\ s3' = [s3 EXCEPT ![FileOf(o)] = Content(o)]
    BY <1>5, <1>11, <1>1 DEF PutLabel, Upload, TypeOK
  <2>2. PdfIsWhole'
    BY <1>8, <2>1
  <2>3. ASSUME NEW q \in Order \ {o}, EndedSingle(q) PROVE s3'[FileOf(q)] = s3[FileOf(q)]
    <3>1. FileOf(q) \in Path /\ FileOf(q).number = got[q].first /\ got[q].first \in Given(q)
      BY <2>3, SingleFile DEF EndedSingle, Single
    <3>2. got[q].first # got[o].first
      BY <1>3, <2>3, <3>1 DEF EndedSingle, Alone
    <3>3. FileOf(q) # FileOf(o)
      BY <3>1, <3>2 DEF FileOf
    <3> QED
      BY <1>1, <2>1, <3>1, <3>3 DEF TypeOK
  <2>4. SingleIsThere'
    BY <1>5, <1>9, <2>1, <2>3 DEF EndedSingle
  <2> QED
    BY <1>6, <2>2, <2>4 DEF Found
<1>12. CASE SavePdfLabels(o)
  <2>1. UNCHANGED <<nth, s3>> /\ to = "ended" /\ IsPdf(o)
    BY <1>5, <1>12, <1>1 DEF SavePdfLabels, Upload, TypeOK
  <2>2. CASE Unlabelled(OwnRows(o))
    <3>1. labels' = labels \cup {[row |-> r, path |-> FileOf(o)] : r \in OwnRows(o)}
      BY <1>12, <2>2 DEF SavePdfLabels, OwnRows
    <3>2. \A r \in OwnRows(o) : [row |-> r, path |-> FileOf(o)] \in labels'
      BY <3>1
    <3>3. \A r \in OwnRows(o) : HasLabel(r)'
      BY <3>2 DEF HasLabel
    <3>4. labels \subseteq labels' /\ \A l \in labels' \ labels : l.row \in OwnRows(o)
      BY <3>1
    <3>5. PdfIsWhole'
      BY <1>8, <3>3, <3>4
    <3>6. SingleIsThere'
      BY <1>9, <2>1 DEF EndedSingle, IsPdf
    <3> QED
      BY <1>6, <3>5, <3>6 DEF Found
  <2>3. CASE ~Unlabelled(OwnRows(o))
    <3>1. labels' = labels
      BY <1>12, <2>3 DEF SavePdfLabels, OwnRows
    <3>2. \A r \in OwnRows(o) : HasLabel(r)
      BY <2>1, <2>3 DEF Found, PdfIsWhole, HasLabel, Unlabelled
    <3>3. PdfIsWhole'
      BY <1>8, <3>1, <3>2 DEF HasLabel
    <3>4. SingleIsThere'
      BY <1>9, <2>1 DEF EndedSingle, IsPdf
    <3> QED
      BY <1>6, <3>3, <3>4 DEF Found
  <2> QED
    BY <2>2, <2>3
<1>13. CASE SaveNextLabel(o) /\ (Single(o) \/ ~Unlabelled({FirstRow(o)}))
  <2>1. UNCHANGED <<nth, s3, labels>> /\ ~IsPdf(o) /\ upload[o] = "saving"
    BY <1>13 DEF SaveNextLabel, Upload
  <2>2. PdfIsWhole'
    BY <1>8, <2>1
  <2>3. FirstRow(o) \in s3'[FileOf(o)']
    <3>1. FileOf(o)' = FileOf(o)
      BY <1>1, <2>1 DEF FileOf, IsPdf
    <3> QED
      BY <2>1, <3>1 DEF IInv, PutIsThere, Content
  <2>4. SingleIsThere'
    BY <1>9, <2>1, <2>3
  <2> QED
    BY <1>6, <2>2, <2>4 DEF Found
<1>14. CASE SaveNextLabel(o) /\ ~(Single(o) \/ ~Unlabelled({FirstRow(o)}))
  <2>1. /\ s3' = s3 /\ ~IsPdf(o) /\ to = "putting"
        /\ labels' = labels \cup {[row |-> FirstRow(o), path |-> FileOf(o)]}
        /\ nth' = [nth EXCEPT ![o] = 1]
    BY <1>5, <1>14, <1>1 DEF SaveNextLabel, Upload, TypeOK
  <2>2. PdfIsWhole'
    BY <1>3, <1>8, <2>1
  <2>3. \A q \in Order \ {o} : nth'[q] = nth[q]
    BY <1>1, <2>1 DEF TypeOK
  <2>4. SingleIsThere'
    BY <1>5, <1>9, <2>1, <2>3 DEF EndedSingle
  <2> QED
    BY <1>6, <2>2, <2>4 DEF Found
<1> QED
  BY <1>10, <1>11, <1>12, <1>13, <1>14 DEF UploadLabel

LEMMA NextFound == IInv /\ Found /\ [Next]_vars => Found'
<1> SUFFICES ASSUME IInv, Found, [Next]_vars PROVE Found'
  OBVIOUS
<1> USE DEF poolVars, labelVars
<1>1. TypeOK
  BY DEF IInv
<1>2. ASSUME NEW o \in Order, CheckPool(o) \/ FailOrder(o) PROVE Found'
  <2>1. /\ UNCHANGED <<got, logged, labels, s3, upload, nth>>
        /\ pc'[o] = "rejected" \/ (pc[o] = "checking" /\ pc'[o] = "saving")
        /\ pc[o] \in {"logging", "checking", "saving"}
        /\ \A q \in Order \ {o} : pc'[q] = pc[q]
    BY <1>1, <1>2 DEF CheckPool, FailOrder, Goto, TypeOK
  <2> QED
    BY <2>1, FoundStays
<1>3. ASSUME NEW o \in Order, SaveParcels(o) PROVE Found'
  <2>1. /\ UNCHANGED <<got, logged, labels, s3, nth>> /\ pc[o] = "saving"
        /\ pc'[o] \in {"answered", "rejected"} /\ \A q \in Order \ {o} : pc'[q] = pc[q]
    BY <1>1, <1>3 DEF SaveParcels, Goto, TypeOK
  <2>2. /\ \A q \in Order \ {o} : upload'[q] = upload[q]
        /\ upload'[o] = upload[o] \/ (upload'[o] \in {"enqueuing", "putting"} /\ pc'[o] = "answered")
    BY <1>1, <1>3 DEF SaveParcels, Saved, Goto, TypeOK
  <2>3. ~Imports(o)
    BY <2>1 DEF IInv, AnswerIsKept
  <2> QED
    BY <2>1, <2>2, <2>3, FoundStays
<1>4. ASSUME NEW o \in Order, InsertIntoPool(o) \/ FailPool(o) \/ Archive(o) PROVE Found'
  <2>1. UNCHANGED <<got, logged, labels, s3, nth, pc, upload>>
    BY <1>4 DEF InsertIntoPool, FailPool, Archive
  <2> QED
    BY <2>1, FoundStays
<1>5. ASSUME NEW o \in Order, NEW N \in SUBSET Number, ImportParcels(o, N) PROVE Found'
  <2>1. /\ UNCHANGED <<got, logged, labels, s3, nth, upload>> /\ Imports(o)
        /\ pc[o] = "idle" /\ pc'[o] = "answered" /\ \A q \in Order \ {o} : pc'[q] = pc[q]
    BY <1>1, <1>5 DEF ImportParcels, Goto, Imports, TypeOK
  <2> QED
    BY <2>1, FoundStays
<1>6. ASSUME NEW o \in Order, FailUpload(o) PROVE Found'
  <2>1. /\ UNCHANGED <<got, logged, labels, s3, nth, pc>> /\ upload[o] # "none" /\ upload'[o] = "failed"
        /\ \A q \in Order \ {o} : upload'[q] = upload[q]
    BY <1>1, <1>6 DEF FailUpload, Upload, Uploading, TypeOK
  <2> QED
    BY <2>1, FoundStays
<1>7. CASE Restart
  <2>1. /\ UNCHANGED <<got, logged, labels, s3>>
        /\ \A o \in Order :
             /\ pc'[o] = IF pc[o] \in {"logging", "checking", "saving"} THEN "rejected" ELSE pc[o]
             /\ upload'[o] = AfterRestart(o)
             /\ nth'[o] = IF upload[o] \in {"putting", "saving"} THEN 0 ELSE nth[o]
    BY <1>7 DEF Restart
  <2>2. \A o \in Order : /\ AfterRestart(o) = "ended" => upload[o] = "ended"
                         /\ AfterRestart(o) # "none" => upload[o] # "none"
    BY DEF AfterRestart, Uploading
  <2> QED
    BY <2>1, <2>2, FoundStays
<1>8. CASE UNCHANGED vars
  BY <1>8, FoundStays DEF vars
<1> QED
  BY <1>2, <1>3, <1>4, <1>5, <1>6, <1>7, <1>8, CreateFound, LogFound, UploadFound DEF Next

LEMMA FoundIsServed == IInv /\ Found => LabelServed
<1> SUFFICES ASSUME IInv, Found, NEW r \in hot, UploadedAlone(r.order), NEW p \in PathsServed(r)
             PROVE  r \in s3[p]
  BY DEF LabelServed
<1> DEFINE o == r.order
<1>1. o \in Order /\ r \in Row
  BY DEF IInv, TypeOK, Row
<1>2. upload[o] = "ended" /\ pc[o] = "answered" /\ ~Imports(o) /\ Alone(o) /\ (IsPdf(o) \/ Single(o))
  BY <1>1 DEF UploadedAlone, Found, UploadIsAnswered, Alone
<1>3. r.number \in Given(o)
  BY <1>2 DEF IInv, TypeOK, RowsAreSaved, Ordered, Imports
<1>4. r \in OwnRows(o)
  BY <1>1, <1>3 DEF OwnRows, RowsOf, Row
<1>5. CASE HasLabel(r)
  <2>1. PICK l \in labels : l.row = r /\ l.path = p
    BY <1>5 DEF PathsServed, HasLabel
  <2> QED
    BY <2>1 DEF IInv, LabelHoldsParcel
<1>6. CASE ~HasLabel(r)
  <2>1. ~IsPdf(o) /\ Single(o)
    BY <1>1, <1>2, <1>4, <1>6 DEF Found, PdfIsWhole
  <2>2. r.number = got[o].first /\ r = FirstRow(o)
    BY <1>1, <1>3, <2>1 DEF Single, FirstRow, Row
  <2>3. FormatsLogged(r.number) = {FormatOf[o]}
    <3>1. FormatOf[o] \in FormatsLogged(r.number)
      <4>1. Log(o) \in logged
        BY <1>1, <1>2 DEF Found, SavedIsLogged
      <4>2. Log(o).number = r.number /\ Log(o).format = FormatOf[o]
        BY <2>2 DEF Log
      <4> QED
        BY <4>1, <4>2 DEF FormatsLogged
    <3>2. ASSUME NEW y \in logged, y.number = r.number PROVE y.format = FormatOf[o]
      <4>1. PICK q \in Order : ~Imports(q) /\ pc[q] # "idle" /\ y = Log(q)
        BY DEF Found, LogsAreOwn
      <4>2. got[q].first \in Given(q)
        BY <4>1, AnsweredOrder
      <4>3. q = o
        BY <1>1, <1>2, <1>3, <3>2, <4>1, <4>2 DEF Alone, Log
      <4> QED
        BY <4>1, <4>3 DEF Log
    <3> QED
      BY <3>1, <3>2 DEF FormatsLogged
  <2>4. PathsServed(r) = {PathFor(r.number, FormatOf[o])}
    BY <1>6, <2>3 DEF PathsServed, HasLabel, Extensions
  <2>5. p = FileOf(o)
    BY <1>1, <1>2, <2>1, <2>2, <2>4, SingleFile DEF PathFor, IsPdf
  <2> QED
    BY <1>1, <1>2, <2>1, <2>2, <2>5 DEF Found, SingleIsThere, EndedSingle
<1> QED
  BY <1>5, <1>6

-----------------------------------------------------------------------------
\* The variables keep their types: an order is at one of the steps of create or
\* createMultiParcels, and an upload at one of those of uploadLabel.
THEOREM TypesHold == Spec => []TypeOK
<1>1. IInv => TypeOK
  BY DEF IInv
<1> QED
  BY <1>1, InitIInv, NextIInv, PTL DEF Spec

\* An answered order has a parcel for each of its numbers, however many orders overlap.
THEOREM AnsweredIsAlwaysSaved == Spec => []AnsweredIsSaved
<1>1. IInv => AnsweredIsSaved
  BY DEF IInv
<1> QED
  BY <1>1, InitIInv, NextIInv, PTL DEF Spec

\* The file a label row names holds the label of that parcel until the parcel is archived.
THEOREM LabelAlwaysHoldsParcel == Spec => []LabelHoldsParcel
<1>1. IInv => LabelHoldsParcel
  BY DEF IInv
<1> QED
  BY <1>1, InitIInv, NextIInv, PTL DEF Spec

\* A number that the pool was asked about is given to one parcel only, unless the insert
\* of it into the pool failed.
THEOREM NumbersAreGivenOnce == Spec => NumberGivenOnce
<1> DEFINE Step1 == \A r \in rows' \ rows, q \in rows :
                     Checked(r.order) /\ Ordered(q) /\ q.number = r.number => q.number \in unpooled
<1>1. IInv /\ [Next]_vars => [Step1]_vars
  <2> SUFFICES ASSUME IInv, [Next]_vars PROVE Step1
    OBVIOUS
  <2> QED
    BY NewRowsAreNew
<1> HIDE DEF Step1
<1>2. Spec => [][Step1]_vars
  BY <1>1, InitIInv, NextIInv, PTL DEF Spec
<1> QED
  BY <1>2 DEF Step1, NumberGivenOnce

\* Once its upload has ended, the label of a hot parcel is in every file that getLabelUrls may
\* name for it, for any number of orders, numbers and formats; of orders whose numbers nobody
\* else was given.
THEOREM LabelIsAlwaysServed == Spec => []LabelServed
BY InitIInv, NextIInv, InitFound, NextFound, FoundIsServed, PTL DEF Spec
=============================================================================
