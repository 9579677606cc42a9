------------------------- MODULE TrackingPushProofs --------------------------
(***************************************************************************)
(* TrackingPush implements Outbox, and no row overtakes an older one of    *)
(* its client, for any number of platforms, clients, overlapping           *)
(* executions and failures.                                                *)
(*                                                                         *)
(* The executions do not know of one another.  What makes them safe is     *)
(* that each reads a beginning of the rows that are not marked yet, and    *)
(* that a row that is marked has been sent.                                *)
(***************************************************************************)
EXTENDS TrackingPush, FiniteSetTheorems, TLAPS

BatchKnown == \A r \in Run : batch[r] \subseteq DOMAIN row

\* What an execution has read and need not send any more has been sent.
BatchSent ==
  \A r \in Run : step[r] = "sending" =>
    \A i \in batch[r] : row[i] \in unsent[r] \/ i \in delivered

\* Whatever is older than a row an execution has read was read too, or sent before.
BatchOldest ==
  \A r \in Run : step[r] = "sending" =>
    \A j \in batch[r] : \A i \in DOMAIN row : i < j => i \in batch[r] \/ i \in delivered

MarkedIsDelivered == DOMAIN row \ ready \subseteq delivered

Typed == TypeOK /\ BatchKnown
IInv == Typed /\ BatchSent /\ BatchOldest /\ MarkedIsDelivered /\ NoRowOvertakes

-----------------------------------------------------------------------------
(* The oldest rows of a set. *)

LEMMA OldestIsPart ==
  ASSUME NEW n, NEW S
  PROVE  Oldest(n, S) \subseteq S
BY DEF Oldest

LEMMA OldestIsDownClosed ==
  ASSUME NEW n \in Nat, NEW m \in Nat, NEW S \in SUBSET (1 .. m),
         NEW j \in Oldest(n, S), NEW i \in S, i < j
  PROVE  i \in Oldest(n, S)
<1>1. i \in Int /\ j \in Int /\ \A l \in S : l \in Int
  <2>1. \A l \in S : l \in Int
    OBVIOUS
  <2>2. i \in S /\ j \in S
    BY OldestIsPart
  <2> QED
    BY <2>1, <2>2
<1>2. IsFiniteSet(S)
  <2>1. IsFiniteSet(1 .. m)
    BY FS_Interval
  <2> QED
    BY <2>1, FS_Subset
<1> DEFINE A == {l \in S : l < i}
           B == {l \in S : l < j}
<1>3. A \subseteq B
  <2> SUFFICES ASSUME NEW l \in S, l < i PROVE l < j
    OBVIOUS
  <2>1. l \in Int
    BY <1>1
  <2> QED
    BY <1>1, <2>1
<1>4. IsFiniteSet(B)
  BY <1>2, FS_Subset
<1>5. Cardinality(B) < n
  BY DEF Oldest
<1> HIDE DEF A, B
<1>6. Cardinality(A) \in Nat /\ Cardinality(B) \in Nat /\ Cardinality(A) <= Cardinality(B)
  BY <1>3, <1>4, FS_CardinalityType, FS_Subset
<1>7. Cardinality(A) < n
  BY <1>5, <1>6
<1> QED
  BY <1>7 DEF Oldest, A

-----------------------------------------------------------------------------
(* Types. *)

LEMMA InitTyped == Init => Typed
BY SizeAssumption DEF Init, Typed, TypeOK, BatchKnown

LEMMA NextTyped == Typed /\ [Next]_vars => Typed'
<1> SUFFICES ASSUME Typed, [Next]_vars PROVE Typed'
  OBVIOUS
<1> USE DEF runVars
<1>1. TypeOK /\ BatchKnown
  BY DEF Typed
<1>2. DOMAIN row = 1 .. Len(row) /\ Len(row) \in Nat /\ DOMAIN row \subseteq Id
  BY <1>1, SizeAssumption DEF TypeOK, Id
<1>3. ASSUME NEW g \in Group, AddRows(<<g>>) PROVE Typed'
  <2>1. row' = row \o <<g>> /\ row' \in Seq(Group)
    BY <1>1, <1>3 DEF AddRows, TypeOK
  <2>2. Len(row') = Len(row) + 1 /\ DOMAIN row' = 1 .. Len(row) + 1
    BY <1>1, <2>1 DEF TypeOK
  <2>3. ready' \subseteq DOMAIN row' /\ Len(row') <= MaxRows
    BY <1>1, <1>2, <1>3, <2>2 DEF AddRows, TypeOK
  <2> QED
    BY <1>1, <1>2, <1>3, <2>1, <2>2, <2>3 DEF AddRows, Typed, TypeOK, BatchKnown
<1>4. ASSUME NEW pl \in Platform, Configure(pl) PROVE Typed'
  BY <1>1, <1>4 DEF Configure, Typed, TypeOK, BatchKnown
<1>5. ASSUME NEW r \in Run, FindConfigs(r) PROVE Typed'
  BY <1>1, <1>5 DEF FindConfigs, Typed, TypeOK, BatchKnown
<1>6. ASSUME NEW r \in Run, FindRows(r) PROVE Typed'
  <2> DEFINE found == Oldest(BatchLimit, ready)
  <2>1. found \subseteq DOMAIN row /\ found \subseteq Id
    BY <1>1, <1>2, OldestIsPart DEF TypeOK
  <2>2. {row[i] : i \in found} \subseteq Group
    BY <1>1, <2>1 DEF TypeOK
  <2> HIDE DEF found
  <2>3. /\ batch' = [batch EXCEPT ![r] = found]
        /\ unsent' = [unsent EXCEPT ![r] = {row[i] : i \in found}]
    BY <1>6 DEF FindRows, found
  <2> QED
    BY <1>1, <1>6, <2>1, <2>2, <2>3 DEF FindRows, Typed, TypeOK, BatchKnown
<1>7. ASSUME NEW r \in Run, NEW g \in Group, Send(r, g) PROVE Typed'
  BY <1>1, <1>7 DEF Send, Typed, TypeOK, BatchKnown
<1>8. ASSUME NEW r \in Run, MarkSuccess(r) PROVE Typed'
  BY <1>1, <1>8 DEF MarkSuccess, End, Typed, TypeOK, BatchKnown
<1>9. ASSUME NEW r \in Run, NoConfig(r) PROVE Typed'
  BY <1>1, <1>9 DEF NoConfig, End, Typed, TypeOK, BatchKnown
<1>10. ASSUME NEW r \in Run, Break(r) PROVE Typed'
  BY <1>1, <1>10 DEF Break, End, Typed, TypeOK, BatchKnown
<1>11. CASE UNCHANGED vars
  BY <1>1, <1>11 DEF vars, Typed, TypeOK, BatchKnown
<1> QED
  BY <1>3, <1>4, <1>5, <1>6, <1>7, <1>8, <1>9, <1>10, <1>11 DEF Next, RunStep

\* The table, the configurations and the memory of the executions keep their types.
THEOREM TypesHold == Spec => []TypeOK
<1>1. Typed => TypeOK
  BY DEF Typed
<1> QED
  BY <1>1, InitTyped, NextTyped, PTL DEF Spec

-----------------------------------------------------------------------------
(* The invariant. *)

LEMMA InitInv == Init => IInv
<1> SUFFICES ASSUME Init PROVE IInv
  OBVIOUS
<1>1. Typed
  BY InitTyped
<1> QED
  BY <1>1 DEF Init, IInv, BatchSent, BatchOldest, MarkedIsDelivered, NoRowOvertakes

\* What a step of one execution does to the claims about the others: nothing, as long
\* as it leaves the rows alone and takes back no message.
OthersKept(r) ==
  \A s \in Run : s # r =>
    step'[s] = step[s] /\ batch'[s] = batch[s] /\ unsent'[s] = unsent[s]

LEMMA EndKeeps ==
  ASSUME IInv, NEW r \in Run, step'[r] # "sending", OthersKept(r),
         UNCHANGED <<row, delivered>>
  PROVE  BatchSent' /\ BatchOldest'
BY DEF IInv, OthersKept, BatchSent, BatchOldest

LEMMA NextInv == IInv /\ [Next]_vars => IInv'
<1> SUFFICES ASSUME IInv, [Next]_vars PROVE IInv'
  OBVIOUS
<1> USE DEF runVars
<1>1. TypeOK /\ BatchKnown /\ Typed'
  BY NextTyped DEF IInv, Typed
<1>2. DOMAIN row = 1 .. Len(row) /\ Len(row) \in Nat
  BY <1>1 DEF TypeOK
<1>3. BatchSent /\ BatchOldest /\ MarkedIsDelivered /\ NoRowOvertakes
  BY DEF IInv
<1> DEFINE Rest == BatchSent' /\ BatchOldest' /\ MarkedIsDelivered' /\ NoRowOvertakes'
<1>4. ASSUME NEW g \in Group, AddRows(<<g>>) PROVE Rest
  <2>1. /\ DOMAIN row' = DOMAIN row \cup {Len(row) + 1}
        /\ \A i \in DOMAIN row : row'[i] = row[i]
        /\ ready' = ready \cup {Len(row) + 1}
    BY <1>1, <1>4 DEF AddRows, TypeOK
  <2>2. UNCHANGED <<step, batch, unsent, delivered>>
    BY <1>4 DEF AddRows
  <2>3. BatchSent'
    BY <1>1, <1>3, <2>1, <2>2 DEF BatchSent, BatchKnown
  <2>4. BatchOldest'
    BY <1>1, <1>2, <1>3, <2>1, <2>2 DEF BatchOldest, BatchKnown
  <2>5. MarkedIsDelivered'
    BY <1>3, <2>1, <2>2 DEF MarkedIsDelivered
  <2>6. NoRowOvertakes'
    BY <1>1, <1>2, <1>3, <2>1, <2>2 DEF NoRowOvertakes, TypeOK
  <2> QED
    BY <2>3, <2>4, <2>5, <2>6
<1>5. ASSUME NEW pl \in Platform, Configure(pl) PROVE Rest
  BY <1>3, <1>5 DEF Configure, BatchSent, BatchOldest, MarkedIsDelivered, NoRowOvertakes
<1>6. ASSUME NEW r \in Run, OthersKept(r), step'[r] # "sending",
             UNCHANGED <<row, ready, delivered>>
      PROVE  Rest
  BY <1>3, <1>6, EndKeeps DEF MarkedIsDelivered, NoRowOvertakes
<1>7. ASSUME NEW r \in Run, FindConfigs(r) PROVE Rest
  BY <1>1, <1>6, <1>7 DEF FindConfigs, OthersKept, TypeOK
<1>8. ASSUME NEW r \in Run, FindRows(r) PROVE Rest
  <2> DEFINE found == Oldest(BatchLimit, ready)
  <2>1. \A j \in found : \A i \in ready : i < j => i \in found
    BY <1>1, <1>2, SizeAssumption, OldestIsDownClosed DEF TypeOK
  <2> HIDE DEF found
  <2>2. /\ step' = [step EXCEPT ![r] = "sending"]
        /\ batch' = [batch EXCEPT ![r] = found]
        /\ unsent' = [unsent EXCEPT ![r] = {row[i] : i \in found}]
        /\ UNCHANGED <<row, ready, delivered>>
    BY <1>8 DEF FindRows, found
  <2>3. batch'[r] = found /\ unsent'[r] = {row[i] : i \in found} /\ OthersKept(r)
    BY <1>1, <2>2 DEF TypeOK, OthersKept
  <2>4. BatchSent'
    BY <1>3, <2>2, <2>3 DEF BatchSent, OthersKept
  <2>5. \A j \in found : \A i \in DOMAIN row : i < j => i \in found \/ i \in delivered
    BY <1>3, <2>1 DEF MarkedIsDelivered
  <2>6. BatchOldest'
    BY <1>3, <2>2, <2>3, <2>5 DEF BatchOldest, OthersKept
  <2> QED
    BY <1>3, <2>2, <2>4, <2>6 DEF MarkedIsDelivered, NoRowOvertakes
<1>9. ASSUME NEW r \in Run, NEW g \in Group, Send(r, g) PROVE Rest
  <2> DEFINE sent == {i \in batch[r] : row[i] = g}
  <2>1. /\ step[r] = "sending"
        /\ unsent' = [unsent EXCEPT ![r] = @ \ {g}]
        /\ delivered' = delivered \cup sent
        /\ UNCHANGED <<row, ready, step, batch>>
    BY <1>9 DEF Send
  <2>2. BatchSent'
    BY <1>1, <1>3, <2>1 DEF BatchSent, TypeOK
  <2>3. BatchOldest'
    BY <1>3, <2>1 DEF BatchOldest
  <2>4. MarkedIsDelivered'
    BY <1>3, <2>1 DEF MarkedIsDelivered
  <2>5. \A j \in sent : \A i \in DOMAIN row :
          i < j /\ row[i] = row[j] => i \in sent \/ i \in delivered
    BY <1>3, <2>1 DEF BatchOldest
  <2>6. NoRowOvertakes'
    BY <1>3, <2>1, <2>5 DEF NoRowOvertakes
  <2> QED
    BY <2>2, <2>3, <2>4, <2>6
<1>10. ASSUME NEW r \in Run, MarkSuccess(r) PROVE Rest
  <2>1. batch[r] \subseteq delivered
    BY <1>3, <1>10 DEF MarkSuccess, BatchSent
  <2>2. OthersKept(r) /\ step'[r] = "idle" /\ UNCHANGED <<row, delivered>>
    BY <1>1, <1>10 DEF MarkSuccess, End, OthersKept, TypeOK
  <2>3. MarkedIsDelivered'
    BY <1>3, <1>10, <2>1, <2>2 DEF MarkSuccess, MarkedIsDelivered
  <2> QED
    BY <1>3, <2>2, <2>3, EndKeeps DEF NoRowOvertakes
<1>11. ASSUME NEW r \in Run, NoConfig(r) \/ Break(r) PROVE Rest
  BY <1>1, <1>6, <1>11 DEF NoConfig, Break, End, OthersKept, TypeOK
<1>12. ASSUME UNCHANGED vars PROVE Rest
  BY <1>3, <1>12 DEF vars, BatchSent, BatchOldest, MarkedIsDelivered, NoRowOvertakes
<1>13. Rest
  BY <1>4, <1>5, <1>7, <1>8, <1>9, <1>10, <1>11, <1>12 DEF Next, RunStep
<1> QED
  BY <1>1, <1>13 DEF IInv

THEOREM Invariance == Spec => []IInv
<1> QED
  BY InitInv, NextInv, PTL DEF Spec

\* No client learns of a row before an older one of its own, whichever executions
\* overlap, send the same rows again, or break off.
THEOREM NoRowEverOvertakes == Spec => []NoRowOvertakes
<1>1. IInv => NoRowOvertakes
  BY DEF IInv
<1> QED
  BY <1>1, Invariance, PTL

-----------------------------------------------------------------------------
(* Every step of the job is a step of the outbox, or none that it can see. *)

LEMMA InitImplements == Init => Box!Init
BY DEF Init, Box!Init

LEMMA NextImplements == IInv /\ [Next]_vars => [Box!Next]_(Box!vars)
<1> SUFFICES ASSUME IInv, [Next]_vars PROVE Box!Next \/ UNCHANGED Box!vars
  OBVIOUS
<1> USE DEF runVars
<1>1. TypeOK /\ BatchKnown /\ DOMAIN row = 1 .. Len(row) /\ Len(row) \in Nat
  BY DEF IInv, Typed, TypeOK
<1>2. DOMAIN row \subseteq Id
  BY <1>1, SizeAssumption DEF TypeOK, Id
<1>3. ASSUME NEW g \in Group, AddRows(<<g>>) PROVE Box!Next
  <2> DEFINE n == Len(row) + 1
  <2>1. /\ n \notin DOMAIN row /\ n \in Id
        /\ DOMAIN row' = DOMAIN row \cup {n}
        /\ ready' = ready \cup {n}
        /\ UNCHANGED delivered
    BY <1>1, <1>3, SizeAssumption DEF AddRows, TypeOK, Id
  <2> HIDE DEF n
  <2>2. Box!Request({n})
    BY <2>1 DEF Box!Request
  <2> QED
    BY <2>1, <2>2 DEF Box!Next
<1>4. ASSUME NEW r \in Run, NEW g \in Group, Send(r, g) PROVE Box!Next
  <2>1. Box!Deliver({i \in batch[r] : row[i] = g})
    BY <1>1, <1>4 DEF Send, BatchKnown, Box!Deliver
  <2> QED
    BY <1>1, <1>2, <2>1 DEF BatchKnown, Box!Next
<1>5. ASSUME NEW r \in Run, MarkSuccess(r) PROVE Box!Next
  <2>1. batch[r] \subseteq delivered
    BY <1>5 DEF MarkSuccess, IInv, BatchSent
  <2>2. Box!Remove(batch[r])
    BY <1>5, <2>1 DEF MarkSuccess, Box!Remove
  <2> QED
    BY <1>1, <1>2, <2>2 DEF BatchKnown, Box!Next
<1>6. ASSUME UNCHANGED <<row, ready, delivered>> PROVE UNCHANGED Box!vars
  BY <1>6 DEF Box!vars
<1> QED
  BY <1>3, <1>4, <1>5, <1>6 DEF Next, RunStep, Configure, FindConfigs, FindRows, NoConfig, Break, vars

\* TrackingPushJob keeps the promise of the outbox, and excuses nothing: a row is marked
\* only once it was sent.
THEOREM JobImplementsOutbox == Spec => ImplementsOutbox
<1> QED
  BY InitImplements, NextImplements, Invariance, PTL DEF Spec, ImplementsOutbox, Box!Spec
=============================================================================
