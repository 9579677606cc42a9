-------------------------- MODULE ParcelPushProofs ---------------------------
(***************************************************************************)
(* ParcelPush implements Outbox, its log misses nothing, and a parcel is    *)
(* synced only when something of it was sent, for any number of platforms, *)
(* parcels, overlapping executions and failures; and without failures what *)
(* is sent is in order.                                                    *)
(*                                                                         *)
(* The first three rest on the same invariant: where a platform's function *)
(* stands tells what has already happened to the chunk it has in hand.     *)
(* For the order it matters what an execution leaves in the outbox: only   *)
(* newer requests than it has read.                                        *)
(***************************************************************************)
EXTENDS ParcelPush, FiniteSetTheorems, TLAPS

\* Ids in hand are ids of requests, and ids stay within the bound.
InHand ==
  /\ Len(request) <= MaxRequests
  /\ \A r \in Run : \A pl \in Platform : rest[r][pl] \subseteq DOMAIN request

ChunkSent ==
  \A r \in Run : \A pl \in Platform :
    worker[r][pl] \in {"logging", "deleting"} => Chunk(r, pl) \subseteq Delivered

ChunkLogged ==
  \A r \in Run : \A pl \in Platform :
    worker[r][pl] = "deleting" => Chunk(r, pl) \subseteq logged

IInv == TypeOK /\ InHand /\ ChunkSent /\ ChunkLogged /\ GoneIsLogged

-----------------------------------------------------------------------------
(* Operators. *)

LEMMA OldestIsPart ==
  ASSUME NEW n, NEW S
  PROVE  Oldest(n, S) \subseteq S
BY DEF Oldest

LEMMA ChunkIsPart ==
  ASSUME NEW r \in Run, NEW pl \in Platform
  PROVE  Chunk(r, pl) \subseteq rest[r][pl]
BY OldestIsPart DEF Chunk

\* A message adds its requests to what is delivered, and nothing else does.
LEMMA SentByMessage ==
  ASSUME TypeOK, NEW r \in Run, NEW pl \in Platform, PushMessage(r, pl)
  PROVE  /\ Delivered' = Delivered \cup Chunk(r, pl)
         /\ Sent(pl)' = Sent(pl) \cup Chunk(r, pl)
         /\ \A q \in Platform \ {pl} : Sent(q)' = Sent(q)
<1>1. topic' = [topic EXCEPT ![pl] = Append(@, Chunk(r, pl))]
  BY DEF PushMessage
<1>2. topic \in [Platform -> Seq(SUBSET Id)] /\ Chunk(r, pl) \in SUBSET Id
  BY ChunkIsPart DEF TypeOK
<1>3. \A q \in Platform : q # pl => Sent(q)' = Sent(q)
  BY <1>1, <1>2 DEF Sent
<1>4. Sent(pl)' = Sent(pl) \cup Chunk(r, pl)
  <2> DEFINE t == topic[pl]
             c == Chunk(r, pl)
  <2>1. t \in Seq(SUBSET Id) /\ topic'[pl] = Append(t, c)
    BY <1>1, <1>2
  <2> HIDE DEF t, c
  <2>2. /\ DOMAIN Append(t, c) = DOMAIN t \cup {Len(t) + 1}
        /\ \A n \in DOMAIN t : Append(t, c)[n] = t[n]
        /\ Append(t, c)[Len(t) + 1] = c
    BY <2>1
  <2>3. UNION {Append(t, c)[n] : n \in DOMAIN Append(t, c)}
          = (UNION {t[n] : n \in DOMAIN t}) \cup c
    BY <2>2
  <2> QED
    BY <2>1, <2>3 DEF Sent, t, c
<1> QED
  BY <1>3, <1>4 DEF Delivered

LEMMA DeliveredStays ==
  ASSUME UNCHANGED topic
  PROVE  Delivered' = Delivered
BY DEF Delivered, Sent

LEMMA RequestsGrow ==
  ASSUME TypeOK, [Next]_pushVars
  PROVE  /\ DOMAIN request \subseteq DOMAIN request'
         /\ \A i \in DOMAIN request : request'[i] = request[i]
<1>1. ASSUME NEW q \in Request, RequestPushes(<<q>>)
      PROVE  /\ DOMAIN request \subseteq DOMAIN request'
             /\ \A i \in DOMAIN request : request'[i] = request[i]
  BY <1>1 DEF RequestPushes, TypeOK
<1>2. ASSUME UNCHANGED request
      PROVE  /\ DOMAIN request \subseteq DOMAIN request'
             /\ \A i \in DOMAIN request : request'[i] = request[i]
  BY <1>2
<1> QED
  BY <1>1, <1>2 DEF Next, JobStep, RunStep, WorkerAction, Configure, FindRequests, ReadConfigs,
     Discard, RemoveUnwanted, PushMessage, InsertLog, DeleteRequests, SetSync, EndRun,
     FailReading, FailWorker, Restart, tables, pushVars

-----------------------------------------------------------------------------
(* Types, and what is in hand. *)

Typed == TypeOK /\ InHand

LEMMA InitTyped == Init => Typed
<1> SUFFICES ASSUME Init PROVE Typed
  OBVIOUS
<1>1. DOMAIN request = {} /\ Len(request) = 0
  BY DEF Init
<1>2. Idle \in [Platform -> WorkerStep] /\ Nothing \in [Platform -> SUBSET Id]
  BY DEF Idle, Nothing, WorkerStep
<1> QED
  BY <1>1, <1>2, BoundAssumption DEF Init, Typed, TypeOK, InHand, Nothing

LEMMA NextTyped == Typed /\ [Next]_pushVars => Typed'
<1> SUFFICES ASSUME Typed, [Next]_pushVars PROVE Typed'
  OBVIOUS
<1>1. TypeOK /\ InHand
  BY DEF Typed
<1>2. DOMAIN request = 1 .. Len(request) /\ Len(request) \in Nat
  BY <1>1 DEF TypeOK
<1>3. DOMAIN request \subseteq Id
  BY <1>1, <1>2, BoundAssumption DEF InHand, Id
<1> USE DEF tables
<1>4. ASSUME NEW q \in Request, RequestPushes(<<q>>) PROVE Typed'
  <2>1. request' = request \o <<q>> /\ request' \in Seq(Request)
    BY <1>1, <1>4 DEF TypeOK, RequestPushes
  <2>2. Len(request') = Len(request) + 1 /\ DOMAIN request' = 1 .. Len(request) + 1
    BY <1>1, <2>1 DEF TypeOK
  <2>3. Len(request') <= MaxRequests
    BY <1>4, <2>2 DEF RequestPushes
  <2>4. outbox' \subseteq DOMAIN request'
    BY <1>1, <1>2, <1>4, <2>2 DEF RequestPushes, TypeOK
  <2>5. DOMAIN request \subseteq DOMAIN request'
    BY <1>2, <2>2
  <2> QED
    BY <1>1, <1>4, <2>1, <2>3, <2>4, <2>5 DEF RequestPushes, Typed, TypeOK, InHand
<1>5. ASSUME NEW pl \in Platform, Configure(pl) PROVE Typed'
  BY <1>1, <1>5 DEF Configure, Typed, TypeOK, InHand
<1>6. ASSUME NEW r \in Run, FindRequests(r) PROVE Typed'
  <2> DEFINE batch == Oldest(BatchLimit, outbox)
  <2>1. \A pl \in Platform : For(pl, batch) \subseteq DOMAIN request
    BY <1>1, OldestIsPart DEF For, TypeOK
  <2> HIDE DEF batch
  <2>2. /\ rest' = [rest EXCEPT ![r] = [pl \in Platform |-> For(pl, batch)]]
        /\ worker' = [worker EXCEPT ![r] = [pl \in Platform |->
                         IF For(pl, batch) = {} THEN "idle" ELSE "reading"]]
    BY <1>6 DEF FindRequests, batch
  <2>3. rest' \in [Run -> [Platform -> SUBSET Id]]
    BY <1>1, <1>3, <2>1, <2>2 DEF TypeOK
  <2>4. worker' \in [Run -> [Platform -> WorkerStep]]
    BY <1>1, <2>2 DEF TypeOK, WorkerStep
  <2>5. \A s \in Run : \A pl \in Platform : rest'[s][pl] \subseteq DOMAIN request
    BY <1>1, <2>1, <2>2 DEF InHand, TypeOK
  <2> QED
    BY <1>1, <1>6, <2>3, <2>4, <2>5 DEF FindRequests, Typed, TypeOK, InHand
<1>7. ASSUME NEW r \in Run, ReadConfigs(r) PROVE Typed'
  <2>1. worker' \in [Run -> [Platform -> WorkerStep]]
    BY <1>1, <1>7 DEF ReadConfigs, TypeOK, WorkerStep
  <2> QED
    BY <1>1, <1>7, <2>1 DEF ReadConfigs, Typed, TypeOK, InHand
<1>8. ASSUME NEW r \in Run, NEW pl \in Platform, WorkerAction(r, pl) PROVE Typed'
  <2>1. worker' \in [Run -> [Platform -> WorkerStep]]
    <3>1. ASSUME NEW from, NEW to \in WorkerStep, Goto(r, pl, from, to)
          PROVE  worker' \in [Run -> [Platform -> WorkerStep]]
      BY <1>1, <3>1 DEF Goto, TypeOK
    <3>2. /\ "done" \in WorkerStep /\ "pushing" \in WorkerStep /\ "logging" \in WorkerStep
          /\ "deleting" \in WorkerStep /\ "syncing" \in WorkerStep
      BY DEF WorkerStep
    <3> QED
      BY <1>8, <3>1, <3>2 DEF WorkerAction, Discard, RemoveUnwanted, PushMessage, InsertLog,
         DeleteRequests, SetSync
  <2>2. /\ rest[r][pl] \subseteq DOMAIN request
        /\ Chunk(r, pl) \subseteq DOMAIN request
        /\ Chunk(r, pl) \subseteq Id
    BY <1>1, <1>3, ChunkIsPart DEF InHand
  <2>3. CASE Discard(r, pl)
    BY <1>1, <2>1, <2>2, <2>3 DEF Discard, Drop, Typed, TypeOK, InHand
  <2>4. CASE RemoveUnwanted(r, pl)
    <3>1. Wanted(rest[r][pl]) \subseteq rest[r][pl]
      BY DEF Wanted
    <3> QED
      BY <1>1, <2>1, <2>2, <2>4, <3>1 DEF RemoveUnwanted, Drop, Typed, TypeOK, InHand
  <2>5. CASE PushMessage(r, pl)
    <3>1. topic' \in [Platform -> Seq(SUBSET Id)]
      BY <1>1, <2>2, <2>5 DEF PushMessage, TypeOK
    <3> QED
      BY <1>1, <2>1, <2>5, <3>1 DEF PushMessage, Typed, TypeOK, InHand
  <2>6. CASE InsertLog(r, pl)
    BY <1>1, <2>1, <2>2, <2>6 DEF InsertLog, Typed, TypeOK, InHand
  <2>7. CASE DeleteRequests(r, pl)
    BY <1>1, <2>1, <2>7 DEF DeleteRequests, Typed, TypeOK, InHand
  <2>8. CASE SetSync(r, pl)
    <3>1. \A i \in DOMAIN request : request[i] \in Request
      BY <1>1 DEF TypeOK
    <3>2. ParcelsOf(Chunk(r, pl)) \subseteq Parcel
      BY <2>2, <3>1 DEF ParcelsOf, Request
    <3> QED
      BY <1>1, <2>1, <2>8, <3>2 DEF SetSync, Typed, TypeOK, InHand
  <2> QED
    BY <1>8, <2>3, <2>4, <2>5, <2>6, <2>7, <2>8 DEF WorkerAction
<1>9. ASSUME NEW r \in Run, EndRun(r) PROVE Typed'
  BY <1>1, <1>9 DEF EndRun, Idle, Typed, TypeOK, InHand, WorkerStep
<1>10. ASSUME NEW r \in Run, FailReading(r) PROVE Typed'
  BY <1>1, <1>10 DEF FailReading, Idle, Nothing, Typed, TypeOK, InHand, WorkerStep
<1>11. ASSUME NEW r \in Run, NEW pl \in Platform, FailWorker(r, pl) PROVE Typed'
  BY <1>1, <1>11 DEF FailWorker, Typed, TypeOK, InHand, WorkerStep
<1>12. CASE Restart
  BY <1>1, <1>12 DEF Restart, Idle, Nothing, Typed, TypeOK, InHand, WorkerStep
<1>13. CASE UNCHANGED pushVars
  BY <1>1, <1>13 DEF pushVars, Typed, TypeOK, InHand
<1> QED
  BY <1>4, <1>5, <1>6, <1>7, <1>8, <1>9, <1>10, <1>11, <1>12, <1>13
  DEF Next, JobStep, RunStep

\* The tables, the Kafka topics and the memory of the executions keep their types.
THEOREM TypesHold == Spec => []TypeOK
<1>1. Spec => []Typed
  BY InitTyped, NextTyped, PTL DEF Spec
<1>2. Typed => TypeOK
  BY DEF Typed
<1> QED
  BY <1>1, <1>2, PTL

-----------------------------------------------------------------------------
(* The invariant. *)

LEMMA InitInv == Init => IInv
<1> SUFFICES ASSUME Init PROVE IInv
  OBVIOUS
<1>1. TypeOK /\ InHand
  BY InitTyped DEF Typed
<1>2. ChunkSent /\ ChunkLogged
  BY DEF Init, Idle, ChunkSent, ChunkLogged
<1>3. GoneIsLogged
  BY DEF Init, GoneIsLogged
<1> QED
  BY <1>1, <1>2, <1>3 DEF IInv

\* A step that leaves a function where it is, or takes it out of reach of the two
\* claims, and takes nothing out of the topics and the log.
LEMMA OthersUndisturbed ==
  ASSUME IInv, NEW r \in Run, NEW pl \in Platform,
         worker'[r][pl] \in {"logging", "deleting"} =>
           worker'[r][pl] = worker[r][pl] /\ rest'[r][pl] = rest[r][pl],
         Delivered \subseteq Delivered', logged \subseteq logged'
  PROVE  /\ worker'[r][pl] \in {"logging", "deleting"} => Chunk(r, pl)' \subseteq Delivered'
         /\ worker'[r][pl] = "deleting" => Chunk(r, pl)' \subseteq logged'
BY DEF IInv, ChunkSent, ChunkLogged, Chunk

Undisturbed(r, pl) ==
  worker'[r][pl] \in {"logging", "deleting"} =>
    worker'[r][pl] = worker[r][pl] /\ rest'[r][pl] = rest[r][pl]

LEMMA NothingMoved ==
  ASSUME IInv, \A r \in Run : \A pl \in Platform : Undisturbed(r, pl),
         UNCHANGED topic, logged \subseteq logged'
  PROVE  ChunkSent' /\ ChunkLogged'
BY OthersUndisturbed, DeliveredStays DEF Undisturbed, ChunkSent, ChunkLogged

LEMMA NextInv == IInv /\ [Next]_pushVars => IInv'
<1> SUFFICES ASSUME IInv, [Next]_pushVars PROVE IInv'
  OBVIOUS
<1>1. TypeOK /\ InHand /\ Typed'
  BY NextTyped DEF IInv, Typed
<1> USE DEF tables
<1>2. /\ DOMAIN request \subseteq DOMAIN request'
      /\ \A i \in DOMAIN request : request'[i] = request[i]
  BY <1>1, RequestsGrow
<1> DEFINE Rest == ChunkSent' /\ ChunkLogged' /\ GoneIsLogged'
<1>3. GoneIsLogged
  BY DEF IInv
<1>4. ASSUME NEW q \in Request, RequestPushes(<<q>>) PROVE Rest
  <2>1. ChunkSent' /\ ChunkLogged'
    BY <1>4, NothingMoved DEF RequestPushes, Undisturbed
  <2>2. DOMAIN request' \ DOMAIN request \subseteq outbox'
    BY <1>1, <1>4 DEF RequestPushes, TypeOK
  <2>3. outbox \subseteq outbox'
    BY <1>4 DEF RequestPushes
  <2> QED
    BY <1>3, <1>4, <2>1, <2>2, <2>3 DEF RequestPushes, GoneIsLogged
<1>5. ASSUME NEW pl \in Platform, Configure(pl) PROVE Rest
  BY <1>3, <1>5, NothingMoved DEF Configure, Undisturbed, GoneIsLogged
<1>6. ASSUME NEW r \in Run, FindRequests(r) PROVE Rest
  <2>1. \A s \in Run : \A pl \in Platform : Undisturbed(s, pl)
    BY <1>1, <1>6 DEF FindRequests, Undisturbed, TypeOK
  <2> QED
    BY <1>3, <1>6, <2>1, NothingMoved DEF FindRequests, GoneIsLogged
<1>7. ASSUME NEW r \in Run, ReadConfigs(r) PROVE Rest
  <2>1. \A s \in Run : \A pl \in Platform : Undisturbed(s, pl)
    BY <1>1, <1>7 DEF ReadConfigs, Undisturbed, TypeOK
  <2> QED
    BY <1>3, <1>7, <2>1, NothingMoved DEF ReadConfigs, GoneIsLogged
<1>8. ASSUME NEW r \in Run, NEW pl \in Platform, WorkerAction(r, pl) PROVE Rest
  <2>1. CASE Discard(r, pl)
    <3>1. \A s \in Run : \A q \in Platform : Undisturbed(s, q)
      BY <1>1, <2>1 DEF Discard, Goto, Undisturbed, TypeOK
    <3> QED
      BY <1>3, <2>1, <3>1, NothingMoved DEF Discard, Drop, GoneIsLogged
  <2>2. CASE RemoveUnwanted(r, pl)
    <3>1. \A s \in Run : \A q \in Platform : Undisturbed(s, q)
      BY <1>1, <2>2 DEF RemoveUnwanted, Goto, Undisturbed, TypeOK
    <3> QED
      BY <1>3, <2>2, <3>1, NothingMoved DEF RemoveUnwanted, Drop, GoneIsLogged
  <2>3. CASE PushMessage(r, pl)
    <3>1. Delivered' = Delivered \cup Chunk(r, pl)
      BY <1>1, <2>3, SentByMessage
    <3>2. /\ worker' = [worker EXCEPT ![r][pl] = "logging"]
          /\ UNCHANGED <<rest, logged, outbox, excused, request>>
      BY <2>3 DEF PushMessage, Goto
    <3>3. Chunk(r, pl)' = Chunk(r, pl)
      BY <3>2 DEF Chunk
    <3>4. \A s \in Run : \A q \in Platform : ~(s = r /\ q = pl) => Undisturbed(s, q)
      BY <1>1, <3>2 DEF Undisturbed, TypeOK
    <3>5. worker'[r][pl] = "logging"
      BY <1>1, <3>2 DEF TypeOK
    <3>6. ChunkSent' /\ ChunkLogged'
      BY <3>1, <3>2, <3>3, <3>4, <3>5, OthersUndisturbed
      DEF Undisturbed, ChunkSent, ChunkLogged
    <3> QED
      BY <1>3, <3>2, <3>6 DEF GoneIsLogged
  <2>4. CASE InsertLog(r, pl)
    <3>1. /\ worker' = [worker EXCEPT ![r][pl] = "deleting"]
          /\ logged' = logged \cup Chunk(r, pl)
          /\ UNCHANGED <<rest, topic, outbox, excused, request>>
          /\ worker[r][pl] = "logging"
      BY <2>4 DEF InsertLog, Goto
    <3>2. Chunk(r, pl)' = Chunk(r, pl) /\ Delivered' = Delivered
      BY <3>1, DeliveredStays DEF Chunk
    <3>3. \A s \in Run : \A q \in Platform : ~(s = r /\ q = pl) => Undisturbed(s, q)
      BY <1>1, <3>1 DEF Undisturbed, TypeOK
    <3>4. Chunk(r, pl) \subseteq Delivered
      BY <3>1 DEF IInv, ChunkSent
    <3>5. ChunkSent' /\ ChunkLogged'
      BY <3>1, <3>2, <3>3, <3>4, OthersUndisturbed
      DEF Undisturbed, ChunkSent, ChunkLogged
    <3> QED
      BY <1>3, <3>1, <3>5 DEF GoneIsLogged
  <2>5. CASE DeleteRequests(r, pl)
    <3>1. \A s \in Run : \A q \in Platform : Undisturbed(s, q)
      BY <1>1, <2>5 DEF DeleteRequests, Goto, Undisturbed, TypeOK
    <3>2. Chunk(r, pl) \subseteq logged
      BY <2>5 DEF DeleteRequests, Goto, IInv, ChunkLogged
    <3> QED
      BY <1>3, <2>5, <3>1, <3>2, NothingMoved DEF DeleteRequests, GoneIsLogged
  <2>6. CASE SetSync(r, pl)
    <3>1. \A s \in Run : \A q \in Platform : Undisturbed(s, q)
      BY <1>1, <2>6 DEF SetSync, Goto, Undisturbed, TypeOK
    <3> QED
      BY <1>3, <2>6, <3>1, NothingMoved DEF SetSync, GoneIsLogged
  <2> QED
    BY <1>8, <2>1, <2>2, <2>3, <2>4, <2>5, <2>6 DEF WorkerAction
<1>9. ASSUME UNCHANGED <<tables, topic, excused>>,
             \A s \in Run : \A q \in Platform : Undisturbed(s, q)
      PROVE  Rest
  BY <1>3, <1>9, NothingMoved DEF GoneIsLogged
<1>10. ASSUME NEW r \in Run, EndRun(r) \/ FailReading(r) PROVE Rest
  <2>1. \A s \in Run : \A q \in Platform :
          worker'[s][q] \in {"logging", "deleting"} => s # r
    BY <1>1, <1>10 DEF EndRun, FailReading, Idle, TypeOK
  <2>2. \A s \in Run : s # r => worker'[s] = worker[s] /\ rest'[s] = rest[s]
    BY <1>1, <1>10 DEF EndRun, FailReading, TypeOK
  <2> QED
    BY <1>9, <1>10, <2>1, <2>2 DEF EndRun, FailReading, Undisturbed
<1>11. ASSUME NEW r \in Run, NEW pl \in Platform, FailWorker(r, pl) PROVE Rest
  BY <1>1, <1>9, <1>11 DEF FailWorker, Undisturbed, TypeOK
<1>12. ASSUME Restart PROVE Rest
  BY <1>9, <1>12 DEF Restart, Idle, Undisturbed
<1>13. ASSUME UNCHANGED pushVars PROVE Rest
  BY <1>9, <1>13 DEF pushVars, Undisturbed
<1>14. Rest
  BY <1>4, <1>5, <1>6, <1>7, <1>8, <1>10, <1>11, <1>12, <1>13 DEF Next, JobStep, RunStep
<1> QED
  BY <1>1, <1>14 DEF IInv, Typed

THEOREM Invariance == Spec => []IInv
<1> QED
  BY InitInv, NextInv, PTL DEF Spec

\* Whatever has left the outbox after it was sent is in the log, although the two
\* tables are written one after the other.
THEOREM GoneIsAlwaysLogged == Spec => []GoneIsLogged
<1>1. IInv => GoneIsLogged
  BY DEF IInv
<1> QED
  BY <1>1, Invariance, PTL

-----------------------------------------------------------------------------
(* Every step of the job is a step of the outbox, or none that it can see. *)

LEMMA InitImplements == Init => Box!Init
<1> SUFFICES ASSUME Init PROVE Box!Init
  OBVIOUS
<1>1. DOMAIN request = {}
  BY DEF Init
<1>2. Delivered = {}
  BY DEF Init, Delivered, Sent
<1> QED
  BY <1>1, <1>2 DEF Init, Box!Init

LEMMA NextImplements == IInv /\ [Next]_pushVars => [Box!Next]_(Box!vars)
<1> SUFFICES ASSUME IInv, [Next]_pushVars PROVE Box!Next \/ UNCHANGED Box!vars
  OBVIOUS
<1> USE DEF tables
<1>1. TypeOK /\ InHand
  BY DEF IInv
<1>2. DOMAIN request \subseteq Id /\ Len(request) \in Nat
  BY <1>1, BoundAssumption DEF TypeOK, InHand, Id
<1>3. ASSUME NEW q \in Request, RequestPushes(<<q>>) PROVE Box!Next
  <2> DEFINE n == Len(request) + 1
  <2>1. request' = request \o <<q>> /\ n \in Id
    BY <1>2, <1>3, BoundAssumption DEF RequestPushes, Id
  <2>2. /\ n \notin DOMAIN request
        /\ DOMAIN request' = DOMAIN request \cup {n}
        /\ n .. Len(request) + Len(<<q>>) = {n}
    BY <1>1, <2>1 DEF TypeOK
  <2>3. outbox' = outbox \cup {n} /\ UNCHANGED <<topic, excused>>
    BY <1>3, <2>2 DEF RequestPushes
  <2> HIDE DEF n
  <2>4. Box!Request({n})
    BY <2>2, <2>3, DeliveredStays DEF Box!Request
  <2> QED
    BY <2>1, <2>4 DEF Box!Next
<1>4. ASSUME UNCHANGED <<request, outbox, topic, excused>>
      PROVE  UNCHANGED Box!vars
  BY <1>4, DeliveredStays DEF Box!vars
<1>5. ASSUME NEW r \in Run, NEW pl \in Platform, WorkerAction(r, pl)
      PROVE  Box!Next \/ UNCHANGED Box!vars
  <2>1. /\ rest[r][pl] \subseteq DOMAIN request
        /\ Chunk(r, pl) \subseteq DOMAIN request
    BY <1>1, ChunkIsPart DEF InHand
  <2>2. ASSUME NEW S \in SUBSET DOMAIN request, Drop(S), UNCHANGED <<request, topic>>
        PROVE  Box!Next
    <3>1. Box!Excuse(S)
      BY <2>2, DeliveredStays DEF Drop, Box!Excuse
    <3> QED
      BY <1>2, <3>1 DEF Box!Next
  <2>3. CASE Discard(r, pl)
    BY <2>1, <2>2, <2>3 DEF Discard
  <2>4. CASE RemoveUnwanted(r, pl)
    BY <2>1, <2>2, <2>4 DEF RemoveUnwanted, Wanted
  <2>5. CASE PushMessage(r, pl)
    <3>1. Box!Deliver(Chunk(r, pl))
      BY <1>1, <2>1, <2>5, SentByMessage DEF PushMessage, Box!Deliver
    <3> QED
      BY <1>2, <2>1, <3>1 DEF Box!Next
  <2>6. CASE InsertLog(r, pl)
    BY <1>4, <2>6 DEF InsertLog
  <2>7. CASE DeleteRequests(r, pl)
    <3>1. Chunk(r, pl) \subseteq Delivered
      BY <2>7 DEF DeleteRequests, Goto, IInv, ChunkSent
    <3>2. Box!Remove(Chunk(r, pl))
      BY <2>7, <3>1, DeliveredStays DEF DeleteRequests, Box!Remove
    <3> QED
      BY <1>2, <2>1, <3>2 DEF Box!Next
  <2>8. CASE SetSync(r, pl)
    BY <1>4, <2>8 DEF SetSync
  <2> QED
    BY <1>5, <2>3, <2>4, <2>5, <2>6, <2>7, <2>8 DEF WorkerAction
<1> QED
  BY <1>3, <1>4, <1>5 DEF Next, JobStep, RunStep, Configure, FindRequests, ReadConfigs,
     EndRun, FailReading, FailWorker, Restart, pushVars

\* ParcelPushJob keeps the promise of the outbox for any number of platforms,
\* overlapping executions, failed calls and restarts.
THEOREM JobImplementsOutbox == Spec => ImplementsOutbox
<1> QED
  BY InitImplements, NextImplements, Invariance, PTL DEF Spec, ImplementsOutbox, Box!Spec

\* What implements the outbox loses nothing: whatever is no longer in the table was
\* sent, or is something its platform does not want.
THEOREM NothingIsLost == Spec => []Box!NothingLost
<1>1. Box!Init => Box!NothingLost
  BY DEF Box!Init, Box!NothingLost
<1>2. Box!NothingLost /\ [Box!Next]_(Box!vars) => Box!NothingLost'
  <2> SUFFICES ASSUME Box!NothingLost, Box!Next \/ UNCHANGED Box!vars PROVE Box!NothingLost'
    OBVIOUS
  <2>1. ASSUME NEW S, Box!Request(S) PROVE Box!NothingLost'
    BY <2>1 DEF Box!Request, Box!NothingLost
  <2>2. ASSUME NEW S, Box!Deliver(S) PROVE Box!NothingLost'
    BY <2>2 DEF Box!Deliver, Box!NothingLost
  <2>3. ASSUME NEW S, Box!Remove(S) PROVE Box!NothingLost'
    BY <2>3 DEF Box!Remove, Box!NothingLost
  <2>4. ASSUME NEW S, Box!Excuse(S) PROVE Box!NothingLost'
    BY <2>4 DEF Box!Excuse, Box!NothingLost
  <2>5. CASE UNCHANGED Box!vars
    BY <2>5 DEF Box!vars, Box!NothingLost
  <2> QED
    BY <2>1, <2>2, <2>3, <2>4, <2>5 DEF Box!Next
<1> QED
  BY <1>1, <1>2, JobImplementsOutbox, PTL DEF ImplementsOutbox, Box!Spec

-----------------------------------------------------------------------------
(* What a parcel's sync flag says. *)

LEMMA DeliveredGrows ==
  ASSUME IInv, [Next]_pushVars
  PROVE  \/ Delivered' = Delivered
         \/ \E r \in Run, pl \in Platform : PushMessage(r, pl) /\ Delivered' = Delivered \cup Chunk(r, pl)
<1>1. TypeOK
  BY DEF IInv
<1>2. CASE \E r \in Run, pl \in Platform : PushMessage(r, pl)
  BY <1>1, <1>2, SentByMessage
<1>3. CASE UNCHANGED topic
  BY <1>3, DeliveredStays
<1> QED
  BY <1>2, <1>3 DEF Next, JobStep, RunStep, WorkerAction, RequestPushes, Configure, FindRequests, ReadConfigs,
     Discard, RemoveUnwanted, InsertLog, DeleteRequests, SetSync, EndRun, FailReading, FailWorker, Restart, pushVars

\* Only requests are sent, and a chunk whose parcels are about to be synced was.
SyncInv ==
  /\ Delivered \subseteq DOMAIN request
  /\ \A r \in Run : \A pl \in Platform : worker[r][pl] = "syncing" => Chunk(r, pl) \subseteq Delivered
  /\ SyncedWasSent

LEMMA InitSync == Init => SyncInv
  BY DEF Init, SyncInv, SyncedWasSent, Delivered, Sent, Idle

LEMMA NextSync == IInv /\ SyncInv /\ [Next]_pushVars => SyncInv'
<1> SUFFICES ASSUME IInv, SyncInv, [Next]_pushVars PROVE SyncInv'
  OBVIOUS
<1> USE DEF tables
<1>1. TypeOK /\ InHand
  BY DEF IInv
<1>2. /\ DOMAIN request \subseteq DOMAIN request'
      /\ \A i \in DOMAIN request : request'[i] = request[i]
  BY <1>1, RequestsGrow
<1>3. \A r \in Run, pl \in Platform : Chunk(r, pl) \subseteq DOMAIN request
  BY <1>1, ChunkIsPart DEF InHand
<1>4. Delivered \subseteq Delivered' /\ Delivered' \subseteq DOMAIN request'
  BY <1>2, <1>3, DeliveredGrows DEF SyncInv
<1>5. ASSUME synced' = synced PROVE SyncedWasSent'
  BY <1>2, <1>4, <1>5 DEF SyncInv, SyncedWasSent
<1>6. ASSUME NEW r \in Run, NEW pl \in Platform, SetSync(r, pl) PROVE SyncedWasSent'
  <2>1. Chunk(r, pl) \subseteq Delivered /\ synced' = synced \cup ParcelsOf(Chunk(r, pl))
    BY <1>6 DEF SetSync, Goto, SyncInv
  <2> QED
    BY <1>2, <1>4, <2>1 DEF SyncInv, SyncedWasSent, ParcelsOf
<1>7. SyncedWasSent'
  BY <1>5, <1>6 DEF Next, JobStep, RunStep, WorkerAction, RequestPushes, Configure, FindRequests, ReadConfigs, Discard,
     RemoveUnwanted, PushMessage, InsertLog, DeleteRequests, EndRun, FailReading, FailWorker, Restart, pushVars
<1> DEFINE Begins(r, pl) == worker'[r][pl] = "syncing" => worker[r][pl] = "syncing" /\ rest'[r][pl] = rest[r][pl]
<1>8. ASSUME NEW r \in Run, NEW pl \in Platform, worker'[r][pl] = "syncing"
      PROVE  Chunk(r, pl)' \subseteq Delivered'
  <2>1. ASSUME Begins(r, pl) PROVE Chunk(r, pl)' \subseteq Delivered'
    BY <1>4, <1>8, <2>1 DEF SyncInv, Chunk
  <2>2. CASE DeleteRequests(r, pl)
    <3>1. Chunk(r, pl) \subseteq Delivered /\ rest' = rest
      BY <2>2 DEF DeleteRequests, Goto, IInv, ChunkSent
    <3> QED
      BY <1>4, <3>1 DEF Chunk
  <2>3. ASSUME NEW s \in Run, NEW q \in Platform, WorkerAction(s, q), ~DeleteRequests(s, q) \/ s # r \/ q # pl
        PROVE  Begins(r, pl)
    <3>1. CASE DeleteRequests(s, q)
      BY <1>1, <2>3, <3>1 DEF DeleteRequests, Goto, TypeOK
    <3>2. CASE PushMessage(s, q)
      BY <1>1, <3>2 DEF PushMessage, Goto, TypeOK
    <3>6. CASE InsertLog(s, q)
      BY <1>1, <3>6 DEF InsertLog, Goto, TypeOK
    <3>3. CASE Discard(s, q)
      BY <1>1, <3>3 DEF Discard, Goto, TypeOK
    <3>4. CASE RemoveUnwanted(s, q)
      BY <1>1, <3>4 DEF RemoveUnwanted, Goto, TypeOK
    <3>5. CASE SetSync(s, q)
      BY <1>1, <3>5 DEF SetSync, Goto, TypeOK
    <3> QED
      BY <2>3, <3>1, <3>2, <3>3, <3>4, <3>5, <3>6 DEF WorkerAction
  <2>4. ASSUME NEW s \in Run, FindRequests(s) PROVE Begins(r, pl)
    BY <1>1, <2>4 DEF FindRequests, TypeOK
  <2>5. ASSUME NEW s \in Run, ReadConfigs(s) PROVE Begins(r, pl)
    BY <1>1, <2>5 DEF ReadConfigs, TypeOK
  <2>6. ASSUME NEW s \in Run, EndRun(s) \/ FailReading(s) PROVE Begins(r, pl)
    BY <1>1, <2>6 DEF EndRun, FailReading, Idle, TypeOK
  <2>7. ASSUME NEW s \in Run, NEW q \in Platform, FailWorker(s, q) PROVE Begins(r, pl)
    BY <1>1, <2>7 DEF FailWorker, TypeOK
  <2>8. CASE Restart
    BY <1>8, <2>8 DEF Restart, Idle
  <2>9. CASE UNCHANGED <<worker, rest>>
    BY <2>1, <2>9
  <2> QED
    BY <2>1, <2>2, <2>3, <2>4, <2>5, <2>6, <2>7, <2>8, <2>9 DEF Next, JobStep, RunStep, RequestPushes, Configure, pushVars
<1> QED
  BY <1>4, <1>7, <1>8 DEF SyncInv

\* A parcel is marked as synced only if one of its requests was sent, whichever executions
\* overlap, fail or are cut off.
THEOREM SyncedAlwaysWasSent == Spec => []SyncedWasSent
<1>1. SyncInv => SyncedWasSent
  BY DEF SyncInv
<1> QED
  BY <1>1, InitSync, NextSync, Invariance, PTL DEF Spec

-----------------------------------------------------------------------------
(* The order of what is sent, as long as nothing fails. *)

LEMMA OldestComesFirst ==
  ASSUME NEW n \in Nat, NEW m \in Nat, NEW S \in SUBSET (1 .. m),
         NEW i \in Oldest(n, S), NEW j \in S \ Oldest(n, S)
  PROVE  i < j
<1> SUFFICES ASSUME j <= i PROVE FALSE
  BY DEF Oldest
<1> DEFINE A == {k \in S : k < j}
           B == {k \in S : k < i}
<1>1. i \in Int /\ j \in Int /\ \A k \in S : k \in Int
  BY DEF Oldest
<1>2. A \subseteq B
  <2> SUFFICES ASSUME NEW k \in S, k < j PROVE k < i
    OBVIOUS
  <2>1. k \in Int
    BY <1>1
  <2> QED
    BY <1>1, <2>1
<1>3. IsFiniteSet(1 .. m)
  BY FS_Interval
<1>4. IsFiniteSet(B)
  BY <1>3, FS_Subset
<1>5. Cardinality(B) < n
  BY DEF Oldest
<1> HIDE DEF A, B
<1>6. Cardinality(A) \in Nat /\ Cardinality(B) \in Nat /\ Cardinality(A) <= Cardinality(B)
  BY <1>2, <1>4, FS_CardinalityType, FS_Subset
<1>7. Cardinality(A) < n
  BY <1>5, <1>6
<1> QED
  BY <1>7 DEF Oldest, A

\* What a function has yet to send: all it has in hand, or all but the chunk it is sending.
Unsent(r, pl) ==
  IF worker[r][pl] \in {"logging", "deleting", "syncing"} THEN rest[r][pl] \ Chunk(r, pl) ELSE rest[r][pl]

Before(S, T) == \A i \in S, j \in T : i < j

\* The requests of a platform that were sent, but are still in the outbox.
InTransit(pl) == UNION {Chunk(r, pl) : r \in {s \in Run : worker[s][pl] \in {"logging", "deleting"}}}

OneAtATime ==
  /\ \A r \in Run : worker[r] # Idle => current = r
  /\ \A r \in Run : \A pl \in Platform : worker[r][pl] \notin Working => rest[r][pl] = {}

Ordered(pl) ==
  /\ \A r \in Run :
       /\ Before(Sent(pl), Unsent(r, pl))
       /\ Before(rest[r][pl], For(pl, outbox) \ rest[r][pl])
       /\ worker[r][pl] = "syncing" => Chunk(r, pl) \cap outbox = {}
  /\ Before(Sent(pl), For(pl, outbox) \ InTransit(pl))
  /\ \A m, n \in DOMAIN topic[pl] : m < n => Before(topic[pl][m], topic[pl][n])

SentIsMade == Delivered \subseteq DOMAIN request

OrderInv == failures = 0 => OneAtATime /\ \A pl \in Platform : Ordered(pl)

\* What the order of one platform depends on, where nothing about it changes.
Sending(r, pl) == worker[r][pl] \in {"logging", "deleting"}

LEMMA Quiet ==
  ASSUME NEW pl \in Platform, Ordered(pl), UNCHANGED <<request, outbox, topic>>,
         \A r \in Run : rest'[r][pl] = rest[r][pl],
         \A r \in Run : /\ Sending(r, pl)' <=> Sending(r, pl)
                        /\ worker'[r][pl] = "syncing" <=> worker[r][pl] = "syncing"
  PROVE  Ordered(pl)'
<1>1. \A r \in Run : Chunk(r, pl)' = Chunk(r, pl) /\ Unsent(r, pl)' = Unsent(r, pl)
  BY DEF Chunk, Unsent, Sending
<1>2. InTransit(pl)' = InTransit(pl)
  BY <1>1 DEF InTransit, Sending
<1>3. Sent(pl)' = Sent(pl) /\ For(pl, outbox)' = For(pl, outbox)
  BY DEF Sent, For
<1> QED
  BY <1>1, <1>2, <1>3 DEF Ordered, Before

\* Requests leave the outbox and what is in hand.
LEMMA Shrinks ==
  ASSUME NEW pl \in Platform, Ordered(pl), UNCHANGED <<request, topic>>, outbox' \subseteq outbox,
         \A r \in Run : /\ rest'[r][pl] \subseteq rest[r][pl]
                        /\ (rest[r][pl] \ rest'[r][pl]) \cap outbox' = {}
                        /\ Sending(r, pl) \/ worker[r][pl] = "syncing" => rest'[r][pl] = rest[r][pl]
                        /\ worker'[r][pl] = worker[r][pl] \/ (~Sending(r, pl)' /\ ~Sending(r, pl) /\ worker'[r][pl] # "syncing" /\ worker[r][pl] # "syncing")
  PROVE  Ordered(pl)'
<1>1. \A r \in Run : Unsent(r, pl)' \subseteq Unsent(r, pl)
  BY DEF Chunk, Unsent, Sending
<1>2. InTransit(pl)' = InTransit(pl)
  BY DEF InTransit, Sending, Chunk
<1>3. Sent(pl)' = Sent(pl) /\ For(pl, outbox)' \subseteq For(pl, outbox) /\ For(pl, outbox)' \subseteq outbox'
  BY DEF Sent, For
<1>4. \A r \in Run : For(pl, outbox)' \ rest'[r][pl] \subseteq For(pl, outbox) \ rest[r][pl]
  BY <1>3
<1>5. \A r \in Run : worker'[r][pl] = "syncing" => Chunk(r, pl)' = Chunk(r, pl) /\ worker[r][pl] = "syncing"
  BY DEF Chunk
<1>6. \A r \in Run : Before(rest'[r][pl], For(pl, outbox)' \ rest'[r][pl])
  BY <1>4 DEF Ordered, Before
<1> QED
  BY <1>1, <1>2, <1>3, <1>5, <1>6 DEF Ordered, Before

LEMMA ChunkComesFirst ==
  ASSUME IInv, NEW r \in Run, NEW pl \in Platform
  PROVE  Before(Chunk(r, pl), rest[r][pl] \ Chunk(r, pl))
<1>1. rest[r][pl] \in SUBSET (1 .. MaxRequests)
  BY DEF IInv, TypeOK, Id
<1> QED
  BY <1>1, SizeAssumption, BoundAssumption, OldestComesFirst DEF Chunk, Before

\* Only one execution has anything in hand.
LEMMA OthersIdle ==
  ASSUME OneAtATime, NEW r \in Run, NEW s \in Run, worker[r] # Idle, s # r
  PROVE  \A pl \in Platform : worker[s][pl] = "idle" /\ rest[s][pl] = {}
<1>1. worker[s] = Idle
  BY DEF OneAtATime
<1> QED
  BY <1>1 DEF OneAtATime, Idle, Working

\* A message is sent: what comes after it is newer.
LEMMA MessageInOrder ==
  ASSUME IInv, SyncInv, NEW r \in Run, NEW pl \in Platform, PushMessage(r, pl), OneAtATime, NEW q \in Platform, Ordered(q)
  PROVE  Ordered(q)'
<1> USE DEF tables
<1>0. TypeOK /\ InHand
  BY DEF IInv
<1>1. /\ worker[r][pl] = "pushing" /\ worker'[r][pl] = "logging" /\ UNCHANGED <<request, outbox, rest>>
      /\ \A s \in Run : \A x \in Platform : s # r \/ x # pl => worker'[s][x] = worker[s][x]
  BY <1>0 DEF PushMessage, Goto, TypeOK
<1>2. /\ Sent(pl)' = Sent(pl) \cup Chunk(r, pl)
      /\ \A x \in Platform \ {pl} : Sent(x)' = Sent(x)
  BY <1>0, SentByMessage
<1>3. topic' = [topic EXCEPT ![pl] = Append(@, Chunk(r, pl))] /\ topic \in [Platform -> Seq(SUBSET Id)]
  BY <1>0 DEF PushMessage, TypeOK
<1>4. \A s \in Run : \A x \in Platform : Chunk(s, x)' = Chunk(s, x)
  BY <1>1 DEF Chunk
<1>5. \A s \in Run : s # r \/ q # pl => Unsent(s, q)' = Unsent(s, q)
  BY <1>1, <1>4 DEF Unsent
<1>6. For(q, outbox)' = For(q, outbox)
  BY <1>1 DEF For
<1>7. CASE q # pl
  <2>1. InTransit(q)' = InTransit(q)
    BY <1>1, <1>4, <1>7 DEF InTransit
  <2>2. topic'[q] = topic[q]
    BY <1>3, <1>7
  <2> QED
    BY <1>1, <1>2, <1>4, <1>5, <1>6, <1>7, <2>1, <2>2 DEF Ordered, Before
<1>8. CASE q = pl
  <2> DEFINE c == Chunk(r, pl)
  <2>1. Unsent(r, pl) = rest[r][pl] /\ Unsent(r, pl)' = rest[r][pl] \ c /\ c \subseteq rest[r][pl]
    BY <1>1, <1>4, ChunkIsPart DEF Unsent
  <2>2. InTransit(pl)' = InTransit(pl) \cup c
    BY <1>1, <1>4 DEF InTransit
  <2>3. Before(c, rest[r][pl] \ c)
    BY ChunkComesFirst
  <2>4. Before(Sent(pl), rest[r][pl])
    BY <1>8, <2>1 DEF Ordered
  <2>5. Before(rest[r][pl], For(pl, outbox) \ rest[r][pl])
    BY <1>8 DEF Ordered
  <2>6. Before(Sent(pl)', Unsent(r, pl)')
    BY <1>2, <2>1, <2>3, <2>4 DEF Before
  <2>7. ASSUME NEW s \in Run, s # r PROVE Before(Sent(pl)', Unsent(s, pl)')
    <3>1. rest[s][pl] = {}
      BY <1>1, <2>7, OthersIdle DEF Idle
    <3>2. Unsent(s, pl)' = {}
      BY <1>1, <3>1 DEF Unsent
    <3> QED
      BY <3>2 DEF Before
  <2>8. Before(Sent(pl)', For(pl, outbox)' \ InTransit(pl)')
    <3>1. ASSUME NEW i \in c, NEW j \in For(pl, outbox), j \notin c PROVE i < j
      BY <2>1, <2>3, <2>5, <3>1 DEF Before
    <3>2. ASSUME NEW i \in Sent(pl), NEW j \in For(pl, outbox), j \notin InTransit(pl) PROVE i < j
      BY <1>8, <3>2 DEF Ordered, Before
    <3> QED
      BY <1>2, <1>6, <1>8, <2>2, <3>1, <3>2 DEF Before
  <2>9. \A m, n \in DOMAIN topic'[pl] : m < n => Before(topic'[pl][m], topic'[pl][n])
    <3> DEFINE t == topic[pl]
    <3>1. t \in Seq(SUBSET Id) /\ topic'[pl] = Append(t, c) /\ \A n \in DOMAIN t : t[n] \subseteq Sent(pl)
      BY <1>3 DEF Sent
    <3>2. \A m, n \in DOMAIN t : m < n => Before(t[m], t[n])
      BY <1>8 DEF Ordered
    <3>3. \A m \in DOMAIN t : Before(t[m], c)
      BY <2>1, <2>4, <3>1 DEF Before
    <3> HIDE DEF t, c
    <3>4. /\ DOMAIN Append(t, c) = 1 .. Len(t) + 1 /\ DOMAIN t = 1 .. Len(t) /\ Len(t) \in Nat
          /\ \A n \in DOMAIN t : Append(t, c)[n] = t[n]
          /\ Append(t, c)[Len(t) + 1] = c
      BY <3>1
    <3>5. \A m, n \in 1 .. Len(t) + 1 : m < n => m \in 1 .. Len(t) /\ (n \in 1 .. Len(t) \/ n = Len(t) + 1)
      BY <3>4
    <3> QED
      BY <3>1, <3>2, <3>3, <3>4, <3>5
  <2> QED
    BY <1>1, <1>4, <1>6, <1>8, <2>5, <2>6, <2>7, <2>8, <2>9 DEF Ordered
<1> QED
  BY <1>7, <1>8

LEMMA DeletionInOrder ==
  ASSUME IInv, NEW r \in Run, NEW pl \in Platform, DeleteRequests(r, pl), OneAtATime, NEW q \in Platform, Ordered(q)
  PROVE  Ordered(q)'
<1> DEFINE c == Chunk(r, pl)
<1>1. /\ worker[r][pl] = "deleting" /\ worker'[r][pl] = "syncing" /\ UNCHANGED <<request, topic, rest>>
      /\ outbox' = outbox \ c
      /\ \A s \in Run : \A x \in Platform : s # r \/ x # pl => worker'[s][x] = worker[s][x]
  BY DEF DeleteRequests, Goto, IInv, TypeOK
<1>2. \A s \in Run : \A x \in Platform : Chunk(s, x)' = Chunk(s, x) /\ Unsent(s, x)' = Unsent(s, x)
  BY <1>1 DEF Chunk, Unsent
<1>3. Sent(q)' = Sent(q) /\ For(q, outbox)' = For(q, outbox) \ c
  BY <1>1 DEF Sent, For
<1>4. For(q, outbox)' \ InTransit(q)' \subseteq For(q, outbox) \ InTransit(q)
  <2>1. InTransit(q) \subseteq InTransit(q)' \cup c
    BY <1>1, <1>2 DEF InTransit
  <2> QED
    BY <1>3, <2>1
<1>5. \A s \in Run : Before(rest'[s][q], For(q, outbox)' \ rest'[s][q])
  BY <1>1, <1>3 DEF Ordered, Before
<1>6. ASSUME NEW s \in Run, worker'[s][q] = "syncing" PROVE Chunk(s, q)' \cap outbox' = {}
  <2>1. CASE s = r /\ q = pl
    BY <1>1, <1>2, <2>1
  <2>2. CASE ~(s = r /\ q = pl)
    BY <1>1, <1>2, <1>6, <2>2 DEF Ordered
  <2> QED
    BY <2>1, <2>2
<1>7. \A s \in Run : Before(Sent(q)', Unsent(s, q)')
  BY <1>2, <1>3 DEF Ordered
<1>8. Before(Sent(q)', For(q, outbox)' \ InTransit(q)')
  BY <1>3, <1>4 DEF Ordered, Before
<1> QED
  BY <1>1, <1>5, <1>6, <1>7, <1>8 DEF Ordered

LEMMA SyncInOrder ==
  ASSUME IInv, NEW r \in Run, NEW pl \in Platform, SetSync(r, pl), NEW q \in Platform, Ordered(q)
  PROVE  Ordered(q)'
<1> DEFINE c == Chunk(r, pl)
<1>1. /\ worker[r][pl] = "syncing" /\ worker'[r][pl] \in {"done", "pushing"} /\ UNCHANGED <<request, topic, outbox>>
      /\ rest'[r][pl] = rest[r][pl] \ c
      /\ \A s \in Run : \A x \in Platform : s # r \/ x # pl => worker'[s][x] = worker[s][x] /\ rest'[s][x] = rest[s][x]
  BY DEF SetSync, Goto, IInv, TypeOK
<1>2. \A s \in Run : s # r \/ q # pl => Chunk(s, q)' = Chunk(s, q)
  BY <1>1 DEF Chunk
<1>3. \A s \in Run : Unsent(s, q)' = Unsent(s, q)
  BY <1>1, <1>2 DEF Unsent
<1>4. Sent(q)' = Sent(q) /\ For(q, outbox)' = For(q, outbox) /\ For(q, outbox) \subseteq outbox
  BY <1>1 DEF Sent, For
<1>5. InTransit(q)' = InTransit(q)
  BY <1>1, <1>2 DEF InTransit
<1>6. ASSUME NEW s \in Run PROVE Before(rest'[s][q], For(q, outbox)' \ rest'[s][q])
  <2>1. CASE s = r /\ q = pl
    <3>1. c \cap outbox = {}
      BY <1>1, <2>1 DEF Ordered
    <3> QED
      BY <1>1, <1>4, <2>1, <3>1 DEF Ordered, Before
  <2>2. CASE ~(s = r /\ q = pl)
    BY <1>1, <1>4, <2>2 DEF Ordered
  <2> QED
    BY <2>1, <2>2
<1>7. \A s \in Run : worker'[s][q] = "syncing" => Chunk(s, q)' \cap outbox' = {}
  BY <1>1, <1>2 DEF Ordered
<1> QED
  BY <1>1, <1>3, <1>4, <1>5, <1>6, <1>7 DEF Ordered

\* The oldest requests are taken, when nothing is in hand.
LEMMA BatchInOrder ==
  ASSUME IInv, NEW r \in Run, FindRequests(r), OneAtATime, NEW q \in Platform, Ordered(q)
  PROVE  Ordered(q)'
<1> DEFINE batch == Oldest(BatchLimit, outbox)
<1> USE DEF tables
<1>1. ASSUME NEW s \in Run PROVE worker[s] = Idle /\ worker[s][q] = "idle" /\ rest[s][q] = {}
  <2>1. worker[s] = Idle
    BY RunAssumption DEF FindRequests, OneAtATime
  <2>2. worker[s][q] \notin Working
    BY <2>1 DEF Idle, Working
  <2> QED
    BY <2>1, <2>2 DEF OneAtATime, Idle
<1>2. /\ UNCHANGED <<request, topic, outbox>>
      /\ \A s \in Run : worker'[s][q] \in {"idle", "reading"} /\ rest'[s][q] \in {{}, For(q, batch)}
  <2>1. /\ rest' = [rest EXCEPT ![r] = [pl \in Platform |-> For(pl, batch)]]
        /\ worker' = [worker EXCEPT ![r] = [pl \in Platform |-> IF For(pl, batch) = {} THEN "idle" ELSE "reading"]]
        /\ UNCHANGED <<request, topic, outbox>>
    BY DEF FindRequests
  <2> HIDE DEF batch
  <2> QED
    BY <1>1, <2>1 DEF IInv, TypeOK
<1>3. \A s \in Run : Unsent(s, q)' = rest'[s][q]
  BY <1>2 DEF Unsent
<1>4. InTransit(q) = {} /\ InTransit(q)' = {}
  BY <1>1, <1>2 DEF InTransit
<1>5. Sent(q)' = Sent(q) /\ For(q, outbox)' = For(q, outbox)
  BY <1>2 DEF Sent, For
<1>6. For(q, batch) \subseteq For(q, outbox) /\ For(q, outbox) \ For(q, batch) \subseteq outbox \ batch /\ For(q, batch) \subseteq batch
  BY OldestIsPart DEF For
<1>7. Before(batch, outbox \ batch)
  <2>1. outbox \in SUBSET (1 .. MaxRequests)
    BY BoundAssumption DEF IInv, TypeOK, InHand
  <2> QED
    BY <2>1, SizeAssumption, BoundAssumption, OldestComesFirst DEF Before
<1> HIDE DEF batch
<1>8. \A s \in Run : Before(Sent(q)', rest'[s][q])
  BY <1>2, <1>4, <1>5, <1>6 DEF Ordered, Before
<1>9. \A s \in Run : Before(rest'[s][q], For(q, outbox)' \ rest'[s][q])
  BY <1>2, <1>5, <1>6, <1>7 DEF Before
<1> QED
  BY <1>2, <1>3, <1>4, <1>5, <1>8, <1>9 DEF Ordered

\* A new request has the highest id.
LEMMA RequestInOrder ==
  ASSUME IInv, SyncInv, NEW x \in Request, RequestPushes(<<x>>), NEW q \in Platform, Ordered(q)
  PROVE  Ordered(q)'
<1> DEFINE n == Len(request) + 1
<1>1. TypeOK /\ InHand
  BY DEF IInv
<1>2. /\ UNCHANGED <<topic, rest, worker>>
      /\ request' = request \o <<x>> /\ Len(request) \in Nat /\ DOMAIN request = 1 .. Len(request)
      /\ outbox' = outbox \cup {n} /\ \A i \in DOMAIN request : request'[i] = request[i] /\ i < n
  BY <1>1 DEF RequestPushes, TypeOK
<1>3. n \notin DOMAIN request
  BY <1>2
<1> HIDE DEF n
<1>4. /\ \A r \in Run : Chunk(r, q)' = Chunk(r, q) /\ Unsent(r, q)' = Unsent(r, q) /\ Chunk(r, q) \subseteq DOMAIN request
      /\ InTransit(q)' = InTransit(q)
  BY <1>1, <1>2, ChunkIsPart DEF Chunk, Unsent, InTransit, InHand
<1>5. Sent(q)' = Sent(q) /\ Sent(q) \subseteq DOMAIN request
  BY <1>2 DEF Sent, SyncInv, Delivered
<1>6. For(q, outbox)' \subseteq For(q, outbox) \cup {n}
  BY <1>1, <1>2 DEF For, TypeOK
<1>7. \A r \in Run : Before(rest'[r][q], For(q, outbox)' \ rest'[r][q])
  BY <1>1, <1>2, <1>6 DEF Ordered, Before, InHand
<1>8. Before(Sent(q)', For(q, outbox)' \ InTransit(q)')
  BY <1>2, <1>4, <1>5, <1>6 DEF Ordered, Before
<1>9. \A r \in Run : worker'[r][q] = "syncing" => Chunk(r, q)' \cap outbox' = {}
  BY <1>2, <1>3, <1>4 DEF Ordered
<1> QED
  BY <1>2, <1>4, <1>5, <1>7, <1>8, <1>9 DEF Ordered

\* Without failures, the next execution begins only when the last has ended.
LEMMA OneStaysAlone ==
  ASSUME IInv, OneAtATime, [Next]_pushVars, failures' = 0
  PROVE  OneAtATime'
<1>1. TypeOK /\ failures \in Nat /\ failures + 1 # 0
  BY DEF IInv, TypeOK
<1> DEFINE Kept(r) == \A pl \in Platform : worker'[r][pl] \notin Working => rest'[r][pl] = {}
<1>2. ASSUME NEW r \in Run, NEW pl \in Platform, WorkerAction(r, pl) PROVE OneAtATime'
  <2>1. /\ worker[r][pl] \in Working /\ UNCHANGED current
        /\ \A s \in Run : \A x \in Platform : s # r \/ x # pl => worker'[s][x] = worker[s][x] /\ rest'[s][x] = rest[s][x]
        /\ \A s \in Run : s # r => worker'[s] = worker[s]
    <3>1. CASE Discard(r, pl)
      BY <1>1, <3>1 DEF Discard, Goto, TypeOK, Working, WorkerStep
    <3>2. CASE RemoveUnwanted(r, pl)
      BY <1>1, <3>2 DEF RemoveUnwanted, Goto, TypeOK, Working, WorkerStep
    <3>3. CASE PushMessage(r, pl)
      BY <1>1, <3>3 DEF PushMessage, Goto, TypeOK, Working, WorkerStep
    <3>4. CASE InsertLog(r, pl)
      BY <1>1, <3>4 DEF InsertLog, Goto, TypeOK, Working, WorkerStep
    <3>5. CASE DeleteRequests(r, pl)
      BY <1>1, <3>5 DEF DeleteRequests, Goto, TypeOK, Working, WorkerStep
    <3>6. CASE SetSync(r, pl)
      BY <1>1, <3>6 DEF SetSync, Goto, TypeOK, Working, WorkerStep
    <3> QED
      BY <1>2, <3>1, <3>2, <3>3, <3>4, <3>5, <3>6 DEF WorkerAction
  <2>2. worker'[r][pl] \notin Working => rest'[r][pl] = {}
    <3>1. CASE Discard(r, pl)
      BY <1>1, <3>1 DEF Discard, TypeOK
    <3>2. CASE RemoveUnwanted(r, pl)
      <4>1. worker'[r][pl] = "done" => Wanted(rest[r][pl]) = {}
        BY <1>1, <3>2 DEF RemoveUnwanted, Goto, TypeOK
      <4>2. rest'[r][pl] = Wanted(rest[r][pl]) /\ worker'[r][pl] \in {"done", "pushing"}
        BY <1>1, <3>2 DEF RemoveUnwanted, Goto, TypeOK
      <4> QED
        BY <4>1, <4>2 DEF Working, WorkerStep
    <3>3. CASE PushMessage(r, pl) \/ InsertLog(r, pl) \/ DeleteRequests(r, pl)
      <4>1. worker'[r][pl] \in {"logging", "deleting", "syncing"}
        BY <1>1, <3>3 DEF PushMessage, InsertLog, DeleteRequests, Goto, TypeOK
      <4> QED
        BY <4>1 DEF Working, WorkerStep
    <3>4. CASE SetSync(r, pl)
      <4>1. /\ rest'[r][pl] = rest[r][pl] \ Chunk(r, pl)
            /\ worker'[r][pl] = IF rest[r][pl] \ Chunk(r, pl) = {} THEN "done" ELSE "pushing"
        BY <1>1, <3>4 DEF SetSync, Goto, TypeOK
      <4> QED
        BY <4>1 DEF Working, WorkerStep
    <3> QED
      BY <1>2, <3>1, <3>2, <3>3, <3>4 DEF WorkerAction
  <2>3. \A s \in Run : worker[s] # Idle => current = s
    BY DEF OneAtATime
  <2>4. worker[r] # Idle
    BY <2>1 DEF Idle, Working
  <2> QED
    BY <2>1, <2>2, <2>3, <2>4 DEF OneAtATime
<1>3. ASSUME NEW r \in Run, FindRequests(r) PROVE OneAtATime'
  <2> DEFINE batch == Oldest(BatchLimit, outbox)
  <2>1. /\ rest' = [rest EXCEPT ![r] = [pl \in Platform |-> For(pl, batch)]]
        /\ worker' = [worker EXCEPT ![r] = [pl \in Platform |-> IF For(pl, batch) = {} THEN "idle" ELSE "reading"]]
        /\ current' = r /\ current = None
    BY <1>3 DEF FindRequests
  <2> HIDE DEF batch
  <2>2. \A s \in Run : worker[s] = Idle
    BY <2>1, RunAssumption DEF OneAtATime
  <2>3. \A s \in Run : s # r => worker'[s] = worker[s] /\ rest'[s] = rest[s]
    BY <1>1, <2>1 DEF TypeOK
  <2>4. \A pl \in Platform : worker'[r][pl] \notin Working => rest'[r][pl] = {}
    BY <1>1, <2>1 DEF TypeOK, Working, WorkerStep
  <2> QED
    BY <2>1, <2>2, <2>3, <2>4 DEF OneAtATime
<1>4. ASSUME NEW r \in Run, ReadConfigs(r) PROVE OneAtATime'
  <2>1. /\ UNCHANGED <<current, rest>> /\ \A s \in Run : s # r => worker'[s] = worker[s]
        /\ \A pl \in Platform : worker'[r][pl] \notin Working => worker[r][pl] \notin Working
    BY <1>1, <1>4 DEF ReadConfigs, TypeOK, Working, WorkerStep
  <2>2. worker[r] # Idle
    BY <1>4 DEF ReadConfigs, Idle
  <2> QED
    BY <2>1, <2>2 DEF OneAtATime
<1>5. ASSUME NEW r \in Run, EndRun(r) PROVE OneAtATime'
  <2>1. /\ worker'[r] = Idle /\ \A s \in Run : s # r => worker'[s] = worker[s]
        /\ UNCHANGED rest /\ worker[r] # Idle /\ \A pl \in Platform : worker[r][pl] \notin Working
        /\ current' = IF current = r THEN None ELSE current
    BY <1>1, <1>5 DEF EndRun, TypeOK
  <2> QED
    BY <2>1 DEF OneAtATime
<1>6. CASE UNCHANGED <<current, worker, rest>>
  BY <1>6 DEF OneAtATime
<1> QED
  BY <1>1, <1>2, <1>3, <1>4, <1>5, <1>6 DEF Next, JobStep, RunStep, RequestPushes, Configure, FailReading, FailWorker,
     Restart, pushVars

LEMMA NextOrder == IInv /\ SyncInv /\ OrderInv /\ [Next]_pushVars => OrderInv'
<1> SUFFICES ASSUME IInv, SyncInv, OrderInv, [Next]_pushVars, failures' = 0
             PROVE  OneAtATime' /\ \A pl \in Platform : Ordered(pl)'
  BY DEF OrderInv
<1> USE DEF tables
<1>1. TypeOK /\ failures \in Nat /\ failures + 1 # 0
  BY DEF IInv, TypeOK
<1>2. /\ failures = 0 /\ ~Restart
      /\ \A r \in Run : ~FailReading(r) /\ \A pl \in Platform : ~FailWorker(r, pl)
  <2>1. failures' = failures \/ failures' = failures + 1
    BY <1>1 DEF Next, JobStep, RunStep, WorkerAction, RequestPushes, Configure, FindRequests, ReadConfigs, Discard,
       RemoveUnwanted, PushMessage, InsertLog, DeleteRequests, SetSync, EndRun, FailReading, FailWorker, Restart, pushVars
  <2> QED
    BY <1>1, <2>1 DEF FailReading, FailWorker, Restart
<1>3. OneAtATime /\ \A pl \in Platform : Ordered(pl)
  BY <1>2 DEF OrderInv
<1>4. OneAtATime'
  BY <1>3, OneStaysAlone
<1>5. ASSUME NEW q \in Platform PROVE Ordered(q)'
  <2>1. Ordered(q)
    BY <1>3
  <2>2. CASE \E x \in Request : RequestPushes(<<x>>)
    BY <2>1, <2>2, RequestInOrder
  <2>3. ASSUME NEW r \in Run, FindRequests(r) PROVE Ordered(q)'
    BY <1>3, <2>1, <2>3, BatchInOrder
  <2>4. ASSUME NEW r \in Run, ReadConfigs(r) PROVE Ordered(q)'
    <3>1. \A s \in Run : worker'[s][q] = worker[s][q] \/ (worker[s][q] = "reading" /\ worker'[s][q] \in {"filtering", "discarding"})
      BY <1>1, <2>4 DEF ReadConfigs, TypeOK
    <3> QED
      BY <2>1, <2>4, <3>1, Quiet DEF ReadConfigs, Sending
  <2>5. ASSUME NEW r \in Run, EndRun(r) PROVE Ordered(q)'
    <3>1. \A s \in Run : worker'[s][q] = worker[s][q] \/ (worker[s][q] \notin Working /\ worker'[s][q] = "idle")
      BY <1>1, <2>5 DEF EndRun, Idle, TypeOK
    <3>2. \A s \in Run : worker[s][q] \notin Working => worker[s][q] \notin {"logging", "deleting", "syncing"}
      BY DEF Working, WorkerStep
    <3> QED
      BY <2>1, <2>5, <3>1, <3>2, Quiet DEF EndRun, Sending
  <2>6. CASE (\E pl \in Platform : Configure(pl)) \/ UNCHANGED pushVars
    BY <2>1, <2>6, Quiet DEF Configure, pushVars, Sending
  <2>7. ASSUME NEW r \in Run, NEW pl \in Platform, WorkerAction(r, pl) PROVE Ordered(q)'
    <3>1. CASE Discard(r, pl)
      <4>1. /\ worker[r][pl] = "discarding" /\ worker'[r][pl] = "done" /\ rest'[r][pl] = {}
            /\ outbox' = outbox \ rest[r][pl] /\ UNCHANGED <<request, topic>>
            /\ \A s \in Run : \A x \in Platform : s # r \/ x # pl => worker'[s][x] = worker[s][x] /\ rest'[s][x] = rest[s][x]
        BY <1>1, <3>1 DEF Discard, Goto, Drop, TypeOK
      <4> QED
        BY <2>1, <4>1, Shrinks DEF Sending
    <3>2. CASE RemoveUnwanted(r, pl)
      <4>1. /\ worker[r][pl] = "filtering" /\ worker'[r][pl] \in {"done", "pushing"} /\ rest'[r][pl] = Wanted(rest[r][pl])
            /\ outbox' = outbox \ (rest[r][pl] \ Wanted(rest[r][pl])) /\ UNCHANGED <<request, topic>>
            /\ \A s \in Run : \A x \in Platform : s # r \/ x # pl => worker'[s][x] = worker[s][x] /\ rest'[s][x] = rest[s][x]
        BY <1>1, <3>2 DEF RemoveUnwanted, Goto, Drop, TypeOK
      <4>2. Wanted(rest[r][pl]) \subseteq rest[r][pl]
        BY DEF Wanted
      <4> QED
        BY <2>1, <4>1, <4>2, Shrinks DEF Sending
    <3>3. CASE PushMessage(r, pl)
      BY <1>3, <2>1, <3>3, MessageInOrder
    <3>4. CASE InsertLog(r, pl)
      <4>1. /\ worker[r][pl] = "logging" /\ worker'[r][pl] = "deleting" /\ UNCHANGED <<request, outbox, topic, rest>>
            /\ \A s \in Run : \A x \in Platform : s # r \/ x # pl => worker'[s][x] = worker[s][x]
        BY <1>1, <3>4 DEF InsertLog, Goto, TypeOK
      <4> QED
        BY <2>1, <4>1, Quiet DEF Sending
    <3>5. CASE DeleteRequests(r, pl)
      BY <1>3, <2>1, <3>5, DeletionInOrder
    <3>6. CASE SetSync(r, pl)
      BY <2>1, <3>6, SyncInOrder
    <3> QED
      BY <2>7, <3>1, <3>2, <3>3, <3>4, <3>5, <3>6 DEF WorkerAction
  <2>8. CASE JobStep
    <3>1. PICK r \in Run : RunStep(r)
      BY <1>2, <2>8 DEF JobStep
    <3>2. CASE \E pl \in Platform : WorkerAction(r, pl)
      BY <2>7, <3>2
    <3> QED
      BY <2>3, <2>4, <2>5, <3>1, <3>2 DEF RunStep
  <2> QED
    BY <2>2, <2>6, <2>8 DEF Next
<1> QED
  BY <1>4, <1>5

LEMMA InitOrder == Init => OrderInv
<1> SUFFICES ASSUME Init PROVE OrderInv
  OBVIOUS
<1>1. OneAtATime
  BY DEF Init, OneAtATime, Idle, Nothing
<1>2. ASSUME NEW pl \in Platform PROVE Ordered(pl)
  <2>1. Sent(pl) = {} /\ DOMAIN topic[pl] = {}
    BY DEF Init, Sent
  <2>2. \A r \in Run : rest[r][pl] = {} /\ worker[r][pl] = "idle"
    BY DEF Init, Idle, Nothing
  <2> QED
    BY <2>1, <2>2 DEF Ordered, Before
<1> QED
  BY <1>1, <1>2 DEF OrderInv

\* As long as nothing fails, a platform receives its requests once each and in the order they
\* were made, over all messages and executions, for any backlog, batch and size of a message.
THEOREM AlwaysSentInOrder == Spec => []SentInOrder
<1>1. OrderInv => SentInOrder
  BY DEF OrderInv, SentInOrder, Ordered, Before
<1> QED
  BY <1>1, InitSync, InitOrder, NextOrder, NextSync, Invariance, PTL DEF Spec
=============================================================================
