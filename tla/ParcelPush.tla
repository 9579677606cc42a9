----------------------------- MODULE ParcelPush ------------------------------
(***************************************************************************)
(* ParcelPushJob: works off npm_parcel_push_request, one Kafka message per *)
(* chunk of requests, and moves what it has sent to npm_parcel_push_log.   *)
(*                                                                         *)
(* One execution of the job runs a function per platform concurrently, and *)
(* waits for them with Promise.all.  When the first of them fails the job  *)
(* is over for JobController, which may start the next execution, while    *)
(* the functions of the other platforms go on.  movePushRequestToLog is    *)
(* annotated as a transaction, but the services it calls do not take part  *)
(* in it, so that each of its three writes stands on its own.              *)
(***************************************************************************)
EXTENDS Integers, Sequences, FiniteSets

CONSTANTS
  Parcel,
  Platform,
  PlatformOf,    \* [Parcel -> Platform]
  Run,           \* executions of the job that may be in memory at once
  BatchLimit,    \* requests read by one execution (50000 in the code)
  ChunkSize,     \* requests per message (1000 in the code)
  MaxRequests,   \* bound: requests ever made
  MaxFailures    \* bound: failed calls and restarts

None == "none"

ASSUME PlatformAssumption == PlatformOf \in [Parcel -> Platform]
ASSUME RunAssumption == None \notin Run
ASSUME SizeAssumption == BatchLimit \in Nat \ {0} /\ ChunkSize \in Nat \ {0}
ASSUME BoundAssumption == MaxRequests \in Nat

VARIABLES
  request,    \* every request ever inserted; its place is its id
  outbox,     \* the ids in npm_parcel_push_request
  enabled,    \* the platforms with an enabled row in npm_parcel_push
  current,    \* the execution JobController waits for, or None
  worker,     \* where the function of each execution and platform is
  rest,       \* the requests it has still to deal with
  topic,      \* the messages sent to each platform: sets of ids, in order
  logged,     \* the ids with a row in npm_parcel_push_log
  synced,     \* the parcels with sync = true
  excused,    \* history: the ids deleted although they were never sent
  failures    \* calls that failed and restarts so far

tables == <<request, outbox, enabled, logged, synced>>
pushVars == <<tables, current, worker, rest, topic, excused, failures>>

Id == 1 .. MaxRequests

\* A request is wanted unless its parcel is in status CREATED or its transporter
\* is not among those of the platform.
Request == [parcel : Parcel, wanted : BOOLEAN]

WorkerStep == {"idle", "reading", "discarding", "filtering", "pushing", "logging",
               "deleting", "syncing", "done", "failed"}

Working == WorkerStep \ {"idle", "done", "failed"}

TypeOK ==
  /\ request \in Seq(Request)
  /\ outbox \subseteq DOMAIN request
  /\ enabled \subseteq Platform
  /\ current \in Run \cup {None}
  /\ worker \in [Run -> [Platform -> WorkerStep]]
  /\ rest \in [Run -> [Platform -> SUBSET Id]]
  /\ topic \in [Platform -> Seq(SUBSET Id)]
  /\ logged \subseteq DOMAIN request
  /\ synced \subseteq Parcel
  /\ excused \subseteq DOMAIN request
  /\ failures \in Nat

Idle == [pl \in Platform |-> "idle"]
Nothing == [pl \in Platform |-> {}]

Init ==
  /\ request = <<>>
  /\ outbox = {}
  /\ enabled = Platform
  /\ current = None
  /\ worker = [r \in Run |-> Idle]
  /\ rest = [r \in Run |-> Nothing]
  /\ topic = [pl \in Platform |-> <<>>]
  /\ logged = {}
  /\ synced = {}
  /\ excused = {}
  /\ failures = 0

-----------------------------------------------------------------------------
\* A handler of trackings, or an order, inserts requests in one statement.
RequestPushes(rs) ==
  /\ Len(request) + Len(rs) <= MaxRequests
  /\ request' = request \o rs
  /\ outbox' = outbox \cup (Len(request) + 1 .. Len(request) + Len(rs))
  /\ UNCHANGED <<enabled, current, worker, rest, topic, logged, synced, excused, failures>>

\* Somebody enables or disables the push of a platform.
Configure(pl) ==
  /\ enabled' = IF pl \in enabled THEN enabled \ {pl} ELSE enabled \cup {pl}
  /\ UNCHANGED <<request, outbox, current, worker, rest, topic, logged, synced, excused,
                 failures>>

For(pl, S) == {i \in S : PlatformOf[request[i].parcel] = pl}

\* Wrong: whichever requests the database returns.
NewestFirst(n, S) == {i \in S : Cardinality({j \in S : j > i}) < n}

\* The n oldest of a set of ids.
Oldest(n, S) == {i \in S : Cardinality({j \in S : j < i}) < n}

FindRequests(r) ==
  /\ current = None
  /\ worker[r] = Idle
  /\ outbox # {}
  /\ current' = r
  /\ LET batch == Oldest(BatchLimit, outbox)
     IN /\ rest' = [rest EXCEPT ![r] = [pl \in Platform |-> For(pl, batch)]]
        /\ worker' = [worker EXCEPT ![r] = [pl \in Platform |->
                        IF For(pl, batch) = {} THEN "idle" ELSE "reading"]]
  /\ UNCHANGED <<tables, topic, excused, failures>>

\* The configurations are read after the requests, once for all platforms.
ReadConfigs(r) ==
  /\ \E pl \in Platform : worker[r][pl] = "reading"
  /\ worker' = [worker EXCEPT ![r] = [pl \in Platform |->
       IF worker[r][pl] # "reading" THEN worker[r][pl]
       ELSE IF pl \in enabled THEN "filtering" ELSE "discarding"]]
  /\ UNCHANGED <<tables, current, rest, topic, excused, failures>>

Goto(r, pl, from, to) ==
  /\ worker[r][pl] = from
  /\ worker' = [worker EXCEPT ![r][pl] = to]

Drop(S) ==
  /\ outbox' = outbox \ S
  /\ excused' = excused \cup S

\* No enabled configuration: the requests of the platform are deleted.
Discard(r, pl) ==
  /\ Goto(r, pl, "discarding", "done")
  /\ Drop(rest[r][pl])
  /\ rest' = [rest EXCEPT ![r][pl] = {}]
  /\ UNCHANGED <<request, enabled, current, topic, logged, synced, failures>>

Wanted(S) == {i \in S : request[i].wanted}

\* Wrong: everything that was read is deleted, and sent from memory.
RemoveAll(r, pl) ==
  LET wanted == Wanted(rest[r][pl])
  IN /\ Goto(r, pl, "filtering", IF wanted = {} THEN "done" ELSE "pushing")
     /\ outbox' = outbox \ rest[r][pl]
     /\ excused' = excused \cup (rest[r][pl] \ wanted)
     /\ rest' = [rest EXCEPT ![r][pl] = wanted]
     /\ UNCHANGED <<request, enabled, current, topic, logged, synced, failures>>

RemoveUnwanted(r, pl) ==
  LET wanted == Wanted(rest[r][pl])
  IN /\ Goto(r, pl, "filtering", IF wanted = {} THEN "done" ELSE "pushing")
     /\ Drop(rest[r][pl] \ wanted)
     /\ rest' = [rest EXCEPT ![r][pl] = wanted]
     /\ UNCHANGED <<request, enabled, current, topic, logged, synced, failures>>

Chunk(r, pl) == Oldest(ChunkSize, rest[r][pl])

PushMessage(r, pl) ==
  /\ Goto(r, pl, "pushing", "logging")
  /\ topic' = [topic EXCEPT ![pl] = Append(@, Chunk(r, pl))]
  /\ UNCHANGED <<tables, current, rest, excused, failures>>

\* Wrong: the log takes only requests of parcels it does not know yet.
InsertLogOfNewParcels(r, pl) ==
  /\ Goto(r, pl, "logging", "deleting")
  /\ logged' = logged \cup {i \in Chunk(r, pl) :
                            \A j \in logged : request[j].parcel # request[i].parcel}
  /\ UNCHANGED <<request, outbox, enabled, current, rest, topic, synced, excused, failures>>

InsertLog(r, pl) ==
  /\ Goto(r, pl, "logging", "deleting")
  /\ logged' = logged \cup Chunk(r, pl)
  /\ UNCHANGED <<request, outbox, enabled, current, rest, topic, synced, excused, failures>>

DeleteRequests(r, pl) ==
  /\ Goto(r, pl, "deleting", "syncing")
  /\ outbox' = outbox \ Chunk(r, pl)
  /\ UNCHANGED <<request, enabled, current, rest, topic, logged, synced, excused, failures>>

ParcelsOf(S) == {request[i].parcel : i \in S}

\* Wrong: sync is set for all the parcels of the platform's function at once.
SetSyncOfAll(r, pl) ==
  LET left == rest[r][pl] \ Chunk(r, pl)
  IN /\ Goto(r, pl, "syncing", IF left = {} THEN "done" ELSE "pushing")
     /\ synced' = synced \cup ParcelsOf(rest[r][pl])
     /\ rest' = [rest EXCEPT ![r][pl] = left]
     /\ UNCHANGED <<request, outbox, enabled, current, topic, logged, excused, failures>>

SetSync(r, pl) ==
  LET left == rest[r][pl] \ Chunk(r, pl)
  IN /\ Goto(r, pl, "syncing", IF left = {} THEN "done" ELSE "pushing")
     /\ synced' = synced \cup ParcelsOf(Chunk(r, pl))
     /\ rest' = [rest EXCEPT ![r][pl] = left]
     /\ UNCHANGED <<request, outbox, enabled, current, topic, logged, excused, failures>>

\* The functions of all platforms have ended.
EndRun(r) ==
  /\ worker[r] # Idle
  /\ \A pl \in Platform : worker[r][pl] \notin Working
  /\ current' = IF current = r THEN None ELSE current
  /\ worker' = [worker EXCEPT ![r] = Idle]
  /\ UNCHANGED <<tables, rest, topic, excused, failures>>

\* Reading the configurations fails, before any function has started.
FailReading(r) ==
  /\ failures < MaxFailures
  /\ failures' = failures + 1
  /\ \E pl \in Platform : worker[r][pl] = "reading"
  /\ worker' = [worker EXCEPT ![r] = Idle]
  /\ rest' = [rest EXCEPT ![r] = Nothing]
  /\ current' = None
  /\ UNCHANGED <<tables, topic, excused>>

\* Wrong: a failed execution stays the current one.
FailWorkerHeld(r, pl) ==
  /\ failures < MaxFailures
  /\ failures' = failures + 1
  /\ worker[r][pl] \in Working \ {"reading"}
  /\ worker' = [worker EXCEPT ![r] = Idle]
  /\ rest' = [rest EXCEPT ![r] = Nothing]
  /\ UNCHANGED <<tables, current, topic, excused>>

\* A call of one platform's function fails; Promise.all rejects at once.
FailWorker(r, pl) ==
  /\ failures < MaxFailures
  /\ failures' = failures + 1
  /\ worker[r][pl] \in Working \ {"reading"}
  /\ worker' = [worker EXCEPT ![r][pl] = "failed"]
  /\ rest' = [rest EXCEPT ![r][pl] = {}]
  /\ current' = IF current = r THEN None ELSE current
  /\ UNCHANGED <<tables, topic, excused>>

\* The process restarts: JobController and the job keep their state in memory.
Restart ==
  /\ failures < MaxFailures
  /\ failures' = failures + 1
  /\ current' = None
  /\ worker' = [r \in Run |-> Idle]
  /\ rest' = [r \in Run |-> Nothing]
  /\ UNCHANGED <<tables, topic, excused>>

WorkerAction(r, pl) ==
  \/ Discard(r, pl)
  \/ RemoveUnwanted(r, pl)
  \/ PushMessage(r, pl)
  \/ InsertLog(r, pl)
  \/ DeleteRequests(r, pl)
  \/ SetSync(r, pl)

RunStep(r) ==
  \/ FindRequests(r)
  \/ ReadConfigs(r)
  \/ \E pl \in Platform : WorkerAction(r, pl)
  \/ EndRun(r)

JobStep ==
  \/ \E r \in Run : RunStep(r) \/ FailReading(r) \/ \E pl \in Platform : FailWorker(r, pl)
  \/ Restart

Next ==
  \/ \E q \in Request : RequestPushes(<<q>>)
  \/ \E pl \in Platform : Configure(pl)
  \/ JobStep

Spec == Init /\ [][Next]_pushVars

\* SM calls the job at regular times, and what the job awaits is answered.
FairSpec ==
  /\ Spec
  /\ WF_pushVars(\E r \in Run : FindRequests(r))
  /\ \A r \in Run :
       /\ WF_pushVars(ReadConfigs(r))
       /\ WF_pushVars(EndRun(r))
       /\ \A pl \in Platform : WF_pushVars(WorkerAction(r, pl))

-----------------------------------------------------------------------------
Sent(pl) == UNION {topic[pl][n] : n \in DOMAIN topic[pl]}
Delivered == UNION {Sent(pl) : pl \in Platform}

Box == INSTANCE Outbox WITH
  Item <- Id, requested <- DOMAIN request, waiting <- outbox, delivered <- Delivered

\* The job implements the outbox: a request is deleted only once it was sent, or
\* because its platform does not want it, also when executions overlap, calls fail
\* and the process restarts between any two of its writes.
ImplementsOutbox == Box!Spec

\* The log knows of every request that was sent and is gone, although the log, the
\* outbox and the parcels are written one after the other.
GoneIsLogged == DOMAIN request \ (outbox \cup excused) \subseteq logged

\* A parcel is marked as synced only if one of its requests was sent.
SyncedWasSent == \A p \in synced : \E i \in Delivered : request[i].parcel = p

\* As long as nothing fails, a platform receives the requests of its parcels once
\* each and in the order they were made, over all messages and executions.
SentInOrder ==
  failures = 0 =>
    \A pl \in Platform : \A m, n \in DOMAIN topic[pl] :
      m < n => \A i \in topic[pl][m], j \in topic[pl][n] : i < j

\* No request stays in the outbox for ever, although calls fail and the process
\* restarts now and then, and whatever is configured meanwhile.
OutboxDrains == \A i \in Id : i \in outbox ~> i \notin outbox
=============================================================================
