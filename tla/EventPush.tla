------------------------------ MODULE EventPush ------------------------------
(***************************************************************************)
(* The delivery events a transporter is told of by FTP.  An import makes a *)
(* task and the requests of its parcels, EventPushJob writes the requests  *)
(* that are due into files, logs the files, and then sets the status of    *)
(* the requests of each file and, at the end, of the tasks.                *)
(*                                                                         *)
(* FtpJob awaits handle, so that JobController runs one execution at a     *)
(* time; imports run beside it.                                            *)
(***************************************************************************)
EXTENDS Integers, Sequences, FiniteSetsExt

CONSTANTS
  Number,        \* tracking numbers that are asked for
  Accepted,      \* those of parcels that exist and are with the transporter
  Importer,      \* imports at the same time
  ChunkSize,     \* requests per file (8000 in the code)
  MaxTasks,      \* bound: rows of npm_event_push_task
  MaxFailures    \* bound: failed calls and restarts

ASSUME NumberAssumption == IsFiniteSet(Number) /\ Accepted \subseteq Number
ASSUME SizeAssumption == ChunkSize \in Nat \ {0} /\ MaxTasks \in Nat

VARIABLES
  task,       \* npm_event_push_task: the status of each task; its place is its id
  wanted,     \* the numbers each task was made for
  request,    \* npm_event_push_request: a row for each number that has one
  future,     \* the numbers whose event time is still to come
  importing,  \* the task each import has saved but not its requests, or 0
  ftp,        \* the files on the server of the transporter
  log,        \* npm_event_push_log: the files that were logged
  step,       \* where the execution of the job is
  due,        \* the numbers it has read
  left,       \* those it has not put into a file yet
  failedTasks, \* the tasks it takes for failed
  failures

jobVars == <<step, due, left, failedTasks>>
vars == <<task, wanted, request, future, importing, ftp, log, jobVars, failures>>

Status == {"TO_BE_PUSHED", "PUSHED", "FAILED"}
TaskId == 1 .. MaxTasks

Unrequested == [task |-> 0, status |-> "FAILED"]
JobStep == {"idle", "put", "log", "mark", "fail", "tasksFailed", "tasksPushed"}

TypeOK ==
  /\ task \in Seq(Status) /\ Len(task) <= MaxTasks
  /\ wanted \in [DOMAIN task -> SUBSET Number]
  /\ request \in [Number -> [task : 0 .. MaxTasks, status : Status]]
  /\ \A n \in Number : request[n].task \in DOMAIN task \cup {0}
  /\ future \subseteq Number
  /\ importing \in [Importer -> TaskId \cup {0}]
  /\ ftp \in Seq(SUBSET Number)
  /\ log \in SUBSET SUBSET Number
  /\ step \in JobStep
  /\ left \subseteq due /\ due \subseteq Number
  /\ failedTasks \subseteq TaskId
  /\ failures \in Nat

Init ==
  /\ task = <<>>
  /\ wanted = <<>>
  /\ request = [n \in Number |-> Unrequested]
  /\ future = {}
  /\ importing = [m \in Importer |-> 0]
  /\ ftp = <<>>
  /\ log = {}
  /\ step = "idle"
  /\ due = {}
  /\ left = {}
  /\ failedTasks = {}
  /\ failures = 0

-----------------------------------------------------------------------------
Requested(n) == request[n].task # 0

SaveTask(m, S) ==
  /\ importing[m] = 0
  /\ S # {}
  /\ S \cap Accepted # {}
  /\ Len(task) < MaxTasks
  /\ task' = Append(task, "TO_BE_PUSHED")
  /\ wanted' = Append(wanted, S)
  /\ importing' = [importing EXCEPT ![m] = Len(task) + 1]
  /\ UNCHANGED <<request, future, ftp, log, jobVars, failures>>

\* The rows of one import are saved in one transaction, which the unique index on
\* number and event code refuses when one of the numbers has a row already.
SaveRequests(m) ==
  LET t == importing[m]
  IN /\ t # 0
     /\ IF \E n \in wanted[t] : Requested(n)
        THEN UNCHANGED <<request, future>>
        ELSE /\ request' = [n \in Number |->
                  IF n \notin wanted[t] THEN request[n]
                  ELSE [task |-> t,
                        status |-> IF n \in Accepted THEN "TO_BE_PUSHED" ELSE "FAILED"]]
             /\ \/ future' = future                \* bulkInsert: the events are of now
                \/ /\ Cardinality(wanted[t]) = 1   \* create: a time that is given
                   /\ future' = future \cup wanted[t]
     /\ importing' = [importing EXCEPT ![m] = 0]
     /\ UNCHANGED <<task, wanted, ftp, log, jobVars, failures>>

TimeComes(n) ==
  /\ n \in future
  /\ future' = future \ {n}
  /\ UNCHANGED <<task, wanted, request, importing, ftp, log, jobVars, failures>>

-----------------------------------------------------------------------------
Goto(from, to) == step = from /\ step' = to
SetStatus(S, status) ==
  request' = [n \in Number |->
                IF n \in S THEN [request[n] EXCEPT !.status = status] ELSE request[n]]

SetTasks(S, status) == task' = [t \in DOMAIN task |-> IF t \in S THEN status ELSE task[t]]

TasksOf(S) == {request[n].task : n \in S}

Outstanding == {n \in Number : Requested(n) /\ request[n].status = "TO_BE_PUSHED"}

\* Wrong: an execution waits until it can fill a file.
FindRequestsOfFullFile ==
  /\ Goto("idle", "put")
  /\ Cardinality(Outstanding \ future) >= ChunkSize
  /\ due' = Outstanding \ future
  /\ left' = Outstanding \ future
  /\ UNCHANGED <<task, wanted, request, future, importing, ftp, log, failedTasks, failures>>

\* Wrong: what has been pushed is read again.
FindRequestsOfAnyStatus ==
  /\ Goto("idle", "put")
  /\ \E n \in Number \ future : Requested(n)
  /\ due' = {n \in Number \ future : Requested(n)}
  /\ left' = due'
  /\ UNCHANGED <<task, wanted, request, future, importing, ftp, log, failedTasks, failures>>

\* Wrong: an execution takes no more than fit into one file.
FindRequestsOfOneFile ==
  /\ Goto("idle", "put")
  /\ Outstanding \ future # {}
  /\ \E S \in SUBSET (Outstanding \ future) :
       /\ Cardinality(S) = Min({ChunkSize, Cardinality(Outstanding \ future)})
       /\ due' = S /\ left' = S
  /\ UNCHANGED <<task, wanted, request, future, importing, ftp, log, failedTasks, failures>>

FindRequests ==
  /\ Goto("idle", "put")
  /\ Outstanding \ future # {}
  /\ due' = Outstanding \ future
  /\ left' = Outstanding \ future
  /\ UNCHANGED <<task, wanted, request, future, importing, ftp, log, failedTasks, failures>>

\* The rows come in no order: any of them fill the next file.
PutFile ==
  /\ Goto("put", "log")
  /\ \E S \in SUBSET left :
       /\ Cardinality(S) = Min({ChunkSize, Cardinality(left)})
       /\ ftp' = Append(ftp, S)
  /\ UNCHANGED <<task, wanted, request, future, importing, log, due, left, failedTasks, failures>>

File == ftp[Len(ftp)]

SaveLog ==
  /\ Goto("log", "mark")
  /\ log' = log \cup {File}
  /\ UNCHANGED <<task, wanted, request, future, importing, ftp, due, left, failedTasks, failures>>

NextFile(S) == IF left = S THEN "tasksFailed" ELSE "put"

\* Wrong: the status is set for the requests of all files at once.
MarkAllPushed ==
  /\ Goto("mark", NextFile(File))
  /\ SetStatus(due, "PUSHED")
  /\ left' = left \ File
  /\ UNCHANGED <<task, wanted, future, importing, ftp, log, due, failedTasks, failures>>

MarkPushed ==
  /\ Goto("mark", NextFile(File))
  /\ SetStatus(File, "PUSHED")
  /\ left' = left \ File
  /\ UNCHANGED <<task, wanted, future, importing, ftp, log, due, failedTasks, failures>>

\* Putting or logging a file, or setting its status, fails.  failedTaskIds.concat
\* returns a new array, which is dropped: failedTasks stays as it is.
FailFile(S) ==
  /\ failures < MaxFailures
  /\ failures' = failures + 1
  /\ step' = NextFile(S)
  /\ SetStatus(S, "FAILED")
  /\ left' = left \ S
  /\ UNCHANGED <<task, wanted, future, importing, ftp, log, due, failedTasks>>

\* The upload to S3 or the put fails, so that there is no file.
FailPut ==
  /\ step = "put"
  /\ \E S \in SUBSET left : /\ Cardinality(S) = Min({ChunkSize, Cardinality(left)})
                            /\ FailFile(S)

\* The file is on the server, but the log or the status cannot be written.
FailAfterPut ==
  /\ step \in {"log", "mark"}
  /\ FailFile(File)

FailTasks ==
  /\ Goto("tasksFailed", "tasksPushed")
  /\ SetTasks(failedTasks, "FAILED")
  /\ UNCHANGED <<wanted, request, future, importing, ftp, log, due, left, failedTasks, failures>>

EndJob ==
  /\ step' = "idle"
  /\ due' = {}
  /\ left' = {}
  /\ failedTasks' = {}

PushTasks ==
  /\ step = "tasksPushed"
  /\ SetTasks(TasksOf(due) \ failedTasks, "PUSHED")
  /\ EndJob
  /\ UNCHANGED <<wanted, request, future, importing, ftp, log, failures>>

\* The process of the job stops, or a call outside the try block fails.
BreakJob ==
  /\ failures < MaxFailures
  /\ failures' = failures + 1
  /\ step # "idle"
  /\ EndJob
  /\ UNCHANGED <<task, wanted, request, future, importing, ftp, log>>

BreakImport(m) ==
  /\ failures < MaxFailures
  /\ failures' = failures + 1
  /\ importing[m] # 0
  /\ importing' = [importing EXCEPT ![m] = 0]
  /\ UNCHANGED <<task, wanted, request, future, ftp, log, jobVars>>

Job == FindRequests \/ PutFile \/ SaveLog \/ MarkPushed \/ FailTasks \/ PushTasks

Next ==
  \/ \E m \in Importer :
       \/ \E S \in SUBSET Number : SaveTask(m, S)
       \/ SaveRequests(m)
       \/ BreakImport(m)
  \/ \E n \in Number : TimeComes(n)
  \/ Job \/ FailPut \/ FailAfterPut \/ BreakJob

Spec == Init /\ [][Next]_vars

\* Time passes, SM calls the job at regular times, and what it awaits is answered.
FairSpec ==
  /\ Spec
  /\ \A n \in Number : WF_vars(TimeComes(n))
  /\ \A m \in Importer : WF_vars(SaveRequests(m))
  /\ WF_vars(Job)

-----------------------------------------------------------------------------
OnFtp == UNION {ftp[k] : k \in DOMAIN ftp}

\* A request counts as pushed only if it is in a file of the transporter and that file
\* is in the log, wherever the job broke off.
PushedIsLogged ==
  \A n \in Number : request[n].status = "PUSHED" => \E S \in log : n \in S /\ n \in OnFtp

\* A task counts as pushed only when none of its requests is outstanding, although the
\* requests of a task may be spread over several files and imports go on meanwhile.
PushedTaskIsThrough ==
  \A n \in Number :
    Requested(n) /\ task[request[n].task] = "PUSHED" => request[n].status # "TO_BE_PUSHED"

\* As long as nothing fails, no event is reported to the transporter twice.
ReportedOnce ==
  failures = 0 => \A k, l \in DOMAIN ftp : k # l => ftp[k] \cap ftp[l] = {}

\* What the failed state of a task is for: a task is not set to pushed, with the time of
\* the push, when the push of one of its requests has failed.
PushedTaskWasPushed ==
  \A n \in Accepted :
    Requested(n) /\ task[request[n].task] = "PUSHED" => request[n].status # "FAILED"

\* Every request is dealt with in the end.
RequestsEnd == \A n \in Number : n \in Outstanding ~> n \notin Outstanding
=============================================================================
