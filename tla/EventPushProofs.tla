---------------------------- MODULE EventPushProofs ----------------------------
(***************************************************************************)
(* What the push of events promises, whatever imports run beside it and    *)
(* wherever an execution of the job breaks off: requests that count as     *)
(* pushed are in a file that is logged, tasks that count as pushed have    *)
(* nothing outstanding, and nothing is reported twice unless something     *)
(* failed.                                                                 *)
(*                                                                         *)
(* What makes it so is that a task gets all of its requests in one step,   *)
(* that no import changes a request another has saved, and that the job    *)
(* leaves nothing it has read as it was when it comes to its tasks.        *)
(***************************************************************************)
EXTENDS EventPush, SequenceTheorems, FiniteSetTheorems, TLAPS

\* A task that is being imported has no requests yet, and is imported once.
ImportIsNew ==
  \A m \in Importer : importing[m] # 0 =>
    /\ importing[m] \in DOMAIN task /\ task[importing[m]] = "TO_BE_PUSHED"
    /\ \A n \in Number : request[n].task # importing[m]
    /\ \A l \in Importer : importing[l] = importing[m] => l = m

\* The requests of a task are due together, for one whose time is still to come is alone.
FutureIsAlone ==
  \A n \in future :
    Requested(n) /\ \A k \in Number : request[k].task = request[n].task => k = n

\* What an execution has read is outstanding until it has been through it.
DueIsRequested ==
  /\ \A n \in due : Requested(n)
  /\ \A n \in due \ left : request[n].status # "TO_BE_PUSHED"
  /\ \A n \in left : request[n].status = "TO_BE_PUSHED"
  /\ step \in {"idle", "tasksFailed", "tasksPushed"} => left = {}
DueIsWhole ==
  \A n \in due, k \in Number :
    request[k].task = request[n].task /\ request[k].status = "TO_BE_PUSHED" => k \in due

\* The file at hand.
FileIsLeft ==
  /\ step \in {"log", "mark"} => ftp # <<>> /\ File \subseteq left
  /\ step = "mark" => File \in log

Sent(k) ==
  \/ k = Len(ftp) /\ step \in {"log", "mark"}
  \/ \A n \in ftp[k] : request[n].status = "PUSHED"
FilesAreSent == failures = 0 => \A k \in DOMAIN ftp : Sent(k)

\* failedTaskIds.concat never fills the array.
NoTaskFails == failedTasks = {}
UnrequestedIsFailed == \A n \in Number : ~Requested(n) => request[n].status = "FAILED"

IInv ==
  /\ TypeOK
  /\ ImportIsNew /\ FutureIsAlone /\ DueIsRequested /\ DueIsWhole
  /\ FileIsLeft /\ FilesAreSent /\ NoTaskFails /\ UnrequestedIsFailed
  /\ PushedIsLogged /\ PushedTaskIsThrough /\ ReportedOnce

-----------------------------------------------------------------------------
LEMMA InitIInv == Init => IInv
<1> SUFFICES ASSUME Init PROVE IInv
  OBVIOUS
<1>1. TypeOK
  <2>1. /\ task = <<>> /\ wanted = <<>> /\ ftp = <<>>
        /\ request = [n \in Number |-> Unrequested]
        /\ importing = [m \in Importer |-> 0]
    BY DEF Init
  <2>2. DOMAIN task = {} /\ Len(task) = 0
    BY <2>1
  <2>3. wanted \in [DOMAIN task -> SUBSET Number]
    BY <2>1, <2>2
  <2>4. request \in [Number -> [task : 0 .. MaxTasks, status : Status]]
    BY <2>1, SizeAssumption DEF Unrequested, Status
  <2> QED
    BY <2>1, <2>2, <2>3, <2>4, SizeAssumption DEF Init, TypeOK, JobStep, Unrequested, TaskId
<1>2. ImportIsNew /\ FutureIsAlone /\ DueIsRequested /\ DueIsWhole
  BY DEF Init, ImportIsNew, FutureIsAlone, DueIsRequested, DueIsWhole
<1>3. FileIsLeft /\ FilesAreSent /\ NoTaskFails /\ UnrequestedIsFailed
  BY DEF Init, FileIsLeft, FilesAreSent, NoTaskFails, UnrequestedIsFailed, Unrequested
<1>4. PushedIsLogged /\ PushedTaskIsThrough /\ ReportedOnce
  BY DEF Init, PushedIsLogged, PushedTaskIsThrough, ReportedOnce, Unrequested, Requested
<1> QED
  BY <1>1, <1>2, <1>3, <1>4 DEF IInv

LEMMA Appended ==
  ASSUME NEW S, NEW s \in Seq(S), NEW e \in S
  PROVE  /\ Append(s, e) \in Seq(S)
         /\ Len(Append(s, e)) = Len(s) + 1
         /\ DOMAIN s = 1 .. Len(s) /\ Len(s) \in Nat
         /\ DOMAIN Append(s, e) = DOMAIN s \cup {Len(s) + 1}
         /\ \A k \in DOMAIN s : Append(s, e)[k] = s[k]
         /\ Append(s, e)[Len(s) + 1] = e
<1>1. /\ Append(s, e) \in Seq(S)
      /\ Len(Append(s, e)) = Len(s) + 1
      /\ \A i \in 1 .. Len(s) : Append(s, e)[i] = s[i]
      /\ Append(s, e)[Len(s) + 1] = e
  BY AppendProperties
<1>2. Len(s) \in Nat /\ DOMAIN s = 1 .. Len(s) /\ DOMAIN Append(s, e) = 1 .. Len(Append(s, e))
  BY <1>1, LenProperties
<1> QED
  BY <1>1, <1>2

-----------------------------------------------------------------------------
(* Imports.  They touch neither what the job has read nor what it has sent. *)

LEMMA SaveTaskStep ==
  ASSUME IInv, NEW m \in Importer, NEW S \in SUBSET Number, SaveTask(m, S)
  PROVE  IInv'
<1> DEFINE t == Len(task) + 1
<1>1. TypeOK
  BY DEF IInv
<1>2. /\ task' = Append(task, "TO_BE_PUSHED") /\ wanted' = Append(wanted, S)
      /\ importing' = [importing EXCEPT ![m] = t] /\ Len(task) < MaxTasks
      /\ UNCHANGED <<request, future, ftp, log, step, due, left, failedTasks, failures>>
  BY DEF SaveTask, jobVars
<1>3. /\ task' \in Seq(Status) /\ Len(task') = t
      /\ DOMAIN task = 1 .. Len(task) /\ Len(task) \in Nat /\ DOMAIN task' = DOMAIN task \cup {t}
      /\ \A k \in DOMAIN task : task'[k] = task[k]
      /\ task'[t] = "TO_BE_PUSHED"
  <2>1. task \in Seq(Status) /\ "TO_BE_PUSHED" \in Status
    BY <1>1 DEF TypeOK, Status
  <2> QED
    BY <1>2, <2>1, Appended
<1>4. wanted' \in [DOMAIN task' -> SUBSET Number]
  <2>1. wanted \in [1 .. Len(task) -> SUBSET Number]
    BY <1>1, <1>3 DEF TypeOK
  <2>2. wanted \in Seq(SUBSET Number) /\ Len(wanted) = Len(task)
    BY <1>3, <2>1, SeqDef
  <2>3. wanted' \in Seq(SUBSET Number) /\ DOMAIN wanted' = DOMAIN task'
    BY <1>2, <1>3, <2>1, <2>2, Appended
  <2>4. wanted' \in [1 .. Len(wanted') -> SUBSET Number] /\ DOMAIN wanted' = 1 .. Len(wanted')
    BY <2>3, LenProperties
  <2> QED
    BY <2>3, <2>4
<1> HIDE DEF t
<1>5. t \in 1 .. MaxTasks /\ t \notin DOMAIN task
  BY <1>2, <1>3, SizeAssumption DEF t
<1>6. \A n \in Number : request[n].task # t
  BY <1>1, <1>3, <1>5, SizeAssumption DEF TypeOK
<1>7. TypeOK'
  <2>1. Len(task') <= MaxTasks
    BY <1>3, <1>5
  <2>2. importing' \in [Importer -> TaskId \cup {0}]
    BY <1>1, <1>2, <1>5 DEF TypeOK, TaskId
  <2>3. \A n \in Number : request'[n].task \in DOMAIN task' \cup {0}
    BY <1>1, <1>2, <1>3 DEF TypeOK
  <2> QED
    BY <1>1, <1>2, <1>3, <1>4, <2>1, <2>2, <2>3 DEF TypeOK
<1>8. ImportIsNew'
  BY <1>1, <1>2, <1>3, <1>5, <1>6 DEF IInv, ImportIsNew, TypeOK
<1>9. PushedTaskIsThrough'
  BY <1>1, <1>2, <1>3, <1>6 DEF IInv, PushedTaskIsThrough, Requested, TypeOK
<1> QED
  BY <1>2, <1>7, <1>8, <1>9
     DEF IInv, FutureIsAlone, DueIsRequested, DueIsWhole, FileIsLeft, FilesAreSent, Sent, File,
         NoTaskFails, UnrequestedIsFailed, PushedIsLogged, ReportedOnce, OnFtp, Requested

LEMMA SaveRequestsStep ==
  ASSUME IInv, NEW m \in Importer, SaveRequests(m)
  PROVE  IInv'
<1> DEFINE t == importing[m]
<1>1. TypeOK /\ ImportIsNew /\ FutureIsAlone /\ DueIsRequested
  BY DEF IInv
<1>2. /\ t # 0 /\ importing' = [importing EXCEPT ![m] = 0]
      /\ UNCHANGED <<task, wanted, ftp, log, step, due, left, failedTasks, failures>>
  BY DEF SaveRequests, jobVars
<1>3. /\ t \in DOMAIN task /\ t \in TaskId /\ task[t] = "TO_BE_PUSHED" /\ wanted[t] \in SUBSET Number
      /\ \A n \in Number : request[n].task # t
  BY <1>1, <1>2 DEF ImportIsNew, TypeOK
<1>5. CASE request' = request /\ future' = future
  BY <1>1, <1>2, <1>5
     DEF IInv, TypeOK, ImportIsNew, FutureIsAlone, DueIsRequested, DueIsWhole, FileIsLeft, FilesAreSent,
         Sent, File, NoTaskFails, UnrequestedIsFailed, PushedIsLogged, PushedTaskIsThrough,
         ReportedOnce, OnFtp, Requested
<1>6. CASE /\ \A n \in wanted[t] : ~Requested(n)
           /\ request' = [n \in Number |->
                 IF n \notin wanted[t] THEN request[n]
                 ELSE [task |-> t, status |-> IF n \in Accepted THEN "TO_BE_PUSHED" ELSE "FAILED"]]
           /\ \/ future' = future
              \/ Cardinality(wanted[t]) = 1 /\ future' = future \cup wanted[t]
  <2> DEFINE W == wanted[t]
  <2>1. \A n \in Number \ W : request'[n] = request[n]
    BY <1>6
  <2>2. \A n \in W : /\ request'[n].task = t
                      /\ request'[n].status \in {"TO_BE_PUSHED", "FAILED"}
                      /\ request[n].task = 0 /\ n \in Number
    BY <1>3, <1>6 DEF Requested
  <2>3. request' \in [Number -> [task : 0 .. MaxTasks, status : Status]]
    <3>1. t \in 0 .. MaxTasks /\ request \in [Number -> [task : 0 .. MaxTasks, status : Status]]
      BY <1>1, <1>3, SizeAssumption DEF TypeOK, TaskId
    <3>2. \A n \in Number : (IF n \in Accepted THEN "TO_BE_PUSHED" ELSE "FAILED") \in Status
      BY DEF Status
    <3> QED
      BY <1>6, <3>1, <3>2
  <2>4. future' \subseteq Number /\ future \subseteq Number /\ due \subseteq Number /\ left \subseteq due
    BY <1>1, <1>3, <1>6 DEF TypeOK
  <2>5. due \cap W = {}
    BY <1>1, <1>6 DEF DueIsRequested
  <2>6. t \in Nat /\ t # 0
    BY <1>2, <1>3, SizeAssumption DEF TaskId
  <2> HIDE DEF W, t
  <2>7. TypeOK'
    <3>1. \A n \in Number : request'[n].task \in DOMAIN task \cup {0}
      BY <1>1, <1>3, <2>1, <2>2 DEF TypeOK
    <3> QED
      BY <1>1, <1>2, <2>3, <2>4, <3>1 DEF TypeOK, TaskId
  <2>8. ImportIsNew'
    <3> SUFFICES ASSUME NEW l \in Importer, importing'[l] # 0
                 PROVE  /\ importing'[l] \in DOMAIN task /\ task[importing'[l]] = "TO_BE_PUSHED"
                        /\ \A n \in Number : request'[n].task # importing'[l]
                        /\ \A k \in Importer : importing'[k] = importing'[l] => k = l
      BY <1>2 DEF ImportIsNew
    <3>1. importing'[l] = importing[l] /\ l # m
      BY <1>1, <1>2 DEF TypeOK
    <3>2. importing[l] # t
      BY <1>1, <1>2, <3>1 DEF ImportIsNew, t
    <3> QED
      BY <1>1, <1>2, <2>1, <2>2, <3>1, <3>2 DEF ImportIsNew, TypeOK
  <2>9. FutureIsAlone'
    <3> SUFFICES ASSUME NEW n \in future', NEW k \in Number
                 PROVE  request'[n].task # 0 /\ (request'[k].task = request'[n].task => k = n)
      BY <2>4 DEF FutureIsAlone, Requested
    <3>1. CASE n \notin W
      <4>1. n \in future /\ request'[n] = request[n] /\ n \in Number
        BY <1>6, <2>1, <2>4, <3>1 DEF W, t
      <4>2. request[n].task # t
        BY <1>3, <4>1 DEF t
      <4>3. request'[k].task = request[n].task => k \notin W /\ request'[k] = request[k]
        BY <2>1, <2>2, <4>1, <4>2
      <4> QED
        BY <1>1, <4>1, <4>3 DEF FutureIsAlone, Requested
    <3>2. n \in W => n \notin future
      BY <1>1, <2>2 DEF FutureIsAlone, Requested
    <3>3. CASE n \in W
      <4>1. Cardinality(W) = 1
        BY <1>6, <3>2, <3>3 DEF W, t
      <4>2. IsFiniteSet(W)
        BY <1>3, FS_Subset, NumberAssumption DEF W, t
      <4>3. PICK x : W = {x}
        BY <4>1, <4>2, FS_Singleton
      <4>4. request'[n].task = t /\ (request'[k].task = t => k \in W)
        BY <1>3, <2>1, <2>2, <3>3 DEF t
      <4> QED
        BY <2>6, <3>3, <4>3, <4>4
    <3> QED
      BY <3>1, <3>3
  <2>10. \A n \in due : n \in Number /\ n \notin W /\ request'[n] = request[n]
    BY <2>1, <2>4, <2>5
  <2>11. DueIsRequested'
    BY <1>1, <1>2, <2>4, <2>10 DEF DueIsRequested, Requested
  <2>12. DueIsWhole'
    <3> SUFFICES ASSUME NEW n \in due, NEW k \in Number,
                        request'[k].task = request'[n].task, request'[k].status = "TO_BE_PUSHED"
                 PROVE  k \in due
      BY <1>2 DEF DueIsWhole
    <3>1. request'[n] = request[n] /\ request[n].task # t
      BY <1>3, <2>10 DEF t
    <3>2. k \notin W /\ request'[k] = request[k]
      BY <2>1, <2>2, <3>1
    <3> QED
      BY <2>10, <3>1, <3>2 DEF IInv, DueIsWhole
  <2>13. \A n \in Number : request'[n].status = "PUSHED" <=> request[n].status = "PUSHED"
    BY <2>1, <2>2 DEF IInv, UnrequestedIsFailed, Requested
  <2>14. FileIsLeft' /\ NoTaskFails' /\ ReportedOnce'
    BY <1>2 DEF IInv, FileIsLeft, File, NoTaskFails, ReportedOnce
  <2>15. FilesAreSent'
    <3>1. \A k \in DOMAIN ftp : ftp[k] \subseteq Number
      BY <1>1, ElementOfSeq, LenProperties DEF TypeOK
    <3> QED
      BY <1>2, <2>13, <3>1 DEF IInv, FilesAreSent, Sent
  <2>16. UnrequestedIsFailed'
    BY <2>1, <2>2, <2>6 DEF IInv, UnrequestedIsFailed, Requested
  <2>17. PushedIsLogged'
    BY <1>2, <2>13 DEF IInv, PushedIsLogged, OnFtp
  <2>18. PushedTaskIsThrough'
    BY <1>2, <1>3, <2>1, <2>2 DEF IInv, PushedTaskIsThrough, Requested, t
  <2> QED
    BY <2>7, <2>8, <2>9, <2>11, <2>12, <2>14, <2>15, <2>16, <2>17, <2>18 DEF IInv
<1> QED
  BY <1>5, <1>6 DEF SaveRequests

LEMMA OtherImportSteps ==
  ASSUME IInv,
         \/ \E m \in Importer : BreakImport(m)
         \/ \E n \in Number : TimeComes(n)
  PROVE  IInv'
<1>1. /\ UNCHANGED <<task, wanted, request, ftp, log, step, due, left, failedTasks>>
      /\ future' \subseteq future
      /\ failures' = failures \/ failures' = failures + 1
      /\ importing' = importing \/ \E m \in Importer : importing' = [importing EXCEPT ![m] = 0]
  BY DEF BreakImport, TimeComes, jobVars
<1>2. TypeOK
  BY DEF IInv
<1>3. TypeOK'
  BY <1>1, <1>2 DEF TypeOK
<1>4. ImportIsNew'
  BY <1>1, <1>2 DEF IInv, ImportIsNew, TypeOK
<1>5. FutureIsAlone'
  BY <1>1 DEF IInv, FutureIsAlone, Requested
<1>6. failures' = 0 => failures = 0
  BY <1>1, <1>2 DEF TypeOK
<1>7. FilesAreSent' /\ ReportedOnce'
  BY <1>1, <1>6 DEF IInv, FilesAreSent, Sent, ReportedOnce
<1> QED
  BY <1>1, <1>3, <1>4, <1>5, <1>7
     DEF IInv, DueIsRequested, DueIsWhole, FileIsLeft, File, NoTaskFails, UnrequestedIsFailed,
         PushedIsLogged, PushedTaskIsThrough, OnFtp, Requested

-----------------------------------------------------------------------------
(* The job. *)

LEMMA FindRequestsStep ==
  ASSUME IInv, FindRequests
  PROVE  IInv'
<1>1. /\ step = "idle" /\ step' = "put" /\ due' = Outstanding \ future /\ left' = due'
      /\ UNCHANGED <<task, wanted, request, future, importing, ftp, log, failedTasks, failures>>
  BY DEF FindRequests, Goto
<1>2. TypeOK'
  BY <1>1 DEF IInv, TypeOK, Outstanding, JobStep
<1>3. DueIsRequested'
  BY <1>1 DEF DueIsRequested, Outstanding, Requested
<1>4. DueIsWhole'
  <2> SUFFICES ASSUME NEW n \in due', NEW k \in Number,
                      request[k].task = request[n].task, request[k].status = "TO_BE_PUSHED"
               PROVE  k \in due'
    BY <1>1 DEF DueIsWhole
  <2>1. n \in Number /\ Requested(n) /\ n \notin future
    BY <1>1 DEF Outstanding
  <2>2. Requested(k)
    BY <2>1 DEF Requested
  <2>3. k \notin future
    BY <2>1 DEF IInv, FutureIsAlone
  <2> QED
    BY <1>1, <2>2, <2>3 DEF Outstanding
<1> QED
  BY <1>1, <1>2, <1>3, <1>4
     DEF IInv, ImportIsNew, FutureIsAlone, FileIsLeft, FilesAreSent, Sent, NoTaskFails, UnrequestedIsFailed,
         PushedIsLogged, PushedTaskIsThrough, ReportedOnce, OnFtp, Requested

LEMMA PutFileStep ==
  ASSUME IInv, PutFile
  PROVE  IInv'
<1>1. PICK S \in SUBSET left : ftp' = Append(ftp, S)
  BY DEF PutFile
<1>2. /\ step = "put" /\ step' = "log"
      /\ UNCHANGED <<task, wanted, request, future, importing, log, due, left, failedTasks, failures>>
  BY DEF PutFile, Goto
<1>3. TypeOK
  BY DEF IInv
<1> DEFINE l == Len(ftp) + 1
<1>4. /\ ftp' \in Seq(SUBSET Number) /\ Len(ftp') = l
      /\ DOMAIN ftp = 1 .. Len(ftp) /\ Len(ftp) \in Nat /\ DOMAIN ftp' = DOMAIN ftp \cup {l}
      /\ \A k \in DOMAIN ftp : ftp'[k] = ftp[k]
      /\ ftp'[l] = S
  <2>1. ftp \in Seq(SUBSET Number) /\ S \in SUBSET Number
    BY <1>3 DEF TypeOK
  <2> QED
    BY <1>1, <2>1, Appended
<1> HIDE DEF l
<1>5. TypeOK'
  BY <1>2, <1>3, <1>4 DEF TypeOK, JobStep
<1>6. FileIsLeft'
  <2>1. l \in DOMAIN ftp'
    BY <1>4
  <2>2. ftp' # <<>>
    BY <2>1
  <2> QED
    BY <1>2, <1>4, <2>2 DEF FileIsLeft, File
<1>7. FilesAreSent'
  BY <1>2, <1>4 DEF IInv, FilesAreSent, Sent
<1>8. OnFtp \subseteq OnFtp'
  BY <1>4 DEF OnFtp
<1>9. PushedIsLogged'
  BY <1>2, <1>8 DEF IInv, PushedIsLogged
<1>10. ReportedOnce'
  <2> SUFFICES ASSUME failures = 0, NEW i \in DOMAIN ftp', NEW j \in DOMAIN ftp', i # j
               PROVE  ftp'[i] \cap ftp'[j] = {}
    BY <1>2 DEF ReportedOnce
  <2>1. \A k \in DOMAIN ftp : ftp[k] \cap S = {}
    <3> SUFFICES ASSUME NEW k \in DOMAIN ftp, NEW n \in ftp[k], n \in S PROVE FALSE
      OBVIOUS
    <3>1. request[n].status = "PUSHED"
      BY <1>2 DEF IInv, FilesAreSent, Sent
    <3>2. request[n].status = "TO_BE_PUSHED"
      BY DEF IInv, DueIsRequested
    <3> QED
      BY <3>1, <3>2
  <2>2. i \in DOMAIN ftp /\ j \in DOMAIN ftp => ftp[i] \cap ftp[j] = {}
    BY DEF IInv, ReportedOnce
  <2> QED
    BY <1>4, <2>1, <2>2
<1> QED
  BY <1>2, <1>5, <1>6, <1>7, <1>9, <1>10
     DEF IInv, ImportIsNew, FutureIsAlone, DueIsRequested, DueIsWhole, NoTaskFails, UnrequestedIsFailed,
         PushedTaskIsThrough, Requested

LEMMA SaveLogStep ==
  ASSUME IInv, SaveLog
  PROVE  IInv'
<1>1. /\ step = "log" /\ step' = "mark" /\ log' = log \cup {File}
      /\ UNCHANGED <<task, wanted, request, future, importing, ftp, due, left, failedTasks, failures>>
  BY DEF SaveLog, Goto
<1>2. File \subseteq left /\ left \subseteq Number
  BY <1>1 DEF IInv, FileIsLeft, TypeOK
<1>3. TypeOK'
  BY <1>1, <1>2 DEF IInv, TypeOK, JobStep
<1> QED
  BY <1>1, <1>3
     DEF IInv, ImportIsNew, FutureIsAlone, DueIsRequested, DueIsWhole, FileIsLeft, File, FilesAreSent, Sent,
         NoTaskFails, UnrequestedIsFailed, PushedIsLogged, PushedTaskIsThrough, ReportedOnce, OnFtp, Requested

\* The status of a file is set, whatever became of it.
LEMMA Marked ==
  ASSUME IInv, NEW S \in SUBSET left, NEW st \in {"PUSHED", "FAILED"},
         SetStatus(S, st), left' = left \ S, step' = NextFile(S),
         st = "PUSHED" => \A n \in S : n \in OnFtp /\ \E F \in log : n \in F,
         failures' \in Nat,
         failures' = 0 => st = "PUSHED" /\ failures = 0 /\ step \in {"log", "mark"} /\ S = File,
         UNCHANGED <<task, wanted, future, importing, ftp, log, due, failedTasks>>
  PROVE  IInv'
<1>1. TypeOK
  BY DEF IInv
<1>2. /\ left \subseteq due /\ due \subseteq Number
      /\ \A n \in Number \ S : request'[n] = request[n]
      /\ \A n \in S : request'[n].task = request[n].task /\ request'[n].status = st
      /\ \A n \in Number : request'[n].task = request[n].task
  BY <1>1 DEF TypeOK, SetStatus
<1>3. request' \in [Number -> [task : 0 .. MaxTasks, status : Status]]
  <2>1. st \in Status
    BY DEF Status
  <2> QED
    BY <1>1, <2>1 DEF TypeOK, SetStatus
<1>4. step' \in {"tasksFailed", "put"} /\ (step' = "tasksFailed" => left' = {})
  BY DEF NextFile
<1>5. TypeOK'
  <2>1. \A n \in Number : request'[n].task \in DOMAIN task \cup {0}
    BY <1>1, <1>2 DEF TypeOK
  <2> QED
    BY <1>1, <1>2, <1>3, <1>4, <2>1 DEF TypeOK, JobStep
<1>6. ImportIsNew' /\ FutureIsAlone'
  BY <1>1, <1>2 DEF IInv, ImportIsNew, FutureIsAlone, Requested, TypeOK
<1>7. DueIsRequested'
  BY <1>2, <1>4 DEF IInv, DueIsRequested, Requested
<1>8. DueIsWhole'
  BY <1>2 DEF IInv, DueIsWhole
<1>9. FileIsLeft' /\ NoTaskFails'
  BY <1>4 DEF IInv, FileIsLeft, NoTaskFails
<1>10. FilesAreSent'
  <2> SUFFICES ASSUME failures' = 0, NEW k \in DOMAIN ftp, NEW n \in ftp[k]
               PROVE  request'[n].status = "PUSHED"
    BY DEF FilesAreSent, Sent
  <2>1. n \in Number
    BY <1>1, ElementOfSeq, LenProperties DEF TypeOK
  <2>2. CASE n \in S
    BY <1>2, <2>2
  <2>3. CASE n \notin S
    BY <1>2, <2>1, <2>3 DEF IInv, FilesAreSent, Sent, File
  <2> QED
    BY <2>2, <2>3
<1>11. UnrequestedIsFailed'
  BY <1>2 DEF IInv, UnrequestedIsFailed, DueIsRequested, Requested
<1>12. PushedIsLogged'
  BY <1>2 DEF IInv, PushedIsLogged, OnFtp
<1>13. PushedTaskIsThrough'
  BY <1>2 DEF IInv, PushedTaskIsThrough, Requested
<1>14. ReportedOnce'
  BY DEF IInv, ReportedOnce
<1> QED
  BY <1>5, <1>6, <1>7, <1>8, <1>9, <1>10, <1>11, <1>12, <1>13, <1>14 DEF IInv

LEMMA MarkSteps ==
  ASSUME IInv, MarkPushed \/ FailPut \/ FailAfterPut
  PROVE  IInv'
<1>1. failures \in Nat
  BY DEF IInv, TypeOK
<1>2. CASE MarkPushed
  <2>1. /\ step = "mark" /\ step' = NextFile(File) /\ SetStatus(File, "PUSHED") /\ left' = left \ File
        /\ UNCHANGED <<task, wanted, future, importing, ftp, log, due, failedTasks, failures>>
    BY <1>2 DEF MarkPushed, Goto
  <2>2. ftp # <<>> /\ File \subseteq left /\ File \in log
    BY <2>1 DEF IInv, FileIsLeft
  <2>3. File \subseteq OnFtp
    <3>1. ftp \in Seq(SUBSET Number)
      BY DEF IInv, TypeOK
    <3>2. Len(ftp) \in DOMAIN ftp
      BY <2>2, <3>1, EmptySeq, LenProperties
    <3> QED
      BY <3>2 DEF File, OnFtp
  <2> QED
    BY <1>1, <2>1, <2>2, <2>3, Marked
<1>3. ASSUME NEW S \in SUBSET left, FailFile(S) PROVE IInv'
  <2>1. /\ failures' = failures + 1 /\ step' = NextFile(S) /\ SetStatus(S, "FAILED") /\ left' = left \ S
        /\ UNCHANGED <<task, wanted, future, importing, ftp, log, due, failedTasks>>
    BY <1>3 DEF FailFile
  <2> QED
    BY <1>1, <2>1, Marked
<1>4. CASE FailPut
  BY <1>3, <1>4 DEF FailPut
<1>5. CASE FailAfterPut
  BY <1>3, <1>5 DEF FailAfterPut, IInv, FileIsLeft
<1> QED
  BY <1>2, <1>4, <1>5

LEMMA FailTasksStep ==
  ASSUME IInv, FailTasks
  PROVE  IInv'
<1>1. /\ step = "tasksFailed" /\ step' = "tasksPushed"
      /\ UNCHANGED <<wanted, request, future, importing, ftp, log, due, left, failedTasks, failures>>
  BY DEF FailTasks, Goto
<1>2. task' = task
  <2>1. task' = [t \in DOMAIN task |-> task[t]]
    BY DEF FailTasks, SetTasks, IInv, NoTaskFails
  <2>2. task \in [DOMAIN task -> Status]
    BY LenProperties DEF IInv, TypeOK
  <2> QED
    BY <2>1, <2>2
<1> QED
  BY <1>1, <1>2
     DEF IInv, TypeOK, JobStep, ImportIsNew, FutureIsAlone, DueIsRequested, DueIsWhole, FileIsLeft, File,
         FilesAreSent, Sent, NoTaskFails, UnrequestedIsFailed, PushedIsLogged, PushedTaskIsThrough,
         ReportedOnce, OnFtp, Requested

LEMMA EndSteps ==
  ASSUME IInv, PushTasks \/ BreakJob
  PROVE  IInv'
<1>1. TypeOK
  BY DEF IInv
<1>2. /\ step' = "idle" /\ due' = {} /\ left' = {} /\ failedTasks' = {}
      /\ UNCHANGED <<wanted, request, future, importing, ftp, log>>
      /\ failures' \in Nat
      /\ failures' = 0 => failures = 0 /\ step \notin {"log", "mark"}
  BY <1>1 DEF PushTasks, BreakJob, EndJob, TypeOK
<1>3. /\ DOMAIN task' = DOMAIN task
      /\ task' \in Seq(Status) /\ Len(task') = Len(task)
      /\ \A t \in DOMAIN task : task'[t] = task[t] \/ (step = "tasksPushed" /\ t \in TasksOf(due))
  <2>1. CASE PushTasks
    <3> DEFINE U == TasksOf(due) \ failedTasks
    <3>1. task' = [t \in 1 .. Len(task) |-> IF t \in U THEN "PUSHED" ELSE task[t]]
      BY <1>1, <2>1, LenProperties DEF PushTasks, SetTasks, TypeOK
    <3>2. Len(task) \in Nat /\ DOMAIN task = 1 .. Len(task) /\ \A t \in 1 .. Len(task) : task[t] \in Status
      BY <1>1, LenProperties, ElementOfSeq DEF TypeOK
    <3>3. task' \in [1 .. Len(task) -> Status]
      BY <3>1, <3>2 DEF Status
    <3>4. task' \in Seq(Status)
      BY <3>2, <3>3, SeqDef
    <3>5. DOMAIN task' = 1 .. Len(task') /\ Len(task') \in Nat
      BY <3>4, LenProperties
    <3>6. Len(task') = Len(task)
      BY <3>2, <3>3, <3>5
    <3> QED
      BY <2>1, <3>1, <3>2, <3>4, <3>5, <3>6 DEF PushTasks
  <2>2. CASE BreakJob
    BY <1>1, <2>2 DEF BreakJob, TypeOK
  <2> QED
    BY <2>1, <2>2
<1>4. TypeOK'
  BY <1>1, <1>2, <1>3 DEF TypeOK, JobStep
<1>5. ImportIsNew'
  <2>1. \A m \in Importer : importing[m] # 0 => importing[m] \notin TasksOf(due)
    BY <1>1 DEF IInv, ImportIsNew, TasksOf, TypeOK
  <2> QED
    BY <1>2, <1>3, <2>1 DEF IInv, ImportIsNew
<1>6. PushedTaskIsThrough'
  <2> SUFFICES ASSUME NEW n \in Number, Requested(n), task'[request[n].task] = "PUSHED"
               PROVE  request[n].status # "TO_BE_PUSHED"
    BY <1>2 DEF PushedTaskIsThrough, Requested
  <2>1. request[n].task \in DOMAIN task
    BY <1>1 DEF TypeOK, Requested
  <2>2. CASE task'[request[n].task] = task[request[n].task]
    BY <2>2 DEF IInv, PushedTaskIsThrough
  <2>3. CASE step = "tasksPushed" /\ request[n].task \in TasksOf(due)
    <3>1. PICK k \in due : request[k].task = request[n].task
      BY <2>3 DEF TasksOf
    <3>2. request[n].status = "TO_BE_PUSHED" => n \in due
      BY <3>1 DEF IInv, DueIsWhole
    <3>3. left = {}
      BY <2>3 DEF IInv, DueIsRequested
    <3> QED
      BY <3>2, <3>3 DEF IInv, DueIsRequested
  <2> QED
    BY <1>3, <2>1, <2>2, <2>3
<1>7. FilesAreSent'
  BY <1>2 DEF IInv, FilesAreSent, Sent
<1> QED
  BY <1>2, <1>4, <1>5, <1>6, <1>7
     DEF IInv, FutureIsAlone, DueIsRequested, DueIsWhole, FileIsLeft,
         NoTaskFails, UnrequestedIsFailed, PushedIsLogged, ReportedOnce, OnFtp, Requested

-----------------------------------------------------------------------------
LEMMA NextIInv == IInv /\ [Next]_vars => IInv'
<1> SUFFICES ASSUME IInv, [Next]_vars PROVE IInv'
  OBVIOUS
<1>1. CASE UNCHANGED vars
  BY <1>1
     DEF vars, jobVars, IInv, TypeOK, ImportIsNew, FutureIsAlone, DueIsRequested, DueIsWhole, FileIsLeft,
         File, FilesAreSent, Sent, NoTaskFails, UnrequestedIsFailed, PushedIsLogged, PushedTaskIsThrough,
         ReportedOnce, OnFtp, Requested
<1> QED
  BY <1>1, SaveTaskStep, SaveRequestsStep, OtherImportSteps, FindRequestsStep, PutFileStep, SaveLogStep,
     MarkSteps, FailTasksStep, EndSteps DEF Next, Job

\* The variables keep their types: a request has a task that is there, and the job goes
\* through the steps of EventPushJob.handle.
THEOREM TypesHold == Spec => []TypeOK
<1>1. IInv => TypeOK
  BY DEF IInv
<1> QED
  BY <1>1, InitIInv, NextIInv, PTL DEF Spec

\* A request counts as pushed only if it is in a file of the transporter that is logged,
\* for any imports, sizes of files and failures.
THEOREM PushedIsAlwaysLogged == Spec => []PushedIsLogged
<1>1. IInv => PushedIsLogged
  BY DEF IInv
<1> QED
  BY <1>1, InitIInv, NextIInv, PTL DEF Spec

\* A task counts as pushed only when none of its requests is outstanding.
THEOREM PushedTaskIsAlwaysThrough == Spec => []PushedTaskIsThrough
<1>1. IInv => PushedTaskIsThrough
  BY DEF IInv
<1> QED
  BY <1>1, InitIInv, NextIInv, PTL DEF Spec

\* Unless something failed, no event is in two files of the transporter.
THEOREM EventsAreReportedOnce == Spec => []ReportedOnce
<1>1. IInv => ReportedOnce
  BY DEF IInv
<1> QED
  BY <1>1, InitIInv, NextIInv, PTL DEF Spec
=============================================================================
