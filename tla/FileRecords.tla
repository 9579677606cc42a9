----------------------------- MODULE FileRecords -----------------------------
(***************************************************************************)
(* Files of trackings, from the FTP servers of the transporters into the   *)
(* table of trackings.  A file waits in a directory; an extract job copies *)
(* it to S3, saves a record of it and moves it to the directory of         *)
(* extracted files; a parse job takes the first record that is EXTRACTED,  *)
(* stores the trackings of the file chunk by chunk and has the handler     *)
(* follow those that are new, or, when the files of the account are        *)
(* disabled, moves the copy out of the way; a clear job deletes the files  *)
(* of records that are PARSED.                                             *)
(*                                                                         *)
(* A file may come again.  Files are numbered in the order in which the    *)
(* jobs take them, and two files have two names: of two that have the same *)
(* name and different sizes, S3 would keep one copy only.                  *)
(***************************************************************************)
EXTENDS Integers, FiniteSets

CONSTANTS
  File,           \* files, as numbers
  Server,         \* FTP servers
  ServerOf,       \* the server each file comes to
  Colissimo,      \* the files whose account may be disabled
  Chunks,         \* chunks of trackings in each file
  Parser,         \* executions of the parse job
  MaxDeliveries,  \* bound: arrivals of files
  MaxFailures     \* bound: failed calls and restarts

ASSUME FileAssumption == File \subseteq Nat \ {0} /\ Colissimo \subseteq File
ASSUME ServerAssumption == ServerOf \in [File -> Server]
ASSUME BoundAssumption == Chunks \in Nat \ {0} /\ MaxDeliveries \in Nat /\ MaxFailures \in Nat

VARIABLES
  waiting,     \* the directories of files to extract
  extracted,   \* the directories of extracted files
  deliveries,  \* how often each file has arrived
  s3,          \* the copies in S3
  record,      \* sct_file_record: event and fileUrl
  enabled,     \* sct_ftp_setting: whether files of Colissimo are to be parsed
  extract,     \* the extract job of each server
  parse,       \* executions of the parse job
  clear,       \* the clear job of each server
  tracking,    \* the chunks whose trackings are stored
  handled,     \* those that the handler has followed
  unhandled,   \* history: those whose handling broke off
  failures

ftpVars == <<waiting, extracted, deliveries>>
trackingVars == <<tracking, handled, unhandled>>
vars == <<ftpVars, s3, record, enabled, extract, parse, clear, trackingVars, failures>>

None == 0
Copy == [file : File, ignored : BOOLEAN]
Event == {"none", "EXTRACTED", "IGNORED", "PARSED", "ARCHIVED"}
Record == [event : Event, ignored : BOOLEAN]
Piece == File \X (1 .. Chunks)

IdleExtract == [at |-> "idle", todo |-> {}, file |-> None]
IdleParse == [at |-> "idle", file |-> None, ignored |-> FALSE, chunk |-> 0]
IdleClear == [todo |-> {}, listed |-> {}, deleted |-> {}]

TypeOK ==
  /\ waiting \subseteq File /\ extracted \subseteq File
  /\ deliveries \in [File -> Nat]
  /\ s3 \subseteq Copy
  /\ record \in [File -> Record]
  /\ enabled \in BOOLEAN
  /\ extract \in [Server -> [at : {"idle", "next", "uploaded", "saved"},
                             todo : SUBSET File, file : File \cup {None}]]
  /\ parse \in [Parser ->
       [at : {"idle", "copy", "delete", "ignore", "download", "insert", "handle", "mark"},
        file : File \cup {None}, ignored : BOOLEAN, chunk : 0 .. Chunks + 1]]
  /\ clear \in [Server -> [todo : SUBSET Copy, listed : SUBSET File, deleted : SUBSET Copy]]
  /\ tracking \subseteq Piece /\ handled \subseteq Piece /\ unhandled \subseteq Piece
  /\ failures \in Nat

Init ==
  /\ waiting = {} /\ extracted = {}
  /\ deliveries = [f \in File |-> 0]
  /\ s3 = {}
  /\ record = [f \in File |-> [event |-> "none", ignored |-> FALSE]]
  /\ enabled = TRUE
  /\ extract = [s \in Server |-> IdleExtract]
  /\ parse = [p \in Parser |-> IdleParse]
  /\ clear = [s \in Server |-> IdleClear]
  /\ tracking = {} /\ handled = {} /\ unhandled = {}
  /\ failures = 0

-----------------------------------------------------------------------------
Fail == failures < MaxFailures /\ failures' = failures + 1

First(S) == CHOOSE x \in S : \A y \in S : x <= y

Arrivals == {a \in File \X (1 .. MaxDeliveries) : a[2] <= deliveries[a[1]]}

\* A file comes, or comes again; the distribution job moves it to where it waits.
Arrive(f) ==
  /\ Cardinality(Arrivals) < MaxDeliveries
  /\ f \notin waiting
  /\ deliveries' = [deliveries EXCEPT ![f] = @ + 1]
  /\ waiting' = waiting \cup {f}
  /\ UNCHANGED <<extracted, s3, record, enabled, extract, parse, clear, trackingVars, failures>>

\* A setting of the account is saved.
Configure ==
  /\ enabled' = ~enabled
  /\ UNCHANGED <<ftpVars, s3, record, extract, parse, clear, trackingVars, failures>>

-----------------------------------------------------------------------------
At(s) == {f \in File : ServerOf[f] = s}

\* The directory is listed once.
ListWaiting(s) ==
  /\ extract[s].at = "idle"
  /\ waiting \cap At(s) # {}
  /\ extract' = [extract EXCEPT ![s] = [at |-> "next", todo |-> waiting \cap At(s), file |-> None]]
  /\ UNCHANGED <<ftpVars, s3, record, enabled, parse, clear, trackingVars, failures>>

\* Wrong: the file moves before its record is saved.
UploadAndRename(s) ==
  LET f == First(extract[s].todo)
  IN /\ extract[s].at = "next"
     /\ s3' = s3 \cup {[file |-> f, ignored |-> FALSE]}
     /\ waiting' = waiting \ {f} /\ extracted' = extracted \cup {f}
     /\ extract' = [extract EXCEPT ![s] = [at |-> "uploaded", todo |-> @.todo \ {f}, file |-> f]]
     /\ UNCHANGED <<deliveries, record, enabled, parse, clear, trackingVars, failures>>

UploadFile(s) ==
  LET f == First(extract[s].todo)
  IN /\ extract[s].at = "next"
     /\ s3' = s3 \cup {[file |-> f, ignored |-> FALSE]}
     /\ extract' = [extract EXCEPT ![s] = [at |-> "uploaded", todo |-> @.todo \ {f}, file |-> f]]
     /\ UNCHANGED <<ftpVars, record, enabled, parse, clear, trackingVars, failures>>

\* A record of the same name and size is EXTRACTED anew, whatever became of it.
SaveFileRecord(s) ==
  /\ extract[s].at = "uploaded"
  /\ record' = [record EXCEPT ![extract[s].file] = [event |-> "EXTRACTED", ignored |-> FALSE]]
  /\ extract' = [extract EXCEPT ![s].at = "saved"]
  /\ UNCHANGED <<ftpVars, s3, enabled, parse, clear, trackingVars, failures>>

\* The next file, or, if an error was thrown, none of those that are left.
NextFile(s, todo) ==
  extract' = [extract EXCEPT ![s] =
    IF todo = {} THEN IdleExtract ELSE [at |-> "next", todo |-> todo, file |-> None]]

\* The file moves, unless it lies there from its last arrival; that is an error.
RenameFile(s) ==
  LET f == extract[s].file
  IN /\ extract[s].at = "saved"
     /\ IF f \notin extracted
        THEN /\ waiting' = waiting \ {f} /\ extracted' = extracted \cup {f}
             /\ NextFile(s, extract[s].todo)
        ELSE NextFile(s, {}) /\ UNCHANGED <<waiting, extracted>>
     /\ UNCHANGED <<deliveries, s3, record, enabled, parse, clear, trackingVars, failures>>

\* An error ends the job, with the files that are left in the list.
FailExtract(s) ==
  /\ Fail
  /\ extract[s].at # "idle"
  /\ NextFile(s, {})
  /\ UNCHANGED <<ftpVars, s3, record, enabled, parse, clear, trackingVars>>

-----------------------------------------------------------------------------
Extracted == {f \in File : record[f].event = "EXTRACTED"}

\* Executions of the parse job overlap, for nobody waits for them; each takes one record.
FindRecord(p) ==
  LET f == First(Extracted)
  IN /\ parse[p].at = "idle"
     /\ Extracted # {}
     /\ parse' = [parse EXCEPT ![p] =
          [IdleParse EXCEPT !.at = IF f \in Colissimo /\ ~enabled THEN "copy" ELSE "download",
                            !.file = f, !.ignored = record[f].ignored]]
     /\ UNCHANGED <<ftpVars, s3, record, enabled, extract, clear, trackingVars, failures>>

\* The copy of a file that is not to be parsed is under ignore/.
Source(p) == [file |-> parse[p].file, ignored |-> parse[p].ignored]
Target(p) == [file |-> parse[p].file, ignored |-> TRUE]

\* moveObjects: copies, then deletes.  Without a copy to read, the execution ends.
CopyObject(p) ==
  /\ parse[p].at = "copy"
  /\ IF Source(p) \in s3
     THEN s3' = s3 \cup {Target(p)} /\ parse' = [parse EXCEPT ![p].at = "delete"]
     ELSE parse' = [parse EXCEPT ![p] = IdleParse] /\ UNCHANGED s3
  /\ UNCHANGED <<ftpVars, record, enabled, extract, clear, trackingVars, failures>>

DeleteObject(p) ==
  /\ parse[p].at = "delete"
  /\ s3' = s3 \ {Source(p)}
  /\ parse' = [parse EXCEPT ![p].at = "ignore"]
  /\ UNCHANGED <<ftpVars, record, enabled, extract, clear, trackingVars, failures>>

\* Wrong: the record keeps its fileUrl.
IgnoreRecordInPlace(p) ==
  /\ parse[p].at = "ignore"
  /\ record' = [record EXCEPT ![parse[p].file].event = "IGNORED"]
  /\ parse' = [parse EXCEPT ![p] = IdleParse]
  /\ UNCHANGED <<ftpVars, s3, enabled, extract, clear, trackingVars, failures>>

IgnoreRecord(p) ==
  /\ parse[p].at = "ignore"
  /\ record' = [record EXCEPT ![parse[p].file] = [event |-> "IGNORED", ignored |-> TRUE]]
  /\ parse' = [parse EXCEPT ![p] = IdleParse]
  /\ UNCHANGED <<ftpVars, s3, enabled, extract, clear, trackingVars, failures>>

Download(p) ==
  /\ parse[p].at = "download"
  /\ parse' = [parse EXCEPT ![p] =
       IF Source(p) \in s3 THEN [@ EXCEPT !.at = "insert", !.chunk = 1] ELSE IdleParse]
  /\ UNCHANGED <<ftpVars, s3, record, enabled, extract, clear, trackingVars, failures>>

PieceOf(p) == <<parse[p].file, parse[p].chunk>>

NextChunk(p) ==
  parse' = [parse EXCEPT ![p].at = IF parse[p].chunk = Chunks THEN "mark" ELSE "insert",
                         ![p].chunk = @ + 1]

\* Wrong: a chunk that is stored already ends the execution.
InsertChunkOrStop(p) ==
  /\ parse[p].at = "insert"
  /\ tracking' = tracking \cup {PieceOf(p)}
  /\ parse' = [parse EXCEPT ![p] =
       IF PieceOf(p) \in tracking THEN IdleParse ELSE [@ EXCEPT !.at = "handle"]]
  /\ UNCHANGED <<ftpVars, s3, record, enabled, extract, clear, handled, unhandled, failures>>

\* Trackings that are stored already are not inserted, and nothing follows for them.
InsertChunk(p) ==
  /\ parse[p].at = "insert"
  /\ tracking' = tracking \cup {PieceOf(p)}
  /\ IF PieceOf(p) \in tracking THEN NextChunk(p)
     ELSE parse' = [parse EXCEPT ![p].at = "handle"]
  /\ UNCHANGED <<ftpVars, s3, record, enabled, extract, clear, handled, unhandled, failures>>

\* Wrong: nothing is handled any more once the file is marked as parsed.
HandleChunkOfExtracted(p) ==
  /\ parse[p].at = "handle"
  /\ handled' = IF parse[p].file \in Extracted THEN handled \cup {PieceOf(p)} ELSE handled
  /\ NextChunk(p)
  /\ UNCHANGED <<ftpVars, s3, record, enabled, extract, clear, tracking, unhandled, failures>>

HandleChunk(p) ==
  /\ parse[p].at = "handle"
  /\ handled' = handled \cup {PieceOf(p)}
  /\ NextChunk(p)
  /\ UNCHANGED <<ftpVars, s3, record, enabled, extract, clear, tracking, unhandled, failures>>

\* The handler reports an error to a chat and returns; the parse goes on.
FailHandler(p) ==
  /\ Fail
  /\ parse[p].at = "handle"
  /\ unhandled' = unhandled \cup {PieceOf(p)}
  /\ NextChunk(p)
  /\ UNCHANGED <<ftpVars, s3, record, enabled, extract, clear, tracking, handled>>

MarkParsed(p) ==
  /\ parse[p].at = "mark"
  /\ record' = [record EXCEPT ![parse[p].file].event = "PARSED"]
  /\ parse' = [parse EXCEPT ![p] = IdleParse]
  /\ UNCHANGED <<ftpVars, s3, enabled, extract, clear, trackingVars, failures>>

Handling(P) == {PieceOf(p) : p \in {q \in P : parse[q].at = "handle"}}

\* Wrong: the record is marked in any case.
FailParseMarked(p) ==
  /\ Fail
  /\ parse[p].at # "idle"
  /\ record' = [record EXCEPT ![parse[p].file].event = "PARSED"]
  /\ parse' = [parse EXCEPT ![p] = IdleParse]
  /\ unhandled' = unhandled \cup Handling({p})
  /\ UNCHANGED <<ftpVars, s3, enabled, extract, clear, tracking, handled>>

\* Any other error ends the execution, with the record as it was.
FailParse(p) ==
  /\ Fail
  /\ parse[p].at # "idle"
  /\ parse' = [parse EXCEPT ![p] = IdleParse]
  /\ unhandled' = unhandled \cup Handling({p})
  /\ UNCHANGED <<ftpVars, s3, record, enabled, extract, clear, tracking, handled>>

-----------------------------------------------------------------------------
\* The job of every server takes the records of the transporter, whichever server their
\* files came from; it lists the files of its own.
ListParsed(s) ==
  LET parsed == {f \in File : record[f].event = "PARSED"}
  IN /\ clear[s].todo = {}
     /\ parsed # {}
     /\ clear' = [clear EXCEPT ![s] =
          [todo |-> {[file |-> f, ignored |-> record[f].ignored] : f \in parsed},
           listed |-> extracted \cap At(s), deleted |-> {}]]
     /\ UNCHANGED <<ftpVars, s3, record, enabled, extract, parse, trackingVars, failures>>

Cleared(s, c) ==
  LET rest == [clear[s] EXCEPT !.todo = @ \ {c}, !.deleted = @ \ {c}]
  IN clear' = [clear EXCEPT ![s] = IF rest.todo = {} THEN IdleClear ELSE rest]

\* A record whose copy is not there, or whose file is there no longer, is passed over.
PassOver(s, c) ==
  /\ c \in clear[s].todo \ clear[s].deleted
  /\ c \notin s3 \/ c.file \in clear[s].listed \ extracted
  /\ Cleared(s, c)
  /\ UNCHANGED <<ftpVars, s3, record, enabled, extract, parse, trackingVars, failures>>

DeleteFile(s, c) ==
  /\ c \in (clear[s].todo \ clear[s].deleted) \cap s3
  /\ c.file \in clear[s].listed \cap extracted
  /\ extracted' = extracted \ {c.file}
  /\ clear' = [clear EXCEPT ![s].deleted = @ \cup {c}]
  /\ UNCHANGED <<waiting, deliveries, s3, record, enabled, extract, parse, trackingVars, failures>>

ArchiveRecord(s, c) ==
  /\ c \in clear[s].todo
  /\ c \in clear[s].deleted \/ (c \in s3 /\ c.file \notin clear[s].listed)
  /\ record' = [record EXCEPT ![c.file].event = "ARCHIVED"]
  /\ Cleared(s, c)
  /\ UNCHANGED <<ftpVars, s3, enabled, extract, parse, trackingVars, failures>>

FailClear(s, c) ==
  /\ Fail
  /\ c \in clear[s].todo
  /\ Cleared(s, c)
  /\ UNCHANGED <<ftpVars, s3, record, enabled, extract, parse, trackingVars>>

\* The process of the jobs stops and starts again.
Restart ==
  /\ Fail
  /\ extract' = [s \in Server |-> IdleExtract]
  /\ parse' = [p \in Parser |-> IdleParse]
  /\ clear' = [s \in Server |-> IdleClear]
  /\ unhandled' = unhandled \cup Handling(Parser)
  /\ UNCHANGED <<ftpVars, s3, record, enabled, tracking, handled>>

-----------------------------------------------------------------------------
Extract(s) == ListWaiting(s) \/ UploadFile(s) \/ SaveFileRecord(s) \/ RenameFile(s)
Parse(p) ==
  \/ FindRecord(p) \/ CopyObject(p) \/ DeleteObject(p) \/ IgnoreRecord(p)
  \/ Download(p) \/ InsertChunk(p) \/ HandleChunk(p) \/ MarkParsed(p)
Clear(s) ==
  \/ ListParsed(s)
  \/ \E c \in clear[s].todo : PassOver(s, c) \/ DeleteFile(s, c) \/ ArchiveRecord(s, c)

Next ==
  \/ \E f \in File : Arrive(f)
  \/ Configure
  \/ \E s \in Server : Extract(s) \/ FailExtract(s) \/ Clear(s) \/ \E c \in clear[s].todo : FailClear(s, c)
  \/ \E p \in Parser : Parse(p) \/ FailHandler(p) \/ FailParse(p)
  \/ Restart

Spec == Init /\ [][Next]_vars

\* The scheduler calls the extract and parse jobs again and again.
FairSpec ==
  Spec /\ (\A s \in Server : WF_vars(Extract(s))) /\ (\A p \in Parser : WF_vars(Parse(p)))

-----------------------------------------------------------------------------
Arrived(f) == deliveries[f] > 0
Stored(f) == \A k \in 1 .. Chunks : <<f, k>> \in tracking

\* A file is marked as parsed, archived or deleted from its server only once all of its
\* trackings are stored, although executions of the parse job overlap, break off, and race
\* with the file coming anew and with the account being disabled.
GoneIsStored ==
  \A f \in File :
    \/ record[f].event \in {"PARSED", "ARCHIVED"}
    \/ Arrived(f) /\ f \notin waiting \cup extracted
    => Stored(f)

\* A file that no longer waits has a record, by which the parse job finds it.
TakenIsRecorded ==
  \A f \in File : Arrived(f) /\ f \notin waiting => record[f].event # "none"

\* The copy a record names is there, as the parse job and the clear job expect, also while two
\* executions move it to ignore/ or one parses it; except for the moment of the move itself,
\* when something failed, or when the file came again.
Moving(f) == \E p \in Parser : parse[p].file = f /\ parse[p].at \in {"delete", "ignore"}
CopyOf(f) == [file |-> f, ignored |-> record[f].ignored]
CopyIsThere ==
  \A f \in File :
    record[f].event # "none" /\ ~Moving(f) /\ failures = 0 /\ deliveries[f] = 1 => CopyOf(f) \in s3

\* A record does not stay EXTRACTED, unless the copy of the first such record is gone: then
\* the parse job fails at it for ever, and at all that come after it; or unless an earlier
\* file cannot be moved, for it is there already, and is extracted again and again.
Stuck == Extracted # {} /\ CopyOf(First(Extracted)) \notin s3
RecordsMove ==
  \A f \in File :
    f \in Extracted ~>
      f \notin Extracted \/ Stuck \/ \E g \in waiting \cap extracted : g < f

\* What an execution has stored reaches the handler, though another execution may store a
\* part of the file, or mark it as parsed meanwhile; unless the execution broke off.
StoredIsHandled == \A x \in Piece : x \in tracking ~> x \in handled \cup unhandled
=============================================================================
