--------------------------- MODULE FileRecordsProofs ---------------------------
(***************************************************************************)
(* No tracking of a file is left behind: whatever executions of the parse  *)
(* job overlap or break off, a file that is marked as parsed, archived or  *)
(* deleted from its server has all of its trackings stored, and a file     *)
(* that was taken has a record.                                            *)
(*                                                                         *)
(* What makes it so is that trackings are never removed, that an execution *)
(* has stored every chunk before the one it is at, and that the clear job  *)
(* knows only files that were marked.  And the copy a record names is in   *)
(* S3, as long as nothing fails and the file does not come again.          *)
(***************************************************************************)
EXTENDS FileRecords, WellFoundedInduction, TLAPS

ParseState ==
  [at : {"idle", "copy", "delete", "ignore", "download", "insert", "handle", "mark"},
   file : File \cup {None}, ignored : BOOLEAN, chunk : 0 .. Chunks + 1]
ClearState == [todo : SUBSET Copy, listed : SUBSET File, deleted : SUBSET Copy]

AtWork(x) ==
  /\ x.at # "idle" => x.file \in File
  /\ x.at \in {"insert", "handle"} => x.chunk \in 1 .. Chunks

\* An execution that is under way has a file, and a list to go through.
Busy ==
  /\ \A s \in Server :
       /\ extract[s].at = "next" => extract[s].todo # {}
       /\ extract[s].at \in {"uploaded", "saved"} => extract[s].file \in File
  /\ \A p \in Parser : AtWork(parse[p])

Typed == TypeOK /\ Busy

\* How far an execution of the parse job has come.
SoFar(x, T) ==
  \A k \in 1 .. Chunks :
    /\ x.at = "insert" /\ k < x.chunk => <<x.file, k>> \in T
    /\ x.at = "handle" /\ k <= x.chunk => <<x.file, k>> \in T
    /\ x.at = "mark" => <<x.file, k>> \in T
ParsedSoFar == \A p \in Parser : SoFar(parse[p], tracking)

ClearedIsStored == \A s \in Server : \A c \in clear[s].todo : Stored(c.file)

SavedIsRecorded ==
  \A s \in Server : extract[s].at = "saved" => record[extract[s].file].event # "none"

IInv ==
  /\ Typed /\ ParsedSoFar /\ ClearedIsStored /\ SavedIsRecorded
  /\ GoneIsStored /\ TakenIsRecorded

-----------------------------------------------------------------------------
(* The first file of a set. *)

LEMMA FirstIsMember ==
  ASSUME NEW S \in SUBSET File, S # {}
  PROVE  First(S) \in S
<1>1. S \subseteq Nat
  BY FileAssumption
<1>2. PICK x \in S : \A y \in S : ~ <<y, x>> \in OpToRel(<, Nat)
  BY <1>1, WFMin, NatLessThanWellFounded
<1>3. \A y \in S : x <= y
  <2> SUFFICES ASSUME NEW y \in S PROVE x <= y
    OBVIOUS
  <2>1. x \in Nat /\ y \in Nat
    BY <1>1
  <2>2. ~ y < x
    BY <1>2, <2>1 DEF OpToRel
  <2> QED
    BY <2>1, <2>2
<1> QED
  BY <1>3 DEF First

-----------------------------------------------------------------------------
(* Types. *)

LEMMA InitTyped == Init => Typed
BY BoundAssumption DEF Init, Typed, TypeOK, Busy, AtWork, IdleExtract, IdleParse, IdleClear, None, Record, Event, Copy

LEMMA ExtractTyped ==
  ASSUME Typed, NEW s \in Server, Extract(s) \/ FailExtract(s)
  PROVE  Typed'
<1> USE DEF ftpVars, trackingVars, None, IdleExtract
<1>1. TypeOK /\ Busy
  BY DEF Typed
<1>2. CASE ListWaiting(s)
  BY <1>1, <1>2 DEF ListWaiting, Typed, TypeOK, Busy, At
<1>3. CASE UploadFile(s)
  <2> DEFINE f == First(extract[s].todo)
  <2>1. extract[s].todo \in SUBSET File /\ extract[s].todo # {}
    BY <1>1, <1>3 DEF UploadFile, TypeOK, Busy
  <2>2. f \in File
    BY <2>1, FirstIsMember
  <2>3. /\ extract' = [extract EXCEPT ![s] = [at |-> "uploaded", todo |-> @.todo \ {f}, file |-> f]]
        /\ s3' = s3 \cup {[file |-> f, ignored |-> FALSE]}
        /\ UNCHANGED <<ftpVars, record, enabled, parse, clear, trackingVars, failures>>
    BY <1>3 DEF UploadFile
  <2> HIDE DEF f
  <2>4. s3' \subseteq Copy
    <3>1. s3 \subseteq Copy /\ [file |-> f, ignored |-> FALSE] \in Copy
      BY <1>1, <2>2 DEF TypeOK, Copy
    <3> QED
      BY <2>3, <3>1
  <2>5. extract' \in [Server -> [at : {"idle", "next", "uploaded", "saved"},
                                 todo : SUBSET File, file : File \cup {None}]]
    BY <1>1, <2>1, <2>2, <2>3 DEF TypeOK
  <2>6. \A r \in Server :
          /\ extract'[r].at = "next" => extract'[r].todo # {}
          /\ extract'[r].at \in {"uploaded", "saved"} => extract'[r].file \in File
    BY <1>1, <2>2, <2>3 DEF TypeOK, Busy
  <2> QED
    BY <1>1, <2>3, <2>4, <2>5, <2>6 DEF Typed, TypeOK, Busy
<1>4. CASE SaveFileRecord(s)
  BY <1>1, <1>4 DEF SaveFileRecord, Typed, TypeOK, Busy, Record, Event
<1>5. ASSUME NEW todo \in SUBSET File, NextFile(s, todo)
      PROVE  /\ extract' \in [Server -> [at : {"idle", "next", "uploaded", "saved"},
                                         todo : SUBSET File, file : File \cup {None}]]
             /\ \A r \in Server :
                  /\ extract'[r].at = "next" => extract'[r].todo # {}
                  /\ extract'[r].at \in {"uploaded", "saved"} => extract'[r].file \in File
  <2>1. CASE todo = {}
    BY <1>1, <1>5, <2>1 DEF NextFile, TypeOK, Busy
  <2>2. CASE todo # {}
    BY <1>1, <1>5, <2>2 DEF NextFile, TypeOK, Busy
  <2> QED
    BY <2>1, <2>2
<1>6. CASE RenameFile(s)
  <2>1. extract[s].file \in File /\ extract[s].todo \in SUBSET File
    BY <1>1, <1>6 DEF RenameFile, TypeOK, Busy
  <2>2. /\ NextFile(s, extract[s].todo) \/ NextFile(s, {})
        /\ waiting' \subseteq waiting /\ extracted' \subseteq extracted \cup {extract[s].file}
        /\ UNCHANGED <<deliveries, s3, record, enabled, parse, clear, trackingVars, failures>>
    BY <1>6 DEF RenameFile
  <2> QED
    BY <1>1, <1>5, <2>1, <2>2 DEF Typed, TypeOK, Busy
<1>7. CASE FailExtract(s)
  BY <1>1, <1>5, <1>7 DEF FailExtract, Fail, Typed, TypeOK, Busy
<1> QED
  BY <1>2, <1>3, <1>4, <1>6, <1>7 DEF Extract

LEMMA ParseTyped ==
  ASSUME Typed, NEW p \in Parser, Parse(p) \/ FailHandler(p) \/ FailParse(p)
  PROVE  Typed'
<1> USE DEF ftpVars, trackingVars
<1>1. TypeOK /\ Busy /\ parse \in [Parser -> ParseState]
  BY DEF Typed, TypeOK, ParseState
<1>2. parse[p] \in ParseState /\ AtWork(parse[p])
  BY <1>1 DEF Busy
<1>3. IdleParse \in ParseState /\ AtWork(IdleParse)
  BY BoundAssumption DEF IdleParse, ParseState, AtWork, None
<1>4. ASSUME NEW x \in ParseState, AtWork(x), parse' = [parse EXCEPT ![p] = x]
      PROVE  parse' \in [Parser -> ParseState] /\ \A q \in Parser : AtWork(parse'[q])
  BY <1>1, <1>4 DEF Busy
<1>5. ASSUME NEW a \in {"copy", "delete", "ignore", "download", "mark"}, parse[p].at # "idle"
      PROVE  [parse[p] EXCEPT !.at = a] \in ParseState /\ AtWork([parse[p] EXCEPT !.at = a])
  BY <1>2, <1>5 DEF ParseState, AtWork
<1>6. ASSUME parse' \in [Parser -> ParseState] /\ \A q \in Parser : AtWork(parse'[q]),
             s3' \subseteq Copy, record' \in [File -> Record],
             tracking' \subseteq Piece, handled' \subseteq Piece, unhandled' \subseteq Piece,
             failures' \in Nat,
             UNCHANGED <<ftpVars, enabled, extract, clear>>
      PROVE  Typed'
  BY <1>1, <1>6 DEF Typed, TypeOK, Busy, ParseState
<1>7. /\ s3 \subseteq Copy /\ record \in [File -> Record] /\ failures \in Nat
      /\ tracking \subseteq Piece /\ handled \subseteq Piece /\ unhandled \subseteq Piece
  BY <1>1 DEF TypeOK
<1>8. CASE FindRecord(p)
  <2> DEFINE f == First(Extracted)
             a == IF f \in Colissimo /\ ~enabled THEN "copy" ELSE "download"
             x == [IdleParse EXCEPT !.at = a, !.file = f, !.ignored = record[f].ignored]
  <2>1. f \in File
    BY <1>8, FirstIsMember DEF FindRecord, Extracted
  <2>2. record[f].ignored \in BOOLEAN
    BY <1>7, <2>1 DEF Record
  <2>3. x \in ParseState /\ AtWork(x)
    <3>1. a \in {"copy", "download"} /\ 0 \in 0 .. Chunks + 1
      BY BoundAssumption
    <3> HIDE DEF f, a
    <3>2. x \in ParseState
      BY <1>3, <2>1, <2>2, <3>1 DEF ParseState
    <3>3. x.at = a /\ x.file = f
      BY DEF IdleParse
    <3> QED
      BY <2>1, <3>1, <3>2, <3>3 DEF AtWork
  <2>4. /\ parse' = [parse EXCEPT ![p] = x]
        /\ UNCHANGED <<ftpVars, s3, record, enabled, extract, clear, trackingVars, failures>>
    BY <1>8 DEF FindRecord
  <2> HIDE DEF x
  <2>5. parse' \in [Parser -> ParseState] /\ \A q \in Parser : AtWork(parse'[q])
    BY <1>4, <2>3, <2>4
  <2> QED
    BY <1>6, <1>7, <2>4, <2>5
<1>9. CASE CopyObject(p)
  <2>1. Target(p) \in Copy
    BY <1>2, <1>9 DEF CopyObject, Target, Copy, AtWork
  <2>2. \/ s3' = s3 \cup {Target(p)} /\ parse' = [parse EXCEPT ![p] = [parse[p] EXCEPT !.at = "delete"]]
        \/ s3' = s3 /\ parse' = [parse EXCEPT ![p] = IdleParse]
    BY <1>1, <1>9 DEF CopyObject
  <2>3. parse[p].at # "idle" /\ UNCHANGED <<ftpVars, record, enabled, extract, clear, trackingVars, failures>>
    BY <1>9 DEF CopyObject
  <2>4. parse' \in [Parser -> ParseState] /\ \A q \in Parser : AtWork(parse'[q])
    BY <1>3, <1>4, <1>5, <2>2, <2>3
  <2> QED
    BY <1>6, <1>7, <2>1, <2>2, <2>3, <2>4
<1>10. CASE DeleteObject(p)
  <2>1. /\ parse[p].at # "idle" /\ parse' = [parse EXCEPT ![p] = [parse[p] EXCEPT !.at = "ignore"]]
        /\ s3' \subseteq s3 /\ UNCHANGED <<ftpVars, record, enabled, extract, clear, trackingVars, failures>>
    BY <1>1, <1>10 DEF DeleteObject
  <2>2. parse' \in [Parser -> ParseState] /\ \A q \in Parser : AtWork(parse'[q])
    BY <1>4, <1>5, <2>1
  <2> QED
    BY <1>6, <1>7, <2>1, <2>2
<1>11. CASE IgnoreRecord(p)
  <2>1. record' \in [File -> Record]
    BY <1>7, <1>11 DEF IgnoreRecord, Record, Event
  <2> QED
    BY <1>3, <1>4, <1>6, <1>7, <1>11, <2>1 DEF IgnoreRecord
<1>12. CASE Download(p)
  <2> DEFINE x == [parse[p] EXCEPT !.at = "insert", !.chunk = 1]
  <2>1. x \in ParseState /\ AtWork(x)
    <3>1. parse[p].at # "idle" /\ 1 \in 1 .. Chunks /\ 1 \in 0 .. Chunks + 1
      BY <1>12, BoundAssumption DEF Download
    <3> QED
      BY <1>2, <3>1 DEF ParseState, AtWork
  <2>2. /\ parse' = [parse EXCEPT ![p] = x] \/ parse' = [parse EXCEPT ![p] = IdleParse]
        /\ UNCHANGED <<ftpVars, s3, record, enabled, extract, clear, trackingVars, failures>>
    BY <1>12 DEF Download
  <2> HIDE DEF x
  <2>3. parse' \in [Parser -> ParseState] /\ \A q \in Parser : AtWork(parse'[q])
    BY <1>3, <1>4, <2>1, <2>2
  <2> QED
    BY <1>6, <1>7, <2>2, <2>3
<1>13. ASSUME NextChunk(p), parse[p].at \in {"insert", "handle"}
       PROVE  parse' \in [Parser -> ParseState] /\ \A q \in Parser : AtWork(parse'[q])
  <2> DEFINE x == [parse[p] EXCEPT !.at = IF parse[p].chunk = Chunks THEN "mark" ELSE "insert",
                                   !.chunk = @ + 1]
  <2>1. x \in ParseState /\ AtWork(x)
    <3> DEFINE k == parse[p].chunk
               a == IF k = Chunks THEN "mark" ELSE "insert"
    <3>1. k \in 1 .. Chunks /\ parse[p].file \in File
      BY <1>2, <1>13 DEF AtWork
    <3>2. k + 1 \in 0 .. Chunks + 1 /\ (k # Chunks => k + 1 \in 1 .. Chunks)
      BY <3>1, BoundAssumption
    <3>3. a \in {"mark", "insert"} /\ (a = "insert" => k # Chunks)
      OBVIOUS
    <3>4. x.at = a /\ x.chunk = k + 1 /\ x.file = parse[p].file
      BY <1>2 DEF ParseState
    <3> HIDE DEF a
    <3>5. x \in ParseState
      BY <1>2, <3>2, <3>3 DEF ParseState, a
    <3> QED
      BY <3>1, <3>2, <3>3, <3>4, <3>5 DEF AtWork
  <2>2. parse' = [parse EXCEPT ![p] = x]
    BY <1>1, <1>13 DEF NextChunk, ParseState
  <2> HIDE DEF x
  <2> QED
    BY <1>4, <2>1, <2>2
<1>14. ASSUME parse[p].at \in {"insert", "handle"} PROVE PieceOf(p) \in Piece
  BY <1>2, <1>14 DEF PieceOf, Piece, AtWork
<1>15. CASE InsertChunk(p)
  <2>1. tracking' \subseteq Piece
    BY <1>7, <1>14, <1>15 DEF InsertChunk
  <2>2. CASE PieceOf(p) \in tracking
    BY <1>6, <1>7, <1>13, <1>15, <2>1, <2>2 DEF InsertChunk
  <2>3. CASE PieceOf(p) \notin tracking
    <3> DEFINE x == [parse[p] EXCEPT !.at = "handle"]
    <3>1. x \in ParseState /\ AtWork(x) /\ parse' = [parse EXCEPT ![p] = x]
      BY <1>1, <1>2, <1>15, <2>3 DEF InsertChunk, ParseState, AtWork
    <3> HIDE DEF x
    <3>2. parse' \in [Parser -> ParseState] /\ \A q \in Parser : AtWork(parse'[q])
      BY <1>4, <3>1
    <3> QED
      BY <1>6, <1>7, <1>15, <2>1, <3>2 DEF InsertChunk
  <2> QED
    BY <2>2, <2>3
<1>16. CASE HandleChunk(p)
  BY <1>6, <1>7, <1>13, <1>14, <1>16 DEF HandleChunk
<1>17. CASE FailHandler(p)
  BY <1>6, <1>7, <1>13, <1>14, <1>17 DEF FailHandler, Fail
<1>18. CASE MarkParsed(p)
  <2>1. record' \in [File -> Record]
    BY <1>7, <1>18 DEF MarkParsed, Record, Event
  <2> QED
    BY <1>3, <1>4, <1>6, <1>7, <1>18, <2>1 DEF MarkParsed
<1>19. CASE FailParse(p)
  <2>1. Handling({p}) \subseteq Piece
    BY <1>14 DEF Handling
  <2>2. parse' \in [Parser -> ParseState] /\ \A q \in Parser : AtWork(parse'[q])
    BY <1>3, <1>4, <1>19 DEF FailParse
  <2>3. unhandled' \subseteq Piece /\ failures' \in Nat
    BY <1>7, <1>19, <2>1 DEF FailParse, Fail
  <2> QED
    BY <1>6, <1>7, <1>19, <2>2, <2>3 DEF FailParse
<1> QED
  BY <1>8, <1>9, <1>10, <1>11, <1>12, <1>15, <1>16, <1>17, <1>18, <1>19 DEF Parse

LEMMA ClearTyped ==
  ASSUME Typed, NEW s \in Server, Clear(s) \/ \E c \in clear[s].todo : FailClear(s, c)
  PROVE  Typed'
<1> USE DEF ftpVars, trackingVars
<1>1. TypeOK /\ Busy /\ clear \in [Server -> ClearState]
  BY DEF Typed, TypeOK, ClearState
<1>2. CASE ListParsed(s)
  BY <1>1, <1>2 DEF ListParsed, Typed, TypeOK, Busy, Copy, Record
<1>3. ASSUME NEW c \in clear[s].todo, Cleared(s, c)
      PROVE  clear' \in [Server -> ClearState]
  <2>1. IdleClear \in ClearState
    BY DEF IdleClear, ClearState
  <2> DEFINE rest == [clear[s] EXCEPT !.todo = @ \ {c}, !.deleted = @ \ {c}]
  <2>2. rest \in ClearState
    BY <1>1 DEF ClearState
  <2>3. clear' = [clear EXCEPT ![s] = IF rest.todo = {} THEN IdleClear ELSE rest]
    BY <1>3 DEF Cleared
  <2> HIDE DEF rest
  <2> QED
    BY <1>1, <2>1, <2>2, <2>3
<1>4. ASSUME NEW c \in clear[s].todo, PassOver(s, c) PROVE Typed'
  BY <1>1, <1>3, <1>4 DEF PassOver, Typed, TypeOK, Busy, ClearState
<1>5. ASSUME NEW c \in clear[s].todo, DeleteFile(s, c) PROVE Typed'
  BY <1>1, <1>5 DEF DeleteFile, Typed, TypeOK, Busy
<1>6. ASSUME NEW c \in clear[s].todo, ArchiveRecord(s, c) PROVE Typed'
  BY <1>1, <1>3, <1>6 DEF ArchiveRecord, Typed, TypeOK, Busy, Copy, Record, Event, ClearState
<1>7. ASSUME NEW c \in clear[s].todo, FailClear(s, c) PROVE Typed'
  BY <1>1, <1>3, <1>7 DEF FailClear, Fail, Typed, TypeOK, Busy, ClearState
<1> QED
  BY <1>2, <1>4, <1>5, <1>6, <1>7 DEF Clear

LEMMA NextTyped == Typed /\ [Next]_vars => Typed'
<1> SUFFICES ASSUME Typed, [Next]_vars PROVE Typed'
  OBVIOUS
<1> USE DEF ftpVars, trackingVars
<1>1. TypeOK /\ Busy
  BY DEF Typed
<1>2. ASSUME NEW f \in File, Arrive(f) PROVE Typed'
  BY <1>1, <1>2 DEF Arrive, Typed, TypeOK, Busy
<1>3. CASE Configure
  BY <1>1, <1>3 DEF Configure, Typed, TypeOK, Busy
<1>4. CASE Restart
  <2>1. Handling(Parser) \subseteq Piece
    BY <1>1 DEF Handling, PieceOf, Piece, TypeOK, Busy, AtWork
  <2> QED
    BY <1>1, <1>4, <2>1, BoundAssumption
       DEF Restart, Fail, Typed, TypeOK, Busy, AtWork, IdleExtract, IdleParse, IdleClear, None
<1>5. CASE UNCHANGED vars
  BY <1>1, <1>5 DEF vars, Typed, TypeOK, Busy
<1> QED
  BY <1>2, <1>3, <1>4, <1>5, ExtractTyped, ParseTyped, ClearTyped DEF Next

-----------------------------------------------------------------------------
(* What is stored stays so. *)

LEMMA TrackingStays ==
  ASSUME [Next]_vars
  PROVE  tracking \subseteq tracking'
<1> USE DEF trackingVars
<1>1. ASSUME NEW s \in Server, Extract(s) \/ FailExtract(s) PROVE tracking' = tracking
  BY <1>1 DEF Extract, ListWaiting, UploadFile, SaveFileRecord, RenameFile, FailExtract
<1>2. ASSUME NEW p \in Parser, Parse(p) \/ FailHandler(p) \/ FailParse(p) PROVE tracking \subseteq tracking'
  BY <1>2 DEF Parse, FindRecord, CopyObject, DeleteObject, IgnoreRecord, Download, InsertChunk,
              HandleChunk, MarkParsed, FailHandler, FailParse
<1>3. ASSUME NEW s \in Server, Clear(s) \/ \E c \in clear[s].todo : FailClear(s, c)
      PROVE  tracking' = tracking
  BY <1>3 DEF Clear, ListParsed, PassOver, DeleteFile, ArchiveRecord, FailClear
<1>4. ASSUME NEW f \in File, Arrive(f) PROVE tracking' = tracking
  BY <1>4 DEF Arrive
<1>5. CASE Configure
  BY <1>5 DEF Configure
<1>6. CASE Restart
  BY <1>6 DEF Restart
<1>7. CASE UNCHANGED vars
  BY <1>7 DEF vars
<1> QED
  BY <1>1, <1>2, <1>3, <1>4, <1>5, <1>6, <1>7 DEF Next

LEMMA StoredStays ==
  ASSUME [Next]_vars, NEW f, Stored(f)
  PROVE  Stored(f)'
BY TrackingStays DEF Stored

LEMMA SoFarGrows ==
  ASSUME NEW x, NEW T, NEW U, T \subseteq U, SoFar(x, T)
  PROVE  SoFar(x, U)
BY DEF SoFar

-----------------------------------------------------------------------------
(* An execution of the parse job stores chunk after chunk. *)

LEMMA ParseStores ==
  ASSUME Typed, ParsedSoFar, tracking \subseteq tracking',
         NEW p \in Parser, Parse(p) \/ FailHandler(p) \/ FailParse(p)
  PROVE  ParsedSoFar'
<1> USE DEF trackingVars
<1>1. parse \in [Parser -> ParseState] /\ AtWork(parse[p])
  BY DEF Typed, TypeOK, Busy, ParseState
<1>2. parse[p] \in ParseState /\ SoFar(parse[p], tracking')
  BY <1>1, SoFarGrows DEF ParsedSoFar
<1>3. ASSUME NEW x, SoFar(x, tracking'), parse' = [parse EXCEPT ![p] = x]
      PROVE  ParsedSoFar'
  <2> SUFFICES ASSUME NEW q \in Parser PROVE SoFar(parse'[q], tracking')
    BY DEF ParsedSoFar
  <2>1. SoFar(parse[q], tracking')
    BY SoFarGrows DEF ParsedSoFar
  <2> QED
    BY <1>1, <1>3, <2>1
<1>4. ASSUME NEW x, x.at \notin {"insert", "handle", "mark"} PROVE SoFar(x, tracking')
  BY <1>4 DEF SoFar
<1>5. SoFar(IdleParse, tracking')
  BY DEF SoFar, IdleParse
<1>6. ASSUME NEW a \in {"delete", "ignore"}, parse' = [parse EXCEPT ![p] = [parse[p] EXCEPT !.at = a]]
      PROVE  ParsedSoFar'
  <2>1. [parse[p] EXCEPT !.at = a].at = a
    BY <1>2 DEF ParseState
  <2> QED
    BY <1>3, <1>4, <1>6, <2>1
<1>7. CASE FindRecord(p)
  <2> DEFINE f == First(Extracted)
             a == IF f \in Colissimo /\ ~enabled THEN "copy" ELSE "download"
             x == [IdleParse EXCEPT !.at = a, !.file = f, !.ignored = record[f].ignored]
  <2>1. parse' = [parse EXCEPT ![p] = x]
    BY <1>7 DEF FindRecord
  <2>2. a \in {"copy", "download"}
    OBVIOUS
  <2> HIDE DEF f, a
  <2>3. x.at = a
    BY DEF IdleParse
  <2> HIDE DEF x
  <2> QED
    BY <1>3, <1>4, <2>1, <2>2, <2>3
<1>8. CASE CopyObject(p)
  <2>1. \/ parse' = [parse EXCEPT ![p] = [parse[p] EXCEPT !.at = "delete"]]
        \/ parse' = [parse EXCEPT ![p] = IdleParse]
    BY <1>1, <1>8 DEF CopyObject
  <2> QED
    BY <1>3, <1>5, <1>6, <2>1
<1>9. CASE DeleteObject(p)
  <2>1. parse' = [parse EXCEPT ![p] = [parse[p] EXCEPT !.at = "ignore"]]
    BY <1>1, <1>9 DEF DeleteObject
  <2> QED
    BY <1>6, <2>1
<1>10. CASE IgnoreRecord(p)
  BY <1>3, <1>5, <1>10 DEF IgnoreRecord
<1>11. CASE Download(p)
  <2> DEFINE x == [parse[p] EXCEPT !.at = "insert", !.chunk = 1]
  <2>1. x.at = "insert" /\ x.chunk = 1
    BY <1>2 DEF ParseState
  <2>2. SoFar(x, tracking')
    <3> HIDE DEF x
    <3> QED
      BY <2>1 DEF SoFar
  <2>3. parse' = [parse EXCEPT ![p] = x] \/ parse' = [parse EXCEPT ![p] = IdleParse]
    BY <1>11 DEF Download
  <2> HIDE DEF x
  <2> QED
    BY <1>3, <1>5, <2>2, <2>3
<1>12. ASSUME NextChunk(p), parse[p].at \in {"insert", "handle"}, PieceOf(p) \in tracking'
       PROVE  ParsedSoFar'
  <2> DEFINE a == IF parse[p].chunk = Chunks THEN "mark" ELSE "insert"
             x == [parse[p] EXCEPT !.at = a, !.chunk = @ + 1]
  <2>1. parse' = [parse EXCEPT ![p] = x]
    BY <1>1, <1>12 DEF NextChunk, ParseState
  <2>2. parse[p].chunk \in 1 .. Chunks
    BY <1>1, <1>12 DEF AtWork
  <2>3. a \in {"mark", "insert"} /\ (a = "mark" => parse[p].chunk = Chunks)
    OBVIOUS
  <2> HIDE DEF a
  <2>4. x.at = a /\ x.chunk = parse[p].chunk + 1 /\ x.file = parse[p].file
    BY <1>2 DEF ParseState
  <2> HIDE DEF x
  <2>5. \A k \in 1 .. Chunks : k <= parse[p].chunk => <<parse[p].file, k>> \in tracking'
    <3> SUFFICES ASSUME NEW k \in 1 .. Chunks, k <= parse[p].chunk
                 PROVE  <<parse[p].file, k>> \in tracking'
      OBVIOUS
    <3>1. CASE k = parse[p].chunk
      BY <1>12, <3>1 DEF PieceOf
    <3>2. CASE k < parse[p].chunk
      BY <1>2, <1>12, <3>2 DEF SoFar
    <3> QED
      BY <2>2, <3>1, <3>2, BoundAssumption
  <2>6. SoFar(x, tracking')
    BY <2>2, <2>3, <2>4, <2>5, BoundAssumption DEF SoFar
  <2> QED
    BY <1>3, <2>1, <2>6
<1>13. CASE InsertChunk(p)
  <2>1. CASE PieceOf(p) \in tracking
    BY <1>12, <1>13, <2>1 DEF InsertChunk
  <2>2. CASE PieceOf(p) \notin tracking
    <3> DEFINE x == [parse[p] EXCEPT !.at = "handle"]
    <3>1. parse' = [parse EXCEPT ![p] = x] /\ PieceOf(p) \in tracking'
      BY <1>1, <1>13, <2>2 DEF InsertChunk
    <3>2. x.at = "handle" /\ x.chunk = parse[p].chunk /\ x.file = parse[p].file
      BY <1>2 DEF ParseState
    <3>3. parse[p].chunk \in 1 .. Chunks
      BY <1>1, <1>13 DEF InsertChunk, AtWork
    <3> HIDE DEF x
    <3>4. SoFar(x, tracking')
      <4> SUFFICES ASSUME NEW k \in 1 .. Chunks, k <= parse[p].chunk
                   PROVE  <<parse[p].file, k>> \in tracking'
        BY <3>2 DEF SoFar
      <4>1. CASE k = parse[p].chunk
        BY <3>1, <4>1 DEF PieceOf
      <4>2. CASE k < parse[p].chunk
        BY <1>2, <1>13, <4>2 DEF SoFar, InsertChunk
      <4> QED
        BY <3>3, <4>1, <4>2, BoundAssumption
    <3> QED
      BY <1>3, <3>1, <3>4
  <2> QED
    BY <2>1, <2>2
<1>14. ASSUME parse[p].at = "handle" PROVE PieceOf(p) \in tracking'
  BY <1>1, <1>2, <1>14, BoundAssumption DEF PieceOf, SoFar, AtWork
<1>15. CASE HandleChunk(p)
  BY <1>12, <1>14, <1>15 DEF HandleChunk
<1>16. CASE FailHandler(p)
  BY <1>12, <1>14, <1>16 DEF FailHandler
<1>17. CASE MarkParsed(p)
  BY <1>3, <1>5, <1>17 DEF MarkParsed
<1>18. CASE FailParse(p)
  BY <1>3, <1>5, <1>18 DEF FailParse
<1> QED
  BY <1>7, <1>8, <1>9, <1>10, <1>11, <1>13, <1>15, <1>16, <1>17, <1>18 DEF Parse

LEMMA NextParsed ==
  ASSUME Typed, ParsedSoFar, [Next]_vars
  PROVE  ParsedSoFar'
<1>1. tracking \subseteq tracking'
  BY TrackingStays
<1>2. CASE parse' = parse
  BY <1>1, <1>2, SoFarGrows DEF ParsedSoFar
<1>3. ASSUME NEW s \in Server, Extract(s) \/ FailExtract(s) PROVE parse' = parse
  BY <1>3 DEF Extract, ListWaiting, UploadFile, SaveFileRecord, RenameFile, FailExtract
<1>4. ASSUME NEW s \in Server, Clear(s) \/ \E c \in clear[s].todo : FailClear(s, c)
      PROVE  parse' = parse
  BY <1>4 DEF Clear, ListParsed, PassOver, DeleteFile, ArchiveRecord, FailClear
<1>5. ASSUME NEW f \in File, Arrive(f) PROVE parse' = parse
  BY <1>5 DEF Arrive
<1>6. CASE Configure
  BY <1>2, <1>6 DEF Configure
<1>7. CASE Restart
  <2>1. parse' = [p \in Parser |-> IdleParse]
    BY <1>7 DEF Restart
  <2> QED
    BY <2>1 DEF ParsedSoFar, SoFar, IdleParse
<1>8. CASE UNCHANGED vars
  BY <1>2, <1>8 DEF vars
<1> QED
  BY <1>1, <1>2, <1>3, <1>4, <1>5, <1>6, <1>7, <1>8, ParseStores DEF Next

-----------------------------------------------------------------------------
(* What a step may do to records, directories, lists and extract jobs. *)

Marked(f) == record[f].event \in {"PARSED", "ARCHIVED"}
Recorded(f) == record[f].event # "none"
Gone(f) == Arrived(f) /\ f \notin waiting \cup extracted
Taken(f) == Arrived(f) /\ f \notin waiting

StepRecords ==
  \A f \in File : /\ Marked(f)' => Marked(f) \/ Stored(f)
                  /\ Recorded(f) => Recorded(f)'
StepFiles ==
  \A f \in File : /\ Gone(f)' => Gone(f) \/ Stored(f)
                  /\ Taken(f)' => Taken(f) \/ Recorded(f)
StepClear ==
  \A s \in Server : \A c \in clear'[s].todo : c \in clear[s].todo \/ Stored(c.file)
StepExtract ==
  \A s \in Server : extract'[s].at = "saved" => record'[extract'[s].file].event # "none"

Aims == ClearedIsStored /\ SavedIsRecorded /\ GoneIsStored /\ TakenIsRecorded
Steps == StepRecords /\ StepFiles /\ StepClear /\ StepExtract

LEMMA StepsKeepAims ==
  ASSUME Aims, Steps, [Next]_vars
  PROVE  Aims'
<1>1. ClearedIsStored'
  BY StoredStays DEF Aims, Steps, StepClear, ClearedIsStored
<1>2. SavedIsRecorded'
  BY DEF Steps, StepExtract, SavedIsRecorded
<1>3. GoneIsStored'
  <2> SUFFICES ASSUME NEW f \in File, Marked(f)' \/ Gone(f)' PROVE Stored(f)'
    BY DEF GoneIsStored, Marked, Gone
  <2>1. Marked(f) \/ Gone(f) \/ Stored(f)
    BY DEF Steps, StepRecords, StepFiles, Marked, Gone, Arrived
  <2>2. Stored(f)
    BY <2>1 DEF Aims, GoneIsStored, Marked, Gone
  <2> QED
    BY <2>2, StoredStays
<1>4. TakenIsRecorded'
  BY DEF Aims, Steps, StepRecords, StepFiles, TakenIsRecorded, Taken, Recorded, Arrived
<1> QED
  BY <1>1, <1>2, <1>3, <1>4 DEF Aims

\* Steps of each kind leave most of this alone.
LEMMA SameRecords ==
  ASSUME record' = record
  PROVE  StepRecords
BY DEF StepRecords, Marked, Recorded

LEMMA SameFiles ==
  ASSUME UNCHANGED <<waiting, extracted, deliveries>>
  PROVE  StepFiles
BY DEF StepFiles, Gone, Taken, Arrived

LEMMA SameClear ==
  ASSUME clear' = clear
  PROVE  StepClear
BY DEF StepClear

LEMMA SameExtract ==
  ASSUME Typed, Aims, StepRecords, extract' = extract
  PROVE  StepExtract
<1> SUFFICES ASSUME NEW s \in Server, extract[s].at = "saved"
             PROVE  record'[extract[s].file].event # "none"
  BY DEF StepExtract
<1>1. extract[s].file \in File
  BY DEF Typed, Busy
<1> QED
  BY <1>1 DEF Aims, SavedIsRecorded, StepRecords, Recorded

LEMMA ExtractSteps ==
  ASSUME Typed, Aims, NEW s \in Server, Extract(s) \/ FailExtract(s)
  PROVE  Steps
<1> USE DEF ftpVars, trackingVars
<1>1. TypeOK /\ Busy
  BY DEF Typed
<1>2. ASSUME NEW x, extract' = [extract EXCEPT ![s] = x], StepRecords,
             x.at = "saved" => record'[x.file].event # "none"
      PROVE  StepExtract
  <2> SUFFICES ASSUME NEW r \in Server, extract'[r].at = "saved"
               PROVE  record'[extract'[r].file].event # "none"
    BY DEF StepExtract
  <2>1. CASE r = s
    BY <1>1, <1>2, <2>1 DEF TypeOK
  <2>2. CASE r # s
    <3>1. extract'[r] = extract[r] /\ extract[r].file \in File
      BY <1>1, <1>2, <2>2 DEF TypeOK, Busy
    <3> QED
      BY <1>2, <3>1 DEF Aims, SavedIsRecorded, StepRecords, Recorded
  <2> QED
    BY <2>1, <2>2
<1>3. ASSUME NEW todo, NextFile(s, todo), StepRecords PROVE StepExtract
  <2>1. IdleExtract.at # "saved" /\ [at |-> "next", todo |-> todo, file |-> None].at # "saved"
    BY DEF IdleExtract
  <2>2. PICK x : extract' = [extract EXCEPT ![s] = x] /\ x.at # "saved"
    BY <1>3, <2>1 DEF NextFile
  <2> QED
    BY <1>2, <1>3, <2>2
<1>4. CASE ListWaiting(s)
  <2>1. StepRecords /\ StepFiles /\ StepClear
    BY <1>4, SameRecords, SameFiles, SameClear DEF ListWaiting
  <2> QED
    BY <1>2, <1>4, <2>1 DEF ListWaiting, Steps
<1>5. CASE UploadFile(s)
  <2>1. StepRecords /\ StepFiles /\ StepClear
    BY <1>5, SameRecords, SameFiles, SameClear DEF UploadFile
  <2> DEFINE f == First(extract[s].todo)
             x == [at |-> "uploaded", todo |-> extract[s].todo \ {f}, file |-> f]
  <2>2. extract' = [extract EXCEPT ![s] = x] /\ x.at = "uploaded"
    BY <1>5 DEF UploadFile
  <2> QED
    BY <1>2, <2>1, <2>2 DEF Steps
<1>6. CASE SaveFileRecord(s)
  <2>1. extract[s].file \in File
    BY <1>1, <1>6 DEF SaveFileRecord, Busy
  <2>2. StepRecords
    BY <1>1, <1>6, <2>1 DEF SaveFileRecord, TypeOK, StepRecords, Marked, Recorded
  <2>3. StepFiles /\ StepClear
    BY <1>6, SameFiles, SameClear DEF SaveFileRecord
  <2> DEFINE x == [extract[s] EXCEPT !.at = "saved"]
  <2>4. extract' = [extract EXCEPT ![s] = x] /\ x.file = extract[s].file
    BY <1>1, <1>6 DEF SaveFileRecord, TypeOK
  <2>5. record'[extract[s].file].event # "none"
    BY <1>1, <1>6, <2>1 DEF SaveFileRecord, TypeOK
  <2> QED
    BY <1>2, <2>2, <2>3, <2>4, <2>5 DEF Steps
<1>7. CASE RenameFile(s)
  <2> DEFINE f == extract[s].file
  <2>1. f \in File /\ Recorded(f)
    BY <1>1, <1>7 DEF RenameFile, Busy, Aims, SavedIsRecorded, Recorded
  <2>2. StepRecords /\ StepClear
    BY <1>7, SameRecords, SameClear DEF RenameFile
  <2>3. StepFiles
    BY <1>7, <2>1 DEF RenameFile, StepFiles, Gone, Taken, Arrived
  <2>4. StepExtract
    BY <1>3, <1>7, <2>2 DEF RenameFile
  <2> QED
    BY <2>2, <2>3, <2>4 DEF Steps
<1>8. CASE FailExtract(s)
  <2>1. StepRecords /\ StepFiles /\ StepClear
    BY <1>8, SameRecords, SameFiles, SameClear DEF FailExtract
  <2> QED
    BY <1>3, <1>8, <2>1 DEF FailExtract, Steps
<1> QED
  BY <1>4, <1>5, <1>6, <1>7, <1>8 DEF Extract

LEMMA ParseSteps ==
  ASSUME Typed, ParsedSoFar, Aims, NEW p \in Parser, Parse(p) \/ FailHandler(p) \/ FailParse(p)
  PROVE  Steps
<1> USE DEF ftpVars, trackingVars
<1>1. record \in [File -> Record] /\ AtWork(parse[p]) /\ SoFar(parse[p], tracking)
  BY DEF Typed, TypeOK, Busy, ParsedSoFar
<1>2. UNCHANGED <<waiting, extracted, deliveries, extract, clear>>
  BY DEF Parse, FindRecord, CopyObject, DeleteObject, IgnoreRecord, Download, InsertChunk,
         HandleChunk, MarkParsed, FailHandler, FailParse
<1>3. ASSUME IgnoreRecord(p) PROVE StepRecords
  BY <1>1, <1>3 DEF IgnoreRecord, AtWork, StepRecords, Marked, Recorded
<1>4. ASSUME MarkParsed(p) PROVE StepRecords
  <2>1. parse[p].file \in File /\ Stored(parse[p].file)
    BY <1>1, <1>4 DEF MarkParsed, AtWork, SoFar, Stored
  <2> QED
    BY <1>1, <1>4, <2>1 DEF MarkParsed, Record, StepRecords, Marked, Recorded
<1>5. StepRecords
  BY <1>3, <1>4, SameRecords
     DEF Parse, FindRecord, CopyObject, DeleteObject, Download, InsertChunk, HandleChunk,
         FailHandler, FailParse
<1> QED
  BY <1>2, <1>5, SameFiles, SameClear, SameExtract DEF Steps

LEMMA ClearSteps ==
  ASSUME Typed, Aims, NEW s \in Server, Clear(s) \/ \E c \in clear[s].todo : FailClear(s, c)
  PROVE  Steps
<1> USE DEF ftpVars, trackingVars
<1>1. record \in [File -> Record] /\ clear \in [Server -> ClearState]
  BY DEF Typed, TypeOK, ClearState
<1>2. ASSUME NEW c \in clear[s].todo PROVE c.file \in File /\ Stored(c.file)
  BY <1>1, <1>2 DEF ClearState, Copy, Aims, ClearedIsStored
<1>3. extract' = extract
  BY DEF Clear, ListParsed, PassOver, DeleteFile, ArchiveRecord, FailClear
<1>4. CASE ListParsed(s)
  <2>1. StepRecords /\ StepFiles
    BY <1>4, SameRecords, SameFiles DEF ListParsed
  <2>2. StepClear
    <3> SUFFICES ASSUME NEW r \in Server, NEW c \in clear'[r].todo
                 PROVE  c \in clear[r].todo \/ Stored(c.file)
      BY DEF StepClear
    <3>1. CASE r # s
      BY <1>1, <1>4, <3>1 DEF ListParsed
    <3>2. CASE r = s
      <4>1. clear'[s].todo = {[file |-> f, ignored |-> record[f].ignored] :
                              f \in {g \in File : record[g].event = "PARSED"}}
        BY <1>1, <1>4 DEF ListParsed
      <4>2. c.file \in File /\ Marked(c.file)
        BY <3>2, <4>1 DEF Marked
      <4> QED
        BY <4>2 DEF Aims, GoneIsStored, Marked
    <3> QED
      BY <3>1, <3>2
  <2> QED
    BY <1>3, <2>1, <2>2, SameExtract DEF Steps
<1>5. ASSUME NEW c, Cleared(s, c) PROVE StepClear
  <2> DEFINE rest == [clear[s] EXCEPT !.todo = @ \ {c}, !.deleted = @ \ {c}]
  <2>1. IdleClear.todo = {} /\ rest.todo \subseteq clear[s].todo
    BY <1>1 DEF IdleClear, ClearState
  <2>2. clear' = [clear EXCEPT ![s] = IF rest.todo = {} THEN IdleClear ELSE rest]
    BY <1>5 DEF Cleared
  <2> HIDE DEF rest
  <2> QED
    BY <1>1, <2>1, <2>2 DEF StepClear
<1>6. ASSUME NEW c \in clear[s].todo, PassOver(s, c) \/ FailClear(s, c) PROVE Steps
  <2>1. StepRecords /\ StepFiles
    BY <1>6, SameRecords, SameFiles DEF PassOver, FailClear
  <2>2. StepClear
    BY <1>5, <1>6 DEF PassOver, FailClear
  <2> QED
    BY <1>3, <2>1, <2>2, SameExtract DEF Steps
<1>7. ASSUME NEW c \in clear[s].todo, DeleteFile(s, c) PROVE Steps
  <2>1. StepRecords
    BY <1>7, SameRecords DEF DeleteFile
  <2>2. StepFiles
    BY <1>2, <1>7 DEF DeleteFile, StepFiles, Gone, Taken, Arrived
  <2>3. StepClear
    BY <1>1, <1>7 DEF DeleteFile, StepClear, ClearState
  <2> QED
    BY <1>3, <2>1, <2>2, <2>3, SameExtract DEF Steps
<1>8. ASSUME NEW c \in clear[s].todo, ArchiveRecord(s, c) PROVE Steps
  <2>1. StepRecords
    BY <1>1, <1>2, <1>8 DEF ArchiveRecord, Record, StepRecords, Marked, Recorded
  <2>2. StepFiles /\ StepClear
    BY <1>5, <1>8, SameFiles DEF ArchiveRecord
  <2> QED
    BY <1>3, <2>1, <2>2, SameExtract DEF Steps
<1> QED
  BY <1>4, <1>6, <1>7, <1>8 DEF Clear

LEMMA NextSteps ==
  ASSUME Typed, ParsedSoFar, Aims, [Next]_vars
  PROVE  Steps
<1> USE DEF ftpVars, trackingVars
<1>1. ASSUME NEW f \in File, Arrive(f) PROVE Steps
  <2>1. StepRecords /\ StepClear /\ extract' = extract
    BY <1>1, SameRecords, SameClear DEF Arrive
  <2>2. StepFiles
    <3>1. deliveries \in [File -> Nat]
      BY DEF Typed, TypeOK
    <3> QED
      BY <1>1, <3>1 DEF Arrive, StepFiles, Gone, Taken, Arrived
  <2> QED
    BY <2>1, <2>2, SameExtract DEF Steps
<1>2. CASE Configure
  BY <1>2, SameRecords, SameFiles, SameClear, SameExtract DEF Configure, Steps
<1>3. CASE Restart
  <2>1. StepRecords /\ StepFiles
    BY <1>3, SameRecords, SameFiles DEF Restart
  <2>2. StepClear /\ StepExtract
    BY <1>3 DEF Restart, StepClear, StepExtract, IdleClear, IdleExtract
  <2> QED
    BY <2>1, <2>2 DEF Steps
<1>4. CASE UNCHANGED vars
  BY <1>4, SameRecords, SameFiles, SameClear, SameExtract DEF vars, Steps
<1> QED
  BY <1>1, <1>2, <1>3, <1>4, ExtractSteps, ParseSteps, ClearSteps DEF Next

-----------------------------------------------------------------------------
LEMMA InitIInv == Init => IInv
<1> SUFFICES ASSUME Init PROVE IInv
  OBVIOUS
<1>1. Typed
  BY InitTyped
<1>2. ParsedSoFar
  BY DEF Init, ParsedSoFar, SoFar, IdleParse
<1>3. ClearedIsStored /\ SavedIsRecorded
  BY DEF Init, ClearedIsStored, SavedIsRecorded, IdleClear, IdleExtract
<1>4. GoneIsStored /\ TakenIsRecorded
  BY DEF Init, GoneIsStored, TakenIsRecorded, Arrived
<1> QED
  BY <1>1, <1>2, <1>3, <1>4 DEF IInv

LEMMA NextIInv == IInv /\ [Next]_vars => IInv'
<1> SUFFICES ASSUME IInv, [Next]_vars PROVE IInv'
  OBVIOUS
<1>1. Typed /\ ParsedSoFar /\ Aims
  BY DEF IInv, Aims
<1>2. Typed' /\ ParsedSoFar'
  BY <1>1, NextTyped, NextParsed
<1>3. Aims'
  BY <1>1, NextSteps, StepsKeepAims
<1> QED
  BY <1>2, <1>3 DEF IInv, Aims

-----------------------------------------------------------------------------
(***************************************************************************)
(* The copies in S3.  A copy under ignore/ is never removed, and the parse *)
(* job takes only records whose copy is not there; so a copy is moved in   *)
(* one direction only, until the file comes again.                         *)
(***************************************************************************)
Plain(f) == [file |-> f, ignored |-> FALSE]
Aside(f) == [file |-> f, ignored |-> TRUE]

MovedIsThere ==
  /\ \A f \in File : record[f].ignored => Aside(f) \in s3
  /\ \A p \in Parser : parse[p].at \in {"delete", "ignore"} => Aside(parse[p].file) \in s3
FoundIsPlain ==
  /\ \A f \in Extracted : ~record[f].ignored
  /\ \A p \in Parser : ~parse[p].ignored
KnownIsRecorded ==
  /\ \A p \in Parser : parse[p].at # "idle" => Recorded(parse[p].file)
  /\ \A s \in Server : \A c \in clear[s].todo : Recorded(c.file)

\* A file on its first way through the extract job of its server, while nothing fails.
Smooth(f) == failures = 0 /\ deliveries[f] <= 1
InHand(s, f) == extract[s].at \in {"uploaded", "saved"} /\ extract[s].file = f
OnItsWay(f) ==
  /\ deliveries[f] = 0 => f \notin waiting /\ f \notin extracted /\ ~Recorded(f)
  /\ f \in waiting => f \notin extracted
  /\ \A s \in Server :
       /\ f \in extract[s].todo \/ InHand(s, f) => s = ServerOf[f] /\ f \in waiting
       /\ InHand(s, f) => f \notin extract[s].todo
       /\ extract[s].at = "uploaded" /\ extract[s].file = f => Plain(f) \in s3
  /\ f \in waiting /\ Recorded(f) =>
       extract[ServerOf[f]].at = "saved" /\ extract[ServerOf[f]].file = f
CopyKept(f) == Recorded(f) /\ ~record[f].ignored => Plain(f) \in s3 \/ Moving(f)

Copies ==
  /\ MovedIsThere /\ FoundIsPlain /\ KnownIsRecorded
  /\ \A f \in File : Smooth(f) => OnItsWay(f) /\ CopyKept(f)

LEMMA InitCopies == Init => Copies
BY DEF Init, Copies, MovedIsThere, FoundIsPlain, KnownIsRecorded, Extracted, Recorded, Smooth,
       OnItsWay, InHand, CopyKept, IdleExtract, IdleParse, IdleClear, None

\* A step that touches none of it.
LEMMA CopiesStay ==
  ASSUME Copies, UNCHANGED <<waiting, extracted, deliveries, s3, record, extract, parse, clear>>,
         failures' = 0 => failures = 0
  PROVE  Copies'
BY DEF Copies, MovedIsThere, FoundIsPlain, KnownIsRecorded, Extracted, Recorded, Smooth,
       OnItsWay, InHand, CopyKept, Moving

\* Nothing takes the copy of a file between its upload and its record.
LEMMA UploadedIsNotParsed ==
  ASSUME Copies, NEW f \in File, Smooth(f), NEW s \in Server,
         extract[s].at = "uploaded", extract[s].file = f, NEW p \in Parser, parse[p].at # "idle"
  PROVE  parse[p].file # f
<1>1. f \in waiting /\ s = ServerOf[f]
  BY DEF Copies, OnItsWay, InHand
<1>2. ~Recorded(f)
  BY <1>1 DEF Copies, OnItsWay
<1> QED
  BY <1>2 DEF Copies, KnownIsRecorded

LEMMA ParseCopies ==
  ASSUME Typed, Copies, NEW p \in Parser, Parse(p) \/ FailHandler(p) \/ FailParse(p)
  PROVE  Copies'
<1> USE DEF ftpVars, trackingVars
<1>1. /\ parse \in [Parser -> ParseState] /\ record \in [File -> Record]
      /\ parse[p] \in ParseState /\ AtWork(parse[p]) /\ ~parse[p].ignored
  BY DEF Typed, TypeOK, Busy, ParseState, Copies, FoundIsPlain
<1>2. UNCHANGED <<waiting, extracted, deliveries, extract, clear>> /\ (failures' = 0 => failures = 0)
  <2>1. failures \in Nat
    BY DEF Typed, TypeOK
  <2> QED
    BY <2>1 DEF Parse, FindRecord, CopyObject, DeleteObject, IgnoreRecord, Download, InsertChunk,
           HandleChunk, MarkParsed, FailHandler, FailParse, Fail
<1>3. ASSUME NEW x, parse' = [parse EXCEPT ![p] = x],
             ~x.ignored,
             x.at # "idle" => Recorded(x.file),
             x.at \in {"delete", "ignore"} => x.file \in File /\ Aside(x.file) \in s3',
             parse[p].at \in {"delete", "ignore"} =>
               \/ x.at \in {"delete", "ignore"} /\ x.file = parse[p].file
               \/ record'[parse[p].file].ignored
               \/ failures' # 0,
             \A f \in File :
               /\ Aside(f) \in s3 => Aside(f) \in s3'
               /\ Plain(f) \in s3 =>
                    Plain(f) \in s3' \/ (x.at = "ignore" /\ x.file = f /\ parse[p].at # "idle"
                                                       /\ parse[p].file = f)
               /\ Recorded(f)' <=> Recorded(f)
               /\ record'[f].ignored => record[f].ignored \/ Aside(f) \in s3
               /\ record[f].ignored => record'[f].ignored
               /\ record'[f].event = "EXTRACTED" => record'[f] = record[f]
      PROVE  Copies'
  <2>1. parse'[p] = x /\ \A q \in Parser \ {p} : parse'[q] = parse[q]
    BY <1>1, <1>3
  <2>2. MovedIsThere'
    <3>1. \A f \in File : record'[f].ignored => Aside(f) \in s3'
      BY <1>3 DEF Copies, MovedIsThere
    <3>2. \A q \in Parser : parse'[q].at \in {"delete", "ignore"} => Aside(parse'[q].file) \in s3'
      <4> SUFFICES ASSUME NEW q \in Parser, parse'[q].at \in {"delete", "ignore"}
                   PROVE  Aside(parse'[q].file) \in s3'
        OBVIOUS
      <4>1. CASE q = p
        BY <1>3, <2>1, <4>1
      <4>2. CASE q # p
        <5>1. parse'[q] = parse[q] /\ parse[q].file \in File
          BY <2>1, <4>2 DEF Typed, Busy, AtWork
        <5>2. Aside(parse[q].file) \in s3
          BY <5>1 DEF Copies, MovedIsThere
        <5> QED
          BY <1>3, <5>1, <5>2
      <4> QED
        BY <4>1, <4>2
    <3> QED
      BY <3>1, <3>2 DEF MovedIsThere, Aside
  <2>3. FoundIsPlain'
    <3>1. \A f \in Extracted' : ~record'[f].ignored
      BY <1>3 DEF Copies, FoundIsPlain, Extracted
    <3>2. \A q \in Parser : ~parse'[q].ignored
      BY <1>3, <2>1 DEF Copies, FoundIsPlain
    <3> QED
      BY <3>1, <3>2 DEF FoundIsPlain
  <2>4. KnownIsRecorded'
    <3>0. \A f \in File : record'[f].event # "none" <=> record[f].event # "none"
      BY <1>3 DEF Recorded
    <3>1. \A q \in Parser : parse'[q].at # "idle" => record'[parse'[q].file].event # "none"
      <4> SUFFICES ASSUME NEW q \in Parser, parse'[q].at # "idle"
                   PROVE  record'[parse'[q].file].event # "none"
        OBVIOUS
      <4>1. CASE q = p
        <5>1. Recorded(x.file)
          BY <1>3, <2>1, <4>1
        <5>2. x.file \in File
          BY <2>1, <4>1, NextTyped DEF Next, Typed, Busy, AtWork
        <5> QED
          BY <2>1, <3>0, <4>1, <5>1, <5>2 DEF Recorded
      <4>2. CASE q # p
        <5>1. parse'[q] = parse[q] /\ parse[q].file \in File
          BY <2>1, <4>2 DEF Typed, Busy, AtWork
        <5>2. Recorded(parse[q].file)
          BY <5>1 DEF Copies, KnownIsRecorded
        <5> QED
          BY <3>0, <5>1, <5>2 DEF Recorded
      <4> QED
        BY <4>1, <4>2
    <3>2. \A s \in Server : \A c \in clear'[s].todo : record'[c.file].event # "none"
      <4> SUFFICES ASSUME NEW s \in Server, NEW c \in clear[s].todo PROVE record'[c.file].event # "none"
        BY <1>2
      <4>1. c.file \in File
        BY DEF Typed, TypeOK, Copy
      <4> QED
        BY <3>0, <4>1 DEF Copies, KnownIsRecorded, Recorded
    <3> QED
      BY <3>1, <3>2 DEF KnownIsRecorded, Recorded
  <2>5. ASSUME NEW f \in File, Smooth(f)' PROVE OnItsWay(f)' /\ CopyKept(f)'
    <3>1. Smooth(f)
      BY <1>2, <2>5 DEF Smooth
    <3>2. OnItsWay(f) /\ CopyKept(f)
      BY <3>1 DEF Copies
    <3>3. OnItsWay(f)'
      <4>1. \A s \in Server : extract[s].at = "uploaded" /\ extract[s].file = f => Plain(f) \in s3'
        BY <1>3, <3>1, <3>2, UploadedIsNotParsed DEF OnItsWay
      <4>2. Recorded(f)' <=> Recorded(f)
        BY <1>3
      <4> QED
        BY <1>2, <3>2, <4>1, <4>2 DEF OnItsWay, InHand, Plain
    <3>4. CopyKept(f)'
      <4> SUFFICES ASSUME Recorded(f)', ~record'[f].ignored PROVE Plain(f) \in s3' \/ Moving(f)'
        BY DEF CopyKept, Plain
      <4>1. Plain(f) \in s3 \/ Moving(f)
        BY <1>3, <3>2 DEF CopyKept
      <4>2. CASE Plain(f) \in s3
        <5>1. CASE x.at = "ignore" /\ x.file = f
          BY <2>1, <5>1 DEF Moving
        <5> QED
          BY <1>3, <4>2, <5>1
      <4>3. CASE Moving(f)
        <5>1. PICK q \in Parser : parse[q].file = f /\ parse[q].at \in {"delete", "ignore"}
          BY <4>3 DEF Moving
        <5>2. parse'[q].file = f /\ parse'[q].at \in {"delete", "ignore"}
          <6>1. CASE q = p
            BY <1>3, <2>1, <2>5, <5>1, <6>1 DEF Smooth
          <6>2. CASE q # p
            BY <2>1, <5>1, <6>2
          <6> QED
            BY <6>1, <6>2
        <5> QED
          BY <5>2 DEF Moving
      <4> QED
        BY <4>1, <4>2, <4>3
    <3> QED
      BY <3>3, <3>4
  <2> QED
    BY <2>2, <2>3, <2>4, <2>5 DEF Copies
<1>4. ASSUME s3' = s3, record' = record, NEW x, parse' = [parse EXCEPT ![p] = x], ~x.ignored,
             x.at # "idle" => Recorded(x.file), x.at \notin {"delete", "ignore"},
             parse[p].at \notin {"delete", "ignore"} \/ failures' # 0
      PROVE  Copies'
  BY <1>3, <1>4 DEF Recorded
<1>5. ~IdleParse.ignored /\ IdleParse.at = "idle"
  BY DEF IdleParse
<1>6. ASSUME parse[p].at # "idle" PROVE parse[p].file \in File /\ Recorded(parse[p].file)
  BY <1>1, <1>6 DEF AtWork, Copies, KnownIsRecorded
<1>7. CASE FindRecord(p)
  <2> DEFINE f == First(Extracted)
             a == IF f \in Colissimo /\ ~enabled THEN "copy" ELSE "download"
             x == [IdleParse EXCEPT !.at = a, !.file = f, !.ignored = record[f].ignored]
  <2>1. f \in Extracted
    BY <1>7, FirstIsMember DEF FindRecord, Extracted
  <2>2. ~record[f].ignored /\ Recorded(f)
    BY <2>1 DEF Copies, FoundIsPlain, Extracted, Recorded
  <2>3. /\ parse' = [parse EXCEPT ![p] = x] /\ parse[p].at = "idle"
        /\ s3' = s3 /\ record' = record
    BY <1>7 DEF FindRecord
  <2>4. x.file = f /\ x.at = a /\ a \in {"copy", "download"} /\ x.ignored = record[f].ignored
    BY DEF IdleParse
  <2> HIDE DEF f, a, x
  <2> QED
    BY <1>4, <2>2, <2>3, <2>4
<1>8. CASE CopyObject(p)
  <2>1. parse[p].at = "copy" /\ record' = record
    BY <1>8 DEF CopyObject
  <2>2. CASE Source(p) \in s3
    <3> DEFINE x == [parse[p] EXCEPT !.at = "delete"]
    <3>1. s3' = s3 \cup {Target(p)} /\ parse' = [parse EXCEPT ![p] = x]
      BY <1>1, <1>8, <2>2 DEF CopyObject
    <3>2. x.at = "delete" /\ x.file = parse[p].file /\ x.ignored = parse[p].ignored
      BY <1>1 DEF ParseState
    <3>3. Target(p) = Aside(parse[p].file)
      BY DEF Target, Aside
    <3> HIDE DEF x
    <3> QED
      BY <1>1, <1>3, <1>6, <2>1, <3>1, <3>2, <3>3 DEF Recorded
  <2>3. CASE Source(p) \notin s3
    <3>1. s3' = s3 /\ parse' = [parse EXCEPT ![p] = IdleParse]
      BY <1>8, <2>3 DEF CopyObject
    <3> QED
      BY <1>4, <1>5, <2>1, <3>1
  <2> QED
    BY <2>2, <2>3
<1>9. CASE DeleteObject(p)
  <2> DEFINE x == [parse[p] EXCEPT !.at = "ignore"]
  <2>1. /\ parse[p].at = "delete" /\ record' = record
        /\ s3' = s3 \ {Source(p)} /\ parse' = [parse EXCEPT ![p] = x]
    BY <1>1, <1>9 DEF DeleteObject
  <2>2. x.at = "ignore" /\ x.file = parse[p].file /\ x.ignored = parse[p].ignored
    BY <1>1 DEF ParseState
  <2>3. Source(p) = Plain(parse[p].file)
    BY <1>1 DEF Source, Plain, ParseState
  <2>4. \A f, g \in File : Aside(f) # Plain(g) /\ (Plain(f) = Plain(g) => f = g)
    BY DEF Aside, Plain
  <2>5. Aside(parse[p].file) \in s3
    BY <2>1 DEF Copies, MovedIsThere
  <2> HIDE DEF x
  <2> QED
    BY <1>1, <1>3, <1>6, <2>1, <2>2, <2>3, <2>4, <2>5 DEF Recorded
<1>10. CASE IgnoreRecord(p)
  <2>1. PICK g \in File : g = parse[p].file /\ Recorded(g) /\ Aside(g) \in s3
    <3>1. parse[p].at = "ignore"
      BY <1>10 DEF IgnoreRecord
    <3> QED
      BY <1>6, <3>1 DEF Copies, MovedIsThere
  <2>2. /\ s3' = s3 /\ parse' = [parse EXCEPT ![p] = IdleParse]
        /\ record' = [record EXCEPT ![g] = [event |-> "IGNORED", ignored |-> TRUE]]
    BY <1>10, <2>1 DEF IgnoreRecord
  <2>3. /\ record'[g].event = "IGNORED" /\ record'[g].ignored
        /\ \A f \in File \ {g} : record'[f] = record[f]
    BY <1>1, <2>2
  <2>4. \A f \in File : Recorded(f)' <=> Recorded(f)
    BY <2>1, <2>3 DEF Recorded
  <2> QED
    BY <1>3, <1>5, <2>1, <2>2, <2>3, <2>4
<1>11. CASE MarkParsed(p)
  <2> DEFINE g == parse[p].file
  <2>1. /\ parse[p].at = "mark" /\ s3' = s3 /\ parse' = [parse EXCEPT ![p] = IdleParse]
        /\ record' = [record EXCEPT ![g].event = "PARSED"]
    BY <1>11 DEF MarkParsed
  <2>2. g \in File /\ Recorded(g)
    BY <1>6, <2>1
  <2>3. /\ record'[g].event = "PARSED" /\ record'[g].ignored = record[g].ignored
        /\ \A f \in File \ {g} : record'[f] = record[f]
    BY <1>1, <2>1, <2>2 DEF Record
  <2> QED
    BY <1>3, <1>5, <2>1, <2>2, <2>3 DEF Recorded
<1>12. CASE Download(p)
  <2> DEFINE x == [parse[p] EXCEPT !.at = "insert", !.chunk = 1]
  <2>1. /\ parse[p].at = "download" /\ s3' = s3 /\ record' = record
        /\ parse' = [parse EXCEPT ![p] = x] \/ parse' = [parse EXCEPT ![p] = IdleParse]
    BY <1>12 DEF Download
  <2>2. x.at = "insert" /\ x.file = parse[p].file /\ x.ignored = parse[p].ignored
    BY <1>1 DEF ParseState
  <2> HIDE DEF x
  <2> QED
    BY <1>1, <1>4, <1>5, <1>6, <2>1, <2>2
<1>13. ASSUME NextChunk(p), parse[p].at \in {"insert", "handle"}, s3' = s3, record' = record
       PROVE  Copies'
  <2> DEFINE a == IF parse[p].chunk = Chunks THEN "mark" ELSE "insert"
             x == [parse[p] EXCEPT !.at = a, !.chunk = @ + 1]
  <2>1. parse' = [parse EXCEPT ![p] = x]
    BY <1>1, <1>13 DEF NextChunk, ParseState
  <2>2. x.at = a /\ a \in {"mark", "insert"} /\ x.file = parse[p].file /\ x.ignored = parse[p].ignored
    BY <1>1 DEF ParseState
  <2> HIDE DEF a, x
  <2> QED
    BY <1>1, <1>4, <1>6, <1>13, <2>1, <2>2
<1>14. CASE InsertChunk(p)
  <2>1. parse[p].at = "insert" /\ s3' = s3 /\ record' = record
    BY <1>14 DEF InsertChunk
  <2>2. CASE PieceOf(p) \in tracking
    BY <1>13, <1>14, <2>1, <2>2 DEF InsertChunk
  <2>3. CASE PieceOf(p) \notin tracking
    <3> DEFINE x == [parse[p] EXCEPT !.at = "handle"]
    <3>1. parse' = [parse EXCEPT ![p] = x]
      BY <1>1, <1>14, <2>3 DEF InsertChunk
    <3>2. x.at = "handle" /\ x.file = parse[p].file /\ x.ignored = parse[p].ignored
      BY <1>1 DEF ParseState
    <3> HIDE DEF x
    <3> QED
      BY <1>1, <1>4, <1>6, <2>1, <3>1, <3>2
  <2> QED
    BY <2>2, <2>3
<1>15. CASE HandleChunk(p) \/ FailHandler(p)
  BY <1>13, <1>15 DEF HandleChunk, FailHandler
<1>16. CASE FailParse(p)
  <2>1. failures \in Nat
    BY DEF Typed, TypeOK
  <2>2. s3' = s3 /\ record' = record /\ parse' = [parse EXCEPT ![p] = IdleParse] /\ failures' # 0
    BY <1>16, <2>1 DEF FailParse, Fail
  <2> QED
    BY <1>4, <1>5, <2>2
<1> QED
  BY <1>7, <1>8, <1>9, <1>10, <1>11, <1>12, <1>14, <1>15, <1>16 DEF Parse

LEMMA ExtractCopies ==
  ASSUME Typed, Copies, NEW s \in Server, Extract(s) \/ FailExtract(s)
  PROVE  Copies'
<1> USE DEF ftpVars, trackingVars
<1>1. /\ extract \in [Server -> [at : {"idle", "next", "uploaded", "saved"},
                                 todo : SUBSET File, file : File \cup {None}]]
      /\ record \in [File -> Record] /\ Busy /\ failures \in Nat
  BY DEF Typed, TypeOK
<1>2. UNCHANGED <<deliveries, parse, clear>>
  BY DEF Extract, ListWaiting, UploadFile, SaveFileRecord, RenameFile, FailExtract, NextFile
\* What concerns one file is left, together with what the execution has become.
<1>3. ASSUME s3 \subseteq s3', record' = record,
             \A f \in File : Smooth(f)' => Smooth(f) /\ OnItsWay(f)'
      PROVE  Copies'
  <2>1. MovedIsThere' /\ FoundIsPlain' /\ KnownIsRecorded'
    BY <1>2, <1>3 DEF Copies, MovedIsThere, FoundIsPlain, KnownIsRecorded, Extracted, Recorded, Aside
  <2>2. \A f \in File : Smooth(f)' => CopyKept(f)'
    BY <1>2, <1>3 DEF Copies, CopyKept, Recorded, Plain, Moving
  <2> QED
    BY <1>3, <2>1, <2>2 DEF Copies
<1>4. CASE ListWaiting(s)
  <2> DEFINE x == [at |-> "next", todo |-> waiting \cap At(s), file |-> None]
  <2>1. /\ extract' = [extract EXCEPT ![s] = x] /\ extract[s].at = "idle"
        /\ UNCHANGED <<waiting, extracted, s3, record, failures>>
    BY <1>4 DEF ListWaiting
  <2>2. ASSUME NEW f \in File, Smooth(f)' PROVE Smooth(f) /\ OnItsWay(f)'
    <3>1. Smooth(f) /\ OnItsWay(f)
      BY <1>2, <2>1, <2>2 DEF Smooth, Copies
    <3>2. f \in x.todo => f \in waiting /\ s = ServerOf[f]
      BY DEF At
    <3>3. extract'[s] = x /\ \A r \in Server \ {s} : extract'[r] = extract[r]
      BY <1>1, <2>1
    <3>4. x.at = "next"
      OBVIOUS
    <3> HIDE DEF x
    <3>5. \A r \in Server :
            /\ f \in extract'[r].todo \/ InHand(r, f)' => r = ServerOf[f] /\ f \in waiting
            /\ InHand(r, f)' => f \notin extract'[r].todo
            /\ extract'[r].at = "uploaded" /\ extract'[r].file = f => Plain(f) \in s3
      BY <3>1, <3>2, <3>3, <3>4 DEF OnItsWay, InHand
    <3>6. f \in waiting /\ Recorded(f) => ServerOf[f] # s
      BY <2>1, <3>1 DEF OnItsWay
    <3>7. ServerOf[f] \in Server
      BY ServerAssumption
    <3> QED
      BY <1>2, <2>1, <3>1, <3>3, <3>5, <3>6, <3>7 DEF OnItsWay, Recorded, Plain, InHand
  <2> QED
    BY <1>3, <2>1, <2>2
<1>5. CASE UploadFile(s)
  <2> DEFINE g == First(extract[s].todo)
             x == [at |-> "uploaded", todo |-> extract[s].todo \ {g}, file |-> g]
  <2>1. g \in extract[s].todo
    BY <1>1, <1>5, FirstIsMember DEF UploadFile, Busy
  <2>2. /\ extract' = [extract EXCEPT ![s] = x] /\ extract[s].at = "next"
        /\ s3' = s3 \cup {Plain(g)}
        /\ UNCHANGED <<waiting, extracted, record, failures>>
    BY <1>5 DEF UploadFile, Plain
  <2>3. x.at = "uploaded" /\ x.file = g /\ x.todo = extract[s].todo \ {g}
    OBVIOUS
  <2> HIDE DEF g, x
  <2>4. ASSUME NEW f \in File, Smooth(f)' PROVE Smooth(f) /\ OnItsWay(f)'
    <3>1. Smooth(f) /\ OnItsWay(f)
      BY <1>2, <2>2, <2>4 DEF Smooth, Copies
    <3>2. extract'[s] = x /\ \A r \in Server \ {s} : extract'[r] = extract[r]
      BY <1>1, <2>2
    <3>3. \A r \in Server :
            /\ f \in extract'[r].todo \/ InHand(r, f)' => r = ServerOf[f] /\ f \in waiting
            /\ InHand(r, f)' => f \notin extract'[r].todo
            /\ extract'[r].at = "uploaded" /\ extract'[r].file = f => Plain(f) \in s3'
      BY <2>1, <2>2, <2>3, <3>1, <3>2 DEF OnItsWay, InHand
    <3>4. f \in waiting /\ Recorded(f) => ServerOf[f] # s
      BY <2>2, <3>1 DEF OnItsWay
    <3>5. ServerOf[f] \in Server
      BY ServerAssumption
    <3> QED
      BY <1>2, <2>2, <3>1, <3>2, <3>3, <3>4, <3>5 DEF OnItsWay, Recorded, Plain, InHand
  <2> QED
    BY <1>3, <2>2, <2>4
<1>6. CASE SaveFileRecord(s)
  <2> DEFINE x == [extract[s] EXCEPT !.at = "saved"]
  <2>1. PICK g \in File : g = extract[s].file
    BY <1>1, <1>6 DEF SaveFileRecord, Busy
  <2>2. /\ extract' = [extract EXCEPT ![s] = x] /\ extract[s].at = "uploaded"
        /\ record' = [record EXCEPT ![g] = [event |-> "EXTRACTED", ignored |-> FALSE]]
        /\ UNCHANGED <<waiting, extracted, s3, failures>>
    BY <1>1, <1>6, <2>1 DEF SaveFileRecord
  <2>3. x.at = "saved" /\ x.file = g /\ x.todo = extract[s].todo
    BY <1>1, <2>1
  <2> HIDE DEF x
  <2>4. /\ extract'[s] = x /\ \A r \in Server \ {s} : extract'[r] = extract[r]
        /\ record'[g].event = "EXTRACTED" /\ ~record'[g].ignored
        /\ \A f \in File \ {g} : record'[f] = record[f]
    BY <1>1, <2>2
  <2>5. MovedIsThere' /\ FoundIsPlain'
    BY <1>2, <2>2, <2>4 DEF Copies, MovedIsThere, FoundIsPlain, Extracted, Aside
  <2>6. KnownIsRecorded'
    <3>1. \A f \in File : Recorded(f) => record'[f].event # "none"
      BY <2>4 DEF Recorded
    <3>2. \A p \in Parser : parse[p].at # "idle" => parse[p].file \in File
      BY <1>1 DEF Busy, AtWork
    <3>3. \A r \in Server : \A c \in clear[r].todo : c.file \in File
      BY DEF Typed, TypeOK, Copy
    <3> QED
      BY <1>2, <3>1, <3>2, <3>3 DEF Copies, KnownIsRecorded, Recorded
  <2>7. ASSUME NEW f \in File, Smooth(f)' PROVE OnItsWay(f)' /\ CopyKept(f)'
    <3>1. Smooth(f) /\ OnItsWay(f) /\ CopyKept(f)
      BY <1>2, <2>2, <2>7 DEF Smooth, Copies
    <3>2. InHand(s, g)
      BY <2>1, <2>2 DEF InHand
    <3>3. \A r \in Server :
            /\ f \in extract'[r].todo \/ InHand(r, f)' => r = ServerOf[f] /\ f \in waiting
            /\ InHand(r, f)' => f \notin extract'[r].todo
            /\ extract'[r].at = "uploaded" /\ extract'[r].file = f => Plain(f) \in s3
      BY <2>1, <2>2, <2>3, <2>4, <3>1, <3>2 DEF OnItsWay, InHand
    <3>4. ServerOf[f] \in Server
      BY ServerAssumption
    <3>5. CASE f = g
      <4>1. f \in waiting /\ s = ServerOf[f] /\ Plain(f) \in s3
        BY <2>1, <2>2, <3>1, <3>2, <3>5 DEF OnItsWay
      <4>2. deliveries[f] # 0
        BY <3>1, <4>1 DEF OnItsWay
      <4> QED
        BY <1>2, <2>2, <2>3, <2>4, <3>1, <3>3, <3>5, <4>1, <4>2
           DEF OnItsWay, CopyKept, Recorded, Plain, InHand
    <3>6. CASE f # g
      <4>1. Recorded(f)' <=> Recorded(f)
        BY <2>4, <3>6 DEF Recorded
      <4>2. f \in waiting /\ Recorded(f) => ServerOf[f] # s
        BY <2>2, <3>1 DEF OnItsWay
      <4>3. CopyKept(f)'
        BY <1>2, <2>2, <2>4, <3>1, <3>6 DEF CopyKept, Recorded, Plain, Moving
      <4> QED
        BY <1>2, <2>2, <2>4, <3>1, <3>3, <3>4, <4>1, <4>2, <4>3 DEF OnItsWay, Plain, InHand
    <3> QED
      BY <3>5, <3>6
  <2> QED
    BY <2>5, <2>6, <2>7 DEF Copies
<1>7. CASE RenameFile(s)
  <2>1. PICK g \in File : g = extract[s].file
    BY <1>1, <1>7 DEF RenameFile, Busy
  <2>2. /\ extract[s].at = "saved" /\ UNCHANGED <<s3, record, failures>>
        /\ \/ /\ waiting' = waiting \ {g} /\ extracted' = extracted \cup {g}
              /\ NextFile(s, extract[s].todo)
           \/ NextFile(s, {}) /\ UNCHANGED <<waiting, extracted>> /\ g \in extracted
    BY <1>7, <2>1 DEF RenameFile
  <2>3. PICK x : /\ extract' = [extract EXCEPT ![s] = x]
                 /\ x.at \in {"idle", "next"} /\ x.todo \subseteq extract[s].todo
    BY <2>2 DEF NextFile, IdleExtract
  <2>4. extract'[s] = x /\ \A r \in Server \ {s} : extract'[r] = extract[r]
    BY <1>1, <2>3
  <2>5. ASSUME NEW f \in File, Smooth(f)' PROVE Smooth(f) /\ OnItsWay(f)'
    <3>1. Smooth(f) /\ OnItsWay(f)
      BY <1>2, <2>2, <2>5 DEF Smooth, Copies
    <3>2. InHand(s, g)
      BY <2>1, <2>2 DEF InHand
    <3>3. ServerOf[f] \in Server
      BY ServerAssumption
    <3>4. CASE f = g
      <4>1. f \in waiting /\ s = ServerOf[f] /\ f \notin extracted /\ f \notin extract[s].todo
        BY <3>1, <3>2, <3>4 DEF OnItsWay
      <4>2. f \notin waiting' /\ deliveries[f] # 0
        BY <2>2, <3>1, <3>4, <4>1 DEF OnItsWay
      <4>3. \A r \in Server : f \notin extract'[r].todo /\ ~InHand(r, f)'
        BY <2>3, <2>4, <3>1, <4>1 DEF OnItsWay, InHand
      <4> QED
        BY <1>2, <3>1, <4>2, <4>3 DEF OnItsWay, InHand
    <3>5. CASE f # g
      <4>1. (f \in waiting' <=> f \in waiting) /\ (f \in extracted' <=> f \in extracted)
        BY <2>2, <3>5
      <4>2. \A r \in Server :
              /\ f \in extract'[r].todo \/ InHand(r, f)' => r = ServerOf[f] /\ f \in waiting
              /\ InHand(r, f)' => f \notin extract'[r].todo
              /\ extract'[r].at = "uploaded" /\ extract'[r].file = f => Plain(f) \in s3
        BY <2>3, <2>4, <3>1 DEF OnItsWay, InHand
      <4>3. f \in waiting /\ Recorded(f) => ServerOf[f] # s
        BY <2>1, <3>1, <3>5 DEF OnItsWay
      <4> QED
        BY <1>2, <2>2, <2>4, <3>1, <3>3, <4>1, <4>2, <4>3 DEF OnItsWay, Recorded, Plain, InHand
    <3> QED
      BY <3>4, <3>5
  <2> QED
    BY <1>3, <2>2, <2>5
<1>8. CASE FailExtract(s)
  <2>1. failures' # 0 /\ s3' = s3 /\ record' = record
    BY <1>1, <1>8 DEF FailExtract, Fail
  <2> QED
    BY <1>3, <2>1 DEF Smooth
<1> QED
  BY <1>4, <1>5, <1>6, <1>7, <1>8 DEF Extract

LEMMA ClearCopies ==
  ASSUME Typed, Copies, NEW s \in Server, Clear(s) \/ \E c \in clear[s].todo : FailClear(s, c)
  PROVE  Copies'
<1> USE DEF ftpVars, trackingVars
<1>1. /\ record \in [File -> Record] /\ clear \in [Server -> ClearState] /\ failures \in Nat
  BY DEF Typed, TypeOK, ClearState
<1>2. UNCHANGED <<waiting, deliveries, s3, extract, parse>> /\ (failures' = 0 => failures = 0)
  <2>1. CASE Clear(s)
    BY <2>1 DEF Clear, ListParsed, PassOver, DeleteFile, ArchiveRecord
  <2>2. ASSUME NEW c \in clear[s].todo, FailClear(s, c)
        PROVE  UNCHANGED <<waiting, deliveries, s3, extract, parse>> /\ failures' # 0
    BY <1>1, <2>2 DEF FailClear, Fail
  <2> QED
    BY <2>1, <2>2
<1>3. extracted' \subseteq extracted
  BY DEF Clear, ListParsed, PassOver, DeleteFile, ArchiveRecord, FailClear
<1>4. ASSUME \A f \in File : /\ Recorded(f) <=> Recorded(f)'
                             /\ record'[f].ignored = record[f].ignored
                             /\ record'[f].event = "EXTRACTED" => record[f].event = "EXTRACTED",
             \A r \in Server : \A c \in clear'[r].todo : Recorded(c.file)
      PROVE  Copies'
  <2>1. MovedIsThere' /\ FoundIsPlain'
    BY <1>2, <1>4 DEF Copies, MovedIsThere, FoundIsPlain, Extracted, Aside
  <2>2. KnownIsRecorded'
    <3>1. \A p \in Parser : parse[p].at # "idle" => parse[p].file \in File
      BY DEF Typed, Busy, AtWork
    <3>2. \A r \in Server : \A c \in clear'[r].todo : c.file \in File
      <4>1. Typed'
        BY ClearTyped
      <4> QED
        BY <4>1 DEF Typed, TypeOK, Copy
    <3>3. \A f \in File : Recorded(f) => record'[f].event # "none"
      BY <1>4 DEF Recorded
    <3> QED
      BY <1>2, <1>4, <3>1, <3>2, <3>3 DEF Copies, KnownIsRecorded, Recorded
  <2>3. ASSUME NEW f \in File, Smooth(f)' PROVE OnItsWay(f)' /\ CopyKept(f)'
    <3>1. OnItsWay(f) /\ CopyKept(f)
      BY <1>2, <2>3 DEF Smooth, Copies
    <3>2. /\ Recorded(f) <=> Recorded(f)'
          /\ record'[f].ignored = record[f].ignored
      BY <1>4
    <3>3. OnItsWay(f)'
      BY <1>2, <1>3, <3>1, <3>2 DEF OnItsWay, InHand, Plain
    <3>4. CopyKept(f)'
      BY <1>2, <3>1, <3>2 DEF CopyKept, Plain, Moving
    <3> QED
      BY <3>3, <3>4
  <2> QED
    BY <2>1, <2>2, <2>3 DEF Copies
<1>5. CASE ListParsed(s)
  <2>1. record' = record
    BY <1>5 DEF ListParsed
  <2>2. ASSUME NEW r \in Server, NEW c \in clear'[r].todo PROVE Recorded(c.file)
    <3>1. CASE r # s
      BY <1>1, <1>5, <2>2, <3>1 DEF ListParsed, Copies, KnownIsRecorded
    <3>2. CASE r = s
      <4>1. clear'[s].todo = {[file |-> f, ignored |-> record[f].ignored] :
                              f \in {g \in File : record[g].event = "PARSED"}}
        BY <1>1, <1>5 DEF ListParsed
      <4> QED
        BY <2>2, <3>2, <4>1 DEF Recorded
    <3> QED
      BY <3>1, <3>2
  <2> QED
    BY <1>4, <2>1, <2>2 DEF Recorded
<1>6. ASSUME NEW c, Cleared(s, c), NEW r \in Server PROVE clear'[r].todo \subseteq clear[r].todo
  <2> DEFINE rest == [clear[s] EXCEPT !.todo = @ \ {c}, !.deleted = @ \ {c}]
  <2>1. IdleClear.todo = {} /\ rest.todo \subseteq clear[s].todo
    BY <1>1 DEF IdleClear, ClearState
  <2>2. clear' = [clear EXCEPT ![s] = IF rest.todo = {} THEN IdleClear ELSE rest]
    BY <1>6 DEF Cleared
  <2> HIDE DEF rest
  <2> QED
    BY <1>1, <2>1, <2>2
<1>7. ASSUME NEW c \in clear[s].todo, PassOver(s, c) \/ FailClear(s, c) \/ DeleteFile(s, c)
      PROVE  Copies'
  <2>1. record' = record
    BY <1>7 DEF PassOver, FailClear, DeleteFile
  <2>2. \A r \in Server : clear'[r].todo \subseteq clear[r].todo
    <3>1. CASE DeleteFile(s, c)
      BY <1>1, <3>1 DEF DeleteFile, ClearState
    <3> QED
      BY <1>6, <1>7, <3>1 DEF PassOver, FailClear
  <2> QED
    BY <1>4, <2>1, <2>2 DEF Copies, KnownIsRecorded, Recorded
<1>8. ASSUME NEW c \in clear[s].todo, ArchiveRecord(s, c) PROVE Copies'
  <2>1. PICK g \in File : g = c.file /\ Recorded(g)
    BY <1>1 DEF ClearState, Copy, Copies, KnownIsRecorded
  <2>2. /\ record'[g].event = "ARCHIVED" /\ record'[g].ignored = record[g].ignored
        /\ \A f \in File \ {g} : record'[f] = record[f]
    BY <1>1, <1>8, <2>1 DEF ArchiveRecord, Record
  <2>3. \A r \in Server : clear'[r].todo \subseteq clear[r].todo
    BY <1>6, <1>8 DEF ArchiveRecord
  <2>4. \A f \in File : Recorded(f) <=> Recorded(f)'
    BY <2>1, <2>2 DEF Recorded
  <2> QED
    BY <1>4, <2>2, <2>3, <2>4 DEF Copies, KnownIsRecorded
<1> QED
  BY <1>5, <1>7, <1>8 DEF Clear

LEMMA NextCopies == Typed /\ Copies /\ [Next]_vars => Copies'
<1> SUFFICES ASSUME Typed, Copies, [Next]_vars PROVE Copies'
  OBVIOUS
<1> USE DEF ftpVars, trackingVars
<1>1. deliveries \in [File -> Nat] /\ failures \in Nat
  BY DEF Typed, TypeOK
<1>2. ASSUME NEW g \in File, Arrive(g) PROVE Copies'
  <2>1. /\ UNCHANGED <<extracted, s3, record, extract, parse, clear, failures>>
        /\ waiting' = waiting \cup {g} /\ deliveries' = [deliveries EXCEPT ![g] = @ + 1]
    BY <1>2 DEF Arrive
  <2>2. MovedIsThere' /\ FoundIsPlain' /\ KnownIsRecorded'
    BY <2>1 DEF Copies, MovedIsThere, FoundIsPlain, KnownIsRecorded, Extracted, Recorded, Aside
  <2>3. ASSUME NEW f \in File, Smooth(f)' PROVE OnItsWay(f)' /\ CopyKept(f)'
    <3>1. Smooth(f) /\ (f = g => deliveries[f] = 0 /\ deliveries'[f] = 1)
      BY <1>1, <2>1, <2>3 DEF Smooth
    <3>2. OnItsWay(f) /\ CopyKept(f)
      BY <3>1 DEF Copies
    <3>3. CopyKept(f)'
      BY <2>1, <3>2 DEF CopyKept, Recorded, Plain, Moving
    <3>4. CASE f # g
      <4>1. (f \in waiting' <=> f \in waiting) /\ deliveries'[f] = deliveries[f]
        BY <1>1, <2>1, <3>4
      <4> QED
        BY <2>1, <3>2, <3>3, <4>1 DEF OnItsWay, InHand, Recorded, Plain
    <3>5. CASE f = g
      <4>1. f \notin waiting /\ f \notin extracted /\ ~Recorded(f) /\ deliveries'[f] = 1
        BY <3>1, <3>2, <3>5 DEF OnItsWay
      <4> QED
        BY <2>1, <3>2, <3>3, <4>1 DEF OnItsWay, InHand, Recorded, Plain
    <3> QED
      BY <3>4, <3>5
  <2> QED
    BY <2>2, <2>3 DEF Copies
<1>3. CASE Configure
  BY <1>3, CopiesStay DEF Configure
<1>4. CASE Restart
  <2>1. /\ failures' # 0 /\ s3' = s3 /\ record' = record
        /\ parse' = [p \in Parser |-> IdleParse] /\ clear' = [s \in Server |-> IdleClear]
    BY <1>1, <1>4 DEF Restart, Fail
  <2> QED
    BY <2>1 DEF Copies, MovedIsThere, FoundIsPlain, KnownIsRecorded, Extracted, Recorded, Aside,
                Smooth, IdleParse, IdleClear
<1>5. CASE UNCHANGED vars
  BY <1>5, CopiesStay DEF vars
<1> QED
  BY <1>2, <1>3, <1>4, <1>5, ParseCopies, ExtractCopies, ClearCopies DEF Next

\* The variables keep their types: a record has one of its five events, and an execution of
\* a job is at one of the steps of extract-file-job, parse-file-record-job or clear-file-job.
THEOREM TypesHold == Spec => []TypeOK
<1>1. IInv => TypeOK
  BY DEF IInv, Typed
<1> QED
  BY <1>1, InitIInv, NextIInv, PTL DEF Spec

\* A file that is marked as parsed, archived or deleted from its server has all of its
\* trackings stored, for any number of files, servers, chunks, executions and failures.
THEOREM GoneIsAlwaysStored == Spec => []GoneIsStored
<1>1. IInv => GoneIsStored
  BY DEF IInv
<1> QED
  BY <1>1, InitIInv, NextIInv, PTL DEF Spec

\* A file that was moved out of the directory in which it waited has a record: the extract
\* job saves it before the file moves, and no job removes it.
THEOREM TakenIsAlwaysRecorded == Spec => []TakenIsRecorded
<1>1. IInv => TakenIsRecorded
  BY DEF IInv
<1> QED
  BY <1>1, InitIInv, NextIInv, PTL DEF Spec

\* As long as nothing fails, and a file has come once, the copy that its record names is in
\* S3, for any number of executions that parse it, move it to ignore/, or clear it.
THEOREM CopyIsAlwaysThere == Spec => []CopyIsThere
<1>1. Typed /\ Copies => CopyIsThere
  <2> SUFFICES ASSUME Typed, Copies, NEW f \in File, Recorded(f), ~Moving(f), Smooth(f)
               PROVE  CopyOf(f) \in s3
    BY DEF CopyIsThere, Recorded, Smooth
  <2>1. record[f].ignored \in BOOLEAN
    BY DEF Typed, TypeOK, Record
  <2>2. CASE record[f].ignored
    BY <2>1, <2>2 DEF Copies, MovedIsThere, CopyOf, Aside
  <2>3. CASE ~record[f].ignored
    BY <2>1, <2>3 DEF Copies, CopyKept, CopyOf, Plain
  <2> QED
    BY <2>2, <2>3
<1> QED
  BY <1>1, InitTyped, InitCopies, NextTyped, NextCopies, PTL DEF Spec
=============================================================================
