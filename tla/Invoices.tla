------------------------------- MODULE Invoices -------------------------------
(***************************************************************************)
(* Invoices of transporters.  A row of scb_invoice names a file in S3; a   *)
(* copy of the file in a trigger directory starts a parser, which saves a  *)
(* bill, writes the details of the bill to files, and sends a result; the  *)
(* result is verified and the files of details are imported.  An operator  *)
(* may have an invoice parsed again, for which the bills and details of    *)
(* before are deleted, and tells the platform (OMS) when the invoices of a *)
(* month and a type are to be billed.                                      *)
(*                                                                         *)
(* Requests of operators, runs of the parser and results interleave.  The  *)
(* parser is external; its results come through Kafka at least once.  All  *)
(* invoices are of one month, and a run saves one bill.                    *)
(***************************************************************************)
EXTENDS Integers, FiniteSets

CONSTANTS
  Invoice,      \* invoices
  KindOf,       \* the type of each
  Call,         \* executions of requests of operators
  Parts,        \* files of details of a bill
  MaxParses,    \* bound: requests to parse an invoice
  MaxFailures   \* bound: failed calls and restarts

Kind == {"colissimo", "colisprive", "other"}

ASSUME KindAssumption == KindOf \in [Invoice -> Kind]
ASSUME NoneAssumption == "none" \notin Invoice
ASSUME BoundAssumption == Parts \in Nat \ {0} /\ MaxParses \in Nat /\ MaxFailures \in Nat

VARIABLES
  status,       \* scb_invoice: status
  pushed,       \* scb_invoice: isPushed
  call,         \* requests under way
  run,          \* runs of the parser, and what becomes of their results
  bills,        \* scb_bill: the runs that saved them
  details,      \* scb_bill_detail_hot: how often each file was imported
  overlapped,   \* history: invoices parsed anew while a parse or a request was under way
  redelivered,  \* history: runs whose result was delivered more than once
  broken,       \* history: invoices that are left parsing
  doubled,      \* history: types for which two notifications were under way at once
  parses,
  failures

invoiceVars == <<status, pushed>>
history == <<overlapped, redelivered, broken, doubled>>
vars == <<invoiceVars, call, run, bills, details, history, parses, failures>>

Run == 1 .. MaxParses
None == "none"
Status == {"absent", "surcharge_confirming", "fuel_rate_confirming", "parsing", "success", "failed"}
Reparsing == {"find", "details", "bills", "retrigger", "failing"}
Parsing == {"trigger", "save", "update", "set"} \cup Reparsing
Notifying == {"tell", "push"}
Idle == [at |-> "idle", invoice |-> None, status |-> "absent", bills |-> {}, run |-> 0]
NoRun == [at |-> "none", invoice |-> None, valid |-> TRUE, part |-> 1]

TypeOK ==
  /\ status \in [Invoice -> Status] /\ pushed \in [Invoice -> BOOLEAN]
  /\ call \in [Call -> [at : {"idle"} \cup Parsing \cup Notifying, invoice : Invoice \cup {None},
                        status : Status, bills : SUBSET Run, run : Run \cup {0}]]
  /\ run \in [Run -> [at : {"none", "triggered", "saved", "sent", "import", "mark", "failing", "ended"},
                      invoice : Invoice \cup {None}, valid : BOOLEAN, part : 1 .. Parts]]
  /\ bills \subseteq Run
  /\ details \in [Run \X (1 .. Parts) -> Nat]
  /\ overlapped \subseteq Invoice /\ broken \subseteq Invoice
  /\ redelivered \subseteq Run /\ doubled \subseteq Kind
  /\ parses \in 0 .. MaxParses /\ failures \in Nat

Init ==
  /\ status = [i \in Invoice |-> "absent"] /\ pushed = [i \in Invoice |-> FALSE]
  /\ call = [c \in Call |-> Idle]
  /\ run = [r \in Run |-> NoRun]
  /\ bills = {}
  /\ details = [x \in Run \X (1 .. Parts) |-> 0]
  /\ overlapped = {} /\ redelivered = {} /\ broken = {} /\ doubled = {}
  /\ parses = 0 /\ failures = 0

-----------------------------------------------------------------------------
Fail == failures < MaxFailures /\ failures' = failures + 1

Under(r) == run[r].at \notin {"none", "ended"}
RunsOf(i) == {r \in Run : run[r].invoice = i}
BillsOf(i) == bills \cap RunsOf(i)
Busy(i) ==
  \/ \E r \in RunsOf(i) : Under(r)
  \/ \E c \in Call : call[c].invoice = i /\ call[c].at \in Parsing

Request(c, i, at, st) ==
  /\ call[c].at = "idle"
  /\ call' = [call EXCEPT ![c] = [Idle EXCEPT !.at = at, !.invoice = i, !.status = st]]

CountParse == parses < MaxParses /\ parses' = parses + 1

Goto(c, from, to) ==
  /\ call[c].at = from
  /\ call' = [call EXCEPT ![c] = IF to = "idle" THEN Idle ELSE [@ EXCEPT !.at = to]]

\* The job finds an invoice of Colissimo, whose surcharges are to be confirmed first.
UploadColissimo(i) ==
  /\ KindOf[i] = "colissimo" /\ status[i] = "absent"
  /\ status' = [status EXCEPT ![i] = "surcharge_confirming"]
  /\ UNCHANGED <<pushed, call, run, bills, details, history, parses, failures>>

\* An invoice of COLISPRIVE is parsed only if the fuel rate of the month is there.
WhetherParsing(i) ==
  {"parsing"} \cup IF KindOf[i] = "colisprive" THEN {"fuel_rate_confirming"} ELSE {}

\* An invoice of another type is parsed at once, before it has a row.  (The same file once
\* more would be another invoice.)
ParseInvoice(c, i) ==
  /\ KindOf[i] # "colissimo" /\ status[i] = "absent" /\ ~Busy(i)
  /\ CountParse
  /\ \E st \in WhetherParsing(i) : Request(c, i, IF st = "parsing" THEN "trigger" ELSE "save", st)
  /\ UNCHANGED <<invoiceVars, run, bills, details, history, failures>>

Overlap(i) == overlapped' = IF Busy(i) THEN overlapped \cup {i} ELSE overlapped

\* The operator has confirmed the surcharges, maybe twice.
StartParse(c, i) ==
  /\ KindOf[i] = "colissimo" /\ status[i] = "surcharge_confirming"
  /\ CountParse /\ Request(c, i, "trigger", "parsing")
  /\ Overlap(i)
  /\ UNCHANGED <<invoiceVars, run, bills, details, redelivered, broken, doubled, failures>>

\* The operator wants an invoice parsed again; nothing is asked about its status.
ReResolve(c, i) ==
  /\ status[i] \notin {"absent", "surcharge_confirming"}
  /\ CountParse /\ \E st \in WhetherParsing(i) : Request(c, i, "set", st)
  /\ Overlap(i)
  /\ UNCHANGED <<invoiceVars, run, bills, details, redelivered, broken, doubled, failures>>

\* moveTriggerInvoice: the copy in S3 starts the parser.  (There are as many runs as there may be
\* requests to parse, so that one is always free.)
Free == {r \in Run : run[r].at = "none"}
NewRun == CHOOSE r \in Free : TRUE
Trigger(c) ==
  LET i == call[c].invoice
  IN /\ call[c].at \in {"trigger", "retrigger"}
     /\ Free # {}
     /\ run' = [run EXCEPT ![NewRun] = [NoRun EXCEPT !.at = "triggered", !.invoice = i]]
     /\ call' = [call EXCEPT ![c] =
          IF @.at = "retrigger" THEN Idle
          ELSE [@ EXCEPT !.at = IF KindOf[i] = "colissimo" THEN "update" ELSE "save", !.run = NewRun]]
     /\ UNCHANGED <<invoiceVars, bills, details, history, parses, failures>>

\* The parse may have ended before the status says that it has begun.
Overtaken(c) == call[c].run # 0 /\ ~Under(call[c].run)

\* The status is written last: by the insert of the row, or by the update of it.
WriteStatus(c) ==
  LET i == call[c].invoice
  IN /\ call[c].at \in {"save", "update"}
     /\ status' = [status EXCEPT ![i] = call[c].status]
     /\ broken' = IF Overtaken(c) THEN broken \cup {i} ELSE broken
     /\ Goto(c, call[c].at, "idle")
     /\ UNCHANGED <<pushed, run, bills, details, overlapped, redelivered, doubled, parses, failures>>

\* An invoice that is parsed again has its status first; nobody waits for what follows.
SetStatus(c) ==
  LET i == call[c].invoice
  IN /\ Goto(c, "set", IF call[c].status = "parsing" THEN "find" ELSE "idle")
     /\ status' = [status EXCEPT ![i] = call[c].status]
     /\ broken' = broken \ {i}
     /\ UNCHANGED <<pushed, run, bills, details, overlapped, redelivered, doubled, parses, failures>>

FindBills(c) ==
  /\ call[c].at = "find"
  /\ call' = [call EXCEPT ![c].at = "details", ![c].bills = BillsOf(call[c].invoice)]
  /\ UNCHANGED <<invoiceVars, run, bills, details, history, parses, failures>>

DeleteDetails(c) ==
  /\ call[c].at = "details"
  /\ call' = [call EXCEPT ![c].at = "bills", ![c].bills = {}]
  /\ details' = [x \in DOMAIN details |-> IF x[1] \in call[c].bills THEN 0 ELSE details[x]]
  /\ UNCHANGED <<invoiceVars, run, bills, history, parses, failures>>

\* All bills of the invoice, whichever were found.
DeleteBills(c) ==
  /\ Goto(c, "bills", "retrigger")
  /\ bills' = bills \ RunsOf(call[c].invoice)
  /\ UNCHANGED <<invoiceVars, run, details, history, parses, failures>>

\* Wrong: the error is reported only.
FailCallSilently(c) ==
  /\ Fail
  /\ call[c].at # "idle"
  /\ Goto(c, call[c].at, "idle")
  /\ broken' = IF call[c].at = "failing" THEN broken \cup {call[c].invoice} ELSE broken
  /\ UNCHANGED <<invoiceVars, run, bills, details, overlapped, redelivered, doubled, parses>>

\* A query or S3 fails.  Of the second parse, the error is caught and shown in the status.
FailCall(c) ==
  /\ Fail
  /\ call[c].at # "idle"
  /\ Goto(c, call[c].at, IF call[c].at \in Reparsing \ {"failing"} THEN "failing" ELSE "idle")
  /\ broken' = IF call[c].at = "failing" THEN broken \cup {call[c].invoice} ELSE broken
  /\ UNCHANGED <<invoiceVars, run, bills, details, overlapped, redelivered, doubled, parses>>

ShowFailure(c) ==
  /\ Goto(c, "failing", "idle")
  /\ status' = [status EXCEPT ![call[c].invoice] = "failed"]
  /\ UNCHANGED <<pushed, run, bills, details, history, parses, failures>>

\* The process that serves requests stops.
StopCalls ==
  /\ Fail
  /\ call' = [c \in Call |-> Idle]
  /\ broken' = broken \cup {call[c].invoice : c \in {d \in Call : call[d].at \in Reparsing}}
  /\ UNCHANGED <<invoiceVars, run, bills, details, overlapped, redelivered, doubled, parses>>

-----------------------------------------------------------------------------
SameKind(i) == {j \in Invoice : KindOf[j] = KindOf[i]}

\* Wrong: the other invoices of the type do not count.
NotifyUnlessItselfPushed(c, i) ==
  /\ status[i] = "success"
  /\ ~pushed[i]
  /\ Request(c, i, "tell", "absent")
  /\ doubled' = IF \E d \in Call : call[d].at \in Notifying /\ KindOf[call[d].invoice] = KindOf[i]
                THEN doubled \cup {KindOf[i]} ELSE doubled
  /\ UNCHANGED <<invoiceVars, run, bills, details, overlapped, redelivered, broken, parses, failures>>

\* An operator finds an invoice that is parsed, and wants those of its type to be billed;
\* it is refused once one of them is pushed.
Notify(c, i) ==
  /\ status[i] = "success"
  /\ \A j \in SameKind(i) : ~pushed[j]
  /\ Request(c, i, "tell", "absent")
  /\ doubled' = IF \E d \in Call : call[d].at \in Notifying /\ KindOf[call[d].invoice] = KindOf[i]
                THEN doubled \cup {KindOf[i]} ELSE doubled
  /\ UNCHANGED <<invoiceVars, run, bills, details, overlapped, redelivered, broken, parses, failures>>

TellOms(c) ==
  /\ Goto(c, "tell", "push")
  /\ UNCHANGED <<invoiceVars, run, bills, details, history, parses, failures>>

PushInvoices(c) ==
  /\ Goto(c, "push", "idle")
  /\ pushed' = [j \in Invoice |->
       pushed[j] \/ (j \in SameKind(call[c].invoice) /\ status[j] = "success")]
  /\ UNCHANGED <<status, run, bills, details, history, parses, failures>>

-----------------------------------------------------------------------------
RunGoto(r, from, to) ==
  /\ run[r].at = from
  /\ run' = [run EXCEPT ![r] = IF to = "ended" THEN [NoRun EXCEPT !.at = to, !.invoice = run[r].invoice]
                               ELSE [@ EXCEPT !.at = to]]

\* External: the parser saves a bill of the invoice, for which the invoice must be there.
SaveBill(r) ==
  /\ RunGoto(r, "triggered", "saved")
  /\ status[run[r].invoice] # "absent"
  /\ bills' = bills \cup {r}
  /\ UNCHANGED <<invoiceVars, call, details, history, parses, failures>>

\* External: the parser sends what it has found, which may or may not add up.
SendResult(r, valid) ==
  /\ run[r].at = "saved"
  /\ run' = [run EXCEPT ![r].at = "sent", ![r].valid = valid]
  /\ UNCHANGED <<invoiceVars, call, bills, details, history, parses, failures>>

\* updateInvoiceStatus: the parser cannot read the file and says so.
ReportFailure(r) ==
  /\ run[r].at \in {"triggered", "saved"}
  /\ RunGoto(r, run[r].at, "ended")
  /\ status' = [status EXCEPT ![run[r].invoice] = IF @ = "absent" THEN @ ELSE "failed"]
  /\ UNCHANGED <<pushed, call, bills, details, history, parses, failures>>

EndRun(r, from, st) ==
  /\ RunGoto(r, from, "ended")
  /\ status' = [status EXCEPT ![run[r].invoice] = st]

\* The result is verified; of one that does not add up, nothing is imported.
Verify(r) ==
  /\ IF run[r].valid
     THEN run[r].at = "sent" /\ run' = [run EXCEPT ![r].at = "import", ![r].part = 1] /\ UNCHANGED status
     ELSE EndRun(r, "sent", "failed")
  /\ UNCHANGED <<pushed, call, bills, details, history, parses, failures>>

\* Wrong: the last file is left out.
ImportDetailsButLast(r) ==
  LET k == run[r].part
  IN /\ run[r].at = "import"
     /\ details' = IF k < Parts THEN [details EXCEPT ![<<r, k>>] = @ + 1] ELSE details
     /\ run' = [run EXCEPT ![r] = IF k = Parts THEN [@ EXCEPT !.at = "mark"] ELSE [@ EXCEPT !.part = k + 1]]
     /\ UNCHANGED <<invoiceVars, call, bills, history, parses, failures>>

\* The next file is copied into the table, whether or not it has been before.
ImportDetails(r) ==
  LET k == run[r].part
  IN /\ run[r].at = "import"
     /\ details' = [details EXCEPT ![<<r, k>>] = @ + 1]
     /\ run' = [run EXCEPT ![r] = IF k = Parts THEN [@ EXCEPT !.at = "mark"] ELSE [@ EXCEPT !.part = k + 1]]
     /\ UNCHANGED <<invoiceVars, call, bills, history, parses, failures>>

MarkSuccess(r) ==
  /\ EndRun(r, "mark", "success")
  /\ UNCHANGED <<pushed, call, bills, details, history, parses, failures>>

MarkFailed(r) ==
  /\ EndRun(r, "failing", "failed")
  /\ UNCHANGED <<pushed, call, bills, details, history, parses, failures>>

\* An error is caught and shown in the status; when that fails too, Kafka delivers again.
FailResult(r) ==
  /\ Fail
  /\ run[r].at \in {"sent", "import", "mark", "failing"}
  /\ RunGoto(r, run[r].at, IF run[r].at = "failing" THEN "sent" ELSE "failing")
  /\ redelivered' = IF run[r].at = "failing" THEN redelivered \cup {r} ELSE redelivered
  /\ UNCHANGED <<invoiceVars, call, bills, details, overlapped, broken, doubled, parses>>

\* The process that listens to Kafka stops, and is given the results again.
StopListener ==
  LET R == {r \in Run : run[r].at \in {"import", "mark", "failing"}}
  IN /\ Fail
     /\ run' = [r \in Run |-> IF r \in R THEN [run[r] EXCEPT !.at = "sent"] ELSE run[r]]
     /\ redelivered' = redelivered \cup R
     /\ UNCHANGED <<invoiceVars, call, bills, details, overlapped, broken, doubled, parses>>

-----------------------------------------------------------------------------
Proceed(c) ==
  \/ Trigger(c) \/ WriteStatus(c) \/ SetStatus(c) \/ FindBills(c) \/ DeleteDetails(c)
  \/ DeleteBills(c) \/ ShowFailure(c) \/ TellOms(c) \/ PushInvoices(c)
Parse(r) == SaveBill(r) \/ ReportFailure(r) \/ \E valid \in BOOLEAN : SendResult(r, valid)
HandleResult(r) == Verify(r) \/ ImportDetails(r) \/ MarkSuccess(r) \/ MarkFailed(r)

Next ==
  \/ \E i \in Invoice : UploadColissimo(i)
  \/ \E c \in Call, i \in Invoice : ParseInvoice(c, i) \/ StartParse(c, i) \/ ReResolve(c, i) \/ Notify(c, i)
  \/ \E c \in Call : Proceed(c) \/ FailCall(c)
  \/ \E r \in Run : Parse(r) \/ HandleResult(r) \/ FailResult(r)
  \/ StopCalls \/ StopListener

Spec == Init /\ [][Next]_vars

\* A request that was begun goes on, the parser ends what it was triggered for, and Kafka
\* delivers its results.
FairSpec ==
  /\ Spec
  /\ \A c \in Call : WF_vars(Proceed(c))
  /\ \A r \in Run : WF_vars(Parse(r)) /\ WF_vars(HandleResult(r))

-----------------------------------------------------------------------------
\* An invoice that is a success has the one bill of its last parse, with all of its details,
\* and no details of a bill of before, though parses before it may have broken off half way;
\* unless it was to be parsed anew while a parse was under way.  Details are there once,
\* unless the result was delivered twice.
SuccessIsComplete ==
  \A i \in Invoice \ overlapped : status[i] = "success" =>
    \E r \in RunsOf(i) :
      /\ BillsOf(i) = {r}
      /\ \A k \in 1 .. Parts :
           /\ details[<<r, k>>] > 0
           /\ r \notin redelivered => details[<<r, k>>] = 1
           /\ \A q \in RunsOf(i) \ {r} : details[<<q, k>>] = 0

\* An invoice does not stay in parsing, whatever fails, unless the second parse was stopped
\* in the middle or the parse ended before the status was written.
ParsingEnds == \A i \in Invoice : status[i] = "parsing" ~> status[i] # "parsing" \/ i \in broken

\* The platform is not told again once invoices of the month and type are pushed, though
\* these may be parsed again, fail or succeed meanwhile; unless two operators tell it at once.
ToldOnce ==
  [][\A c \in Call : TellOms(c) =>
       \A j \in SameKind(call[c].invoice) : pushed[j] => KindOf[j] \in doubled]_vars
=============================================================================
