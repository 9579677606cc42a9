---------------------------- MODULE InvoicesProofs ----------------------------
(***************************************************************************)
(* An invoice that is a success has the bill and the details of its last   *)
(* parse and of no other, wherever the parses before it broke off, and the *)
(* platform is not told twice.                                             *)
(*                                                                         *)
(* What makes the first so is that, unless an invoice is to be parsed anew *)
(* while a parse is under way, one thing at a time happens to it: at each  *)
(* point of a request and of a run it is known which bills there are, and  *)
(* no detail is left without its bill until the details are deleted.       *)
(***************************************************************************)
EXTENDS Invoices, TLAPS

CallState ==
  [at : {"idle"} \cup Parsing \cup Notifying, invoice : Invoice \cup {None},
   status : Status, bills : SUBSET Run, run : Run \cup {0}]
RunState ==
  [at : {"none", "triggered", "saved", "sent", "import", "mark", "failing", "ended"},
   invoice : Invoice \cup {None}, valid : BOOLEAN, part : 1 .. Parts]
Part == 1 .. Parts
Parses(c, i) == call[c].invoice = i /\ call[c].at \in Parsing

Complete(i) ==
  \E r \in RunsOf(i) :
    /\ BillsOf(i) = {r}
    /\ \A k \in Part :
         /\ details[<<r, k>>] > 0
         /\ r \notin redelivered => details[<<r, k>>] = 1
         /\ \A q \in RunsOf(i) \ {r} : details[<<q, k>>] = 0

\* What a request or a run refers to is there, and what was never triggered has left nothing.
Linked ==
  /\ \A c \in Call :
       /\ call[c].at # "idle" => call[c].invoice \in Invoice
       /\ call[c].at \in Parsing => call[c].status \in {"parsing", "fuel_rate_confirming"}
       /\ call[c].at = "idle" => call[c].bills = {}
       /\ call[c].bills \subseteq RunsOf(call[c].invoice)
  /\ \A r \in Run :
       /\ run[r].at # "none" => run[r].invoice \in Invoice
       /\ run[r].at = "none" => run[r].invoice = None /\ r \notin bills /\ \A k \in Part : details[<<r, k>>] = 0

\* One thing at a time happens to the invoice; a run only beside the request that triggered it.
Alone(i) ==
  /\ \A c, d \in Call : Parses(c, i) /\ Parses(d, i) => c = d
  /\ \A r, q \in RunsOf(i) : Under(r) /\ Under(q) => r = q
  /\ \A c \in Call, r \in RunsOf(i) : Parses(c, i) /\ Under(r) => call[c].at \in {"save", "update"}

\* Which bills the invoice has at which point of a parse.
BillsKnown(i) ==
  /\ \A r \in RunsOf(i) : Under(r) => BillsOf(i) = IF run[r].at = "triggered" THEN {} ELSE {r}
  /\ \A c \in Call : Parses(c, i) =>
       /\ call[c].at \in {"trigger", "retrigger"} => BillsOf(i) = {}
       /\ call[c].at = "details" => call[c].bills = BillsOf(i)
  /\ status[i] = "absent" => BillsOf(i) = {}
  /\ status[i] = "surcharge_confirming" /\ (\A r \in RunsOf(i) : ~Under(r)) => BillsOf(i) = {}

\* How far the import of a result has come with a file.
Imported(r, k) ==
  /\ run[r].at = "mark" \/ (run[r].at = "import" /\ k < run[r].part) => details[<<r, k>>] > 0
  /\ r \notin redelivered =>
       /\ run[r].at \in {"saved", "sent"} \/ (run[r].at = "import" /\ k >= run[r].part) => details[<<r, k>>] = 0
       /\ run[r].at = "mark" \/ (run[r].at = "import" /\ k < run[r].part) => details[<<r, k>>] = 1

\* Which details: those of its bills, as far as the import has come.
DetailsKnown(i) ==
  /\ \A q \in RunsOf(i), k \in Part : details[<<q, k>>] # 0 => q \in bills
  /\ \A c \in Call : Parses(c, i) /\ call[c].at = "bills" => \A q \in RunsOf(i), k \in Part : details[<<q, k>>] = 0
  /\ \A r \in RunsOf(i), k \in Part : Imported(r, k)

\* A success is one once nothing more is done to the invoice.
SuccessLasts(i) ==
  status[i] = "success" =>
    /\ \A r \in RunsOf(i) : ~Under(r)
    /\ \A c \in Call : Parses(c, i) => call[c].at \in {"set", "save", "update"}
    /\ Complete(i)

Sound(i) == Alone(i) /\ BillsKnown(i) /\ DetailsKnown(i) /\ SuccessLasts(i)

IInv ==
  /\ TypeOK /\ Linked
  /\ \A i \in Invoice \ overlapped : Sound(i)

-----------------------------------------------------------------------------

LEMMA InitTyped == Init => TypeOK
  BY KindAssumption, BoundAssumption DEF Init, TypeOK, Run, Idle, NoRun, None, Status, Kind

LEMMA NewRunIsFree == ASSUME Free # {} PROVE NewRun \in Run /\ run[NewRun].at = "none"
  BY DEF Free, NewRun

LEMMA StepTyped == TypeOK /\ Linked /\ [Next]_vars => TypeOK'
<1> SUFFICES ASSUME TypeOK, Linked, [Next]_vars PROVE TypeOK'
  OBVIOUS
<1> USE KindAssumption, BoundAssumption
<1>0. /\ call \in [Call -> CallState] /\ run \in [Run -> RunState]
      /\ status \in [Invoice -> Status] /\ details \in [Run \X (1 .. Parts) -> Nat]
      /\ failures \in Nat /\ bills \subseteq Run /\ broken \subseteq Invoice /\ redelivered \subseteq Run
  BY DEF TypeOK, CallState, RunState
<1>c. \A c \in Call : call[c].at # "idle" => call[c].invoice \in Invoice
  BY DEF Linked
<1>i. Idle \in CallState /\ \A x \in CallState, at \in {"idle"} \cup Parsing \cup Notifying : [x EXCEPT !.at = at] \in CallState
  BY DEF Idle, CallState, Status
<1>b. \A x \in CallState, at \in {"idle"} \cup Parsing \cup Notifying, B \in SUBSET Run :
        [x EXCEPT !.at = at, !.bills = B] \in CallState
  BY DEF CallState
<1>p. 1 \in 1 .. Parts
  OBVIOUS
<1>n. NoRun \in RunState
  BY DEF NoRun, RunState
<1>1. CASE \E i \in Invoice : UploadColissimo(i)
  BY <1>1 DEF UploadColissimo, TypeOK, history, Status
<1>2. ASSUME NEW c \in Call, NEW i \in Invoice, ParseInvoice(c, i) \/ StartParse(c, i) \/ ReResolve(c, i) \/ Notify(c, i)
      PROVE  TypeOK'
  <2>1. PICK at \in Parsing \cup Notifying, st \in Status : Request(c, i, at, st)
    BY <1>2 DEF ParseInvoice, StartParse, ReResolve, Notify, WhetherParsing, Parsing, Notifying, Status
  <2>2. call' \in [Call -> CallState]
    BY <2>1, <1>0, <1>i DEF Request, Idle, CallState
  <2>3. parses' \in 0 .. MaxParses
    BY <1>2 DEF ParseInvoice, StartParse, ReResolve, Notify, TypeOK, CountParse
  <2>4. overlapped' \subseteq Invoice
    BY <1>2 DEF ParseInvoice, StartParse, ReResolve, Notify, TypeOK, Overlap, history
  <2>5. doubled' \subseteq Kind
    BY <1>2 DEF ParseInvoice, StartParse, ReResolve, Notify, TypeOK, history
  <2> QED
    BY <1>2, <2>2, <2>3, <2>4, <2>5 DEF ParseInvoice, StartParse, ReResolve, Notify, TypeOK, history, invoiceVars, CallState
<1>3. ASSUME NEW c \in Call, Trigger(c) PROVE TypeOK'
  <2>1. NewRun \in Run /\ call[c] \in CallState /\ call[c].invoice \in Invoice \cup {None}
    BY <1>3, <1>0, NewRunIsFree DEF Trigger, CallState
  <2>2. run' \in [Run -> RunState]
    BY <1>3, <1>0, <2>1, <1>n DEF Trigger, RunState
  <2>3. call' \in [Call -> CallState]
    BY <1>3, <1>0, <2>1, <1>i DEF Trigger, CallState, Parsing
  <2> QED
    BY <1>3, <2>2, <2>3 DEF Trigger, TypeOK, history, invoiceVars, CallState, RunState
<1>4. ASSUME NEW c \in Call, NEW from \in Parsing \cup Notifying, NEW to \in {"idle"} \cup Parsing \cup Notifying, Goto(c, from, to)
      PROVE  call' \in [Call -> CallState]
  BY <1>4, <1>0, <1>i DEF Goto
<1>5. ASSUME NEW c \in Call, WriteStatus(c) \/ SetStatus(c) PROVE TypeOK'
  <2>1. call' \in [Call -> CallState]
    BY <1>5, <1>4 DEF WriteStatus, SetStatus, Parsing, Reparsing
  <2>2. call[c].status \in Status /\ call[c].invoice \in Invoice \cup {None}
    BY <1>0 DEF CallState
  <2>3. status' \in [Invoice -> Status]
    BY <1>5, <1>0, <2>2 DEF WriteStatus, SetStatus
  <2>4. broken' \subseteq Invoice
    BY <1>5, <1>0, <1>c DEF WriteStatus, SetStatus, Goto
  <2> QED
    BY <1>5, <2>1, <2>3, <2>4 DEF WriteStatus, SetStatus, TypeOK, CallState
<1>6. ASSUME NEW c \in Call, FindBills(c) PROVE TypeOK'
  <2>1. BillsOf(call[c].invoice) \subseteq Run
    BY DEF BillsOf, RunsOf
  <2>2. call' \in [Call -> CallState]
    <3>1. call' = [call EXCEPT ![c] = [call[c] EXCEPT !.at = "details", !.bills = BillsOf(call[c].invoice)]]
      BY <1>6, <1>0 DEF FindBills, CallState
    <3> QED
      BY <3>1, <1>0, <1>b, <2>1 DEF Parsing, Reparsing
  <2> QED
    BY <1>6, <2>2 DEF FindBills, TypeOK, CallState, invoiceVars, history
<1>7. ASSUME NEW c \in Call, DeleteDetails(c) PROVE TypeOK'
  <2>1. call' \in [Call -> CallState]
    <3>1. call' = [call EXCEPT ![c] = [call[c] EXCEPT !.at = "bills", !.bills = {}]]
      BY <1>7, <1>0 DEF DeleteDetails, CallState
    <3> QED
      BY <3>1, <1>0, <1>b DEF Parsing, Reparsing
  <2>2. details' \in [Run \X (1 .. Parts) -> Nat]
    BY <1>7, <1>0 DEF DeleteDetails
  <2> QED
    BY <1>7, <2>1, <2>2 DEF DeleteDetails, TypeOK, CallState, invoiceVars, history
<1>8. ASSUME NEW c \in Call, DeleteBills(c) \/ ShowFailure(c) \/ TellOms(c) \/ PushInvoices(c) PROVE TypeOK'
  <2>1. call' \in [Call -> CallState]
    BY <1>8, <1>4 DEF DeleteBills, ShowFailure, TellOms, PushInvoices, Parsing, Reparsing, Notifying
  <2>2. pushed' \in [Invoice -> BOOLEAN] /\ status' \in [Invoice -> Status] /\ bills' \subseteq Run
    BY <1>8, <1>0 DEF DeleteBills, ShowFailure, TellOms, PushInvoices, TypeOK, invoiceVars, Status
  <2> QED
    BY <1>8, <2>1, <2>2 DEF DeleteBills, ShowFailure, TellOms, PushInvoices, TypeOK, CallState, invoiceVars, history
<1>9. ASSUME NEW c \in Call, FailCall(c) PROVE TypeOK'
  <2>1. call[c].at \in Parsing \cup Notifying
    BY <1>9, <1>0 DEF FailCall, CallState
  <2>2. call' \in [Call -> CallState]
    BY <1>9, <1>4, <2>1 DEF FailCall, Parsing, Reparsing
  <2>3. failures' \in Nat /\ broken' \subseteq Invoice
    BY <1>9, <1>0, <1>c DEF FailCall, Fail
  <2> QED
    BY <1>9, <2>2, <2>3 DEF FailCall, TypeOK, CallState, invoiceVars
<1>10. ASSUME StopCalls PROVE TypeOK'
  <2>1. call' \in [Call -> CallState]
    BY <1>10, <1>i DEF StopCalls
  <2>2. failures' \in Nat /\ broken' \subseteq Invoice
    BY <1>10, <1>0, <1>c DEF StopCalls, Fail, Reparsing
  <2> QED
    BY <1>10, <2>1, <2>2 DEF StopCalls, TypeOK, CallState, invoiceVars
<1>11. ASSUME NEW r \in Run, NEW from, NEW to \in {"saved", "ended", "failing", "sent"}, RunGoto(r, from, to)
       PROVE  run' \in [Run -> RunState]
  BY <1>11, <1>0, <1>n DEF RunGoto, RunState
<1>12. ASSUME NEW r \in Run, SaveBill(r) \/ ReportFailure(r) \/ MarkSuccess(r) \/ MarkFailed(r) \/ FailResult(r)
       PROVE  TypeOK'
  <2>1. run' \in [Run -> RunState]
    BY <1>12, <1>11 DEF SaveBill, ReportFailure, MarkSuccess, MarkFailed, FailResult, EndRun
  <2>2. status' \in [Invoice -> Status] /\ bills' \subseteq Run /\ failures' \in Nat /\ redelivered' \subseteq Run
    BY <1>12, <1>0 DEF SaveBill, ReportFailure, MarkSuccess, MarkFailed, FailResult, EndRun, Fail, invoiceVars, history, Status
  <2> QED
    BY <1>12, <2>1, <2>2 DEF SaveBill, ReportFailure, MarkSuccess, MarkFailed, FailResult, EndRun, TypeOK, RunState, invoiceVars, history
<1>13. ASSUME NEW r \in Run, NEW valid \in BOOLEAN, SendResult(r, valid) PROVE TypeOK'
  <2>1. run' \in [Run -> RunState]
    <3>1. run' = [run EXCEPT ![r] = [run[r] EXCEPT !.at = "sent", !.valid = valid]]
      BY <1>13, <1>0 DEF SendResult, RunState
    <3>2. \A x \in RunState : [x EXCEPT !.at = "sent", !.valid = valid] \in RunState
      BY DEF RunState
    <3> QED
      BY <3>1, <3>2, <1>0
  <2> QED
    BY <1>13, <2>1 DEF SendResult, TypeOK, RunState, invoiceVars, history
<1>14. ASSUME NEW r \in Run, Verify(r) PROVE TypeOK'
  <2>1. run' \in [Run -> RunState]
    <3>1. CASE run[r].valid
      <4>1. run' = [run EXCEPT ![r] = [run[r] EXCEPT !.at = "import", !.part = 1]]
        BY <1>14, <3>1, <1>0 DEF Verify, RunState
      <4>2. \A x \in RunState : [x EXCEPT !.at = "import", !.part = 1] \in RunState
        BY <1>p DEF RunState
      <4> QED
        BY <4>1, <4>2, <1>0
    <3>2. CASE ~run[r].valid
      BY <1>14, <3>2, <1>11 DEF Verify, EndRun
    <3> QED
      BY <3>1, <3>2
  <2>2. status' \in [Invoice -> Status]
    BY <1>14, <1>0 DEF Verify, EndRun, Status
  <2> QED
    BY <1>14, <2>1, <2>2 DEF Verify, TypeOK, RunState, history
<1>15. ASSUME NEW r \in Run, ImportDetails(r) PROVE TypeOK'
  <2>1. run[r].part \in 1 .. Parts
    BY <1>0 DEF RunState
  <2>2. run' \in [Run -> RunState]
    <3>1. CASE run[r].part = Parts
      BY <1>15, <1>0, <3>1 DEF ImportDetails, RunState
    <3>2. CASE run[r].part # Parts
      <4>1. run[r].part + 1 \in 1 .. Parts
        BY <2>1, <3>2
      <4>2. run' = [run EXCEPT ![r] = [run[r] EXCEPT !.part = run[r].part + 1]]
        BY <1>15, <1>0, <3>2 DEF ImportDetails
      <4> QED
        BY <4>1, <4>2, <1>0 DEF RunState
    <3> QED
      BY <3>1, <3>2
  <2>3. details' \in [Run \X (1 .. Parts) -> Nat]
    BY <1>15, <1>0, <2>1 DEF ImportDetails
  <2> QED
    BY <1>15, <2>2, <2>3 DEF ImportDetails, TypeOK, RunState, invoiceVars, history
<1>16. ASSUME StopListener PROVE TypeOK'
  <2>1. run' \in [Run -> RunState]
    BY <1>16, <1>0 DEF StopListener, RunState
  <2>2. failures' \in Nat /\ redelivered' \subseteq Run
    BY <1>16, <1>0 DEF StopListener, Fail
  <2> QED
    BY <1>16, <2>1, <2>2 DEF StopListener, TypeOK, RunState, invoiceVars
<1>17. CASE UNCHANGED vars
  BY <1>17 DEF vars, TypeOK, invoiceVars, history
<1> QED
  BY <1>1, <1>2, <1>3, <1>5, <1>6, <1>7, <1>8, <1>9, <1>10, <1>12, <1>13, <1>14, <1>15, <1>16, <1>17
  DEF Next, Proceed, Parse, HandleResult

-----------------------------------------------------------------------------
(* What refers to what. *)

\* A run that was triggered stays with its invoice.
LEMMA RunsStay ==
  ASSUME TypeOK, [Next]_vars, NEW r \in Run
  PROVE  /\ run'[r].at = "none" => run[r].at = "none" /\ run'[r] = run[r]
         /\ run[r].at # "none" => run'[r].invoice = run[r].invoice
         /\ run[r].at = "none" /\ run'[r].at # "none" => \E c \in Call : Trigger(c)
<1>0. run \in [Run -> RunState]
  BY DEF TypeOK, RunState
<1>1. CASE \E c \in Call : Trigger(c)
  BY <1>1, <1>0, NewRunIsFree DEF Trigger, RunState, NoRun
<1>2. CASE run' = run
  BY <1>2
<1>3. CASE StopListener
  BY <1>3, <1>0 DEF StopListener, RunState
<1>4. ASSUME NEW q \in Run, Parse(q) \/ HandleResult(q) \/ FailResult(q)
      PROVE  /\ run'[q].at # "none" /\ run[q].at # "none" /\ run'[q].invoice = run[q].invoice
             /\ \A x \in Run \ {q} : run'[x] = run[x]
  <2>1. ASSUME NEW from \in {"triggered", "saved", "sent", "import", "mark", "failing"},
               NEW to \in {"saved", "sent", "failing", "ended"}, RunGoto(q, from, to)
        PROVE  /\ run'[q].at # "none" /\ run[q].at # "none" /\ run'[q].invoice = run[q].invoice
               /\ \A x \in Run \ {q} : run'[x] = run[x]
    BY <2>1, <1>0 DEF RunGoto, RunState, NoRun
  <2>2. CASE SaveBill(q)
    BY <2>1, <2>2 DEF SaveBill
  <2>3. CASE ReportFailure(q)
    BY <2>1, <2>3 DEF ReportFailure
  <2>4. CASE MarkSuccess(q) \/ MarkFailed(q)
    BY <2>1, <2>4 DEF MarkSuccess, MarkFailed, EndRun
  <2>5. CASE FailResult(q)
    BY <2>1, <2>5 DEF FailResult
  <2>6. CASE \E valid \in BOOLEAN : SendResult(q, valid)
    BY <2>6, <1>0 DEF SendResult, RunState
  <2>7. CASE Verify(q)
    <3>1. CASE run[q].valid
      BY <2>7, <3>1, <1>0 DEF Verify, RunState
    <3>2. CASE ~run[q].valid
      BY <2>1, <2>7, <3>2 DEF Verify, EndRun
    <3> QED
      BY <3>1, <3>2
  <2>8. CASE ImportDetails(q)
    BY <2>8, <1>0 DEF ImportDetails, RunState
  <2> QED
    BY <1>4, <2>2, <2>3, <2>4, <2>5, <2>6, <2>7, <2>8 DEF Parse, HandleResult
<1>5. CASE \E q \in Run : Parse(q) \/ HandleResult(q) \/ FailResult(q)
  BY <1>5, <1>4
<1> QED
  BY <1>1, <1>2, <1>3, <1>5 DEF Next, Proceed, UploadColissimo, ParseInvoice, StartParse, ReResolve, Notify,
     WriteStatus, SetStatus, FindBills, DeleteDetails, DeleteBills, ShowFailure, TellOms, PushInvoices,
     FailCall, StopCalls, vars

\* A call stays as it is, ends, begins, or goes on with its invoice.
Moves(x, y) ==
  \/ y = x
  \/ y = Idle
  \/ /\ y.at \in Parsing \cup Notifying /\ y.bills = {} /\ y.invoice \in Invoice
     /\ y.at \in Parsing => y.status \in {"parsing", "fuel_rate_confirming"}
  \/ /\ x.at \in Parsing \cup Notifying /\ y.at \in Parsing \cup Notifying
     /\ y.invoice = x.invoice /\ y.status = x.status
     /\ y.at \in Parsing => x.at \in Parsing
     /\ y.bills \in {x.bills, BillsOf(x.invoice)}

LEMMA CallsMove ==
  ASSUME TypeOK, Linked, [Next]_vars, NEW c \in Call
  PROVE  Moves(call[c], call'[c])
<1>0. call \in [Call -> CallState]
  BY DEF TypeOK, CallState
<1>1. ASSUME NEW d \in Call, NEW i \in Invoice, ParseInvoice(d, i) \/ StartParse(d, i) \/ ReResolve(d, i) \/ Notify(d, i)
      PROVE  Moves(call[c], call'[c])
  <2>1. PICK at \in Parsing \cup Notifying, st \in Status :
          Request(d, i, at, st) /\ (at \in Parsing => st \in {"parsing", "fuel_rate_confirming"})
    BY <1>1 DEF ParseInvoice, StartParse, ReResolve, Notify, WhetherParsing, Parsing, Reparsing, Notifying, Status
  <2> QED
    BY <2>1, <1>0 DEF Request, Idle, Moves
<1>2. ASSUME NEW d \in Call, Trigger(d) PROVE Moves(call[c], call'[c])
  <2>1. CASE call[d].at = "retrigger"
    BY <1>2, <2>1, <1>0 DEF Trigger, Moves, CallState, Parsing
  <2>2. CASE call[d].at # "retrigger"
    <3>1. /\ call' = [call EXCEPT ![d] = call'[d]] /\ call'[d].at \in {"update", "save"} /\ call[d].at = "trigger"
          /\ call'[d].invoice = call[d].invoice /\ call'[d].status = call[d].status /\ call'[d].bills = call[d].bills
      BY <1>2, <2>2, <1>0 DEF Trigger, CallState
    <3> QED
      BY <3>1, <1>0 DEF Moves, Parsing
  <2> QED
    BY <2>1, <2>2
<1>3. ASSUME NEW d \in Call, NEW from \in Parsing \cup Notifying, NEW to \in {"idle"} \cup Parsing \cup Notifying, Goto(d, from, to),
             to \in Parsing => from \in Parsing
      PROVE  Moves(call[c], call'[c])
  <2>1. call[d].at = from
    BY <1>3 DEF Goto
  <2>2. CASE to = "idle"
    BY <1>3, <2>2, <1>0 DEF Goto, Moves
  <2>3. CASE to # "idle"
    <3>1. /\ call' = [call EXCEPT ![d] = [call[d] EXCEPT !.at = to]] /\ to \in Parsing \cup Notifying
      BY <1>3, <2>3, <1>0 DEF Goto
    <3> QED
      BY <3>1, <2>1, <1>3, <1>0 DEF Moves, CallState
  <2> QED
    BY <2>2, <2>3
<1>4. ASSUME NEW d \in Call, FindBills(d) \/ DeleteDetails(d)
      PROVE  Moves(call[c], call'[c])
  <2>1. /\ call' = [call EXCEPT ![d] = call'[d]] /\ call'[d].at \in Parsing /\ call[d].at \in Parsing
        /\ call'[d].invoice = call[d].invoice /\ call'[d].status = call[d].status
    BY <1>4, <1>0 DEF FindBills, DeleteDetails, CallState, Parsing, Reparsing
  <2>2. call'[d].bills = BillsOf(call[d].invoice) \/ (call'[d].bills = {} /\ call[d].at # "idle")
    BY <1>4, <1>0 DEF FindBills, DeleteDetails, CallState
  <2>3. call[d].invoice \in Invoice /\ call[d].status \in {"parsing", "fuel_rate_confirming"}
    BY <2>1 DEF Linked, Parsing, Reparsing
  <2> QED
    BY <2>1, <2>2, <2>3, <1>0 DEF Moves
<1>5. ASSUME NEW d \in Call, WriteStatus(d) \/ SetStatus(d) \/ DeleteBills(d) \/ ShowFailure(d) \/ TellOms(d) \/ PushInvoices(d)
      PROVE  Moves(call[c], call'[c])
  <2>1. CASE WriteStatus(d)
    BY <2>1, <1>3 DEF WriteStatus, Parsing
  <2>2. CASE SetStatus(d)
    BY <2>2, <1>3 DEF SetStatus, Parsing, Reparsing
  <2>3. CASE DeleteBills(d) \/ ShowFailure(d) \/ TellOms(d) \/ PushInvoices(d)
    BY <2>3, <1>3 DEF DeleteBills, ShowFailure, TellOms, PushInvoices, Parsing, Reparsing, Notifying
  <2> QED
    BY <1>5, <2>1, <2>2, <2>3
<1>6. ASSUME NEW d \in Call, FailCall(d) PROVE Moves(call[c], call'[c])
  <2>1. call[d].at \in Parsing \cup Notifying
    BY <1>6, <1>0 DEF FailCall, CallState
  <2> QED
    BY <1>6, <2>1, <1>3 DEF FailCall, Parsing, Reparsing
<1>7. CASE StopCalls
  BY <1>7 DEF StopCalls, Moves
<1>8. CASE call' = call
  BY <1>8 DEF Moves
<1> QED
  BY <1>1, <1>2, <1>4, <1>5, <1>6, <1>7, <1>8 DEF Next, Proceed, Parse, HandleResult, UploadColissimo,
     SaveBill, ReportFailure, SendResult, Verify, ImportDetails, MarkSuccess, MarkFailed, EndRun, FailResult, StopListener, vars

LEMMA BillsComeAndGo ==
  ASSUME TypeOK, [Next]_vars
  PROVE  /\ bills' \subseteq bills \/ \E q \in Run : run[q].at = "triggered" /\ bills' = bills \cup {q}
         /\ \A r \in Run, k \in Part : details'[<<r, k>>] # 0 => details[<<r, k>>] # 0 \/ run[r].at = "import"
<1>1. details \in [Run \X Part -> Nat]
  BY DEF TypeOK, Part
<1>2. CASE \E q \in Run : SaveBill(q)
  BY <1>2, <1>1 DEF SaveBill, RunGoto
<1>3. CASE \E q \in Run : ImportDetails(q)
  BY <1>3, <1>1 DEF ImportDetails
<1>4. CASE \E c \in Call : DeleteDetails(c)
  BY <1>4, <1>1 DEF DeleteDetails
<1>5. CASE bills' \subseteq bills /\ details' = details
  BY <1>5, <1>1
<1> QED
  BY <1>2, <1>3, <1>4, <1>5 DEF Next, Proceed, Parse, HandleResult, UploadColissimo, ParseInvoice, StartParse, ReResolve, Notify,
     Trigger, WriteStatus, SetStatus, FindBills, DeleteBills, ShowFailure, TellOms, PushInvoices, FailCall, StopCalls,
     ReportFailure, SendResult, Verify, MarkSuccess, MarkFailed, FailResult, StopListener, invoiceVars, vars

LEMMA StepLinked == TypeOK /\ Linked /\ [Next]_vars => Linked'
<1> SUFFICES ASSUME TypeOK, Linked, [Next]_vars PROVE Linked'
  OBVIOUS
<1>0. /\ call \in [Call -> CallState] /\ run \in [Run -> RunState]
      /\ status \in [Invoice -> Status] /\ details \in [Run \X Part -> Nat] /\ bills \subseteq Run
  BY DEF TypeOK, CallState, RunState, Part
<1>f. run' \in [Run -> RunState]
  BY StepTyped DEF TypeOK, RunState
<1>1. \A r \in Run : run[r].at # "none" => run'[r].invoice = run[r].invoice
  BY RunsStay
<1>2. \A r \in Run : run'[r].at = "none" => run[r].at = "none" /\ run'[r] = run[r]
  BY RunsStay
<1>c. \A c \in Call :
        /\ call[c].at # "idle" => call[c].invoice \in Invoice
        /\ call[c].at = "idle" => call[c].bills = {}
        /\ call[c].at \in Parsing => call[c].status \in {"parsing", "fuel_rate_confirming"}
        /\ call[c].bills \subseteq RunsOf(call[c].invoice)
  BY DEF Linked
<1>r. \A r \in Run :
        /\ run[r].at # "none" => run[r].invoice \in Invoice
        /\ run[r].at = "none" => run[r].invoice = None /\ r \notin bills /\ \A k \in Part : details[<<r, k>>] = 0
  BY DEF Linked
<1>3. \A c \in Call : Moves(call[c], call'[c])
  BY CallsMove
<1>4. ASSUME NEW r \in Run, run'[r].at # "none" PROVE run'[r].invoice \in Invoice
  <2>1. CASE run[r].at # "none"
    BY <2>1, <1>1, <1>r
  <2>2. ASSUME NEW c \in Call, Trigger(c), run[r].at = "none" PROVE run'[r].invoice \in Invoice
    BY <1>4, <2>2, <1>0, <1>c, NewRunIsFree DEF Trigger, RunState, NoRun
  <2>3. run[r].at = "none" => \E c \in Call : Trigger(c)
    BY <1>4, RunsStay
  <2> QED
    BY <2>1, <2>2, <2>3
<1>5. ASSUME NEW r \in Run, run'[r].at = "none"
      PROVE  r \notin bills' /\ \A k \in Part : details'[<<r, k>>] = 0
  <2>1. run[r].at = "none" /\ r \notin bills /\ \A k \in Part : details[<<r, k>>] = 0
    BY <1>5, <1>2, <1>r
  <2>2. bills' \subseteq bills \/ \E q \in Run : run[q].at = "triggered" /\ bills' = bills \cup {q}
    BY BillsComeAndGo
  <2>3. ASSUME NEW k \in Part PROVE details'[<<r, k>>] = 0
    BY <2>1, BillsComeAndGo
  <2> QED
    BY <2>1, <2>2, <2>3
<1>6. ASSUME NEW c \in Call PROVE (call[c].bills \subseteq RunsOf(call[c].invoice))'
  <2>1. ASSUME NEW i \in Invoice PROVE RunsOf(i) \subseteq RunsOf(i)'
    BY <1>1, <1>2, <1>r, NoneAssumption DEF RunsOf, None
  <2>2. Moves(call[c], call'[c])
    BY <1>3
  <2>3. call[c].at \in Parsing \cup Notifying => call[c].invoice \in Invoice
    BY <1>c DEF Parsing, Reparsing, Notifying
  <2>4. call[c].bills # {} => call[c].invoice \in Invoice
    BY <1>c
  <2>5. \A r \in call'[c].bills : r \in Run /\ run[r].invoice = call'[c].invoice
    BY <2>2, <2>3, <2>4, <1>c DEF Moves, Idle, BillsOf, RunsOf
  <2>6. call'[c].bills # {} => call'[c].invoice \in Invoice
    BY <2>2, <2>3, <2>4 DEF Moves, Idle
  <2> QED
    BY <2>5, <2>6, <2>1 DEF RunsOf
<1>7. ASSUME NEW c \in Call
      PROVE  /\ call'[c].at # "idle" => call'[c].invoice \in Invoice
             /\ call'[c].at = "idle" => call'[c].bills = {}
             /\ call'[c].at \in Parsing => call'[c].status \in {"parsing", "fuel_rate_confirming"}
  BY <1>3, <1>c DEF Moves, Idle, Parsing, Reparsing, Notifying
<1>8. \A r \in Run : run'[r].at = "none" => run'[r].invoice = None
  BY <1>2, <1>r
<1> QED
  BY <1>4, <1>5, <1>6, <1>7, <1>8 DEF Linked

-----------------------------------------------------------------------------
(* What becomes of one invoice. *)

\* Steps for another invoice, and the end of a request.
LEMMA Untouched ==
  ASSUME NEW i \in Invoice, Sound(i),
         \A c \in Call : Parses(c, i)' => call'[c] = call[c],
         \A r \in Run : run[r].invoice = i \/ run'[r].invoice = i => run'[r] = run[r],
         status'[i] = status[i],
         \A r \in RunsOf(i) : (r \in bills' <=> r \in bills) /\ (r \in redelivered' <=> r \in redelivered),
         \A r \in RunsOf(i), k \in Part : details'[<<r, k>>] = details[<<r, k>>]
  PROVE  Sound(i)'
<1>1. RunsOf(i)' = RunsOf(i) /\ \A r \in RunsOf(i) : run'[r] = run[r] /\ r \in Run
  BY DEF RunsOf
<1>2. BillsOf(i)' = BillsOf(i)
  BY <1>1 DEF BillsOf
<1>3. \A c \in Call : Parses(c, i)' => Parses(c, i) /\ call'[c] = call[c]
  BY DEF Parses
<1>4. Alone(i)'
  BY <1>1, <1>3 DEF Sound, Alone, Under
<1>5. BillsKnown(i)'
  BY <1>1, <1>2, <1>3 DEF Sound, BillsKnown, Under
<1>6. DetailsKnown(i)'
  BY <1>1, <1>3 DEF Sound, DetailsKnown, Imported
<1>7. Complete(i) => Complete(i)'
  BY <1>1, <1>2 DEF Complete
<1>8. SuccessLasts(i)'
  BY <1>1, <1>3, <1>7 DEF Sound, SuccessLasts, Under
<1> QED
  BY <1>4, <1>5, <1>6, <1>8 DEF Sound

LEMMA UploadSound ==
  ASSUME TypeOK, Linked, NEW j \in Invoice, UploadColissimo(j), NEW i \in Invoice, Sound(i)
  PROVE  Sound(i)'
<1>1. CASE i # j
  BY <1>1, Untouched DEF UploadColissimo, history, TypeOK
<1>2. CASE i = j
  <2>1. UNCHANGED <<call, run, bills, details, redelivered>> /\ status[i] = "absent" /\ status'[i] = "surcharge_confirming"
    BY <1>2 DEF UploadColissimo, history, TypeOK
  <2> QED
    BY <2>1 DEF Sound, Alone, BillsKnown, DetailsKnown, Imported, SuccessLasts, RunsOf, BillsOf, Parses, Under
<1> QED
  BY <1>1, <1>2

LEMMA NotifySound ==
  ASSUME TypeOK, NEW c \in Call, NEW j \in Invoice, Notify(c, j) \/ TellOms(c) \/ PushInvoices(c), NEW i \in Invoice, Sound(i)
  PROVE  Sound(i)'
<1>1. UNCHANGED <<status, run, bills, details, redelivered>>
  BY DEF Notify, TellOms, PushInvoices, invoiceVars, history
<1>2. \A d \in Call : Parses(d, i)' => call'[d] = call[d]
  <2>1. call'[c].at \notin Parsing /\ \A d \in Call \ {c} : call'[d] = call[d]
    <3>1. CASE Notify(c, j)
      BY <3>1 DEF Notify, Request, TypeOK, Idle, Parsing, Reparsing
    <3>2. CASE TellOms(c)
      BY <3>2 DEF TellOms, Goto, TypeOK, Parsing, Reparsing
    <3>3. CASE PushInvoices(c)
      BY <3>3 DEF PushInvoices, Goto, TypeOK, Idle, Parsing, Reparsing
    <3> QED
      BY <3>1, <3>2, <3>3
  <2> QED
    BY <2>1 DEF Parses
<1> QED
  BY <1>1, <1>2, Untouched

\* A request begins, for an invoice to which nothing happens.
LEMMA RequestSound ==
  ASSUME TypeOK, Linked, NEW c \in Call, NEW j \in Invoice, ParseInvoice(c, j) \/ StartParse(c, j) \/ ReResolve(c, j),
         NEW i \in Invoice, i \notin overlapped', Sound(i)
  PROVE  Sound(i)'
<1>1. UNCHANGED <<status, run, bills, details, redelivered>>
  BY DEF ParseInvoice, StartParse, ReResolve, invoiceVars, history
<1>2. PICK at \in {"trigger", "save", "set"}, st \in Status : Request(c, j, at, st)
  BY DEF ParseInvoice, StartParse, ReResolve, WhetherParsing, Status
<1>3. /\ \A d \in Call \ {c} : call'[d] = call[d]
      /\ call[c].at = "idle" /\ call'[c].at = at /\ call'[c].invoice = j
  BY <1>2 DEF Request, TypeOK, Idle
<1>4. CASE i # j
  BY <1>1, <1>3, <1>4, Untouched DEF Parses
<1>5. CASE i = j
  <2>1. ~Busy(i)
    BY <1>5 DEF ParseInvoice, StartParse, ReResolve, Overlap
  <2>2. /\ \A d \in Call : ~Parses(d, i)
        /\ \A r \in RunsOf(i) : ~Under(r)
    BY <2>1 DEF Busy, Parses
  <2>3. \A d \in Call : Parses(d, i)' => d = c
    BY <2>2, <1>3 DEF Parses
  <2>4. at = "trigger" => status[i] \in {"absent", "surcharge_confirming"}
    <3>1. CASE ReResolve(c, j)
      <4>1. PICK x \in Status : Request(c, j, "set", x)
        BY <3>1 DEF ReResolve, WhetherParsing, Status
      <4>2. call'[c].at = "set"
        BY <4>1 DEF Request, TypeOK, Idle
      <4> QED
        BY <4>2, <1>3
    <3>2. CASE ParseInvoice(c, j) \/ StartParse(c, j)
      BY <3>2, <1>5 DEF ParseInvoice, StartParse
    <3> QED
      BY <3>1, <3>2
  <2>5. at \in {"trigger", "save", "set"} /\ (status[i] = "success" => at \in {"save", "set"})
    BY <2>4
  <2>6. /\ RunsOf(i)' = RunsOf(i) /\ BillsOf(i)' = BillsOf(i) /\ \A r \in RunsOf(i) : ~Under(r)'
    BY <1>1, <2>2 DEF RunsOf, BillsOf, Under
  <2>7. at = "trigger" => BillsOf(i) = {}
    BY <2>2, <2>4 DEF Sound, BillsKnown
  <2>8. Alone(i)'
    BY <2>2, <2>3, <2>6 DEF Alone
  <2>9. BillsKnown(i)'
    BY <2>2, <2>3, <2>6, <2>7, <1>1, <1>3 DEF Sound, BillsKnown
  <2>10. DetailsKnown(i)'
    BY <2>3, <2>6, <1>1, <1>3 DEF Sound, DetailsKnown, Imported
  <2>11. SuccessLasts(i)'
    BY <2>2, <2>3, <2>5, <2>6, <1>1, <1>3 DEF Sound, SuccessLasts, Complete
  <2> QED
    BY <2>8, <2>9, <2>10, <2>11 DEF Sound
<1> QED
  BY <1>4, <1>5

LEMMA TriggerSound ==
  ASSUME TypeOK, Linked, NEW c \in Call, Trigger(c), NEW i \in Invoice, Sound(i)
  PROVE  Sound(i)'
<1> DEFINE j == call[c].invoice
<1>1. UNCHANGED <<status, bills, details, redelivered>>
  BY DEF Trigger, invoiceVars, history
<1>2. /\ \A d \in Call \ {c} : call'[d] = call[d]
      /\ call[c].at \in {"trigger", "retrigger"} /\ call'[c].at \in {"idle", "save", "update"}
      /\ call'[c].at # "idle" => call'[c].invoice = j
  BY DEF Trigger, TypeOK, Idle
<1>3. /\ NewRun \in Run /\ run[NewRun].at = "none" /\ \A r \in Run \ {NewRun} : run'[r] = run[r]
      /\ run'[NewRun].at = "triggered" /\ run'[NewRun].invoice = j
  BY NewRunIsFree DEF Trigger, TypeOK, NoRun
<1>4. j \in Invoice /\ run[NewRun].invoice = None /\ NewRun \notin bills /\ \A k \in Part : details[<<NewRun, k>>] = 0
  BY <1>2, <1>3 DEF Linked
<1>5. i # None
  BY NoneAssumption DEF None
<1>6. CASE i # j
  BY <1>1, <1>2, <1>3, <1>4, <1>5, <1>6, Untouched DEF Parses, Parsing, Reparsing
<1>7. CASE i = j
  <2>1. Parses(c, i)
    BY <1>2, <1>7 DEF Parses, Parsing, Reparsing
  <2>2. \A d \in Call : Parses(d, i)' => d = c /\ call'[d].at \in {"save", "update"}
    BY <1>2, <2>1 DEF Sound, Alone, Parses, Parsing, Reparsing
  <2>3. RunsOf(i)' = RunsOf(i) \cup {NewRun} /\ NewRun \notin RunsOf(i)
    BY <1>3, <1>4, <1>5, <1>7 DEF RunsOf
  <2>4. \A r \in RunsOf(i) : ~Under(r)
    BY <1>2, <2>1 DEF Sound, Alone
  <2>5. \A r \in RunsOf(i)' : Under(r)' => r = NewRun
    BY <1>3, <2>3, <2>4 DEF Under, RunsOf
  <2>6. BillsOf(i) = {} /\ BillsOf(i)' = {}
    BY <1>1, <1>2, <1>4, <2>1, <2>3 DEF Sound, BillsKnown, BillsOf
  <2>7. status[i] # "success"
    BY <1>2, <2>1 DEF Sound, SuccessLasts
  <2>8. Alone(i)'
    BY <2>2, <2>5 DEF Alone
  <2>9. BillsKnown(i)'
    BY <2>2, <2>5, <2>6, <1>3 DEF BillsKnown
  <2>10. DetailsKnown(i)'
    <3>1. \A q \in RunsOf(i)', k \in Part : details'[<<q, k>>] # 0 => q \in bills'
      BY <1>1, <1>4, <2>3 DEF Sound, DetailsKnown, Imported
    <3>2. \A r \in RunsOf(i)' : r # NewRun => r \in RunsOf(i) /\ run'[r] = run[r]
      BY <1>3, <2>3 DEF RunsOf
    <3> QED
      BY <1>1, <1>3, <1>4, <2>2, <2>3, <3>1, <3>2 DEF Sound, DetailsKnown, Imported
  <2>11. SuccessLasts(i)'
    BY <1>1, <2>7 DEF SuccessLasts
  <2> QED
    BY <2>8, <2>9, <2>10, <2>11 DEF Sound
<1> QED
  BY <1>6, <1>7

\* The status is written, which no later step of the request depends on.
LEMMA StatusSound ==
  ASSUME TypeOK, Linked, NEW c \in Call, WriteStatus(c) \/ SetStatus(c) \/ ShowFailure(c), NEW i \in Invoice, Sound(i)
  PROVE  Sound(i)'
<1> DEFINE j == call[c].invoice
<1>1. UNCHANGED <<run, bills, details, redelivered>>
  BY DEF WriteStatus, SetStatus, ShowFailure, invoiceVars, history
<1>2. /\ \A d \in Call \ {c} : call'[d] = call[d]
      /\ call[c].at \in Parsing /\ call'[c].at \in {"idle", "find"}
      /\ call'[c].at = "find" => call'[c].invoice = j /\ call[c].at = "set"
  BY DEF WriteStatus, SetStatus, ShowFailure, Goto, TypeOK, Idle, Parsing, Reparsing
<1>3. j \in Invoice /\ call[c].status \in {"parsing", "fuel_rate_confirming"}
  BY <1>2 DEF Linked, Parsing, Reparsing
<1>4. status'[j] \in {"parsing", "fuel_rate_confirming", "failed"} /\ \A x \in Invoice \ {j} : status'[x] = status[x]
  BY <1>3 DEF WriteStatus, SetStatus, ShowFailure, TypeOK
<1>5. CASE i # j
  BY <1>1, <1>2, <1>4, <1>5, Untouched DEF Parses, Parsing, Reparsing
<1>6. CASE i = j
  <2>1. Parses(c, i)
    BY <1>2, <1>6 DEF Parses
  <2>2. \A d \in Call : Parses(d, i)' => d = c /\ call'[d].at = "find" /\ call[c].at = "set"
    BY <1>2, <2>1 DEF Sound, Alone, Parses, Parsing, Reparsing
  <2>3. RunsOf(i)' = RunsOf(i) /\ BillsOf(i)' = BillsOf(i) /\ \A r \in RunsOf(i) : run'[r] = run[r]
    BY <1>1 DEF RunsOf, BillsOf
  <2>4. call[c].at = "set" => \A r \in RunsOf(i) : ~Under(r)
    BY <2>1 DEF Sound, Alone
  <2>5. Alone(i)'
    BY <2>2, <2>3, <2>4 DEF Sound, Alone, Under
  <2>6. BillsKnown(i)'
    BY <1>4, <1>6, <2>2, <2>3 DEF Sound, BillsKnown, Under
  <2>7. DetailsKnown(i)'
    BY <1>1, <2>2, <2>3 DEF Sound, DetailsKnown, Imported
  <2>8. SuccessLasts(i)'
    BY <1>4, <1>6 DEF SuccessLasts
  <2> QED
    BY <2>5, <2>6, <2>7, <2>8 DEF Sound
<1> QED
  BY <1>5, <1>6

LEMMA FindSound ==
  ASSUME TypeOK, Linked, NEW c \in Call, FindBills(c), NEW i \in Invoice, Sound(i)
  PROVE  Sound(i)'
<1>1. UNCHANGED <<status, run, bills, details, redelivered>>
  BY DEF FindBills, invoiceVars, history
<1>2. /\ \A d \in Call \ {c} : call'[d] = call[d]
      /\ call[c].at = "find" /\ call'[c].at = "details"
      /\ call'[c].invoice = call[c].invoice /\ call'[c].bills = BillsOf(call[c].invoice)
  BY DEF FindBills, TypeOK
<1>3. \A d \in Call : Parses(d, i)' => Parses(d, i) /\ (d # c => call'[d] = call[d])
  BY <1>2 DEF Parses, Parsing, Reparsing
<1>4. RunsOf(i)' = RunsOf(i) /\ BillsOf(i)' = BillsOf(i) /\ \A r \in RunsOf(i) : run'[r] = run[r]
  BY <1>1 DEF RunsOf, BillsOf
<1>5. Parses(c, i) => call[c].invoice = i
  BY DEF Parses
<1>6. Alone(i)'
  BY <1>2, <1>3, <1>4 DEF Sound, Alone, Under
<1>7. BillsKnown(i)'
  BY <1>1, <1>2, <1>3, <1>4, <1>5 DEF Sound, BillsKnown, Under
<1>8. DetailsKnown(i)'
  BY <1>1, <1>2, <1>3, <1>4 DEF Sound, DetailsKnown, Imported
<1>9. SuccessLasts(i)'
  BY <1>1, <1>2, <1>3, <1>4 DEF Sound, SuccessLasts, Complete, Under
<1> QED
  BY <1>6, <1>7, <1>8, <1>9 DEF Sound

LEMMA DeleteDetailsSound ==
  ASSUME TypeOK, Linked, NEW c \in Call, DeleteDetails(c), NEW i \in Invoice, Sound(i)
  PROVE  Sound(i)'
<1> DEFINE j == call[c].invoice
<1>1. UNCHANGED <<status, run, bills, redelivered>>
  BY DEF DeleteDetails, invoiceVars, history
<1>2. /\ \A d \in Call \ {c} : call'[d] = call[d]
      /\ call[c].at = "details" /\ call'[c].at = "bills" /\ call'[c].invoice = j
  BY DEF DeleteDetails, TypeOK
<1>3. \A r \in Run, k \in Part : details'[<<r, k>>] = IF r \in call[c].bills THEN 0 ELSE details[<<r, k>>]
  BY DEF DeleteDetails, TypeOK, Part
<1>4. call[c].bills \subseteq RunsOf(j) /\ j \in Invoice
  BY <1>2 DEF Linked
<1>5. CASE i # j
  <2>1. \A r \in RunsOf(i) : r \in Run /\ r \notin call[c].bills
    BY <1>4, <1>5 DEF RunsOf
  <2> QED
    BY <1>1, <1>2, <1>3, <1>5, <2>1, Untouched DEF Parses
<1>6. CASE i = j
  <2>1. Parses(c, i)
    BY <1>2, <1>6 DEF Parses, Parsing, Reparsing
  <2>2. \A d \in Call : Parses(d, i)' => d = c
    BY <1>2, <2>1 DEF Sound, Alone, Parses, Parsing, Reparsing
  <2>3. /\ RunsOf(i)' = RunsOf(i) /\ BillsOf(i)' = BillsOf(i)
        /\ \A r \in RunsOf(i) : r \in Run /\ run'[r] = run[r] /\ ~Under(r) /\ ~Under(r)'
    BY <1>1, <1>2, <2>1 DEF RunsOf, BillsOf, Sound, Alone, Under
  <2>4. status[i] # "success"
    BY <1>2, <2>1 DEF Sound, SuccessLasts
  <2>5. call[c].bills = BillsOf(i)
    BY <1>2, <2>1 DEF Sound, BillsKnown
  <2>6. \A r \in RunsOf(i), k \in Part : details'[<<r, k>>] = 0
    BY <1>3, <2>3, <2>5 DEF Sound, DetailsKnown, Imported, BillsOf
  <2>7. Alone(i)'
    BY <2>2, <2>3 DEF Alone
  <2>8. BillsKnown(i)'
    BY <1>1, <1>2, <2>2, <2>3 DEF Sound, BillsKnown
  <2>9. DetailsKnown(i)'
    BY <2>3, <2>6 DEF DetailsKnown, Imported, Under
  <2>10. SuccessLasts(i)'
    BY <1>1, <2>4 DEF SuccessLasts
  <2> QED
    BY <2>7, <2>8, <2>9, <2>10 DEF Sound
<1> QED
  BY <1>5, <1>6

LEMMA DeleteBillsSound ==
  ASSUME TypeOK, Linked, NEW c \in Call, DeleteBills(c), NEW i \in Invoice, Sound(i)
  PROVE  Sound(i)'
<1> DEFINE j == call[c].invoice
<1>1. UNCHANGED <<status, run, details, redelivered>> /\ bills' = bills \ RunsOf(j)
  BY DEF DeleteBills, invoiceVars, history
<1>2. /\ \A d \in Call \ {c} : call'[d] = call[d]
      /\ call[c].at = "bills" /\ call'[c].at = "retrigger" /\ call'[c].invoice = j
  BY DEF DeleteBills, Goto, TypeOK
<1>3. CASE i # j
  <2>1. \A r \in RunsOf(i) : r \in Run /\ r \notin RunsOf(j)
    BY <1>3 DEF RunsOf
  <2> QED
    BY <1>1, <1>2, <1>3, <2>1, Untouched DEF Parses
<1>4. CASE i = j
  <2>1. Parses(c, i)
    BY <1>2, <1>4 DEF Parses, Parsing, Reparsing
  <2>2. \A d \in Call : Parses(d, i)' => d = c
    BY <1>2, <2>1 DEF Sound, Alone, Parses, Parsing, Reparsing
  <2>3. /\ RunsOf(i)' = RunsOf(i) /\ BillsOf(i)' = {}
        /\ \A r \in RunsOf(i) : r \in Run /\ run'[r] = run[r] /\ ~Under(r) /\ ~Under(r)'
    BY <1>1, <1>2, <1>4, <2>1 DEF RunsOf, BillsOf, Sound, Alone, Under
  <2>4. status[i] # "success"
    BY <1>2, <2>1 DEF Sound, SuccessLasts
  <2>5. \A r \in RunsOf(i), k \in Part : details'[<<r, k>>] = 0
    BY <1>1, <1>2, <2>1 DEF Sound, DetailsKnown, Imported
  <2>6. Alone(i)'
    BY <2>2, <2>3 DEF Alone
  <2>7. BillsKnown(i)'
    BY <1>2, <2>2, <2>3 DEF BillsKnown
  <2>8. DetailsKnown(i)'
    BY <2>3, <2>5 DEF DetailsKnown, Imported, Under
  <2>9. SuccessLasts(i)'
    BY <1>1, <2>4 DEF SuccessLasts
  <2> QED
    BY <2>6, <2>7, <2>8, <2>9 DEF Sound
<1> QED
  BY <1>3, <1>4

\* Requests that end, or turn to showing their failure.
LEMMA FailCallSound ==
  ASSUME TypeOK, Linked, (\E c \in Call : FailCall(c)) \/ StopCalls, NEW i \in Invoice, Sound(i)
  PROVE  Sound(i)'
<1>1. UNCHANGED <<status, run, bills, details, redelivered>>
  BY DEF FailCall, StopCalls, invoiceVars
<1>2. ASSUME NEW d \in Call
      PROVE  \/ call'[d] = call[d]
             \/ call'[d].at = "idle"
             \/ call'[d].at = "failing" /\ call[d].at \in Reparsing \ {"failing"} /\ call'[d].invoice = call[d].invoice
  <2>1. CASE StopCalls
    BY <2>1 DEF StopCalls, Idle
  <2>2. ASSUME NEW c \in Call, FailCall(c), c # d PROVE call'[d] = call[d]
    BY <2>2 DEF FailCall, Goto, TypeOK
  <2>3. ASSUME FailCall(d), call[d].at \in Reparsing \ {"failing"}
        PROVE  call'[d].at = "failing" /\ call'[d].invoice = call[d].invoice
    BY <2>3 DEF FailCall, Goto, TypeOK
  <2>4. ASSUME FailCall(d), call[d].at \notin Reparsing \ {"failing"}
        PROVE  call'[d].at = "idle"
    BY <2>4 DEF FailCall, Goto, TypeOK, Idle
  <2> QED
    BY <2>1, <2>2, <2>3, <2>4
<1>3. \A d \in Call : Parses(d, i)' => /\ Parses(d, i)
                                       /\ \/ call'[d] = call[d]
                                          \/ call'[d].at = "failing" /\ call[d].at \in Reparsing
  BY <1>2 DEF Parses, Parsing, Reparsing
<1>4. RunsOf(i)' = RunsOf(i) /\ BillsOf(i)' = BillsOf(i) /\ \A r \in RunsOf(i) : run'[r] = run[r]
  BY <1>1 DEF RunsOf, BillsOf
<1>5. \A d \in Call : call[d].at \in Reparsing => call[d].at \notin {"save", "update", "set"}
  BY DEF Reparsing
<1>6. Alone(i)'
  BY <1>3, <1>4, <1>5 DEF Sound, Alone, Under
<1>7. BillsKnown(i)'
  BY <1>1, <1>3, <1>4 DEF Sound, BillsKnown, Under
<1>8. DetailsKnown(i)'
  BY <1>1, <1>3, <1>4 DEF Sound, DetailsKnown, Imported
<1>9. SuccessLasts(i)'
  BY <1>1, <1>3, <1>4, <1>5 DEF Sound, SuccessLasts, Complete, Under
<1> QED
  BY <1>6, <1>7, <1>8, <1>9 DEF Sound

\* While a run is under way nothing else is.
LEMMA UnderWay ==
  ASSUME NEW i \in Invoice, Sound(i), NEW q \in RunsOf(i), Under(q)
  PROVE  /\ \A r \in RunsOf(i) \ {q} : ~Under(r)
         /\ \A c \in Call : Parses(c, i) => call[c].at \in {"save", "update"}
         /\ status[i] # "success"
         /\ BillsOf(i) = IF run[q].at = "triggered" THEN {} ELSE {q}
  BY DEF Sound, Alone, SuccessLasts, BillsKnown

LEMMA RunOfOther ==
  ASSUME TypeOK, Linked, NEW q \in Run, run[q].at # "none", NEW i \in Invoice, Sound(i), i # run[q].invoice,
         UNCHANGED call, run'[q].invoice = run[q].invoice, \A r \in Run \ {q} : run'[r] = run[r],
         status'[i] = status[i],
         \A r \in Run \ {q} : (r \in bills' <=> r \in bills) /\ (r \in redelivered' <=> r \in redelivered),
         \A r \in Run \ {q}, k \in Part : details'[<<r, k>>] = details[<<r, k>>]
  PROVE  Sound(i)'
<1>1. \A r \in RunsOf(i) : r \in Run \ {q}
  BY DEF RunsOf
<1> QED
  BY <1>1, Untouched

\* A run goes on, and does not make its invoice a success.
LEMMA RunGoesOn ==
  ASSUME NEW i \in Invoice, Sound(i), NEW q \in RunsOf(i), Under(q),
         UNCHANGED call, run'[q].invoice = i, \A r \in Run \ {q} : run'[r] = run[r],
         run'[q].at \notin {"none", "triggered"},
         Under(q)' => BillsOf(i)' = {q},
         ~Under(q)' => status'[i] # "surcharge_confirming",
         status'[i] = "absent" => BillsOf(i)' = {},
         \A r \in RunsOf(i), k \in Part : details'[<<r, k>>] # 0 => r \in bills',
         \A k \in Part : Imported(q, k)'
  PROVE  /\ status'[i] # "success" => Sound(i)'
         /\ ~Under(q)' /\ Complete(i)' => Sound(i)'
<1>0. q \in RunsOf(i)' /\ run'[q].at # "triggered" /\ q \in Run
  BY DEF RunsOf
<1>1. RunsOf(i)' = RunsOf(i) /\ RunsOf(i) \subseteq Run
  BY DEF RunsOf
<1>2. \A r \in RunsOf(i) \ {q} : ~Under(r)' /\ \A k \in Part : Imported(r, k)'
  BY <1>1, UnderWay DEF Under, Imported
<1>3. \A c \in Call : Parses(c, i)' => Parses(c, i) /\ call'[c].at \in {"save", "update"}
  BY UnderWay DEF Parses
<1>4. Alone(i)'
  BY <1>1, <1>2, <1>3 DEF Sound, Alone
<1>5. BillsKnown(i)'
  BY <1>0, <1>1, <1>2, <1>3 DEF BillsKnown
<1>6. DetailsKnown(i)'
  BY <1>1, <1>2, <1>3 DEF DetailsKnown
<1>7. status'[i] # "success" => SuccessLasts(i)'
  BY DEF SuccessLasts
<1>8. ~Under(q)' /\ Complete(i)' => SuccessLasts(i)'
  BY <1>1, <1>2, <1>3 DEF SuccessLasts
<1> QED
  BY <1>4, <1>5, <1>6, <1>7, <1>8 DEF Sound

LEMMA RunSound ==
  ASSUME TypeOK, Linked, [Next]_vars, NEW q \in Run, NEW i \in Invoice, Sound(i),
         Parse(q) \/ HandleResult(q) \/ FailResult(q)
  PROVE  Sound(i)'
<1> DEFINE j == run[q].invoice
<1>0. \/ SaveBill(q) \/ ReportFailure(q) \/ (\E valid \in BOOLEAN : SendResult(q, valid)) \/ Verify(q)
      \/ ImportDetails(q) \/ MarkSuccess(q) \/ MarkFailed(q) \/ FailResult(q)
  BY DEF Parse, HandleResult
<1>1. /\ run \in [Run -> RunState] /\ details \in [Run \X Part -> Nat] /\ status \in [Invoice -> Status]
  BY DEF TypeOK, RunState, Part
<1>2. UNCHANGED call
  BY <1>0 DEF SaveBill, ReportFailure, SendResult, Verify, ImportDetails, MarkSuccess, MarkFailed, FailResult
<1>3. run[q].at \in {"triggered", "saved", "sent", "import", "mark", "failing"}
  BY <1>0 DEF SaveBill, ReportFailure, SendResult, Verify, ImportDetails, MarkSuccess, MarkFailed, FailResult, EndRun, RunGoto
<1>4. j \in Invoice /\ Under(q)
  BY <1>3 DEF Linked, Under
<1>5. run'[q].invoice = j
  BY <1>3, RunsStay
<1>6. \A r \in Run \ {q} : run'[r] = run[r]
  BY <1>0, <1>1 DEF SaveBill, ReportFailure, SendResult, Verify, ImportDetails, MarkSuccess, MarkFailed, FailResult, EndRun, RunGoto
<1>7. /\ \A x \in Invoice \ {j} : status'[x] = status[x]
      /\ \A r \in Run \ {q} : (r \in bills' <=> r \in bills) /\ (r \in redelivered' <=> r \in redelivered)
      /\ \A r \in Run \ {q}, k \in Part : details'[<<r, k>>] = details[<<r, k>>]
  BY <1>0, <1>1 DEF SaveBill, ReportFailure, SendResult, Verify, ImportDetails, MarkSuccess, MarkFailed, FailResult, EndRun, RunGoto, invoiceVars, history
<1>8. CASE i # j
  BY <1>2, <1>3, <1>5, <1>6, <1>7, <1>8, RunOfOther
<1>9. CASE i = j
  <2> USE <1>9
  <2>0. q \in RunsOf(i) /\ RunsOf(i)' = RunsOf(i) /\ \A r \in RunsOf(i) : r \in Run
    BY <1>3, <1>5, <1>6 DEF RunsOf
  <2>1. /\ BillsOf(i) = IF run[q].at = "triggered" THEN {} ELSE {q}
        /\ status[i] # "success"
        /\ status[i] = "absent" => BillsOf(i) = {}
        /\ \A r \in RunsOf(i), k \in Part : details[<<r, k>>] # 0 => r \in bills
        /\ \A k \in Part : Imported(q, k)
    BY <1>4, <2>0, UnderWay DEF Sound, BillsKnown, DetailsKnown
  <2>2. bills' = bills => BillsOf(i)' = BillsOf(i)
    BY <2>0 DEF BillsOf
  <2>3. ASSUME run'[q].at \notin {"none", "triggered"},
               Under(q)' => BillsOf(i)' = {q},
               ~Under(q)' => status'[i] # "surcharge_confirming",
               status'[i] = "absent" => BillsOf(i)' = {},
               status'[i] # "success" \/ (~Under(q)' /\ Complete(i)'),
               \A r \in RunsOf(i), k \in Part : details'[<<r, k>>] # 0 => r \in bills',
               \A k \in Part : Imported(q, k)'
        PROVE  Sound(i)'
    BY <1>2, <1>4, <1>5, <1>6, <2>0, <2>3, RunGoesOn
  <2>4. CASE SaveBill(q)
    <3>1. /\ run[q].at = "triggered" /\ run'[q].at = "saved" /\ bills' = bills \cup {q}
          /\ UNCHANGED <<status, details, redelivered>> /\ status[i] # "absent"
      BY <1>1, <2>4 DEF SaveBill, RunGoto, invoiceVars, history, RunState
    <3>2. BillsOf(i)' = {q}
      BY <2>0, <2>1, <3>1 DEF BillsOf
    <3>3. q \notin bills /\ \A k \in Part : details[<<q, k>>] = 0
      BY <2>0, <2>1, <3>1 DEF BillsOf
    <3>4. \A k \in Part : Imported(q, k)'
      BY <3>1, <3>3 DEF Imported
    <3> QED
      BY <2>1, <2>3, <3>1, <3>2, <3>4 DEF Under
  <2>5. CASE ReportFailure(q)
    <3>1. /\ run'[q].at = "ended" /\ UNCHANGED <<bills, details, redelivered>>
          /\ status'[i] = IF status[i] = "absent" THEN "absent" ELSE "failed"
      BY <1>1, <1>4, <2>5 DEF ReportFailure, RunGoto, NoRun, history
    <3>2. \A k \in Part : Imported(q, k)'
      BY <3>1 DEF Imported
    <3> QED
      BY <2>1, <2>2, <2>3, <3>1, <3>2 DEF Under
  <2>6. CASE \E valid \in BOOLEAN : SendResult(q, valid)
    <3>1. /\ run[q].at = "saved" /\ run'[q].at = "sent"
          /\ UNCHANGED <<status, bills, details, redelivered>>
      BY <1>1, <2>6 DEF SendResult, RunState, invoiceVars, history
    <3>2. \A k \in Part : Imported(q, k)'
      BY <2>1, <3>1 DEF Imported
    <3> QED
      BY <2>1, <2>2, <2>3, <3>1, <3>2 DEF Under
  <2>7. CASE Verify(q)
    <3>0. UNCHANGED <<bills, details, redelivered>>
      BY <2>7 DEF Verify, history
    <3>1. CASE run[q].valid
      <4>1. run[q].at = "sent" /\ run'[q].at = "import" /\ run'[q].part = 1 /\ UNCHANGED status
        BY <1>1, <2>7, <3>1 DEF Verify, RunState
      <4>2. \A k \in Part : Imported(q, k)'
        BY <2>1, <3>0, <4>1 DEF Imported, Part
      <4> QED
        BY <2>1, <2>2, <2>3, <3>0, <4>1, <4>2 DEF Under
    <3>2. CASE ~run[q].valid
      <4>1. run'[q].at = "ended" /\ status'[i] = "failed"
        <5>1. EndRun(q, "sent", "failed")
          BY <2>7, <3>2 DEF Verify
        <5> QED
          BY <5>1, <1>1, <1>4 DEF EndRun, RunGoto, NoRun
      <4>2. \A k \in Part : Imported(q, k)'
        BY <4>1 DEF Imported
      <4> QED
        BY <2>1, <2>2, <2>3, <3>0, <4>1, <4>2 DEF Under
    <3> QED
      BY <3>1, <3>2
  <2>8. CASE ImportDetails(q)
    <3> DEFINE p == run[q].part
    <3>0. p \in Part /\ Parts \in Nat \ {0}
      BY <1>1, BoundAssumption DEF RunState, Part
    <3>1. /\ run[q].at = "import" /\ UNCHANGED <<status, bills, redelivered>>
          /\ \A k \in Part : details'[<<q, k>>] = IF k = p THEN details[<<q, k>>] + 1 ELSE details[<<q, k>>]
          /\ \A r \in Run \ {q}, k \in Part : details'[<<r, k>>] = details[<<r, k>>]
          /\ \A r \in Run, k \in Part : details[<<r, k>>] \in Nat
      BY <1>1, <2>8, <3>0 DEF ImportDetails, invoiceVars, history
    <3>2. \/ p = Parts /\ run'[q].at = "mark"
          \/ p # Parts /\ run'[q].at = "import" /\ run'[q].part = p + 1
      BY <1>1, <2>8 DEF ImportDetails, RunState
    <3>3. q \in bills
      BY <2>1, <3>1 DEF BillsOf
    <3>4. ASSUME NEW k \in Part PROVE Imported(q, k)'
      <4>1. k \in Nat /\ p \in Nat /\ k <= Parts /\ p <= Parts
        BY <3>0 DEF Part
      <4>2. k < p => details[<<q, k>>] > 0 /\ (q \notin redelivered => details[<<q, k>>] = 1)
        BY <2>1, <3>1 DEF Imported
      <4>3. k >= p /\ q \notin redelivered => details[<<q, k>>] = 0
        BY <2>1, <3>1 DEF Imported
      <4>4. k <= p => details'[<<q, k>>] > 0 /\ (q \notin redelivered => details'[<<q, k>>] = 1)
        <5>1. CASE k = p
          BY <3>1, <4>1, <4>3, <5>1
        <5>2. CASE k < p
          BY <3>1, <4>1, <4>2, <5>2
        <5> QED
          BY <4>1, <5>1, <5>2
      <4>5. k > p /\ q \notin redelivered => details'[<<q, k>>] = 0
        BY <3>1, <4>1, <4>3
      <4>6. CASE p = Parts /\ run'[q].at = "mark"
        BY <3>1, <4>1, <4>4, <4>6 DEF Imported
      <4>7. CASE p # Parts /\ run'[q].at = "import" /\ run'[q].part = p + 1
        BY <3>1, <4>1, <4>4, <4>5, <4>7 DEF Imported
      <4> QED
        BY <3>2, <4>6, <4>7
    <3>5. \A r \in RunsOf(i), k \in Part : details'[<<r, k>>] # 0 => r \in bills'
      BY <2>0, <2>1, <3>1, <3>3
    <3> QED
      BY <2>1, <2>2, <2>3, <3>1, <3>2, <3>4, <3>5 DEF Under
  <2>9. CASE MarkSuccess(q)
    <3>1. /\ run[q].at = "mark" /\ run'[q].at = "ended" /\ status'[i] = "success"
          /\ UNCHANGED <<bills, details, redelivered>>
      BY <1>1, <1>4, <2>9 DEF MarkSuccess, EndRun, RunGoto, NoRun, history
    <3>2. \A k \in Part : Imported(q, k)'
      BY <3>1 DEF Imported
    <3>3. \A k \in Part :
            /\ details[<<q, k>>] > 0
            /\ q \notin redelivered => details[<<q, k>>] = 1
            /\ \A r \in RunsOf(i) \ {q} : details[<<r, k>>] = 0
      BY <2>1, <3>1 DEF Imported, BillsOf
    <3>4. Complete(i)'
      BY <2>0, <2>1, <2>2, <3>1, <3>3 DEF Complete
    <3> QED
      BY <2>1, <2>2, <2>3, <3>1, <3>2, <3>4 DEF Under
  <2>10. CASE MarkFailed(q)
    <3>1. run'[q].at = "ended" /\ status'[i] = "failed" /\ UNCHANGED <<bills, details, redelivered>>
      BY <1>1, <1>4, <2>10 DEF MarkFailed, EndRun, RunGoto, NoRun, history
    <3>2. \A k \in Part : Imported(q, k)'
      BY <3>1 DEF Imported
    <3> QED
      BY <2>1, <2>2, <2>3, <3>1, <3>2 DEF Under
  <2>11. CASE FailResult(q)
    <3>1. /\ run[q].at \in {"sent", "import", "mark", "failing"} /\ UNCHANGED <<status, bills, details>>
          /\ \/ run'[q].at = "failing"
             \/ run'[q].at = "sent" /\ q \in redelivered'
      BY <1>1, <2>11 DEF FailResult, RunGoto, invoiceVars, RunState
    <3>2. \A k \in Part : Imported(q, k)'
      BY <3>1 DEF Imported
    <3> QED
      BY <2>1, <2>2, <2>3, <3>1, <3>2 DEF Under
  <2> QED
    BY <1>0, <2>4, <2>5, <2>6, <2>7, <2>8, <2>9, <2>10, <2>11
<1> QED
  BY <1>8, <1>9

LEMMA StopListenerSound ==
  ASSUME TypeOK, Linked, StopListener, NEW i \in Invoice, Sound(i)
  PROVE  Sound(i)'
<1>1. UNCHANGED <<call, status, bills, details>>
  BY DEF StopListener, invoiceVars
<1>2. \A r \in Run :
        /\ run'[r].invoice = run[r].invoice
        /\ \/ run'[r] = run[r] /\ (r \in redelivered' <=> r \in redelivered)
           \/ run[r].at \in {"import", "mark", "failing"} /\ run'[r].at = "sent" /\ r \in redelivered'
  BY DEF StopListener, TypeOK
<1>3. RunsOf(i)' = RunsOf(i) /\ BillsOf(i)' = BillsOf(i) /\ RunsOf(i) \subseteq Run
  BY <1>1, <1>2 DEF RunsOf, BillsOf
<1>4. \A r \in Run : Under(r)' <=> Under(r)
  BY <1>2 DEF Under
<1>5. \A c \in Call : Parses(c, i)' <=> Parses(c, i)
  BY <1>1 DEF Parses
<1>6. Alone(i)'
  BY <1>1, <1>3, <1>4, <1>5 DEF Sound, Alone
<1>7. BillsKnown(i)'
  BY <1>1, <1>2, <1>3, <1>4, <1>5 DEF Sound, BillsKnown
<1>8. \A r \in RunsOf(i), k \in Part : Imported(r, k)'
  BY <1>1, <1>2, <1>3 DEF Sound, DetailsKnown, Imported
<1>9. DetailsKnown(i)'
  BY <1>1, <1>3, <1>5, <1>8 DEF Sound, DetailsKnown
<1>10. SuccessLasts(i)'
  <2>1. (\A r \in RunsOf(i) : ~Under(r)) /\ Complete(i) => Complete(i)'
    BY <1>1, <1>2, <1>3 DEF Complete, Under
  <2> QED
    BY <1>1, <1>3, <1>4, <1>5, <2>1 DEF Sound, SuccessLasts
<1> QED
  BY <1>6, <1>7, <1>9, <1>10 DEF Sound

-----------------------------------------------------------------------------

LEMMA InitSound == Init => IInv
<1> SUFFICES ASSUME Init PROVE IInv
  OBVIOUS
<1>1. TypeOK
  BY InitTyped
<1>2. /\ \A c \in Call : call[c] = Idle
      /\ \A r \in Run : run[r] = NoRun
      /\ \A i \in Invoice : status[i] = "absent"
      /\ bills = {} /\ \A r \in Run, k \in Part : details[<<r, k>>] = 0
  BY DEF Init, Part
<1>3. Linked
  BY <1>2 DEF Linked, Idle, NoRun, Parsing, Reparsing, None
<1>4. ASSUME NEW i \in Invoice PROVE Sound(i)
  <2>1. RunsOf(i) = {} /\ \A c \in Call : ~Parses(c, i)
    BY <1>2, NoneAssumption DEF RunsOf, Parses, Idle, NoRun, None
  <2> QED
    BY <1>2, <2>1 DEF Sound, Alone, BillsKnown, DetailsKnown, SuccessLasts, BillsOf
<1> QED
  BY <1>1, <1>3, <1>4 DEF IInv

LEMMA StepSound == IInv /\ [Next]_vars => IInv'
<1> SUFFICES ASSUME IInv, [Next]_vars PROVE IInv'
  OBVIOUS
<1>1. TypeOK /\ Linked
  BY DEF IInv
<1>2. TypeOK' /\ Linked'
  BY <1>1, StepTyped, StepLinked
<1>3. ASSUME NEW i \in Invoice, i \notin overlapped' PROVE Sound(i)'
  <2>1. overlapped \subseteq overlapped'
    BY <1>1 DEF Next, Proceed, Parse, HandleResult, UploadColissimo, ParseInvoice, StartParse, ReResolve, Overlap, Notify,
       Trigger, WriteStatus, SetStatus, FindBills, DeleteDetails, DeleteBills, ShowFailure, TellOms, PushInvoices, FailCall,
       StopCalls, SaveBill, ReportFailure, SendResult, Verify, ImportDetails, MarkSuccess, MarkFailed, FailResult,
       StopListener, history, vars
  <2>2. Sound(i)
    BY <1>3, <2>1 DEF IInv
  <2>3. CASE \E j \in Invoice : UploadColissimo(j)
    BY <1>1, <2>2, <2>3, UploadSound
  <2>4. CASE \E c \in Call, j \in Invoice : ParseInvoice(c, j) \/ StartParse(c, j) \/ ReResolve(c, j)
    BY <1>1, <1>3, <2>2, <2>4, RequestSound
  <2>5. CASE \E c \in Call, j \in Invoice : Notify(c, j)
    BY <1>1, <2>2, <2>5, NotifySound
  <2>6. ASSUME NEW c \in Call, Proceed(c) PROVE Sound(i)'
    BY <1>1, <1>3, <2>2, <2>6, TriggerSound, StatusSound, FindSound, DeleteDetailsSound, DeleteBillsSound, NotifySound DEF Proceed
  <2>7. CASE (\E c \in Call : FailCall(c)) \/ StopCalls
    BY <1>1, <2>2, <2>7, FailCallSound
  <2>8. CASE \E r \in Run : Parse(r) \/ HandleResult(r) \/ FailResult(r)
    BY <1>1, <2>2, <2>8, RunSound
  <2>9. CASE StopListener
    BY <1>1, <2>2, <2>9, StopListenerSound
  <2>10. CASE UNCHANGED vars
    BY <2>2, <2>10, Untouched DEF vars, invoiceVars, history
  <2> QED
    BY <2>3, <2>4, <2>5, <2>6, <2>7, <2>8, <2>9, <2>10 DEF Next
<1> QED
  BY <1>2, <1>3 DEF IInv

LEMMA IInvHolds == Spec => []IInv
  BY InitSound, StepSound, PTL DEF Spec

\* Types of the invoices, of the requests and of the runs of the parser.
THEOREM TypesHold == Spec => []TypeOK
<1>1. IInv => TypeOK
  BY DEF IInv
<1> QED
  BY <1>1, IInvHolds, PTL

\* SuccessIsComplete: an invoice that is a success has the one bill of its last parse with all
\* of its details and no others, though parses before broke off, for any number of invoices,
\* parts, requests, parses and failures.
THEOREM SuccessIsAlwaysComplete == Spec => []SuccessIsComplete
<1>1. IInv => SuccessIsComplete
  <2> SUFFICES ASSUME IInv, NEW i \in Invoice \ overlapped, status[i] = "success"
               PROVE  Complete(i)
    BY DEF SuccessIsComplete, Complete, Part
  <2> QED
    BY DEF IInv, Sound, SuccessLasts
<1> QED
  BY <1>1, IInvHolds, PTL

-----------------------------------------------------------------------------
(* The platform is told once. *)

Notified(c) == call[c].at \in Notifying

\* Two operators who notify at once are noted, and so is one who is overtaken by a push.
Told ==
  /\ \A c, d \in Call :
       Notified(c) /\ Notified(d) /\ c # d /\ KindOf[call[c].invoice] = KindOf[call[d].invoice]
       => KindOf[call[c].invoice] \in doubled
  /\ \A c \in Call : call[c].at = "tell" =>
       \A j \in SameKind(call[c].invoice) : pushed[j] => KindOf[j] \in doubled

LEMMA StepTold == IInv /\ Told /\ [Next]_vars => Told'
<1> SUFFICES ASSUME TypeOK, Linked, Told, [Next]_vars PROVE Told'
  BY DEF IInv
<1>0. call \in [Call -> CallState] /\ "tell" \in Notifying /\ "idle" \notin Notifying
  BY DEF TypeOK, CallState, Notifying
<1>1. ASSUME NEW c \in Call, NEW i \in Invoice, Notify(c, i) PROVE Told'
  <2>1. /\ call[c].at = "idle" /\ call'[c].at = "tell" /\ call'[c].invoice = i
        /\ \A d \in Call \ {c} : call'[d] = call[d]
        /\ UNCHANGED pushed /\ \A j \in SameKind(i) : ~pushed[j]
    BY <1>1, <1>0 DEF Notify, Request, Idle, invoiceVars
  <2>2. /\ doubled \subseteq doubled'
        /\ \A d \in Call : Notified(d) /\ KindOf[call[d].invoice] = KindOf[i] => KindOf[i] \in doubled'
    BY <1>1 DEF Notify, Notified
  <2>3. ASSUME NEW d \in Call, NEW e \in Call, Notified(d)', Notified(e)', d # e, KindOf[call'[d].invoice] = KindOf[call'[e].invoice]
        PROVE  KindOf[call'[d].invoice] \in doubled'
    BY <2>1, <2>2, <2>3 DEF Told, Notified
  <2>4. ASSUME NEW d \in Call, call'[d].at = "tell", NEW j \in Invoice, KindOf[j] = KindOf[call'[d].invoice], pushed'[j]
        PROVE  KindOf[j] \in doubled'
    BY <2>1, <2>2, <2>4 DEF Told, SameKind
  <2> QED
    BY <2>3, <2>4 DEF Told, SameKind, Notified
<1>2. ASSUME NEW c \in Call, PushInvoices(c) PROVE Told'
  <2>1. /\ call[c].at = "push" /\ call'[c].at = "idle" /\ UNCHANGED doubled
        /\ \A d \in Call \ {c} : call'[d] = call[d]
    BY <1>2, <1>0 DEF PushInvoices, Goto, Idle, history
  <2>2. \A j \in Invoice : pushed'[j] => pushed[j] \/ KindOf[j] = KindOf[call[c].invoice]
    BY <1>2 DEF PushInvoices, SameKind
  <2>3. ASSUME NEW d \in Call, call'[d].at = "tell", NEW j \in Invoice, KindOf[j] = KindOf[call'[d].invoice], pushed'[j]
        PROVE  KindOf[j] \in doubled'
    <3>1. d # c /\ call'[d] = call[d] /\ Notified(d) /\ Notified(c)
      BY <2>1, <2>3, <1>0 DEF Notified, Notifying
    <3> QED
      BY <2>1, <2>2, <2>3, <3>1 DEF Told, SameKind
  <2>4. ASSUME NEW d \in Call, NEW e \in Call, Notified(d)', Notified(e)', d # e, KindOf[call'[d].invoice] = KindOf[call'[e].invoice]
        PROVE  KindOf[call'[d].invoice] \in doubled'
    BY <2>1, <2>4, <1>0 DEF Told, Notified
  <2> QED
    BY <2>3, <2>4 DEF Told, SameKind, Notified
<1>3. ASSUME UNCHANGED <<pushed, doubled>>,
             \A c \in Call : Notified(c)' =>
               /\ Notified(c) /\ call'[c].invoice = call[c].invoice
               /\ call'[c].at = "tell" => call[c].at = "tell"
      PROVE  Told'
  BY <1>3, <1>0 DEF Told, SameKind, Notified
<1>4. ASSUME NEW c \in Call, Proceed(c) \/ FailCall(c), ~PushInvoices(c) PROVE Told'
  <2>1. UNCHANGED <<pushed, doubled>>
    BY <1>4 DEF Proceed, FailCall, Trigger, WriteStatus, SetStatus, FindBills, DeleteDetails, DeleteBills, ShowFailure,
       TellOms, invoiceVars, history
  <2>2. \A d \in Call \ {c} : call'[d] = call[d]
    BY <1>4, <1>0 DEF Proceed, FailCall, Trigger, WriteStatus, SetStatus, FindBills, DeleteDetails, DeleteBills, ShowFailure,
       TellOms, Goto
  <2>3. CASE TellOms(c)
    <3>1. call[c].at = "tell" /\ call'[c].at = "push" /\ call'[c].invoice = call[c].invoice
      BY <2>3, <1>0 DEF TellOms, Goto, CallState
    <3> QED
      BY <1>3, <2>1, <2>2, <3>1 DEF Notified, Notifying
  <2>4. CASE ~TellOms(c)
    <3>1. call'[c].at \notin Notifying
      <4>1. ASSUME NEW from, NEW to \in {"idle", "find", "retrigger", "failing"}, Goto(c, from, to)
            PROVE  call'[c].at \notin Notifying
        BY <4>1, <1>0 DEF Goto, Idle, Notifying, CallState
      <4>2. CASE FailCall(c)
        BY <4>1, <4>2 DEF FailCall
      <4>3. CASE WriteStatus(c) \/ SetStatus(c) \/ DeleteBills(c) \/ ShowFailure(c)
        BY <4>1, <4>3 DEF WriteStatus, SetStatus, DeleteBills, ShowFailure
      <4>4. CASE Trigger(c)
        BY <4>4, <1>0 DEF Trigger, Idle, Notifying, CallState
      <4>5. CASE FindBills(c) \/ DeleteDetails(c)
        BY <4>5, <1>0 DEF FindBills, DeleteDetails, Notifying, CallState
      <4> QED
        BY <1>4, <2>4, <4>2, <4>3, <4>4, <4>5 DEF Proceed
    <3> QED
      BY <1>3, <2>1, <2>2, <3>1 DEF Notified
  <2> QED
    BY <2>3, <2>4
<1>5. ASSUME NEW c \in Call, NEW i \in Invoice, ParseInvoice(c, i) \/ StartParse(c, i) \/ ReResolve(c, i) PROVE Told'
  <2>1. PICK at \in {"trigger", "save", "set"}, st \in Status : Request(c, i, at, st)
    BY <1>5 DEF ParseInvoice, StartParse, ReResolve, WhetherParsing, Status
  <2>2. call'[c].at \notin Notifying /\ \A d \in Call \ {c} : call'[d] = call[d]
    BY <2>1, <1>0 DEF Request, Idle, Notifying
  <2>3. UNCHANGED <<pushed, doubled>>
    BY <1>5 DEF ParseInvoice, StartParse, ReResolve, invoiceVars, history
  <2> QED
    BY <1>3, <2>2, <2>3 DEF Notified
<1>6. CASE StopCalls
  <2>1. UNCHANGED <<pushed, doubled>> /\ \A c \in Call : call'[c] = Idle
    BY <1>6 DEF StopCalls, invoiceVars
  <2> QED
    BY <1>3, <1>0, <2>1 DEF Notified, Idle
<1>7. CASE UNCHANGED <<call, pushed, doubled>>
  BY <1>3, <1>7 DEF Notified
<1> QED
  BY <1>1, <1>2, <1>4, <1>5, <1>6, <1>7 DEF Next, Proceed, Parse, HandleResult, UploadColissimo, SaveBill, ReportFailure,
     SendResult, Verify, ImportDetails, MarkSuccess, MarkFailed, EndRun, FailResult, StopListener, invoiceVars, history, vars

\* ToldOnce: the platform is not told again once invoices of the type are pushed, unless two
\* operators tell it at once, for any number of invoices, operators and failures.
THEOREM PlatformIsToldOnce == Spec => ToldOnce
<1>1. Init => Told
  BY DEF Init, Told, Notified, Notifying, Idle
<1>2. IInv /\ Told /\ [Next]_vars =>
        [\A c \in Call : TellOms(c) => \A j \in SameKind(call[c].invoice) : pushed[j] => KindOf[j] \in doubled]_vars
  BY DEF Told, TellOms, Goto
<1> QED
  BY <1>1, <1>2, StepTold, IInvHolds, PTL DEF Spec, ToldOnce
=============================================================================
