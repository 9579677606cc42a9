----------------------------- MODULE CrawlerPlan -----------------------------
(***************************************************************************)
(* sct_crawler_plan and sct_crawler_target: which files of parcels are to  *)
(* be crawled when, and who works on them.  CrawlerPlanManagerJob collects *)
(* parcels into files and resets plans that run for too long, executions   *)
(* of CrawlerPlanExecutorJob take one due plan each and make the plans of  *)
(* the next day, and CrawlerPlanMergeJob moves the targets that are left   *)
(* into new files.  None of these jobs is awaited by JobController, so     *)
(* that they overlap, and none of them locks a row.                        *)
(*                                                                         *)
(* Time is a count of the points of the schedule that have passed; whether *)
(* a plan was taken less than 20 minutes ago is kept apart.                *)
(***************************************************************************)
EXTENDS Integers, Sequences, FiniteSetsExt

CONSTANTS
  Target,        \* rows of sct_crawler_target
  File,          \* paths of files of parcels
  Executor,      \* executions of CrawlerPlanExecutorJob at the same time
  Points,        \* crawls per day (multiplePoints of sct_crawler_config)
  MaxCount,      \* crawls after which a target is given up (max_count)
  MaxQuantity,   \* parcels that may be crawled at once (70000 in the code)
  Late,          \* the jobs that may take longer than they should, see below
  MaxPlans,      \* bound: rows of sct_crawler_plan
  MaxFailures    \* bound: crawls and insertions that fail, processes that stop

None == "none"

ASSUME CountAssumption == Points \in Nat \ {0} /\ MaxCount \in Nat \ {0} /\ MaxPlans \in Nat
ASSUME TargetAssumption == IsFiniteSet(Target)
ASSUME FileAssumption == None \notin File
\* "executor": an execution may still be at work when its plan is reset, 1.5 hours
\* after it was taken.  "writer": an execution or a merge may come between the insert
\* of the plans of a file and the write of its targets.
ASSUME LateAssumption == Late \subseteq {"executor", "writer"}

VARIABLES
  now,          \* points of the schedule that have passed, from the second day on
  plans,        \* sct_crawler_plan; the place of a row is its id
  recent,       \* the running plans that were taken less than 20 minutes ago
  target,       \* sct_crawler_target
  pc,           \* where each execution is
  held,         \* the plan it found
  toCrawl,      \* the active targets it read
  collecting,   \* the file and the targets a collection has yet to insert
  merge,        \* the state of CrawlerPlanMergeJob
  abandoned,    \* history: files whose next plans could not be inserted
  failures

execVars == <<pc, held, toCrawl>>
vars == <<now, plans, recent, target, execVars, collecting, merge, abandoned, failures>>

PlanId == 1 .. MaxPlans
Status == {"READY", "RUNNING", "DONE"}
Plan == [file : File, schedule : Nat, status : Status, size : Nat]

\* A target without a file has not been collected yet.
TargetRow == [file : File \cup {None}, active : BOOLEAN, count : Nat]

ExecutorStep == {"idle", "taking", "reading", "crawling", "retiring", "checking",
                 "planning", "closing", "inserting", "finishing"}
MergeStep == {"idle", "selecting", "saving", "moving", "closing"}

TypeOK ==
  /\ now \in Nat
  /\ plans \in Seq(Plan) /\ Len(plans) <= MaxPlans
  /\ recent \subseteq DOMAIN plans
  /\ target \in [Target -> TargetRow]
  /\ pc \in [Executor -> ExecutorStep]
  /\ held \in [Executor -> PlanId \cup {0}]
  /\ \A e \in Executor : pc[e] # "idle" => held[e] \in DOMAIN plans
  /\ toCrawl \in [Executor -> SUBSET Target]
  /\ collecting \in [file : File \cup {None}, targets : SUBSET Target]
  /\ merge \in [step : MergeStep, old : SUBSET PlanId, targets : SUBSET Target,
                file : File \cup {None}]
  /\ abandoned \subseteq File
  /\ failures \in Nat

NoCollection == [file |-> None, targets |-> {}]
NoMerge == [step |-> "idle", old |-> {}, targets |-> {}, file |-> None]

Init ==
  /\ now = Points
  /\ plans = <<>>
  /\ recent = {}
  /\ target = [t \in Target |-> [file |-> None, active |-> FALSE, count |-> 0]]
  /\ pc = [e \in Executor |-> "idle"]
  /\ held = [e \in Executor |-> 0]
  /\ toCrawl = [e \in Executor |-> {}]
  /\ collecting = NoCollection
  /\ merge = NoMerge
  /\ abandoned = {}
  /\ failures = 0

-----------------------------------------------------------------------------
Ids == DOMAIN plans
With(status) == {p \in Ids : plans[p].status = status}
Of(f) == {p \in Ids : plans[p].file = f}
Mark(S, status) == [p \in Ids |-> IF p \in S THEN [plans[p] EXCEPT !.status = status] ELSE plans[p]]

Ready(f, s, n) == [file |-> f, schedule |-> s, status |-> "READY", size |-> n]

\* A set of points of the schedule as it is configured, the earlier ones first.
Ascending(points) ==
  {s \in [1 .. Cardinality(points) -> points] : \A i, j \in DOMAIN s : i < j => s[i] < s[j]}

\* The new rows of a file of n parcels, one for each point.
Inserted(f, points, n) == plans \o [i \in DOMAIN points |-> Ready(f, points[i], n)]

Room(points) == Len(plans) + Len(points) <= MaxPlans
Unused == {f \in File : Of(f) = {} /\ collecting.file # f /\ merge.file # f}

\* The day it is: between its last point and the first of the next day, either.
Today == {(now - 1) \div Points, now \div Points}
PointsOf(day) == day * Points .. day * Points + Points - 1

\* The points that are left of the day, or those of the next when there is none left.
Coming == {s \in PointsOf(now \div Points) : s >= now}

\* A point of the schedule passes; only as long as some plan waits for one.
Tick ==
  /\ \E p \in With("READY") : plans[p].schedule >= now
  /\ now' = now + 1
  /\ UNCHANGED <<plans, recent, target, execVars, collecting, merge, abandoned, failures>>

\* 20 minutes have passed since a plan was taken.
Age(p) ==
  /\ p \in recent
  /\ recent' = recent \ {p}
  /\ UNCHANGED <<now, plans, target, execVars, collecting, merge, abandoned, failures>>

-----------------------------------------------------------------------------
Collected(f, T) ==
  [t \in Target |-> IF t \in T THEN [file |-> f, active |-> TRUE, count |-> 0] ELSE target[t]]

Uncollected == {t \in Target : target[t].file = None}

\* COLLECT_PARCEL: the plans of a file are inserted, and then its targets.
CollectPlans(f, T) ==
  /\ collecting = NoCollection
  /\ f \in Unused
  /\ T \in SUBSET Uncollected \ {{}}
  /\ \E points \in Ascending(Coming) :
       /\ Room(points)
       /\ plans' = Inserted(f, points, Cardinality(T))
  /\ collecting' = [file |-> f, targets |-> T]
  /\ UNCHANGED <<now, recent, target, execVars, merge, abandoned, failures>>

InsertTargets ==
  /\ collecting.file # None
  /\ target' = Collected(collecting.file, collecting.targets)
  /\ collecting' = NoCollection
  /\ UNCHANGED <<now, plans, recent, execVars, merge, abandoned, failures>>

\* A plan made by hand, together with its targets: it has a time of its own, and there
\* is one for every point that is left of the day.
CreatePlan(f, T) ==
  /\ f \in Unused
  /\ T \in SUBSET (Uncollected \ collecting.targets) \ {{}}
  /\ \E day \in Today : \E points \in Ascending({s \in PointsOf(day) : s >= now}) :
       /\ Len(plans) + Len(points) < MaxPlans
       /\ plans' = Append(Inserted(f, points, Cardinality(T)), Ready(f, now, Cardinality(T)))
  /\ target' = Collected(f, T)
  /\ UNCHANGED <<now, recent, execVars, collecting, merge, abandoned, failures>>

\* HOURLY: a plan that has been RUNNING for more than 1.5 hours is made READY.
Reset(p) ==
  /\ p \in With("RUNNING") \ recent
  /\ "executor" \in Late \/ \A e \in Executor : pc[e] = "idle" \/ held[e] # p
  /\ plans' = Mark({p}, "READY")
  /\ UNCHANGED <<now, recent, target, execVars, collecting, merge, abandoned, failures>>

\* A handler of trackings finds that the parcel has reached its aim.
ReachAim(t) ==
  /\ target[t].active
  /\ target' = [target EXCEPT ![t].active = FALSE]
  /\ UNCHANGED <<now, plans, recent, execVars, collecting, merge, abandoned, failures>>

-----------------------------------------------------------------------------
Goto(e, from, to) ==
  /\ pc[e] = from
  /\ pc' = [pc EXCEPT ![e] = to]

Due == {p \in With("READY") : plans[p].schedule < now}

\* ORDER BY schedule, id.
First(p) ==
  \A q \in Due : \/ plans[p].schedule < plans[q].schedule
                 \/ plans[p].schedule = plans[q].schedule /\ p <= q

Quantity(S) == MapThenSumSet(LAMBDA p : plans[p].size, S)

\* The plans that were taken not long ago and are due no later than a plan.
RunningBeside(p) ==
  {q \in With("RUNNING") \cap recent : plans[q].schedule <= plans[p].schedule}

\* The first plan that is due is found, if there is room for its parcels.
FindPlan(e) ==
  /\ Goto(e, "idle", "taking")
  /\ \E p \in Due :
       /\ First(p)
       /\ "writer" \in Late \/ plans[p].file \notin {collecting.file, merge.file}
       /\ Quantity(RunningBeside(p)) + plans[p].size <= MaxQuantity
       /\ held' = [held EXCEPT ![e] = p]
  /\ UNCHANGED <<now, plans, recent, target, toCrawl, collecting, merge, abandoned, failures>>

\* The plan is taken whatever has become of it since it was found.
TakePlan(e) ==
  /\ Goto(e, "taking", "reading")
  /\ plans' = Mark({held[e]}, "RUNNING")
  /\ recent' = recent \cup {held[e]}
  /\ UNCHANGED <<now, target, held, toCrawl, collecting, merge, abandoned, failures>>

ActiveOf(f) == {t \in Target : target[t].file = f /\ target[t].active}
FileOf(e) == plans[held[e]].file

ReadTargets(e) ==
  /\ Goto(e, "reading", "crawling")
  /\ toCrawl' = [toCrawl EXCEPT ![e] = ActiveOf(FileOf(e))]
  /\ UNCHANGED <<now, plans, recent, target, held, collecting, merge, abandoned, failures>>

\* The trackings are fetched, and the crawls of the targets that were read are counted.
Crawl(e) ==
  /\ Goto(e, "crawling", "retiring")
  /\ target' = [t \in Target |-> IF t \in toCrawl[e]
                THEN [target[t] EXCEPT !.count = @ + 1] ELSE target[t]]
  /\ UNCHANGED <<now, plans, recent, held, toCrawl, collecting, merge, abandoned, failures>>

\* The targets of a set that have been crawled often enough are given up.
GivenUp(T) ==
  [t \in Target |-> IF t \in T /\ target[t].count >= MaxCount
                    THEN [target[t] EXCEPT !.active = FALSE] ELSE target[t]]

UpdateActive(e) ==
  /\ Goto(e, "retiring", "checking")
  /\ target' = GivenUp(toCrawl[e])
  /\ toCrawl' = [toCrawl EXCEPT ![e] = {}]
  /\ UNCHANGED <<now, plans, recent, held, collecting, merge, abandoned, failures>>

\* The transporter does not answer or a query fails: the execution goes on all the same.
FailCrawl(e) ==
  /\ failures < MaxFailures
  /\ failures' = failures + 1
  /\ pc[e] \in {"crawling", "retiring"}
  /\ Goto(e, pc[e], "checking")
  /\ toCrawl' = [toCrawl EXCEPT ![e] = {}]
  /\ UNCHANGED <<now, plans, recent, target, held, collecting, merge, abandoned>>

\* DAILY_MAX_COUNT_NO_ACTIVE.
UpdateAllActive ==
  /\ target' = GivenUp(Target)
  /\ UNCHANGED <<now, plans, recent, execVars, collecting, merge, abandoned, failures>>

\* Wrong: a plan that is being worked on counts as the next one.
CheckNextOpen(e) ==
  /\ Goto(e, "checking", IF Of(FileOf(e)) \cap (With("READY") \cup With("RUNNING")) = {}
                        THEN "planning" ELSE "finishing")
  /\ UNCHANGED <<now, plans, recent, target, held, toCrawl, collecting, merge, abandoned, failures>>

CheckNext(e) ==
  /\ Goto(e, "checking", IF Of(FileOf(e)) \cap With("READY") = {} THEN "planning" ELSE "finishing")
  /\ UNCHANGED <<now, plans, recent, target, held, toCrawl, collecting, merge, abandoned, failures>>

CountTargets(e) ==
  /\ Goto(e, "planning", IF ActiveOf(FileOf(e)) = {} THEN "closing" ELSE "inserting")
  /\ UNCHANGED <<now, plans, recent, target, held, toCrawl, collecting, merge, abandoned, failures>>

CloseFile(e) ==
  /\ Goto(e, "closing", "finishing")
  /\ plans' = Mark(Of(FileOf(e)) \cap With("READY"), "DONE")
  /\ UNCHANGED <<now, recent, target, held, toCrawl, collecting, merge, abandoned, failures>>

InsertNext(e) ==
  /\ Goto(e, "inserting", "finishing")
  /\ \E day \in Today : \E points \in Ascending(PointsOf(day + 1)) :
       /\ Room(points)
       /\ plans' = Inserted(FileOf(e), points, plans[held[e]].size)
  /\ UNCHANGED <<now, recent, target, held, toCrawl, collecting, merge, abandoned, failures>>

\* Wrong: the plan is recorded in the place of its file.
GiveUpFileById(e) ==
  /\ failures < MaxFailures
  /\ failures' = failures + 1
  /\ Goto(e, "inserting", "finishing")
  /\ abandoned' = abandoned \cup {held[e]}
  /\ UNCHANGED <<now, plans, recent, target, held, toCrawl, collecting, merge>>

\* There is no enabled configuration any more, or the insert fails and is only reported.
GiveUpFile(e) ==
  /\ failures < MaxFailures
  /\ failures' = failures + 1
  /\ Goto(e, "inserting", "finishing")
  /\ abandoned' = abandoned \cup {FileOf(e)}
  /\ UNCHANGED <<now, plans, recent, target, held, toCrawl, collecting, merge>>

Finish(e) ==
  /\ Goto(e, "finishing", "idle")
  /\ plans' = Mark({held[e]}, "DONE")
  /\ recent' = recent \ {held[e]}
  /\ held' = [held EXCEPT ![e] = 0]
  /\ UNCHANGED <<now, target, toCrawl, collecting, merge, abandoned, failures>>

\* Wrong: an execution that breaks off ends its plan as if it had come to its end.
BreakDone(e) ==
  /\ failures < MaxFailures
  /\ failures' = failures + 1
  /\ pc[e] # "idle"
  /\ plans' = Mark({held[e]}, "DONE")
  /\ recent' = recent \ {held[e]}
  /\ pc' = [pc EXCEPT ![e] = "idle"]
  /\ held' = [held EXCEPT ![e] = 0]
  /\ toCrawl' = [toCrawl EXCEPT ![e] = {}]
  /\ UNCHANGED <<now, target, collecting, merge, abandoned>>

\* An execution breaks off, or its process restarts: its plan stays as it is.
Break(e) ==
  /\ failures < MaxFailures
  /\ failures' = failures + 1
  /\ pc[e] # "idle"
  /\ pc' = [pc EXCEPT ![e] = "idle"]
  /\ held' = [held EXCEPT ![e] = 0]
  /\ toCrawl' = [toCrawl EXCEPT ![e] = {}]
  /\ UNCHANGED <<now, plans, recent, target, collecting, merge, abandoned>>

-----------------------------------------------------------------------------
MergeFindPlans ==
  /\ merge.step = "idle"
  /\ "writer" \in Late \/ collecting.file = None
  /\ With("READY") # {}
  /\ merge' = [merge EXCEPT !.step = "selecting", !.old = With("READY")]
  /\ UNCHANGED <<now, plans, recent, target, execVars, collecting, abandoned, failures>>

MergeFindTargets ==
  /\ merge.step = "selecting"
  /\ LET T == UNION {ActiveOf(plans[p].file) : p \in merge.old}
     IN merge' = [merge EXCEPT !.targets = T, !.step = IF T = {} THEN "closing" ELSE "saving"]
  /\ UNCHANGED <<now, plans, recent, target, execVars, collecting, abandoned, failures>>

\* A new file has plans today at the times of day of the plans it replaces.
MergeSavePlans ==
  /\ merge.step = "saving"
  /\ \E f \in Unused, day \in Today :
       \E points \in Ascending({day * Points + (plans[p].schedule % Points) : p \in merge.old}) :
         /\ Room(points)
         /\ plans' = Inserted(f, points, Cardinality(merge.targets))
         /\ merge' = [merge EXCEPT !.step = "moving", !.file = f]
  /\ UNCHANGED <<now, recent, target, execVars, collecting, abandoned, failures>>

MergeMoveTargets ==
  /\ merge.step = "moving"
  /\ target' = [t \in Target |-> IF t \in merge.targets
                THEN [target[t] EXCEPT !.file = merge.file] ELSE target[t]]
  /\ merge' = [merge EXCEPT !.step = "closing", !.file = None, !.targets = {}]
  /\ UNCHANGED <<now, plans, recent, execVars, collecting, abandoned, failures>>

MergeClosePlans ==
  /\ merge.step = "closing"
  /\ plans' = Mark(merge.old, "DONE")
  /\ recent' = recent \ merge.old
  /\ merge' = NoMerge
  /\ UNCHANGED <<now, target, execVars, collecting, abandoned, failures>>

\* The manager or the merge stops half way.
BreakWriter ==
  /\ failures < MaxFailures
  /\ failures' = failures + 1
  /\ \/ merge # NoMerge /\ merge' = NoMerge /\ collecting' = collecting
     \/ collecting # NoCollection /\ collecting' = NoCollection /\ merge' = merge
  /\ UNCHANGED <<now, plans, recent, target, execVars, abandoned>>

-----------------------------------------------------------------------------
Execute(e) ==
  \/ FindPlan(e) \/ TakePlan(e) \/ ReadTargets(e) \/ Crawl(e) \/ UpdateActive(e)
  \/ CheckNext(e) \/ CountTargets(e) \/ CloseFile(e) \/ InsertNext(e) \/ Finish(e)

Merge ==
  MergeFindPlans \/ MergeFindTargets \/ MergeSavePlans \/ MergeMoveTargets \/ MergeClosePlans

Next ==
  \/ Tick
  \/ \E p \in Ids : Age(p) \/ Reset(p)
  \/ \E f \in File, T \in SUBSET Target : CollectPlans(f, T) \/ CreatePlan(f, T)
  \/ InsertTargets
  \/ \E t \in Target : ReachAim(t)
  \/ UpdateAllActive
  \/ \E e \in Executor : Execute(e) \/ FailCrawl(e) \/ GiveUpFile(e) \/ Break(e)
  \/ Merge
  \/ BreakWriter

Spec == Init /\ [][Next]_vars

\* Time passes, SM calls the jobs, and what a job awaits is answered.  Whether
\* anything is collected or merged is left open, but a merge that began ends.
FairSpec ==
  /\ Spec
  /\ WF_vars(Tick)
  /\ \A p \in PlanId : WF_vars(p \in Ids /\ (Age(p) \/ Reset(p)))
  /\ WF_vars(InsertTargets)
  /\ \A e \in Executor : WF_vars(Execute(e))
  /\ WF_vars(Merge /\ merge.step # "idle")

-----------------------------------------------------------------------------
Open == With("READY") \cup With("RUNNING")

\* A target that is still to be crawled belongs to a file with a plan that is open:
\* none is forgotten when executions take the same plan, break off or are reset, and
\* while files are merged, unless it was reported that its plans cannot be made.
ActiveTargetIsPlanned ==
  \A t \in Target : target[t].active =>
    target[t].file \in abandoned \/ Of(target[t].file) \cap Open # {}

\* Every target is crawled until it reaches its aim or has been crawled often enough.
TargetsRetire ==
  \A t \in Target : target[t].active ~> (~target[t].active \/ target[t].file \in abandoned)
=============================================================================
