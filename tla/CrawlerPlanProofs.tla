-------------------------- MODULE CrawlerPlanProofs --------------------------
(***************************************************************************)
(* No target that is still to be crawled is forgotten, for every set of    *)
(* targets, files and executions, and every schedule.                      *)
(*                                                                         *)
(* That its file has an open plan is not inductive: the plan may be ended  *)
(* by an execution that found another one open a moment ago, by one that   *)
(* counted the targets of the file before they were written, or by a merge *)
(* that read them before.  The invariant says what forbids it.  A plan     *)
(* that Lasts is one that no execution is about to end; nobody works on or *)
(* merges a file whose targets are not written yet, and such a file has a  *)
(* plan that waits; an execution that closes a file, or a merge that       *)
(* closes several, leaves no active target in them.                        *)
(*                                                                         *)
(* The first part is about points of the schedule and rows of plans.  The  *)
(* second proves the types.  The third sums up what any step does to the   *)
(* plans, the executions, the merge and the targets, and the last derives  *)
(* each part of the invariant from it.                                     *)
(***************************************************************************)
EXTENDS CrawlerPlan, FiniteSetTheorems, TLAPS

-----------------------------------------------------------------------------
(* Points of the schedule.                                                 *)

LEMMA DivMod ==
  ASSUME NEW n \in Nat
  PROVE  /\ n \div Points \in Nat
         /\ n % Points \in 0 .. Points - 1
         /\ n = ((n \div Points) * Points) + (n % Points)
BY CountAssumption

LEMMA ScaleType ==
  ASSUME NEW d \in Nat
  PROVE  d * Points \in Nat
BY CountAssumption

LEMMA DayType ==
  ASSUME NEW day \in Nat
  PROVE  PointsOf(day) \subseteq Nat /\ IsFiniteSet(PointsOf(day))
<1>1. day * Points \in Nat /\ day * Points + Points - 1 \in Int
  BY ScaleType, CountAssumption
<1> DEFINE first == day * Points
           last == day * Points + Points - 1
<1> HIDE DEF first, last
<1>2. first .. last \subseteq Nat /\ IsFiniteSet(first .. last)
  BY <1>1, FS_Interval DEF first, last
<1> QED
  BY <1>2 DEF PointsOf, first, last

\* The day has not begun before the first point that is counted.
LEMMA TodayType ==
  ASSUME now \in Nat, now >= 1
  PROVE  /\ Today \subseteq Nat
         /\ now \in Coming
         /\ Coming \subseteq Nat /\ IsFiniteSet(Coming)
<1>1. now - 1 \in Nat /\ now \in Nat
  OBVIOUS
<1>2. (now - 1) \div Points \in Nat /\ now \div Points \in Nat
  BY <1>1, DivMod
<1>3. now \in PointsOf(now \div Points)
  <2> DEFINE day == now \div Points
             rest == now % Points
  <2>1. rest \in 0 .. Points - 1 /\ now = (day * Points) + rest
    BY DivMod
  <2>2. day * Points \in Nat
    BY <1>2, ScaleType
  <2> HIDE DEF day, rest
  <2> DEFINE first == day * Points
  <2> HIDE DEF first
  <2>3. now \in first .. first + Points - 1
    BY <2>1, <2>2, CountAssumption DEF first
  <2> QED
    BY <2>3 DEF PointsOf, first, day
<1>4. PointsOf(now \div Points) \subseteq Nat /\ IsFiniteSet(PointsOf(now \div Points))
  BY <1>2, DayType
<1>5. Coming \subseteq PointsOf(now \div Points) /\ now \in Coming
  BY <1>3, <1>4 DEF Coming
<1> QED
  BY <1>2, <1>4, <1>5, FS_Subset DEF Today

LEMMA AscendingFacts ==
  ASSUME NEW S \in SUBSET Nat, IsFiniteSet(S), NEW s \in Ascending(S)
  PROVE  s \in Seq(Nat) /\ (S # {} => Len(s) >= 1)
<1> DEFINE n == Cardinality(S)
<1>1. n \in Nat /\ (S # {} => n # 0)
  BY FS_CardinalityType, FS_EmptySet
<1>2. s \in [1 .. n -> S]
  BY DEF Ascending
<1> HIDE DEF n
<1>3. s \in [1 .. n -> Nat]
  BY <1>2
<1>4. s \in Seq(Nat) /\ Len(s) = n
  BY <1>1, <1>3
<1> QED
  BY <1>1, <1>4

-----------------------------------------------------------------------------
(* What a step does to the plans: rows are added behind the others, or get *)
(* another status.                                                         *)

\* Rows of file f are added, ready to be taken.
Grown(f) ==
  /\ plans' \in Seq(Plan)
  /\ Ids \subseteq DOMAIN plans'
  /\ \A p \in Ids : plans'[p] = plans[p]
  /\ \A p \in DOMAIN plans' \ Ids : plans'[p].file = f /\ plans'[p].status = "READY"

\* The plans of S get a status.
Marked(S, status) ==
  /\ plans' \in Seq(Plan) /\ Len(plans') = Len(plans)
  /\ DOMAIN plans' = Ids
  /\ \A p \in Ids : /\ plans'[p].file = plans[p].file
                    /\ plans'[p].status = IF p \in S THEN status ELSE plans[p].status

LEMMA ReadyType ==
  ASSUME NEW f \in File, NEW s \in Nat, NEW n \in Nat
  PROVE  /\ Ready(f, s, n) \in Plan
         /\ Ready(f, s, n).file = f /\ Ready(f, s, n).status = "READY"
BY DEF Ready, Plan, Status

LEMMA InsertedFacts ==
  ASSUME TypeOK, NEW f \in File, NEW s \in Seq(Nat), NEW n \in Nat
  PROVE  LET new == Inserted(f, s, n)
         IN /\ new \in Seq(Plan) /\ Len(new) = Len(plans) + Len(s)
            /\ \A p \in Ids : p \in DOMAIN new /\ new[p] = plans[p]
            /\ \A p \in DOMAIN new \ Ids : new[p].file = f /\ new[p].status = "READY"
<1> DEFINE rows == [i \in DOMAIN s |-> Ready(f, s[i], n)]
<1>1. DOMAIN s = 1 .. Len(s) /\ Len(s) \in Nat /\ \A i \in DOMAIN s : s[i] \in Nat
  OBVIOUS
<1>2. \A i \in DOMAIN s : /\ Ready(f, s[i], n) \in Plan
                          /\ Ready(f, s[i], n).file = f /\ Ready(f, s[i], n).status = "READY"
  BY <1>1, ReadyType
<1>3. rows \in Seq(Plan) /\ Len(rows) = Len(s)
  BY <1>1, <1>2
<1>4. \A i \in 1 .. Len(s) : rows[i].file = f /\ rows[i].status = "READY"
  BY <1>1, <1>2
<1>5. plans \in Seq(Plan)
  BY DEF TypeOK
<1> HIDE DEF rows
<1>6. Len(plans) \in Nat /\ Ids = 1 .. Len(plans)
  BY <1>5 DEF Ids
<1> DEFINE new == plans \o rows
<1>7. /\ new \in Seq(Plan) /\ Len(new) = Len(plans) + Len(s)
      /\ \A p \in 1 .. Len(plans) : new[p] = plans[p]
      /\ \A p \in Len(plans) + 1 .. Len(plans) + Len(s) : new[p] = rows[p - Len(plans)]
  BY <1>3, <1>5
<1>8. Inserted(f, s, n) = new
  BY DEF Inserted, rows
<1> HIDE DEF new
<1>9. DOMAIN new = 1 .. Len(plans) + Len(s)
  BY <1>7
<1>10. \A p \in Ids : p \in DOMAIN new /\ new[p] = plans[p]
  BY <1>1, <1>6, <1>7, <1>9
<1>11. ASSUME NEW p \in DOMAIN new \ Ids
       PROVE  new[p].file = f /\ new[p].status = "READY"
  <2>1. p \in Len(plans) + 1 .. Len(plans) + Len(s) /\ p - Len(plans) \in 1 .. Len(s)
    BY <1>1, <1>6, <1>9
  <2> QED
    BY <2>1, <1>4, <1>7
<1> QED
  BY <1>7, <1>8, <1>10, <1>11

LEMMA GrownBy ==
  ASSUME TypeOK, NEW f \in File, NEW s \in Seq(Nat), NEW n \in Nat,
         plans' = Inserted(f, s, n)
  PROVE  /\ Grown(f) /\ Len(plans') = Len(plans) + Len(s)
         /\ Len(s) >= 1 => DOMAIN plans' \ Ids # {}
<1>1. Grown(f) /\ Len(plans') = Len(plans) + Len(s)
  BY InsertedFacts DEF Grown
<1>2. Len(s) >= 1 => Len(plans) + 1 \in DOMAIN plans' \ Ids
  BY <1>1 DEF TypeOK, Grown, Ids
<1> QED
  BY <1>1, <1>2

LEMMA GrownByOneMore ==
  ASSUME TypeOK, NEW f \in File, NEW s \in Seq(Nat), NEW n \in Nat, NEW at \in Nat,
         plans' = Append(Inserted(f, s, n), Ready(f, at, n))
  PROVE  /\ Grown(f) /\ Len(plans') = Len(plans) + Len(s) + 1
         /\ DOMAIN plans' \ Ids # {}
<1> DEFINE new == Inserted(f, s, n)
           one == Ready(f, at, n)
<1>1. /\ new \in Seq(Plan) /\ Len(new) = Len(plans) + Len(s)
      /\ \A p \in Ids : p \in DOMAIN new /\ new[p] = plans[p]
      /\ \A p \in DOMAIN new \ Ids : new[p].file = f /\ new[p].status = "READY"
  BY InsertedFacts
<1>2. one \in Plan /\ one.file = f /\ one.status = "READY"
  BY ReadyType
<1>3. plans' = Append(new, one)
  OBVIOUS
<1> HIDE DEF new, one
<1>4. /\ plans' \in Seq(Plan) /\ Len(plans') = Len(new) + 1
      /\ \A p \in DOMAIN new : p \in DOMAIN plans' /\ plans'[p] = new[p]
      /\ \A p \in DOMAIN plans' : p \in DOMAIN new \/ plans'[p] = one
  BY <1>1, <1>2, <1>3
<1>5. Grown(f)
  BY <1>1, <1>2, <1>4 DEF Grown
<1>6. plans \in Seq(Plan) /\ Len(s) \in Nat
  BY DEF TypeOK
<1>7. Len(plans) + 1 \in DOMAIN plans' \ Ids
  BY <1>1, <1>4, <1>6 DEF Ids
<1> QED
  BY <1>1, <1>4, <1>5, <1>7

LEMMA MarkedBy ==
  ASSUME TypeOK, NEW S, NEW status \in Status, plans' = Mark(S, status)
  PROVE  Marked(S, status)
<1>1. plans \in Seq(Plan) /\ Ids = 1 .. Len(plans) /\ Len(plans) \in Nat
  BY DEF TypeOK, Ids
<1>2. \A p \in Ids : plans[p] \in Plan
  BY <1>1
<1> DEFINE row(p) == IF p \in S THEN [plans[p] EXCEPT !.status = status] ELSE plans[p]
<1>3. \A p \in Ids : /\ row(p) \in Plan
                     /\ row(p).file = plans[p].file
                     /\ row(p).status = IF p \in S THEN status ELSE plans[p].status
  BY <1>2 DEF Plan
<1>4. plans' = [p \in Ids |-> row(p)]
  BY DEF Mark
<1> HIDE DEF row
<1>5. plans' \in Seq(Plan) /\ Len(plans') = Len(plans) /\ DOMAIN plans' = Ids
  BY <1>1, <1>3, <1>4
<1> QED
  BY <1>3, <1>4, <1>5 DEF Marked

-----------------------------------------------------------------------------
TypeInv == TypeOK /\ now >= 1 /\ merge.old \subseteq Ids

LEMMA PlansAreFinite ==
  ASSUME TypeOK
  PROVE  /\ Ids \in SUBSET PlanId /\ IsFiniteSet(Ids)
         /\ \A p \in Ids : plans[p] \in Plan
<1>1. plans \in Seq(Plan) /\ Len(plans) \in Nat /\ Len(plans) <= MaxPlans /\ Ids = 1 .. Len(plans)
  BY DEF TypeOK, Ids
<1>2. IsFiniteSet(1 .. Len(plans))
  BY <1>1, FS_Interval
<1>3. 1 .. Len(plans) \subseteq 1 .. MaxPlans
  BY <1>1, CountAssumption
<1>4. \A p \in Ids : plans[p] \in Plan
  BY <1>1
<1> QED
  BY <1>1, <1>2, <1>3, <1>4 DEF PlanId

LEMMA TargetsCount ==
  ASSUME NEW T \in SUBSET Target
  PROVE  Cardinality(T) \in Nat
<1>1. IsFiniteSet(T)
  BY TargetAssumption, FS_Subset
<1> QED
  BY <1>1, FS_CardinalityType

\* The times of day of some plans, on a day.
LEMMA TimesType ==
  ASSUME TypeOK, NEW S \in SUBSET Ids, NEW day \in Nat
  PROVE  LET times == {day * Points + (plans[p].schedule % Points) : p \in S}
         IN times \in SUBSET Nat /\ IsFiniteSet(times) /\ (S # {} => times # {})
<1> DEFINE first == day * Points
           at(p) == first + (plans[p].schedule % Points)
<1>1. first \in Nat
  BY ScaleType
<1>2. ASSUME NEW p \in S
      PROVE  at(p) \in first .. first + Points - 1
  <2>1. plans[p].schedule \in Nat
    BY PlansAreFinite DEF Plan
  <2>2. plans[p].schedule % Points \in 0 .. Points - 1
    BY <2>1, DivMod
  <2> QED
    BY <1>1, <2>2, CountAssumption
<1> HIDE DEF first, at
<1>3. first .. first + Points - 1 \in SUBSET Nat /\ IsFiniteSet(first .. first + Points - 1)
  BY <1>1, FS_Interval, CountAssumption
<1>4. {at(p) : p \in S} \in SUBSET (first .. first + Points - 1) /\ (S # {} => {at(p) : p \in S} # {})
  BY <1>2
<1>5. IsFiniteSet({at(p) : p \in S})
  BY <1>3, <1>4, FS_Subset
<1> QED
  BY <1>3, <1>4, <1>5 DEF at, first

-----------------------------------------------------------------------------
(* What each action that writes to the plans does to them.                 *)

LEMMA CollectGrows ==
  ASSUME TypeInv, NEW f \in File, NEW T \in SUBSET Target, CollectPlans(f, T)
  PROVE  Grown(f) /\ DOMAIN plans' \ Ids # {} /\ Len(plans') <= MaxPlans
<1>1. now \in Coming /\ Coming \in SUBSET Nat /\ IsFiniteSet(Coming) /\ TypeOK
  BY TodayType DEF TypeInv, TypeOK
<1>2. PICK points \in Ascending(Coming) :
         Room(points) /\ plans' = Inserted(f, points, Cardinality(T))
  BY DEF CollectPlans
<1>3. points \in Seq(Nat) /\ Len(points) >= 1
  BY <1>1, AscendingFacts
<1> QED
  BY <1>1, <1>2, <1>3, TargetsCount, GrownBy DEF Room

LEMMA CreateGrows ==
  ASSUME TypeInv, NEW f \in File, NEW T \in SUBSET Target, CreatePlan(f, T)
  PROVE  Grown(f) /\ DOMAIN plans' \ Ids # {} /\ Len(plans') <= MaxPlans
<1>1. Today \subseteq Nat /\ TypeOK /\ now \in Nat
  BY TodayType DEF TypeInv, TypeOK
<1> DEFINE Rest(day) == {s \in PointsOf(day) : s >= now}
<1>2. PICK day \in Today : \E points \in Ascending(Rest(day)) :
         /\ Len(plans) + Len(points) < MaxPlans
         /\ plans' = Append(Inserted(f, points, Cardinality(T)), Ready(f, now, Cardinality(T)))
  BY DEF CreatePlan
<1>3. Rest(day) \in SUBSET Nat /\ IsFiniteSet(Rest(day))
  BY <1>1, DayType, FS_Subset
<1> HIDE DEF Rest
<1>4. PICK points \in Ascending(Rest(day)) :
         /\ Len(plans) + Len(points) < MaxPlans
         /\ plans' = Append(Inserted(f, points, Cardinality(T)), Ready(f, now, Cardinality(T)))
  BY <1>2
<1>5. points \in Seq(Nat)
  BY <1>3, AscendingFacts
<1>6. Grown(f) /\ DOMAIN plans' \ Ids # {} /\ Len(plans') = Len(plans) + Len(points) + 1
  BY <1>1, <1>4, <1>5, TargetsCount, GrownByOneMore
<1>7. Len(plans) \in Nat /\ Len(points) \in Nat
  BY <1>1, <1>5 DEF TypeOK
<1> QED
  BY <1>4, <1>6, <1>7, CountAssumption

LEMMA NextGrows ==
  ASSUME TypeInv, NEW e \in Executor, InsertNext(e)
  PROVE  FileOf(e) \in File /\ Grown(FileOf(e)) /\ DOMAIN plans' \ Ids # {} /\ Len(plans') <= MaxPlans
<1>1. Today \subseteq Nat /\ TypeOK
  BY TodayType DEF TypeInv, TypeOK
<1>2. plans[held[e]] \in Plan
  BY <1>1, PlansAreFinite DEF TypeOK, InsertNext, Goto, Ids
<1>3. FileOf(e) \in File /\ plans[held[e]].size \in Nat
  BY <1>2 DEF Plan, FileOf
<1>4. PICK day \in Today : \E points \in Ascending(PointsOf(day + 1)) :
         Room(points) /\ plans' = Inserted(FileOf(e), points, plans[held[e]].size)
  BY DEF InsertNext
<1>5. PICK points \in Ascending(PointsOf(day + 1)) :
         Room(points) /\ plans' = Inserted(FileOf(e), points, plans[held[e]].size)
  BY <1>4
<1>6. day + 1 \in Nat
  BY <1>1
<1>7. PointsOf(day + 1) \in SUBSET Nat /\ IsFiniteSet(PointsOf(day + 1))
  BY <1>6, DayType
<1>8. PointsOf(day + 1) # {}
  <2> DEFINE first == (day + 1) * Points
  <2>1. first \in Nat
    BY <1>6, ScaleType
  <2> HIDE DEF first
  <2>2. first \in first .. first + Points - 1
    BY <2>1, CountAssumption
  <2> QED
    BY <2>2 DEF PointsOf, first
<1>9. points \in Seq(Nat) /\ Len(points) >= 1
  BY <1>7, <1>8, AscendingFacts
<1> QED
  BY <1>1, <1>3, <1>5, <1>9, GrownBy DEF Room

LEMMA MergeGrows ==
  ASSUME TypeInv, MergeSavePlans
  PROVE  \E f \in Unused :
           /\ Grown(f) /\ (merge.old # {} => DOMAIN plans' \ Ids # {}) /\ Len(plans') <= MaxPlans
           /\ merge' = [merge EXCEPT !.step = "moving", !.file = f]
<1>1. Today \subseteq Nat /\ TypeOK /\ merge.old \in SUBSET Ids
  BY TodayType DEF TypeInv, TypeOK
<1> DEFINE Times(day) == {day * Points + (plans[p].schedule % Points) : p \in merge.old}
<1>2. PICK f \in Unused, day \in Today : \E points \in Ascending(Times(day)) :
         /\ Room(points)
         /\ plans' = Inserted(f, points, Cardinality(merge.targets))
         /\ merge' = [merge EXCEPT !.step = "moving", !.file = f]
  BY DEF MergeSavePlans
<1>3. Times(day) \in SUBSET Nat /\ IsFiniteSet(Times(day)) /\ (merge.old # {} => Times(day) # {})
  BY <1>1, TimesType
<1> HIDE DEF Times
<1>4. PICK points \in Ascending(Times(day)) :
         /\ Room(points)
         /\ plans' = Inserted(f, points, Cardinality(merge.targets))
         /\ merge' = [merge EXCEPT !.step = "moving", !.file = f]
  BY <1>2
<1>5. points \in Seq(Nat) /\ (merge.old # {} => Len(points) >= 1)
  BY <1>3, AscendingFacts
<1>6. Cardinality(merge.targets) \in Nat /\ f \in File
  BY <1>1, TargetsCount DEF TypeOK, Unused
<1>7. Grown(f) /\ Len(plans') = Len(plans) + Len(points)
      /\ (Len(points) >= 1 => DOMAIN plans' \ Ids # {})
  BY <1>1, <1>4, <1>5, <1>6, GrownBy
<1> QED
  BY <1>4, <1>5, <1>7 DEF Room

-----------------------------------------------------------------------------
(* The actions that only change the status of some plans.                  *)

LEMMA Marking ==
  ASSUME TypeOK
  PROVE  /\ \A p \in Ids : Reset(p) => Marked({p}, "READY")
         /\ \A e \in Executor : TakePlan(e) => Marked({held[e]}, "RUNNING")
         /\ \A e \in Executor : CloseFile(e) => Marked(Of(FileOf(e)) \cap With("READY"), "DONE")
         /\ \A e \in Executor : Finish(e) => Marked({held[e]}, "DONE")
         /\ MergeClosePlans => Marked(merge.old, "DONE")
<1>1. {"READY", "RUNNING", "DONE"} \subseteq Status
  BY DEF Status
<1> QED
  BY <1>1, MarkedBy DEF Reset, TakePlan, CloseFile, Finish, MergeClosePlans

\* The plan an execution works on, its file, and the place of a plan.
LEMMA HeldType ==
  ASSUME TypeOK
  PROVE  /\ \A e \in Executor : pc[e] # "idle" => held[e] \in Ids /\ FileOf(e) \in File
         /\ \A p \in Ids : p \in PlanId /\ plans[p].file \in File
<1>1. \A p \in Ids : plans[p] \in Plan /\ p \in PlanId
  BY PlansAreFinite
<1>2. \A p \in Ids : plans[p].file \in File
  BY <1>1 DEF Plan
<1> QED
  BY <1>1, <1>2 DEF TypeOK, FileOf, Ids

LEMMA MarkedType ==
  ASSUME TypeInv, NEW S, NEW status, Marked(S, status)
  PROVE  plans' \in Seq(Plan) /\ Len(plans') <= MaxPlans /\ DOMAIN plans' = Ids
BY DEF Marked, TypeInv, TypeOK

LEMMA InitType == Init => TypeInv
<1> SUFFICES ASSUME Init PROVE TypeInv
  OBVIOUS
<1>1. now \in Nat /\ now >= 1
  BY CountAssumption DEF Init
<1>2. plans \in Seq(Plan) /\ Len(plans) <= MaxPlans
  BY CountAssumption DEF Init
<1>3. target \in [Target -> TargetRow]
  BY DEF Init, TargetRow
<1>4. merge \in [step : MergeStep, old : SUBSET PlanId, targets : SUBSET Target,
                 file : File \cup {None}] /\ merge.old = {}
  BY DEF Init, NoMerge, MergeStep
<1>5. collecting \in [file : File \cup {None}, targets : SUBSET Target]
  BY DEF Init, NoCollection
<1> QED
  BY <1>1, <1>2, <1>3, <1>4, <1>5 DEF Init, TypeInv, TypeOK, ExecutorStep

-----------------------------------------------------------------------------
LEMMA CollectedType ==
  ASSUME TypeOK, NEW f \in File \cup {None}, NEW T
  PROVE  Collected(f, T) \in [Target -> TargetRow]
BY DEF TypeOK, Collected, TargetRow

LEMMA GivenUpType ==
  ASSUME TypeOK, NEW T
  PROVE  GivenUp(T) \in [Target -> TargetRow]
BY DEF TypeOK, GivenUp, TargetRow

LEMMA TargetWrites ==
  ASSUME TypeOK
  PROVE  /\ \A t \in Target, n \in Nat : [target[t] EXCEPT !.count = n] \in TargetRow
         /\ \A t \in Target, f \in File \cup {None} : [target[t] EXCEPT !.file = f] \in TargetRow
         /\ \A t \in Target : target[t] \in TargetRow /\ target[t].count + 1 \in Nat
<1>1. \A t \in Target : target[t] \in TargetRow
  BY DEF TypeOK
<1> QED
  BY <1>1 DEF TargetRow

LEMMA JobsKeepType ==
  ASSUME TypeInv
  PROVE  /\ Tick => TypeInv'
         /\ \A p \in Ids : (Age(p) => TypeInv') /\ (Reset(p) => TypeInv')
         /\ \A f \in File, T \in SUBSET Target :
              (CollectPlans(f, T) => TypeInv') /\ (CreatePlan(f, T) => TypeInv')
         /\ InsertTargets => TypeInv'
         /\ \A t \in Target : ReachAim(t) => TypeInv'
         /\ UpdateAllActive => TypeInv'
<1> USE DEF TypeInv
<1>1. ASSUME Tick PROVE TypeInv'
  BY <1>1 DEF Tick, TypeOK, execVars, Ids
<1>2. ASSUME NEW p \in Ids, Age(p) PROVE TypeInv'
  BY <1>2 DEF Age, TypeOK, execVars, Ids
<1>3. ASSUME NEW p \in Ids, Reset(p) PROVE TypeInv'
  <2>1. plans' \in Seq(Plan) /\ Len(plans') <= MaxPlans /\ DOMAIN plans' = Ids
    BY <1>3, Marking, MarkedType
  <2> QED
    BY <1>3, <2>1 DEF Reset, TypeOK, execVars, Ids
<1>4. ASSUME NEW f \in File, NEW T \in SUBSET Target, CollectPlans(f, T) PROVE TypeInv'
  <2>1. plans' \in Seq(Plan) /\ Len(plans') <= MaxPlans /\ Ids \subseteq DOMAIN plans'
    BY <1>4, CollectGrows DEF Grown
  <2> QED
    BY <1>4, <2>1 DEF CollectPlans, TypeOK, execVars, Ids
<1>5. ASSUME NEW f \in File, NEW T \in SUBSET Target, CreatePlan(f, T) PROVE TypeInv'
  <2>1. plans' \in Seq(Plan) /\ Len(plans') <= MaxPlans /\ Ids \subseteq DOMAIN plans'
    BY <1>5, CreateGrows DEF Grown
  <2>2. target' \in [Target -> TargetRow]
    BY <1>5, CollectedType DEF CreatePlan
  <2> QED
    BY <1>5, <2>1, <2>2 DEF CreatePlan, TypeOK, execVars, Ids
<1>6. ASSUME InsertTargets PROVE TypeInv'
  <2>1. collecting.file \in File \cup {None}
    BY DEF TypeOK
  <2>2. target' \in [Target -> TargetRow]
    BY <1>6, <2>1, CollectedType DEF InsertTargets
  <2>3. collecting' \in [file : File \cup {None}, targets : SUBSET Target]
    BY <1>6 DEF InsertTargets, NoCollection
  <2> QED
    BY <1>6, <2>2, <2>3 DEF InsertTargets, TypeOK, execVars, Ids
<1>7. ASSUME NEW t \in Target, ReachAim(t) PROVE TypeInv'
  <2>1. target' \in [Target -> TargetRow]
    BY <1>7 DEF ReachAim, TypeOK, TargetRow
  <2> QED
    BY <1>7, <2>1 DEF ReachAim, TypeOK, execVars, Ids
<1>8. ASSUME UpdateAllActive PROVE TypeInv'
  <2>1. target' \in [Target -> TargetRow]
    BY <1>8, GivenUpType DEF UpdateAllActive
  <2> QED
    BY <1>8, <2>1 DEF UpdateAllActive, TypeOK, execVars, Ids
<1> QED
  BY <1>1, <1>2, <1>3, <1>4, <1>5, <1>6, <1>7, <1>8

LEMMA ExecuteKeepsType ==
  ASSUME TypeInv, NEW e \in Executor
  PROVE  Execute(e) \/ FailCrawl(e) \/ GiveUpFile(e) \/ Break(e) => TypeInv'
<1> USE DEF TypeInv, Goto, ExecutorStep
<1>1. ASSUME FindPlan(e) PROVE TypeInv'
  <2>1. PICK p \in Due : held' = [held EXCEPT ![e] = p]
    BY <1>1 DEF FindPlan
  <2>2. p \in Ids /\ p \in PlanId
    BY HeldType DEF Due, With
  <2> QED
    BY <1>1, <2>1, <2>2 DEF FindPlan, TypeOK, Ids
<1>2. ASSUME TakePlan(e) PROVE TypeInv'
  <2>1. plans' \in Seq(Plan) /\ Len(plans') <= MaxPlans /\ DOMAIN plans' = Ids
    BY <1>2, Marking, MarkedType
  <2>2. held[e] \in Ids
    BY <1>2, HeldType DEF TakePlan
  <2> QED
    BY <1>2, <2>1, <2>2 DEF TakePlan, TypeOK, Ids
<1>3. ASSUME ReadTargets(e) PROVE TypeInv'
  <2>1. ActiveOf(FileOf(e)) \in SUBSET Target
    BY DEF ActiveOf
  <2> QED
    BY <1>3, <2>1 DEF ReadTargets, TypeOK, Ids
<1>4. ASSUME Crawl(e) PROVE TypeInv'
  <2>1. target' \in [Target -> TargetRow]
    BY <1>4, TargetWrites DEF Crawl
  <2> QED
    BY <1>4, <2>1 DEF Crawl, TypeOK, Ids
<1>5. ASSUME UpdateActive(e) PROVE TypeInv'
  <2>1. target' \in [Target -> TargetRow]
    BY <1>5, GivenUpType DEF UpdateActive
  <2> QED
    BY <1>5, <2>1 DEF UpdateActive, TypeOK, Ids
<1>6. ASSUME CheckNext(e) PROVE TypeInv'
  BY <1>6 DEF CheckNext, TypeOK, Ids
<1>7. ASSUME CountTargets(e) PROVE TypeInv'
  BY <1>7 DEF CountTargets, TypeOK, Ids
<1>8. ASSUME CloseFile(e) PROVE TypeInv'
  <2>1. plans' \in Seq(Plan) /\ Len(plans') <= MaxPlans /\ DOMAIN plans' = Ids
    BY <1>8, Marking, MarkedType
  <2> QED
    BY <1>8, <2>1 DEF CloseFile, TypeOK, Ids
<1>9. ASSUME InsertNext(e) PROVE TypeInv'
  <2>1. plans' \in Seq(Plan) /\ Len(plans') <= MaxPlans /\ Ids \subseteq DOMAIN plans'
    BY <1>9, NextGrows DEF Grown
  <2> QED
    BY <1>9, <2>1 DEF InsertNext, TypeOK, Ids
<1>10. ASSUME Finish(e) PROVE TypeInv'
  <2>1. plans' \in Seq(Plan) /\ Len(plans') <= MaxPlans /\ DOMAIN plans' = Ids
    BY <1>10, Marking, MarkedType
  <2> QED
    BY <1>10, <2>1 DEF Finish, TypeOK, Ids
<1>11. ASSUME FailCrawl(e) PROVE TypeInv'
  BY <1>11 DEF FailCrawl, TypeOK, Ids
<1>12. ASSUME GiveUpFile(e) PROVE TypeInv'
  <2>1. FileOf(e) \in File
    BY <1>12, HeldType DEF GiveUpFile
  <2> QED
    BY <1>12, <2>1 DEF GiveUpFile, TypeOK, Ids
<1>13. ASSUME Break(e) PROVE TypeInv'
  BY <1>13 DEF Break, TypeOK, Ids
<1> QED
  BY <1>1, <1>2, <1>3, <1>4, <1>5, <1>6, <1>7, <1>8, <1>9, <1>10, <1>11, <1>12, <1>13 DEF Execute

LEMMA MergeKeepsType ==
  ASSUME TypeInv
  PROVE  Merge \/ BreakWriter => TypeInv'
<1> USE DEF TypeInv, MergeStep
<1> DEFINE MergeType == [step : MergeStep, old : SUBSET PlanId, targets : SUBSET Target,
                         file : File \cup {None}]
<1>1. ASSUME MergeFindPlans PROVE TypeInv'
  <2>1. With("READY") \subseteq Ids /\ With("READY") \subseteq PlanId
    BY HeldType DEF With
  <2>2. merge' \in MergeType /\ merge'.old \subseteq Ids
    BY <1>1, <2>1 DEF MergeFindPlans, TypeOK
  <2> QED
    BY <1>1, <2>2 DEF MergeFindPlans, TypeOK, execVars, Ids
<1>2. ASSUME MergeFindTargets PROVE TypeInv'
  <2>1. UNION {ActiveOf(plans[p].file) : p \in merge.old} \in SUBSET Target
    BY DEF ActiveOf
  <2>2. merge' \in MergeType /\ merge'.old = merge.old
    BY <1>2, <2>1 DEF MergeFindTargets, TypeOK
  <2> QED
    BY <1>2, <2>2 DEF MergeFindTargets, TypeOK, execVars, Ids
<1>3. ASSUME MergeSavePlans PROVE TypeInv'
  <2>1. PICK f \in Unused : /\ Grown(f) /\ Len(plans') <= MaxPlans
                            /\ merge' = [merge EXCEPT !.step = "moving", !.file = f]
    BY <1>3, MergeGrows
  <2>2. merge' \in MergeType /\ merge'.old = merge.old
    BY <2>1 DEF Unused, TypeOK
  <2> QED
    BY <1>3, <2>1, <2>2 DEF MergeSavePlans, Grown, TypeOK, execVars, Ids
<1>4. ASSUME MergeMoveTargets PROVE TypeInv'
  <2>1. merge' \in MergeType /\ merge'.old = merge.old
    BY <1>4 DEF MergeMoveTargets, TypeOK
  <2>2. merge.file \in File \cup {None}
    BY DEF TypeOK
  <2>3. target' \in [Target -> TargetRow]
    BY <1>4, <2>2, TargetWrites DEF MergeMoveTargets
  <2> QED
    BY <1>4, <2>1, <2>3 DEF MergeMoveTargets, TypeOK, execVars, Ids
<1>5. ASSUME MergeClosePlans PROVE TypeInv'
  <2>1. plans' \in Seq(Plan) /\ Len(plans') <= MaxPlans /\ DOMAIN plans' = Ids
    BY <1>5, Marking, MarkedType
  <2>2. merge' \in MergeType /\ merge'.old = {}
    BY <1>5 DEF MergeClosePlans, NoMerge
  <2> QED
    BY <1>5, <2>1, <2>2 DEF MergeClosePlans, TypeOK, execVars, Ids
<1>6. ASSUME BreakWriter PROVE TypeInv'
  <2>1. merge' \in MergeType /\ merge'.old \subseteq merge.old
    BY <1>6 DEF BreakWriter, NoMerge, TypeOK
  <2>2. collecting' \in [file : File \cup {None}, targets : SUBSET Target]
    BY <1>6 DEF BreakWriter, NoCollection, TypeOK
  <2> QED
    BY <1>6, <2>1, <2>2 DEF BreakWriter, TypeOK, execVars, Ids
<1> QED
  BY <1>1, <1>2, <1>3, <1>4, <1>5, <1>6 DEF Merge

LEMMA TypeStays == TypeInv /\ [Next]_vars => TypeInv'
<1>1. ASSUME TypeInv, Next PROVE TypeInv'
  BY <1>1, JobsKeepType, ExecuteKeepsType, MergeKeepsType DEF Next
<1>2. ASSUME TypeInv, UNCHANGED vars PROVE TypeInv'
  BY <1>2 DEF TypeInv, TypeOK, vars, execVars, Ids
<1> QED
  BY <1>1, <1>2

\* Every state has its type, whatever comes late: an execution works on a plan that
\* exists, and no more plans are made than there is room for.
THEOREM TypeCorrect == Spec => []TypeOK
<1>1. TypeInv => TypeOK
  BY DEF TypeInv
<1> QED
  BY <1>1, InitType, TypeStays, PTL DEF Spec

-----------------------------------------------------------------------------
(* The invariant.                                                          *)

\* Nobody works on a plan of a file whose targets are still to be written.
HeldApart ==
  \A e \in Executor : pc[e] # "idle" => FileOf(e) \notin {collecting.file, merge.file}

\* A plan that was taken is not made ready while it is worked on.
HeldTaken ==
  \A e \in Executor : pc[e] \notin {"idle", "taking"} => plans[held[e]].status # "READY"

\* The plans of a file are closed when no target of it is active, and none becomes so.
ClosingEmpty ==
  \A e \in Executor : pc[e] = "closing" => ActiveOf(FileOf(e)) = {}

\* A file whose targets are still to be written has a plan that waits.
CollectionPlanned ==
  collecting.file # None => Of(collecting.file) \cap With("READY") # {}

MergePlanned ==
  merge.step = "moving" => merge.file # None /\ Of(merge.file) \cap With("READY") # {}

\* A merge replaces no file that is still being written.
OldApart ==
  \A p \in merge.old : plans[p].file \notin {collecting.file, merge.file}

\* The active targets of the plans a merge found.
OldTargets ==
  {t \in Target : target[t].active /\ \E p \in merge.old : plans[p].file = target[t].file}

\* A merge has found every target of the plans it will close.
MergeFinds ==
  /\ merge.step \in {"saving", "moving"} => OldTargets \subseteq merge.targets
  /\ merge.step = "closing" => OldTargets = {}

MergeSteps ==
  /\ merge.step \in {"selecting", "saving"} => merge.old # {}
  /\ merge.step # "moving" => merge.file = None
  /\ merge.step = "idle" => merge.old = {}

\* A plan that is open, and that no execution is about to end.
Lasting(p) ==
  /\ plans[p].status \in {"READY", "RUNNING"}
  /\ \A e \in Executor : pc[e] = "finishing" => held[e] # p

Covered(t) ==
  target[t].file \in abandoned \/ \E p \in Of(target[t].file) : Lasting(p)

Covering == \A t \in Target : target[t].active => Covered(t)

PlanInv ==
  /\ TypeInv
  /\ HeldApart
  /\ HeldTaken
  /\ ClosingEmpty
  /\ CollectionPlanned
  /\ MergePlanned
  /\ OldApart
  /\ MergeFinds
  /\ MergeSteps
  /\ Covering

LEMMA InitPlanInv == Init => PlanInv
<1> SUFFICES ASSUME Init PROVE PlanInv
  OBVIOUS
<1>1. \A t \in Target : ~target[t].active
  BY DEF Init
<1> QED
  BY <1>1, InitType DEF Init, NoCollection, NoMerge, PlanInv, HeldApart, HeldTaken, ClosingEmpty,
    CollectionPlanned, MergePlanned, OldApart, MergeFinds, OldTargets, MergeSteps, Covering

-----------------------------------------------------------------------------
(* What any step does to the plans, to what is held and named, and to the  *)
(* targets.                                                                *)

\* The rows that a step adds or changes, and by which action.
PlansChange ==
  \/ plans' = plans
  \/ \E f \in Unused : Grown(f)
  \/ \E e \in Executor : InsertNext(e) /\ Grown(FileOf(e))
  \/ \E p \in Ids : Reset(p) /\ Marked({p}, "READY")
  \/ \E e \in Executor : TakePlan(e) /\ Marked({held[e]}, "RUNNING")
  \/ \E e \in Executor : CloseFile(e) /\ Marked(Of(FileOf(e)) \cap With("READY"), "DONE")
  \/ \E e \in Executor : Finish(e) /\ Marked({held[e]}, "DONE")
  \/ MergeClosePlans /\ Marked(merge.old, "DONE")

LEMMA StepPlans ==
  ASSUME TypeInv, Next
  PROVE  PlansChange
<1> TypeOK
  BY DEF TypeInv
<1>1. ASSUME NEW f \in File, NEW T \in SUBSET Target, CollectPlans(f, T) \/ CreatePlan(f, T)
      PROVE  PlansChange
  BY <1>1, CollectGrows, CreateGrows DEF CollectPlans, CreatePlan, PlansChange
<1>2. ASSUME NEW p \in Ids, Age(p) \/ Reset(p) PROVE PlansChange
  BY <1>2, Marking DEF Age, PlansChange
<1>3. ASSUME NEW e \in Executor, Execute(e) PROVE PlansChange
  <2>1. CASE UNCHANGED plans
    BY <2>1 DEF PlansChange
  <2>2. CASE InsertNext(e)
    BY <2>2, NextGrows DEF PlansChange
  <2>3. CASE TakePlan(e) \/ CloseFile(e) \/ Finish(e)
    BY <2>3, Marking DEF PlansChange
  <2> QED
    BY <1>3, <2>1, <2>2, <2>3 DEF Execute, FindPlan, ReadTargets, Crawl, UpdateActive, CheckNext,
      CountTargets
<1>4. ASSUME MergeSavePlans \/ MergeClosePlans PROVE PlansChange
  BY <1>4, MergeGrows, Marking DEF PlansChange
<1>5. ASSUME UNCHANGED plans PROVE PlansChange
  BY <1>5 DEF PlansChange
<1> QED
  BY <1>1, <1>2, <1>3, <1>4, <1>5 DEF Next, Tick, InsertTargets, ReachAim, UpdateAllActive,
    FailCrawl, GiveUpFile, Break, BreakWriter, Merge, MergeFindPlans, MergeFindTargets,
    MergeMoveTargets

\* No row disappears or gets another file.
FilesStay ==
  /\ Ids \subseteq DOMAIN plans'
  /\ \A p \in Ids : plans'[p].file = plans[p].file

LEMMA StepFiles ==
  ASSUME PlansChange
  PROVE  FilesStay
<1>1. ASSUME NEW f, Grown(f) PROVE FilesStay
  BY <1>1 DEF Grown, FilesStay
<1>2. ASSUME NEW S, NEW status, Marked(S, status) PROVE FilesStay
  BY <1>2 DEF Marked, FilesStay
<1> QED
  BY <1>1, <1>2 DEF PlansChange, FilesStay, Ids

\* An execution works on the plan it worked on before the step, or on one it has found.
HoldsOn ==
  \A e \in Executor : pc'[e] # "idle" =>
    \/ FindPlan(e)
    \/ pc[e] # "idle" /\ held'[e] = held[e]

\* Where an execution came from.
CameFrom ==
  \A e \in Executor :
    /\ pc'[e] \notin {"idle", "taking"} => pc[e] \notin {"idle", "taking"} \/ TakePlan(e)
    /\ pc'[e] = "closing" => pc[e] = "closing" \/ CountTargets(e)
    /\ pc'[e] = "finishing" =>
         pc[e] = "finishing" \/ CheckNext(e) \/ CloseFile(e) \/ InsertNext(e) \/ GiveUpFile(e)

LEMMA StepHeld ==
  ASSUME TypeInv, Next
  PROVE  HoldsOn /\ CameFrom
<1>1. /\ pc \in [Executor -> ExecutorStep] /\ held \in [Executor -> PlanId \cup {0}]
  BY DEF TypeInv, TypeOK
<1>2. ASSUME NEW x \in Executor, Execute(x) \/ FailCrawl(x) \/ GiveUpFile(x) \/ Break(x)
      PROVE  HoldsOn /\ CameFrom
  <2>1. CASE FindPlan(x)
    <3>1. PICK p : pc' = [pc EXCEPT ![x] = "taking"] /\ held' = [held EXCEPT ![x] = p]
      BY <2>1 DEF FindPlan, Goto
    <3> QED
      BY <1>1, <2>1, <3>1 DEF HoldsOn, CameFrom
  <2>2. CASE TakePlan(x)
    BY <1>1, <2>2 DEF TakePlan, Goto, HoldsOn, CameFrom
  <2>3. CASE ReadTargets(x)
    BY <1>1, <2>3 DEF ReadTargets, Goto, HoldsOn, CameFrom
  <2>4. CASE Crawl(x)
    BY <1>1, <2>4 DEF Crawl, Goto, HoldsOn, CameFrom
  <2>5. CASE UpdateActive(x)
    BY <1>1, <2>5 DEF UpdateActive, Goto, HoldsOn, CameFrom
  <2>6. CASE CheckNext(x)
    <3>1. pc' \in {[pc EXCEPT ![x] = "planning"], [pc EXCEPT ![x] = "finishing"]}
      BY <2>6 DEF CheckNext, Goto
    <3>2. pc[x] = "checking" /\ held' = held
      BY <2>6 DEF CheckNext, Goto
    <3> QED
      BY <1>1, <2>6, <3>1, <3>2 DEF HoldsOn, CameFrom
  <2>7. CASE CountTargets(x)
    <3>1. pc' \in {[pc EXCEPT ![x] = "closing"], [pc EXCEPT ![x] = "inserting"]}
      BY <2>7 DEF CountTargets, Goto
    <3>2. pc[x] = "planning" /\ held' = held
      BY <2>7 DEF CountTargets, Goto
    <3> QED
      BY <1>1, <2>7, <3>1, <3>2 DEF HoldsOn, CameFrom
  <2>8. CASE CloseFile(x)
    BY <1>1, <2>8 DEF CloseFile, Goto, HoldsOn, CameFrom
  <2>9. CASE InsertNext(x)
    BY <1>1, <2>9 DEF InsertNext, Goto, HoldsOn, CameFrom
  <2>10. CASE Finish(x)
    BY <1>1, <2>10 DEF Finish, Goto, HoldsOn, CameFrom
  <2>11. CASE FailCrawl(x)
    BY <1>1, <2>11 DEF FailCrawl, Goto, HoldsOn, CameFrom
  <2>12. CASE GiveUpFile(x)
    BY <1>1, <2>12 DEF GiveUpFile, Goto, HoldsOn, CameFrom
  <2>13. CASE Break(x)
    BY <1>1, <2>13 DEF Break, HoldsOn, CameFrom
  <2> QED
    BY <1>2, <2>1, <2>2, <2>3, <2>4, <2>5, <2>6, <2>7, <2>8, <2>9, <2>10, <2>11, <2>12, <2>13
      DEF Execute
<1>3. ASSUME UNCHANGED <<pc, held>> PROVE HoldsOn /\ CameFrom
  BY <1>3 DEF HoldsOn, CameFrom
<1>4. ASSUME Merge PROVE UNCHANGED <<pc, held>>
  BY <1>4 DEF Merge, MergeFindPlans, MergeFindTargets, MergeSavePlans, MergeMoveTargets,
    MergeClosePlans, execVars
<1> QED
  BY <1>2, <1>3, <1>4 DEF Next, Tick, Age, Reset, CollectPlans, CreatePlan, InsertTargets, ReachAim,
    UpdateAllActive, BreakWriter, execVars

\* A file is named by a collection or a merge that has yet to write its targets: it was
\* before the step, or it has no plans yet.
FilesNamed ==
  /\ collecting'.file \in {collecting.file, None} \cup Unused
  /\ merge'.file \in {merge.file, None} \cup Unused

\* The plans a merge replaces: those it did before the step, or those that wait.
OldFound ==
  \/ merge'.old \in {merge.old, {}}
  \/ MergeFindPlans /\ merge'.old = With("READY")

\* How a merge got where it is.
MergeCame ==
  \/ merge' = merge
  \/ MergeFindPlans \/ MergeFindTargets \/ MergeSavePlans \/ MergeMoveTargets
  \/ merge' = NoMerge

LEMMA MergeForm ==
  ASSUME TypeInv
  PROVE  /\ merge = [step |-> merge.step, old |-> merge.old, targets |-> merge.targets,
                     file |-> merge.file]
         /\ merge.file \in File \cup {None} /\ merge.targets \in SUBSET Target
         /\ merge.step \in MergeStep
BY DEF TypeInv, TypeOK

LEMMA MergeActions ==
  ASSUME TypeInv
  PROVE  /\ MergeFindPlans => merge' = [step |-> "selecting", old |-> With("READY"),
                                        targets |-> merge.targets, file |-> merge.file]
         /\ MergeFindTargets =>
              /\ merge'.old = merge.old /\ merge'.file = merge.file
              /\ merge'.targets = UNION {ActiveOf(plans[p].file) : p \in merge.old}
              /\ merge'.step = IF merge'.targets = {} THEN "closing" ELSE "saving"
         /\ MergeMoveTargets => merge' = [step |-> "closing", old |-> merge.old, targets |-> {},
                                          file |-> None]
         /\ MergeSavePlans => \E f \in Unused :
              /\ merge' = [step |-> "moving", old |-> merge.old, targets |-> merge.targets,
                           file |-> f]
              /\ Grown(f) /\ (merge.old # {} => DOMAIN plans' \ Ids # {})
<1>1. MergeFindPlans => merge' = [step |-> "selecting", old |-> With("READY"),
                                  targets |-> merge.targets, file |-> merge.file]
  BY MergeForm DEF MergeFindPlans
<1>2. ASSUME MergeFindTargets
      PROVE  /\ merge'.old = merge.old /\ merge'.file = merge.file
             /\ merge'.targets = UNION {ActiveOf(plans[p].file) : p \in merge.old}
             /\ merge'.step = IF merge'.targets = {} THEN "closing" ELSE "saving"
  <2> DEFINE T == UNION {ActiveOf(plans[p].file) : p \in merge.old}
  <2>1. merge' = [merge EXCEPT !.targets = T, !.step = IF T = {} THEN "closing" ELSE "saving"]
    BY <1>2 DEF MergeFindTargets
  <2> HIDE DEF T
  <2>2. merge'.old = merge.old /\ merge'.file = merge.file /\ merge'.targets = T
        /\ merge'.step = IF T = {} THEN "closing" ELSE "saving"
    BY <2>1, MergeForm
  <2> QED
    BY <2>2 DEF T
<1>3. MergeMoveTargets => merge' = [step |-> "closing", old |-> merge.old, targets |-> {},
                                    file |-> None]
  BY MergeForm DEF MergeMoveTargets
<1>4. ASSUME MergeSavePlans
      PROVE  \E f \in Unused :
              /\ merge' = [step |-> "moving", old |-> merge.old, targets |-> merge.targets,
                           file |-> f]
              /\ Grown(f) /\ (merge.old # {} => DOMAIN plans' \ Ids # {})
  <2>1. PICK f \in Unused : /\ Grown(f) /\ (merge.old # {} => DOMAIN plans' \ Ids # {})
                            /\ merge' = [merge EXCEPT !.step = "moving", !.file = f]
    BY <1>4, MergeGrows
  <2>2. merge' = [step |-> "moving", old |-> merge.old, targets |-> merge.targets, file |-> f]
    BY <2>1, MergeForm
  <2> QED
    BY <2>1, <2>2
<1> QED
  BY <1>1, <1>2, <1>3, <1>4

LEMMA MergeGuards ==
  /\ MergeFindPlans => merge.step = "idle" /\ With("READY") # {}
  /\ MergeFindTargets => merge.step = "selecting" /\ UNCHANGED <<plans, target>>
  /\ MergeSavePlans => merge.step = "saving"
  /\ MergeMoveTargets => merge.step = "moving" /\ UNCHANGED plans
BY DEF MergeFindPlans, MergeFindTargets, MergeSavePlans, MergeMoveTargets

LEMMA StepMerge ==
  ASSUME TypeInv, Next
  PROVE  MergeCame /\ FilesNamed /\ OldFound
<1>1. MergeCame
  BY DEF MergeCame, Next, Tick, Age, Reset, CollectPlans, CreatePlan, InsertTargets, ReachAim,
    UpdateAllActive, Execute, FindPlan, TakePlan, ReadTargets, Crawl, UpdateActive, CheckNext,
    CountTargets, CloseFile, InsertNext, Finish, FailCrawl, GiveUpFile, Break, BreakWriter, Merge,
    MergeClosePlans
<1>2. merge'.file \in {merge.file, None} \cup Unused /\ OldFound
  BY <1>1, MergeActions DEF MergeCame, OldFound, NoMerge
<1>3. ASSUME NEW f \in File, NEW T \in SUBSET Target, CollectPlans(f, T)
      PROVE  collecting'.file \in Unused
  BY <1>3 DEF CollectPlans
<1>4. \/ collecting' \in {collecting, NoCollection}
      \/ \E f \in File, T \in SUBSET Target : CollectPlans(f, T)
  BY DEF Next, Tick, Age, Reset, CreatePlan, InsertTargets, ReachAim,
    UpdateAllActive, Execute, FindPlan, TakePlan, ReadTargets, Crawl, UpdateActive, CheckNext,
    CountTargets, CloseFile, InsertNext, Finish, FailCrawl, GiveUpFile, Break, BreakWriter, Merge,
    MergeClosePlans, MergeFindPlans, MergeFindTargets, MergeSavePlans, MergeMoveTargets
<1> QED
  BY <1>1, <1>2, <1>3, <1>4 DEF FilesNamed, NoCollection

\* How an active target got to its file.
Moves(t) ==
  \/ target[t].active /\ target'[t].file = target[t].file
  \/ InsertTargets /\ target'[t].file = collecting.file
  \/ MergeMoveTargets /\ t \in merge.targets /\ target'[t].file = merge.file
  \/ \E f \in Unused : /\ target'[t].file = f /\ Grown(f) /\ DOMAIN plans' \ Ids # {}
                       /\ UNCHANGED <<pc, held>>

TargetsMove == \A t \in Target : target'[t].active => Moves(t)

LEMMA StepTargets ==
  ASSUME TypeInv, Next
  PROVE  TargetsMove
<1>1. TypeOK /\ target \in [Target -> TargetRow]
  BY DEF TypeInv, TypeOK
<1>2. \A t \in Target : target[t] \in TargetRow
  BY <1>1
<1>3. ASSUME NEW f, NEW T, target' = Collected(f, T), NEW t \in Target
      PROVE  target'[t].file = f \/ target'[t] = target[t]
  <2> DEFINE row == [file |-> f, active |-> TRUE, count |-> 0]
  <2>1. row.file = f
    OBVIOUS
  <2>2. target' = [x \in Target |-> IF x \in T THEN row ELSE target[x]]
    BY <1>3 DEF Collected
  <2> HIDE DEF row
  <2> QED
    BY <2>1, <2>2
<1>4. ASSUME NEW T, NEW t \in Target
      PROVE  GivenUp(T)[t].file = target[t].file /\ (GivenUp(T)[t].active => target[t].active)
  <2>1. /\ [target[t] EXCEPT !.active = FALSE].file = target[t].file
        /\ [target[t] EXCEPT !.active = FALSE].active = FALSE
    BY <1>2 DEF TargetRow
  <2> QED
    BY <2>1 DEF GivenUp
<1>5. ASSUME NEW f \in File, NEW T \in SUBSET Target, CreatePlan(f, T) PROVE TargetsMove
  <2>1. Grown(f) /\ DOMAIN plans' \ Ids # {}
    BY <1>5, CreateGrows
  <2>2. f \in Unused /\ target' = Collected(f, T) /\ UNCHANGED <<pc, held>>
    BY <1>5 DEF CreatePlan, execVars
  <2>3. ASSUME NEW t \in Target, target'[t].active PROVE Moves(t)
    <3>1. target'[t].file = f \/ target'[t] = target[t]
      BY <1>3, <2>2
    <3> QED
      BY <2>1, <2>2, <2>3, <3>1 DEF Moves
  <2> QED
    BY <2>3 DEF TargetsMove
<1>6. ASSUME InsertTargets PROVE TargetsMove
  <2>1. target' = Collected(collecting.file, collecting.targets)
    BY <1>6 DEF InsertTargets
  <2>2. ASSUME NEW t \in Target, target'[t].active PROVE Moves(t)
    <3>1. target'[t].file = collecting.file \/ target'[t] = target[t]
      BY <1>3, <2>1
    <3> QED
      BY <1>6, <2>2, <3>1 DEF Moves
  <2> QED
    BY <2>2 DEF TargetsMove
<1>7. ASSUME NEW t \in Target, ReachAim(t) PROVE TargetsMove
  BY <1>1, <1>7 DEF ReachAim, TargetsMove, Moves, TargetRow
<1>8. ASSUME UpdateAllActive \/ \E e \in Executor : UpdateActive(e) PROVE TargetsMove
  BY <1>4, <1>8 DEF UpdateAllActive, UpdateActive, TargetsMove, Moves
<1>9. ASSUME NEW e \in Executor, Crawl(e) PROVE TargetsMove
  <2>1. \A t \in Target, n \in Nat : /\ [target[t] EXCEPT !.count = n].file = target[t].file
                                     /\ [target[t] EXCEPT !.count = n].active = target[t].active
    BY <1>2 DEF TargetRow
  <2> QED
    BY <1>1, <1>9, <2>1, TargetWrites DEF Crawl, TargetsMove, Moves
<1>10. ASSUME MergeMoveTargets PROVE TargetsMove
  <2>1. \A t \in Target : [target[t] EXCEPT !.file = merge.file].file = merge.file
    BY <1>2 DEF TargetRow
  <2> QED
    BY <1>10, <2>1 DEF MergeMoveTargets, TargetsMove, Moves
<1>11. ASSUME UNCHANGED target PROVE TargetsMove
  BY <1>11 DEF TargetsMove, Moves
<1> QED
  BY <1>5, <1>6, <1>7, <1>8, <1>9, <1>10, <1>11
    DEF Next, Tick, Age, Reset, CollectPlans, Execute, FindPlan, TakePlan, ReadTargets, CheckNext,
    CountTargets, CloseFile, InsertNext, Finish, FailCrawl, GiveUpFile, Break, BreakWriter, Merge,
    MergeClosePlans, MergeFindPlans, MergeFindTargets, MergeSavePlans

-----------------------------------------------------------------------------
(* Each part of the invariant is kept.                                     *)

\* The facts about a step that the parts rest on.
StepFacts ==
  PlansChange /\ FilesStay /\ HoldsOn /\ CameFrom /\ MergeCame /\ FilesNamed /\ OldFound /\ TargetsMove

LEMMA StepHasFacts ==
  ASSUME TypeInv, Next
  PROVE  StepFacts
BY StepPlans, StepFiles, StepHeld, StepMerge, StepTargets DEF StepFacts

\* An unused file is the file of no plan.
LEMMA UnusedApart ==
  ASSUME NEW f \in Unused
  PROVE  f \in File /\ f # None /\ (\A p \in Ids : plans[p].file # f)
BY FileAssumption DEF Unused, Of

\* An execution that goes on works on the same file.
LEMMA HeldStays ==
  ASSUME TypeInv, FilesStay, NEW e \in Executor, pc[e] # "idle", held'[e] = held[e]
  PROVE  held[e] \in Ids /\ FileOf(e) \in File /\ FileOf(e)' = FileOf(e)
BY HeldType DEF TypeInv, FilesStay, FileOf

LEMMA HeldApartStays ==
  ASSUME Late = {}, PlanInv, StepFacts
  PROVE  HeldApart'
<1> SUFFICES ASSUME NEW e \in Executor, pc'[e] # "idle"
             PROVE  FileOf(e)' \notin {collecting'.file, merge'.file}
  BY DEF HeldApart
<1>1. CASE FindPlan(e)
  <2>1. PICK p \in Due : /\ plans[p].file \notin {collecting.file, merge.file}
                         /\ held' = [held EXCEPT ![e] = p]
    BY <1>1 DEF FindPlan
  <2>2. held'[e] = p /\ plans' = plans /\ UNCHANGED <<collecting, merge>>
    BY <1>1, <2>1 DEF FindPlan, PlanInv, TypeInv, TypeOK
  <2> QED
    BY <2>1, <2>2 DEF FileOf
<1>2. CASE pc[e] # "idle" /\ held'[e] = held[e]
  <2>1. held[e] \in Ids /\ FileOf(e) \in File /\ FileOf(e)' = FileOf(e)
    BY <1>2, HeldStays DEF PlanInv, StepFacts
  <2>2. FileOf(e) \notin {collecting.file, merge.file} /\ FileOf(e) = plans[held[e]].file
    BY <1>2 DEF PlanInv, HeldApart, FileOf
  <2> QED
    BY <2>1, <2>2, UnusedApart, FileAssumption DEF StepFacts, FilesNamed
<1> QED
  BY <1>1, <1>2 DEF StepFacts, HoldsOn

\* A plan becomes ready in a step only by a reset.
LEMMA ReadyBefore ==
  ASSUME PlansChange, NEW p \in Ids, plans'[p].status = "READY"
  PROVE  plans[p].status = "READY" \/ (p \in Ids /\ Reset(p))
BY DEF PlansChange, Grown, Marked

LEMMA HeldTakenStays ==
  ASSUME Late = {}, PlanInv, StepFacts
  PROVE  HeldTaken'
<1> SUFFICES ASSUME NEW e \in Executor, pc'[e] \notin {"idle", "taking"},
                    plans'[held'[e]].status = "READY"
             PROVE  FALSE
  BY DEF HeldTaken
<1>1. TypeOK
  BY DEF PlanInv, TypeInv
<1>2. CASE TakePlan(e)
  <2>1. Marked({held[e]}, "RUNNING") /\ held[e] \in Ids /\ held' = held
    BY <1>1, <1>2, Marking, HeldType DEF TakePlan, Goto
  <2> QED
    BY <2>1 DEF Marked
<1>3. CASE pc[e] \notin {"idle", "taking"}
  <2>1. held'[e] = held[e]
    BY <1>3 DEF StepFacts, HoldsOn, FindPlan, Goto
  <2>2. held[e] \in Ids
    BY <1>1, <1>3, HeldType
  <2>3. plans[held[e]].status # "READY"
    BY <1>3 DEF PlanInv, HeldTaken
  <2>4. Reset(held[e])
    BY <2>1, <2>2, <2>3, ReadyBefore DEF StepFacts
  <2> QED
    BY <1>3, <2>4 DEF Reset
<1> QED
  BY <1>2, <1>3 DEF StepFacts, CameFrom

LEMMA ClosingEmptyStays ==
  ASSUME PlanInv, StepFacts
  PROVE  ClosingEmpty'
<1> SUFFICES ASSUME NEW e \in Executor, pc'[e] = "closing",
                    NEW t \in Target, target'[t].file = FileOf(e)', target'[t].active
             PROVE  FALSE
  BY DEF ClosingEmpty, ActiveOf
<1>1. pc[e] # "idle" /\ held'[e] = held[e] /\ (pc[e] = "closing" \/ CountTargets(e))
  BY DEF StepFacts, HoldsOn, CameFrom, FindPlan, CountTargets, Goto
<1>2. held[e] \in Ids /\ FileOf(e) \in File /\ FileOf(e)' = FileOf(e)
  BY <1>1, HeldStays DEF PlanInv, StepFacts
<1>3. CASE CountTargets(e)
  <2>1. target' = target /\ (ActiveOf(FileOf(e)) # {} => pc'[e] = "inserting")
    BY <1>3 DEF CountTargets, Goto, PlanInv, TypeInv, TypeOK
  <2> QED
    BY <1>2, <2>1 DEF ActiveOf
<1>4. CASE pc[e] = "closing"
  <2>1. ActiveOf(FileOf(e)) = {} /\ FileOf(e) \notin {collecting.file, merge.file}
    BY <1>4 DEF PlanInv, ClosingEmpty, HeldApart
  <2>2. Moves(t)
    BY DEF StepFacts, TargetsMove
  <2> QED
    BY <1>2, <2>1, <2>2, UnusedApart DEF Moves, ActiveOf, FileOf
<1> QED
  BY <1>1, <1>3, <1>4

\* The plans that wait of a file that is still to be written go on to wait.
LEMMA NamedWait ==
  ASSUME PlanInv, StepFacts, NEW p \in Ids, plans[p].status = "READY",
         plans[p].file \in {collecting.file, merge.file}
  PROVE  plans'[p].status = "READY"
<1>1. TypeOK
  BY DEF PlanInv, TypeInv
<1>2. ASSUME NEW e \in Executor, pc[e] # "idle" PROVE p # held[e] /\ p \notin Of(FileOf(e))
  BY <1>2 DEF PlanInv, HeldApart, FileOf, Of
<1>3. p \notin merge.old
  BY DEF PlanInv, OldApart
<1> QED
  BY <1>2, <1>3 DEF StepFacts, PlansChange, Grown, Marked, TakePlan, CloseFile, Finish, Goto

LEMMA WaitsOn ==
  ASSUME PlanInv, StepFacts, NEW f \in {collecting.file, merge.file}, Of(f) \cap With("READY") # {}
  PROVE  (Of(f) \cap With("READY"))' # {}
<1>1. PICK p \in Ids : plans[p].file = f /\ plans[p].status = "READY"
  BY DEF Of, With
<1>2. plans'[p].status = "READY"
  BY <1>1, NamedWait
<1>3. p \in Ids' /\ plans'[p].file = f
  BY <1>1 DEF StepFacts, FilesStay, Ids
<1> QED
  BY <1>2, <1>3 DEF Of, With

LEMMA NewWaits ==
  ASSUME NEW f, Grown(f), DOMAIN plans' \ Ids # {}
  PROVE  (Of(f) \cap With("READY"))' # {}
BY DEF Grown, Of, With, Ids

LEMMA CollectionPlannedStays ==
  ASSUME PlanInv, StepFacts, Next
  PROVE  CollectionPlanned'
<1>1. CASE \E f \in File, T \in SUBSET Target : CollectPlans(f, T)
  <2>1. PICK f \in File, T \in SUBSET Target : CollectPlans(f, T)
    BY <1>1
  <2>2. collecting'.file = f
    BY <2>1 DEF CollectPlans
  <2>3. Grown(f) /\ DOMAIN plans' \ Ids # {}
    BY <2>1, CollectGrows DEF PlanInv
  <2> QED
    BY <2>2, <2>3, NewWaits DEF CollectionPlanned
<1>2. CASE collecting' \in {collecting, NoCollection}
  BY <1>2, WaitsOn DEF CollectionPlanned, NoCollection, PlanInv
<1> QED
  BY <1>1, <1>2 DEF Next, Tick, Age, Reset, CreatePlan, InsertTargets, ReachAim,
    UpdateAllActive, Execute, FindPlan, TakePlan, ReadTargets, Crawl, UpdateActive, CheckNext,
    CountTargets, CloseFile, InsertNext, Finish, FailCrawl, GiveUpFile, Break, BreakWriter, Merge,
    MergeClosePlans, MergeFindPlans, MergeFindTargets, MergeSavePlans, MergeMoveTargets

LEMMA MergePlannedStays ==
  ASSUME PlanInv, StepFacts
  PROVE  MergePlanned'
<1>1. CASE MergeSavePlans
  <2>1. PICK f \in Unused : merge'.file = f /\ Grown(f) /\ DOMAIN plans' \ Ids # {}
    BY <1>1, MergeActions, MergeGuards DEF PlanInv, MergeSteps
  <2>2. f # None
    BY UnusedApart
  <2> QED
    BY <2>1, <2>2, NewWaits DEF MergePlanned
<1>2. CASE merge' = merge
  BY <1>2, WaitsOn DEF MergePlanned, PlanInv
<1>3. CASE merge'.step # "moving"
  BY <1>3 DEF MergePlanned
<1> QED
  BY <1>1, <1>2, <1>3, MergeActions DEF StepFacts, MergeCame, PlanInv, NoMerge

LEMMA MergeStepsStay ==
  ASSUME PlanInv, StepFacts
  PROVE  MergeSteps'
<1>1. CASE merge' = merge \/ merge' = NoMerge
  BY <1>1 DEF MergeSteps, PlanInv, NoMerge
<1>2. CASE MergeFindPlans
  BY <1>2, MergeActions, MergeGuards DEF MergeSteps, PlanInv
<1>3. CASE MergeFindTargets
  BY <1>3, MergeActions, MergeGuards DEF MergeSteps, PlanInv
<1>4. CASE MergeSavePlans \/ MergeMoveTargets
  BY <1>4, MergeActions DEF MergeSteps, PlanInv
<1> QED
  BY <1>1, <1>2, <1>3, <1>4 DEF StepFacts, MergeCame

LEMMA OldApartStays ==
  ASSUME Late = {}, PlanInv, StepFacts
  PROVE  OldApart'
<1> SUFFICES ASSUME NEW p \in merge'.old
             PROVE  plans'[p].file \notin {collecting'.file, merge'.file}
  BY DEF OldApart
<1>1. p \in Ids /\ plans[p].file \in File
  BY HeldType DEF StepFacts, OldFound, PlanInv, TypeInv, With
<1>2. plans[p].file \notin {collecting.file, merge.file}
  <2>1. CASE p \in merge.old
    BY <2>1 DEF PlanInv, OldApart
  <2>2. CASE MergeFindPlans
    BY <1>1, <2>2, FileAssumption DEF MergeFindPlans, PlanInv, MergeSteps
  <2> QED
    BY <2>1, <2>2 DEF StepFacts, OldFound
<1> QED
  BY <1>1, <1>2, UnusedApart, FileAssumption DEF StepFacts, FilesStay, FilesNamed

\* A target of a plan that a merge replaces stays where it is until the merge moves it.
LEMMA OldStay ==
  ASSUME PlanInv, StepFacts, merge'.old = merge.old, NEW t \in OldTargets'
  PROVE  t \in OldTargets /\ target'[t].file = target[t].file
<1>1. PICK p \in merge.old : plans'[p].file = target'[t].file
  BY DEF OldTargets
<1>2. p \in Ids /\ plans[p].file = target'[t].file
  BY <1>1 DEF PlanInv, TypeInv, StepFacts, FilesStay
<1>3. target'[t].file \notin {collecting.file, merge.file}
  BY <1>1, <1>2 DEF PlanInv, OldApart
<1>4. Moves(t) /\ t \in Target
  BY DEF StepFacts, TargetsMove, OldTargets
<1>5. target[t].active /\ target'[t].file = target[t].file
  BY <1>2, <1>3, <1>4, UnusedApart DEF Moves
<1> QED
  BY <1>1, <1>2, <1>4, <1>5 DEF OldTargets

LEMMA MergeFindsStays ==
  ASSUME PlanInv, StepFacts
  PROVE  MergeFinds'
<1>1. CASE merge' = merge
  <2>1. OldTargets' \subseteq OldTargets
    BY <1>1, OldStay
  <2> QED
    BY <1>1, <2>1 DEF PlanInv, MergeFinds
<1>2. CASE merge' = NoMerge \/ MergeFindPlans
  BY <1>2, MergeActions DEF PlanInv, MergeFinds, NoMerge
<1>3. CASE MergeFindTargets
  <2>1. /\ merge'.old = merge.old /\ merge'.step \in {"saving", "closing"}
        /\ merge'.step = "closing" => merge'.targets = {}
    BY <1>3, MergeActions DEF PlanInv
  <2>2. OldTargets' \subseteq merge'.targets
    BY <1>3, MergeActions, MergeGuards DEF PlanInv, OldTargets, ActiveOf
  <2> QED
    BY <2>1, <2>2 DEF MergeFinds
<1>4. CASE MergeSavePlans
  <2>1. merge'.old = merge.old /\ merge'.targets = merge.targets /\ merge'.step = "moving"
    BY <1>4, MergeActions DEF PlanInv
  <2>2. OldTargets' \subseteq OldTargets
    BY <2>1, OldStay
  <2> QED
    BY <1>4, <2>1, <2>2, MergeGuards DEF PlanInv, MergeFinds
<1>5. CASE MergeMoveTargets
  <2>1. merge'.old = merge.old /\ merge'.step = "closing"
    BY <1>5, MergeActions DEF PlanInv
  <2>2. ASSUME NEW t \in OldTargets' PROVE FALSE
    <3>1. t \in OldTargets /\ target'[t].file = target[t].file
      BY <2>1, OldStay
    <3>2. t \in merge.targets /\ t \in Target
      BY <1>5, <3>1, MergeGuards DEF PlanInv, MergeFinds, OldTargets
    <3>3. target'[t].file = merge.file
      <4>1. target[t] \in TargetRow
        BY <3>2 DEF PlanInv, TypeInv, TypeOK
      <4>2. [target[t] EXCEPT !.file = merge.file].file = merge.file
        BY <4>1 DEF TargetRow
      <4> QED
        BY <1>5, <3>2, <4>2 DEF MergeMoveTargets
    <3> QED
      BY <3>1, <3>3 DEF PlanInv, OldTargets, OldApart
  <2> QED
    BY <2>1, <2>2 DEF MergeFinds
<1> QED
  BY <1>1, <1>2, <1>3, <1>4, <1>5 DEF StepFacts, MergeCame

-----------------------------------------------------------------------------
(* Every active target is covered.                                         *)

\* A plan that waits after the step is not about to be ended.
LEMMA WaitingCovers ==
  ASSUME HeldTaken', NEW t \in Target, (Of(target[t].file) \cap With("READY"))' # {}
  PROVE  Covered(t)'
<1>1. PICK p \in Of(target[t].file)' : plans'[p].status = "READY"
  BY DEF Of, With
<1>2. Lasting(p)'
  BY <1>1 DEF HeldTaken, Lasting
<1> QED
  BY <1>1, <1>2 DEF Covered

\* A target that is written to another file finds a plan there.
LEMMA MovedCovered ==
  ASSUME PlanInv, StepFacts, HeldTaken', NEW t \in Target, target'[t].active,
         ~(target[t].active /\ target'[t].file = target[t].file)
  PROVE  Covered(t)'
<1>1. Moves(t)
  BY DEF StepFacts, TargetsMove
<1>2. PICK f : f = target'[t].file
  OBVIOUS
<1>3. (Of(f) \cap With("READY"))' # {}
  <2>1. CASE InsertTargets /\ f = collecting.file
    BY <1>2, <2>1, WaitsOn DEF InsertTargets, PlanInv, CollectionPlanned
  <2>2. CASE MergeMoveTargets /\ f = merge.file
    BY <2>2, WaitsOn, MergeGuards DEF PlanInv, MergePlanned
  <2>3. CASE f \in Unused /\ Grown(f) /\ DOMAIN plans' \ Ids # {}
    BY <2>3, NewWaits
  <2> QED
    BY <1>1, <1>2, <2>1, <2>2, <2>3 DEF Moves
<1>4. (Of(target[t].file) \cap With("READY"))' # {}
  BY <1>2, <1>3 DEF Of
<1> QED
  BY <1>4, WaitingCovers

\* The files that were given up stay so.
LEMMA AbandonedStays ==
  ASSUME Next
  PROVE  abandoned \subseteq abandoned'
BY DEF Next, Tick, Age, Reset, CollectPlans, CreatePlan, InsertTargets, ReachAim,
  UpdateAllActive, Execute, FindPlan, TakePlan, ReadTargets, Crawl, UpdateActive, CheckNext,
  CountTargets, CloseFile, InsertNext, Finish, FailCrawl, GiveUpFile, Break, BreakWriter, Merge,
  MergeClosePlans, MergeFindPlans, MergeFindTargets, MergeSavePlans, MergeMoveTargets

\* The files whose plans are closed by a step have no active target.
LEMMA ClosedEmpty ==
  ASSUME PlanInv, NEW t \in Target, target[t].active
  PROVE  /\ \A e \in Executor : CloseFile(e) => target[t].file # FileOf(e)
         /\ MergeClosePlans => \A p \in merge.old : plans[p].file # target[t].file
<1>1. \A e \in Executor : CloseFile(e) => ActiveOf(FileOf(e)) = {}
  BY DEF PlanInv, ClosingEmpty, CloseFile, Goto
<1>2. MergeClosePlans => OldTargets = {}
  BY DEF PlanInv, MergeFinds, MergeClosePlans
<1> QED
  BY <1>1, <1>2 DEF ActiveOf, OldTargets

\* A target that stays in its file is still covered: by the plan that covered it, or by
\* what an execution has found or made before it ends that plan.
LEMMA KeptCovered ==
  ASSUME PlanInv, StepFacts, HeldTaken', Next, NEW t \in Target, target[t].active,
         target'[t].file = target[t].file
  PROVE  Covered(t)'
<1> DEFINE f == target[t].file
<1>1. CASE f \in abandoned
  BY <1>1, AbandonedStays DEF Covered
<1>2. ASSUME NEW p \in Of(f), Lasting(p) PROVE Covered(t)'
  <2>1. p \in Ids /\ plans[p].file = f /\ p \in (Of(f))'
    BY DEF Of, StepFacts, FilesStay, Ids
  <2>2. plans'[p].status \in {"READY", "RUNNING"}
    <3>1. \A e \in Executor : CloseFile(e) => p \notin Of(FileOf(e))
      BY <2>1, ClosedEmpty DEF Of
    <3>2. \A e \in Executor : Finish(e) => p # held[e]
      BY <1>2 DEF Lasting, Finish, Goto
    <3>3. MergeClosePlans => p \notin merge.old
      BY <2>1, ClosedEmpty
    <3> QED
      BY <1>2, <2>1, <3>1, <3>2, <3>3 DEF StepFacts, PlansChange, Grown, Marked, Lasting
  <2>3. CASE \A e \in Executor : pc'[e] = "finishing" => held'[e] # p
    BY <2>1, <2>2, <2>3 DEF Covered, Lasting
  <2>4. ASSUME NEW e \in Executor, pc'[e] = "finishing", held'[e] = p PROVE Covered(t)'
    <3>1. held[e] = p /\ (CheckNext(e) \/ CloseFile(e) \/ InsertNext(e) \/ GiveUpFile(e))
      <4>1. ~FindPlan(e)
        BY <2>4 DEF FindPlan, Goto, PlanInv, TypeInv, TypeOK
      <4> QED
        BY <1>2, <2>4, <4>1 DEF StepFacts, HoldsOn, CameFrom, Lasting
    <3>2. FileOf(e) = f
      BY <2>1, <3>1 DEF FileOf
    <3>3. ~CloseFile(e)
      BY <3>2, ClosedEmpty
    <3>4. CASE CheckNext(e)
      <4>1. Of(f) \cap With("READY") # {} /\ plans' = plans
        BY <2>4, <3>2, <3>4 DEF CheckNext, Goto, PlanInv, TypeInv, TypeOK
      <4>2. (Of(f) \cap With("READY"))' # {}
        BY <4>1 DEF Of, With, Ids
      <4> QED
        BY <4>2, WaitingCovers
    <3>5. CASE InsertNext(e)
      <4>1. Grown(f) /\ DOMAIN plans' \ Ids # {}
        BY <3>2, <3>5, NextGrows DEF PlanInv
      <4>2. (Of(f) \cap With("READY"))' # {}
        BY <4>1, NewWaits
      <4> QED
        BY <4>2, WaitingCovers
    <3>6. CASE GiveUpFile(e)
      BY <3>2, <3>6 DEF GiveUpFile, Covered
    <3> QED
      BY <3>1, <3>3, <3>4, <3>5, <3>6
  <2> QED
    BY <2>3, <2>4
<1>3. Covered(t)
  BY DEF PlanInv, Covering
<1> QED
  BY <1>1, <1>2, <1>3 DEF Covered

LEMMA PlanInvStays ==
  ASSUME Late = {}
  PROVE  PlanInv /\ [Next]_vars => PlanInv'
<1>1. ASSUME PlanInv, Next PROVE PlanInv'
  <2>1. TypeInv' /\ StepFacts
    BY <1>1, TypeStays, StepHasFacts DEF PlanInv
  <2>2. HeldApart' /\ HeldTaken' /\ ClosingEmpty' /\ CollectionPlanned' /\ MergePlanned'
    BY <1>1, <2>1, HeldApartStays, HeldTakenStays, ClosingEmptyStays, CollectionPlannedStays,
      MergePlannedStays
  <2>3. OldApart' /\ MergeFinds' /\ MergeSteps'
    BY <1>1, <2>1, OldApartStays, MergeFindsStays, MergeStepsStay
  <2>4. ASSUME NEW t \in Target, target'[t].active PROVE Covered(t)'
    BY <1>1, <2>1, <2>2, <2>4, MovedCovered, KeptCovered
  <2>5. Covering'
    BY <2>4 DEF Covering
  <2> QED
    BY <2>1, <2>2, <2>3, <2>5 DEF PlanInv
<1>2. ASSUME PlanInv, UNCHANGED vars PROVE PlanInv'
  <2>1. TypeInv'
    BY <1>2, TypeStays DEF PlanInv
  <2> QED
    BY <1>2, <2>1 DEF PlanInv, HeldApart, HeldTaken, ClosingEmpty, CollectionPlanned, MergePlanned,
      OldApart, MergeFinds, OldTargets, MergeSteps, Covering, Covered, Lasting, ActiveOf, FileOf, Of,
      With, Ids, vars, execVars
<1> QED
  BY <1>1, <1>2

LEMMA PlanInvPlans == PlanInv => ActiveTargetIsPlanned
<1> SUFFICES ASSUME PlanInv, NEW t \in Target, target[t].active, target[t].file \notin abandoned
             PROVE  Of(target[t].file) \cap Open # {}
  BY DEF ActiveTargetIsPlanned
<1>1. PICK p \in Of(target[t].file) : Lasting(p)
  BY DEF PlanInv, Covering, Covered
<1> QED
  BY <1>1 DEF Lasting, Open, With, Of

\* As long as no job takes longer than it should, a target that is still to be crawled
\* always has a plan that is open, with any number of executions.
THEOREM TargetsArePlanned ==
  ASSUME Late = {}
  PROVE  Spec => []ActiveTargetIsPlanned
BY InitPlanInv, PlanInvStays, PlanInvPlans, PTL DEF Spec
=============================================================================
