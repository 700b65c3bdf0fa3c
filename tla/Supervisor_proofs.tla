------------------------- MODULE Supervisor_proofs --------------------------
(***************************************************************************)
(* Proofs about Supervisor, for plans of any size and any limits.          *)
(***************************************************************************)
EXTENDS Supervisor, FiniteSetTheorems, WellFoundedInduction, TLAPS

-----------------------------------------------------------------------------
(* Types.                                                                  *)

\* Freshly built tasks are pending and form a plan.
LEMMA BuiltPlan ==
    ASSUME NEW deps \in DepLists
    PROVE  /\ BuildTodoItems(deps) \in Seq(Tasks)
           /\ BuildTodoItems(deps) # NoPlan
           /\ \A i \in DOMAIN BuildTodoItems(deps) :
                BuildTodoItems(deps)[i].status = "pending"
  <1>1. PICK n \in 1..MaxTasks : deps \in [1..n -> 0..MaxTasks]
    BY DEF DepLists
  <1>2. n \in Nat /\ 1 \in 1..n
    BY <1>1, LimitsAreNat
  <1>3. BuildTodoItems(deps) \in [1..n -> Tasks]
    BY <1>1 DEF BuildTodoItems, Tasks, Statuses
  <1>4. BuildTodoItems(deps) \in Seq(Tasks)
    BY <1>2, <1>3
  <1>5. DOMAIN BuildTodoItems(deps) = 1..n
    BY <1>1 DEF BuildTodoItems
  <1>6. BuildTodoItems(deps) # NoPlan
    BY <1>2, <1>5 DEF NoPlan
  <1>7. QED
    BY <1>1, <1>4, <1>5, <1>6 DEF BuildTodoItems

\* Replacing a task by another with the same dependency leaves a plan.
LEMMA ChangedTask ==
    ASSUME NEW p \in Seq(Tasks), NEW i \in DOMAIN p, NEW t \in Tasks, t.dep = p[i].dep
    PROVE  /\ [p EXCEPT ![i] = t] \in Seq(Tasks)
           /\ DOMAIN [p EXCEPT ![i] = t] = DOMAIN p
           /\ \A j \in DOMAIN p :
                /\ [p EXCEPT ![i] = t][j].dep = p[j].dep
                /\ [p EXCEPT ![i] = t][j].status = IF j = i THEN t.status ELSE p[j].status
                /\ [p EXCEPT ![i] = t][j].ref = IF j = i THEN t.ref ELSE p[j].ref
  OBVIOUS

\* What MarkProcessed does to a plan.
LEMMA MarkedPlan ==
    ASSUME plan \in Seq(Tasks), NEW i \in DOMAIN plan, NEW ref \in BOOLEAN,
           MarkProcessed(i, ref)
    PROVE  /\ plan' \in Seq(Tasks)
           /\ DOMAIN plan' = DOMAIN plan
           /\ \A j \in DOMAIN plan :
                /\ plan'[j].dep = plan[j].dep
                /\ plan'[j].status = IF j = i THEN "done" ELSE plan[j].status
  <1> DEFINE t == [plan[i] EXCEPT !.status = "done", !.ref = plan[i].ref \/ ref]
  <1>1. plan[i] \in Tasks
    OBVIOUS
  <1>2. t \in Tasks /\ t.dep = plan[i].dep /\ t.status = "done"
    BY <1>1 DEF Tasks, Statuses
  <1>3. plan' = [plan EXCEPT ![i] = t]
    BY <1>1 DEF MarkProcessed, Tasks
  <1> HIDE DEF t
  <1>4. QED
    BY <1>2, <1>3, ChangedTask

\* What MarkStarted does to a plan.
LEMMA PickedPlan ==
    ASSUME plan \in Seq(Tasks), NEW i \in DOMAIN plan, MarkStarted(i)
    PROVE  /\ plan' \in Seq(Tasks)
           /\ DOMAIN plan' = DOMAIN plan
           /\ \A j \in DOMAIN plan :
                /\ plan'[j].dep = plan[j].dep
                /\ plan'[j].status = IF j = i THEN "in_progress" ELSE plan[j].status
  <1> DEFINE t == [plan[i] EXCEPT !.status = "in_progress"]
  <1>1. plan[i] \in Tasks
    OBVIOUS
  <1>2. t \in Tasks /\ t.dep = plan[i].dep /\ t.status = "in_progress"
    BY <1>1 DEF Tasks, Statuses
  <1>3. plan' = [plan EXCEPT ![i] = t]
    BY <1>1 DEF MarkStarted, Tasks
  <1> HIDE DEF t
  <1>4. QED
    BY <1>2, <1>3, ChangedTask

LEMMA EmptyPlan == NoPlan \in Seq(Tasks) /\ << >> \in Seq(BOOLEAN) /\ DOMAIN NoPlan = {}
  BY DEF NoPlan

LEMMA TypeInit == Init => TypeOK
  <1> SUFFICES ASSUME Init PROVE TypeOK
    OBVIOUS
  <1>1. plan \in Seq(Tasks) /\ results \in Seq(BOOLEAN)
    BY EmptyPlan DEF Init
  <1>2. at \in {"idle"} \cup Nodes \cup Asking /\ classification \in Verdicts \cup {"none"}
    BY DEF Init
  <1>3. result \in Results /\ user_input \in Inputs /\ reviewed \in BOOLEAN
    BY DEF Init, Results, Inputs
  <1>4. visits \in Nat /\ turns \in Nat /\ failures \in Nat /\ runVisits \in Nat
    BY DEF Init
  <1>5. QED
    BY <1>1, <1>2, <1>3, <1>4 DEF TypeOK

LEMMA TypeStep == TypeOK /\ [Next]_vars => TypeOK'
  <1> SUFFICES ASSUME TypeOK, [Next]_vars PROVE TypeOK'
    OBVIOUS
  <1> USE DEF TypeOK, history, Nodes, Asking, Verdicts, Results, Inputs
  <1>1. CASE StartTurn
    BY <1>1 DEF StartTurn
  <1>2. CASE Fail
    BY <1>2 DEF Fail
  <1>3. CASE Hub
    <2>1. CASE HubStops
      BY <2>1 DEF HubStops, Visit
    <2>2. CASE HubPicksTask
      <3>1. PICK i \in DOMAIN plan : MarkStarted(i)
        BY <2>2 DEF HubPicksTask
      <3>2. plan' \in Seq(Tasks)
        BY <3>1, PickedPlan
      <3>3. QED
        BY <2>2, <3>2 DEF HubPicksTask, Visit
    <2>3. CASE HubFindsNoTask
      BY <2>3 DEF HubFindsNoTask, Visit, EndOfTurn
    <2>4. CASE HubClassifies
      BY <2>4 DEF HubClassifies, Visit, EndOfTurn
    <2>5. QED
      BY <1>3, <2>1, <2>2, <2>3, <2>4 DEF Hub
  <1>4. CASE Plans
    <2>1. CASE PlanBuilt
      <3>1. PICK deps \in DepLists : /\ plan' = BuildTodoItems(deps)
                                     /\ reviewed' = ~IsComplex(plan')
                                     /\ at' = RouteFromPlanNode(plan')
        BY <2>1 DEF PlanBuilt
      <3>2. plan' \in Seq(Tasks)
        BY <3>1, BuiltPlan
      <3>3. QED
        BY <2>1, <3>1, <3>2 DEF PlanBuilt, RouteFromPlanNode, IsComplex
    <2>2. CASE PlanAsks \/ PlanClarified
      BY <2>2, EmptyPlan DEF PlanAsks, PlanClarified
    <2>3. QED
      BY <1>4, <2>1, <2>2 DEF Plans
  <1>5. CASE Reviews
    <2>1. CASE ReviewModified
      <3>1. plan' \in Seq(Tasks)
        BY <2>1, BuiltPlan DEF ReviewModified
      <3>2. QED
        BY <2>1, <3>1 DEF ReviewModified
    <2>2. CASE ReviewAsks \/ ReviewApproved \/ ReviewCancelled
      BY <2>2, EmptyPlan DEF ReviewAsks, ReviewApproved, ReviewCancelled
    <2>3. QED
      BY <1>5, <2>1, <2>2 DEF Reviews
  <1>6. CASE Works
    <2>1. CASE TaskAsks
      BY <2>1 DEF TaskAsks
    <2>2. CASE TaskProcessed
      <3>1. PICK i \in DOMAIN plan, ref \in BOOLEAN :
              MarkProcessed(i, ref) /\ results' = Append(results, ref)
        BY <2>2 DEF TaskProcessed
      <3>2. plan' \in Seq(Tasks)
        BY <3>1, MarkedPlan
      <3>3. results' \in Seq(BOOLEAN)
        BY <3>1
      <3>4. QED
        BY <2>2, <3>2, <3>3 DEF TaskProcessed
    <2>3. QED
      BY <1>6, <2>1, <2>2 DEF Works
  <1>7. CASE Ends
    BY <1>7 DEF Ends, MemoryOptimization, FinalizeTurn
  <1>8. CASE UNCHANGED vars
    BY <1>8 DEF vars
  <1>9. QED
    BY <1>1, <1>2, <1>3, <1>4, <1>5, <1>6, <1>7, <1>8 DEF Next

\* Every variable of the Layer-1 state keeps its type.
THEOREM TypeCorrect == Spec => []TypeOK
  BY TypeInit, TypeStep, PTL DEF Spec

-----------------------------------------------------------------------------
(* The inductive invariant.  A lost run leaves the state of any superstep  *)
(* behind, so all but the order of dependencies is claimed without one.    *)

Reviewing == at \in {"review_node", "plan_review"}

\* What holds between a node and the plan it finds, while no run is lost.
Orderly ==
    /\ \A i, j \in With(plan, "in_progress") : i = j
    /\ With(plan, "in_progress") # {} <=> at \in {"middle", "task"}
    /\ at \in {"plan_node", "plan_clarify"} => plan = NoPlan
    /\ Reviewing => With(plan, "pending") = DOMAIN plan /\ result # "execution_complete"
    /\ plan # NoPlan /\ ~Reviewing => reviewed
    /\ result = "execution_complete" /\ WellFormed(plan) => AllDone(plan)

OrderlyUnlessLost == failures = 0 => Orderly

\* Every way a step may change the plan.
PlanKept    == UNCHANGED plan
PlanDropped == Planning /\ plan' = NoPlan
PlanMade    == Planning /\ \E deps \in DepLists : plan' = BuildTodoItems(deps)
TaskPicked  == /\ at = "hub" /\ at' = "middle"
               /\ \E i \in DOMAIN plan : IsFirst(i, Ready(plan)) /\ MarkStarted(i)
TaskDone    == /\ at \in {"middle", "task"} /\ at' = "hub"
               /\ \E i \in DOMAIN plan, ref \in BOOLEAN :
                    IsFirst(i, With(plan, "in_progress")) /\ MarkProcessed(i, ref)

LEMMA PlanSteps ==
    ASSUME [Next]_vars
    PROVE  PlanKept \/ PlanDropped \/ PlanMade \/ TaskPicked \/ TaskDone
  <1>1. CASE StartTurn \/ Fail \/ Ends \/ UNCHANGED vars
    BY <1>1 DEF StartTurn, Fail, Ends, MemoryOptimization, FinalizeTurn, vars, PlanKept
  <1>2. CASE Hub
    <2>1. CASE HubPicksTask
      BY <2>1 DEF HubPicksTask, Visit, TaskPicked
    <2>2. CASE HubStops \/ HubFindsNoTask \/ HubClassifies
      BY <2>2 DEF HubStops, HubFindsNoTask, HubClassifies, PlanKept
    <2>3. QED
      BY <1>2, <2>1, <2>2 DEF Hub
  <1>3. CASE Plans
    BY <1>3 DEF Plans, PlanBuilt, PlanAsks, PlanClarified, Planning, PlanKept, PlanDropped,
                PlanMade
  <1>4. CASE Reviews
    BY <1>4 DEF Reviews, ReviewAsks, ReviewApproved, ReviewModified, ReviewCancelled,
                Planning, PlanKept, PlanDropped, PlanMade
  <1>5. CASE Works
    BY <1>5 DEF Works, TaskAsks, TaskProcessed, PlanKept, TaskDone
  <1>6. QED
    BY <1>1, <1>2, <1>3, <1>4, <1>5 DEF Next

-----------------------------------------------------------------------------
(* Dependencies, and what execution does to a plan.                        *)

LEMMA DependenciesStep ==
    ASSUME TypeOK, DependenciesFirst, [Next]_vars PROVE DependenciesFirst'
  <1> USE DEF DependenciesFirst, With
  <1>1. plan \in Seq(Tasks)
    BY DEF TypeOK
  <1>2. CASE PlanKept
    BY <1>2 DEF PlanKept
  <1>3. CASE PlanDropped
    BY <1>3, EmptyPlan DEF PlanDropped
  <1>4. CASE PlanMade
    BY <1>4, BuiltPlan DEF PlanMade
  <1>5. CASE TaskPicked
    <2>1. PICK i \in DOMAIN plan : IsFirst(i, Ready(plan)) /\ MarkStarted(i)
      BY <1>5 DEF TaskPicked
    <2>2. plan[i].status = "pending"
          /\ (plan[i].dep # 0 => plan[i].dep \in With(plan, "done"))
      BY <2>1 DEF IsFirst, Ready
    <2>3. /\ DOMAIN plan' = DOMAIN plan
          /\ \A j \in DOMAIN plan :
               /\ plan'[j].dep = plan[j].dep
               /\ plan'[j].status = IF j = i THEN "in_progress" ELSE plan[j].status
      BY <1>1, <2>1, PickedPlan
    <2>4. With(plan, "done") \subseteq With(plan', "done")
      BY <2>2, <2>3
    <2>5. QED
      BY <2>2, <2>3, <2>4
  <1>6. CASE TaskDone
    <2>1. PICK i \in DOMAIN plan, ref \in BOOLEAN :
            IsFirst(i, With(plan, "in_progress")) /\ MarkProcessed(i, ref)
      BY <1>6 DEF TaskDone
    <2>2. plan[i].status = "in_progress"
      BY <2>1 DEF IsFirst
    <2>3. /\ DOMAIN plan' = DOMAIN plan
          /\ \A j \in DOMAIN plan :
               /\ plan'[j].dep = plan[j].dep
               /\ plan'[j].status = IF j = i THEN "done" ELSE plan[j].status
      BY <1>1, <2>1, MarkedPlan
    <2>4. With(plan, "done") \subseteq With(plan', "done")
      BY <2>3
    <2>5. QED
      BY <2>2, <2>3, <2>4
  <1>7. QED
    BY <1>2, <1>3, <1>4, <1>5, <1>6, PlanSteps

\* Whatever dependencies the plans have and whatever runs are lost, no task is
\* started before the one it depends on is done.
THEOREM DependenciesCorrect == Spec => []DependenciesFirst
  <1>1. Init => DependenciesFirst
    BY EmptyPlan DEF Init, DependenciesFirst
  <1>2. QED
    BY <1>1, TypeCorrect, DependenciesStep, PTL DEF Spec

LEMMA StatusKnown ==
    ASSUME TypeOK, NEW i \in DOMAIN plan
    PROVE  plan[i].status \in Statuses /\ plan[i].dep \in 0..MaxTasks
  <1>1. plan[i] \in Tasks
    BY DEF TypeOK
  <1>2. QED
    BY <1>1 DEF Tasks

\* Outside planning and review a step never takes a task back and never
\* re-points or renumbers one.
THEOREM PlanAdvances == Spec => PlanOnlyAdvances
  <1> DEFINE Advances ==
        /\ DOMAIN plan' = DOMAIN plan
        /\ \A i \in DOMAIN plan :
             /\ plan'[i].dep = plan[i].dep
             /\ Rank(plan[i].status) <= Rank(plan'[i].status)
  <1>1. ASSUME TypeOK, [Next]_vars, ~Planning PROVE Advances
    <2>1. \A i \in DOMAIN plan : plan[i].status \in Statuses
      BY <1>1, StatusKnown
    <2>2. Rank("pending") = 0 /\ Rank("in_progress") = 1 /\ Rank("done") = 2
      BY DEF Rank
    <2>3. CASE PlanKept
      BY <2>1, <2>2, <2>3 DEF PlanKept, Statuses
    <2>4. CASE TaskPicked
      <3>1. PICK i \in DOMAIN plan : IsFirst(i, Ready(plan)) /\ MarkStarted(i)
        BY <2>4 DEF TaskPicked
      <3>2. plan[i].status = "pending"
        BY <3>1 DEF IsFirst, Ready, With
      <3>3. QED
        BY <1>1, <2>1, <2>2, <3>1, <3>2, PickedPlan DEF TypeOK, Statuses
    <2>5. CASE TaskDone
      <3>1. PICK i \in DOMAIN plan, ref \in BOOLEAN : MarkProcessed(i, ref)
        BY <2>5 DEF TaskDone
      <3>2. QED
        BY <1>1, <2>1, <2>2, <3>1, MarkedPlan DEF TypeOK, Statuses
    <2>6. QED
      BY <1>1, <2>3, <2>4, <2>5, PlanSteps DEF PlanDropped, PlanMade
  <1>2. TypeOK /\ [Next]_vars => [~Planning => Advances]_vars
    BY <1>1
  <1>3. QED
    BY <1>2, TypeCorrect, PTL DEF Spec, PlanOnlyAdvances

-----------------------------------------------------------------------------
(* Runs in good order.                                                     *)

\* A set of numbers has a least one.
LEMMA LeastElement ==
    ASSUME NEW S, S \subseteq Nat, S # {}
    PROVE  \E n \in S : \A m \in S : n <= m
  <1> DEFINE Below == OpToRel(<, Nat)
  <1>1. IsWellFoundedOn(Below, Nat)
    BY NatLessThanWellFounded
  <1>2. \A x, y \in Nat : y < x => <<y, x>> \in Below
    BY DEF OpToRel
  <1> HIDE DEF Below
  <1>3. PICK n \in S : \A m \in S : <<m, n>> \notin Below
    BY <1>1, WFMin, Zenon
  <1>4. \A m \in S : ~(m < n)
    BY <1>2, <1>3, Zenon
  <1>5. n \in Nat /\ \A m \in S : m \in Nat
    OBVIOUS
  <1>6. QED
    BY <1>4, <1>5

\* A plan whose tasks depend on earlier tasks only is never stuck: its first
\* pending task is ready.
LEMMA FinishedIfStuck ==
    ASSUME TypeOK, WellFormed(plan), Ready(plan) = {}, With(plan, "in_progress") = {}
    PROVE  AllDone(plan)
  <1> USE DEF With
  <1>1. DOMAIN plan \subseteq Nat /\ \A j \in DOMAIN plan : \A k \in 1..j : k \in DOMAIN plan
    BY DEF TypeOK
  <1>2. ASSUME With(plan, "pending") # {} PROVE FALSE
    <2>1. PICK i \in With(plan, "pending") : \A j \in With(plan, "pending") : i <= j
      BY <1>1, <1>2, LeastElement
    <2>2. plan[i].dep < i /\ plan[i].dep \in Nat
      BY StatusKnown, LimitsAreNat DEF WellFormed
    <2>3. CASE plan[i].dep = 0
      BY <2>3 DEF Ready
    <2>4. CASE plan[i].dep # 0
      <3>1. plan[i].dep \in DOMAIN plan
        BY <1>1, <2>2, <2>4
      <3>2. plan[plan[i].dep].status \notin {"pending", "in_progress"}
        BY <1>1, <2>1, <2>2, <3>1
      <3>3. plan[plan[i].dep].status = "done"
        BY <3>1, <3>2, StatusKnown DEF Statuses
      <3>4. QED
        BY <3>1, <3>3 DEF Ready
    <2>5. QED
      BY <2>3, <2>4
  <1>3. QED
    BY <1>2, StatusKnown DEF AllDone, Statuses

LEMMA OrderlyHub ==
    ASSUME TypeOK, Orderly, Hub PROVE Orderly'
  <1>1. at = "hub" /\ UNCHANGED reviewed
    BY DEF Hub, HubStops, HubPicksTask, HubFindsNoTask, HubClassifies, Visit
  <1>2. With(plan, "in_progress") = {} /\ (plan # NoPlan => reviewed)
    BY <1>1 DEF Orderly, Reviewing
  <1>3. CASE HubStops
    BY <1>1, <1>2, <1>3 DEF HubStops, Orderly, Reviewing, With
  <1>4. CASE HubPicksTask
    <2>1. PICK i \in DOMAIN plan : IsFirst(i, Ready(plan)) /\ MarkStarted(i)
      BY <1>4 DEF HubPicksTask
    <2>2. /\ DOMAIN plan' = DOMAIN plan
          /\ \A j \in DOMAIN plan :
               /\ plan'[j].dep = plan[j].dep
               /\ plan'[j].status = IF j = i THEN "in_progress" ELSE plan[j].status
      BY <2>1, PickedPlan DEF TypeOK
    <2>3. plan[i].status = "pending" /\ plan # NoPlan
      BY <2>1, EmptyPlan DEF IsFirst, Ready, With
    <2>4. With(plan', "in_progress") = {i}
      BY <1>2, <2>2 DEF With
    <2>5. ~(result = "execution_complete" /\ WellFormed(plan))
      BY <2>3 DEF Orderly, AllDone, With
    <2>6. WellFormed(plan') <=> WellFormed(plan)
      BY <2>2 DEF WellFormed
    <2>7. at' = "middle" /\ UNCHANGED result
      BY <1>4 DEF HubPicksTask
    <2>8. QED
      BY <1>1, <1>2, <2>3, <2>4, <2>5, <2>6, <2>7 DEF Orderly, Reviewing
  <1>5. CASE HubFindsNoTask
    <2>1. at' \in EndOfTurn /\ UNCHANGED plan /\ Ready(plan) = {} /\ plan # NoPlan
      BY <1>2, <1>5 DEF HubFindsNoTask
    <2>2. WellFormed(plan) => AllDone(plan)
      BY <1>2, <2>1, FinishedIfStuck
    <2>3. QED
      BY <1>1, <1>2, <2>1, <2>2 DEF Orderly, Reviewing, EndOfTurn, With, WellFormed, AllDone
  <1>6. CASE HubClassifies
    <2>1. UNCHANGED plan /\ plan = NoPlan /\ at' \in EndOfTurn \cup {"plan_node"}
      BY <1>6 DEF HubClassifies
    <2>2. QED
      BY <1>2, <2>1, EmptyPlan DEF Orderly, Reviewing, EndOfTurn, With, WellFormed, AllDone
  <1>7. QED
    BY <1>3, <1>4, <1>5, <1>6 DEF Hub

LEMMA OrderlyPlans ==
    ASSUME TypeOK, Orderly, Plans \/ Reviews PROVE Orderly'
  <1> USE DEF Orderly, Reviewing, With, AllDone
  <1>1. CASE PlanBuilt
    <2>1. PICK deps \in DepLists : /\ plan' = BuildTodoItems(deps)
                                   /\ reviewed' = ~IsComplex(plan')
                                   /\ at' = RouteFromPlanNode(plan')
      BY <1>1 DEF PlanBuilt
    <2>2. \A i \in DOMAIN plan' : plan'[i].status = "pending"
      BY <2>1, BuiltPlan
    <2>3. result' = "plan_built"
      BY <1>1 DEF PlanBuilt
    <2>4. \/ at' = "hub" /\ reviewed'
          \/ at' = "review_node"
      BY <2>1 DEF RouteFromPlanNode
    <2>5. QED
      BY <2>2, <2>3, <2>4
  <1>2. CASE PlanAsks
    BY <1>2 DEF PlanAsks, history
  <1>3. CASE PlanClarified
    BY <1>3, EmptyPlan DEF PlanClarified, history
  <1>4. CASE ReviewAsks
    BY <1>4 DEF ReviewAsks, history, WellFormed
  <1>5. CASE ReviewApproved
    BY <1>5 DEF ReviewApproved, WellFormed
  <1>6. CASE ReviewModified
    <2>1. \A i \in DOMAIN plan' : plan'[i].status = "pending"
      BY <1>6, BuiltPlan DEF ReviewModified
    <2>2. QED
      BY <1>6, <2>1 DEF ReviewModified
  <1>7. CASE ReviewCancelled
    BY <1>7, EmptyPlan DEF ReviewCancelled, history
  <1>8. QED
    BY <1>1, <1>2, <1>3, <1>4, <1>5, <1>6, <1>7 DEF Plans, Reviews

LEMMA OrderlyRest ==
    ASSUME TypeOK, Orderly, StartTurn \/ Works \/ Ends \/ UNCHANGED vars PROVE Orderly'
  <1> USE DEF Orderly, Reviewing, With, AllDone, WellFormed
  <1>1. CASE StartTurn
    BY <1>1 DEF StartTurn
  <1>2. CASE TaskAsks
    BY <1>2 DEF TaskAsks, history
  <1>3. CASE TaskProcessed
    <2>1. PICK i \in DOMAIN plan, ref \in BOOLEAN :
            IsFirst(i, With(plan, "in_progress")) /\ MarkProcessed(i, ref)
      BY <1>3 DEF TaskProcessed
    <2>2. /\ DOMAIN plan' = DOMAIN plan
          /\ \A j \in DOMAIN plan :
               plan'[j].status = IF j = i THEN "done" ELSE plan[j].status
      BY <2>1, MarkedPlan DEF TypeOK
    <2>3. i \in With(plan, "in_progress") /\ plan # NoPlan
      BY <2>1, EmptyPlan DEF IsFirst
    <2>4. With(plan', "in_progress") = {}
      BY <2>2, <2>3
    <2>5. /\ at \in {"middle", "task"} /\ at' = "hub"
          /\ result' = "task_processed" /\ UNCHANGED reviewed
      BY <1>3 DEF TaskProcessed, history
    <2>6. QED
      BY <2>3, <2>4, <2>5
  <1>4. CASE Ends
    BY <1>4 DEF Ends, MemoryOptimization, FinalizeTurn, history
  <1>5. CASE UNCHANGED vars
    BY <1>5 DEF vars, history
  <1>6. QED
    BY <1>1, <1>2, <1>3, <1>4, <1>5 DEF Works

LEMMA OrderlyStep == TypeOK /\ OrderlyUnlessLost /\ [Next]_vars => OrderlyUnlessLost'
  <1> SUFFICES ASSUME TypeOK, OrderlyUnlessLost, [Next]_vars, failures' = 0 PROVE Orderly'
    BY DEF OrderlyUnlessLost
  <1>1. ~Fail
    BY DEF Fail, TypeOK
  <1>2. failures = 0
    <2>1. CASE StartTurn \/ Ends \/ Works \/ UNCHANGED vars
      BY <2>1 DEF StartTurn, Ends, MemoryOptimization, FinalizeTurn, Works, TaskAsks,
                  TaskProcessed, vars, history
    <2>2. CASE Hub
      BY <2>2 DEF Hub, HubStops, HubPicksTask, HubFindsNoTask, HubClassifies, Visit
    <2>3. CASE Plans \/ Reviews
      BY <2>3 DEF Plans, PlanBuilt, PlanAsks, PlanClarified, Reviews, ReviewAsks,
                  ReviewApproved, ReviewModified, ReviewCancelled, history
    <2>4. QED
      BY <1>1, <2>1, <2>2, <2>3 DEF Next
  <1>3. QED
    BY <1>1, <1>2, OrderlyHub, OrderlyPlans, OrderlyRest DEF OrderlyUnlessLost, Next

LEMMA OrderlyAlways == Spec => []OrderlyUnlessLost
  <1>1. Init => OrderlyUnlessLost
    BY EmptyPlan DEF Init, OrderlyUnlessLost, Orderly, Reviewing, With, AllDone
  <1>2. QED
    BY <1>1, TypeCorrect, OrderlyStep, PTL DEF Spec

\* Unless a run is lost, at most one task is in progress, exactly while Layer 2
\* has it.
THEOREM OneTaskCorrect == Spec => []OneTaskInProgress
  <1>1. OrderlyUnlessLost => OneTaskInProgress
    BY DEF OrderlyUnlessLost, Orderly, OneTaskInProgress
  <1>2. QED
    BY <1>1, OrderlyAlways, PTL

\* Unless a run is lost, a task of a plan with several tasks starts only after
\* the user accepted the plan.
THEOREM ApprovalCorrect == Spec => []ApprovedBeforeStart
  <1>1. OrderlyUnlessLost => ApprovedBeforeStart
    BY EmptyPlan DEF OrderlyUnlessLost, Orderly, Reviewing, ApprovedBeforeStart, With
  <1>2. QED
    BY <1>1, OrderlyAlways, PTL

\* Unless a run is lost, execution_complete is the truth about every plan whose
\* tasks depend on earlier tasks only, of any length.
THEOREM CompletionCorrect == Spec => []WellFormedPlanFinishes
  <1>1. OrderlyUnlessLost => WellFormedPlanFinishes
    BY DEF OrderlyUnlessLost, Orderly, WellFormedPlanFinishes
  <1>2. QED
    BY <1>1, OrderlyAlways, PTL

-----------------------------------------------------------------------------
(* The light references of a finished turn.                                *)

\* Only a task that is done has a reference.
RefsOfDone == \A i \in DOMAIN plan : plan[i].status # "done" => ~plan[i].ref

CoverInv == RefsOfDone /\ ResultsCoverPlan

\* What ResultsCoverPlan counts among the last k results.
LastRefs(r, k) == {i \in Len(r) - k + 1 .. Len(r) : r[i]}

LEMMA DoneFinite ==
    ASSUME NEW p \in Seq(Tasks)
    PROVE  /\ IsFiniteSet(With(p, "done"))
           /\ IsFiniteSet({i \in With(p, "done") : p[i].ref})
  <1>1. DOMAIN p = 1..Len(p) /\ Len(p) \in Nat
    OBVIOUS
  <1>2. IsFiniteSet(DOMAIN p)
    BY <1>1, FS_Interval
  <1>3. With(p, "done") \subseteq DOMAIN p
    BY DEF With
  <1>4. QED
    BY <1>2, <1>3, FS_Subset

\* The window of k + 1 results after one more has come.
LEMMA OneMoreRef ==
    ASSUME NEW r \in Seq(BOOLEAN), NEW k \in Nat, k <= Len(r), NEW ref \in BOOLEAN
    PROVE  Cardinality(LastRefs(Append(r, ref), k + 1))
             = Cardinality(LastRefs(r, k)) + (IF ref THEN 1 ELSE 0)
  <1> DEFINE q == Append(r, ref)
             n == Len(r)
  <1>1. n \in Nat /\ Len(q) = n + 1 /\ q[n + 1] = ref /\ \A i \in 1..n : q[i] = r[i]
    OBVIOUS
  <1>2. \A i : i \in n + 1 - (k + 1) + 1 .. n + 1 <=> i \in n - k + 1 .. n \/ i = n + 1
    BY <1>1
  <1>3. \A i \in n - k + 1 .. n : i \in 1..n
    BY <1>1
  <1>4. LastRefs(q, k + 1) = LastRefs(r, k) \cup (IF ref THEN {n + 1} ELSE {})
    BY <1>1, <1>2, <1>3 DEF LastRefs
  <1>5. n + 1 \notin LastRefs(r, k)
    BY <1>1 DEF LastRefs
  <1>6. IsFiniteSet(LastRefs(r, k))
    <2>1. n - k + 1 \in Int /\ n \in Int
      BY <1>1
    <2>2. IsFiniteSet(n - k + 1 .. n)
      BY <2>1, FS_Interval
    <2>3. LastRefs(r, k) \subseteq n - k + 1 .. n
      BY DEF LastRefs
    <2>4. QED
      BY <2>2, <2>3, FS_Subset
  <1>7. Cardinality(LastRefs(r, k)) \in Nat
    BY <1>6, FS_CardinalityType
  <1> HIDE DEF q, n
  <1>8. CASE ref
    <2>1. LastRefs(q, k + 1) = LastRefs(r, k) \cup {n + 1}
      BY <1>4, <1>8
    <2>2. Cardinality(LastRefs(r, k) \cup {n + 1}) = Cardinality(LastRefs(r, k)) + 1
      BY <1>5, <1>6, FS_AddElement
    <2>3. QED
      BY <1>8, <2>1, <2>2 DEF q
  <1>9. CASE ~ref
    <2>1. LastRefs(q, k + 1) = LastRefs(r, k)
      BY <1>4, <1>9
    <2>2. QED
      BY <1>7, <1>9, <2>1 DEF q
  <1>10. QED
    BY <1>8, <1>9

\* A plan none of whose tasks has started is covered by any results.
LEMMA NothingDone ==
    ASSUME NEW p \in Seq(Tasks), NEW r \in Seq(BOOLEAN),
           \A i \in DOMAIN p : p[i].status = "pending"
    PROVE  /\ Cardinality(With(p, "done")) <= Len(r)
           /\ Cardinality(LastRefs(r, Cardinality(With(p, "done"))))
                = Cardinality({i \in With(p, "done") : p[i].ref})
  <1>1. With(p, "done") = {} /\ {i \in With(p, "done") : p[i].ref} = {}
    BY DEF With
  <1>2. Cardinality(With(p, "done")) = 0 /\ Cardinality({i \in With(p, "done") : p[i].ref}) = 0
    BY <1>1, FS_EmptySet
  <1>3. Len(r) \in Nat
    OBVIOUS
  <1>4. LastRefs(r, 0) = {}
    BY <1>3 DEF LastRefs
  <1>5. Cardinality(LastRefs(r, Cardinality(With(p, "done")))) = 0
    BY <1>2, <1>4, FS_EmptySet
  <1>6. QED
    BY <1>2, <1>3, <1>5

\* ResultsCoverPlan in terms of LastRefs.
LEMMA CoverMeans ==
    ResultsCoverPlan <=>
      /\ Cardinality(With(plan, "done")) <= Len(results)
      /\ Cardinality(LastRefs(results, Cardinality(With(plan, "done"))))
           = Cardinality({i \in With(plan, "done") : plan[i].ref})
  BY DEF ResultsCoverPlan, LastRefs, Referenced

LEMMA CoverMeansNext ==
    ResultsCoverPlan' <=>
      /\ Cardinality(With(plan', "done")) <= Len(results')
      /\ Cardinality(LastRefs(results', Cardinality(With(plan', "done"))))
           = Cardinality({i \in With(plan', "done") : plan'[i].ref})
  BY DEF ResultsCoverPlan, LastRefs, Referenced

\* Every way a step may change the plan, with what it does to the results.
LEMMA ResultSteps ==
    ASSUME [Next]_vars
    PROVE  \/ UNCHANGED results /\ (PlanKept \/ PlanDropped \/ PlanMade \/ TaskPicked)
           \/ TaskProcessed
  <1>1. CASE TaskProcessed
    BY <1>1
  <1>2. CASE ~TaskProcessed
    <2>1. UNCHANGED results
      BY <1>2 DEF Next, StartTurn, Fail, Hub, HubStops, HubPicksTask, HubFindsNoTask,
                  HubClassifies, Visit, Plans, PlanBuilt, PlanAsks, PlanClarified, Reviews,
                  ReviewAsks, ReviewApproved, ReviewModified, ReviewCancelled, Works,
                  TaskAsks, Ends, MemoryOptimization, FinalizeTurn, vars
    <2>2. PlanKept \/ PlanDropped \/ PlanMade \/ TaskPicked
      BY <1>2 DEF Next, StartTurn, Fail, Hub, HubStops, HubPicksTask, HubFindsNoTask,
                  HubClassifies, Visit, Plans, PlanBuilt, PlanAsks, PlanClarified, Reviews,
                  ReviewAsks, ReviewApproved, ReviewModified, ReviewCancelled, Works,
                  TaskAsks, Ends, MemoryOptimization, FinalizeTurn, vars,
                  PlanKept, PlanDropped, PlanMade, TaskPicked, Planning
    <2>3. QED
      BY <2>1, <2>2
  <1>3. QED
    BY <1>1, <1>2

\* The references of a plan a task of which has been picked or done.
LEMMA PickedRefs ==
    ASSUME plan \in Seq(Tasks), NEW i \in DOMAIN plan, MarkStarted(i)
    PROVE  \A j \in DOMAIN plan : plan'[j].ref = plan[j].ref
  <1>1. plan[i] \in Tasks
    OBVIOUS
  <1>2. plan' = [plan EXCEPT ![i] = [plan[i] EXCEPT !.status = "in_progress"]]
    BY DEF MarkStarted
  <1>3. QED
    BY <1>1, <1>2 DEF Tasks

LEMMA MarkedRefs ==
    ASSUME plan \in Seq(Tasks), NEW i \in DOMAIN plan, NEW ref \in BOOLEAN,
           MarkProcessed(i, ref)
    PROVE  \A j \in DOMAIN plan :
             plan'[j].ref = IF j = i THEN plan[i].ref \/ ref ELSE plan[j].ref
  <1>1. plan[i] \in Tasks
    OBVIOUS
  <1>2. plan' = [plan EXCEPT ![i] = [plan[i] EXCEPT !.status = "done",
                                                   !.ref = plan[i].ref \/ ref]]
    BY <1>1 DEF MarkProcessed, Tasks
  <1>3. QED
    BY <1>1, <1>2 DEF Tasks

LEMMA CoverStep ==
    ASSUME TypeOK, CoverInv, [Next]_vars PROVE CoverInv'
  <1> DEFINE Done == With(plan, "done")
             Refs == {i \in Done : plan[i].ref}
             k    == Cardinality(Done)
  <1>1. plan \in Seq(Tasks) /\ results \in Seq(BOOLEAN)
    BY DEF TypeOK
  <1>2. IsFiniteSet(Done) /\ IsFiniteSet(Refs) /\ k \in Nat /\ Cardinality(Refs) \in Nat
    BY <1>1, DoneFinite, FS_CardinalityType
  <1>3. k <= Len(results) /\ Cardinality(LastRefs(results, k)) = Cardinality(Refs)
    BY CoverMeans DEF CoverInv
  <1>4. ASSUME UNCHANGED results, plan' \in Seq(Tasks),
               \A i \in DOMAIN plan' : plan'[i].status = "pending" /\ ~plan'[i].ref
        PROVE  CoverInv'
    <2>1. /\ Cardinality(With(plan', "done")) <= Len(results')
          /\ Cardinality(LastRefs(results', Cardinality(With(plan', "done"))))
               = Cardinality({i \in With(plan', "done") : plan'[i].ref})
      BY <1>1, <1>4, NothingDone
    <2>2. ResultsCoverPlan'
      BY <2>1, CoverMeansNext
    <2>3. QED
      BY <1>4, <2>2 DEF CoverInv, RefsOfDone
  <1>5. ASSUME UNCHANGED results, With(plan', "done") = Done,
               {i \in With(plan', "done") : plan'[i].ref} = Refs, RefsOfDone'
        PROVE  CoverInv'
    BY <1>3, <1>5, CoverMeansNext DEF CoverInv
  <1>6. CASE UNCHANGED results /\ PlanKept
    BY <1>5, <1>6 DEF PlanKept, CoverInv, RefsOfDone
  <1>7. CASE UNCHANGED results /\ PlanDropped
    BY <1>4, <1>7, EmptyPlan DEF PlanDropped
  <1>8. CASE UNCHANGED results /\ PlanMade
    <2>1. PICK deps \in DepLists : plan' = BuildTodoItems(deps)
      BY <1>8 DEF PlanMade
    <2>2. \A i \in DOMAIN plan' : ~plan'[i].ref
      BY <2>1 DEF BuildTodoItems
    <2>3. QED
      BY <1>4, <1>8, <2>1, <2>2, BuiltPlan
  <1>9. CASE UNCHANGED results /\ TaskPicked
    <2>1. PICK i \in DOMAIN plan : IsFirst(i, Ready(plan)) /\ MarkStarted(i)
      BY <1>9 DEF TaskPicked
    <2>2. plan[i].status = "pending"
      BY <2>1 DEF IsFirst, Ready, With
    <2>3. /\ DOMAIN plan' = DOMAIN plan
          /\ \A j \in DOMAIN plan :
               /\ plan'[j].status = IF j = i THEN "in_progress" ELSE plan[j].status
               /\ plan'[j].ref = plan[j].ref
      BY <1>1, <2>1, PickedPlan, PickedRefs
    <2>4. With(plan', "done") = Done
      BY <2>2, <2>3 DEF With
    <2>5. {j \in With(plan', "done") : plan'[j].ref} = Refs
      BY <2>3, <2>4 DEF With
    <2>6. RefsOfDone'
      BY <2>2, <2>3 DEF CoverInv, RefsOfDone
    <2>7. QED
      BY <1>5, <1>9, <2>4, <2>5, <2>6
  <1>10. CASE TaskProcessed
    <2>1. PICK i \in DOMAIN plan, ref \in BOOLEAN :
            /\ IsFirst(i, With(plan, "in_progress"))
            /\ MarkProcessed(i, ref)
            /\ results' = Append(results, ref)
      BY <1>10 DEF TaskProcessed
    <2>2. plan[i].status = "in_progress" /\ ~plan[i].ref
      BY <2>1 DEF IsFirst, With, CoverInv, RefsOfDone
    <2>3. /\ DOMAIN plan' = DOMAIN plan
          /\ \A j \in DOMAIN plan :
               /\ plan'[j].status = IF j = i THEN "done" ELSE plan[j].status
               /\ plan'[j].ref = IF j = i THEN ref ELSE plan[j].ref
      BY <1>1, <2>1, <2>2, MarkedPlan, MarkedRefs
    <2>4. With(plan', "done") = Done \cup {i} /\ i \notin Done
      BY <2>2, <2>3 DEF With
    <2>5. {j \in With(plan', "done") : plan'[j].ref} = Refs \cup (IF ref THEN {i} ELSE {})
      BY <2>3, <2>4 DEF With
    <2>6. Cardinality(With(plan', "done")) = k + 1
      BY <1>2, <2>4, FS_AddElement
    <2>7. Cardinality({j \in With(plan', "done") : plan'[j].ref})
            = Cardinality(Refs) + (IF ref THEN 1 ELSE 0)
      <3>1. i \notin Refs
        BY <2>4
      <3>2. Cardinality(Refs \cup {i}) = Cardinality(Refs) + 1
        BY <1>2, <3>1, FS_AddElement
      <3>3. CASE ref
        <4>1. {j \in With(plan', "done") : plan'[j].ref} = Refs \cup {i}
          BY <2>5, <3>3
        <4>2. QED
          BY <3>2, <3>3, <4>1
      <3>4. CASE ~ref
        <4>1. {j \in With(plan', "done") : plan'[j].ref} = Refs
          BY <2>5, <3>4
        <4>2. Cardinality(Refs) = Cardinality(Refs) + 0
          <5> HIDE DEF Refs
          <5>1. QED
            BY <1>2
        <4>3. QED
          BY <3>4, <4>1, <4>2
      <3>5. QED
        BY <3>3, <3>4
    <2>8. Cardinality(LastRefs(results', k + 1)) = Cardinality(Refs) + (IF ref THEN 1 ELSE 0)
      BY <1>1, <1>2, <1>3, <2>1, OneMoreRef
    <2>9. Len(results') = Len(results) + 1
      BY <1>1, <2>1
    <2>10. ResultsCoverPlan'
      <3> HIDE DEF k, Refs, Done
      <3>1. k + 1 <= Len(results')
        BY <1>1, <1>2, <1>3, <2>9
      <3>2. QED
        BY <2>6, <2>7, <2>8, <3>1, CoverMeansNext
    <2>11. RefsOfDone'
      BY <2>3 DEF CoverInv, RefsOfDone
    <2>12. QED
      BY <2>10, <2>11 DEF CoverInv
  <1>11. QED
    BY <1>6, <1>7, <1>8, <1>9, <1>10, ResultSteps

\* The light references at hand always end with those of the current plan's
\* done tasks, for plans of any size and whatever runs are lost.
THEOREM ReferencesCover == Spec => []ResultsCoverPlan
  <1>1. Init => CoverInv
    <2> SUFFICES ASSUME Init PROVE CoverInv
      OBVIOUS
    <2>1. plan \in Seq(Tasks) /\ results \in Seq(BOOLEAN) /\ DOMAIN plan = {}
      BY EmptyPlan DEF Init
    <2>2. ResultsCoverPlan
      BY <2>1, NothingDone, CoverMeans
    <2>3. QED
      BY <2>1, <2>2 DEF CoverInv, RefsOfDone
  <1>2. CoverInv => ResultsCoverPlan
    BY DEF CoverInv
  <1>3. QED
    BY <1>1, <1>2, TypeCorrect, CoverStep, PTL DEF Spec

-----------------------------------------------------------------------------
(* How many supersteps there are between two replies.                      *)

\* A turn is past the hub only after a visit below the limit.
Visited == at \notin {"idle", "hub"} => visits > 0 /\ visits <= MaxVisits

LEMMA VisitedStep == TypeOK /\ Visited /\ [Next]_vars => Visited'
<1> SUFFICES ASSUME TypeOK, Visited, [Next]_vars PROVE Visited'
  OBVIOUS
<1>0. visits \in Nat /\ MaxVisits \in Nat
  BY LimitsAreNat DEF TypeOK
<1>1. CASE Hub
  <2>1. visits' = visits + 1
    BY <1>1 DEF Hub, HubStops, HubPicksTask, HubFindsNoTask, HubClassifies, Visit
  <2>2. at' = "idle" \/ visits' <= MaxVisits
    BY <1>0, <1>1, <2>1 DEF Hub, HubStops, HubPicksTask, HubFindsNoTask, HubClassifies,
                            GuardBreached
  <2> QED
    BY <1>0, <2>1, <2>2 DEF Visited
<1>2. CASE StartTurn \/ Fail
  BY <1>2 DEF StartTurn, Fail, Visited
<1>3. CASE Plans \/ Reviews \/ Works \/ Ends
  <2>1. visits' = visits
    BY <1>3 DEF Plans, PlanBuilt, PlanAsks, PlanClarified, Reviews, ReviewAsks,
                ReviewApproved, ReviewModified, ReviewCancelled, Works, TaskAsks,
                TaskProcessed, Ends, MemoryOptimization, FinalizeTurn
  <2>2. at \notin {"idle", "hub"}
    BY <1>3 DEF Plans, PlanBuilt, PlanAsks, PlanClarified, Reviews, ReviewAsks,
                ReviewApproved, ReviewModified, ReviewCancelled, Works, TaskAsks,
                TaskProcessed, Ends, MemoryOptimization, FinalizeTurn
  <2> QED
    BY <2>1, <2>2 DEF Visited
<1>4. CASE UNCHANGED vars
  BY <1>4 DEF vars, Visited
<1> QED
  BY <1>1, <1>2, <1>3, <1>4 DEF Next

StepsInRange ==
    /\ StepsLeft \in Nat
    /\ HubSteps \in Nat
    /\ HubSteps >= 1
    /\ HubSteps <= 2 * MaxVisits + 1
    /\ visits > 0 /\ visits <= MaxVisits => HubSteps < 2 * MaxVisits + 1
    /\ at \notin Nodes => StepsLeft = 0

LEMMA StepsLeftBounded == TypeOK => StepsInRange
<1> SUFFICES ASSUME TypeOK PROVE StepsInRange
  OBVIOUS
<1>1. MaxVisits \in Nat /\ visits \in Nat
  BY LimitsAreNat DEF TypeOK
<1>2. /\ HubSteps \in Nat
      /\ HubSteps >= 1
      /\ HubSteps <= 2 * MaxVisits + 1
      /\ visits > 0 /\ visits <= MaxVisits => HubSteps < 2 * MaxVisits + 1
  BY <1>1 DEF HubSteps
<1>3. StepsLeft \in Nat
  BY <1>2 DEF StepsLeft
<1>4. at \notin Nodes => StepsLeft = 0
  BY DEF StepsLeft, Nodes
<1> QED
  BY <1>2, <1>3, <1>4 DEF StepsInRange

LEMMA StepsInit == Init => Run!Init
<1> SUFFICES ASSUME Init PROVE Run!Init
  OBVIOUS
<1>1. StepsLeft = 0 /\ Phase = "over"
  BY DEF Init, StepsLeft, Phase, Nodes, Asking
<1>2. 0 \in 0..2 * MaxVisits + 1
  BY LimitsAreNat
<1> QED
  BY <1>1, <1>2 DEF Run!Init, Run!Phases

\* A visit of the hub below the limit uses two of the supersteps it leaves.
LEMMA VisitCosts ==
    ASSUME TypeOK, Hub
    PROVE  /\ at = "hub"
           /\ \/ at' = "idle"
              \/ at' \in {"plan_node", "middle", "memory", "finalize"} /\ HubSteps' + 2 = HubSteps
<1>0. MaxVisits \in Nat /\ visits \in Nat
  BY LimitsAreNat DEF TypeOK
<1>1. at = "hub" /\ visits' = visits + 1
  BY DEF Hub, HubStops, HubPicksTask, HubFindsNoTask, HubClassifies, Visit
<1>2. CASE HubStops
  BY <1>1, <1>2 DEF HubStops
<1>3. CASE HubPicksTask \/ HubFindsNoTask \/ HubClassifies
  <2>1. visits' <= MaxVisits
    BY <1>0, <1>1, <1>3 DEF HubPicksTask, HubFindsNoTask, HubClassifies, GuardBreached
  <2>2. HubSteps' + 2 = HubSteps
    BY <1>0, <1>1, <2>1 DEF HubSteps
  <2>3. at' \in {"plan_node", "middle", "memory", "finalize"}
    BY <1>3 DEF HubPicksTask, HubFindsNoTask, HubClassifies, EndOfTurn
  <2> QED
    BY <1>1, <2>2, <2>3
<1> QED
  BY <1>2, <1>3 DEF Hub

LEMMA StepsStep ==
    /\ TypeOK /\ Visited
    /\ StepsInRange /\ StepsInRange'
    /\ [Next]_vars
    => [Run!Next]_(Run!vars)
<1> SUFFICES ASSUME TypeOK, Visited, StepsInRange, StepsInRange', [Next]_vars
             PROVE  [Run!Next]_(Run!vars)
  OBVIOUS
<1>0. MaxVisits \in Nat
  BY LimitsAreNat
<1>a. /\ StepsLeft \in Nat /\ StepsLeft' \in Nat
      /\ HubSteps \in Nat /\ HubSteps >= 1 /\ HubSteps <= 2 * MaxVisits + 1
      /\ visits > 0 /\ visits <= MaxVisits => HubSteps < 2 * MaxVisits + 1
      /\ HubSteps' \in Nat /\ HubSteps' >= 1
      /\ at' \notin Nodes => StepsLeft' = 0
  BY DEF StepsInRange
<1>b. Phase' \in Run!Phases
  BY DEF Run!Phases, Phase
<1>c. ASSUME at \in Nodes, StepsLeft' < StepsLeft
      PROVE  Run!Next
  BY <1>a, <1>b, <1>c DEF Run!Next, Run!Superstep, Phase
<1>d. ASSUME at \in Asking, StepsLeft' < 2 * MaxVisits + 1
      PROVE  Run!Next
  BY <1>a, <1>b, <1>d DEF Run!Next, Run!Resume, Phase, Nodes, Asking
<1>e. ASSUME visits' = visits PROVE HubSteps' = HubSteps
  BY <1>e DEF HubSteps
<1>1. CASE StartTurn
  <2>1. at = "idle" /\ at' = "hub" /\ visits' = visits
    BY <1>1 DEF StartTurn
  <2>2. StepsLeft' = HubSteps'
    BY <2>1 DEF StepsLeft
  <2>3. StepsLeft' \in 0..2 * MaxVisits + 1
    BY <1>0, <1>a, <1>e, <2>1, <2>2
  <2>4. Phase = "over" /\ Phase' = "working"
    BY <2>1 DEF Phase, Nodes, Asking
  <2> QED
    BY <2>3, <2>4 DEF Run!Next, Run!Start
<1>2. CASE Fail
  <2>1. at \in Nodes /\ at' = "idle"
    BY <1>2 DEF Fail
  <2>2. StepsLeft' = 0
    BY <2>1 DEF StepsLeft
  <2>3. StepsLeft > 0
    BY <1>a, <2>1 DEF StepsLeft, Nodes
  <2> QED
    BY <1>c, <2>1, <2>2, <2>3
<1>3. CASE Hub
  <2>1. at = "hub" /\ StepsLeft = HubSteps
    BY <1>3, VisitCosts DEF StepsLeft
  <2>2. CASE at' = "idle"
    <3>1. StepsLeft' = 0
      BY <2>2 DEF StepsLeft
    <3> QED
      BY <1>a, <1>c, <2>1, <3>1 DEF Nodes
  <2>3. CASE at' \in {"plan_node", "middle", "memory", "finalize"} /\ HubSteps' + 2 = HubSteps
    <3>1. PICK h \in Nat : h = HubSteps' /\ h >= 1
      BY <1>a
    <3>2. StepsLeft' = h + 1 \/ StepsLeft' = 2 \/ StepsLeft' = 1
      BY <2>3, <3>1 DEF StepsLeft
    <3>3. StepsLeft = h + 2
      BY <2>1, <2>3, <3>1
    <3>4. StepsLeft' < StepsLeft
      BY <3>1, <3>2, <3>3
    <3> QED
      BY <1>c, <2>1, <3>4 DEF Nodes
  <2> QED
    BY <1>3, <2>2, <2>3, VisitCosts
<1>4. CASE PlanAsks \/ ReviewAsks \/ TaskAsks \/ FinalizeTurn
  <2>1. at \in Nodes /\ at' \notin Nodes
    BY <1>4 DEF PlanAsks, ReviewAsks, TaskAsks, FinalizeTurn, Nodes
  <2>2. StepsLeft > 0
    BY <1>a, <2>1 DEF StepsLeft, Nodes
  <2> QED
    BY <1>a, <1>c, <2>1, <2>2
<1>5. CASE MemoryOptimization
  <2>1. at = "memory" /\ at' = "finalize"
    BY <1>5 DEF MemoryOptimization
  <2>2. StepsLeft = 2 /\ StepsLeft' = 1
    BY <2>1 DEF StepsLeft
  <2> QED
    BY <1>c, <2>1, <2>2 DEF Nodes
<1>6. CASE PlanBuilt \/ TaskProcessed
  <2>1. /\ at \in {"plan_node", "plan_clarify", "middle", "task"}
        /\ at' \in {"hub", "review_node"}
        /\ visits' = visits
    BY <1>6 DEF PlanBuilt, RouteFromPlanNode, TaskProcessed
  <2>2. StepsLeft' <= HubSteps
    BY <1>a, <1>e, <2>1 DEF StepsLeft
  <2>3. CASE at \in {"plan_node", "middle"}
    <3>1. StepsLeft = HubSteps + 1
      BY <2>3 DEF StepsLeft
    <3> QED
      BY <1>a, <1>c, <2>2, <2>3, <3>1 DEF Nodes
  <2>4. CASE at \in {"plan_clarify", "task"}
    <3>1. visits > 0 /\ visits <= MaxVisits
      BY <2>4 DEF Visited
    <3>2. HubSteps < 2 * MaxVisits + 1
      BY <1>a, <3>1
    <3>3. StepsLeft' < 2 * MaxVisits + 1
      BY <1>0, <1>a, <2>2, <3>2
    <3> QED
      BY <1>d, <2>4, <3>3 DEF Asking
  <2> QED
    BY <2>1, <2>3, <2>4
<1>7. CASE PlanClarified \/ ReviewApproved \/ ReviewModified \/ ReviewCancelled
  <2>1. at \in Asking /\ at' \in {"hub", "idle"} /\ visits' = visits
    BY <1>7 DEF PlanClarified, ReviewApproved, ReviewModified, ReviewCancelled, Asking
  <2>2. StepsLeft' <= HubSteps
    BY <1>a, <1>e, <2>1 DEF StepsLeft
  <2>3. visits > 0 /\ visits <= MaxVisits
    BY <2>1 DEF Visited, Asking
  <2>4. HubSteps < 2 * MaxVisits + 1
    BY <1>a, <2>3
  <2>5. StepsLeft' < 2 * MaxVisits + 1
    BY <1>0, <1>a, <2>2, <2>4
  <2> QED
    BY <1>d, <2>1, <2>5
<1>8. CASE UNCHANGED vars
  BY <1>8 DEF vars, Run!vars, Phase, StepsLeft, HubSteps
<1> QED
  BY <1>1, <1>2, <1>3, <1>4, <1>5, <1>6, <1>7, <1>8
     DEF Next, Plans, Reviews, Works, Ends

(***************************************************************************)
(* Between two replies of the user a turn takes at most                    *)
(* 2 * supervisor_max_visits + 1 supersteps, for plans of any size and     *)
(* whatever runs are lost: with the defaults 21, where LangGraph stops the *)
(* run after 25.  So the hub's guard ends a turn that does not get on, and *)
(* never the recursion limit with its exception.                           *)
(***************************************************************************)
THEOREM SuperstepsBounded == Spec => Run!Spec
<1>1. Init => Visited
  BY DEF Init, Visited
<1>2. TypeOK /\ Visited /\ [Next]_vars => Visited'
  BY VisitedStep
<1>3. TypeOK => StepsInRange
  BY StepsLeftBounded
<1>4. TypeOK /\ Visited /\ StepsInRange /\ StepsInRange' /\ [Next]_vars
      => [Run!Next]_(Run!vars)
  BY StepsStep
<1>5. Init => Run!Init
  BY StepsInit
<1> QED
  BY <1>1, <1>2, <1>3, <1>4, <1>5, TypeCorrect, PTL DEF Spec, Run!Spec
=============================================================================
