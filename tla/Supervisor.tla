----------------------------- MODULE Supervisor -----------------------------
(***************************************************************************)
(* The Layer-1 graph over the whole life of a session: hub, plan_node,     *)
(* plan_review, sysml_middle_node, memory_optimization, finalize_turn.     *)
(* One action is one superstep: the node's update and the edge it takes.   *)
(* The state survives a turn, because the session is the LangGraph thread  *)
(* and a turn's input sets user_input only.                                *)
(*                                                                         *)
(* LLM verdicts, the user's replies and what Layer 2 returns are           *)
(* nondeterministic.  A reply and the re-run of the node it resumes are    *)
(* one action: a resumed node that raises leaves its interrupt pending.    *)
(***************************************************************************)
EXTENDS Naturals, Sequences, FiniteSets

CONSTANTS
    MaxVisits,      \* supervisor_max_visits
    MaxTasks,       \* bound: tasks of a plan, and task numbers in depends_on
    MaxTurns,       \* bound: messages of the session that start a turn
    MaxFailures     \* bound: runs lost to an exception or a restart

ASSUME LimitsAreNat == /\ MaxVisits \in Nat
                       /\ MaxTasks \in Nat
                       /\ MaxTurns \in Nat
                       /\ MaxFailures \in Nat

VARIABLES
    at,             \* the node that runs next, "idle", or the interrupt waited on
    visits,         \* supervisor_visits
    classification, \* the hub's verdict, or "none"
    plan,           \* plan_state["tasks"], or NoPlan
    results,        \* the light references of processed tasks: was there one?
    result,         \* the turn's result string
    user_input,     \* whether user_input is the last thing the user wrote
    turns,          \* turns started
    failures,       \* runs lost
    \* History: what the session knows beyond the state of the graph.
    runVisits,      \* hub visits since this turn started
    reviewed        \* whether the user accepted the current plan

history == <<turns, failures, runVisits, reviewed>>
vars    == <<at, visits, classification, plan, results, result, user_input, history>>

\* plan_state is never a plan without tasks: plan_node asks instead, plan_review
\* cancels.
NoPlan   == << >>
Statuses == {"pending", "in_progress", "done"}
Tasks    == [dep : 0..MaxTasks, status : Statuses, ref : BOOLEAN]

Asking   == {"plan_clarify", "plan_review", "task"}
Nodes    == {"hub", "plan_node", "review_node", "middle", "memory", "finalize"}
Verdicts == {"simple_response", "needs_execution", "unclear"}
Inputs   == {"latest", "older"}
Results  == {"none", "stopped", "plan_built", "task_processed", "execution_complete"}
            \cup Verdicts

TypeOK ==
    /\ at \in {"idle"} \cup Nodes \cup Asking
    /\ visits \in Nat
    /\ classification \in Verdicts \cup {"none"}
    /\ plan \in Seq(Tasks)
    /\ results \in Seq(BOOLEAN)
    /\ result \in Results
    /\ user_input \in Inputs
    /\ turns \in Nat
    /\ failures \in Nat
    /\ runVisits \in Nat
    /\ reviewed \in BOOLEAN

Init ==
    /\ at = "idle"
    /\ visits = 0
    /\ classification = "none"
    /\ plan = NoPlan
    /\ results = << >>
    /\ result = "none"
    /\ user_input = "latest"
    /\ turns = 0
    /\ failures = 0
    /\ runVisits = 0
    /\ reviewed = FALSE

-----------------------------------------------------------------------------
(* plan_ops.                                                               *)

IsComplex(p) == Len(p) > 1

\* Fresh tasks from the dependency numbers of an LLM plan or an edited one.
\* Nothing checks that a number names an earlier task, or a task at all.
BuildTodoItems(deps) ==
    [i \in DOMAIN deps |-> [dep |-> deps[i], status |-> "pending", ref |-> FALSE]]

DepLists == UNION {[1..n -> 0..MaxTasks] : n \in 1..MaxTasks}

With(p, st) == {i \in DOMAIN p : p[i].status = st}

\* Mutants of Ready: the dependency has only to have started; a task with a
\* dependency is never ready.
ReadyIfStarted(p) ==
    {i \in With(p, "pending") : p[i].dep # 0 => p[i].dep \notin With(p, "pending")}
ReadyIfIndependent(p) == {i \in With(p, "pending") : p[i].dep = 0}

\* The pending tasks whose dependency is done or absent.
Ready(p) == {i \in With(p, "pending") : p[i].dep # 0 => p[i].dep \in With(p, "done")}

\* i is the first of the tasks in S, in the plan's order.
IsFirst(i, S) == i \in S /\ \A j \in S : i <= j

-----------------------------------------------------------------------------
(* The user and the environment.                                           *)

StartTurn ==
    /\ at = "idle"
    /\ turns < MaxTurns
    /\ turns' = turns + 1
    /\ runVisits' = 0
    /\ at' = "hub"
    /\ user_input' = "latest"
    /\ UNCHANGED <<visits, classification, plan, results, result, failures, reviewed>>

\* A node raises, or the process dies before its checkpoint: the state of the
\* last superstep stays and the next message starts a turn on it.
Fail ==
    /\ at \in Nodes
    /\ failures < MaxFailures
    /\ failures' = failures + 1
    /\ at' = "idle"
    /\ UNCHANGED <<visits, classification, plan, results, result, user_input, turns,
                   runVisits, reviewed>>

-----------------------------------------------------------------------------
(* top_level_supervisor and route_from_top_supervisor.                     *)

\* Mutant of GuardBreached: one visit late.
GuardLate(v)     == v > MaxVisits + 1
GuardBreached(v) == v > MaxVisits

Visit ==
    /\ at = "hub"
    /\ visits' = visits + 1
    /\ runVisits' = runVisits + 1
    /\ UNCHANGED <<results, user_input, turns, failures, reviewed>>

\* A turn whose intent is complete ends through finalize_turn, by way of
\* memory_optimization when the context is near full.
EndOfTurn == {"memory", "finalize"}

HubStops ==
    /\ Visit
    /\ GuardBreached(visits')
    /\ result' = "stopped"
    /\ at' = "idle"
    /\ UNCHANGED <<classification, plan>>

MarkStarted(i) == plan' = [plan EXCEPT ![i].status = "in_progress"]

\* The next ready task is marked, then the route delegates: to the first task
\* in progress, which is another one if a lost run left its task behind.
HubPicksTask ==
    /\ Visit
    /\ ~GuardBreached(visits')
    /\ \E i \in DOMAIN plan : IsFirst(i, Ready(plan)) /\ MarkStarted(i)
    /\ at' = "middle"
    /\ UNCHANGED <<classification, result>>

HubFindsNoTask ==
    /\ Visit
    /\ ~GuardBreached(visits')
    /\ plan # NoPlan
    /\ Ready(plan) = {}
    /\ result' = "execution_complete"
    /\ at' \in IF With(plan, "in_progress") # {} THEN {"middle"} ELSE EndOfTurn
    /\ UNCHANGED <<classification, plan>>

HubClassifies ==
    /\ Visit
    /\ ~GuardBreached(visits')
    /\ plan = NoPlan
    /\ \E verdict \in Verdicts :
         /\ classification' = verdict
         /\ IF verdict = "needs_execution"
            THEN result' = result  /\ at' = "plan_node"
            ELSE result' = verdict /\ at' \in EndOfTurn
    /\ UNCHANGED plan

Hub == HubStops \/ HubPicksTask \/ HubFindsNoTask \/ HubClassifies

-----------------------------------------------------------------------------
(* plan_node and plan_review.                                              *)

\* Mutant of RouteFromPlanNode: plan_review is never entered.
RouteSkippingReview(p) == "hub"
RouteFromPlanNode(p) == IF IsComplex(p) THEN "review_node" ELSE "hub"

\* The LLM finds user_input sufficient: a plan of any shape.  On resume it is
\* asked again about the same user_input; if it changes its mind, interrupt()
\* is not reached and the user's clarification goes nowhere.  A plan that needs
\* no review counts as accepted.
PlanBuilt ==
    /\ at \in {"plan_node", "plan_clarify"}
    /\ \E deps \in DepLists :
         /\ plan' = BuildTodoItems(deps)
         /\ reviewed' = ~IsComplex(plan')
         /\ at' = RouteFromPlanNode(plan')
    /\ result' = "plan_built"
    /\ user_input' = IF at = "plan_clarify" THEN "older" ELSE user_input
    /\ UNCHANGED <<visits, classification, results, turns, failures, runVisits>>

PlanAsks ==
    /\ at = "plan_node"
    /\ at' = "plan_clarify"
    /\ UNCHANGED <<visits, classification, plan, results, result, user_input, history>>

\* Insufficient again on resume: interrupt() returns the clarification.
PlanClarified ==
    /\ at = "plan_clarify"
    /\ plan' = NoPlan
    /\ classification' = "none"
    /\ user_input' = "latest"
    /\ at' = "hub"
    /\ UNCHANGED <<visits, results, result, history>>

ReviewAsks ==
    /\ at = "review_node"
    /\ at' = "plan_review"
    /\ UNCHANGED <<visits, classification, plan, results, result, user_input, history>>

ReviewApproved ==
    /\ at = "plan_review"
    /\ reviewed' = TRUE
    /\ at' = "hub"
    /\ UNCHANGED <<visits, classification, plan, results, result, user_input, turns,
                   failures, runVisits>>

\* The edited plan goes through the same construction and straight to the hub.
ReviewModified ==
    /\ at = "plan_review"
    /\ \E deps \in DepLists : plan' = BuildTodoItems(deps)
    /\ reviewed' = TRUE
    /\ at' = "hub"
    /\ UNCHANGED <<visits, classification, results, result, user_input, turns,
                   failures, runVisits>>

ReviewCancelled ==
    /\ at = "plan_review"
    /\ plan' = NoPlan
    /\ classification' = "none"
    /\ at' = "idle"
    /\ UNCHANGED <<visits, results, result, user_input, history>>

-----------------------------------------------------------------------------
(* sysml_middle_node, memory_optimization, finalize_turn.                  *)

\* Mutants of MarkProcessed: a status the tasks do not have; a task without a
\* reference is put back; the last task is taken for the one that ran.
MarkCompleted(i, ref) ==
    plan' = [plan EXCEPT ![i].status = "completed", ![i].ref = @ \/ ref]
MarkOrPutBack(i, ref) ==
    plan' = [plan EXCEPT ![i].status = IF ref THEN "done" ELSE "pending",
                         ![i].ref = @ \/ ref]
MarkLast(i, ref) ==
    plan' = [plan EXCEPT ![Len(plan)].status = "done",
                         ![Len(plan)].ref = @ \/ ref]

\* with_task_status: done whatever Layer 2 did; a missing reference keeps the
\* old one.
MarkProcessed(i, ref) ==
    plan' = [plan EXCEPT ![i].status = "done", ![i].ref = @ \/ ref]

\* Layer 2 or 3 interrupts below this node.
TaskAsks ==
    /\ at = "middle"
    /\ at' = "task"
    /\ UNCHANGED <<visits, classification, plan, results, result, user_input, history>>

TaskProcessed ==
    /\ at \in {"middle", "task"}
    /\ \E i \in DOMAIN plan, ref \in BOOLEAN :
         /\ IsFirst(i, With(plan, "in_progress"))
         /\ MarkProcessed(i, ref)
         /\ results' = Append(results, ref)
    /\ result' = "task_processed"
    /\ at' = "hub"
    /\ UNCHANGED <<visits, classification, user_input, history>>

\* A pass-through.
MemoryOptimization ==
    /\ at = "memory"
    /\ at' = "finalize"
    /\ UNCHANGED <<visits, classification, plan, results, result, user_input, history>>

FinalizeTurn ==
    /\ at = "finalize"
    /\ at' = "idle"
    /\ UNCHANGED <<visits, classification, plan, results, result, user_input, history>>

Plans   == PlanBuilt \/ PlanAsks \/ PlanClarified
Reviews == ReviewAsks \/ ReviewApproved \/ ReviewModified \/ ReviewCancelled
Works   == TaskAsks \/ TaskProcessed
Ends    == MemoryOptimization \/ FinalizeTurn

Next == StartTurn \/ Fail \/ Hub \/ Plans \/ Reviews \/ Works \/ Ends

Spec == Init /\ [][Next]_vars

\* The event loop runs the next node; nothing makes the user reply.
FairSpec == Spec /\ WF_vars(at \in Nodes /\ (Hub \/ Plans \/ Reviews \/ Works \/ Ends))

-----------------------------------------------------------------------------
(* Properties.                                                             *)

AllDone(p) == With(p, "done") = DOMAIN p

\* Every dependency names an earlier task.
WellFormed(p) == \A i \in DOMAIN p : p[i].dep < i

\* Whatever dependency numbers the LLM or the user wrote, and whatever runs
\* were lost, a task is started only after the task it depends on is done.
DependenciesFirst ==
    \A i \in DOMAIN plan :
        plan[i].status # "pending" /\ plan[i].dep # 0 =>
            plan[i].dep \in With(plan, "done")

\* Execution never takes a task back, renumbers it or re-points its
\* dependency: between two reviews the plan only advances.
Rank(st) == CASE st = "pending" -> 0 [] st = "in_progress" -> 1 [] st = "done" -> 2

Planning == at \in {"plan_node", "plan_clarify", "review_node", "plan_review"}

PlanOnlyAdvances ==
    [][~Planning =>
         /\ DOMAIN plan' = DOMAIN plan
         /\ \A i \in DOMAIN plan :
              /\ plan'[i].dep = plan[i].dep
              /\ Rank(plan[i].status) <= Rank(plan'[i].status)]_vars

\* As long as no run is lost, at most one task is in progress, and only while
\* Layer 2 has it: the wrapper node marks its task done before it returns.
OneTaskInProgress ==
    failures = 0 =>
        /\ \A i, j \in With(plan, "in_progress") : i = j
        /\ With(plan, "in_progress") # {} <=> at \in {"middle", "task"}

\* As long as no run is lost, no task of a plan with several tasks starts
\* before the user accepted the plan in plan_review.
ApprovedBeforeStart ==
    failures = 0 => (With(plan, "pending") # DOMAIN plan => reviewed)

\* As long as no run is lost, a plan whose tasks depend on earlier tasks only
\* is really finished when the turn says execution_complete.
WellFormedPlanFinishes ==
    failures = 0 /\ result = "execution_complete" /\ WellFormed(plan) => AllDone(plan)

\* The light references a finished turn hands to the client end with those of
\* the current plan's done tasks: as many entries as done tasks, as many real
\* references as tasks that have one, lost runs included.
Referenced == {i \in With(plan, "done") : plan[i].ref}

ResultsCoverPlan ==
    LET k    == Cardinality(With(plan, "done"))
        last == Len(results) - k + 1 .. Len(results)
    IN  /\ k <= Len(results)
        /\ Cardinality({i \in last : results[i]}) = Cardinality(Referenced)

\* How many supersteps the turn may still take before it asks or is over.  A
\* visit below the limit leads to one node and back to the hub; the visit that
\* breaches it ends the turn.
HubSteps == IF visits <= MaxVisits THEN 2 * (MaxVisits - visits) + 1 ELSE 1

StepsLeft ==
    CASE at = "hub" -> HubSteps
      [] at \in {"plan_node", "middle"} -> HubSteps + 1
      [] at = "memory" -> 2
      [] at \in {"review_node", "finalize"} -> 1
      [] OTHER -> 0

Phase == IF at \in Nodes THEN "working" ELSE IF at \in Asking THEN "asking" ELSE "over"

\* Between two replies a turn takes at most 2 * MaxVisits + 1 supersteps, whatever
\* the plan, and every run of the graph ends: in a reply to the user or in an
\* interrupt.
Run == INSTANCE GraphRun WITH Limit <- 2 * MaxVisits + 1, phase <- Phase, left <- StepsLeft

BoundedRun == Run!LiveSpec

\* supervisor/router.py:57: execution_complete leaves "plan_state ... populated
\* (all tasks "done")".
CompleteMeansAllDone == result = "execution_complete" => AllDone(plan)

\* supervisor/state.py:18-19: plan_state is "None until a plan is built; None
\* again once a fresh turn starts".
FreshTurnHasNoPlan == at = "hub" /\ runVisits = 0 => plan = NoPlan

\* supervisor/plan.py:24-27: a clarified request reaches the plan, because the
\* caller patches user_input when it resumes.
PlanHeedsTheUser ==
    [][plan' # NoPlan /\ at \in {"plan_node", "plan_clarify"} => user_input' = "latest"]_vars

\* harness/guards.py:5: the guard trips when the node "has been visited more
\* times than allowed this run".
StoppedByThisRun ==
    [][result # "stopped" /\ result' = "stopped" => runVisits' > MaxVisits]_vars
=============================================================================
