------------------------------- MODULE Middle -------------------------------
(***************************************************************************)
(* The Layer-2 graph: one invocation, for the one task Layer 1 delegates.  *)
(* It settles intent, level and source, asks the user where they are open, *)
(* and runs Layer-3 processings until the task's target is fulfilled.  One *)
(* action is one superstep; a reply and the rest of the node it resumes    *)
(* are one action.                                                         *)
(*                                                                         *)
(* An artifact's id is its index in the session, 0 is None.  LLM verdicts, *)
(* replies and what a processing stores are nondeterministic.              *)
(***************************************************************************)
EXTENDS Naturals, Sequences, FiniteSets

CONSTANTS
    MaxVisits,      \* sysml_middle_max_visits
    MaxInitial,     \* bound: artifacts of the session before the task
    MaxArtifacts,   \* bound: artifacts of the session
    MaxModifies     \* bound: how often the user changes the request

ASSUME LimitsAreNat == /\ MaxVisits \in Nat
                       /\ MaxInitial \in Nat
                       /\ MaxArtifacts \in Nat
                       /\ MaxModifies \in Nat

VARIABLES
    at,                     \* the node that runs next, "asking", or how the run ended
    exists,                 \* whether the session row is still there
    artifacts,              \* artifacts[id]: its level, or "diagram"
    visits,                 \* supervisor_visits
    resolved_intent,
    requested_level,
    target_requirement_id,
    target_requirement_ids, \* the multi-selection, {} for None
    resolved_source_id,
    task_target,            \* the locked target, or NoTarget while task_locked is false
    target_fulfilled,
    pending,                \* pending_pattern, pending_action_context, pending_options_source
    processing_counter,
    input,                  \* processing_input
    result,
    \* History.
    last,                   \* the last processing: its counter and input, or id 0
    modifies

resolution == <<resolved_intent, requested_level, target_requirement_id,
                target_requirement_ids, resolved_source_id>>
task    == <<task_target, target_fulfilled>>
session == <<exists, artifacts>>
vars    == <<at, session, visits, resolution, task, pending, processing_counter, input,
             result, last, modifies>>

None    == 0
Levels  == {"operational", "functional", "physical"}
\* generate_diagram and modify_diagram share every path.  "other" is an intent
\* Layer 2 does not act on, "none" no intent at all.
Intents == {"generate_requirement", "modify_requirement", "diagram", "other", "none"}

LevelBearing == {"generate_requirement", "modify_requirement"}
Targeting    == {"modify_requirement", "diagram"}
Actionable   == LevelBearing \cup Targeting

Nodes == {"middle_supervisor", "validate_inputs", "resolve_level", "user_confirm_inputs",
          "build_structured_format", "sysml_processing"}
Ended == {"END", "raised"}

NoTarget   == [intent |-> "none", level |-> "unlocked"]
NotPending == [pattern |-> "none", context |-> "none", options |-> {}]
NoInput    == [intent |-> "none", level |-> "functional", source |-> None, targets |-> {}]

Ids == Nat
Inputs == [intent : {"generate_requirement", "generate_diagram", "none"}, level : Levels,
           source : Ids, targets : SUBSET Ids]
Targets == [intent : Intents, level : Levels \cup {"none"}] \cup {NoTarget}
Questions == [pattern : {"none", "select_requirement", "select_requirements_for_diagram",
                         "confirm_action", "clarify_request"},
              context : {"none", "invalid", "missing_level_source", "select_level_source",
                         "select_diagram_targets"},
              options : SUBSET Ids]
Kinds == Levels \cup {"diagram"}

TypeOK ==
    /\ at \in Nodes \cup Ended \cup {"asking"}
    /\ exists \in BOOLEAN
    /\ artifacts \in Seq(Kinds)
    /\ visits \in Nat
    /\ resolved_intent \in Intents
    /\ requested_level \in Levels \cup {"none"}
    /\ target_requirement_id \in Ids
    /\ target_requirement_ids \in SUBSET Ids
    /\ resolved_source_id \in Ids
    /\ task_target \in Targets
    /\ target_fulfilled \in BOOLEAN
    /\ pending \in Questions
    /\ processing_counter \in Nat
    /\ input \in Inputs
    /\ result \in {"none", "stopped", "task_complete", "no_action", "cancelled", "processed"}
    /\ last \in [id : Nat, input : Inputs]
    /\ modifies \in Nat

\* Layer 1 hands down the artifact of the task this one depends on, if any.
Init ==
    /\ at = "middle_supervisor"
    /\ exists = TRUE
    /\ artifacts \in UNION {[1..n -> Kinds] : n \in 0..MaxInitial}
    /\ visits = 0
    /\ resolved_intent = "none"
    /\ requested_level = "none"
    /\ target_requirement_id \in 0..Len(artifacts)
    /\ target_requirement_ids = {}
    /\ resolved_source_id = None
    /\ task_target = NoTarget
    /\ target_fulfilled = FALSE
    /\ pending = NotPending
    /\ processing_counter = 0
    /\ input = NoInput
    /\ result = "none"
    /\ last = [id |-> 0, input |-> NoInput]
    /\ modifies = 0

-----------------------------------------------------------------------------
(* The session's requirements.  finalize stores every row as active.       *)

Requirements == IF exists THEN {id \in DOMAIN artifacts : artifacts[id] \in Levels} ELSE {}

AtLevel(level) == {id \in Requirements : artifacts[id] = level}

\* The session is deleted under the run, its rows with it.
DeleteSession ==
    /\ exists
    /\ at \notin Ended
    /\ exists' = FALSE
    /\ UNCHANGED <<at, artifacts, visits, resolution, task, pending, processing_counter,
                   input, result, last, modifies>>

\* A model or database call raises, or a recursion limit set too low does.
NodeRaises ==
    /\ at \in Nodes
    /\ at' = "raised"
    /\ UNCHANGED <<session, visits, resolution, task, pending, processing_counter, input,
                   result, last, modifies>>

-----------------------------------------------------------------------------
(* middle_supervisor.                                                      *)

Visit ==
    /\ at = "middle_supervisor"
    /\ visits' = visits + 1
    /\ target_requirement_ids' = {}
    /\ UNCHANGED <<session, resolved_source_id, input, last, modifies>>

\* The visit ends the run.
Finish(r) ==
    /\ resolved_intent' = "none"
    /\ pending' = [pending EXCEPT !.pattern = "none"]
    /\ result' = r
    /\ at' = "END"
    /\ UNCHANGED <<requested_level, target_requirement_id, task, processing_counter>>

\* Mutant of NextProc: the count is left to user_confirm_inputs.
NextProcKept == processing_counter
NextProc == processing_counter + 1

\* The visit goes on to validate_inputs with a new processing.
Proceed ==
    /\ pending' = [pending EXCEPT !.pattern = "none"]
    /\ processing_counter' = NextProc
    /\ at' = IF resolved_intent' = "none" THEN "END" ELSE "validate_inputs"
    /\ UNCHANGED result

\* Layer 1 always sets single_task_dispatch.
Lock(intent, level) ==
    /\ task_target' = [intent |-> intent, level |-> level]
    /\ UNCHANGED target_fulfilled

VisitLimit == visits' > MaxVisits

SupervisorStops == Visit /\ VisitLimit /\ Finish("stopped")

SupervisorCompletes ==
    /\ Visit
    /\ ~VisitLimit
    /\ task_target # NoTarget
    /\ target_fulfilled
    /\ Finish("task_complete")

\* What ran was a missing prerequisite: on to the locked target.
SupervisorResumes ==
    /\ Visit
    /\ ~VisitLimit
    /\ task_target # NoTarget
    /\ ~target_fulfilled
    /\ resolved_intent' = task_target.intent
    /\ requested_level' = task_target.level
    /\ Proceed
    /\ UNCHANGED <<target_requirement_id, task>>

\* The LLM is asked.  touch_thread fails without the session row.
Judge ==
    /\ Visit
    /\ ~VisitLimit
    /\ task_target = NoTarget
    /\ exists

SupervisorFindsNothing == Judge /\ Finish("no_action")

\* The requirement meant is named, or the only one: requested_level stays.
SupervisorKnowsTarget ==
    /\ Judge
    /\ \E intent \in Targeting, id \in Requirements :
         /\ resolved_intent' = intent
         /\ target_requirement_id' = id
         /\ Lock(intent, "none")
    /\ Proceed
    /\ UNCHANGED requested_level

SupervisorAsksTarget ==
    /\ Judge
    /\ Cardinality(Requirements) > 1
    /\ \E intent \in Targeting :
         /\ resolved_intent' = intent
         /\ Lock(intent, "none")
         /\ pending' = IF intent = "diagram"
              THEN [pattern |-> "select_requirements_for_diagram",
                    context |-> "select_diagram_targets", options |-> Requirements]
              ELSE [pending EXCEPT !.pattern = "select_requirement", !.options = Requirements]
    /\ at' = "user_confirm_inputs"
    /\ UNCHANGED <<requested_level, target_requirement_id, processing_counter, result>>

SupervisorTakesRequest ==
    /\ Judge
    /\ \E intent \in Intents, level \in Levels \cup {"none"} :
         /\ intent \in Targeting => Requirements = {}
         /\ resolved_intent' = intent
         /\ requested_level' = level
         /\ Lock(intent, level)
    /\ Proceed
    /\ UNCHANGED target_requirement_id

Supervisor == \/ SupervisorStops \/ SupervisorCompletes \/ SupervisorResumes
              \/ SupervisorFindsNothing \/ SupervisorKnowsTarget \/ SupervisorAsksTarget
              \/ SupervisorTakesRequest

-----------------------------------------------------------------------------
(* validate_inputs and resolve_level.                                      *)

Ask(pattern, context, options) ==
    /\ pending' = [pattern |-> pattern, context |-> context, options |-> options]
    /\ at' = "user_confirm_inputs"

ValidateRefuses ==
    /\ at = "validate_inputs"
    /\ resolved_intent \notin Actionable \/ ~exists
    /\ Ask("clarify_request", "invalid", {})
    /\ UNCHANGED <<session, visits, resolution, task, processing_counter, input, result,
                   last, modifies>>

ValidateAccepts ==
    /\ at = "validate_inputs"
    /\ resolved_intent \in Actionable
    /\ exists
    /\ pending' = [pending EXCEPT !.pattern = "none"]
    /\ at' = IF resolved_intent \in LevelBearing THEN "resolve_level"
                                                 ELSE "build_structured_format"
    /\ UNCHANGED <<session, visits, resolution, task, processing_counter, input, result,
                   last, modifies>>

\* Mutant of OrFunctional: an open level is left open.
OrOpen(level) == level
OrFunctional(level) == IF level = "none" THEN "functional" ELSE level

\* _SOURCE_LEVEL_FOR: the level a level derives from.
SourceLevelFor(level) == IF level = "physical" THEN "functional" ELSE "operational"

\* Mutant of Candidates: any requirement will do.
CandidatesAnyLevel(level) == Requirements
Candidates(level) == AtLevel(SourceLevelFor(level))

Resolve(source) ==
    /\ at = "resolve_level"
    /\ requested_level' = OrFunctional(requested_level)
    /\ resolved_source_id' = source
    /\ UNCHANGED <<session, visits, resolved_intent, target_requirement_id,
                   target_requirement_ids, task, processing_counter, input, result,
                   last, modifies>>

ResolveSettled ==
    /\ IF OrFunctional(requested_level) = "operational"
       THEN Resolve(None)
       ELSE \E id \in Requirements :
              /\ Candidates(OrFunctional(requested_level)) = {id}
              /\ Resolve(id)
    /\ pending' = [pending EXCEPT !.pattern = "none"]
    /\ at' = "build_structured_format"

ResolveAsks ==
    /\ OrFunctional(requested_level) # "operational"
    /\ Resolve(None)
    /\ LET options == Candidates(OrFunctional(requested_level))
       IN  /\ Cardinality(options) # 1
           /\ IF options = {} THEN Ask("confirm_action", "missing_level_source", {})
                              ELSE Ask("select_requirement", "select_level_source", options)

-----------------------------------------------------------------------------
(* user_confirm_inputs.  The replies are those validate_resume_payload     *)
(* lets through for the pattern asked.                                     *)

ConfirmAsks ==
    /\ at = "user_confirm_inputs"
    /\ at' = "asking"
    /\ UNCHANGED <<session, visits, resolution, task, pending, processing_counter, input,
                   result, last, modifies>>

Answered ==
    /\ at = "asking"
    /\ pending' = NotPending
    /\ UNCHANGED <<session, visits, input, last>>

\* Mutant of AfterPivot: the pivoted level is not resolved.
AfterPivotUnresolved == "build_structured_format"
AfterPivot == "resolve_level"

\* The missing source level is created first.
ConfirmPivot ==
    /\ Answered
    /\ pending.context = "missing_level_source"
    /\ resolved_intent' = "generate_requirement"
    /\ requested_level' = SourceLevelFor(requested_level)
    /\ target_requirement_ids' = {}
    /\ at' = AfterPivot
    /\ UNCHANGED <<target_requirement_id, resolved_source_id, task, processing_counter,
                   result, modifies>>

Confirmed ==
    /\ Answered
    /\ processing_counter' = processing_counter + 1
    /\ at' = "build_structured_format"
    /\ UNCHANGED <<resolved_intent, requested_level, task, result, modifies>>

ConfirmLevelSource ==
    /\ Confirmed
    /\ pending.context = "select_level_source"
    /\ resolved_source_id' \in pending.options
    /\ target_requirement_ids' = {}
    /\ UNCHANGED target_requirement_id

ConfirmDiagramTargets ==
    /\ Confirmed
    /\ pending.context = "select_diagram_targets"
    /\ target_requirement_ids' \in SUBSET pending.options \ {{}}
    /\ UNCHANGED <<target_requirement_id, resolved_source_id>>

\* Straight to the contract: resolve_level is not asked about this target.
ConfirmTarget ==
    /\ Confirmed
    /\ pending.pattern = "select_requirement"
    /\ pending.context = "none"
    /\ target_requirement_id' \in pending.options
    /\ target_requirement_ids' = {}
    /\ UNCHANGED resolved_source_id

\* A new request: only the lock and the intent are forgotten.
Modify ==
    /\ Answered
    /\ modifies < MaxModifies
    /\ modifies' = modifies + 1
    /\ resolved_intent' = "none"
    /\ target_requirement_ids' = {}
    /\ task_target' = NoTarget
    /\ target_fulfilled' = FALSE
    /\ at' = "middle_supervisor"
    /\ UNCHANGED <<requested_level, target_requirement_id, resolved_source_id,
                   processing_counter, result>>

Cancel ==
    /\ Answered
    /\ resolved_intent' = "none"
    /\ target_requirement_ids' = {}
    /\ result' = "cancelled"
    /\ at' = "END"
    /\ UNCHANGED <<requested_level, target_requirement_id, resolved_source_id, task,
                   processing_counter, modifies>>

Reply == \/ ConfirmPivot \/ ConfirmLevelSource \/ ConfirmDiagramTargets \/ ConfirmTarget
         \/ Modify \/ Cancel

-----------------------------------------------------------------------------
(* build_structured_format and sysml_processing.                           *)

IdOrNone(id) == IF id = None THEN {} ELSE {id}

Build ==
    LET level == OrFunctional(requested_level) IN
    /\ at = "build_structured_format"
    /\ input' = IF resolved_intent = "diagram"
         THEN [intent |-> "generate_diagram", level |-> level, source |-> None,
               targets |-> IF target_requirement_ids # {} THEN target_requirement_ids
                           ELSE IdOrNone(target_requirement_id)]
         ELSE [intent |-> "generate_requirement", level |-> level, targets |-> {},
               source |-> IF target_requirement_id # None THEN target_requirement_id
                          ELSE resolved_source_id]
    /\ at' = "sysml_processing"
    /\ UNCHANGED <<session, visits, resolution, task, pending, processing_counter, result,
                   last, modifies>>

\* Mutant of TargetFulfilled: a target without a level is never reached.
TargetFulfilledExact(target, in) ==
    /\ target # NoTarget
    /\ IF in.intent = "generate_diagram"
       THEN target.intent = "diagram"
       ELSE in.level = target.level

\* Mutant of TargetFulfilled: any processing fulfils the target.
TargetFulfilledByAny(target, in) == target # NoTarget
TargetFulfilled(target, in) ==
    /\ target # NoTarget
    /\ IF in.intent = "generate_diagram"
       THEN target.intent = "diagram"
       ELSE in.level = OrFunctional(target.level)

\* The requirements Layer 3 is given to work from.
Given == IF input.targets # {} THEN input.targets ELSE IdOrNone(input.source)

\* Layer 3 reads what it is given as requirements of the session, decides intent
\* and level itself, and stores an artifact or ends without; after a crash it may
\* store it again.  Module Delegation puts module Processing in this place.
Processed(stores) ==
    IF stores = "nothing" THEN UNCHANGED artifacts
    ELSE /\ exists
         /\ Given \subseteq Requirements
         /\ stores = "diagram" => Given # {}
         /\ \E n \in 1..MaxArtifacts - Len(artifacts) :
              artifacts' = artifacts \o [i \in 1..n |-> stores]

\* The session may be gone by the time Layer 3 comes back.
Concluded ==
    /\ last' = [id |-> processing_counter, input |-> input]
    /\ resolved_intent' = "none"
    /\ result' = "processed"
    /\ target_fulfilled' = TargetFulfilled(task_target, input)
    /\ at' = "middle_supervisor"
    /\ UNCHANGED <<exists, visits, requested_level, target_requirement_id,
                   target_requirement_ids, resolved_source_id, task_target, pending,
                   processing_counter, input, modifies>>

Process ==
    /\ at = "sysml_processing"
    /\ \E stores \in Kinds \cup {"nothing"} : Processed(stores)
    /\ Concluded

Work == \/ Supervisor \/ ValidateRefuses \/ ValidateAccepts \/ ResolveSettled
        \/ ResolveAsks \/ ConfirmAsks \/ Build \/ Process \/ NodeRaises

Next == Work \/ Reply \/ DeleteSession

Spec == Init /\ [][Next]_vars

\* The graph's runner executes the next node; nothing makes the user reply.
FairSpec == Spec /\ WF_vars(Work)

-----------------------------------------------------------------------------
(* Properties.                                                             *)

\* A processing never gets the counter, and so the thread id, of one before it.
FreshThreadId == at = "sysml_processing" => processing_counter > last.id

\* A task is complete only when the last processing was of the kind and level
\* the task was locked on, whatever prerequisites and replies came before.
CompleteMeansProcessed ==
    result = "task_complete" =>
        /\ last.id # 0
        /\ IF last.input.intent = "generate_diagram"
           THEN task_target.intent = "diagram"
           ELSE last.input.level = OrFunctional(task_target.level)

\* A new requirement below the top level derives from an existing one of the
\* level right above, unless a target was named, chosen or handed down.
Forward(level, source) ==
    IF level = "operational" THEN source = None
    ELSE source \in DOMAIN artifacts /\ artifacts[source] = SourceLevelFor(level)

DerivesForward ==
    at = "sysml_processing" /\ input.intent = "generate_requirement"
      /\ target_requirement_id = None => Forward(input.level, input.source)

\* Whether the processing the run is heading for is the one the target needs.
OnTarget ==
    IF at = "sysml_processing" THEN TargetFulfilled(task_target, input)
    ELSE IF resolved_intent = "diagram" THEN task_target.intent = "diagram"
    ELSE OrFunctional(requested_level) = OrFunctional(task_target.level)

\* The supersteps the run may still take after a processing, and in all.  What
\* was not the target is followed by one round on the locked target, and only
\* the first round of a run or of a changed request is open.
AfterProcessing == IF OnTarget THEN 1 ELSE 6

StepsLeft ==
    CASE at = "middle_supervisor" -> IF task_target = NoTarget THEN 11
                                     ELSE IF target_fulfilled THEN 1 ELSE 6
      [] at = "validate_inputs"         -> 4 + AfterProcessing
      [] at = "resolve_level"           -> 3 + AfterProcessing
      [] at = "build_structured_format" -> 2 + AfterProcessing
      [] at = "sysml_processing"        -> 1 + AfterProcessing
      [] at = "user_confirm_inputs"     -> 1
      [] OTHER -> 0

Phase == IF at \in Nodes THEN "working" ELSE IF at = "asking" THEN "asking" ELSE "over"

\* Between two replies Layer 2 takes at most 12 supersteps, however high the
\* visit limit is, and every run ends: in a question to the user, at END or in
\* an exception.
Run == INSTANCE GraphRun WITH Limit <- 12, phase <- Phase, left <- StepsLeft

BoundedRun == Run!LiveSpec

\* agents/sysml/middle_nodes.py:336: resolve_level "enforces the forward-only
\* operational -> functional -> physical ordering"; supervisor/graph.py:65: an
\* incoming target is "presently inert".
AlwaysForward ==
    at = "sysml_processing" /\ resolved_intent = "generate_requirement" =>
        Forward(input.level, input.source)
=============================================================================
