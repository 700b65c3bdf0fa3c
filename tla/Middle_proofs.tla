--------------------------- MODULE Middle_proofs ----------------------------
(***************************************************************************)
(* What the Layer-2 graph keeps, alone and with Layer 3 in it, for every   *)
(* session, every limit and every number of replies.                       *)
(***************************************************************************)
EXTENDS Delegation, TLAPS

-----------------------------------------------------------------------------
(* Type correctness.                                                       *)

LEMMA InitialArtifacts ==
    Init => artifacts \in Seq(Kinds) /\ target_requirement_id \in Ids
<1> SUFFICES ASSUME Init PROVE artifacts \in Seq(Kinds) /\ target_requirement_id \in Ids
  OBVIOUS
<1>1. PICK n \in 0..MaxInitial : artifacts \in [1..n -> Kinds]
  BY DEF Init
<1>2. n \in Nat
  BY <1>1, LimitsAreNat
<1>3. artifacts \in Seq(Kinds)
  BY <1>1, <1>2
<1>4. Len(artifacts) \in Nat
  BY <1>3
<1> QED
  BY <1>3, <1>4 DEF Init, Ids

LEMMA InitialRecords ==
    /\ NoTarget \in Targets
    /\ NotPending \in Questions
    /\ NoInput \in Inputs
    /\ [id |-> 0, input |-> NoInput] \in [id : Nat, input : Inputs]
BY DEF NoTarget, Targets, Intents, NotPending, Questions, NoInput, Inputs, Levels, None, Ids

LEMMA TypeInit == Init => TypeOK
<1> SUFFICES ASSUME Init PROVE TypeOK
  OBVIOUS
<1>1. /\ artifacts \in Seq(Kinds)
      /\ target_requirement_id \in Ids
      /\ task_target \in Targets
      /\ pending \in Questions
      /\ input \in Inputs
      /\ last \in [id : Nat, input : Inputs]
  BY InitialArtifacts, InitialRecords DEF Init
<1> QED
  BY <1>1 DEF Init, TypeOK, Nodes, Intents, None, Ids

\* The requirements are ids of the session.
LEMMA RequirementIds ==
    ASSUME artifacts \in Seq(Kinds)
    PROVE  /\ Requirements \in SUBSET DOMAIN artifacts
           /\ Requirements \in SUBSET Ids
           /\ None \notin Requirements
<1>1. DOMAIN artifacts = 1..Len(artifacts) /\ Len(artifacts) \in Nat
  OBVIOUS
<1> QED
  BY <1>1 DEF Requirements, Ids, None

LEMMA CandidateIds ==
    ASSUME artifacts \in Seq(Kinds), NEW level
    PROVE  /\ Candidates(level) \in SUBSET Requirements
           /\ Candidates(level) \in SUBSET Ids
BY RequirementIds DEF Candidates, AtLevel

\* Dropping the pattern leaves a question.
LEMMA DroppedPattern ==
    ASSUME NEW q \in Questions
    PROVE  /\ [q EXCEPT !.pattern = "none"] \in Questions
           /\ [q EXCEPT !.pattern = "none"].context = q.context
BY DEF Questions

LEMMA LevelKnown ==
    ASSUME NEW level \in Levels \cup {"none"}
    PROVE  OrFunctional(level) \in Levels /\ SourceLevelFor(level) \in Levels
BY DEF OrFunctional, SourceLevelFor, Levels

LEMMA TypeSupervisor == TypeOK /\ Supervisor => TypeOK'
<1> SUFFICES ASSUME TypeOK, Supervisor PROVE TypeOK'
  OBVIOUS
<1>1. /\ visits' \in Nat
      /\ target_requirement_ids' \in SUBSET Ids
      /\ UNCHANGED <<exists, artifacts, resolved_source_id, input, last, modifies>>
  BY DEF Supervisor, SupervisorStops, SupervisorCompletes, SupervisorResumes, Judge,
         SupervisorFindsNothing, SupervisorKnowsTarget, SupervisorAsksTarget,
         SupervisorTakesRequest, Visit, session, TypeOK
<1>2. artifacts \in Seq(Kinds) /\ pending \in Questions /\ task_target \in Targets
      /\ processing_counter + 1 \in Nat
  BY DEF TypeOK
<1>3. CASE SupervisorStops \/ SupervisorCompletes \/ SupervisorFindsNothing
  <2>1. \E r \in {"stopped", "task_complete", "no_action"} : Finish(r)
    BY <1>3 DEF SupervisorStops, SupervisorCompletes, SupervisorFindsNothing
  <2>2. pending' \in Questions
    BY <1>2, <2>1, DroppedPattern DEF Finish
  <2>3. /\ resolved_intent' \in Intents
        /\ result' \in {"none", "stopped", "task_complete", "no_action", "cancelled",
                        "processed"}
        /\ at' \in Ended
        /\ UNCHANGED <<requested_level, target_requirement_id, task_target,
                       target_fulfilled, processing_counter>>
    BY <2>1 DEF Finish, Intents, Ended, task
  <2> QED
    BY <1>1, <2>2, <2>3 DEF TypeOK
<1>4. CASE SupervisorResumes \/ SupervisorKnowsTarget \/ SupervisorTakesRequest
  <2>1. Proceed
    BY <1>4 DEF SupervisorResumes, SupervisorKnowsTarget, SupervisorTakesRequest
  <2>2. pending' \in Questions /\ processing_counter' \in Nat /\ result' = result
    BY <1>2, <2>1, DroppedPattern DEF Proceed, NextProc
  <2>3. at' \in Nodes \cup Ended
    BY <2>1 DEF Proceed, Nodes, Ended
  <2>4. /\ resolved_intent' \in Intents
        /\ requested_level' \in Levels \cup {"none"}
        /\ target_requirement_id' \in Ids
        /\ task_target' \in Targets
        /\ target_fulfilled' = target_fulfilled
    <3>1. CASE SupervisorResumes
      <4>1. task_target \in [intent : Intents, level : Levels \cup {"none"}]
        BY <1>2, <3>1 DEF SupervisorResumes, Targets
      <4> QED
        BY <3>1, <4>1 DEF SupervisorResumes, task, TypeOK
    <3>2. CASE SupervisorKnowsTarget
      BY <1>2, <3>2, RequirementIds
         DEF SupervisorKnowsTarget, Lock, Targeting, Targets, Intents, TypeOK
    <3>3. CASE SupervisorTakesRequest
      BY <1>2, <3>3 DEF SupervisorTakesRequest, Lock, Targets, TypeOK
    <3> QED
      BY <1>4, <3>1, <3>2, <3>3
  <2> QED
    BY <1>1, <2>2, <2>3, <2>4 DEF TypeOK
<1>5. CASE SupervisorAsksTarget
  <2>1. PICK intent \in Targeting :
          /\ resolved_intent' = intent
          /\ Lock(intent, "none")
          /\ pending' = IF intent = "diagram"
               THEN [pattern |-> "select_requirements_for_diagram",
                     context |-> "select_diagram_targets", options |-> Requirements]
               ELSE [pending EXCEPT !.pattern = "select_requirement",
                                    !.options = Requirements]
    BY <1>5 DEF SupervisorAsksTarget
  <2>2. pending' \in Questions
    BY <1>2, <2>1, RequirementIds DEF Questions
  <2>3. resolved_intent' \in Intents /\ task_target' \in Targets
        /\ target_fulfilled' = target_fulfilled
    BY <2>1 DEF Targeting, Intents, Lock, Targets
  <2>4. at' \in Nodes /\ UNCHANGED <<requested_level, target_requirement_id,
                                     processing_counter, result>>
    BY <1>5 DEF SupervisorAsksTarget, Nodes
  <2> QED
    BY <1>1, <2>2, <2>3, <2>4 DEF TypeOK
<1> QED
  BY <1>3, <1>4, <1>5 DEF Supervisor

LEMMA TypeResolve ==
    TypeOK /\ (ValidateRefuses \/ ValidateAccepts \/ ResolveSettled \/ ResolveAsks) => TypeOK'
<1> SUFFICES ASSUME TypeOK,
                    ValidateRefuses \/ ValidateAccepts \/ ResolveSettled \/ ResolveAsks
             PROVE  TypeOK'
  OBVIOUS
<1>1. artifacts \in Seq(Kinds) /\ pending \in Questions
      /\ requested_level \in Levels \cup {"none"}
  BY DEF TypeOK
<1>2. CASE ValidateRefuses
  <2>1. pending' \in Questions /\ at' \in Nodes
    BY <1>2 DEF ValidateRefuses, Ask, Questions, Nodes
  <2> QED
    BY <1>2, <2>1 DEF ValidateRefuses, TypeOK, session, resolution, task
<1>3. CASE ValidateAccepts
  <2>1. pending' \in Questions /\ at' \in Nodes
    BY <1>1, <1>3, DroppedPattern DEF ValidateAccepts, Nodes
  <2> QED
    BY <1>3, <2>1 DEF ValidateAccepts, TypeOK, session, resolution, task
<1>4. CASE ResolveSettled \/ ResolveAsks
  <2>1. PICK source \in Ids : Resolve(source)
    BY <1>1, <1>4, RequirementIds DEF ResolveSettled, ResolveAsks, None, Ids
  <2>2. requested_level' \in Levels
    BY <1>1, <2>1, LevelKnown DEF Resolve
  <2>3. pending' \in Questions /\ at' \in Nodes
    <3>1. CASE ResolveSettled
      BY <1>1, <3>1, DroppedPattern DEF ResolveSettled, Nodes
    <3>2. CASE ResolveAsks
      BY <1>1, <3>2, CandidateIds DEF ResolveAsks, Ask, Questions, Nodes
    <3> QED
      BY <1>4, <3>1, <3>2
  <2> QED
    BY <2>1, <2>2, <2>3 DEF Resolve, TypeOK, session, task
<1> QED
  BY <1>2, <1>3, <1>4

LEMMA TypeReply == TypeOK /\ Reply => TypeOK'
<1> SUFFICES ASSUME TypeOK, Reply PROVE TypeOK'
  OBVIOUS
<1>1. pending' \in Questions /\ UNCHANGED <<exists, artifacts, visits, input, last>>
  BY InitialRecords DEF Reply, ConfirmPivot, ConfirmLevelSource, ConfirmDiagramTargets,
     ConfirmTarget, Confirmed, Modify, Cancel, Answered, session
<1>2. pending.options \in SUBSET Ids
  BY DEF TypeOK, Questions
<1>3. CASE ConfirmPivot
  <2>1. requested_level' \in Levels
    BY <1>3 DEF ConfirmPivot, SourceLevelFor, Levels
  <2> QED
    BY <1>1, <1>3, <2>1 DEF ConfirmPivot, AfterPivot, Nodes, Intents, task, TypeOK
<1>4. CASE Confirmed /\ (ConfirmLevelSource \/ ConfirmDiagramTargets \/ ConfirmTarget)
  <2>1. /\ target_requirement_id' \in Ids
        /\ target_requirement_ids' \in SUBSET Ids
        /\ resolved_source_id' \in Ids
    BY <1>2, <1>4 DEF ConfirmLevelSource, ConfirmDiagramTargets, ConfirmTarget, TypeOK
  <2> QED
    BY <1>1, <1>4, <2>1 DEF Confirmed, Nodes, task, TypeOK
<1>5. CASE Modify
  <2>1. task_target' \in Targets /\ target_fulfilled' \in BOOLEAN
    BY <1>5, InitialRecords DEF Modify
  <2> QED
    BY <1>1, <1>5, <2>1 DEF Modify, Nodes, Intents, TypeOK
<1>6. CASE Cancel
  BY <1>1, <1>6 DEF Cancel, Ended, Intents, task, TypeOK
<1> QED
  BY <1>3, <1>4, <1>5, <1>6 DEF Reply, ConfirmLevelSource, ConfirmDiagramTargets,
     ConfirmTarget

LEMMA TypeWork == TypeOK /\ (Build \/ Process) => TypeOK'
<1> SUFFICES ASSUME TypeOK, Build \/ Process PROVE TypeOK'
  OBVIOUS
<1>1. CASE Build
  <2>1. OrFunctional(requested_level) \in Levels
    BY LevelKnown DEF TypeOK
  <2>2. input' \in Inputs
    BY <1>1, <2>1 DEF Build, Inputs, IdOrNone, None, Ids, TypeOK
  <2> QED
    BY <1>1, <2>2 DEF Build, Nodes, session, resolution, task, TypeOK
<1>2. CASE Process
  <2>1. artifacts' \in Seq(Kinds)
    <3>1. PICK stores \in Kinds \cup {"nothing"} : Processed(stores)
      BY <1>2 DEF Process
    <3>2. CASE stores # "nothing"
      <4>1. PICK n \in 1..MaxArtifacts - Len(artifacts) :
              artifacts' = artifacts \o [i \in 1..n |-> stores]
        BY <3>1, <3>2 DEF Processed
      <4>2. n \in Nat
        BY LimitsAreNat DEF TypeOK
      <4>3. [i \in 1..n |-> stores] \in Seq(Kinds)
        BY <3>2, <4>2
      <4> QED
        BY <4>1, <4>3 DEF TypeOK
    <3> QED
      BY <3>1, <3>2 DEF Processed, TypeOK
  <2>2. last' \in [id : Nat, input : Inputs]
    BY <1>2 DEF Process, Concluded, TypeOK
  <2>3. target_fulfilled' \in BOOLEAN
    BY <1>2 DEF Process, Concluded, TargetFulfilled
  <2> QED
    BY <1>2, <2>1, <2>2, <2>3 DEF Process, Concluded, Nodes, Intents, TypeOK
<1> QED
  BY <1>1, <1>2

LEMMA TypeStep == TypeOK /\ [Next]_vars => TypeOK'
<1> SUFFICES ASSUME TypeOK, [Next]_vars PROVE TypeOK'
  OBVIOUS
<1>1. CASE ConfirmAsks \/ NodeRaises
  BY <1>1 DEF ConfirmAsks, NodeRaises, Ended, session, resolution, task, TypeOK
<1>2. CASE DeleteSession
  BY <1>2 DEF DeleteSession, resolution, task, TypeOK
<1>3. CASE UNCHANGED vars
  BY <1>3 DEF vars, session, resolution, task, TypeOK
<1> QED
  BY <1>1, <1>2, <1>3, TypeSupervisor, TypeResolve, TypeReply, TypeWork DEF Next, Work

(***************************************************************************)
(* Every variable of the Layer-2 state keeps its type: agents/sysml/       *)
(* middle_state.py's MiddleState over the whole life of a task.            *)
(***************************************************************************)
THEOREM TypeCorrect == Spec => []TypeOK
<1>1. Init => TypeOK
  BY TypeInit
<1>2. TypeOK /\ [Next]_vars => TypeOK'
  BY TypeStep
<1> QED
  BY <1>1, <1>2, PTL DEF Spec

-----------------------------------------------------------------------------
(* Thread ids.                                                             *)

Questioned == at \in {"user_confirm_inputs", "asking"}

\* The question of one node does not linger for the next.
Settled == at \in Nodes \ {"user_confirm_inputs"} => pending.context = "none"

\* A processing on its way has its counter, but for the replies that count it.
Counted ==
    /\ processing_counter >= last.id
    /\ at \in {"validate_inputs", "resolve_level", "build_structured_format",
              "sysml_processing"} => processing_counter > last.id
    /\ Questioned /\ pending.context = "missing_level_source"
         => processing_counter > last.id

CountInv == TypeOK /\ Settled /\ Counted

LEMMA SettledStep == CountInv /\ [Next]_vars => Settled'
<1> SUFFICES ASSUME CountInv, [Next]_vars PROVE Settled'
  OBVIOUS
<1>0. pending \in Questions /\ Settled
  BY DEF CountInv, TypeOK
<1>1. CASE Supervisor
  <2>1. at = "middle_supervisor"
    BY <1>1 DEF Supervisor, SupervisorStops, SupervisorCompletes, SupervisorResumes,
       Judge, SupervisorFindsNothing, SupervisorKnowsTarget, SupervisorAsksTarget,
       SupervisorTakesRequest, Visit
  <2>2. \/ pending' = [pending EXCEPT !.pattern = "none"]
        \/ at' = "user_confirm_inputs"
    BY <1>1 DEF Supervisor, SupervisorStops, SupervisorCompletes, SupervisorResumes,
       SupervisorFindsNothing, SupervisorKnowsTarget, SupervisorAsksTarget,
       SupervisorTakesRequest, Finish, Proceed
  <2> QED
    BY <1>0, <2>1, <2>2, DroppedPattern DEF Settled, Nodes
<1>2. CASE ValidateRefuses \/ ResolveAsks \/ ConfirmAsks \/ NodeRaises
  BY <1>2 DEF ValidateRefuses, ResolveAsks, Ask, ConfirmAsks, NodeRaises, Settled, Nodes
<1>3. CASE ValidateAccepts \/ ResolveSettled
  <2>1. at \in {"validate_inputs", "resolve_level"}
        /\ pending' = [pending EXCEPT !.pattern = "none"]
    BY <1>3 DEF ValidateAccepts, ResolveSettled, Resolve
  <2> QED
    BY <1>0, <2>1, DroppedPattern DEF Settled, Nodes
<1>4. CASE Reply
  <2>1. pending' = NotPending
    BY <1>4 DEF Reply, ConfirmPivot, ConfirmLevelSource, ConfirmDiagramTargets,
       ConfirmTarget, Confirmed, Modify, Cancel, Answered
  <2> QED
    BY <2>1 DEF NotPending, Settled
<1>5. CASE Build \/ Process \/ DeleteSession \/ UNCHANGED vars
  BY <1>0, <1>5 DEF Build, Process, Concluded, DeleteSession, vars, Settled, Nodes
<1> QED
  BY <1>1, <1>2, <1>3, <1>4, <1>5 DEF Next, Work

LEMMA CountedStep == CountInv /\ [Next]_vars => Counted'
<1> SUFFICES ASSUME CountInv, [Next]_vars PROVE Counted'
  OBVIOUS
<1>0. /\ pending \in Questions /\ processing_counter \in Nat /\ last.id \in Nat
      /\ Settled /\ Counted
  BY DEF CountInv, TypeOK
<1>1. CASE Supervisor
  <2>1. last' = last /\ at = "middle_supervisor"
    BY <1>1 DEF Supervisor, SupervisorStops, SupervisorCompletes, SupervisorResumes,
       Judge, SupervisorFindsNothing, SupervisorKnowsTarget, SupervisorAsksTarget,
       SupervisorTakesRequest, Visit
  <2>2. \/ processing_counter' = processing_counter /\ at' = "END"
        \/ processing_counter' = processing_counter + 1 /\ at' # "user_confirm_inputs"
             /\ at' # "asking"
        \/ /\ processing_counter' = processing_counter
           /\ at' = "user_confirm_inputs"
           /\ pending'.context # "missing_level_source"
    <3>1. CASE SupervisorAsksTarget
      <4>1. pending.context = "none"
        BY <1>0, <2>1 DEF Settled, Nodes
      <4> QED
        BY <1>0, <3>1, <4>1 DEF SupervisorAsksTarget, Questions
    <3>2. CASE ~SupervisorAsksTarget
      BY <1>1, <3>2 DEF Supervisor, SupervisorStops, SupervisorCompletes,
         SupervisorResumes, SupervisorFindsNothing, SupervisorKnowsTarget,
         SupervisorTakesRequest, Finish, Proceed, NextProc
    <3> QED
      BY <3>1, <3>2
  <2> QED
    BY <1>0, <2>1, <2>2 DEF Counted, Questioned
<1>2. CASE \/ ValidateRefuses \/ ValidateAccepts \/ ResolveSettled \/ ResolveAsks \/ Build
  <2>1. /\ at \in {"validate_inputs", "resolve_level", "build_structured_format"}
        /\ UNCHANGED <<processing_counter, last>>
    BY <1>2 DEF ValidateRefuses, ValidateAccepts, ResolveSettled, ResolveAsks, Resolve, Build
  <2> QED
    BY <1>0, <2>1 DEF Counted
<1>3. CASE ConfirmAsks \/ NodeRaises \/ DeleteSession \/ UNCHANGED vars
  BY <1>0, <1>3 DEF ConfirmAsks, NodeRaises, DeleteSession, vars, Counted, Questioned
<1>4. CASE Reply
  <2>1. /\ at = "asking" /\ last' = last
        /\ \/ /\ pending.context = "missing_level_source" /\ at' = "resolve_level"
              /\ processing_counter' = processing_counter
           \/ processing_counter' = processing_counter + 1
                /\ at' = "build_structured_format"
           \/ processing_counter' = processing_counter /\ at' \in {"middle_supervisor", "END"}
    BY <1>4 DEF Reply, ConfirmPivot, AfterPivot, ConfirmLevelSource, ConfirmDiagramTargets,
       ConfirmTarget, Confirmed, Modify, Cancel, Answered
  <2> QED
    BY <1>0, <2>1 DEF Counted, Questioned
<1>5. CASE Process
  BY <1>0, <1>5 DEF Process, Concluded, Counted, Questioned
<1> QED
  BY <1>1, <1>2, <1>3, <1>4, <1>5 DEF Next, Work

LEMMA CountInvAlways == Spec => []CountInv
<1>1. Init => CountInv
  BY TypeInit DEF Init, CountInv, Settled, Counted, Questioned, NotPending
<1>2. CountInv /\ [Next]_vars => CountInv'
  BY TypeStep, SettledStep, CountedStep DEF CountInv
<1> QED
  BY <1>1, <1>2, PTL DEF Spec

(***************************************************************************)
(* Whatever pivots, selections and changes of mind come before it, a       *)
(* processing of agents/sysml/middle_nodes.py's sysml_processing runs under *)
(* a thread id no earlier processing of the task had.                      *)
(***************************************************************************)
THEOREM ThreadIdsFresh == Spec => []FreshThreadId
<1>1. CountInv => FreshThreadId
  BY DEF CountInv, Counted, FreshThreadId
<1> QED
  BY <1>1, CountInvAlways, PTL

-----------------------------------------------------------------------------
(* Completion.                                                             *)

\* target_fulfilled is about the last processing and the target now locked.
FulfilledByLast ==
    target_fulfilled =>
        /\ last.id # 0
        /\ TargetFulfilled(task_target, last.input)
        /\ at \in {"middle_supervisor", "END", "raised"}

CompletedByFlag == result = "task_complete" => target_fulfilled /\ at = "END"

FulfilInv == CountInv /\ FulfilledByLast /\ CompletedByFlag

LEMMA FulfilStep == FulfilInv /\ CountInv' /\ [Next]_vars => FulfilInv'
<1> SUFFICES ASSUME FulfilInv, [Next]_vars
             PROVE  FulfilledByLast' /\ CompletedByFlag'
  BY DEF FulfilInv
<1>0. FulfilledByLast /\ CompletedByFlag /\ target_fulfilled \in BOOLEAN
      /\ processing_counter \in Nat /\ last.id \in Nat /\ Counted
  BY DEF FulfilInv, CountInv, TypeOK
<1>1. CASE SupervisorStops \/ SupervisorCompletes \/ SupervisorFindsNothing
  <2>1. /\ at = "middle_supervisor" /\ at' = "END"
        /\ UNCHANGED <<last, task_target, target_fulfilled>>
        /\ result' = "task_complete" => target_fulfilled
    BY <1>1 DEF SupervisorStops, SupervisorCompletes, SupervisorFindsNothing, Judge,
       Visit, Finish, task
  <2> QED
    BY <1>0, <2>1 DEF FulfilledByLast, CompletedByFlag
<1>2. CASE SupervisorResumes \/ SupervisorKnowsTarget \/ SupervisorTakesRequest
             \/ SupervisorAsksTarget
  <2>1. at = "middle_supervisor" /\ last' = last /\ result' = result
        /\ target_fulfilled' = target_fulfilled
    BY <1>2 DEF SupervisorResumes, SupervisorKnowsTarget, SupervisorTakesRequest,
       SupervisorAsksTarget, Judge, Visit, Proceed, Lock, task
  <2>2. ~target_fulfilled
    BY <1>0, <1>2 DEF SupervisorResumes, SupervisorKnowsTarget, SupervisorTakesRequest,
       SupervisorAsksTarget, Judge, FulfilledByLast, TargetFulfilled
  <2> QED
    BY <1>0, <2>1, <2>2 DEF FulfilledByLast, CompletedByFlag
<1>3. CASE \/ ValidateRefuses \/ ValidateAccepts \/ ResolveSettled \/ ResolveAsks
           \/ ConfirmAsks \/ Build
  <2>1. /\ at \in {"validate_inputs", "resolve_level", "user_confirm_inputs",
                   "build_structured_format"}
        /\ target_fulfilled' = target_fulfilled /\ result' = result
    BY <1>3 DEF ValidateRefuses, ValidateAccepts, ResolveSettled, ResolveAsks, Resolve,
       ConfirmAsks, Build, task
  <2> QED
    BY <1>0, <2>1 DEF FulfilledByLast, CompletedByFlag
<1>4. CASE Reply
  <2>1. /\ at = "asking"
        /\ target_fulfilled' = target_fulfilled \/ target_fulfilled' = FALSE
        /\ result' = result \/ result' = "cancelled"
    BY <1>4 DEF Reply, ConfirmPivot, ConfirmLevelSource, ConfirmDiagramTargets,
       ConfirmTarget, Confirmed, Modify, Cancel, Answered, task
  <2> QED
    BY <1>0, <2>1 DEF FulfilledByLast, CompletedByFlag
<1>5. CASE Process
  <2>1. /\ last'.id = processing_counter /\ last'.input = input
        /\ task_target' = task_target
        /\ target_fulfilled' = TargetFulfilled(task_target, input)
        /\ at' = "middle_supervisor" /\ result' = "processed"
    BY <1>5 DEF Process, Concluded
  <2>2. processing_counter > 0
    BY <1>0, <1>5 DEF Process, Concluded, Counted
  <2> QED
    BY <2>1, <2>2 DEF FulfilledByLast, CompletedByFlag
<1>6. CASE NodeRaises \/ DeleteSession \/ UNCHANGED vars
  BY <1>0, <1>6 DEF NodeRaises, DeleteSession, Nodes, Ended, vars, task, FulfilledByLast,
     CompletedByFlag
<1> QED
  BY <1>1, <1>2, <1>3, <1>4, <1>5, <1>6 DEF Next, Work, Supervisor

(***************************************************************************)
(* task_complete is reported only when the last processing was of the      *)
(* locked intent and level: agents/sysml/middle_nodes.py's completion      *)
(* condition with the target as it stands after every reply.               *)
(***************************************************************************)
THEOREM CompletionCorrect == Spec => []CompleteMeansProcessed
<1>1. Init => FulfilledByLast /\ CompletedByFlag
  BY DEF Init, FulfilledByLast, CompletedByFlag
<1>2. FulfilInv => CompleteMeansProcessed
  BY DEF FulfilInv, FulfilledByLast, CompletedByFlag, TargetFulfilled,
     CompleteMeansProcessed
<1>3. FulfilInv <=> CountInv /\ FulfilledByLast /\ CompletedByFlag
  BY DEF FulfilInv
<1> QED
  BY <1>1, <1>2, <1>3, FulfilStep, CountInvAlways, PTL DEF Spec

-----------------------------------------------------------------------------
(* Forward derivation.                                                     *)

\* What build_structured_format will read is forward already.
Ready ==
    at = "build_structured_format" /\ resolved_intent # "diagram"
      /\ target_requirement_id = None
        => Forward(OrFunctional(requested_level), resolved_source_id)

\* What each selection offers.
Offered ==
    Questioned =>
        /\ pending.context = "select_level_source" =>
             /\ requested_level \in {"functional", "physical"}
             /\ \A id \in pending.options :
                  id \in DOMAIN artifacts /\ artifacts[id] = SourceLevelFor(requested_level)
        /\ pending.context = "select_diagram_targets" => resolved_intent = "diagram"
        /\ pending.context = "none" => None \notin pending.options

ForwardInv == CountInv /\ Ready /\ Offered /\ DerivesForward

LEMMA OfferedStep == ForwardInv /\ [Next]_vars => Offered'
<1> SUFFICES ASSUME ForwardInv, [Next]_vars PROVE Offered'
  OBVIOUS
<1>0. /\ artifacts \in Seq(Kinds) /\ pending \in Questions /\ Settled /\ Offered
      /\ requested_level \in Levels \cup {"none"}
  BY DEF ForwardInv, CountInv, TypeOK
<1>1. CASE SupervisorAsksTarget
  <2>1. pending.context = "none"
    BY <1>0, <1>1 DEF SupervisorAsksTarget, Judge, Visit, Settled, Nodes
  <2>2. /\ pending'.context # "select_level_source"
        /\ pending'.context = "select_diagram_targets" => resolved_intent' = "diagram"
        /\ pending'.options = Requirements
    BY <1>0, <1>1, <2>1 DEF SupervisorAsksTarget, Targeting, Questions
  <2> QED
    BY <1>0, <2>2, RequirementIds DEF Offered
<1>2. CASE Supervisor /\ ~SupervisorAsksTarget
  <2>1. at' \in {"END", "validate_inputs"}
    BY <1>2 DEF Supervisor, SupervisorStops, SupervisorCompletes, SupervisorResumes,
       SupervisorFindsNothing, SupervisorKnowsTarget, SupervisorTakesRequest, Finish,
       Proceed
  <2> QED
    BY <2>1 DEF Offered, Questioned
<1>3. CASE ValidateRefuses
  BY <1>3 DEF ValidateRefuses, Ask, Offered
<1>4. CASE ResolveAsks
  <2>1. PICK level \in {"functional", "physical"} :
          /\ requested_level' = level /\ artifacts' = artifacts
          /\ \/ pending'.context = "missing_level_source"
             \/ pending'.context = "select_level_source"
                  /\ pending'.options = Candidates(level)
    BY <1>0, <1>4 DEF ResolveAsks, Resolve, Ask, OrFunctional, Levels, session
  <2>2. \A id \in Candidates(level) :
          id \in DOMAIN artifacts /\ artifacts[id] = SourceLevelFor(level)
    BY <1>0, RequirementIds DEF Candidates, AtLevel
  <2> QED
    BY <2>1, <2>2 DEF Offered
<1>5. CASE ConfirmAsks \/ DeleteSession \/ UNCHANGED vars
  <2>1. UNCHANGED <<pending, requested_level, artifacts, resolved_intent>>
        /\ (Questioned' => Questioned)
    BY <1>5 DEF ConfirmAsks, DeleteSession, vars, resolution, session, Questioned
  <2> QED
    BY <1>0, <2>1 DEF Offered
<1>6. CASE ValidateAccepts \/ ResolveSettled \/ Build \/ Process \/ NodeRaises \/ Reply
  <2>1. at' \notin {"user_confirm_inputs", "asking"}
    BY <1>6 DEF ValidateAccepts, ResolveSettled, Build, Process, Concluded, NodeRaises,
       Reply, ConfirmPivot, AfterPivot, ConfirmLevelSource, ConfirmDiagramTargets,
       ConfirmTarget, Confirmed, Modify, Cancel
  <2> QED
    BY <2>1 DEF Offered, Questioned
<1> QED
  BY <1>1, <1>2, <1>3, <1>4, <1>5, <1>6 DEF Next, Work

LEMMA ReadyStep == ForwardInv /\ [Next]_vars => Ready'
<1> SUFFICES ASSUME ForwardInv, [Next]_vars,
                    at' = "build_structured_format", resolved_intent' # "diagram",
                    target_requirement_id' = None
             PROVE  Forward(OrFunctional(requested_level), resolved_source_id)'
  BY DEF Ready
<1>0. /\ artifacts \in Seq(Kinds) /\ pending \in Questions /\ Offered /\ Ready
      /\ requested_level \in Levels \cup {"none"}
  BY DEF ForwardInv, CountInv, TypeOK
<1>1. CASE ValidateAccepts
  <2>1. resolved_intent \in Actionable \ LevelBearing /\ resolved_intent' = resolved_intent
    BY <1>1 DEF ValidateAccepts, resolution
  <2> QED
    BY <2>1 DEF Actionable, LevelBearing, Targeting
<1>2. CASE ResolveSettled
  <2> DEFINE level == OrFunctional(requested_level)
  <2>1. requested_level' = level /\ artifacts' = artifacts /\ OrFunctional(level) = level
    BY <1>2 DEF ResolveSettled, Resolve, session, OrFunctional
  <2>2. CASE level = "operational"
    BY <1>2, <2>1, <2>2 DEF ResolveSettled, Resolve, Forward
  <2>3. CASE level # "operational"
    <3>1. PICK id \in Requirements : Candidates(level) = {id} /\ resolved_source_id' = id
      BY <1>2, <2>3 DEF ResolveSettled, Resolve
    <3>2. id \in DOMAIN artifacts /\ artifacts[id] = SourceLevelFor(level)
      BY <1>0, <3>1, RequirementIds DEF Candidates, AtLevel
    <3> QED
      BY <2>1, <2>3, <3>1, <3>2 DEF Forward
  <2> QED
    BY <2>2, <2>3
<1>3. CASE Reply
  <2>1. at = "asking" /\ artifacts' = artifacts
    BY <1>3 DEF Reply, ConfirmPivot, ConfirmLevelSource, ConfirmDiagramTargets,
       ConfirmTarget, Confirmed, Modify, Cancel, Answered, session
  <2>2. ConfirmLevelSource \/ ConfirmDiagramTargets \/ ConfirmTarget
    BY <1>3 DEF Reply, ConfirmPivot, AfterPivot, Modify, Cancel
  <2>3. CASE ConfirmLevelSource
    <3>1. pending.context = "select_level_source" /\ requested_level' = requested_level
          /\ resolved_source_id' \in pending.options
      BY <2>3 DEF ConfirmLevelSource, Confirmed
    <3> QED
      BY <1>0, <2>1, <3>1 DEF Offered, Questioned, Forward, OrFunctional
  <2>4. CASE ConfirmDiagramTargets
    BY <1>0, <2>1, <2>4 DEF ConfirmDiagramTargets, Confirmed, Offered, Questioned
  <2>5. CASE ConfirmTarget
    BY <1>0, <2>1, <2>5 DEF ConfirmTarget, Offered, Questioned
  <2> QED
    BY <2>2, <2>3, <2>4, <2>5
<1>4. CASE DeleteSession \/ UNCHANGED vars
  <2>1. UNCHANGED <<at, artifacts, requested_level, resolved_intent,
                    target_requirement_id, resolved_source_id>>
    BY <1>4 DEF DeleteSession, vars, resolution, session
  <2> QED
    BY <1>0, <2>1 DEF Ready, Forward, OrFunctional
<1>5. ~(Supervisor \/ ValidateRefuses \/ ResolveAsks \/ ConfirmAsks \/ Build \/ Process
          \/ NodeRaises)
  BY DEF Supervisor, SupervisorStops, SupervisorCompletes, SupervisorResumes,
     SupervisorFindsNothing, SupervisorKnowsTarget, SupervisorTakesRequest, Finish,
     Proceed, SupervisorAsksTarget, ValidateRefuses, ResolveAsks, Ask, ConfirmAsks,
     Build, Process, Concluded, NodeRaises
<1> QED
  BY <1>1, <1>2, <1>3, <1>4, <1>5 DEF Next, Work

LEMMA ForwardStep == ForwardInv /\ [Next]_vars => DerivesForward'
<1> SUFFICES ASSUME ForwardInv, [Next]_vars,
                    at' = "sysml_processing", input'.intent = "generate_requirement",
                    target_requirement_id' = None
             PROVE  Forward(input.level, input.source)'
  BY DEF DerivesForward
<1>0. Ready /\ DerivesForward
  BY DEF ForwardInv
<1>1. CASE Build
  <2>1. /\ at = "build_structured_format" /\ artifacts' = artifacts
        /\ target_requirement_id = None
    BY <1>1 DEF Build, session, resolution
  <2>2. /\ resolved_intent # "diagram"
        /\ input'.level = OrFunctional(requested_level)
        /\ input'.source = resolved_source_id
    BY <1>1, <2>1 DEF Build
  <2> QED
    BY <1>0, <2>1, <2>2 DEF Ready, Forward
<1>2. CASE DeleteSession \/ UNCHANGED vars
  <2>1. UNCHANGED <<at, artifacts, input, target_requirement_id>>
    BY <1>2 DEF DeleteSession, vars, resolution, session
  <2> QED
    BY <1>0, <2>1 DEF DerivesForward, Forward
<1>3. ~(\/ Supervisor \/ ValidateRefuses \/ ValidateAccepts \/ ResolveSettled \/ ResolveAsks
        \/ ConfirmAsks \/ Process \/ NodeRaises \/ Reply)
  BY DEF Supervisor, SupervisorStops, SupervisorCompletes, SupervisorResumes,
     SupervisorFindsNothing, SupervisorKnowsTarget, SupervisorTakesRequest, Finish,
     Proceed, SupervisorAsksTarget, ValidateRefuses, ValidateAccepts, ResolveSettled,
     ResolveAsks, Ask, ConfirmAsks, Process, Concluded, NodeRaises, Reply,
     ConfirmPivot, AfterPivot, ConfirmLevelSource, ConfirmDiagramTargets, ConfirmTarget,
     Confirmed, Modify, Cancel
<1> QED
  BY <1>1, <1>2, <1>3 DEF Next, Work

(***************************************************************************)
(* A new requirement below the top level derives from one of the level     *)
(* right above, through pivots, selections and changes of mind, as long as *)
(* target_requirement_id is not set: resolve_level's promise.              *)
(***************************************************************************)
THEOREM ForwardCorrect == Spec => []DerivesForward
<1>1. Init => Ready /\ Offered /\ DerivesForward
  BY DEF Init, Ready, Offered, Questioned, DerivesForward
<1>2. ForwardInv /\ [Next]_vars => Ready' /\ Offered' /\ DerivesForward'
  BY ReadyStep, OfferedStep, ForwardStep
<1>3. ForwardInv <=> CountInv /\ Ready /\ Offered /\ DerivesForward
  BY DEF ForwardInv
<1> QED
  BY <1>1, <1>2, <1>3, CountInvAlways, PTL DEF Spec

-----------------------------------------------------------------------------
(* How many supersteps there are between two replies.                      *)

\* Past the first visit the task's target is locked.
Locked == at \notin {"middle_supervisor"} \cup Ended => task_target # NoTarget

\* What a visit of middle_supervisor leads to.
LEMMA VisitLeads ==
    ASSUME Supervisor
    PROVE  \/ at' \in Ended
           \/ /\ at' = "user_confirm_inputs"
              /\ task_target' # NoTarget
           \/ /\ at' = "validate_inputs"
              /\ task_target = NoTarget
              /\ task_target' # NoTarget
           \/ /\ at' = "validate_inputs"
              /\ task_target # NoTarget
              /\ ~target_fulfilled
              /\ task_target' = task_target
              /\ resolved_intent' = task_target.intent
              /\ requested_level' = task_target.level
<1>1. CASE SupervisorStops \/ SupervisorCompletes \/ SupervisorFindsNothing
  BY <1>1 DEF SupervisorStops, SupervisorCompletes, SupervisorFindsNothing, Finish, Ended
<1>2. CASE SupervisorResumes
  BY <1>2 DEF SupervisorResumes, Proceed, Ended, task
<1>3. ASSUME NEW intent, NEW level, level # "unlocked", Lock(intent, level)
      PROVE  task_target' # NoTarget
  BY <1>3 DEF Lock, NoTarget
<1>4. CASE SupervisorKnowsTarget
  BY <1>3, <1>4 DEF SupervisorKnowsTarget, Judge, Proceed, Ended
<1>5. CASE SupervisorAsksTarget
  BY <1>3, <1>5 DEF SupervisorAsksTarget
<1>6. CASE SupervisorTakesRequest
  <2>1. \E intent : \E level \in Levels \cup {"none"} : Lock(intent, level)
    BY <1>6 DEF SupervisorTakesRequest
  <2>2. task_target' # NoTarget
    BY <1>3, <2>1 DEF Levels
  <2> QED
    BY <1>6, <2>2 DEF SupervisorTakesRequest, Judge, Proceed, Ended
<1> QED
  BY <1>1, <1>2, <1>4, <1>5, <1>6 DEF Supervisor

\* Every other node, and the user's replies, keep the lock, but Modify.
LEMMA LockKept ==
    ASSUME \/ ValidateRefuses \/ ValidateAccepts \/ ResolveSettled \/ ResolveAsks
           \/ ConfirmAsks \/ Build \/ Process
           \/ ConfirmPivot \/ ConfirmLevelSource \/ ConfirmDiagramTargets \/ ConfirmTarget
    PROVE  task_target' = task_target
BY DEF ValidateRefuses, ValidateAccepts, ResolveSettled, ResolveAsks, Resolve, ConfirmAsks,
       Build, Process, Concluded, ConfirmPivot, ConfirmLevelSource, ConfirmDiagramTargets,
       ConfirmTarget, Confirmed, task

LEMMA LockedStep == Locked /\ [Next]_vars => Locked'
<1> SUFFICES ASSUME Locked, [Next]_vars PROVE Locked'
  OBVIOUS
<1>1. CASE Supervisor
  BY <1>1, VisitLeads DEF Locked
<1>2. CASE \/ ValidateRefuses \/ ValidateAccepts \/ ResolveSettled \/ ResolveAsks
           \/ ConfirmAsks \/ Build \/ Process
           \/ ConfirmPivot \/ ConfirmLevelSource \/ ConfirmDiagramTargets \/ ConfirmTarget
  <2>1. task_target' = task_target
    BY <1>2, LockKept
  <2>2. at \notin {"middle_supervisor"} \cup Ended
    BY <1>2 DEF ValidateRefuses, ValidateAccepts, ResolveSettled, ResolveAsks, Resolve,
                ConfirmAsks, Build, Process, Concluded, ConfirmPivot, ConfirmLevelSource,
                ConfirmDiagramTargets, ConfirmTarget, Confirmed, Answered, Ended
  <2> QED
    BY <2>1, <2>2 DEF Locked
<1>3. CASE Modify \/ Cancel \/ NodeRaises
  BY <1>3 DEF Modify, Cancel, NodeRaises, Locked, Ended
<1>4. CASE DeleteSession \/ UNCHANGED vars
  BY <1>4 DEF DeleteSession, vars, task, Locked
<1> QED
  BY <1>1, <1>2, <1>3, <1>4 DEF Next, Work, Reply

StepsInRange ==
    /\ StepsLeft \in 0..11
    /\ at \notin Nodes => StepsLeft = 0

LEMMA StepsLeftBounded == StepsInRange
<1>1. AfterProcessing \in {1, 6}
  BY DEF AfterProcessing
<1> QED
  BY <1>1 DEF StepsInRange, StepsLeft, Nodes

\* Resolving a level twice is resolving it once.
LEMMA FunctionalTwice ==
    ASSUME NEW level
    PROVE  OrFunctional(OrFunctional(level)) = OrFunctional(level)
BY DEF OrFunctional

\* The rest of a round does not change what the round is heading for.
LEMMA AimKept ==
    ASSUME TypeOK,
           ValidateAccepts \/ ResolveSettled \/ Build,
           OnTarget, task_target # NoTarget
    PROVE  OnTarget'
<1>1. CASE ValidateAccepts
  BY <1>1 DEF ValidateAccepts, OnTarget, resolution, task
<1>2. CASE ResolveSettled
  <2>1. /\ at = "resolve_level" /\ at' = "build_structured_format"
        /\ requested_level' = OrFunctional(requested_level)
        /\ UNCHANGED <<resolved_intent, task_target>>
    BY <1>2 DEF ResolveSettled, Resolve, task
  <2> QED
    BY <2>1, FunctionalTwice DEF OnTarget
<1>3. CASE Build
  <2>1. /\ at = "build_structured_format" /\ at' = "sysml_processing"
        /\ task_target' = task_target
    BY <1>3 DEF Build, task
  <2>2. CASE resolved_intent = "diagram"
    <3>1. input'.intent = "generate_diagram"
      BY <1>3, <2>2 DEF Build
    <3> QED
      BY <2>1, <2>2, <3>1 DEF OnTarget, TargetFulfilled
  <2>3. CASE resolved_intent # "diagram"
    <3>1. input'.intent = "generate_requirement"
          /\ input'.level = OrFunctional(requested_level)
      BY <1>3, <2>3 DEF Build
    <3> QED
      BY <2>1, <2>3, <3>1 DEF OnTarget, TargetFulfilled
  <2> QED
    BY <2>2, <2>3
<1> QED
  BY <1>1, <1>2, <1>3

LEMMA StepsInit == Init => Run!Init
<1> SUFFICES ASSUME Init PROVE Run!Init
  OBVIOUS
<1> QED
  BY StepsLeftBounded DEF StepsInRange, Run!Init, Run!Phases, Phase

LEMMA StepsStep ==
    /\ TypeOK /\ Locked
    /\ StepsInRange /\ StepsInRange'
    /\ [Next]_vars
    => [Run!Next]_(Run!vars)
<1> SUFFICES ASSUME TypeOK, Locked, StepsInRange, StepsInRange', [Next]_vars
             PROVE  [Run!Next]_(Run!vars)
  OBVIOUS
<1>a. /\ StepsLeft \in 0..11 /\ StepsLeft' \in 0..11
      /\ at' \notin Nodes => StepsLeft' = 0
  BY DEF StepsInRange
<1>b. Phase' \in Run!Phases
  BY DEF Run!Phases, Phase
<1>c. ASSUME at \in Nodes, StepsLeft' < StepsLeft
      PROVE  Run!Next
  BY <1>a, <1>b, <1>c DEF Run!Next, Run!Superstep, Phase
<1>d. ASSUME at = "asking"
      PROVE  Run!Next
  BY <1>a, <1>b, <1>d DEF Run!Next, Run!Resume, Phase, Nodes
<1>e. AfterProcessing \in {1, 6} /\ AfterProcessing' \in {1, 6}
  BY DEF AfterProcessing
<1>1. CASE Supervisor
  <2>1. at = "middle_supervisor"
    BY <1>1 DEF Supervisor, SupervisorStops, SupervisorCompletes, SupervisorResumes, Judge,
                SupervisorFindsNothing, SupervisorKnowsTarget, SupervisorAsksTarget,
                SupervisorTakesRequest, Visit
  <2>2. StepsLeft = IF task_target = NoTarget THEN 11 ELSE IF target_fulfilled THEN 1 ELSE 6
    BY <2>1 DEF StepsLeft
  <2>3. CASE at' \in Ended
    BY <1>a, <1>c, <2>1, <2>2, <2>3 DEF Nodes, Ended
  <2>4. CASE at' = "user_confirm_inputs"
    <3>1. task_target = NoTarget
      BY <1>1, <2>4 DEF Supervisor, SupervisorStops, SupervisorCompletes, SupervisorResumes,
                        Judge, SupervisorFindsNothing, SupervisorKnowsTarget,
                        SupervisorAsksTarget, SupervisorTakesRequest, Finish, Proceed
    <3>2. StepsLeft' = 1
      BY <2>4 DEF StepsLeft
    <3>3. StepsLeft = 11
      BY <2>2, <3>1
    <3> QED
      BY <1>c, <2>1, <3>2, <3>3 DEF Nodes
  <2>5. CASE at' = "validate_inputs" /\ task_target = NoTarget
    <3>1. StepsLeft = 11
      BY <2>2, <2>5
    <3>2. AfterProcessing' = 1 \/ AfterProcessing' = 6
      BY <1>e
    <3>3. StepsLeft' = 5 \/ StepsLeft' = 10
      BY <2>5, <3>2 DEF StepsLeft
    <3>4. StepsLeft' < StepsLeft
      BY <3>1, <3>3
    <3> QED
      BY <1>c, <2>1, <3>4 DEF Nodes
  <2>6. CASE /\ at' = "validate_inputs"
             /\ task_target # NoTarget
             /\ ~target_fulfilled
             /\ task_target' = task_target
             /\ resolved_intent' = task_target.intent
             /\ requested_level' = task_target.level
    <3>1. OnTarget'
      BY <2>6 DEF OnTarget
    <3>2. StepsLeft' = 5
      BY <2>6, <3>1 DEF StepsLeft, AfterProcessing
    <3>3. StepsLeft = 6
      BY <2>2, <2>6
    <3>4. StepsLeft' < StepsLeft
      BY <3>2, <3>3
    <3> QED
      BY <1>c, <2>1, <3>4 DEF Nodes
  <2> QED
    BY <1>1, <2>3, <2>4, <2>5, <2>6, VisitLeads
<1>2. CASE ValidateRefuses \/ ResolveAsks
  <2>1. at \in {"validate_inputs", "resolve_level"} /\ at' = "user_confirm_inputs"
    BY <1>2 DEF ValidateRefuses, ResolveAsks, Resolve, Ask
  <2>2. StepsLeft' = 1 /\ StepsLeft > 1
    BY <1>e, <2>1 DEF StepsLeft
  <2> QED
    BY <1>c, <2>1, <2>2 DEF Nodes
<1>3. CASE ValidateAccepts \/ ResolveSettled \/ Build
  <2>1. \/ at = "validate_inputs" /\ at' \in {"resolve_level", "build_structured_format"}
        \/ at = "resolve_level" /\ at' = "build_structured_format"
        \/ at = "build_structured_format" /\ at' = "sysml_processing"
    BY <1>3 DEF ValidateAccepts, ResolveSettled, Resolve, Build
  <2>2. task_target # NoTarget
    BY <2>1 DEF Locked, Ended
  <2>3. AfterProcessing' <= AfterProcessing
    BY <1>3, <1>e, <2>2, AimKept DEF AfterProcessing
  <2>4. StepsLeft' < StepsLeft
    BY <1>e, <2>1, <2>3 DEF StepsLeft
  <2> QED
    BY <1>c, <2>1, <2>4 DEF Nodes
<1>4. CASE ConfirmAsks \/ NodeRaises
  <2>1. at \in Nodes /\ at' \notin Nodes
    BY <1>4 DEF ConfirmAsks, NodeRaises, Nodes
  <2>2. StepsLeft > 0
    BY <1>e, <2>1 DEF StepsLeft, Nodes
  <2> QED
    BY <1>a, <1>c, <2>1, <2>2
<1>5. CASE Process
  <2>1. /\ at = "sysml_processing" /\ at' = "middle_supervisor"
        /\ task_target' = task_target
        /\ target_fulfilled' = TargetFulfilled(task_target, input)
    BY <1>5 DEF Process, Concluded
  <2>2. task_target # NoTarget
    BY <2>1 DEF Locked, Ended
  <2>3. StepsLeft = 1 + AfterProcessing
        /\ StepsLeft' = IF target_fulfilled' THEN 1 ELSE 6
    BY <2>1, <2>2 DEF StepsLeft
  <2>4. StepsLeft' < StepsLeft
    BY <2>1, <2>3 DEF AfterProcessing, OnTarget
  <2> QED
    BY <1>c, <2>1, <2>4 DEF Nodes
<1>6. CASE Reply
  <2>1. at = "asking"
    BY <1>6 DEF Reply, ConfirmPivot, ConfirmLevelSource, ConfirmDiagramTargets,
                ConfirmTarget, Confirmed, Modify, Cancel, Answered
  <2> QED
    BY <1>d, <2>1
<1>7. CASE DeleteSession
  <2>1. UNCHANGED <<at, task, resolved_intent, requested_level, input>>
    BY <1>7 DEF DeleteSession, resolution
  <2> QED
    BY <2>1 DEF Run!vars, Phase, StepsLeft, AfterProcessing, OnTarget, task
<1>8. CASE UNCHANGED vars
  BY <1>8 DEF vars, task, resolution, Run!vars, Phase, StepsLeft, AfterProcessing, OnTarget
<1> QED
  BY <1>1, <1>2, <1>3, <1>4, <1>5, <1>6, <1>7, <1>8 DEF Next, Work

(***************************************************************************)
(* Between two replies of the user Layer 2 takes at most 12 supersteps,    *)
(* however high sysml_middle_max_visits is: a processing that was not for  *)
(* the locked target is followed by one that is.  LangGraph stops the run  *)
(* after 25, so neither limit is what ends a run the user does not prolong *)
(* by changing the request.                                                *)
(***************************************************************************)
THEOREM SuperstepsBounded == Spec => Run!Spec
<1>1. Init => Locked
  BY DEF Init, Locked
<1>2. Locked /\ [Next]_vars => Locked'
  BY LockedStep
<1>3. StepsInRange
  BY StepsLeftBounded
<1>4. TypeOK /\ Locked /\ StepsInRange /\ StepsInRange' /\ [Next]_vars
      => [Run!Next]_(Run!vars)
  BY StepsStep
<1>5. Init => Run!Init
  BY StepsInit
<1> QED
  BY <1>1, <1>2, <1>3, <1>4, <1>5, TypeCorrect, PTL DEF Spec, Run!Spec

-----------------------------------------------------------------------------
(* Layer 3 in its place: module Delegation.                                *)

Layer3_proofs ==
    INSTANCE Processing_proofs WITH MaxVisits <- ProcMaxVisits, at <- at3, intent <- intent3

\* The steps the lemmas of Processing_proofs are about are those of Delegation.
LEMMA SameStep == Layer3!Next => Layer3_proofs!Next
<1> USE DEF Layer3!history, Layer3_proofs!history, Layer3!Nodes, Layer3_proofs!Nodes
<1>1. Layer3!Supervise => Layer3_proofs!Supervise
  BY DEF Layer3!Supervise, Layer3_proofs!Supervise, Layer3!RouteFromSupervisor,
         Layer3_proofs!RouteFromSupervisor, Layer3!Intents, Layer3_proofs!Intents,
         Layer3!Kinds, Layer3_proofs!Kinds
<1>2. Layer3!Plan => Layer3_proofs!Plan
  BY DEF Layer3!Plan, Layer3_proofs!Plan, Layer3!PlanRaises, Layer3_proofs!PlanRaises,
         Layer3!KindOf, Layer3_proofs!KindOf
<1>3. Layer3!Generate => Layer3_proofs!Generate
  BY DEF Layer3!Generate, Layer3_proofs!Generate, Layer3!AfterGenerate,
         Layer3_proofs!AfterGenerate
<1>4. Layer3!Verify => Layer3_proofs!Verify
  BY DEF Layer3!Verify, Layer3_proofs!Verify, Layer3!Warn, Layer3_proofs!Warn,
         Layer3!LimitReached, Layer3_proofs!LimitReached,
         Layer3!RouteFromVerify, Layer3_proofs!RouteFromVerify
<1>5. Layer3!ReviewAsks => Layer3_proofs!ReviewAsks
  BY DEF Layer3!ReviewAsks, Layer3_proofs!ReviewAsks
<1>6. Layer3!ContextualAnswer => Layer3_proofs!ContextualAnswer
  BY DEF Layer3!ContextualAnswer, Layer3_proofs!ContextualAnswer
<1>7. Layer3!NodeRaises => Layer3_proofs!NodeRaises
  BY DEF Layer3!NodeRaises, Layer3_proofs!NodeRaises
<1>8. Layer3!AnsweredAgain => Layer3_proofs!AnsweredAgain
  BY DEF Layer3!AnsweredAgain, Layer3_proofs!AnsweredAgain
<1>9. (Layer3!Finalize => Layer3_proofs!Finalize)
      /\ (Layer3!FinalizeCrash => Layer3_proofs!FinalizeCrash)
  BY DEF Layer3!Finalize, Layer3_proofs!Finalize, Layer3!FinalizeCrash,
         Layer3_proofs!FinalizeCrash, Layer3!FinalizeRaises, Layer3_proofs!FinalizeRaises,
         Layer3!NoDraft, Layer3_proofs!NoDraft, Layer3!Row, Layer3_proofs!Row,
         Layer3!AfterFinalize, Layer3_proofs!AfterFinalize
<1>10. ASSUME NEW reply, Layer3!Reviewed(reply) PROVE Layer3_proofs!Reviewed(reply)
  BY <1>10 DEF Layer3!Reviewed, Layer3_proofs!Reviewed, Layer3!RouteFromReview,
         Layer3_proofs!RouteFromReview
<1> QED
  BY <1>1, <1>2, <1>3, <1>4, <1>5, <1>6, <1>7, <1>8, <1>9, <1>10
     DEF Layer3!Next, Layer3_proofs!Next, Layer3!Work, Layer3_proofs!Work,
         Layer3!Replies, Layer3_proofs!Replies

\* What Processing_proofs keeps of one processing.
Layer3Inv ==
    /\ Layer3_proofs!StoreInv
    /\ Layer3_proofs!RoundBounded
    /\ Layer3_proofs!Fresh /\ Layer3_proofs!Verified /\ Layer3_proofs!Judged
    /\ Layer3_proofs!Derived /\ Layer3_proofs!RowsDerived

\* A step of Layer 3, or of a node beside it, keeps that.
LEMMA Layer3Step == Layer3Inv /\ [Layer3!Next]_layer3 => Layer3Inv'
<1> SUFFICES ASSUME Layer3Inv, [Layer3!Next]_layer3 PROVE Layer3Inv'
  OBVIOUS
<1>1. Layer3_proofs!TypeOK /\ [Layer3_proofs!Next]_(Layer3_proofs!vars)
  BY SameStep DEF Layer3Inv, Layer3_proofs!StoreInv, layer3, kept, history3,
                  Layer3_proofs!vars, Layer3_proofs!history
<1>2. Layer3_proofs!StoreInv'
  BY <1>1, ProcLimitsAreNat, Layer3_proofs!StoreStep DEF Layer3Inv
<1>3. Layer3_proofs!RoundBounded'
  BY <1>1, ProcLimitsAreNat, Layer3_proofs!RoundsStep DEF Layer3Inv
<1>4. Layer3_proofs!Fresh' /\ Layer3_proofs!Verified' /\ Layer3_proofs!Judged'
  BY <1>1, ProcLimitsAreNat, Layer3_proofs!VerdictStep DEF Layer3Inv
<1>5. Layer3_proofs!Derived' /\ Layer3_proofs!RowsDerived'
  BY <1>1, ProcLimitsAreNat, Layer3_proofs!DerivedStep, Layer3_proofs!RowsDerivedStep
     DEF Layer3Inv
<1> QED
  BY <1>2, <1>3, <1>4, <1>5 DEF Layer3Inv

\* A processing on a thread of its own starts as module Processing does.
LEMMA Layer3Start ==
    ASSUME Enter, processing_counter # thread,
           rows = << >>, checked = 0, approved = {}, plans = 0, failures = 0
    PROVE  Layer3Inv'
<1>1. /\ at3' = "sysml_supervisor" /\ target' \in {"none", "found", "missing"}
      /\ intent3' = "none" /\ source_node' = "none" /\ draft' = 0 /\ mermaid' = 0
      /\ clean' = FALSE /\ verify_visits' = 0 /\ verify_warning' = FALSE
      /\ rows' = << >> /\ checked' = 0 /\ approved' = {} /\ plans' = 0 /\ failures' = 0
  BY DEF Enter, TargetFound, history3, Layer3!NoDraft
<1>2. << >> \in Seq(Layer3_proofs!Artifacts) /\ DOMAIN << >> = {}
  OBVIOUS
<1>3. Layer3_proofs!TypeOK'
  BY <1>1, <1>2 DEF Layer3_proofs!TypeOK, Layer3_proofs!Nodes, Layer3_proofs!Intents,
                    Layer3_proofs!Kinds, Layer3_proofs!Drafts
<1>4. Layer3_proofs!StoreInv'
  BY <1>1, <1>2, <1>3 DEF Layer3_proofs!StoreInv, Layer3_proofs!Consented,
     Layer3_proofs!Anchored, Layer3_proofs!Stored, Layer3_proofs!StoresOnce,
     Layer3_proofs!NoDraft
<1>5. Layer3_proofs!RoundBounded'
  BY <1>1, ProcLimitsAreNat DEF Layer3_proofs!RoundBounded, Layer3_proofs!NoDraft
<1>6. Layer3_proofs!Fresh' /\ Layer3_proofs!Verified' /\ Layer3_proofs!Judged'
  BY <1>1 DEF Layer3_proofs!Fresh, Layer3_proofs!Verified, Layer3_proofs!Judged,
              Layer3_proofs!NoDraft
<1>7. Layer3_proofs!Derived' /\ Layer3_proofs!RowsDerived'
  BY <1>1, <1>2 DEF Layer3_proofs!Derived, Layer3_proofs!RowsDerived
<1> QED
  BY <1>4, <1>5, <1>6, <1>7 DEF Layer3Inv

\* The node is entered once for each count; while Layer 3 works, it works for the
\* input the node has, and what it stores is within the bound.
Inside ==
    inside =>
        /\ at = "sysml_processing"
        /\ thread = processing_counter
        /\ Layer3Inv
        /\ exists => target = TargetFound
        /\ rows # << >> => Len(artifacts) + Len(rows) <= MaxArtifacts

Outside ==
    ~inside =>
        /\ rows = << >> /\ checked = 0 /\ approved = {} /\ plans = 0 /\ failures = 0
        /\ at \notin Ended => thread = last.id

DInv == CountInv /\ Inside /\ Outside

\* The task starts outside Layer 3, with no thread opened.
LEMMA DInvInit == DInit => DInv
<1> SUFFICES ASSUME DInit PROVE DInv
  OBVIOUS
<1>1. Init
  BY DEF DInit
<1>2. CountInv
  BY <1>1, TypeInit DEF Init, CountInv, Settled, Counted, Questioned, NotPending
<1>3. Inside /\ Outside
  BY <1>1 DEF DInit, Inside, Outside, Init, Layer3!Init, Layer3!NoDraft
<1> QED
  BY <1>2, <1>3 DEF DInv

\* Where Layer 3 is not at work, a step of Layer 2 neither processes nor revives
\* a task that is over.
LEMMA ElsewhereKeeps ==
    ASSUME Elsewhere
    PROVE  last' = last /\ at \notin Ended
<1>1. CASE Supervisor
  BY <1>1 DEF Supervisor, SupervisorStops, SupervisorCompletes, SupervisorFindsNothing,
     SupervisorResumes, SupervisorKnowsTarget, SupervisorAsksTarget,
     SupervisorTakesRequest, Visit, Finish, Proceed, Judge, Lock, Ended, task, session
<1>2. CASE ValidateRefuses \/ ValidateAccepts \/ ResolveSettled \/ ResolveAsks
           \/ ConfirmAsks \/ Build \/ NodeRaises
  BY <1>2 DEF ValidateRefuses, ValidateAccepts, ResolveSettled, ResolveAsks, Ask, Resolve,
     ConfirmAsks, Build, NodeRaises, Nodes, Ended, resolution, task, session
<1>3. CASE Reply
  BY <1>3 DEF Reply, ConfirmPivot, ConfirmLevelSource, ConfirmDiagramTargets,
     ConfirmTarget, Confirmed, Modify, Cancel, Answered, Ended, task, session
<1>4. ~Process
  BY DEF Elsewhere, Process
<1> QED
  BY <1>1, <1>2, <1>3, <1>4 DEF Elsewhere, Work

\* What Layer 3 stored, if anything, is one kind of artifact that Layer 2 may get
\* for the requirements it gave.
LEMMA ReturnIsProcess ==
    ASSUME CountInv, Inside, Return
    PROVE  Process
<1>1. /\ at = "sysml_processing" /\ Layer3Inv /\ Concluded
      /\ exists => target = TargetFound
      /\ rows # << >> => Len(artifacts) + Len(rows) <= MaxArtifacts
  BY DEF Inside, Return
<1>2. PICK level \in Levels : artifacts' = artifacts \o Stored(level)
  BY DEF Return
<1>3. artifacts \in Seq(Kinds) /\ Len(artifacts) \in Nat
  BY DEF CountInv, TypeOK
<1>4. rows \in Seq(Layer3_proofs!Artifacts)
  BY <1>1 DEF Layer3Inv, Layer3_proofs!StoreInv, Layer3_proofs!TypeOK
<1>5. CASE ~exists \/ rows = << >>
  <2>1. Stored(level) = << >>
    BY <1>5 DEF Stored
  <2>2. Processed("nothing")
    BY <1>2, <1>3, <2>1 DEF Processed
  <2> QED
    BY <1>1, <2>2 DEF Process
<1>6. CASE exists /\ rows # << >>
  <2> DEFINE stores == IF source_node = "diagram" THEN "diagram" ELSE level
             n == Len(rows)
  <2>1. n \in Nat /\ n > 0 /\ DOMAIN rows = 1..n
    BY <1>4, <1>6
  <2>2. \A k \in DOMAIN rows :
          /\ rows[k].type = (IF source_node = "diagram" THEN "diagram" ELSE "requirement")
          /\ target = "found" \/ (target = "none" /\ rows[k].type = "requirement")
    BY <1>1 DEF Layer3Inv, Layer3_proofs!StoreInv, Layer3_proofs!Stored
  <2>3. Stored(level) = [i \in 1..n |-> stores]
    BY <1>6, <2>1, <2>2 DEF Stored
  <2>4. target = "found" \/ (target = "none" /\ source_node # "diagram")
    BY <2>1, <2>2
  <2>5. Given \subseteq Requirements /\ (source_node = "diagram" => Given # {})
    BY <1>1, <1>6, <2>4 DEF TargetFound
  <2>6. stores \in Kinds /\ stores # "nothing" /\ (stores = "diagram" => source_node = "diagram")
    BY DEF Kinds, Levels
  <2>7. n \in 1..MaxArtifacts - Len(artifacts)
    BY <1>1, <1>3, <1>6, <2>1, LimitsAreNat
  <2>8. Processed(stores)
    BY <1>2, <1>6, <2>3, <2>5, <2>6, <2>7 DEF Processed
  <2> QED
    BY <1>1, <2>6, <2>8 DEF Process
<1> QED
  BY <1>5, <1>6

\* Each step of the two layers is one of module Middle or leaves its state alone.
LEMMA DelegationSimulates == DInv /\ [DNext]_layers => [Next]_vars
<1> SUFFICES ASSUME DInv, [DNext]_layers PROVE [Next]_vars
  OBVIOUS
<1>1. CASE Elsewhere
  BY <1>1 DEF Elsewhere, Next
<1>2. CASE Deleted
  BY <1>2 DEF Deleted, Next
<1>3. CASE Enter \/ ProcessingStep \/ UNCHANGED layers
  BY <1>3 DEF Enter, ProcessingStep, layers
<1>4. CASE Return
  BY <1>4, ReturnIsProcess DEF DInv, Next, Work
<1>5. CASE ProcessingRaises
  BY <1>5 DEF ProcessingRaises, Next, Work
<1> QED
  BY <1>1, <1>2, <1>3, <1>4, <1>5 DEF DNext

\* Entering opens a new thread, Layer 3 keeps its own, and leaving forgets.
LEMMA DInvStep == DInv /\ [DNext]_layers => DInv'
<1> SUFFICES ASSUME DInv, [DNext]_layers PROVE DInv'
  OBVIOUS
<1>1. CountInv'
  BY DelegationSimulates, TypeStep, SettledStep, CountedStep DEF DInv, CountInv
<1>2. CASE Elsewhere
  <2>1. ~inside /\ UNCHANGED <<inside, thread, layer3>>
    BY <1>2 DEF Elsewhere, DInv, Inside
  <2> QED
    BY <1>1, <1>2, <2>1, ElsewhereKeeps DEF DInv, Inside, Outside, layer3, history3
<1>3. CASE Deleted
  <2>1. /\ UNCHANGED <<inside, thread, layer3, at, artifacts, processing_counter, last>>
        /\ exists' = FALSE
    BY <1>3 DEF Deleted, DeleteSession
  <2>2. Layer3Inv => Layer3Inv'
    BY <2>1, Layer3Step
  <2> QED
    BY <1>1, <2>1, <2>2 DEF DInv, Inside, Outside, layer3, history3
<1>4. CASE Enter
  <2>1. /\ ~inside /\ inside' /\ exists /\ at = "sysml_processing"
        /\ UNCHANGED <<vars, rows>> /\ thread' = processing_counter /\ target' = TargetFound
        /\ rows = << >> /\ checked = 0 /\ approved = {} /\ plans = 0 /\ failures = 0
    BY <1>4 DEF Enter, history3, DInv, Outside
  <2>2. processing_counter # thread
    BY <2>1 DEF DInv, Outside, CountInv, Counted, TypeOK, Ended
  <2>3. Layer3Inv'
    BY <1>4, <2>1, <2>2, Layer3Start
  <2>4. TargetFound' = TargetFound /\ at' = at /\ processing_counter' = processing_counter
    BY <2>1 DEF TargetFound, Given, Requirements, vars, session
  <2> QED
    BY <1>1, <2>1, <2>3, <2>4 DEF DInv, Inside, Outside
<1>5. CASE ProcessingStep
  <2>1. /\ inside /\ inside' = inside /\ UNCHANGED <<vars, thread>>
        /\ rows' # rows => Len(artifacts) + Len(rows') <= MaxArtifacts
    BY <1>5 DEF ProcessingStep
  <2>2. Layer3Inv'
    BY <1>5, <2>1, Layer3Step DEF ProcessingStep, DInv, Inside
  <2>3. /\ TargetFound' = TargetFound /\ exists' = exists /\ at' = at
        /\ processing_counter' = processing_counter /\ artifacts' = artifacts
    BY <2>1 DEF TargetFound, Given, Requirements, vars, session
  <2>4. target' = target
    BY <1>5 DEF ProcessingStep, Layer3!Next, Layer3!Work, Layer3!Supervise, Layer3!Plan,
       Layer3!Generate, Layer3!Verify, Layer3!ReviewAsks, Layer3!ContextualAnswer,
       Layer3!Finalize, Layer3!NodeRaises, Layer3!Reviewed, Layer3!FinalizeCrash,
       Layer3!AnsweredAgain
  <2> QED
    BY <1>1, <2>1, <2>2, <2>3, <2>4 DEF DInv, Inside, Outside
<1>6. CASE Return
  <2>1. /\ inside /\ ~inside' /\ Forget /\ thread' = thread
        /\ last'.id = processing_counter
    BY <1>6 DEF Return, Concluded
  <2> QED
    BY <1>1, <2>1 DEF DInv, Inside, Outside, Forget, Layer3!NoDraft
<1>7. CASE ProcessingRaises
  <2>1. ~inside' /\ Forget /\ at' \in Ended
    BY <1>7 DEF ProcessingRaises, NodeRaises, Ended
  <2> QED
    BY <1>1, <2>1 DEF DInv, Inside, Outside, Forget, Layer3!NoDraft
<1>8. CASE UNCHANGED layers
  <2>1. UNCHANGED <<vars, inside, thread, layer3>>
    BY <1>8 DEF layers
  <2>2. /\ TargetFound' = TargetFound /\ exists' = exists /\ at' = at /\ last' = last
        /\ processing_counter' = processing_counter /\ artifacts' = artifacts
    BY <2>1 DEF TargetFound, Given, Requirements, vars, session
  <2>3. Layer3Inv => Layer3Inv'
    BY <2>1, Layer3Step
  <2> QED
    BY <1>1, <2>1, <2>2, <2>3 DEF DInv, Inside, Outside, layer3, history3
<1> QED
  BY <1>2, <1>3, <1>4, <1>5, <1>6, <1>7, <1>8 DEF DNext

(***************************************************************************)
(* Whatever Layer 3 generates, asks, loses and stores inside               *)
(* sysml_processing (agents/sysml/middle_nodes.py:620-708), Layer 2 with   *)
(* it behaves as module Middle, where a processing is one step: what is    *)
(* proved of Middle holds of the two layers together.                      *)
(***************************************************************************)
THEOREM DelegationImplements == DSpec => Spec
<1>1. DInit => Init
  BY DEF DInit
<1> QED
  BY <1>1, DInvInit, DInvStep, DelegationSimulates, PTL DEF DSpec, Spec

(***************************************************************************)
(* What a review shows and what finalize stores was generated in this      *)
(* processing, for what it was given: each processing has a thread id of   *)
(* its own (agents/sysml/middle_nodes.py:622-628).                         *)
(***************************************************************************)
THEOREM OwnWork == DSpec => []WorkIsOwn
<1>1. DInv => WorkIsOwn
  <2> SUFFICES ASSUME DInv, inside PROVE WorkIsOwn
    BY DEF WorkIsOwn
  <2>1. Layer3Inv /\ (exists => target = TargetFound)
    BY DEF DInv, Inside
  <2>2. draft # 0 => plans > 0
    BY <2>1 DEF Layer3Inv, Layer3_proofs!StoreInv, Layer3_proofs!TypeOK,
                Layer3_proofs!RoundBounded, Layer3_proofs!NoDraft
  <2>3. Layer3!OnlyApprovedIsStored
    BY <2>1 DEF Layer3Inv, Layer3_proofs!StoreInv, Layer3_proofs!Stored,
                Layer3!OnlyApprovedIsStored
  <2> QED
    BY <2>1, <2>2, <2>3 DEF WorkIsOwn, Layer3!NoDraft
<1> QED
  BY <1>1, DInvInit, DInvStep, PTL DEF DSpec

(***************************************************************************)
(* What module Processing promises of one processing holds of every one of *)
(* a task: the review shows a draft with its own verdict and, if clean,    *)
(* its own Mermaid text, and without a crash one artifact at most is       *)
(* stored (agents/sysml/nodes.py).                                         *)
(***************************************************************************)
THEOREM EveryProcessingSound ==
    DSpec => [](inside => /\ Layer3!VerdictIsAboutDraft /\ Layer3!CleanShowsOwnMermaid
                          /\ Layer3!StoresOnce)
<1> DEFINE Sound == inside => /\ Layer3!VerdictIsAboutDraft /\ Layer3!CleanShowsOwnMermaid
                              /\ Layer3!StoresOnce
<1>1. DInv => Sound
  <2> SUFFICES ASSUME Layer3Inv
               PROVE  /\ Layer3!VerdictIsAboutDraft /\ Layer3!CleanShowsOwnMermaid
                      /\ Layer3!StoresOnce
    BY DEF DInv, Inside
  <2>1. Layer3!VerdictIsAboutDraft
    BY DEF Layer3Inv, Layer3_proofs!Verified, Layer3_proofs!Judged,
           Layer3!VerdictIsAboutDraft, Layer3!NoDraft, Layer3_proofs!NoDraft
  <2>2. Layer3!CleanShowsOwnMermaid
    BY DEF Layer3Inv, Layer3_proofs!Judged, Layer3_proofs!Derived,
           Layer3_proofs!RowsDerived, Layer3!CleanShowsOwnMermaid, Layer3!NoDraft,
           Layer3_proofs!NoDraft
  <2>3. Layer3!StoresOnce
    BY DEF Layer3Inv, Layer3_proofs!StoreInv, Layer3_proofs!StoresOnce, Layer3!StoresOnce
  <2> QED
    BY <2>1, <2>2, <2>3
<1> QED
  BY <1>1, DInvInit, DInvStep, PTL DEF DSpec
=============================================================================
