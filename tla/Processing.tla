----------------------------- MODULE Processing -----------------------------
(***************************************************************************)
(* The Layer-3 graph: one processing of one SysML artifact, from the       *)
(* supervisor's verdict through plan, generate and verify to the user's    *)
(* review and the row finalize writes.  One action is one superstep.       *)
(*                                                                         *)
(* A draft is the number of the generate_node call that wrote it, so what  *)
(* the verdict, the Mermaid text and the stored row were made from can be  *)
(* compared.  LLM answers, the language server's diagnostics and the       *)
(* user's replies are nondeterministic.                                    *)
(***************************************************************************)
EXTENDS Naturals, Sequences

CONSTANTS
    MaxVisits,      \* sysml_proc_max_visits
    MaxPlans,       \* bound: how often the user may ask for regeneration, plus one
    MaxFailures     \* bound: crashes between finalize's commit and its checkpoint

ASSUME LimitsAreNat == /\ MaxVisits \in Nat \ {0}
                       /\ MaxPlans \in Nat
                       /\ MaxFailures \in Nat

VARIABLES
    at,             \* the node that runs next, "asking", or how the run ended
    target,         \* target_requirement_id: "none", "found" or "missing" in the session
                    \* (several ids were offered by the session, so they are found)
    intent,         \* the supervisor's verdict, or "none"
    source_node,    \* what plan_node decided to generate, or "none"
    draft,          \* draft_sysml, or NoDraft
    mermaid,        \* the draft draft_mermaid was derived from, or NoDraft
    clean,          \* verify_clean
    verify_visits,
    verify_warning, \* whether one is set
    rows,           \* the artifacts committed by this processing
    \* History.
    checked,        \* the draft the diagnostics are about
    approved,       \* the drafts the user approved
    plans,          \* plan_node runs
    failures

history == <<checked, approved, plans, failures>>
vars == <<at, target, intent, source_node, draft, mermaid, clean, verify_visits,
          verify_warning, rows, history>>

NoDraft  == 0
Drafts   == Nat
Nodes    == {"sysml_supervisor", "plan_node", "generate_node", "verify_node",
             "requirement_review", "contextual_answer", "finalize"}
Ended    == {"END", "raised", "lost"}
\* generate and modify share every path.
Intents  == {"requirement", "diagram", "conversation", "other"}
Kinds    == {"requirement", "diagram"}
Artifacts == [type : Kinds, draft : Drafts, mermaid : Drafts]

TypeOK ==
    /\ at \in Nodes \cup Ended \cup {"asking"}
    /\ target \in {"none", "found", "missing"}
    /\ intent \in Intents \cup {"none"}
    /\ source_node \in Kinds \cup {"none"}
    /\ draft \in Drafts
    /\ mermaid \in Drafts
    /\ clean \in BOOLEAN
    /\ verify_visits \in Nat
    /\ verify_warning \in BOOLEAN
    /\ rows \in Seq(Artifacts)
    /\ checked \in Drafts
    /\ approved \in SUBSET Drafts
    /\ plans \in Nat
    /\ failures \in Nat

Init ==
    /\ at = "sysml_supervisor"
    /\ target \in {"none", "found", "missing"}
    /\ intent = "none"
    /\ source_node = "none"
    /\ draft = NoDraft
    /\ mermaid = NoDraft
    /\ clean = FALSE
    /\ verify_visits = 0
    /\ verify_warning = FALSE
    /\ rows = << >>
    /\ checked = NoDraft
    /\ approved = {}
    /\ plans = 0
    /\ failures = 0

-----------------------------------------------------------------------------
(* sysml_supervisor, plan_node, generate_node.                             *)

RouteFromSupervisor(i) ==
    IF i \in Kinds THEN "plan_node"
    ELSE IF i = "conversation" THEN "contextual_answer" ELSE "END"

Supervise ==
    /\ at = "sysml_supervisor"
    /\ \E i \in Intents : intent' = i /\ at' = RouteFromSupervisor(i)
    /\ UNCHANGED <<target, source_node, draft, mermaid, clean, verify_visits,
                   verify_warning, rows, history>>

KindOf(i) == IF i = "diagram" THEN "diagram" ELSE "requirement"

\* Mutant of PlanRaises: the target of a diagram is not asked for.
PlanRaisesIfMissing == target = "missing"

\* A target that is not in the session, or a diagram without one.
PlanRaises == target = "missing" \/ (intent = "diagram" /\ target = "none")

Plan ==
    /\ at = "plan_node"
    /\ ~PlanRaises
    /\ source_node' = KindOf(intent)
    /\ verify_visits' = 0
    /\ verify_warning' = FALSE
    /\ plans' = plans + 1
    /\ at' = "generate_node"
    /\ UNCHANGED <<target, intent, draft, mermaid, clean, rows, checked, approved, failures>>

\* Mutant of AfterGenerate: the draft is not verified.
AfterGenerateUnverified == "requirement_review"
AfterGenerate == "verify_node"

\* Verdict, diagnostics and Mermaid text of the draft before stay in the state.
Generate ==
    /\ at = "generate_node"
    /\ draft' = draft + 1
    /\ verify_visits' = verify_visits + 1
    /\ at' = AfterGenerate
    /\ UNCHANGED <<target, intent, source_node, mermaid, clean, verify_warning, rows, history>>

-----------------------------------------------------------------------------
(* verify_node.                                                            *)

\* Mutant of LimitReached: off by one.
LimitPassed  == verify_visits > MaxVisits
LimitReached == verify_visits >= MaxVisits

\* Mutant of Warn: also for a clean draft at the limit.
WarnAtLimit(ok) == LimitReached
Warn(ok) == ~ok /\ LimitReached

\* Mutant of RouteFromVerify: no second attempt.
RouteToReview(ok) == "requirement_review"
RouteFromVerify(ok) == IF ok \/ LimitReached THEN "requirement_review" ELSE "generate_node"

\* Mermaid is derived for a diagram without diagnostics, and may fail: that is
\* a coverage gap.  Without it the old text stays.
Verify ==
    /\ at = "verify_node"
    /\ \E diagnosed, covered, derived \in BOOLEAN :
         LET derives == source_node = "diagram" /\ ~diagnosed
             ok      == ~diagnosed /\ covered /\ (derives => derived)
         IN  /\ mermaid' = IF derives /\ derived THEN draft ELSE mermaid
             /\ clean' = ok
             /\ verify_warning' = Warn(ok)
             /\ at' = RouteFromVerify(ok)
    /\ checked' = draft
    /\ UNCHANGED <<target, intent, source_node, draft, verify_visits, rows, approved,
                   plans, failures>>

-----------------------------------------------------------------------------
(* requirement_review and contextual_answer.                               *)

ReviewAsks ==
    /\ at = "requirement_review"
    /\ at' = "asking"
    /\ UNCHANGED <<target, intent, source_node, draft, mermaid, clean, verify_visits,
                   verify_warning, rows, history>>

Replies == {"approve", "regenerate", "question", "cancel"}

\* Mutant of RouteFromReview: the decision itself is taken for a node.
RouteUnchecked(reply) == IF reply = "approve" THEN "finalize" ELSE reply
RouteFromReview(reply) ==
    IF reply = "approve" THEN "finalize"
    ELSE IF reply = "regenerate" THEN "plan_node"
    ELSE IF reply = "question" THEN "contextual_answer" ELSE "END"

Reviewed(reply) ==
    /\ at = "asking"
    /\ reply = "regenerate" => plans < MaxPlans
    /\ approved' = IF reply = "approve" THEN approved \cup {draft} ELSE approved
    /\ at' = RouteFromReview(reply)
    /\ UNCHANGED <<target, intent, source_node, draft, mermaid, clean, verify_visits,
                   verify_warning, rows, checked, plans, failures>>

\* Reads only.
ContextualAnswer ==
    /\ at = "contextual_answer"
    /\ at' = "requirement_review"
    /\ UNCHANGED <<target, intent, source_node, draft, mermaid, clean, verify_visits,
                   verify_warning, rows, history>>

-----------------------------------------------------------------------------
(* finalize.                                                               *)

Row == [type  |-> IF source_node = "diagram" THEN "diagram" ELSE "requirement",
        draft |-> draft, mermaid |-> IF source_node = "diagram" THEN mermaid ELSE NoDraft]

\* Mutant of AfterFinalize: the edge leads back to the review.
AfterFinalizeReview == "requirement_review"
AfterFinalize == "END"

\* A review entered from a conversation has no draft: the key is missing.
FinalizeRaises == draft = NoDraft

Finalize ==
    /\ at = "finalize"
    /\ ~FinalizeRaises
    /\ rows' = Append(rows, Row)
    /\ at' = AfterFinalize
    /\ UNCHANGED <<target, intent, source_node, draft, mermaid, clean, verify_visits,
                   verify_warning, history>>

\* The process dies after the commit and before the superstep is saved.
FinalizeCrash ==
    /\ at = "finalize"
    /\ ~FinalizeRaises
    /\ failures < MaxFailures
    /\ failures' = failures + 1
    /\ rows' = Append(rows, Row)
    /\ at' = "lost"
    /\ UNCHANGED <<target, intent, source_node, draft, mermaid, clean, verify_visits,
                   verify_warning, checked, approved, plans>>

\* The session still shows the review as pending.  Whatever the user now answers,
\* this graph resumes at the node its last checkpoint names.
AnsweredAgain ==
    /\ at = "lost"
    /\ at' = "finalize"
    /\ UNCHANGED <<target, intent, source_node, draft, mermaid, clean, verify_visits,
                   verify_warning, rows, history>>

\* A call to a model, a tool or the database raises; in plan_node and finalize
\* the code's own errors are among the reasons.  The review calls nothing.
NodeRaises ==
    /\ at \in Nodes \ {"requirement_review"}
    /\ at' = "raised"
    /\ UNCHANGED <<target, intent, source_node, draft, mermaid, clean, verify_visits,
                   verify_warning, rows, history>>

Work == \/ Supervise \/ Plan \/ Generate \/ Verify \/ ReviewAsks
        \/ ContextualAnswer \/ Finalize \/ NodeRaises

Next == \/ Work
        \/ \E reply \in Replies : Reviewed(reply)
        \/ FinalizeCrash
        \/ AnsweredAgain

Spec == Init /\ [][Next]_vars

\* The graph's runner executes the next node; nothing makes the user reply.
FairSpec == Spec /\ WF_vars(Work)

-----------------------------------------------------------------------------
(* Properties.                                                             *)

\* The verdict and the diagnostics a review shows are those of the draft it
\* shows, and either the draft is clean or the warning is there, through any
\* number of regenerations and questions.
VerdictIsAboutDraft ==
    at = "asking" => checked = draft /\ (draft # NoDraft => clean = ~verify_warning)

\* The Mermaid text of a diagram that is shown without a warning, or stored as
\* clean, was derived from that very draft; an earlier draft's, which verify_node
\* leaves in the state, comes with the warning (agents/sysml/nodes.py:252).
CleanShowsOwnMermaid ==
    /\ at = "asking" /\ source_node = "diagram" /\ draft # NoDraft /\ ~verify_warning
         => mermaid = draft
    /\ \A k \in DOMAIN rows :
         rows[k].type = "diagram" /\ clean => rows[k].mermaid = rows[k].draft

\* Nothing is stored that the user did not approve in exactly this version, nor
\* with a target that is not in the session, and a diagram always has one: what
\* Layer 2 takes for granted of the artifacts that come back (Middle!Processed).
OnlyApprovedIsStored ==
    \A k \in DOMAIN rows :
        /\ rows[k].draft \in approved
        /\ rows[k].draft = draft
        /\ target = "found" \/ (target = "none" /\ rows[k].type = "requirement")

\* Without a crash, one processing stores one artifact at most, however long the
\* review went on.
StoresOnce == failures = 0 => Len(rows) <= (IF at = "END" THEN 1 ELSE 0)

\* How many supersteps the run may still take before it asks or is over: every
\* draft left is two, and the way to the review's question one for each node.
StepsLeft ==
    LET rounds == 2 * (MaxVisits - verify_visits)
    IN  CASE at = "sysml_supervisor"   -> 2 * MaxVisits + 3
          [] at = "plan_node"          -> 2 * MaxVisits + 2
          [] at = "generate_node"      -> rounds + 1
          [] at = "verify_node"        -> rounds + 2
          [] at = "contextual_answer"  -> 2
          [] at \in {"requirement_review", "finalize"} -> 1
          [] OTHER -> 0

\* A lost run's question is still shown to the user.
Phase == IF at \in Nodes THEN "working"
         ELSE IF at \in {"asking", "lost"} THEN "asking" ELSE "over"

\* Between two replies a processing takes at most 2 * MaxVisits + 3 supersteps,
\* whatever is generated, diagnosed and asked, and every run ends: in a question
\* to the user, at END, or in an exception.
Run == INSTANCE GraphRun WITH Limit <- 2 * MaxVisits + 3, phase <- Phase, left <- StepsLeft

BoundedRun == Run!LiveSpec

\* data/models.py:142-143, agents/sysml/state.py:29: the Mermaid text is derived
\* from the SysML text it is shown with.
MermaidIsOfDraft == at = "asking" /\ mermaid # NoDraft => mermaid = draft
=============================================================================
