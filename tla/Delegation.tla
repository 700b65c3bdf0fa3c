----------------------------- MODULE Delegation -----------------------------
(***************************************************************************)
(* Layer 2 with Layer 3 inside its node sysml_processing: one delegated    *)
(* task down to the rows it stores.  The node opens a Layer-3 thread named *)
(* by the counter of the processing.  It is left by the return of the      *)
(* Layer-3 graph or by an exception; a question of Layer 3 suspends both,  *)
(* and the reply runs the node again from its top.                         *)
(*                                                                         *)
(* Layer 2 is module Middle but for its one-step processing, Layer 3 is    *)
(* module Processing.                                                      *)
(***************************************************************************)
EXTENDS Middle

CONSTANTS
    ProcMaxVisits,  \* sysml_proc_max_visits
    MaxPlans,       \* bound: regenerations within a processing, plus one
    MaxFailures     \* bound: crashes within a processing

ASSUME ProcLimitsAreNat == /\ ProcMaxVisits \in Nat \ {0}
                           /\ MaxPlans \in Nat
                           /\ MaxFailures \in Nat

VARIABLES
    inside,         \* the node has entered Layer 3 and not left it
    thread,         \* the processing whose thread was opened last, 0 before any
    \* The state of that thread, as in module Processing; at3 and intent3 are its
    \* at and intent.
    at3, target, intent3, source_node, draft, mermaid, clean, verify_visits, verify_warning,
    rows, checked, approved, plans, failures

Layer3 == INSTANCE Processing WITH MaxVisits <- ProcMaxVisits, at <- at3, intent <- intent3

history3 == <<rows, checked, approved, plans, failures>>
kept     == <<source_node, draft, mermaid, clean, verify_visits, verify_warning>>
layer3   == <<at3, target, intent3, kept, history3>>
layers   == <<vars, inside, thread, layer3>>

DInit ==
    /\ Init
    /\ inside = FALSE
    /\ thread = 0
    /\ Layer3!Init /\ target = "none"

-----------------------------------------------------------------------------
(* The node sysml_processing.                                              *)

TargetFound ==
    IF Given = {} THEN "none" ELSE IF Given \subseteq Requirements THEN "found" ELSE "missing"

\* The node touches the thread, which fails without its session, and invokes the
\* graph from START.  A thread opened before keeps what it has but the input.
Enter ==
    /\ at = "sysml_processing"
    /\ ~inside
    /\ exists
    /\ inside' = TRUE
    /\ thread' = processing_counter
    /\ at3' = "sysml_supervisor"
    /\ target' = TargetFound
    /\ IF processing_counter = thread
       THEN UNCHANGED <<intent3, kept>>
       ELSE /\ intent3' = "none" /\ source_node' = "none"
            /\ draft' = Layer3!NoDraft /\ mermaid' = Layer3!NoDraft
            /\ clean' = FALSE /\ verify_visits' = 0 /\ verify_warning' = FALSE
    /\ UNCHANGED <<vars, history3>>

\* plan_node looks up a single target, once in a processing.
LooksUp == at3 = "plan_node" /\ plans = 0 /\ target = "found" /\ Cardinality(input.targets) <= 1

\* The steps that touch the session's rows and the thread's: the reply, which
\* runs the node again, the look-up and the insertion.
NeedsSession == at3 \in {"asking", "lost"} \/ LooksUp \/ rows' # rows

ProcessingStep ==
    /\ inside
    /\ Layer3!Next
    /\ at3' # "raised" /\ NeedsSession => exists
    /\ rows' # rows => Len(artifacts) + Len(rows') <= MaxArtifacts
    /\ UNCHANGED <<vars, inside, thread>>

\* What finalize stored, while there is a session that has it.  The level is
\* Layer 3's own.
Stored(level) ==
    IF exists
    THEN [k \in DOMAIN rows |-> IF rows[k].type = "diagram" THEN "diagram" ELSE level]
    ELSE << >>

\* The history of a processing ends with it.
Forget ==
    /\ rows' = << >> /\ checked' = Layer3!NoDraft /\ approved' = {}
    /\ plans' = 0 /\ failures' = 0

Return ==
    /\ inside
    /\ at3 = "END"
    /\ \E level \in Levels : artifacts' = artifacts \o Stored(level)
    /\ Concluded
    /\ inside' = FALSE
    /\ Forget
    /\ UNCHANGED <<thread, at3, target, intent3, kept>>

\* An exception of Layer 3, or of the node before it has entered Layer 3 or
\* as a reply runs it again.
ProcessingRaises ==
    /\ at = "sysml_processing"
    /\ inside => at3 \in {"raised", "asking", "lost"}
    /\ NodeRaises
    /\ inside' = FALSE
    /\ Forget
    /\ UNCHANGED <<thread, at3, target, intent3, kept>>

-----------------------------------------------------------------------------

Elsewhere ==
    /\ at # "sysml_processing"
    /\ Work \/ Reply
    /\ UNCHANGED <<inside, thread, layer3>>

Deleted == DeleteSession /\ UNCHANGED <<inside, thread, layer3>>

DNext == Elsewhere \/ Deleted \/ Enter \/ ProcessingStep \/ Return \/ ProcessingRaises

DSpec == DInit /\ [][DNext]_layers

-----------------------------------------------------------------------------
(* Properties.                                                             *)

\* However long Layer 3 works and asks, whatever it loses and whether its session
\* is deleted meanwhile, Layer 2 sees it as the one step of module Middle.
ImplementsMiddle == Spec

\* What a review shows and what is stored was generated in this processing, for
\* the target this processing was given, and approved in it: nothing of a
\* processing before it comes back (agents/sysml/middle_nodes.py:622-628).
WorkIsOwn ==
    inside =>
        /\ at3 \in {"asking", "finalize"} /\ draft # Layer3!NoDraft => plans > 0
        /\ exists => target = TargetFound
        /\ Layer3!OnlyApprovedIsStored
=============================================================================
