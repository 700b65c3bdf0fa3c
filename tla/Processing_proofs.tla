------------------------- MODULE Processing_proofs -------------------------
(***************************************************************************)
(* What the Layer-3 graph keeps, for every limit and every number of       *)
(* regenerations and crashes.                                              *)
(***************************************************************************)
EXTENDS Processing, TLAPS

Answering == \E reply \in Replies : Reviewed(reply)

-----------------------------------------------------------------------------
(* Type correctness.                                                       *)

LEMMA NoArtifacts == << >> \in Seq(Artifacts)
OBVIOUS

LEMMA TypeInit == Init => TypeOK
<1> SUFFICES ASSUME Init PROVE TypeOK
  OBVIOUS
<1>1. rows \in Seq(Artifacts) /\ approved \in SUBSET Drafts
  BY NoArtifacts DEF Init
<1> QED
  BY <1>1 DEF Init, TypeOK, NoDraft, Drafts, Nodes, Ended

LEMMA TypeStep == TypeOK /\ [Next]_vars => TypeOK'
<1> SUFFICES ASSUME TypeOK, [Next]_vars PROVE TypeOK'
  OBVIOUS
<1> USE LimitsAreNat DEF TypeOK, Nodes, Ended, Drafts, Kinds, Intents
<1>1. CASE Supervise
  <2>1. intent' \in Intents /\ at' \in Nodes \cup Ended
    BY <1>1 DEF Supervise, RouteFromSupervisor
  <2> QED
    BY <1>1, <2>1 DEF Supervise, history
<1>2. CASE Plan
  <2>1. source_node' \in Kinds
    BY <1>2 DEF Plan, KindOf
  <2>2. verify_visits' \in Nat /\ plans' \in Nat
    BY <1>2 DEF Plan
  <2>3. verify_warning' \in BOOLEAN /\ at' \in Nodes
    BY <1>2 DEF Plan
  <2> QED
    BY <1>2, <2>1, <2>2, <2>3 DEF Plan
<1>3. CASE Generate
  BY <1>3 DEF Generate, AfterGenerate, history
<1>4. CASE Verify
  <2>1. LimitReached \in BOOLEAN
    BY DEF LimitReached
  <2>2. mermaid' \in Drafts /\ checked' \in Drafts
    BY <1>4 DEF Verify
  <2>3. clean' \in BOOLEAN /\ verify_warning' \in BOOLEAN /\ at' \in Nodes
    BY <1>4, <2>1 DEF Verify, RouteFromVerify, Warn
  <2>4. UNCHANGED <<target, intent, source_node, draft, verify_visits, rows, approved,
                    plans, failures>>
    BY <1>4 DEF Verify
  <2> QED
    BY <2>2, <2>3, <2>4
<1>5. CASE ReviewAsks \/ ContextualAnswer \/ NodeRaises \/ AnsweredAgain
  BY <1>5 DEF ReviewAsks, ContextualAnswer, NodeRaises, AnsweredAgain, history
<1>6. CASE Answering
  <2>1. PICK reply \in Replies : Reviewed(reply)
    BY <1>6 DEF Answering
  <2>2. at' \in Nodes \cup Ended
    BY <2>1 DEF Reviewed, RouteFromReview
  <2>3. approved' \subseteq Drafts
    BY <2>1 DEF Reviewed
  <2>4. UNCHANGED <<target, intent, source_node, draft, mermaid, clean, verify_visits,
                    verify_warning, rows, checked, plans, failures>>
    BY <2>1 DEF Reviewed
  <2> QED
    BY <2>2, <2>3, <2>4
<1>7. CASE Finalize \/ FinalizeCrash
  <2>1. Row \in Artifacts
    BY DEF Row, NoDraft, Artifacts
  <2>2. rows' \in Seq(Artifacts)
    <3>1. rows' = Append(rows, Row)
      BY <1>7 DEF Finalize, FinalizeCrash
    <3> QED
      BY <2>1, <3>1
  <2>3. at' \in Ended /\ failures' \in Nat
    BY <1>7 DEF Finalize, FinalizeCrash, AfterFinalize, history
  <2>4. UNCHANGED <<target, intent, source_node, draft, mermaid, clean, verify_visits,
                    verify_warning, checked, approved, plans>>
    BY <1>7 DEF Finalize, FinalizeCrash, history
  <2> QED
    BY <2>2, <2>3, <2>4
<1>8. CASE UNCHANGED vars
  BY <1>8 DEF vars, history
<1> QED
  BY <1>1, <1>2, <1>3, <1>4, <1>5, <1>6, <1>7, <1>8 DEF Next, Work, Answering

(***************************************************************************)
(* Every variable of the Layer-3 state keeps its type: agents/sysml/       *)
(* state.py's SysmlState over the whole life of a processing.              *)
(***************************************************************************)
THEOREM TypeCorrect == Spec => []TypeOK
<1>1. Init => TypeOK
  BY TypeInit
<1>2. TypeOK /\ [Next]_vars => TypeOK'
  BY TypeStep
<1> QED
  BY <1>1, <1>2, PTL DEF Spec

-----------------------------------------------------------------------------
(* The verdict.                                                            *)

\* Only between generate_node and verify_node is the draft newer than the
\* diagnostics; a run that raised there stays there.
Verified == at \notin {"verify_node", "raised"} => checked = draft

\* The supervisor starts from nothing.
Fresh == at = "sysml_supervisor" => draft = NoDraft

\* A verdict that reached the review is kept until plan_node clears it.
Judged == at \in {"requirement_review", "asking", "contextual_answer"} /\ draft # NoDraft
            => clean = ~verify_warning

LEMMA VerdictStep ==
    TypeOK /\ Fresh /\ Verified /\ Judged /\ [Next]_vars
        => Fresh' /\ Verified' /\ Judged'
<1> SUFFICES ASSUME TypeOK, Fresh, Verified, Judged, [Next]_vars
             PROVE  Fresh' /\ Verified' /\ Judged'
  OBVIOUS
<1> USE DEF TypeOK, Fresh, Verified, Judged, Nodes, Ended
<1>1. CASE Supervise
  <2>1. at' \in {"plan_node", "contextual_answer", "END"}
    BY <1>1 DEF Supervise, RouteFromSupervisor
  <2>2. at = "sysml_supervisor" /\ checked' = checked /\ draft' = draft
    BY <1>1 DEF Supervise, history
  <2> QED
    BY <1>1, <2>1, <2>2 DEF Supervise, NoDraft
<1>2. CASE Plan
  BY <1>2 DEF Plan
<1>3. CASE Generate
  BY <1>3 DEF Generate, AfterGenerate, history
<1>4. CASE Verify
  BY <1>4 DEF Verify, RouteFromVerify, Warn, LimitReached
<1>5. CASE ReviewAsks \/ ContextualAnswer \/ NodeRaises \/ AnsweredAgain
  BY <1>5 DEF ReviewAsks, ContextualAnswer, NodeRaises, AnsweredAgain, history
<1>6. CASE Answering
  BY <1>6 DEF Answering, Replies, Reviewed, RouteFromReview
<1>7. CASE Finalize \/ FinalizeCrash
  BY <1>7 DEF Finalize, FinalizeCrash, AfterFinalize, history
<1>8. CASE UNCHANGED vars
  BY <1>8 DEF vars, history
<1> QED
  BY <1>1, <1>2, <1>3, <1>4, <1>5, <1>6, <1>7, <1>8 DEF Next, Work, Answering

(***************************************************************************)
(* agents/sysml/nodes.py's requirement_review never shows a verdict, or    *)
(* diagnostics, of another draft than the one it asks about, and           *)
(* verify_node's warning is there exactly when that draft is not clean.    *)
(***************************************************************************)
THEOREM VerdictCorrect == Spec => []VerdictIsAboutDraft
<1> DEFINE I == TypeOK /\ Fresh /\ Verified /\ Judged
<1>1. Init => I
  BY TypeInit DEF Init, Fresh, Verified, Judged
<1>2. I /\ [Next]_vars => I'
  BY TypeStep, VerdictStep
<1>3. I => VerdictIsAboutDraft
  BY DEF Verified, Judged, VerdictIsAboutDraft
<1> QED
  BY <1>1, <1>2, <1>3, PTL DEF Spec

-----------------------------------------------------------------------------
(* What is stored.                                                         *)

\* Only an approval leads to finalize, and the draft does not change there.
Consented == at \in {"finalize", "lost"} => draft \in approved

\* plan_node has raised on a target that is not in the session, and on a diagram
\* without one; what it let through is generated from.
Anchored ==
    /\ source_node # "none" =>
         target = "found" \/ (target = "none" /\ source_node = "requirement")
    /\ at \in {"generate_node", "verify_node"} \/ draft # NoDraft => source_node # "none"

\* Whatever finalize stored is the draft the graph ended with, of its kind.
Stored ==
    /\ rows # << >> => at \in {"finalize", "END", "raised", "lost"}
    /\ \A k \in DOMAIN rows :
         /\ rows[k].draft \in approved
         /\ rows[k].draft = draft
         /\ rows[k].type = (IF source_node = "diagram" THEN "diagram" ELSE "requirement")
         /\ target = "found" \/ (target = "none" /\ rows[k].type = "requirement")

StoreInv == TypeOK /\ Consented /\ Anchored /\ Stored /\ StoresOnce

LEMMA StoreStep == StoreInv /\ [Next]_vars => StoreInv'
<1> SUFFICES ASSUME StoreInv, [Next]_vars
             PROVE  Consented' /\ Anchored' /\ Stored' /\ StoresOnce'
  BY TypeStep DEF StoreInv
<1> USE DEF StoreInv
<1>1. CASE \/ Supervise \/ Plan \/ Generate \/ Verify \/ ReviewAsks
           \/ ContextualAnswer \/ NodeRaises \/ AnsweredAgain
  <2>1. UNCHANGED <<target, rows, approved, failures>>
    BY <1>1 DEF Supervise, Plan, Generate, Verify, ReviewAsks, ContextualAnswer,
                NodeRaises, AnsweredAgain, history
  <2>2. at \in Nodes \cup {"lost"}
    BY <1>1 DEF Supervise, Plan, Generate, Verify, ReviewAsks, ContextualAnswer,
                NodeRaises, AnsweredAgain, Nodes
  <2>3. at' = "END" => rows = << >>
    BY <1>1 DEF Supervise, Plan, Generate, Verify, ReviewAsks, ContextualAnswer,
                NodeRaises, AnsweredAgain, AfterGenerate, RouteFromVerify, Stored
  <2>4. Anchored'
    <3>1. CASE Plan
      BY <2>1, <3>1 DEF Plan, PlanRaises, KindOf, Anchored, TypeOK
    <3>2. CASE ~Plan
      BY <1>1, <2>1, <3>2 DEF Supervise, RouteFromSupervisor, Generate, AfterGenerate,
                Verify, RouteFromVerify, ReviewAsks, ContextualAnswer, NodeRaises,
                AnsweredAgain, Anchored
    <3> QED
      BY <3>1, <3>2
  <2>5. CASE at \in {"finalize", "lost"}
    <3>1. at' \in {"finalize", "raised"} /\ draft' = draft /\ source_node' = source_node
      BY <1>1, <2>5 DEF Supervise, Plan, Generate, Verify, ReviewAsks,
                ContextualAnswer, NodeRaises, AnsweredAgain
    <3> QED
      BY <2>1, <2>4, <2>5, <3>1 DEF Consented, Stored, StoresOnce
  <2>6. CASE at \notin {"finalize", "lost"}
    <3>1. rows = << >>
      BY <2>2, <2>6 DEF Stored, Nodes
    <3>2. at' \notin {"finalize", "lost"}
      BY <1>1, <2>6 DEF Supervise, RouteFromSupervisor, Plan, Generate, AfterGenerate,
                Verify, RouteFromVerify, ReviewAsks, ContextualAnswer, NodeRaises,
                AnsweredAgain
    <3> QED
      BY <2>1, <2>4, <3>1, <3>2 DEF Consented, Stored, StoresOnce
  <2> QED
    BY <2>5, <2>6
<1>2. CASE Answering
  <2>1. at = "asking" /\ rows = << >>
    BY <1>2 DEF Answering, Reviewed, Stored
  <2>2. rows' = << >> /\ UNCHANGED <<target, source_node, draft, failures>>
    BY <1>2, <2>1 DEF Answering, Reviewed
  <2>3. Consented'
    BY <1>2 DEF Answering, Replies, Reviewed, RouteFromReview, Consented, TypeOK, Drafts
  <2>4. at' \notin {"generate_node", "verify_node"}
    BY <1>2 DEF Answering, Replies, Reviewed, RouteFromReview
  <2> QED
    BY <2>2, <2>3, <2>4 DEF Anchored, Stored, StoresOnce
<1>3. CASE Finalize \/ FinalizeCrash
  <2>1. /\ at = "finalize"
        /\ rows' = Append(rows, Row)
        /\ UNCHANGED <<target, source_node, draft, approved>>
    BY <1>3 DEF Finalize, FinalizeCrash, history
  <2>2. /\ Row.draft \in approved
        /\ Row.draft = draft
        /\ Row.type = (IF source_node = "diagram" THEN "diagram" ELSE "requirement")
        /\ target = "found" \/ (target = "none" /\ Row.type = "requirement")
    BY <1>3, <2>1 DEF Finalize, FinalizeCrash, FinalizeRaises, Row, Consented, Anchored, TypeOK
  <2>3. rows \in Seq(Artifacts)
    BY DEF TypeOK
  <2>4. \A k \in DOMAIN rows' : rows'[k] = Row \/ (k \in DOMAIN rows /\ rows'[k] = rows[k])
    BY <2>1, <2>3
  <2>5. at' \in {"END", "lost"}
    BY <1>3 DEF Finalize, FinalizeCrash, AfterFinalize
  <2>6. Consented' /\ Anchored' /\ Stored'
    BY <2>1, <2>2, <2>4, <2>5 DEF Consented, Anchored, Stored
  <2>7. StoresOnce'
    <3>1. CASE Finalize
      <4>1. failures' = failures /\ at' = "END"
        BY <3>1 DEF Finalize, AfterFinalize, history
      <4>2. Len(rows') = Len(rows) + 1 /\ Len(rows) \in Nat
        BY <2>1, <2>3
      <4> QED
        BY <2>1, <4>1, <4>2 DEF StoresOnce
    <3>2. CASE FinalizeCrash
      BY <3>2 DEF FinalizeCrash, StoresOnce, TypeOK
    <3> QED
      BY <1>3, <3>1, <3>2
  <2> QED
    BY <2>6, <2>7
<1>4. CASE UNCHANGED vars
  BY <1>4 DEF vars, history, Consented, Anchored, Stored, StoresOnce
<1> QED
  BY <1>1, <1>2, <1>3, <1>4 DEF Next, Work, Answering

LEMMA StoreInit == Init => StoreInv
BY TypeInit DEF Init, StoreInv, Consented, Anchored, Stored, StoresOnce

(***************************************************************************)
(* Whatever agents/sysml/nodes.py's finalize stores, crashes included, is  *)
(* the very draft the user approved; its target is in the session, and a   *)
(* diagram has one.                                                        *)
(***************************************************************************)
THEOREM ApprovalCorrect == Spec => []OnlyApprovedIsStored
<1>1. StoreInv => OnlyApprovedIsStored
  <2>1. StoreInv => Stored
    BY DEF StoreInv
  <2>2. Stored => OnlyApprovedIsStored
    BY DEF Stored, OnlyApprovedIsStored
  <2> QED
    BY <2>1, <2>2
<1> QED
  BY StoreInit, StoreStep, <1>1, PTL DEF Spec

(***************************************************************************)
(* Without a crash, one processing stores one artifact at most.            *)
(***************************************************************************)
THEOREM StoreCorrect == Spec => []StoresOnce
<1>1. StoreInv => StoresOnce
  BY DEF StoreInv
<1> QED
  BY StoreInit, StoreStep, <1>1, PTL DEF Spec

-----------------------------------------------------------------------------
(* The Mermaid text of a clean draft.                                      *)

\* verify_node calls a diagram clean only with a text it has just derived, and
\* what comes after it, up to the end, changes neither.
Derived ==
    /\ at = "sysml_supervisor" => source_node = "none"
    /\ at \in {"requirement_review", "asking", "contextual_answer", "finalize", "lost", "END"}
         /\ source_node = "diagram" /\ clean => mermaid = draft

\* The rows keep what finalize read.
RowsDerived ==
    \A k \in DOMAIN rows : rows[k].type = "diagram" /\ clean => rows[k].mermaid = rows[k].draft

LEMMA DerivedStep == TypeOK /\ Derived /\ [Next]_vars => Derived'
<1> SUFFICES ASSUME TypeOK, Derived, [Next]_vars PROVE Derived'
  OBVIOUS
<1>1. CASE Supervise
  <2>1. at = "sysml_supervisor" /\ at' # "sysml_supervisor" /\ source_node' = source_node
    BY <1>1 DEF Supervise, RouteFromSupervisor
  <2> QED
    BY <2>1 DEF Derived
<1>2. CASE Plan \/ Generate \/ NodeRaises
  BY <1>2 DEF Plan, Generate, AfterGenerate, NodeRaises, Derived
<1>3. CASE Verify
  <2>1. PICK diagnosed, covered, derived \in BOOLEAN :
          LET derives == source_node = "diagram" /\ ~diagnosed
              ok      == ~diagnosed /\ covered /\ (derives => derived)
          IN  /\ mermaid' = IF derives /\ derived THEN draft ELSE mermaid
              /\ clean' = ok
              /\ at' = RouteFromVerify(ok)
    BY <1>3 DEF Verify
  <2>2. source_node' = source_node /\ draft' = draft
    BY <1>3 DEF Verify
  <2> QED
    BY <2>1, <2>2 DEF RouteFromVerify, Derived
<1>4. CASE ReviewAsks \/ ContextualAnswer \/ AnsweredAgain \/ Finalize \/ FinalizeCrash
  BY <1>4 DEF ReviewAsks, ContextualAnswer, AnsweredAgain, Finalize, AfterFinalize,
              FinalizeCrash, Derived
<1>5. CASE Answering
  BY <1>5 DEF Answering, Replies, Reviewed, RouteFromReview, Derived
<1>6. CASE UNCHANGED vars
  BY <1>6 DEF vars, Derived
<1> QED
  BY <1>1, <1>2, <1>3, <1>4, <1>5, <1>6 DEF Next, Work, Answering

LEMMA RowsDerivedStep ==
    StoreInv /\ Derived /\ RowsDerived /\ [Next]_vars => RowsDerived'
<1> SUFFICES ASSUME StoreInv, Derived, RowsDerived, [Next]_vars PROVE RowsDerived'
  OBVIOUS
<1>1. CASE Finalize \/ FinalizeCrash
  <2>1. /\ at = "finalize" /\ rows' = Append(rows, Row) /\ clean' = clean
        /\ rows \in Seq(Artifacts)
    BY <1>1 DEF Finalize, FinalizeCrash, StoreInv, TypeOK
  <2>2. Row.type = "diagram" /\ clean => Row.mermaid = Row.draft
    BY <2>1 DEF Row, Derived
  <2>3. \A k \in DOMAIN rows' : rows'[k] = Row \/ (k \in DOMAIN rows /\ rows'[k] = rows[k])
    BY <2>1
  <2> QED
    BY <2>1, <2>2, <2>3 DEF RowsDerived
<1>2. CASE Verify
  <2>1. rows = << >> /\ rows' = rows
    BY <1>2 DEF Verify, StoreInv, Stored
  <2> QED
    BY <2>1 DEF RowsDerived
<1>3. CASE \/ Supervise \/ Plan \/ Generate \/ ReviewAsks \/ ContextualAnswer
           \/ NodeRaises \/ AnsweredAgain \/ Answering \/ UNCHANGED vars
  BY <1>3 DEF Supervise, Plan, Generate, ReviewAsks, ContextualAnswer, NodeRaises,
              AnsweredAgain, Answering, Reviewed, vars, RowsDerived
<1> QED
  BY <1>1, <1>2, <1>3 DEF Next, Work, Answering

(***************************************************************************)
(* A diagram the user sees without a warning, or that is stored as clean,  *)
(* bears its own Mermaid text, however many drafts came before it.         *)
(***************************************************************************)
THEOREM MermaidCorrect == Spec => []CleanShowsOwnMermaid
<1> DEFINE V == TypeOK /\ Fresh /\ Verified /\ Judged
           I == V /\ StoreInv /\ Derived /\ RowsDerived
<1>1. Init => I
  BY TypeInit, StoreInit DEF Init, Fresh, Verified, Judged, Derived, RowsDerived
<1>2. I /\ [Next]_vars => I'
  BY TypeStep, VerdictStep, StoreStep, DerivedStep, RowsDerivedStep
<1>3. I => CleanShowsOwnMermaid
  BY DEF Judged, Derived, RowsDerived, CleanShowsOwnMermaid
<1> QED
  BY <1>1, <1>2, <1>3, PTL DEF Spec

-----------------------------------------------------------------------------
(* The generate-verify loop.                                               *)

\* The room the current round leaves; what there is was generated by a plan.
RoundBounded ==
    /\ verify_visits <= MaxVisits
    /\ at \in {"generate_node", "verify_node"} => plans > 0
    /\ at = "generate_node" => verify_visits < MaxVisits
    /\ plans = 0 => draft = NoDraft

LEMMA RoundsStep == TypeOK /\ RoundBounded /\ [Next]_vars => RoundBounded'
<1> SUFFICES ASSUME TypeOK, RoundBounded, [Next]_vars PROVE RoundBounded'
  OBVIOUS
<1>0. /\ MaxVisits \in Nat /\ MaxVisits > 0 /\ plans \in Nat /\ verify_visits \in Nat
  BY LimitsAreNat DEF TypeOK
<1>1. CASE Plan
  <2>1. plans' = plans + 1 /\ verify_visits' = 0 /\ at' = "generate_node"
    BY <1>1 DEF Plan
  <2> QED
    BY <1>0, <2>1 DEF RoundBounded
<1>2. CASE Generate
  <2>1. /\ at = "generate_node" /\ at' = "verify_node" /\ plans' = plans
        /\ verify_visits' = verify_visits + 1
    BY <1>2 DEF Generate, AfterGenerate, history
  <2> QED
    BY <1>0, <2>1 DEF RoundBounded
<1>3. CASE Verify
  <2>1. /\ at = "verify_node" /\ UNCHANGED <<plans, draft, verify_visits>>
        /\ at' = "generate_node" => verify_visits < MaxVisits
        /\ at' \in {"generate_node", "requirement_review"}
    BY <1>0, <1>3 DEF Verify, RouteFromVerify, LimitReached
  <2> QED
    BY <2>1 DEF RoundBounded
<1>4. CASE \/ Supervise \/ ReviewAsks \/ ContextualAnswer \/ NodeRaises \/ AnsweredAgain
           \/ Finalize \/ FinalizeCrash
  <2>1. UNCHANGED <<plans, draft, verify_visits>>
    BY <1>4 DEF Supervise, ReviewAsks, ContextualAnswer, NodeRaises, AnsweredAgain,
                Finalize, FinalizeCrash, history
  <2>2. at' \notin {"generate_node", "verify_node"}
    BY <1>4 DEF Supervise, RouteFromSupervisor, ReviewAsks, ContextualAnswer, NodeRaises,
                AnsweredAgain, Finalize, AfterFinalize, FinalizeCrash
  <2> QED
    BY <2>1, <2>2 DEF RoundBounded
<1>5. CASE Answering
  <2>1. UNCHANGED <<plans, draft, verify_visits>> /\ at' \notin {"generate_node", "verify_node"}
    BY <1>5 DEF Answering, Reviewed, RouteFromReview
  <2> QED
    BY <2>1 DEF RoundBounded
<1>6. CASE UNCHANGED vars
  BY <1>6 DEF vars, history, RoundBounded
<1> QED
  BY <1>1, <1>2, <1>3, <1>4, <1>5, <1>6 DEF Next, Work, Answering

-----------------------------------------------------------------------------
(* How many supersteps there are between two replies.                      *)

StepsInRange ==
    /\ StepsLeft \in Nat
    /\ StepsLeft <= 2 * MaxVisits + 3
    /\ at \notin Nodes => StepsLeft = 0

LEMMA StepsLeftBounded == TypeOK /\ RoundBounded => StepsInRange
<1> SUFFICES ASSUME TypeOK, RoundBounded PROVE StepsInRange
  OBVIOUS
<1>1. /\ MaxVisits \in Nat \ {0} /\ verify_visits \in Nat /\ verify_visits <= MaxVisits
      /\ at = "generate_node" => verify_visits < MaxVisits
  BY LimitsAreNat DEF TypeOK, RoundBounded
<1>2. PICK rounds \in 0..MaxVisits : rounds = MaxVisits - verify_visits
  BY <1>1
<1>3. 2 * rounds \in Nat /\ 2 * rounds <= 2 * MaxVisits
  BY <1>1
<1> QED
  BY <1>1, <1>2, <1>3 DEF StepsInRange, StepsLeft, Nodes

LEMMA StepsInit == Init => Run!Init
<1> SUFFICES ASSUME Init PROVE Run!Init
  OBVIOUS
<1>1. StepsInRange
  BY TypeInit, LimitsAreNat, StepsLeftBounded DEF Init, RoundBounded
<1>2. StepsLeft \in 0..2 * MaxVisits + 3
  BY <1>1, LimitsAreNat DEF StepsInRange
<1> QED
  BY <1>2 DEF Run!Init, Run!Phases, Phase

LEMMA StepsStep ==
    /\ TypeOK /\ RoundBounded
    /\ StepsInRange /\ StepsInRange'
    /\ [Next]_vars
    => [Run!Next]_(Run!vars)
<1> SUFFICES ASSUME TypeOK, RoundBounded, StepsInRange, StepsInRange', [Next]_vars
             PROVE  [Run!Next]_(Run!vars)
  OBVIOUS
<1>0. /\ MaxVisits \in Nat \ {0} /\ verify_visits \in Nat /\ verify_visits <= MaxVisits
      /\ at = "generate_node" => verify_visits < MaxVisits
  BY LimitsAreNat DEF TypeOK, RoundBounded
<1>a. /\ StepsLeft \in Nat /\ StepsLeft' \in Nat
      /\ StepsLeft' <= 2 * MaxVisits + 3
      /\ at' \notin Nodes => StepsLeft' = 0
  BY DEF StepsInRange
<1>b. Phase' \in Run!Phases
  BY DEF Run!Phases, Phase
<1>c. ASSUME at \in Nodes, StepsLeft' < StepsLeft
      PROVE  Run!Next
  BY <1>a, <1>b, <1>c DEF Run!Next, Run!Superstep, Phase
<1>d. ASSUME at \in {"asking", "lost"}, StepsLeft' < 2 * MaxVisits + 3
      PROVE  Run!Next
  BY <1>a, <1>b, <1>d DEF Run!Next, Run!Resume, Phase, Nodes
<1>1. CASE Supervise
  <2>1. at = "sysml_supervisor" /\ at' \in {"plan_node", "contextual_answer", "END"}
    BY <1>1 DEF Supervise, RouteFromSupervisor
  <2>2. StepsLeft = 2 * MaxVisits + 3 /\ StepsLeft' < 2 * MaxVisits + 3
    BY <1>0, <2>1 DEF StepsLeft
  <2> QED
    BY <1>0, <1>c, <2>1, <2>2 DEF Nodes
<1>2. CASE Plan
  <2>1. at = "plan_node" /\ at' = "generate_node" /\ verify_visits' = 0
    BY <1>2 DEF Plan
  <2>2. StepsLeft = 2 * MaxVisits + 2 /\ StepsLeft' = 2 * (MaxVisits - 0) + 1
    BY <2>1 DEF StepsLeft
  <2> QED
    BY <1>0, <1>c, <2>1, <2>2 DEF Nodes
<1>3. CASE Generate
  <2>1. at = "generate_node" /\ at' = "verify_node" /\ verify_visits' = verify_visits + 1
    BY <1>3 DEF Generate, AfterGenerate
  <2>2. /\ StepsLeft = 2 * (MaxVisits - verify_visits) + 1
        /\ StepsLeft' = 2 * (MaxVisits - (verify_visits + 1)) + 2
    BY <2>1 DEF StepsLeft
  <2> QED
    BY <1>0, <1>c, <2>1, <2>2 DEF Nodes
<1>4. CASE Verify
  <2>1. /\ at = "verify_node" /\ verify_visits' = verify_visits
        /\ at' \in {"generate_node", "requirement_review"}
    BY <1>4 DEF Verify, RouteFromVerify
  <2>2. /\ StepsLeft = 2 * (MaxVisits - verify_visits) + 2
        /\ StepsLeft' \in {2 * (MaxVisits - verify_visits) + 1, 1}
    BY <2>1 DEF StepsLeft
  <2> QED
    BY <1>0, <1>c, <2>1, <2>2 DEF Nodes
<1>5. CASE ContextualAnswer
  <2>1. at = "contextual_answer" /\ at' = "requirement_review"
    BY <1>5 DEF ContextualAnswer
  <2>2. StepsLeft = 2 /\ StepsLeft' = 1
    BY <2>1 DEF StepsLeft
  <2> QED
    BY <1>c, <2>1, <2>2 DEF Nodes
<1>6. CASE ReviewAsks \/ Finalize \/ FinalizeCrash \/ NodeRaises
  <2>1. at \in Nodes /\ at' \notin Nodes
    BY <1>6 DEF ReviewAsks, Finalize, AfterFinalize, FinalizeCrash, NodeRaises, Nodes
  <2>2. StepsLeft > 0
    BY <1>0, <2>1 DEF StepsLeft, Nodes
  <2> QED
    BY <1>a, <1>c, <2>1, <2>2
<1>7. CASE Answering
  <2>1. at = "asking" /\ at' \in {"finalize", "plan_node", "contextual_answer", "END"}
    BY <1>7 DEF Answering, Reviewed, RouteFromReview
  <2>2. StepsLeft' < 2 * MaxVisits + 3
    BY <1>0, <2>1 DEF StepsLeft
  <2> QED
    BY <1>d, <2>1, <2>2
<1>8. CASE AnsweredAgain
  <2>1. at = "lost" /\ at' = "finalize"
    BY <1>8 DEF AnsweredAgain
  <2>2. StepsLeft' < 2 * MaxVisits + 3
    BY <1>0, <2>1 DEF StepsLeft
  <2> QED
    BY <1>d, <2>1, <2>2
<1>9. CASE UNCHANGED vars
  BY <1>9 DEF vars, history, Run!vars, Phase, StepsLeft
<1> QED
  BY <1>1, <1>2, <1>3, <1>4, <1>5, <1>6, <1>7, <1>8, <1>9 DEF Next, Work, Answering

(***************************************************************************)
(* Between two replies of the user a processing takes at most              *)
(* 2 * sysml_proc_max_visits + 3 supersteps, however the models, the tools *)
(* and the user answer: with the defaults 13, where LangGraph stops the    *)
(* run after 25.                                                           *)
(***************************************************************************)
THEOREM SuperstepsBounded == Spec => Run!Spec
<1> DEFINE I == TypeOK /\ RoundBounded
<1>1. Init => I
  BY TypeInit, LimitsAreNat DEF Init, RoundBounded
<1>2. I /\ [Next]_vars => I'
  BY TypeStep, RoundsStep
<1>3. I => StepsInRange
  BY StepsLeftBounded
<1>4. I /\ StepsInRange /\ StepsInRange' /\ [Next]_vars => [Run!Next]_(Run!vars)
  BY StepsStep
<1>5. Init => Run!Init
  BY StepsInit
<1> QED
  BY <1>1, <1>2, <1>3, <1>4, <1>5, PTL DEF Spec, Run!Spec
=============================================================================
