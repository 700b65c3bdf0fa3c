------------------------------ MODULE GraphRun ------------------------------
(***************************************************************************)
(* What each of the three graphs promises its runner, whatever models,     *)
(* tools and users answer: between two replies of the user it takes at     *)
(* most Limit supersteps, then it asks or is over.  A run that keeps this  *)
(* promise is never stopped by a recursion limit of Limit.                 *)
(***************************************************************************)
EXTENDS Naturals

CONSTANT Limit      \* the supersteps between two replies

VARIABLES
    phase,          \* what the run does
    left            \* the supersteps it may still take before it asks or is over

vars == <<phase, left>>

Phases == {"working", "asking", "over"}

Init == phase \in Phases /\ left \in 0..Limit

\* A superstep uses up at least one of those that are left.
Superstep ==
    /\ phase = "working"
    /\ phase' \in Phases
    /\ left' \in Nat
    /\ left' < left

\* The reply resumes the node that asked: its second run is a superstep too.
Resume ==
    /\ phase = "asking"
    /\ phase' \in Phases
    /\ left' \in Nat
    /\ left' < Limit

\* A new turn on the thread of a run that is over.
Start ==
    /\ phase = "over"
    /\ phase' = "working"
    /\ left' \in 0..Limit

Next == Superstep \/ Resume \/ Start

Spec == Init /\ [][Next]_vars

\* The runner does not stop at a node: a run that works comes to a question or
\* to its end.
Ends == phase = "working" ~> phase # "working"

LiveSpec == Spec /\ Ends
=============================================================================
