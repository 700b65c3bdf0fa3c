----------------------------- MODULE CallQueue -----------------------------
(***************************************************************************)
(* What a tool client promises the coroutines that call it, whatever its   *)
(* server does: calls end one at a time, in the order in which they came,  *)
(* each with an answer to its own text or with an exception.  That every   *)
(* call ends it can promise only where the server reads (ToolClient).      *)
(***************************************************************************)
EXTENDS Naturals

CONSTANT Callers

VARIABLES
    made,       \* calls made so far, numbered as they come
    ended,      \* calls that have ended
    outcome     \* outcome[c]: the last call of caller c and how it ended

vars == <<made, ended, outcome>>

Waits(c) == outcome[c].state = "waiting"

Init ==
    /\ made = 0
    /\ ended = 0
    /\ outcome = [c \in Callers |-> [state |-> "idle", call |-> 0, about |-> 0]]

Submit(c) ==
    /\ ~Waits(c)
    /\ made' = made + 1
    /\ outcome' = [outcome EXCEPT ![c] = [state |-> "waiting", call |-> made + 1, about |-> 0]]
    /\ UNCHANGED ended

\* The next call in order ends.
Conclude(c, how, about) ==
    /\ Waits(c)
    /\ outcome[c].call = ended + 1
    /\ ended' = ended + 1
    /\ outcome' = [outcome EXCEPT ![c].state = how, ![c].about = about]
    /\ UNCHANGED made

Return(c) == Conclude(c, "ok", outcome[c].call)

Raise(c) == Conclude(c, "closed", 0) \/ Conclude(c, "error", 0)

Next == \E c \in Callers : Submit(c) \/ Return(c) \/ Raise(c)

Spec == Init /\ [][Next]_vars

\* Whoever waits is answered; who comes later waits behind.
Concludes == \A c \in Callers : Waits(c) ~> ~Waits(c)
=============================================================================
