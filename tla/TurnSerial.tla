----------------------------- MODULE TurnSerial -----------------------------
(***************************************************************************)
(* What the chat gate promises a session, whatever requests arrive: its    *)
(* graph runs are serial.  A request is admitted when no run of the        *)
(* session is active, is admitted once, and every admitted run ends.  A    *)
(* restart of the server process ends every active run at once.            *)
(***************************************************************************)
CONSTANTS
    Sessions,   \* chat sessions
    Requests    \* POST /turn and POST /resume requests

VARIABLES
    active,     \* active[s]: the requests whose run is active in session s
    admitted    \* the requests admitted so far

vars == <<active, admitted>>

TypeOK == /\ active \in [Sessions -> SUBSET Requests]
          /\ admitted \in SUBSET Requests

Init == /\ active = [s \in Sessions |-> {}]
        /\ admitted = {}

Admit(s, r) == /\ active[s] = {}
               /\ r \notin admitted
               /\ active' = [active EXCEPT ![s] = {r}]
               /\ admitted' = admitted \cup {r}

End(s, r) == /\ active[s] = {r}
             /\ active' = [active EXCEPT ![s] = {}]
             /\ UNCHANGED admitted

Restart == /\ active' = [s \in Sessions |-> {}]
           /\ UNCHANGED admitted

Next == \/ \E s \in Sessions, r \in Requests : Admit(s, r) \/ End(s, r)
        \/ Restart

Spec == Init /\ [][Next]_vars

\* The process does not stop for ever inside a run: an active run ends.
FairSpec == Spec /\ \A s \in Sessions : WF_vars(\E r \in Requests : End(s, r))
=============================================================================
