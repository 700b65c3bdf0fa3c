------------------------------ MODULE Response ------------------------------
(***************************************************************************)
(* What the chat gate promises the client of one request: an answer, or    *)
(* one run and its event stream.  The stream opens with turn_started and   *)
(* closes with one outcome and the sentinel, both put at once, after which *)
(* nothing is said; only a restart of the process leaves it without them.  *)
(***************************************************************************)
EXTENDS Naturals, Sequences

VARIABLES
    state,      \* how far the request has come
    events,     \* what was put on its queue, status, token and trace left out
    gone        \* nobody reads: the client has all it waits for, or went away

vars == <<state, events, gone>>

Event(t, i) == [type |-> t, id |-> i]
Done        == Event("STREAM_DONE", 0)
Opening     == <<Event("turn_started", 0)>>

\* The stream of a run that completed, failed, or asks: then the interrupt is
\* shown before the end is told.
Whole(e) ==
    \/ e = Opening \o <<Event("completed", 0), Done>>
    \/ e = Opening \o <<Event("error", 0), Done>>
    \/ /\ Len(e) = 4
       /\ e[2].type = "interrupt"
       /\ e[2].id # 0
       /\ e = Opening \o <<e[2], Event("interrupted", 0), Done>>

Init == state = "new" /\ events = << >> /\ gone = FALSE

\* The request is taken up, answered without a run, or accepted.
Handle ==
    /\ \/ state = "new" /\ state' \in {"handled", "answered"}
       \/ state = "handled" /\ state' \in {"answered", "running"}
    /\ UNCHANGED <<events, gone>>

Open ==
    /\ state = "running"
    /\ events = << >>
    /\ events' = Opening
    /\ UNCHANGED <<state, gone>>

Close ==
    /\ state = "running"
    /\ events = Opening
    /\ Whole(events')
    /\ state' = "ended"
    /\ UNCHANGED gone

Break ==
    /\ state = "running"
    /\ state' = "broken"
    /\ UNCHANGED <<events, gone>>

\* The client has read to the sentinel, or goes away while the run goes on.
Leave ==
    /\ state \in {"running", "ended"}
    /\ ~gone
    /\ gone' = TRUE
    /\ UNCHANGED <<state, events>>

Next == Handle \/ Open \/ Close \/ Break \/ Leave

Step == Next \/ UNCHANGED vars

Spec == Init /\ [][Next]_vars

\* Every request that is taken up is answered, or its run ends.
Concludes == state = "handled" ~> state \in {"answered", "ended", "broken"}

\* Who stays connected is sent the sentinel.
HearsTheEnd == state = "running" ~> gone \/ state = "broken"
=============================================================================
