---------------------------- MODULE ChatSession ----------------------------
(***************************************************************************)
(* The HTTP chat gate: POST /turn, POST /resume, DELETE /sessions/{id},    *)
(* the in-process run lock, the run_turn task each accepted request        *)
(* launches, its event queue, and the checkpointer facts the gate reads.   *)
(*                                                                         *)
(* One action is one stretch of a coroutine between two suspension points, *)
(* so two handlers interleave exactly where the event loop lets them.      *)
(* The graph itself is nondeterministic here: a run saves checkpoints and  *)
(* then suspends on an interrupt, completes or raises.                     *)
(***************************************************************************)
EXTENDS Naturals, Sequences, FiniteSets

CONSTANTS
    Sessions,       \* session ids
    MaxRequests,    \* bound: HTTP requests, numbered in order of arrival
    MaxInterrupts,  \* bound: interrupts raised per session
    MaxRestarts     \* bound: restarts of the server process

ASSUME BoundsAreNat == /\ MaxRequests \in Nat
                       /\ MaxInterrupts \in Nat
                       /\ MaxRestarts \in Nat

ASSUME SomeSession == Sessions # {}

Requests == 1..MaxRequests

VARIABLES
    exists,     \* sessions whose row is in the database
    rows,       \* sessions that have checkpoint rows
    doomed,     \* open deletions that deleted all the rows their session has
    pending,    \* pending[s]: the unresolved interrupt of the checkpoint, or 0
    issued,     \* issued[s]: interrupts raised so far; an id is never reused
    running,    \* run_lock._running
    pc,         \* pc[r]: where request r and the task it launched stand
    kind,       \* kind[r]: the endpoint called
    target,     \* target[r]: the session addressed
    saw,        \* saw[r]: the pending interrupt r's handler read
    stream,     \* stream[r]: what run r put on its queue, status/token/trace left out
    reading,    \* requests whose response a client is still waiting to read
    restarts    \* restarts so far

db      == <<exists, rows, doomed, pending, issued>>
request == <<kind, target, saw>>
vars    == <<db, running, pc, request, stream, reading, restarts>>

NoInterrupt == 0
Kinds       == {"turn", "resume", "delete"}

\* Run states hold the lock; a request in a final state never acts again.
RunStates   == {"launched", "streaming", "drained"}
FinalStates == {"refused", "closed", "deleted", "lost", "killed"}
PcStates    == {"idle", "owned", "read", "purged"} \cup RunStates \cup FinalStates

Event(t, i) == [type |-> t, id |-> i]
EventTypes  == {"turn_started", "interrupt", "interrupted", "completed",
                "error", "STREAM_DONE"}
Events      == [type : EventTypes, id : Nat]

TypeOK ==
    /\ exists \in SUBSET Sessions
    /\ rows \in SUBSET Sessions
    /\ doomed \in SUBSET Requests
    /\ pending \in [Sessions -> Nat]
    /\ issued \in [Sessions -> Nat]
    /\ running \in SUBSET Sessions
    /\ pc \in [Requests -> PcStates]
    /\ kind \in [Requests -> Kinds]
    /\ target \in [Requests -> Sessions]
    /\ saw \in [Requests -> Nat]
    /\ stream \in [Requests -> Seq(Events)]
    /\ reading \in SUBSET Requests
    /\ restarts \in Nat

Init ==
    /\ exists = Sessions
    /\ rows = {}
    /\ doomed = {}
    /\ pending = [s \in Sessions |-> NoInterrupt]
    /\ issued = [s \in Sessions |-> 0]
    /\ running = {}
    /\ pc = [r \in Requests |-> "idle"]
    /\ kind = [r \in Requests |-> "turn"]
    /\ target = [r \in Requests |-> CHOOSE s \in Sessions : TRUE]
    /\ saw = [r \in Requests |-> NoInterrupt]
    /\ stream = [r \in Requests |-> << >>]
    /\ reading = Requests
    /\ restarts = 0

Goto(r, p) == pc' = [pc EXCEPT ![r] = p]

Live(r)  == pc[r] \in RunStates
RunsOf(s) == {r \in Requests : Live(r) /\ target[r] = s}

-----------------------------------------------------------------------------
(* The request handlers.                                                   *)

\* The ownership dependency has found the session row, or answers 404.
Arrive(r, k, s) ==
    /\ pc[r] = "idle"
    /\ \A q \in Requests : q < r => pc[q] # "idle"
    /\ kind' = [kind EXCEPT ![r] = k]
    /\ target' = [target EXCEPT ![r] = s]
    /\ Goto(r, IF s \in exists THEN "owned" ELSE "refused")
    /\ UNCHANGED <<db, running, saw, stream, reading, restarts>>

\* get_pending_interrupt: aget_state is awaited, so the value is used later.
ReadPending(r) ==
    /\ pc[r] = "owned"
    /\ kind[r] # "delete"
    /\ saw' = [saw EXCEPT ![r] = pending[target[r]]]
    /\ Goto(r, "read")
    /\ UNCHANGED <<db, running, kind, target, stream, reading, restarts>>

\* A turn wants no interrupt pending, a resume wants one.
GuardHolds(r) == (kind[r] = "turn") <=> (saw[r] = NoInterrupt)

\* The handler's own variables end with it.
Answer(r, p) ==
    /\ Goto(r, p)
    /\ saw' = [saw EXCEPT ![r] = NoInterrupt]
    /\ UNCHANGED <<kind, target>>

\* 409 awaiting_input, no_pending_interrupt or running.
Refuse(r) ==
    /\ pc[r] = "read"
    /\ ~GuardHolds(r) \/ target[r] \in running
    /\ Answer(r, "refused")
    /\ UNCHANGED <<db, running, stream, reading, restarts>>

\* 422: the body does not fit the pattern the handler read.
RejectBody(r) ==
    /\ pc[r] = "read"
    /\ kind[r] = "resume"
    /\ GuardHolds(r)
    /\ Answer(r, "refused")
    /\ UNCHANGED <<db, running, stream, reading, restarts>>

\* Mutants of TryAcquire: the check is dropped; the session is never added.
TryAcquireUnchecked(s) == running' = running \cup {s}
TryAcquireForgotten(s) == s \notin running /\ UNCHANGED running

\* run_lock.try_acquire: check and add with no suspension point between.
TryAcquire(s) ==
    /\ s \notin running
    /\ running' = running \cup {s}

\* try_acquire and create_task with no await in between: the task exists from
\* the moment the lock is held.
Launch(r) ==
    /\ pc[r] = "read"
    /\ GuardHolds(r)
    /\ TryAcquire(target[r])
    /\ Answer(r, "launched")
    /\ UNCHANGED <<db, stream, reading, restarts>>

-----------------------------------------------------------------------------
(* The run_turn task and the checkpoints its graph saves.                  *)

Put(r, events) == stream' = [stream EXCEPT ![r] = @ \o events]

Release(s) == running' = running \ {s}

\* A row written after a purge statement is not among the rows it deleted.
Save(s, interrupt) ==
    /\ rows' = rows \cup {s}
    /\ doomed' = {r \in doomed : target[r] # s}
    /\ pending' = [pending EXCEPT ![s] = interrupt]
    /\ UNCHANGED exists

Begin(r) ==
    /\ pc[r] = "launched"
    /\ Put(r, <<Event("turn_started", 0)>>)
    /\ Goto(r, "streaming")
    /\ UNCHANGED <<db, running, request, reading, restarts>>

\* A superstep is saved: the interrupt the run answers, or walks over, is gone.
Superstep(r) ==
    /\ pc[r] = "streaming"
    /\ Save(target[r], NoInterrupt)
    /\ UNCHANGED <<issued, running, pc, request, stream, reading, restarts>>

\* A node called interrupt(): the run suspends and the event loop ends.
Suspend(r) ==
    LET s == target[r] IN
    /\ pc[r] = "streaming"
    /\ issued[s] < MaxInterrupts
    /\ Save(s, issued[s] + 1)
    /\ issued' = [issued EXCEPT ![s] = @ + 1]
    /\ Goto(r, "drained")
    /\ UNCHANGED <<running, request, stream, reading, restarts>>

\* The graph reached END.
Complete(r) ==
    /\ pc[r] = "streaming"
    /\ Save(target[r], NoInterrupt)
    /\ Goto(r, "drained")
    /\ UNCHANGED <<issued, running, request, stream, reading, restarts>>

\* Mutants of CloseWith: a put that waits for the reader; no sentinel.
CloseWhenRead(r, events) ==
    /\ r \in reading
    /\ Put(r, events \o <<Event("STREAM_DONE", 0)>>)
    /\ Release(target[r])
    /\ Goto(r, "closed")
    /\ UNCHANGED <<db, request, reading, restarts>>

CloseWithoutSentinel(r, events) ==
    /\ Put(r, events)
    /\ Release(target[r])
    /\ Goto(r, "closed")
    /\ UNCHANGED <<db, request, reading, restarts>>

\* The last events, the release and the sentinel: no put suspends on an
\* unbounded queue, so nothing runs in between.
CloseWith(r, events) ==
    /\ Put(r, events \o <<Event("STREAM_DONE", 0)>>)
    /\ Release(target[r])
    /\ Goto(r, "closed")
    /\ UNCHANGED <<db, request, reading, restarts>>

\* Mutants of Outcome: the pending interrupt is not looked at; the event does
\* not say which end it is.
OutcomeAlwaysCompleted(i) == <<Event("completed", 0)>>
OutcomeUntold(i) ==
    IF i = NoInterrupt THEN <<Event("done", 0)>>
                       ELSE <<Event("interrupt", i), Event("done", 0)>>

\* The events the state after the loop calls for.
Outcome(i) ==
    IF i = NoInterrupt THEN <<Event("completed", 0)>>
                       ELSE <<Event("interrupt", i), Event("interrupted", 0)>>

\* aget_state after the loop, then the outcome it shows.
Report(r) ==
    /\ pc[r] = "drained"
    /\ CloseWith(r, Outcome(pending[target[r]]))

\* An exception out of the graph or of aget_state.
Fail(r) ==
    /\ pc[r] \in {"streaming", "drained"}
    /\ CloseWith(r, <<Event("error", 0)>>)

-----------------------------------------------------------------------------
(* The response stream.                                                    *)

\* The response generator takes the queue's items up to the sentinel.
Receive(r) ==
    /\ r \in reading
    /\ \E k \in DOMAIN stream[r] : stream[r][k].type = "STREAM_DONE"
    /\ reading' = reading \ {r}
    /\ UNCHANGED <<db, running, pc, request, stream, restarts>>

\* The generator is dropped; the task is not cancelled.
Disconnect(r) ==
    /\ Live(r)
    /\ r \in reading
    /\ reading' = reading \ {r}
    /\ UNCHANGED <<db, running, pc, request, stream, restarts>>

-----------------------------------------------------------------------------
(* DELETE /sessions/{id}: purge and delete in one transaction.  Neither    *)
(* looks at the run lock.                                                  *)

Purge(r) ==
    /\ pc[r] = "owned"
    /\ kind[r] = "delete"
    /\ doomed' = doomed \cup {r}
    /\ Goto(r, "purged")
    /\ UNCHANGED <<exists, rows, pending, issued, running, request, stream,
                   reading, restarts>>

\* The commit.  A session row another deletion removed first only draws a
\* warning: the purge is committed and 204 answered all the same.  (Of two open
\* deletions the database makes the later wait; here either may commit first.)
CommitDelete(r) ==
    LET s == target[r] IN
    /\ pc[r] = "purged"
    /\ exists' = exists \ {s}
    /\ rows' = IF r \in doomed THEN rows \ {s} ELSE rows
    /\ pending' = IF r \in doomed THEN [pending EXCEPT ![s] = NoInterrupt] ELSE pending
    /\ doomed' = doomed \ {r}
    /\ Goto(r, "deleted")
    /\ UNCHANGED <<issued, running, request, stream, reading, restarts>>

-----------------------------------------------------------------------------
\* The server process is restarted: handlers, tasks, queues and the in-memory
\* lock are gone, open transactions roll back, the database stays.
Restart ==
    /\ restarts < MaxRestarts
    /\ restarts' = restarts + 1
    /\ running' = {}
    /\ doomed' = {}
    /\ pc' = [r \in Requests |->
                IF Live(r) THEN "killed"
                ELSE IF pc[r] \in {"owned", "read", "purged"} THEN "lost" ELSE pc[r]]
    /\ saw' = [r \in Requests |-> NoInterrupt]
    /\ UNCHANGED <<exists, rows, pending, issued, kind, target, stream, reading>>

Handle(r) == ReadPending(r) \/ Refuse(r) \/ RejectBody(r) \/ Launch(r)
Delete(r) == Purge(r) \/ CommitDelete(r)
Conclude(r) == Begin(r) \/ Suspend(r) \/ Complete(r) \/ Report(r) \/ Fail(r)

Next ==
    \/ \E r \in Requests :
         \/ \E k \in Kinds, s \in Sessions : Arrive(r, k, s)
         \/ Handle(r)
         \/ Delete(r)
         \/ Conclude(r)
         \/ Superstep(r)
         \/ Receive(r)
         \/ Disconnect(r)
    \/ Restart

Spec == Init /\ [][Next]_vars

\* The event loop runs every ready coroutine, a graph run is finite (visit
\* guards, recursion limit), and a connected client is sent what is queued.
FairSpec ==
    /\ Spec
    /\ \A r \in Requests : /\ WF_vars(Handle(r) \/ Delete(r))
                           /\ WF_vars(Conclude(r))
                           /\ WF_vars(Receive(r))

-----------------------------------------------------------------------------
(* Properties.                                                             *)

\* The run lock and the live runs agree in every state: a session is in
\* run_lock._running exactly when one run_turn task of it is alive.  A path out
\* of run_turn that kept the lock would close the session for ever, one that
\* released it early would let two graph runs share a checkpoint.
LockMatchesRuns ==
    \A s \in Sessions :
        /\ s \in running <=> RunsOf(s) # {}
        /\ \A q, r \in RunsOf(s) : q = r

\* An interrupt a quiet session waits on was announced on the stream of a run
\* of that session, unless a run of it failed or was killed by a restart: the
\* client never learns only from a 409 that it is being asked something.
NoSilentInterrupt ==
    \A s \in Sessions :
        pending[s] # NoInterrupt /\ s \notin running =>
            \E r \in Requests :
                /\ target[r] = s
                /\ \/ pc[r] = "killed"
                   \/ \E k \in DOMAIN stream[r] :
                        stream[r][k] \in {Event("interrupt", pending[s]), Event("error", 0)}

\* The checkpoint's pending interrupt changes only under the session's lock, or
\* it goes with the rows of a session that is deleted, by a second deletion too,
\* which finds the session gone but not what a run has saved since: what a closed
\* stream said stays true until the next run, as long as the session is there.
CheckpointMovesUnderLock ==
    [][\A s \in Sessions :
         pending'[s] # pending[s]
           => s \in running \/ (s \notin exists' /\ pending'[s] = NoInterrupt)]_vars

\* Every request is answered, or launches a run whose stream opens and closes as
\* module Response says; it ends either way, and a client that stays connected
\* is sent the sentinel, unless the process is restarted under it.
Stage(r) ==
    CASE pc[r] = "idle"   -> "new"
      [] Live(r)          -> "running"
      [] pc[r] = "closed" -> "ended"
      [] pc[r] = "killed" -> "broken"
      [] pc[r] \in {"refused", "deleted", "lost"} -> "answered"
      [] OTHER            -> "handled"

Answered(r) == INSTANCE Response WITH state  <- Stage(r),
                                      events <- stream[r],
                                      gone   <- r \notin reading

EveryResponseIsWhole ==
    /\ \A r \in Requests : Answered(r)!Init
    /\ [][\A r \in Requests : Answered(r)!Step]_vars
    /\ \A r \in Requests : Answered(r)!Concludes /\ Answered(r)!HearsTheEnd

\* The gate keeps the promise of TurnSerial: one run per session at a time.
Serial == INSTANCE TurnSerial
            WITH Requests <- Requests,
                 active <- [s \in Sessions |-> RunsOf(s)],
                 admitted <- {r \in Requests : Live(r) \/ pc[r] \in {"closed", "killed"}}

SerialSpec == Serial!FairSpec

\* app/api/routes/chat.py:27-32 and 162: a turn is rejected on an unresolved
\* interrupt, a resume is validated against the interrupt that is actually
\* pending.  So what the handler read still holds when it launches the run.
LaunchesOnWhatItChecked ==
    [][\A r \in Requests :
         pc[r] = "read" /\ pc'[r] = "launched" => saw[r] = pending[target[r]]]_vars

\* app/api/routes/projects.py:51-53: checkpoints have no foreign key, so they
\* are purged before the row goes away.  None is left without its session.
NoOrphanCheckpoints == rows \subseteq exists
=============================================================================
