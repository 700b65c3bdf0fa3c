------------------------- MODULE ChatSession_proofs -------------------------
(***************************************************************************)
(* Proofs about ChatSession, for any number of sessions and requests and   *)
(* any bounds.                                                             *)
(***************************************************************************)
EXTENDS ChatSession, SequenceTheorems, TLAPS

USE DEF Goto, NoInterrupt

-----------------------------------------------------------------------------
(* Types.                                                                  *)

LEMMA PutType ==
    ASSUME TypeOK, NEW r \in Requests, NEW events \in Seq(Events), Put(r, events)
    PROVE  stream' \in [Requests -> Seq(Events)]
  <1>1. stream[r] \o events \in Seq(Events)
    BY DEF TypeOK
  <1>2. QED
    BY <1>1 DEF TypeOK, Put

LEMMA EventType ==
    ASSUME NEW t \in EventTypes, NEW i \in Nat
    PROVE  Event(t, i) \in Events
  BY DEF Event, Events

\* Type correctness is inductive by itself.
LEMMA TypeInit == Init => TypeOK
  <1> SUFFICES ASSUME Init PROVE TypeOK
    OBVIOUS
  <1>1. (CHOOSE s \in Sessions : TRUE) \in Sessions
    BY SomeSession
  <1>2. << >> \in Seq(Events)
    OBVIOUS
  <1>3. stream \in [Requests -> Seq(Events)]
    BY <1>2 DEF Init
  <1>4. QED
    BY <1>1, <1>3 DEF Init, TypeOK, PcStates, Kinds, RunStates, FinalStates

LEMMA CloseType ==
    ASSUME TypeOK, NEW r \in Requests, NEW events \in Seq(Events),
           CloseWith(r, events)
    PROVE  TypeOK'
  <1>1. Event("STREAM_DONE", 0) \in Events
    BY EventType DEF EventTypes
  <1>2. events \o <<Event("STREAM_DONE", 0)>> \in Seq(Events)
    BY <1>1
  <1>3. stream' \in [Requests -> Seq(Events)]
    BY <1>2, PutType DEF CloseWith
  <1>4. QED
    BY <1>3 DEF CloseWith, TypeOK, db, request, Release, PcStates, FinalStates

LEMMA OutcomeType ==
    ASSUME NEW i \in Nat
    PROVE  Outcome(i) \in Seq(Events)
  <1>1. /\ Event("completed", 0) \in Events
        /\ Event("interrupt", i) \in Events
        /\ Event("interrupted", 0) \in Events
    BY EventType DEF EventTypes
  <1>2. QED
    BY <1>1 DEF Outcome

LEMMA TypeStep == TypeOK /\ [Next]_vars => TypeOK'
  <1> SUFFICES ASSUME TypeOK, [Next]_vars PROVE TypeOK'
    OBVIOUS
  <1> USE DEF TypeOK, db, request, PcStates, RunStates, FinalStates
  <1>1. ASSUME NEW r \in Requests, NEW k \in Kinds, NEW s \in Sessions, Arrive(r, k, s)
        PROVE  TypeOK'
    BY <1>1 DEF Arrive
  <1>2. ASSUME NEW r \in Requests, Handle(r)
        PROVE  TypeOK'
    <2>1. CASE ReadPending(r)
      BY <2>1 DEF ReadPending
    <2>2. CASE Refuse(r)
      BY <2>2 DEF Refuse, Answer
    <2>3. CASE RejectBody(r)
      BY <2>3 DEF RejectBody, Answer
    <2>4. CASE Launch(r)
      BY <2>4 DEF Launch, Answer, TryAcquire
    <2>5. QED
      BY <1>2, <2>1, <2>2, <2>3, <2>4 DEF Handle
  <1>3. ASSUME NEW r \in Requests, Delete(r)
        PROVE  TypeOK'
    <2>1. CASE Purge(r)
      BY <2>1 DEF Purge
    <2>2. CASE CommitDelete(r)
      <3>1. pending' \in [Sessions -> Nat]
        BY <2>2 DEF CommitDelete
      <3>2. QED
        BY <2>2, <3>1 DEF CommitDelete
    <2>3. QED
      BY <1>3, <2>1, <2>2 DEF Delete
  <1>4. ASSUME NEW r \in Requests, Conclude(r)
        PROVE  TypeOK'
    <2>1. CASE Begin(r)
      <3>1. <<Event("turn_started", 0)>> \in Seq(Events)
        BY EventType DEF EventTypes
      <3>2. stream' \in [Requests -> Seq(Events)]
        BY <2>1, <3>1, PutType DEF Begin
      <3>3. QED
        BY <2>1, <3>2 DEF Begin
    <2>2. CASE Suspend(r)
      BY <2>2 DEF Suspend, Save
    <2>3. CASE Complete(r)
      BY <2>3 DEF Complete, Save
    <2>4. CASE Report(r)
      <3>1. pending[target[r]] \in Nat
        OBVIOUS
      <3>2. QED
        BY <2>4, <3>1, OutcomeType, CloseType DEF Report
    <2>5. CASE Fail(r)
      <3>1. <<Event("error", 0)>> \in Seq(Events)
        BY EventType DEF EventTypes
      <3>2. QED
        BY <2>5, <3>1, CloseType DEF Fail
    <2>6. QED
      BY <1>4, <2>1, <2>2, <2>3, <2>4, <2>5 DEF Conclude
  <1>5. ASSUME NEW r \in Requests, Superstep(r)
        PROVE  TypeOK'
    BY <1>5 DEF Superstep, Save
  <1>6. ASSUME NEW r \in Requests, Receive(r) \/ Disconnect(r)
        PROVE  TypeOK'
    BY <1>6 DEF Receive, Disconnect
  <1>7. CASE Restart
    BY <1>7 DEF Restart, Live
  <1>8. CASE UNCHANGED vars
    BY <1>8 DEF vars
  <1>9. QED
    BY <1>1, <1>2, <1>3, <1>4, <1>5, <1>6, <1>7, <1>8 DEF Next

\* Every variable keeps its type, for any number of sessions and requests.
THEOREM TypeCorrect == Spec => []TypeOK
  BY TypeInit, TypeStep, PTL DEF Spec

-----------------------------------------------------------------------------
(* The run lock.                                                           *)

\* A step that moves no request into or out of a run leaves RunsOf alone.
LEMMA SameRuns ==
    ASSUME \A q \in Requests : Live(q)' <=> Live(q),
           \A q \in Requests : Live(q) => target'[q] = target[q],
           NEW s \in Sessions
    PROVE  RunsOf(s)' = RunsOf(s)
  BY DEF RunsOf

LEMMA QuietStep ==
    ASSUME LockMatchesRuns, UNCHANGED running,
           \A q \in Requests : Live(q)' <=> Live(q),
           \A q \in Requests : Live(q) => target'[q] = target[q]
    PROVE  LockMatchesRuns'
  <1>1. \A s \in Sessions : RunsOf(s)' = RunsOf(s)
    BY SameRuns
  <1>2. QED
    BY <1>1 DEF LockMatchesRuns

\* A launch adds the run to the runs of a session that had none.
LEMMA LaunchRuns ==
    ASSUME TypeOK, NEW r \in Requests, Launch(r)
    PROVE  \A s \in Sessions :
             RunsOf(s)' = IF s = target[r] THEN RunsOf(s) \cup {r} ELSE RunsOf(s)
  BY DEF Launch, Answer, TypeOK, RunsOf, Live, RunStates

\* Closing a run removes it from the runs of its session.
LEMMA CloseRuns ==
    ASSUME TypeOK, NEW r \in Requests, NEW events, CloseWith(r, events)
    PROVE  \A s \in Sessions : RunsOf(s)' = RunsOf(s) \ {r}
  BY DEF CloseWith, TypeOK, RunsOf, Live, RunStates, request

\* After a restart no run is left.
LEMMA RestartRuns ==
    ASSUME TypeOK, Restart
    PROVE  \A s \in Sessions : RunsOf(s)' = {}
  <1>1. \A q \in Requests : pc'[q] \notin RunStates
    BY DEF Restart, RunStates, Live
  <1>2. QED
    BY <1>1 DEF RunsOf, Live

LEMMA LockInit == Init => LockMatchesRuns
  BY DEF Init, LockMatchesRuns, RunsOf, Live, RunStates

LEMMA CloseLock ==
    ASSUME TypeOK, LockMatchesRuns, NEW r \in Requests, NEW events, Live(r),
           CloseWith(r, events)
    PROVE  LockMatchesRuns'
  <1>1. running' = running \ {target[r]} /\ target[r] \in Sessions
    BY DEF CloseWith, Release, TypeOK
  <1>2. r \in RunsOf(target[r]) /\ \A s \in Sessions : r \in RunsOf(s) => s = target[r]
    BY DEF RunsOf
  <1>3. \A s \in Sessions : RunsOf(s)' = RunsOf(s) \ {r}
    BY CloseRuns
  <1>4. QED
    BY <1>1, <1>2, <1>3 DEF LockMatchesRuns

LEMMA LockStep == TypeOK /\ LockMatchesRuns /\ [Next]_vars => LockMatchesRuns'
  <1> SUFFICES ASSUME TypeOK, LockMatchesRuns, [Next]_vars PROVE LockMatchesRuns'
    OBVIOUS
  <1>1. ASSUME NEW r \in Requests, NEW k \in Kinds, NEW s \in Sessions, Arrive(r, k, s)
        PROVE  LockMatchesRuns'
    BY <1>1, QuietStep DEF Arrive, TypeOK, Live, RunStates
  <1>2. ASSUME NEW r \in Requests, Handle(r)
        PROVE  LockMatchesRuns'
    <2>1. CASE ReadPending(r)
      BY <2>1, QuietStep DEF ReadPending, TypeOK, Live, RunStates
    <2>2. CASE Refuse(r) \/ RejectBody(r)
      BY <2>2, QuietStep DEF Refuse, RejectBody, Answer, TypeOK, Live, RunStates
    <2>3. CASE Launch(r)
      <3>1. /\ target[r] \notin running /\ target[r] \in Sessions
            /\ running' = running \cup {target[r]}
        BY <2>3 DEF Launch, TryAcquire, TypeOK
      <3>2. QED
        BY <2>3, <3>1, LaunchRuns DEF LockMatchesRuns
    <2>4. QED
      BY <1>2, <2>1, <2>2, <2>3 DEF Handle
  <1>3. ASSUME NEW r \in Requests, Delete(r)
        PROVE  LockMatchesRuns'
    BY <1>3, QuietStep
       DEF Delete, Purge, CommitDelete, TypeOK, Live, RunStates, request
  <1>4. ASSUME NEW r \in Requests, Conclude(r)
        PROVE  LockMatchesRuns'
    <2>1. CASE Begin(r) \/ Suspend(r) \/ Complete(r)
      BY <2>1, QuietStep
         DEF Begin, Suspend, Complete, TypeOK, Live, RunStates, request
    <2>2. CASE Report(r)
      BY <2>2, CloseLock DEF Report, Live, RunStates
    <2>3. CASE Fail(r)
      BY <2>3, CloseLock DEF Fail, Live, RunStates
    <2>4. QED
      BY <1>4, <2>1, <2>2, <2>3 DEF Conclude
  <1>5. ASSUME NEW r \in Requests, Superstep(r) \/ Receive(r) \/ Disconnect(r)
        PROVE  LockMatchesRuns'
    BY <1>5, QuietStep DEF Superstep, Receive, Disconnect, Live, request
  <1>6. CASE Restart
    BY <1>6, RestartRuns DEF Restart, LockMatchesRuns
  <1>7. CASE UNCHANGED vars
    BY <1>7, QuietStep DEF vars, Live, request
  <1>8. QED
    BY <1>1, <1>2, <1>3, <1>4, <1>5, <1>6, <1>7 DEF Next

\* The run lock is held exactly for the sessions with a live run, and a session
\* never has two: run_lock.py and the finally block of run_turn, whatever the
\* interleaving of handlers, runs, deletions and restarts.
THEOREM LockCorrect == Spec => []LockMatchesRuns
  BY LockInit, LockStep, TypeCorrect, PTL DEF Spec

-----------------------------------------------------------------------------
(* The checkpoint belongs to the lock holder.                              *)

LEMMA LiveHoldsLock ==
    ASSUME TypeOK, LockMatchesRuns, NEW r \in Requests, Live(r)
    PROVE  target[r] \in running
  <1>1. r \in RunsOf(target[r]) /\ target[r] \in Sessions
    BY DEF RunsOf, TypeOK
  <1>2. QED
    BY <1>1 DEF LockMatchesRuns

LEMMA CheckpointStep ==
    ASSUME TypeOK, LockMatchesRuns, [Next]_vars,
           NEW s \in Sessions, pending'[s] # pending[s]
    PROVE  s \in running \/ (s \notin exists' /\ pending'[s] = NoInterrupt)
  <1>1. ASSUME NEW r \in Requests, Superstep(r) \/ Suspend(r) \/ Complete(r)
        PROVE  s \in running
    <2>1. s = target[r] /\ Live(r)
      BY <1>1 DEF Superstep, Suspend, Complete, Save, TypeOK, Live, RunStates
    <2>2. QED
      BY <2>1, LiveHoldsLock
  <1>2. ASSUME NEW r \in Requests, CommitDelete(r)
        PROVE  s \notin exists' /\ pending'[s] = NoInterrupt
    BY <1>2 DEF CommitDelete, TypeOK
  <1>3. ASSUME NEW r \in Requests,
               \/ \E k \in Kinds, z \in Sessions : Arrive(r, k, z)
               \/ Handle(r) \/ Purge(r)
               \/ Begin(r) \/ Report(r) \/ Fail(r) \/ Receive(r) \/ Disconnect(r)
        PROVE  pending' = pending
    BY <1>3 DEF Arrive, Handle, ReadPending, Refuse, RejectBody, Launch, Purge,
                Begin, Report, Fail, CloseWith, Receive, Disconnect, db
  <1>4. Restart \/ UNCHANGED vars => pending' = pending
    BY DEF Restart, vars, db
  <1>5. QED
    BY <1>1, <1>2, <1>3, <1>4 DEF Next, Delete, Conclude

\* A quiet session's checkpoint stands still: only the holder of its lock
\* changes the interrupt it waits on, or a deletion, the first or a later one,
\* that leaves no session and no interrupt (turn.py:79-160, projects.py:106-114).
THEOREM CheckpointOwned == Spec => CheckpointMovesUnderLock
  <1>1. TypeOK /\ LockMatchesRuns /\ [Next]_vars
          => [\A s \in Sessions :
                pending'[s] # pending[s]
                  => s \in running \/ (s \notin exists' /\ pending'[s] = NoInterrupt)]_vars
    BY CheckpointStep
  <1>2. QED
    BY <1>1, TypeCorrect, LockCorrect, PTL DEF Spec, CheckpointMovesUnderLock

-----------------------------------------------------------------------------
(* ChatSession implements TurnSerial.                                      *)

Active   == [s \in Sessions |-> RunsOf(s)]
Admitted == {r \in Requests : Live(r) \/ pc[r] \in {"closed", "killed"}}

\* A step that moves no request into or out of a run is a stutter of TurnSerial.
LEMMA QuietStutters ==
    ASSUME \A q \in Requests : Live(q)' <=> Live(q),
           \A q \in Requests : Live(q) => target'[q] = target[q],
           \A q \in Requests : pc'[q] \in {"closed", "killed"} <=> pc[q] \in {"closed", "killed"}
    PROVE  UNCHANGED <<Active, Admitted>>
  <1>1. \A s \in Sessions : RunsOf(s)' = RunsOf(s)
    BY SameRuns
  <1>2. QED
    BY <1>1 DEF Active, Admitted

\* A launch is Admit.
LEMMA LaunchAdmits ==
    ASSUME TypeOK, LockMatchesRuns, NEW r \in Requests, Launch(r)
    PROVE  Serial!Admit(target[r], r)
  <1>1. target[r] \in Sessions /\ target[r] \notin running
    BY DEF Launch, TryAcquire, TypeOK
  <1>2. RunsOf(target[r]) = {}
    BY <1>1 DEF LockMatchesRuns
  <1>3. Active' = [Active EXCEPT ![target[r]] = {r}]
    BY <1>1, <1>2, LaunchRuns DEF Active
  <1>4. r \notin Admitted
    BY DEF Launch, Admitted, Live, RunStates
  <1>5. Admitted' = Admitted \cup {r}
    BY DEF Launch, Answer, Admitted, Live, RunStates, TypeOK
  <1>6. QED
    BY <1>1, <1>2, <1>3, <1>4, <1>5 DEF Serial!Admit, Active, Admitted

\* The end of a run is End.
LEMMA CloseEnds ==
    ASSUME TypeOK, LockMatchesRuns, NEW r \in Requests, NEW events, Live(r),
           CloseWith(r, events)
    PROVE  Serial!End(target[r], r)
  <1>1. target[r] \in Sessions /\ r \in RunsOf(target[r])
    BY DEF TypeOK, RunsOf
  <1>2. RunsOf(target[r]) = {r}
    BY <1>1 DEF LockMatchesRuns
  <1>3. \A s \in Sessions : s # target[r] => r \notin RunsOf(s)
    BY DEF RunsOf
  <1>4. Active' = [Active EXCEPT ![target[r]] = {}]
    <2>1. \A s \in Sessions : RunsOf(s)' = IF s = target[r] THEN {} ELSE RunsOf(s)
      BY <1>1, <1>2, <1>3, CloseRuns
    <2>2. QED
      BY <1>1, <2>1 DEF Active
  <1>5. Admitted' = Admitted
    BY DEF CloseWith, Admitted, Live, RunStates, TypeOK
  <1>6. QED
    BY <1>1, <1>2, <1>4, <1>5 DEF Serial!End, Active, Admitted

LEMMA SerialInit == Init => Serial!Init
  BY DEF Init, Serial!Init, RunsOf, Live, RunStates

LEMMA SerialStep == TypeOK /\ LockMatchesRuns /\ [Next]_vars => [Serial!Next]_(Serial!vars)
  <1> SUFFICES ASSUME TypeOK, LockMatchesRuns, [Next]_vars
               PROVE  Serial!Next \/ UNCHANGED <<Active, Admitted>>
    BY DEF Serial!vars, Active, Admitted
  <1>1. ASSUME NEW r \in Requests, NEW k \in Kinds, NEW s \in Sessions, Arrive(r, k, s)
        PROVE  UNCHANGED <<Active, Admitted>>
    BY <1>1, QuietStutters DEF Arrive, TypeOK, Live, RunStates
  <1>2. ASSUME NEW r \in Requests, ReadPending(r) \/ Refuse(r) \/ RejectBody(r) \/ Delete(r)
        PROVE  UNCHANGED <<Active, Admitted>>
    BY <1>2, QuietStutters
       DEF ReadPending, Refuse, RejectBody, Answer, Delete, Purge, CommitDelete,
           TypeOK, Live, RunStates, request
  <1>3. ASSUME NEW r \in Requests, Launch(r)
        PROVE  Serial!Next
    BY <1>3, LaunchAdmits DEF Serial!Next, TypeOK
  <1>4. ASSUME NEW r \in Requests,
               Begin(r) \/ Suspend(r) \/ Complete(r) \/ Superstep(r) \/ Receive(r) \/ Disconnect(r)
        PROVE  UNCHANGED <<Active, Admitted>>
    BY <1>4, QuietStutters
       DEF Begin, Suspend, Complete, Superstep, Receive, Disconnect, TypeOK, Live,
           RunStates, request
  <1>5. ASSUME NEW r \in Requests, Report(r) \/ Fail(r)
        PROVE  Serial!Next
    <2>1. Live(r) /\ target[r] \in Sessions
      BY <1>5 DEF Report, Fail, Live, RunStates, TypeOK
    <2>2. QED
      BY <1>5, <2>1, CloseEnds DEF Report, Fail, Serial!Next
  <1>6. CASE Restart
    <2>1. Active' = [s \in Sessions |-> {}]
      BY <1>6, RestartRuns DEF Active
    <2>2. \A q \in Requests : q \in Admitted' <=> q \in Admitted
      BY <1>6 DEF Restart, Admitted, Live, RunStates
    <2>3. Admitted' = Admitted
      BY <2>2 DEF Admitted
    <2>4. QED
      BY <2>1, <2>3 DEF Serial!Next, Serial!Restart, Active, Admitted
  <1>7. CASE UNCHANGED vars
    BY <1>7, QuietStutters DEF vars, Live, request
  <1>8. QED
    BY <1>1, <1>2, <1>3, <1>4, <1>5, <1>6, <1>7 DEF Next, Handle, Conclude

\* The graph runs of a session are serial: every behaviour of the gate is one
\* of TurnSerial, whose only way in is Admit on a session without active runs.
THEOREM ImplementsTurnSerial == Spec => Serial!Spec
  BY SerialInit, SerialStep, TypeCorrect, LockCorrect, PTL DEF Spec, Serial!Spec

-----------------------------------------------------------------------------
(* A quiet session's question was announced.                               *)

\* A request that has not arrived has said nothing.
IdleSilent == \A r \in Requests : pc[r] = "idle" => stream[r] = << >>

Announced(r, i) ==
    \E k \in DOMAIN stream[r] : stream[r][k] \in {Event("interrupt", i), Event("error", 0)}

\* What any step keeps: the events put so far, the ends of runs by a restart,
\* and the session of a request that has arrived.
Grown ==
    \A r \in Requests :
        /\ \A k \in DOMAIN stream[r] : k \in DOMAIN stream'[r] /\ stream'[r][k] = stream[r][k]
        /\ pc[r] = "killed" => pc'[r] = "killed"
        /\ pc[r] # "idle" => pc'[r] # "idle" /\ target'[r] = target[r]
        /\ pc'[r] = "idle" => stream'[r] = stream[r]

LEMMA PutGrows ==
    ASSUME TypeOK, NEW r \in Requests, NEW events \in Seq(Events), Put(r, events),
           NEW q \in Requests, NEW k \in DOMAIN stream[q]
    PROVE  k \in DOMAIN stream'[q] /\ stream'[q][k] = stream[q][k]
  <1>1. CASE q = r
    <2>1. stream'[q] = stream[q] \o events
      BY <1>1 DEF Put, TypeOK
    <2>2. stream[q] \in Seq(Events)
      BY DEF TypeOK
    <2> QED
      BY <2>1, <2>2
  <1>2. CASE q # r
    BY <1>2 DEF Put, TypeOK
  <1> QED
    BY <1>1, <1>2

\* Where the elements of the second of two sequences are in both together.
LEMMA ConcatAt ==
    ASSUME NEW S, NEW s \in Seq(S), NEW t \in Seq(S), NEW k \in 1..Len(t)
    PROVE  Len(s) + k \in DOMAIN (s \o t) /\ (s \o t)[Len(s) + k] = t[k]
  OBVIOUS

\* The events that end a stream.
LEMMA CloseGrows ==
    ASSUME TypeOK, NEW r \in Requests, Live(r), NEW events \in Seq(Events),
           CloseWith(r, events)
    PROVE  /\ Grown
           /\ \A k \in DOMAIN events : \E j \in DOMAIN stream'[r] : stream'[r][j] = events[k]
  <1> DEFINE all == events \o <<Event("STREAM_DONE", 0)>>
  <1>1. Event("STREAM_DONE", 0) \in Events
    BY EventType DEF EventTypes
  <1>2. all \in Seq(Events) /\ \A k \in DOMAIN events : k \in DOMAIN all /\ all[k] = events[k]
    BY <1>1
  <1>3. Put(r, all)
    BY DEF CloseWith
  <1>4. \A k \in DOMAIN events : \E j \in DOMAIN stream'[r] : stream'[r][j] = events[k]
    <2>1. stream[r] \in Seq(Events) /\ stream'[r] = stream[r] \o all
      BY <1>3 DEF Put, TypeOK
    <2> HIDE DEF all
    <2> SUFFICES ASSUME NEW k \in DOMAIN events
                 PROVE  \E j \in DOMAIN stream'[r] : stream'[r][j] = events[k]
      OBVIOUS
    <2>2. k \in 1..Len(all) /\ all[k] = events[k]
      BY <1>2
    <2>3. /\ Len(stream[r]) + k \in DOMAIN stream'[r]
          /\ stream'[r][Len(stream[r]) + k] = all[k]
      <3>1. all \in Seq(Events)
        BY <1>2
      <3>2. /\ Len(stream[r]) + k \in DOMAIN (stream[r] \o all)
            /\ (stream[r] \o all)[Len(stream[r]) + k] = all[k]
        <4>1. stream[r] \in Seq(Events) /\ k \in 1..Len(all)
          BY <2>1, <2>2
        <4> QED
          BY <3>1, <4>1, ConcatAt, Zenon
      <3> QED
        BY <2>1, <3>2
    <2> QED
      BY <2>2, <2>3
  <1> HIDE DEF all
  <1>5. Grown
    <2>1. \A q \in Requests : \A k \in DOMAIN stream[q] :
            k \in DOMAIN stream'[q] /\ stream'[q][k] = stream[q][k]
      BY <1>2, <1>3, PutGrows
    <2> QED
      BY <1>3, <2>1 DEF Grown, CloseWith, Put, TypeOK, Live, RunStates, request
  <1> QED
    BY <1>4, <1>5

LEMMA OutcomeAnnounces ==
    ASSUME NEW i \in Nat, i # NoInterrupt
    PROVE  \E k \in DOMAIN Outcome(i) : Outcome(i)[k] = Event("interrupt", i)
  BY DEF Outcome

LEMMA StepGrows == TypeOK /\ [Next]_vars => Grown
  <1> SUFFICES ASSUME TypeOK, [Next]_vars PROVE Grown
    OBVIOUS
  <1>1. ASSUME NEW r \in Requests, Report(r)
        PROVE  Grown
    <2>1. Outcome(pending[target[r]]) \in Seq(Events)
      BY OutcomeType DEF TypeOK
    <2> QED
      BY <1>1, <2>1, CloseGrows DEF Report, Live, RunStates
  <1>2. ASSUME NEW r \in Requests, Fail(r)
        PROVE  Grown
    <2>1. <<Event("error", 0)>> \in Seq(Events)
      BY EventType DEF EventTypes
    <2> QED
      BY <1>2, <2>1, CloseGrows DEF Fail, Live, RunStates
  <1>3. ASSUME NEW r \in Requests, Begin(r)
        PROVE  Grown
    <2>1. <<Event("turn_started", 0)>> \in Seq(Events)
      BY EventType DEF EventTypes
    <2>2. \A q \in Requests : \A k \in DOMAIN stream[q] :
            k \in DOMAIN stream'[q] /\ stream'[q][k] = stream[q][k]
      BY <1>3, <2>1, PutGrows DEF Begin
    <2> QED
      BY <1>3, <2>2 DEF Grown, Begin, Put, TypeOK, request
  <1>4. ASSUME NEW r \in Requests, NEW k \in Kinds, NEW s \in Sessions, Arrive(r, k, s)
        PROVE  Grown
    BY <1>4 DEF Arrive, Grown, TypeOK
  <1>5. ASSUME NEW r \in Requests, Handle(r)
        PROVE  Grown
    BY <1>5 DEF Handle, ReadPending, Refuse, RejectBody, Launch, Answer, Grown, TypeOK
  <1>6. ASSUME NEW r \in Requests, Delete(r)
        PROVE  Grown
    BY <1>6 DEF Delete, Purge, CommitDelete, Grown, TypeOK, request
  <1>7. ASSUME NEW r \in Requests,
               Suspend(r) \/ Complete(r) \/ Superstep(r) \/ Receive(r) \/ Disconnect(r)
        PROVE  Grown
    BY <1>7 DEF Suspend, Complete, Superstep, Receive, Disconnect, Grown, TypeOK, request
  <1>8. CASE Restart
    BY <1>8 DEF Restart, Live, RunStates, Grown, TypeOK
  <1>9. CASE UNCHANGED vars
    BY <1>9 DEF vars, Grown, request
  <1> QED
    BY <1>1, <1>2, <1>3, <1>4, <1>5, <1>6, <1>7, <1>8, <1>9 DEF Next, Conclude

\* A step that changes what a session waits on, and leaves it waiting, is of a
\* run of it that keeps its lock.
LEMMA ChangeUnderLock ==
    ASSUME TypeOK, LockMatchesRuns, [Next]_vars, NEW s \in Sessions,
           pending'[s] # pending[s], pending'[s] # NoInterrupt
    PROVE  s \in running'
  <1>1. ASSUME NEW r \in Requests, Superstep(r) \/ Suspend(r) \/ Complete(r)
        PROVE  s \in running'
    <2>1. s = target[r] /\ Live(r) /\ running' = running
      BY <1>1 DEF Superstep, Suspend, Complete, Save, TypeOK, Live, RunStates
    <2> QED
      BY <2>1, LiveHoldsLock
  <1>2. ASSUME NEW r \in Requests, CommitDelete(r)
        PROVE  FALSE
    BY <1>2 DEF CommitDelete, TypeOK
  <1>3. ASSUME NEW r \in Requests,
               \/ \E k \in Kinds, z \in Sessions : Arrive(r, k, z)
               \/ Handle(r) \/ Purge(r)
               \/ Begin(r) \/ Report(r) \/ Fail(r) \/ Receive(r) \/ Disconnect(r)
        PROVE  pending' = pending
    BY <1>3 DEF Arrive, Handle, ReadPending, Refuse, RejectBody, Launch, Purge,
                Begin, Report, Fail, CloseWith, Receive, Disconnect, db
  <1>4. Restart \/ UNCHANGED vars => pending' = pending
    BY DEF Restart, vars, db
  <1> QED
    BY <1>1, <1>2, <1>3, <1>4 DEF Next, Delete, Conclude

\* A run that gives its session's lock back has announced the interrupt the
\* session waits on, failed, or been killed.
LEMMA ReleaseAnnounces ==
    ASSUME TypeOK, LockMatchesRuns, [Next]_vars, NEW s \in Sessions,
           s \in running, s \notin running', pending'[s] # NoInterrupt
    PROVE  \E r \in Requests : target'[r] = s /\ (pc'[r] = "killed" \/ Announced(r, pending[s])')
  <1>1. ASSUME NEW r \in Requests, Report(r)
        PROVE  target'[r] = s /\ Announced(r, pending[s])'
    <2>1. s = target[r] /\ target' = target /\ pending' = pending
      BY <1>1 DEF Report, CloseWith, Release, request, db
    <2>2. PICK i \in Nat : i = pending[s]
      BY DEF TypeOK
    <2>3. Outcome(i) \in Seq(Events)
      BY OutcomeType
    <2>4. PICK k \in DOMAIN Outcome(i) : Outcome(i)[k] = Event("interrupt", i)
      BY <2>1, <2>2, OutcomeAnnounces
    <2>5. \E j \in DOMAIN stream'[r] : stream'[r][j] = Outcome(i)[k]
      BY <1>1, <2>1, <2>2, <2>3, CloseGrows DEF Report, Live, RunStates
    <2> QED
      BY <2>1, <2>2, <2>4, <2>5 DEF Announced
  <1>2. ASSUME NEW r \in Requests, Fail(r)
        PROVE  target'[r] = s /\ Announced(r, pending[s])'
    <2>1. s = target[r] /\ target' = target
      BY <1>2 DEF Fail, CloseWith, Release, request
    <2> DEFINE e == <<Event("error", 0)>>
    <2>2. e \in Seq(Events) /\ 1 \in DOMAIN e /\ e[1] = Event("error", 0)
      BY EventType DEF EventTypes
    <2>3. CloseWith(r, e) /\ Live(r)
      BY <1>2 DEF Fail, Live, RunStates
    <2> HIDE DEF e
    <2>4. \E j \in DOMAIN stream'[r] : stream'[r][j] = e[1]
      BY <2>2, <2>3, CloseGrows
    <2> QED
      BY <2>1, <2>2, <2>4 DEF Announced
  <1>3. CASE Restart
    <2>1. PICK r \in RunsOf(s) : TRUE
      BY DEF LockMatchesRuns
    <2>2. r \in Requests /\ Live(r) /\ target[r] = s
      BY DEF RunsOf
    <2>3. pc'[r] = "killed" /\ target'[r] = s
      BY <1>3, <2>2 DEF Restart
    <2> QED
      BY <2>2, <2>3
  <1>4. ASSUME NEW r \in Requests,
               \/ \E k \in Kinds, z \in Sessions : Arrive(r, k, z)
               \/ Handle(r) \/ Delete(r) \/ Begin(r) \/ Suspend(r) \/ Complete(r)
               \/ Superstep(r) \/ Receive(r) \/ Disconnect(r)
        PROVE  FALSE
    BY <1>4 DEF Arrive, Handle, ReadPending, Refuse, RejectBody, Launch, TryAcquire, Delete,
                Purge, CommitDelete, Begin, Suspend, Complete, Superstep,
                Receive, Disconnect
  <1>5. UNCHANGED vars => running' = running
    BY DEF vars
  <1> QED
    BY <1>1, <1>2, <1>3, <1>4, <1>5 DEF Next, Conclude

LEMMA AnnouncedInit == Init => IdleSilent /\ NoSilentInterrupt
  BY DEF Init, IdleSilent, NoSilentInterrupt

LEMMA AnnouncedStep ==
    TypeOK /\ LockMatchesRuns /\ IdleSilent /\ NoSilentInterrupt /\ [Next]_vars
      => IdleSilent' /\ NoSilentInterrupt'
  <1> SUFFICES ASSUME TypeOK, LockMatchesRuns, IdleSilent, NoSilentInterrupt, [Next]_vars
               PROVE  IdleSilent' /\ NoSilentInterrupt'
    OBVIOUS
  <1>1. Grown
    BY StepGrows
  <1>2. IdleSilent'
    BY <1>1 DEF Grown, IdleSilent
  <1>3. ASSUME NEW s \in Sessions, pending'[s] # NoInterrupt, s \notin running'
        PROVE  \E r \in Requests :
                  target'[r] = s /\ (pc'[r] = "killed" \/ Announced(r, pending[s])')
    <2>1. CASE s \in running
      BY <1>3, <2>1, ReleaseAnnounces
    <2>2. CASE s \notin running
      <3>1. pending'[s] = pending[s]
        BY <1>3, ChangeUnderLock
      <3>2. PICK r \in Requests :
              target[r] = s /\ (pc[r] = "killed" \/ Announced(r, pending[s]))
        BY <1>3, <2>2, <3>1 DEF NoSilentInterrupt, Announced
      <3>3. pc[r] # "idle"
        BY <3>2 DEF IdleSilent, Announced
      <3>4. Announced(r, pending[s]) => Announced(r, pending[s])'
        BY <1>1, <3>1 DEF Grown, Announced
      <3> QED
        BY <1>1, <3>2, <3>3, <3>4 DEF Grown
    <2> QED
      BY <2>1, <2>2
  <1> QED
    BY <1>2, <1>3 DEF NoSilentInterrupt, Announced

\* No session waits silently: the interrupt it waits on was put on the stream of
\* a run of it, unless a run of it failed or was killed, for any number of
\* sessions, requests and restarts (chat/turn.py:162-180).
THEOREM InterruptAnnounced == Spec => []NoSilentInterrupt
  BY AnnouncedInit, AnnouncedStep, TypeCorrect, LockCorrect, PTL DEF Spec


-----------------------------------------------------------------------------
(* Every response is whole.                                                *)

\* What a run has put on its queue shows how far it is.
Said(r) ==
    CASE pc[r] \in {"streaming", "drained"} -> stream[r] = Answered(r)!Opening
      [] pc[r] = "closed" -> Answered(r)!Whole(stream[r])
      [] pc[r] = "killed" -> stream[r] \in {<< >>, Answered(r)!Opening}
      [] OTHER            -> stream[r] = << >>

\* The sentinel is on whole streams only.
LEMMA Sentinel ==
    ASSUME NEW r \in Requests, Said(r), \E k \in DOMAIN stream[r] : stream[r][k].type = "STREAM_DONE"
    PROVE  pc[r] = "closed"
  <1>1. \A k \in DOMAIN Answered(r)!Opening : Answered(r)!Opening[k].type # "STREAM_DONE"
    BY DEF Answered!Opening, Answered!Event
  <1>2. \A k \in DOMAIN << >> : FALSE
    OBVIOUS
  <1>3. QED
    BY <1>1, <1>2 DEF Said

\* What a step leaves alone of a request changes nothing of its response.
LEMMA Untouched ==
    ASSUME NEW r \in Requests, Said(r), pc'[r] = pc[r], stream'[r] = stream[r],
           r \in reading' <=> r \in reading
    PROVE  Said(r)' /\ Answered(r)!Step
  <1>1. Said(r)'
    BY DEF Said, Answered!Opening, Answered!Whole, Answered!Event, Answered!Done
  <1>2. Stage(r)' = Stage(r)
    BY DEF Stage, Live
  <1>3. (r \notin reading)' = (r \notin reading)
    OBVIOUS
  <1>4. QED
    BY <1>1, <1>2, <1>3 DEF Answered!Step, Answered!vars

\* Nor do steps of a handler that ask and answer without a run, or accept one.
LEMMA Handled ==
    ASSUME NEW r \in Requests, Said(r), stream'[r] = stream[r], r \in reading' <=> r \in reading,
           \/ pc[r] = "idle" /\ pc'[r] \in {"owned", "refused"}
           \/ pc[r] = "owned" /\ pc'[r] \in {"read", "purged", "lost"}
           \/ pc[r] = "read" /\ pc'[r] \in {"refused", "launched", "lost"}
           \/ pc[r] = "purged" /\ pc'[r] \in {"deleted", "lost"}
    PROVE  Said(r)' /\ Answered(r)!Step
  <1>1. (r \notin reading)' = (r \notin reading)
    OBVIOUS
  <1>2. Said(r)'
    BY DEF Said
  <1>3. \/ Stage(r) = "new" /\ Stage(r)' \in {"handled", "answered"}
        \/ Stage(r) = "handled" /\ Stage(r)' \in {"handled", "answered", "running"}
    BY DEF Stage, Live, RunStates
  <1>4. QED
    BY <1>1, <1>2, <1>3 DEF Answered!Step, Answered!Next, Answered!Handle, Answered!vars

\* The stream of a run that asks, put together.
LEMMA FourEvents ==
    ASSUME NEW S, NEW a \in S, NEW b \in S, NEW c \in S, NEW d \in S
    PROVE  <<a>> \o (<<b, c>> \o <<d>>) = <<a, b, c, d>>
  <1> DEFINE s == <<a>> \o (<<b, c>> \o <<d>>)
             t == <<a, b, c, d>>
  <1>1. <<b, c>> \o <<d>> \in Seq(S) /\ <<a>> \in Seq(S) /\ s \in Seq(S) /\ t \in Seq(S)
    OBVIOUS
  <1>2. Len(s) = 4 /\ s[1] = a /\ s[2] = b /\ s[3] = c /\ s[4] = d
    BY <1>1
  <1>3. Len(t) = 4 /\ \A i \in 1..4 : s[i] = t[i]
    BY <1>2
  <1> HIDE DEF s, t
  <1>4. s = t
    BY <1>1, <1>2, <1>3, SeqEqual
  <1>5. QED
    BY <1>4 DEF s, t

\* A run closes its stream once, with one of its outcomes.
LEMMA Closes ==
    ASSUME TypeOK, NEW r \in Requests, Said(r), pc[r] \in {"streaming", "drained"},
           NEW events, CloseWith(r, events),
           \/ events = <<Event("error", 0)>>
           \/ \E i \in Nat : events = Outcome(i)
    PROVE  Said(r)' /\ Answered(r)!Step
  <1>1. /\ pc'[r] = "closed" /\ reading' = reading
        /\ stream'[r] = stream[r] \o (events \o <<Event("STREAM_DONE", 0)>>)
    BY DEF CloseWith, Put, TypeOK
  <1>2. stream[r] = <<Event("turn_started", 0)>>
    BY DEF Said, Answered!Opening, Answered!Event, Event
  <1>3. Answered(r)!Whole(stream'[r])
    <2>1. CASE events = <<Event("error", 0)>> \/ events = <<Event("completed", 0)>>
      BY <1>1, <1>2, <2>1 DEF Answered!Whole, Answered!Opening, Answered!Done, Answered!Event, Event
    <2>2. ASSUME NEW i \in Nat \ {0}, events = <<Event("interrupt", i), Event("interrupted", 0)>>
          PROVE  Answered(r)!Whole(stream'[r])
      <3>1. stream'[r] = <<Event("turn_started", 0), Event("interrupt", i),
                           Event("interrupted", 0), Event("STREAM_DONE", 0)>>
        <4>1. PICK a, b, c, d \in Events :
                 /\ a = Event("turn_started", 0) /\ b = Event("interrupt", i)
                 /\ c = Event("interrupted", 0) /\ d = Event("STREAM_DONE", 0)
          BY EventType DEF EventTypes
        <4>2. stream'[r] = <<a>> \o (<<b, c>> \o <<d>>)
          BY <1>1, <1>2, <2>2, <4>1
        <4>3. <<a>> \o (<<b, c>> \o <<d>>) = <<a, b, c, d>>
          BY FourEvents
        <4>4. QED
          BY <4>1, <4>2, <4>3
      <3>2. /\ Len(stream'[r]) = 4
            /\ stream'[r][2] = Event("interrupt", i)
        BY <3>1
      <3>3. stream'[r][2].type = "interrupt" /\ stream'[r][2].id # 0
        BY <3>2 DEF Event
      <3>4. QED
        BY <3>1, <3>2, <3>3 DEF Answered!Whole, Answered!Opening, Answered!Done, Answered!Event, Event
    <2>3. QED
      BY <2>1, <2>2 DEF Outcome
  <1>4. Said(r)'
    BY <1>1, <1>3 DEF Said, Answered!Whole
  <1>5. Stage(r) = "running" /\ Stage(r)' = "ended"
    BY <1>1 DEF Stage, Live, RunStates
  <1>6. (r \notin reading)' = (r \notin reading)
    BY <1>1
  <1>7. stream[r] = Answered(r)!Opening
    BY DEF Said
  <1>8. QED
    BY <1>3, <1>4, <1>5, <1>6, <1>7 DEF Answered!Step, Answered!Next, Answered!Close

LEMMA ResponseInit == Init => \A r \in Requests : Said(r) /\ Answered(r)!Init
  BY DEF Init, Said, Answered!Init, Stage, Live, RunStates

LEMMA ResponseStep ==
    ASSUME TypeOK, [Next]_vars, NEW q \in Requests, Said(q)
    PROVE  Said(q)' /\ Answered(q)!Step
  <1>1. ASSUME NEW r \in Requests, r # q,
               \/ \E k \in Kinds, s \in Sessions : Arrive(r, k, s)
               \/ Handle(r) \/ Delete(r) \/ Begin(r) \/ Suspend(r) \/ Complete(r)
               \/ Superstep(r) \/ Receive(r) \/ Disconnect(r)
        PROVE  pc'[q] = pc[q] /\ stream'[q] = stream[q] /\ (q \in reading' <=> q \in reading)
    BY <1>1 DEF Arrive, Handle, ReadPending, Refuse, RejectBody, Launch, Answer, Delete, Purge,
                CommitDelete, Begin, Suspend, Complete, Superstep, Receive,
                Disconnect, Put, TypeOK, request
  <1>2. ASSUME NEW r \in Requests, r # q, Report(r) \/ Fail(r)
        PROVE  pc'[q] = pc[q] /\ stream'[q] = stream[q] /\ (q \in reading' <=> q \in reading)
    BY <1>2 DEF Report, Fail, CloseWith, Put, TypeOK
  <1>3. ASSUME NEW k \in Kinds, NEW s \in Sessions, Arrive(q, k, s)
        PROVE  Said(q)' /\ Answered(q)!Step
    BY <1>3, Handled DEF Arrive, TypeOK
  <1>4. CASE Handle(q)
    BY <1>4, Handled DEF Handle, ReadPending, Refuse, RejectBody, Launch, Answer, TypeOK
  <1>5. CASE Delete(q)
    BY <1>5, Handled DEF Delete, Purge, CommitDelete, TypeOK
  <1>6. CASE Begin(q)
    <2>1. /\ pc[q] = "launched" /\ pc'[q] = "streaming" /\ reading' = reading
          /\ stream'[q] = stream[q] \o <<Event("turn_started", 0)>>
      BY <1>6 DEF Begin, Put, TypeOK
    <2>2. stream[q] = << >>
      BY <2>1 DEF Said
    <2>3. stream'[q] = Answered(q)!Opening
      BY <2>1, <2>2 DEF Answered!Opening, Answered!Event, Event
    <2>4. Said(q)'
      BY <2>1, <2>3 DEF Said, Answered!Opening
    <2>5. Stage(q) = "running" /\ Stage(q)' = "running"
      BY <2>1 DEF Stage, Live, RunStates
    <2>6. (q \notin reading)' = (q \notin reading)
      BY <2>1
    <2>7. QED
      BY <2>2, <2>3, <2>4, <2>5, <2>6 DEF Answered!Step, Answered!Next, Answered!Open
  <1>7. CASE Suspend(q) \/ Complete(q)
    <2>1. pc[q] = "streaming" /\ pc'[q] = "drained" /\ stream' = stream /\ reading' = reading
      BY <1>7 DEF Suspend, Complete, TypeOK
    <2>2. Said(q)'
      BY <2>1 DEF Said, Answered!Opening
    <2>3. Stage(q)' = Stage(q) /\ (q \notin reading)' = (q \notin reading)
      BY <2>1 DEF Stage, Live, RunStates
    <2>4. QED
      BY <2>1, <2>2, <2>3 DEF Answered!Step, Answered!vars
  <1>8. CASE Report(q)
    <2>1. pending[target[q]] \in Nat
      BY DEF TypeOK
    <2>2. QED
      BY <1>8, <2>1, Closes DEF Report
  <1>9. CASE Fail(q)
    BY <1>9, Closes DEF Fail
  <1>10. CASE Superstep(q)
    BY <1>10, Untouched DEF Superstep
  <1>11. CASE Receive(q) \/ Disconnect(q)
    <2>1. pc' = pc /\ stream' = stream /\ q \in reading /\ q \notin reading'
      BY <1>11 DEF Receive, Disconnect
    <2>2. pc[q] \in RunStates \cup {"closed"}
      BY <1>11, Sentinel DEF Receive, Disconnect, Live
    <2>3. Said(q)'
      BY <2>1 DEF Said, Answered!Opening, Answered!Whole
    <2>4. Stage(q)' = Stage(q) /\ Stage(q) \in {"running", "ended"}
      BY <2>1, <2>2 DEF Stage, Live, RunStates
    <2>5. (q \notin reading)' = TRUE /\ (q \notin reading) = FALSE
      BY <2>1
    <2>6. QED
      BY <2>1, <2>3, <2>4, <2>5 DEF Answered!Step, Answered!Next, Answered!Leave
  <1>12. CASE Restart
    <2>1. /\ stream' = stream /\ reading' = reading
          /\ pc'[q] = IF Live(q) THEN "killed"
                      ELSE IF pc[q] \in {"owned", "read", "purged"} THEN "lost" ELSE pc[q]
      BY <1>12 DEF Restart
    <2>2. CASE Live(q)
      <3>1. stream[q] \in {<< >>, Answered(q)!Opening}
        BY <2>2 DEF Said, Live, RunStates
      <3>2. Said(q)'
        BY <2>1, <2>2, <3>1 DEF Said, Answered!Opening
      <3>3. Stage(q) = "running" /\ Stage(q)' = "broken"
        BY <2>1, <2>2 DEF Stage, Live, RunStates
      <3>4. (q \notin reading)' = (q \notin reading)
        BY <2>1
      <3>5. QED
        BY <2>1, <3>2, <3>3, <3>4 DEF Answered!Step, Answered!Next, Answered!Break
    <2>3. CASE pc[q] \in {"owned", "read", "purged"}
      BY <2>1, <2>3, Handled DEF Live, RunStates
    <2>4. CASE ~Live(q) /\ pc[q] \notin {"owned", "read", "purged"}
      BY <2>1, <2>4, Untouched
    <2>5. QED
      BY <2>2, <2>3, <2>4
  <1>13. CASE UNCHANGED vars
    BY <1>13, Untouched DEF vars
  <1>14. QED
    BY <1>1, <1>2, <1>3, <1>4, <1>5, <1>6, <1>7, <1>8, <1>9, <1>10, <1>11, <1>12, <1>13,
       Untouched DEF Next, Conclude

(***************************************************************************)
(* Whatever arrives beside it, whatever restarts and whoever disconnects,  *)
(* a request is answered once, and the stream of a run it launches opens,  *)
(* tells one outcome, closes and is never written to again                 *)
(* (app/chat/turn.py:74-191, app/api/routes/chat.py:62-67).                *)
(***************************************************************************)
THEOREM ResponsesWhole == \A r \in Requests : Spec => Answered(r)!Spec
  <1> SUFFICES ASSUME NEW r \in Requests PROVE Spec => Answered(r)!Spec
    OBVIOUS
  <1>1. Init => Said(r) /\ Answered(r)!Init
    BY ResponseInit
  <1>2. TypeOK /\ Said(r) /\ [Next]_vars
          => Said(r)' /\ [Answered(r)!Next]_(Answered(r)!vars)
    BY ResponseStep DEF Answered!Step
  <1>3. QED
    BY <1>1, <1>2, TypeCorrect, PTL DEF Spec, Answered!Spec

=============================================================================
