----------------------------- MODULE Workspace ------------------------------
(***************************************************************************)
(* Projects, sessions and the checkpoints of their chat runs: the routes   *)
(* of projects.py over data/repository.py.  Each request is one            *)
(* transaction, in PostgreSQL's READ COMMITTED, and any number of them are *)
(* open at once.  The rows of projects and sessions are bound by foreign   *)
(* keys; the checkpoints are not, and only a purge before the deletion     *)
(* takes them away.  Chat runs save them meanwhile, over connections of    *)
(* their own; how a session's runs are kept one at a time is in            *)
(* ChatSession.                                                            *)
(***************************************************************************)
EXTENDS Naturals, FiniteSets

CONSTANTS
    Projects,  \* project ids
    Sessions,  \* session ids
    Requests,  \* request handlers, one at a time each
    MaxSaves,  \* bound: checkpoint rows saved
    None       \* a model value: no request, or no session yet

ASSUME MaxSavesIsNat == MaxSaves \in Nat

VARIABLES
    project,  \* project[p]: its row is yet to come, there, or deleted
    session,  \* session[s]: the same of a session's row
    home,     \* home[s]: the project of session s
    rows,     \* the committed checkpoint rows
    saves,    \* rows saved so far; numbers them
    runs,     \* the sessions with a chat run
    tx,       \* tx[r]: the request r handles and its transaction
    saved,    \* history: every row ever saved
    overlap   \* history: sessions with a run alive when a deletion purged
              \* them, or launched later

vars == <<project, session, home, rows, saves, runs, tx, saved, overlap>>

\* "own" is the session's thread, "derived" one named with its prefix.
Threads  == {"own", "derived"}
Row      == [session : Sessions, thread : Threads, n : 1..MaxSaves]
RowState == {"new", "there", "gone"}

Operations == {"create", "delete_session", "delete_project", "turn"}
\* `list' holds the sessions to purge, `doomed' the rows its purges deleted.
Tx   == [op : Operations, at : {"owned", "purging", "deleted", "inserted"},
         p : Projects, s : Sessions \cup {None}, list : SUBSET Sessions,
         purged : SUBSET Sessions, doomed : SUBSET Row]

ASSUME NoneIsNoTx == None \notin Tx

TypeOK ==
    /\ project \in [Projects -> RowState]
    /\ session \in [Sessions -> RowState]
    /\ home \in [Sessions -> Projects]
    /\ rows \subseteq Row
    /\ saves \in 0..MaxSaves
    /\ runs \subseteq Sessions
    /\ tx \in [Requests -> Tx \cup {None}]
    /\ saved \subseteq Row
    /\ overlap \subseteq Sessions

Init ==
    /\ project = [p \in Projects |-> "new"]
    /\ session = [s \in Sessions |-> "new"]
    /\ home \in [Sessions -> Projects]
    /\ rows = {}
    /\ saves = 0
    /\ runs = {}
    /\ tx = [r \in Requests |-> None]
    /\ saved = {}
    /\ overlap = {}

RowsOf(s)   == {w \in rows : w.session = s}
SessionsOf(p) == {s \in Sessions : session[s] = "there" /\ home[s] = p}

Busy(r)     == tx[r] # None
At(r, op, at) == Busy(r) /\ tx[r].op = op /\ tx[r].at = at

-----------------------------------------------------------------------------
(* Requests that own what they are about.                                  *)

Begin(r, op, p, s) ==
    /\ ~Busy(r)
    /\ tx' = [tx EXCEPT ![r] = [op |-> op, at |-> "owned", p |-> p, s |-> s,
                                list |-> {}, purged |-> {}, doomed |-> {}]]
    /\ UNCHANGED <<project, session, home, rows, saves, runs, saved, overlap>>

\* get_owned_project; anything but a row that is there is answered 404.
OpenProject(r, op, p) ==
    /\ op \in {"create", "delete_project"}
    /\ project[p] = "there"
    /\ Begin(r, op, p, None)

\* get_owned_session: the session's row, then its project's.
OpenSession(r, op, s) ==
    /\ op \in {"delete_session", "turn"}
    /\ session[s] = "there"
    /\ project[home[s]] = "there"
    /\ Begin(r, op, home[s], s)

Close(r) == tx' = [tx EXCEPT ![r] = None]

CreateProject(p) ==
    /\ project[p] = "new"
    /\ project' = [project EXCEPT ![p] = "there"]
    /\ UNCHANGED <<session, home, rows, saves, runs, tx, saved, overlap>>

-----------------------------------------------------------------------------
(* create_session.                                                         *)

\* Another transaction has deleted the row of p, or of s, and is still open.
ProjectLocked(p) == \E r \in Requests : At(r, "delete_project", "deleted") /\ tx[r].p = p
SessionLocked(s) == \/ \E r \in Requests : At(r, "delete_session", "deleted") /\ tx[r].s = s
                    \/ ProjectLocked(home[s])

\* The foreign key holds the project's row until the insertion is committed.
ProjectHeld(p) == \E r \in Requests : At(r, "create", "inserted") /\ tx[r].p = p

Insert(r) ==
    /\ At(r, "create", "owned")
    /\ ~ProjectLocked(tx[r].p)
    /\ \/ /\ project[tx[r].p] = "there"
          /\ \E s \in Sessions :
               /\ session[s] = "new" /\ home[s] = tx[r].p
               /\ \A q \in Requests : ~(At(q, "create", "inserted") /\ tx[q].s = s)
               /\ tx' = [tx EXCEPT ![r].at = "inserted", ![r].s = s]
       \/ \* The foreign key is violated.
          /\ project[tx[r].p] # "there"
          /\ Close(r)
    /\ UNCHANGED <<project, session, home, rows, saves, runs, saved, overlap>>

CommitInsert(r) ==
    /\ At(r, "create", "inserted")
    /\ session' = [session EXCEPT ![tx[r].s] = "there"]
    /\ Close(r)
    /\ UNCHANGED <<project, home, rows, saves, runs, saved, overlap>>

-----------------------------------------------------------------------------
(* delete_session and delete_project.                                      *)

\* Mutant: a project is purged as a session is.
ToPurgeOne(r) == {tx[r].s}

\* The sessions to purge: list_by_project, or the one asked for.
ToPurge(r) == IF tx[r].op = "delete_session" THEN {tx[r].s} ELSE SessionsOf(tx[r].p)

List(r) ==
    /\ At(r, "delete_session", "owned") \/ At(r, "delete_project", "owned")
    /\ tx' = [tx EXCEPT ![r].at = "purging", ![r].list = ToPurge(r)]
    /\ UNCHANGED <<project, session, home, rows, saves, runs, saved, overlap>>

\* Mutant: the thread of the session only, not those named with its prefix.
TreeOwnOnly(s) == {w \in RowsOf(s) : w.thread = "own"}

\* thread_id = :sid OR thread_id LIKE :prefix, in each of the three tables.
Tree(s) == {w \in RowsOf(s) : w.thread \in Threads}

\* purge_thread_tree.  It waits for rows another transaction has deleted.
Purge(r, s) ==
    /\ Busy(r) /\ tx[r].at = "purging"
    /\ s \in tx[r].list \ tx[r].purged
    /\ \A q \in Requests \ {r} : Busy(q) => tx[q].doomed \cap Tree(s) = {}
    /\ tx' = [tx EXCEPT ![r].purged = @ \cup {s}, ![r].doomed = @ \cup Tree(s)]
    /\ overlap' = overlap \cup (runs \cap {s})
    /\ UNCHANGED <<project, session, home, rows, saves, runs, saved>>

Purged(r) == tx[r].purged = tx[r].list

\* SessionRepo.delete and ProjectRepo.delete, the rows below included.  The
\* rows are locked until the end of the transaction; a row another one has
\* deleted meanwhile is not missed.
DeleteRows(r) ==
    /\ Busy(r) /\ tx[r].at = "purging"
    /\ Purged(r)
    /\ IF tx[r].op = "delete_session" THEN ~SessionLocked(tx[r].s)
       ELSE /\ ~ProjectLocked(tx[r].p) /\ ~ProjectHeld(tx[r].p)
            /\ \A s \in SessionsOf(tx[r].p) : ~SessionLocked(s)
    /\ tx' = [tx EXCEPT ![r].at = "deleted"]
    /\ UNCHANGED <<project, session, home, rows, saves, runs, saved, overlap>>

\* The sessions a deletion takes: its own, or all of the project's, those
\* created since the listing too (ON DELETE CASCADE).
Takes(r, s) == IF tx[r].op = "delete_session" THEN s = tx[r].s ELSE home[s] = tx[r].p

\* The purges and the deletion become visible together.
CommitDelete(r) ==
    /\ Busy(r) /\ tx[r].at = "deleted"
    /\ project' = [project EXCEPT ![tx[r].p] = IF tx[r].op = "delete_project" THEN "gone" ELSE @]
    /\ session' = [s \in Sessions |-> IF session[s] = "there" /\ Takes(r, s) THEN "gone" ELSE session[s]]
    /\ rows' = rows \ tx[r].doomed
    /\ Close(r)
    /\ UNCHANGED <<home, saves, runs, saved, overlap>>

\* The transaction ends before its commit: the database breaks a deadlock, a
\* connection is lost, a statement fails.
Abort(r) ==
    /\ Busy(r)
    /\ Close(r)
    /\ UNCHANGED <<project, session, home, rows, saves, runs, saved, overlap>>

-----------------------------------------------------------------------------
(* Chat runs.                                                              *)

\* A deletion under way that has purged s, or has not listed it.
Purging(r, s) == Busy(r) /\ \/ s \in tx[r].purged
                            \/ /\ tx[r].op = "delete_project" /\ tx[r].at # "owned"
                               /\ home[s] = tx[r].p /\ s \notin tx[r].list

\* create_turn and resume_turn, some time after they have found the session.
Launch(r) ==
    /\ At(r, "turn", "owned")
    /\ LET s == tx[r].s IN
         /\ runs' = runs \cup {s}
         /\ overlap' = IF session[s] # "there" \/ \E q \in Requests : Purging(q, s)
                       THEN overlap \cup ({s} \ runs) ELSE overlap
    /\ Close(r)
    /\ UNCHANGED <<project, session, home, rows, saves, saved>>

\* The run's checkpointer saves a row, whatever has become of the session.
Save(s, t) ==
    /\ s \in runs
    /\ saves < MaxSaves
    /\ saves' = saves + 1
    /\ LET w == [session |-> s, thread |-> t, n |-> saves + 1] IN
         /\ rows' = rows \cup {w}
         /\ saved' = saved \cup {w}
    /\ UNCHANGED <<project, session, home, runs, tx, overlap>>

EndRun(s) ==
    /\ s \in runs
    /\ runs' = runs \ {s}
    /\ UNCHANGED <<project, session, home, rows, saves, tx, saved, overlap>>

\* The server stops: its transactions are rolled back, its runs are lost.
Restart ==
    /\ tx' = [r \in Requests |-> None]
    /\ runs' = {}
    /\ UNCHANGED <<project, session, home, rows, saves, saved, overlap>>

Next ==
    \/ \E p \in Projects : CreateProject(p)
    \/ \E r \in Requests :
         \/ \E op \in Operations, p \in Projects : OpenProject(r, op, p)
         \/ \E op \in Operations, s \in Sessions : OpenSession(r, op, s)
         \/ Insert(r) \/ CommitInsert(r)
         \/ List(r) \/ DeleteRows(r) \/ CommitDelete(r) \/ Abort(r)
         \/ Launch(r)
         \/ \E s \in Sessions : Purge(r, s)
    \/ \E s \in Sessions :
         \/ \E t \in Threads : Save(s, t)
         \/ EndRun(s)
    \/ Restart

Spec == Init /\ [][Next]_vars

-----------------------------------------------------------------------------
(* Properties.                                                             *)

\* A session whose row is there has its project, and every checkpoint ever
\* saved for it, although deletions of it were begun and given up; one whose
\* row is gone has no checkpoint left, unless a run of it was alive when it
\* was purged or was launched later (projects.py:64, data/repository.py:138).
TreesFollowSessions ==
    \A s \in Sessions :
        /\ session[s] = "there" => /\ project[home[s]] = "there"
                                  /\ {w \in saved : w.session = s} \subseteq rows
        /\ session[s] = "gone" /\ s \notin overlap => RowsOf(s) = {}
=============================================================================
