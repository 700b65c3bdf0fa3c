-------------------------- MODULE Workspace_proofs -------------------------
(***************************************************************************)
(* A deletion is whole: for any number of projects, sessions and requests, *)
(* the checkpoint trees follow the session rows, but for the runs that a   *)
(* deletion overlaps.                                                      *)
(*                                                                         *)
(* The argument: once a deletion has purged a session, or has passed it by *)
(* because it was not there to list, the session has no row outside what   *)
(* the deletion takes, unless a run is or gets alive; and what a           *)
(* transaction has doomed belongs to sessions its commit deletes.          *)
(***************************************************************************)
EXTENDS Workspace, TLAPS

-----------------------------------------------------------------------------
(* The inductive invariant.                                                *)

\* What is true of the record of a request under way.
Sound(x) ==
    /\ x.purged \subseteq x.list
    /\ \A w \in x.doomed : w.session \in x.purged
    /\ \A s \in x.list : /\ session[s] # "new"
                         /\ IF x.op = "delete_session" THEN s = x.s ELSE home[s] = x.p
    /\ x.op \in {"delete_session", "turn"} => x.s \in Sessions /\ session[x.s] # "new"
    /\ x.op \in {"create", "turn"} => x.at \notin {"purging", "deleted"}
    /\ x.at \in {"owned", "inserted"} => x.list = {}
    /\ x.at \in {"purging", "deleted"} /\ x.op = "delete_session" => x.list = {x.s}
    /\ x.at = "deleted" => x.purged = x.list
    /\ x.at = "inserted" => /\ x.op = "create" /\ x.s \in Sessions
                            /\ session[x.s] = "new" /\ home[x.s] = x.p
                            /\ project[x.p] = "there"

TxInv == \A r \in Requests : tx[r] # None => Sound(tx[r])

\* The foreign key and the unique id keep these transactions apart.
Apart(x, y) ==
    /\ ~( /\ x.op = "delete_project" /\ x.at = "deleted"
          /\ y.op = "create" /\ y.at = "inserted" /\ x.p = y.p)
    /\ ~(x.op = "create" /\ x.at = "inserted" /\ y.op = "create" /\ y.at = "inserted" /\ x.s = y.s)

LockInv ==
    \A q, r \in Requests : q # r /\ tx[q] # None /\ tx[r] # None => Apart(tx[q], tx[r])

\* A deletion has taken all there is of a session it has dealt with.
PurgeInv ==
    \A r \in Requests, s \in Sessions :
        Purging(r, s) /\ s \notin overlap => s \notin runs /\ RowsOf(s) \subseteq tx[r].doomed

GoneInv ==
    \A s \in Sessions : session[s] = "gone" /\ s \notin overlap => s \notin runs /\ RowsOf(s) = {}

NewInv ==
    \A s \in Sessions : session[s] = "new" => s \notin runs /\ \A w \in saved : w.session # s

SavedInv == rows \subseteq saved

WInv ==
    /\ TypeOK
    /\ TxInv
    /\ LockInv
    /\ PurgeInv
    /\ GoneInv
    /\ NewInv
    /\ SavedInv
    /\ TreesFollowSessions

-----------------------------------------------------------------------------
(* Records and requests.                                                   *)

LEMMA TxType ==
    ASSUME TypeOK, NEW r \in Requests, Busy(r)
    PROVE  tx[r] \in Tx
  BY DEF TypeOK, Busy

\* A step of one request that writes no row keeps the invariant, if the record
\* it leaves is sound, apart from the others, and passes no session by.
LEMMA TxStep ==
    ASSUME WInv, NEW r \in Requests, NEW y \in Tx \cup {None},
           tx' = [tx EXCEPT ![r] = y],
           UNCHANGED <<project, session, home, rows, saves, runs, saved, overlap>>,
           y # None => /\ Sound(y)
                       /\ \A q \in Requests \ {r} :
                             tx[q] # None => Apart(tx[q], y) /\ Apart(y, tx[q])
                       /\ \A s \in Sessions :
                             /\ \/ s \in y.purged
                                \/ /\ y.op = "delete_project" /\ y.at # "owned"
                                   /\ home[s] = y.p /\ s \notin y.list
                             /\ s \notin overlap
                             => s \notin runs /\ RowsOf(s) \subseteq y.doomed
    PROVE  WInv'
  <1>1. TypeOK'
    BY DEF WInv, TypeOK
  <1>2. tx'[r] = y /\ \A q \in Requests \ {r} : tx'[q] = tx[q]
    BY DEF WInv, TypeOK
  <1>3. TxInv'
    <2> SUFFICES ASSUME NEW q \in Requests, tx'[q] # None PROVE Sound(tx[q])'
      BY DEF TxInv
    <2>1. Sound(tx'[q])
      BY <1>2 DEF WInv, TxInv
    <2> QED
      BY <2>1 DEF Sound
  <1>4. LockInv'
    <2> SUFFICES ASSUME NEW p \in Requests, NEW q \in Requests, p # q,
                        tx'[p] # None, tx'[q] # None
                 PROVE  Apart(tx'[p], tx'[q])
      BY DEF LockInv, Apart
    <2> QED
      BY <1>2 DEF WInv, LockInv
  <1>5. PurgeInv'
    <2> SUFFICES ASSUME NEW q \in Requests, NEW s \in Sessions, Purging(q, s)', s \notin overlap
                 PROVE  s \notin runs /\ RowsOf(s) \subseteq tx'[q].doomed
      BY DEF PurgeInv, RowsOf
    <2>1. CASE q = r
      BY <1>2, <2>1 DEF Purging, Busy
    <2>2. CASE q # r
      BY <1>2, <2>2 DEF Purging, Busy, WInv, PurgeInv
    <2> QED
      BY <2>1, <2>2
  <1>6. GoneInv' /\ NewInv' /\ SavedInv' /\ TreesFollowSessions'
    BY DEF WInv, GoneInv, NewInv, SavedInv, TreesFollowSessions, RowsOf
  <1> QED
    BY <1>1, <1>3, <1>4, <1>5, <1>6 DEF WInv

LEMMA CloseStep ==
    ASSUME WInv, NEW r \in Requests, Close(r),
           UNCHANGED <<project, session, home, rows, saves, runs, saved, overlap>>
    PROVE  WInv'
  BY TxStep DEF Close

LEMMA BeginStep ==
    ASSUME WInv, NEW r \in Requests, NEW op \in Operations, NEW p \in Projects,
           NEW s \in Sessions \cup {None}, Begin(r, op, p, s),
           op \in {"delete_session", "turn"} => s \in Sessions /\ session[s] # "new"
    PROVE  WInv'
  <1> DEFINE y == [op |-> op, at |-> "owned", p |-> p, s |-> s,
                   list |-> {}, purged |-> {}, doomed |-> {}]
  <1>1. /\ y.op = op /\ y.at = "owned" /\ y.p = p /\ y.s = s
        /\ y.list = {} /\ y.purged = {} /\ y.doomed = {}
    OBVIOUS
  <1>2. y \in Tx
    BY DEF Tx
  <1>3. tx' = [tx EXCEPT ![r] = y]
    BY DEF Begin
  <1> HIDE DEF y
  <1>4. Sound(y)
    BY <1>1 DEF Sound
  <1>5. \A x : Apart(x, y) /\ Apart(y, x)
    BY <1>1 DEF Apart
  <1> QED
    BY <1>1, <1>2, <1>3, <1>4, <1>5, TxStep DEF Begin

LEMMA InsertStep ==
    ASSUME WInv, NEW r \in Requests, Insert(r)
    PROVE  WInv'
  <1>1. Busy(r) /\ tx[r] \in Tx /\ Sound(tx[r]) /\ tx[r].op = "create" /\ tx[r].at = "owned"
    BY TxType DEF Insert, At, Busy, WInv, TxInv
  <1>2. CASE Close(r)
    BY <1>2, CloseStep DEF Insert
  <1>3. CASE project[tx[r].p] = "there" /\ ~Close(r)
    <2>1. PICK s \in Sessions :
            /\ session[s] = "new" /\ home[s] = tx[r].p
            /\ \A q \in Requests : ~(At(q, "create", "inserted") /\ tx[q].s = s)
            /\ tx' = [tx EXCEPT ![r].at = "inserted", ![r].s = s]
      BY <1>3 DEF Insert
    <2> DEFINE y == [tx[r] EXCEPT !.at = "inserted", !.s = s]
    <2>2. /\ y.op = "create" /\ y.at = "inserted" /\ y.p = tx[r].p /\ y.s = s
          /\ y.list = tx[r].list /\ y.purged = tx[r].purged /\ y.doomed = tx[r].doomed
          /\ y \in Tx
      BY <1>1 DEF Tx
    <2>3. tx' = [tx EXCEPT ![r] = y]
      BY <2>1, <1>1 DEF Tx, WInv, TypeOK
    <2> HIDE DEF y
    <2>4. Sound(y)
      BY <1>1, <1>3, <2>1, <2>2 DEF Sound
    <2>5. \A q \in Requests \ {r} : tx[q] # None => Apart(tx[q], y) /\ Apart(y, tx[q])
      BY <2>1, <2>2 DEF Apart, At, Busy, Insert, ProjectLocked
    <2>6. y.purged = {}
      BY <1>1, <2>2 DEF Sound
    <2> QED
      BY <2>2, <2>3, <2>4, <2>5, <2>6, TxStep DEF Insert
  <1> QED
    BY <1>2, <1>3 DEF Insert

LEMMA ListStep ==
    ASSUME WInv, NEW r \in Requests, List(r)
    PROVE  WInv'
  <1>1. /\ Busy(r) /\ tx[r] \in Tx /\ Sound(tx[r]) /\ tx[r].at = "owned"
        /\ tx[r].op \in {"delete_session", "delete_project"}
    BY TxType DEF List, At, Busy, WInv, TxInv
  <1>2. tx[r].purged = {} /\ tx[r].doomed = {}
    BY <1>1 DEF Sound
  <1> DEFINE y == [tx[r] EXCEPT !.at = "purging", !.list = ToPurge(r)]
  <1>3. ToPurge(r) \subseteq Sessions
    BY <1>1 DEF ToPurge, SessionsOf, Sound
  <1>4. /\ y.op = tx[r].op /\ y.at = "purging" /\ y.p = tx[r].p /\ y.s = tx[r].s
        /\ y.list = ToPurge(r) /\ y.purged = {} /\ y.doomed = {}
    BY <1>1, <1>2 DEF Tx
  <1>5. y \in Tx
    BY <1>1, <1>3 DEF Tx
  <1>6. tx' = [tx EXCEPT ![r] = y]
    BY <1>1 DEF List, Tx, WInv, TypeOK
  <1> HIDE DEF y
  <1>7. Sound(y)
    BY <1>1, <1>4 DEF Sound, ToPurge, SessionsOf
  <1>8. \A x : Apart(x, y) /\ Apart(y, x)
    BY <1>1, <1>4 DEF Apart
  <1>9. ASSUME NEW s \in Sessions, y.op = "delete_project", home[s] = y.p, s \notin y.list,
               s \notin overlap
        PROVE  s \notin runs /\ RowsOf(s) = {}
    <2>1. session[s] # "there"
      BY <1>9, <1>4 DEF ToPurge, SessionsOf
    <2>2. session[s] \in {"new", "gone"}
      BY <2>1 DEF WInv, TypeOK, RowState
    <2>3. CASE session[s] = "new"
      BY <2>3 DEF WInv, NewInv, SavedInv, RowsOf
    <2>4. CASE session[s] = "gone"
      BY <2>4, <1>9 DEF WInv, GoneInv
    <2> QED
      BY <2>2, <2>3, <2>4
  <1> QED
    BY <1>4, <1>5, <1>6, <1>7, <1>8, <1>9, TxStep DEF List

LEMMA DeleteRowsStep ==
    ASSUME WInv, NEW r \in Requests, DeleteRows(r)
    PROVE  WInv'
  <1>1. /\ Busy(r) /\ tx[r] \in Tx /\ Sound(tx[r]) /\ tx[r].at = "purging"
        /\ tx[r].purged = tx[r].list
    BY TxType DEF DeleteRows, Purged, Busy, WInv, TxInv
  <1> DEFINE y == [tx[r] EXCEPT !.at = "deleted"]
  <1>2. /\ y.op = tx[r].op /\ y.at = "deleted" /\ y.p = tx[r].p /\ y.s = tx[r].s
        /\ y.list = tx[r].list /\ y.purged = tx[r].purged /\ y.doomed = tx[r].doomed
        /\ y \in Tx
    BY <1>1 DEF Tx
  <1>3. tx' = [tx EXCEPT ![r] = y]
    BY <1>1 DEF DeleteRows, Tx, WInv, TypeOK
  <1> HIDE DEF y
  <1>4. Sound(y)
    BY <1>1, <1>2 DEF Sound
  <1>5. ASSUME NEW q \in Requests, q # r, tx[q] # None
        PROVE  Apart(tx[q], y) /\ Apart(y, tx[q])
    BY <1>2, <1>5 DEF Apart, DeleteRows, ProjectHeld, At, Busy
  <1>6. ASSUME NEW s \in Sessions, s \notin overlap,
               \/ s \in y.purged
               \/ /\ y.op = "delete_project" /\ y.at # "owned"
                  /\ home[s] = y.p /\ s \notin y.list
        PROVE  s \notin runs /\ RowsOf(s) \subseteq y.doomed
    BY <1>1, <1>2, <1>6 DEF WInv, PurgeInv, Purging
  <1> QED
    BY <1>2, <1>3, <1>4, <1>5, <1>6, TxStep DEF DeleteRows

-----------------------------------------------------------------------------
(* Steps that write rows, of projects, sessions or checkpoints.            *)

\* When no request changes, nor what its record says of rows.
LEMMA TxKept ==
    ASSUME WInv, tx' = tx, home' = home,
           \A p \in Projects : project[p] = "there" => project'[p] = "there",
           \A s \in Sessions : session'[s] = session[s]
    PROVE  TxInv' /\ LockInv'
  <1>1. TxInv'
    <2> SUFFICES ASSUME NEW r \in Requests, tx[r] # None PROVE Sound(tx[r])'
      BY DEF TxInv
    <2>1. Sound(tx[r]) /\ tx[r] \in Tx
      BY DEF WInv, TxInv, TypeOK
    <2>2. tx[r].p \in Projects /\ tx[r].list \subseteq Sessions
      BY <2>1 DEF Tx
    <2> QED
      BY <2>1, <2>2 DEF Sound
  <1>2. LockInv'
    BY DEF WInv, LockInv, Apart
  <1> QED
    BY <1>1, <1>2

LEMMA CreateProjectStep ==
    ASSUME WInv, NEW p \in Projects, CreateProject(p)
    PROVE  WInv'
  <1>1. TypeOK'
    BY DEF WInv, TypeOK, CreateProject, RowState
  <1>2. \A q \in Projects : project[q] = "there" => project'[q] = "there"
    BY DEF WInv, TypeOK, CreateProject
  <1>3. TxInv' /\ LockInv'
    BY <1>2, TxKept DEF CreateProject
  <1>4. PurgeInv' /\ GoneInv' /\ NewInv' /\ SavedInv'
    BY DEF WInv, PurgeInv, Purging, Busy, GoneInv, NewInv, SavedInv, RowsOf, CreateProject
  <1>5. TreesFollowSessions'
    <2>1. \A s \in Sessions : home[s] \in Projects
      BY DEF WInv, TypeOK
    <2> QED
      BY <1>2, <2>1 DEF WInv, TreesFollowSessions, RowsOf, CreateProject
  <1> QED
    BY <1>1, <1>3, <1>4, <1>5 DEF WInv

LEMMA PurgeStep ==
    ASSUME WInv, NEW r \in Requests, NEW s \in Sessions, Purge(r, s)
    PROVE  WInv'
  <1>1. Busy(r) /\ tx[r] \in Tx /\ Sound(tx[r]) /\ tx[r].at = "purging" /\ s \in tx[r].list
    BY TxType DEF Purge, Busy, WInv, TxInv
  <1> DEFINE y == [tx[r] EXCEPT !.purged = @ \cup {s}, !.doomed = @ \cup Tree(s)]
  <1>2. Tree(s) = RowsOf(s) /\ Tree(s) \subseteq Row
    BY DEF Tree, RowsOf, WInv, TypeOK, Row
  <1>3. /\ y.op = tx[r].op /\ y.at = tx[r].at /\ y.p = tx[r].p /\ y.s = tx[r].s
        /\ y.list = tx[r].list /\ y.purged = tx[r].purged \cup {s}
        /\ y.doomed = tx[r].doomed \cup RowsOf(s)
        /\ y \in Tx
    BY <1>1, <1>2 DEF Tx
  <1>4. tx' = [tx EXCEPT ![r] = y]
    BY <1>1 DEF Purge, Tx, WInv, TypeOK
  <1> HIDE DEF y
  <1>5. tx'[r] = y /\ \A q \in Requests \ {r} : tx'[q] = tx[q]
    BY <1>4 DEF WInv, TypeOK
  <1>6. TypeOK'
    BY <1>3, <1>4 DEF Purge, WInv, TypeOK
  <1>7. TxInv'
    <2> SUFFICES ASSUME NEW q \in Requests, tx'[q] # None PROVE Sound(tx[q])'
      BY DEF TxInv
    <2>1. Sound(y)
      BY <1>1, <1>3 DEF Sound, RowsOf
    <2>2. Sound(tx'[q])
      BY <1>5, <2>1 DEF WInv, TxInv
    <2> QED
      BY <2>2 DEF Sound, Purge
  <1>8. LockInv'
    <2> SUFFICES ASSUME NEW p \in Requests, NEW q \in Requests, p # q,
                        tx'[p] # None, tx'[q] # None
                 PROVE  Apart(tx'[p], tx'[q])
      BY DEF LockInv, Apart
    <2>1. \A x : Apart(x, y) /\ Apart(y, x)
      BY <1>1, <1>3 DEF Apart
    <2> QED
      BY <1>5, <2>1 DEF WInv, LockInv
  <1>9. PurgeInv'
    <2> SUFFICES ASSUME NEW q \in Requests, NEW z \in Sessions, Purging(q, z)', z \notin overlap'
                 PROVE  z \notin runs /\ RowsOf(z) \subseteq tx'[q].doomed
      BY DEF PurgeInv, RowsOf, Purge
    <2>1. z \notin overlap /\ (z = s => z \notin runs)
      BY DEF Purge
    <2>2. CASE q = r /\ z = s
      BY <1>3, <1>5, <2>1, <2>2
    <2>3. CASE q = r /\ z # s
      BY <1>3, <1>5, <2>1, <2>3 DEF Purging, Busy, Purge, WInv, PurgeInv
    <2>4. CASE q # r
      BY <1>5, <2>1, <2>4 DEF Purging, Busy, Purge, WInv, PurgeInv
    <2> QED
      BY <2>2, <2>3, <2>4
  <1>10. GoneInv' /\ NewInv' /\ SavedInv' /\ TreesFollowSessions'
    BY DEF WInv, GoneInv, NewInv, SavedInv, TreesFollowSessions, RowsOf, Purge
  <1> QED
    BY <1>6, <1>7, <1>8, <1>9, <1>10 DEF WInv

LEMMA SaveStep ==
    ASSUME WInv, NEW s \in Sessions, NEW t \in Threads, Save(s, t)
    PROVE  WInv'
  <1> DEFINE w == [session |-> s, thread |-> t, n |-> saves + 1]
  <1>1. w.session = s /\ w \in Row /\ saves + 1 \in 0..MaxSaves
    BY MaxSavesIsNat DEF Row, Save, WInv, TypeOK
  <1>2. rows' = rows \cup {w} /\ saved' = saved \cup {w}
    BY DEF Save
  <1> HIDE DEF w
  <1>3. s \in runs
    BY DEF Save
  <1>4. \A z \in Sessions : RowsOf(z)' = IF z = s THEN RowsOf(z) \cup {w} ELSE RowsOf(z)
    BY <1>1, <1>2 DEF RowsOf
  <1>5. TypeOK'
    BY <1>1, <1>2 DEF WInv, TypeOK, Save
  <1>6. TxInv' /\ LockInv'
    BY TxKept DEF Save
  <1>7. PurgeInv'
    BY <1>3, <1>4 DEF WInv, PurgeInv, Purging, Busy, Save
  <1>8. GoneInv'
    BY <1>3, <1>4 DEF WInv, GoneInv, Save
  <1>9. NewInv' /\ SavedInv'
    BY <1>1, <1>2, <1>3 DEF WInv, NewInv, SavedInv, Save
  <1>10. TreesFollowSessions'
    BY <1>1, <1>2, <1>3, <1>8 DEF WInv, TreesFollowSessions, GoneInv, RowsOf, Save
  <1> QED
    BY <1>5, <1>6, <1>7, <1>8, <1>9, <1>10 DEF WInv

LEMMA EndRunStep ==
    ASSUME WInv, NEW s \in Sessions, EndRun(s)
    PROVE  WInv'
  <1>1. TypeOK'
    BY DEF WInv, TypeOK, EndRun
  <1>2. TxInv' /\ LockInv'
    BY TxKept DEF EndRun
  <1>3. PurgeInv' /\ GoneInv' /\ NewInv' /\ SavedInv' /\ TreesFollowSessions'
    BY DEF WInv, PurgeInv, Purging, Busy, GoneInv, NewInv, SavedInv, TreesFollowSessions,
           RowsOf, EndRun
  <1> QED
    BY <1>1, <1>2, <1>3 DEF WInv

LEMMA RestartStep ==
    ASSUME WInv, Restart
    PROVE  WInv'
  <1>1. TypeOK'
    BY DEF WInv, TypeOK, Restart
  <1>2. \A r \in Requests : tx'[r] = None
    BY DEF Restart
  <1>3. TxInv' /\ LockInv' /\ PurgeInv'
    BY <1>2 DEF TxInv, LockInv, PurgeInv, Purging, Busy
  <1>4. GoneInv' /\ NewInv' /\ SavedInv' /\ TreesFollowSessions'
    BY DEF WInv, GoneInv, NewInv, SavedInv, TreesFollowSessions, RowsOf, Restart
  <1> QED
    BY <1>1, <1>3, <1>4 DEF WInv

LEMMA LaunchStep ==
    ASSUME WInv, NEW r \in Requests, Launch(r)
    PROVE  WInv'
  <1>1. PICK s : s = tx[r].s
    OBVIOUS
  <1>2. s \in Sessions /\ session[s] # "new"
    BY <1>1 DEF Launch, At, Busy, WInv, TxInv, Sound
  <1>3. /\ runs' = runs \cup {s}
        /\ overlap' = IF session[s] # "there" \/ \E q \in Requests : Purging(q, s)
                      THEN overlap \cup ({s} \ runs) ELSE overlap
        /\ tx' = [tx EXCEPT ![r] = None]
        /\ UNCHANGED <<project, session, home, rows, saves, saved>>
    BY <1>1 DEF Launch, Close
  <1>4. tx'[r] = None /\ \A q \in Requests \ {r} : tx'[q] = tx[q]
    BY <1>3 DEF WInv, TypeOK
  <1>5. TypeOK'
    BY <1>2, <1>3 DEF WInv, TypeOK
  <1>6. TxInv'
    <2> SUFFICES ASSUME NEW q \in Requests, tx'[q] # None PROVE Sound(tx[q])'
      BY DEF TxInv
    <2>1. Sound(tx'[q])
      BY <1>4 DEF WInv, TxInv
    <2> QED
      BY <1>3, <2>1 DEF Sound
  <1>7. LockInv'
    <2> SUFFICES ASSUME NEW p \in Requests, NEW q \in Requests, p # q,
                        tx'[p] # None, tx'[q] # None
                 PROVE  Apart(tx'[p], tx'[q])
      BY DEF LockInv, Apart
    <2> QED
      BY <1>4 DEF WInv, LockInv
  <1>8. PurgeInv'
    <2> SUFFICES ASSUME NEW q \in Requests, NEW z \in Sessions, Purging(q, z)', z \notin overlap'
                 PROVE  z \notin runs' /\ RowsOf(z) \subseteq tx'[q].doomed
      BY <1>3 DEF PurgeInv, RowsOf
    <2>1. q # r /\ tx'[q] = tx[q] /\ Purging(q, z) /\ z \notin overlap
      BY <1>3, <1>4 DEF Purging, Busy
    <2>2. z \notin runs /\ RowsOf(z) \subseteq tx[q].doomed
      BY <2>1 DEF WInv, PurgeInv
    <2>3. z # s
      BY <1>3, <2>1, <2>2
    <2> QED
      BY <1>3, <2>1, <2>2, <2>3
  <1>9. GoneInv'
    <2> SUFFICES ASSUME NEW z \in Sessions, session[z] = "gone", z \notin overlap'
                 PROVE  z \notin runs' /\ RowsOf(z) = {}
      BY <1>3 DEF GoneInv, RowsOf
    <2>1. z \notin overlap
      BY <1>3
    <2>2. z \notin runs /\ RowsOf(z) = {}
      BY <2>1 DEF WInv, GoneInv
    <2> QED
      BY <1>3, <2>2
  <1>10. NewInv' /\ SavedInv'
    BY <1>2, <1>3 DEF WInv, NewInv, SavedInv
  <1>11. TreesFollowSessions'
    BY <1>3, <1>9 DEF WInv, TreesFollowSessions, RowsOf, GoneInv
  <1> QED
    BY <1>5, <1>6, <1>7, <1>8, <1>9, <1>10, <1>11 DEF WInv

LEMMA CommitInsertStep ==
    ASSUME WInv, NEW r \in Requests, CommitInsert(r)
    PROVE  WInv'
  <1>1. PICK s : s = tx[r].s
    OBVIOUS
  <1>2. /\ Busy(r) /\ tx[r].op = "create" /\ tx[r].at = "inserted" /\ tx[r].s = s
        /\ s \in Sessions /\ session[s] = "new" /\ project[home[s]] = "there"
    BY <1>1 DEF CommitInsert, At, Busy, WInv, TxInv, Sound
  <1>3. /\ session' = [session EXCEPT ![s] = "there"]
        /\ tx' = [tx EXCEPT ![r] = None]
        /\ UNCHANGED <<project, home, rows, saves, runs, saved, overlap>>
    BY <1>1 DEF CommitInsert, Close
  <1>4. tx'[r] = None /\ \A q \in Requests \ {r} : tx'[q] = tx[q]
    BY <1>3 DEF WInv, TypeOK
  <1>5. TypeOK'
    BY <1>2, <1>3 DEF WInv, TypeOK, RowState
  <1>6. session'[s] = "there" /\ \A z \in Sessions \ {s} : session'[z] = session[z]
    BY <1>2, <1>3 DEF WInv, TypeOK
  <1>7. TxInv'
    <2> SUFFICES ASSUME NEW q \in Requests, tx'[q] # None PROVE Sound(tx[q])'
      BY DEF TxInv
    <2>1. q # r /\ tx'[q] = tx[q] /\ Sound(tx[q]) /\ tx[q] \in Tx
      BY <1>4 DEF WInv, TxInv, TypeOK
    <2>2. tx[q].at = "inserted" => tx[q].s # s
      BY <1>2, <2>1 DEF WInv, LockInv, Apart, Sound, Busy
    <2>3. tx[q].list \subseteq Sessions
      BY <2>1 DEF Tx
    <2>4. \A z \in tx[q].list : session'[z] # "new"
      BY <1>6, <2>1, <2>3 DEF Sound
    <2>5. /\ tx[q].op \in {"delete_session", "turn"} =>
                tx[q].s \in Sessions /\ session'[tx[q].s] # "new"
          /\ tx[q].at = "inserted" => tx[q].s \in Sessions /\ session'[tx[q].s] = "new"
      BY <1>6, <2>1, <2>2 DEF Sound
    <2>6. Sound(tx[q])
      BY <2>1
    <2> QED
      BY <1>3, <2>1, <2>4, <2>5, <2>6 DEF Sound
  <1>8. LockInv'
    <2> SUFFICES ASSUME NEW p \in Requests, NEW q \in Requests, p # q,
                        tx'[p] # None, tx'[q] # None
                 PROVE  Apart(tx'[p], tx'[q])
      BY DEF LockInv, Apart
    <2> QED
      BY <1>4 DEF WInv, LockInv
  <1>9. PurgeInv'
    <2> SUFFICES ASSUME NEW q \in Requests, NEW z \in Sessions, Purging(q, z)', z \notin overlap
                 PROVE  z \notin runs /\ RowsOf(z) \subseteq tx'[q].doomed
      BY <1>3 DEF PurgeInv, RowsOf
    <2>1. q # r /\ tx'[q] = tx[q] /\ Purging(q, z)
      BY <1>3, <1>4 DEF Purging, Busy
    <2> QED
      BY <2>1 DEF WInv, PurgeInv
  <1>10. GoneInv' /\ NewInv' /\ SavedInv'
    BY <1>3, <1>6 DEF WInv, GoneInv, NewInv, SavedInv, RowsOf
  <1>11. TreesFollowSessions'
    BY <1>2, <1>3, <1>6 DEF WInv, TreesFollowSessions, NewInv, RowsOf
  <1> QED
    BY <1>5, <1>7, <1>8, <1>9, <1>10, <1>11 DEF WInv

LEMMA CommitDeleteStep ==
    ASSUME WInv, NEW r \in Requests, CommitDelete(r)
    PROVE  WInv'
  <1>1. PICK x : x = tx[r]
    OBVIOUS
  <1>2. /\ Busy(r) /\ x \in Tx /\ Sound(x) /\ x.at = "deleted" /\ x.purged = x.list
        /\ x.op \in {"delete_session", "delete_project"}
    BY <1>1, TxType DEF CommitDelete, Busy, WInv, TxInv, Sound, Tx, Operations
  <1>3. \A s \in Sessions : Takes(r, s) <=> IF x.op = "delete_session" THEN s = x.s
                                            ELSE home[s] = x.p
    BY <1>1 DEF Takes
  <1>4. /\ project' = [project EXCEPT ![x.p] = IF x.op = "delete_project" THEN "gone" ELSE @]
        /\ session' = [s \in Sessions |->
                         IF session[s] = "there" /\ Takes(r, s) THEN "gone" ELSE session[s]]
        /\ rows' = rows \ x.doomed
        /\ tx' = [tx EXCEPT ![r] = None]
        /\ UNCHANGED <<home, saves, runs, saved, overlap>>
    BY <1>1 DEF CommitDelete, Close
  <1>5. tx'[r] = None /\ \A q \in Requests \ {r} : tx'[q] = tx[q]
    BY <1>4 DEF WInv, TypeOK
  <1>6. \A s \in Sessions :
          /\ session'[s] = "new" <=> session[s] = "new"
          /\ session'[s] = "there" => session[s] = "there" /\ ~Takes(r, s)
          /\ session'[s] = "gone" => session[s] = "gone" \/ (session[s] = "there" /\ Takes(r, s))
    BY <1>4
  <1>7. \A p \in Projects : project'[p] # project[p] => x.op = "delete_project" /\ p = x.p
    BY <1>4 DEF WInv, TypeOK
  <1>8. TypeOK'
    BY <1>4 DEF WInv, TypeOK, RowState
  <1>9. \A s \in Sessions : RowsOf(s)' = RowsOf(s) \ x.doomed
    BY <1>4 DEF RowsOf
  <1>10. TxInv'
    <2> SUFFICES ASSUME NEW q \in Requests, tx'[q] # None PROVE Sound(tx[q])'
      BY DEF TxInv
    <2>1. q # r /\ tx'[q] = tx[q] /\ Sound(tx[q]) /\ tx[q] \in Tx
      BY <1>5 DEF WInv, TxInv, TypeOK
    <2>2. tx[q].list \subseteq Sessions /\ tx[q].p \in Projects
      BY <2>1 DEF Tx
    <2>3. tx[q].at = "inserted" => project'[tx[q].p] = project[tx[q].p]
      <3> SUFFICES ASSUME tx[q].at = "inserted", x.op = "delete_project", tx[q].p = x.p
                   PROVE  FALSE
        BY <1>7, <2>2
      <3> QED
        BY <1>1, <1>2, <2>1 DEF WInv, LockInv, Apart, Sound, Busy
    <2>4. \A z \in tx[q].list : session'[z] # "new"
      BY <1>6, <2>1, <2>2 DEF Sound
    <2>5. /\ tx[q].op \in {"delete_session", "turn"} =>
                tx[q].s \in Sessions /\ session'[tx[q].s] # "new"
          /\ tx[q].at = "inserted" =>
                /\ tx[q].s \in Sessions /\ session'[tx[q].s] = "new"
                /\ project'[tx[q].p] = "there"
      BY <1>6, <2>1, <2>3 DEF Sound
    <2> QED
      BY <1>4, <2>1, <2>4, <2>5 DEF Sound
  <1>11. LockInv'
    <2> SUFFICES ASSUME NEW p \in Requests, NEW q \in Requests, p # q,
                        tx'[p] # None, tx'[q] # None
                 PROVE  Apart(tx'[p], tx'[q])
      BY DEF LockInv, Apart
    <2> QED
      BY <1>5 DEF WInv, LockInv
  <1>12. PurgeInv'
    <2> SUFFICES ASSUME NEW q \in Requests, NEW z \in Sessions, Purging(q, z)', z \notin overlap
                 PROVE  z \notin runs /\ RowsOf(z)' \subseteq tx'[q].doomed
      BY <1>4 DEF PurgeInv
    <2>1. q # r /\ tx'[q] = tx[q] /\ Purging(q, z)
      BY <1>4, <1>5 DEF Purging, Busy
    <2> QED
      BY <1>9, <2>1 DEF WInv, PurgeInv
  <1>13. GoneInv'
    <2> SUFFICES ASSUME NEW s \in Sessions, session'[s] = "gone", s \notin overlap
                 PROVE  s \notin runs /\ RowsOf(s)' = {}
      BY <1>4 DEF GoneInv
    <2>1. CASE session[s] = "gone"
      BY <1>9, <2>1 DEF WInv, GoneInv
    <2>2. CASE Takes(r, s)
      <3>1. Purging(r, s)
        BY <1>1, <1>2, <1>3, <2>2 DEF Purging, Sound
      <3>2. s \notin runs /\ RowsOf(s) \subseteq x.doomed
        BY <1>1, <3>1 DEF WInv, PurgeInv
      <3> QED
        BY <1>9, <3>2
    <2> QED
      BY <1>6, <2>1, <2>2
  <1>14. NewInv' /\ SavedInv'
    BY <1>4, <1>6 DEF WInv, NewInv, SavedInv
  <1>15. TreesFollowSessions'
    <2> SUFFICES ASSUME NEW s \in Sessions, session'[s] = "there"
                 PROVE  /\ project'[home[s]] = "there"
                        /\ {w \in saved : w.session = s} \subseteq rows'
      BY <1>4, <1>13 DEF TreesFollowSessions, GoneInv
    <2>1. session[s] = "there" /\ ~Takes(r, s) /\ home[s] \in Projects
      BY <1>6 DEF WInv, TypeOK
    <2>2. project[home[s]] = "there" /\ {w \in saved : w.session = s} \subseteq rows
      BY <2>1 DEF WInv, TreesFollowSessions
    <2>3. project'[home[s]] = "there"
      BY <1>3, <1>7, <2>1, <2>2
    <2>4. \A w \in x.doomed : w.session # s
      BY <1>2, <1>3, <2>1 DEF Sound
    <2> QED
      BY <1>4, <2>2, <2>3, <2>4
  <1> QED
    BY <1>8, <1>10, <1>11, <1>12, <1>13, <1>14, <1>15 DEF WInv

-----------------------------------------------------------------------------
(* The theorems.                                                           *)

LEMMA InitWInv == Init => WInv
  <1> SUFFICES ASSUME Init PROVE WInv
    OBVIOUS
  <1>1. TypeOK
    BY MaxSavesIsNat DEF Init, TypeOK, RowState
  <1>2. TxInv /\ LockInv /\ PurgeInv
    BY DEF Init, TxInv, LockInv, PurgeInv, Purging, Busy
  <1>3. GoneInv /\ NewInv /\ SavedInv /\ TreesFollowSessions
    BY DEF Init, GoneInv, NewInv, SavedInv, TreesFollowSessions
  <1> QED
    BY <1>1, <1>2, <1>3 DEF WInv

LEMMA OpenSteps ==
    ASSUME WInv, NEW r \in Requests, NEW op \in Operations,
           \/ \E p \in Projects : OpenProject(r, op, p)
           \/ \E s \in Sessions : OpenSession(r, op, s)
    PROVE  WInv'
  <1>1. ASSUME NEW p \in Projects, OpenProject(r, op, p) PROVE WInv'
    BY <1>1, BeginStep DEF OpenProject
  <1>2. ASSUME NEW s \in Sessions, OpenSession(r, op, s) PROVE WInv'
    <2>1. home[s] \in Projects
      BY DEF WInv, TypeOK
    <2>2. PICK p \in Projects : p = home[s]
      BY <2>1
    <2> QED
      BY <1>2, <2>2, BeginStep DEF OpenSession
  <1> QED
    BY <1>1, <1>2

LEMMA NextWInv == WInv /\ [Next]_vars => WInv'
  <1> SUFFICES ASSUME WInv, [Next]_vars PROVE WInv'
    OBVIOUS
  <1>1. ASSUME NEW p \in Projects, CreateProject(p) PROVE WInv'
    BY <1>1, CreateProjectStep
  <1>2. ASSUME NEW r \in Requests,
               \/ \E op \in Operations, p \in Projects : OpenProject(r, op, p)
               \/ \E op \in Operations, s \in Sessions : OpenSession(r, op, s)
        PROVE  WInv'
    BY <1>2, OpenSteps
  <1>3. ASSUME NEW r \in Requests, Insert(r) \/ CommitInsert(r) PROVE WInv'
    BY <1>3, InsertStep, CommitInsertStep
  <1>4. ASSUME NEW r \in Requests, List(r) \/ DeleteRows(r) \/ CommitDelete(r) PROVE WInv'
    BY <1>4, ListStep, DeleteRowsStep, CommitDeleteStep
  <1>5. ASSUME NEW r \in Requests, Abort(r) PROVE WInv'
    BY <1>5, CloseStep DEF Abort
  <1>6. ASSUME NEW r \in Requests, Launch(r) PROVE WInv'
    BY <1>6, LaunchStep
  <1>7. ASSUME NEW r \in Requests, NEW s \in Sessions, Purge(r, s) PROVE WInv'
    BY <1>7, PurgeStep
  <1>8. ASSUME NEW s \in Sessions, (\E t \in Threads : Save(s, t)) \/ EndRun(s) PROVE WInv'
    BY <1>8, SaveStep, EndRunStep
  <1>9. CASE Restart
    BY <1>9, RestartStep
  <1>10. CASE UNCHANGED vars
    <2>1. TypeOK' /\ TxInv' /\ LockInv' /\ PurgeInv'
      BY <1>10, TxKept DEF vars, WInv, TypeOK, PurgeInv, Purging, Busy, RowsOf
    <2>2. GoneInv' /\ NewInv' /\ SavedInv' /\ TreesFollowSessions'
      BY <1>10 DEF vars, WInv, GoneInv, NewInv, SavedInv, TreesFollowSessions, RowsOf
    <2> QED
      BY <2>1, <2>2 DEF WInv
  <1> QED
    BY <1>1, <1>2, <1>3, <1>4, <1>5, <1>6, <1>7, <1>8, <1>9, <1>10 DEF Next

LEMMA WInvHolds == Spec => []WInv
  BY InitWInv, NextWInv, PTL DEF Spec

\* Every variable keeps its type.
THEOREM TypeCorrect == Spec => []TypeOK
  <1>1. WInv => TypeOK
    BY DEF WInv
  <1> QED
    BY WInvHolds, <1>1, PTL

\* However deletions, creations and chat runs interleave, abort and restart,
\* a session that is there has its project and every checkpoint ever saved for
\* it, and one that was deleted has none, but where a run overlapped the
\* deletion (projects.py:64, data/repository.py:138).
THEOREM TreesCorrect == Spec => []TreesFollowSessions
  <1>1. WInv => TreesFollowSessions
    BY DEF WInv
  <1> QED
    BY WInvHolds, <1>1, PTL
=============================================================================
