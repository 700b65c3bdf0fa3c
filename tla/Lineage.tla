------------------------------ MODULE Lineage -------------------------------
(***************************************************************************)
(* The versions of requirements (RequirementRepo; DiagramRepo does the     *)
(* same for diagrams): a row is pending, active or superseded, and the     *)
(* rows of one root_id are the versions of one requirement.  Operations    *)
(* run in database transactions side by side, under PostgreSQL's default   *)
(* READ COMMITTED: a statement sees what was committed when it began; a    *)
(* row another transaction has written is waited for and then looked at    *)
(* again; a flushed write stays in its transaction until the commit.  Each *)
(* transaction is one call of the repository, then commit or rollback.     *)
(***************************************************************************)
CONSTANTS
    Txs,    \* transactions; one is used again when it has ended
    Rows    \* row ids, a bound on the rows ever inserted

VARIABLES
    row,    \* row[r]: the committed row, "absent" before its insert commits
    tx,     \* tx[t]: what transaction t runs and has written
    raced   \* history: lineages where promotions overlapped, none since alone

vars == <<row, tx, raced>>

Statuses == {"absent", "pending", "active", "superseded"}
Exists(r) == row[r].status # "absent"
Lineage(r) == {q \in Rows : Exists(q) /\ row[q].root = row[r].root}
Active(r)  == {q \in Lineage(r) : row[q].status = "active"}

NoRow == "none"
Kept == [r \in Rows |-> "same"]
Idle == [op |-> "none", pc |-> "read", target |-> NoRow,
         seen |-> "absent", todo |-> {}, writes |-> Kept, alone |-> TRUE]

Running == [op     : {"version", "promote"},
            pc     : {"read", "sweep", "ready"},
            target : Rows,
            seen   : {"pending", "active", "superseded"},
            todo   : SUBSET Rows,
            writes : [Rows -> {"same", "pending", "active", "superseded"}],
            alone  : BOOLEAN]

TypeOK ==
    /\ row \in [Rows -> [status : Statuses, root : Rows]]
    /\ tx \in [Txs -> {Idle} \cup Running]
    /\ raced \subseteq Rows

Init ==
    /\ row = [r \in Rows |-> [status |-> "absent", root |-> r]]
    /\ tx = [t \in Txs |-> Idle]
    /\ raced = {}

Target(t) == tx[t].target

\* Another transaction has written the row and not ended.
Locked(r, t) == \E u \in Txs \ {t} : tx[u].writes[r] # "same"

Free(r) == ~Exists(r) /\ \A t \in Txs : tx[t].writes[r] = "same"

-----------------------------------------------------------------------------
(* Operations.                                                             *)

\* create, and finalize for an approved row: a requirement of its own root.
\* The insert touches no other row, so it is one step with its commit.
Insert(r, status) ==
    /\ Free(r)
    /\ row' = [row EXCEPT ![r] = [status |-> status, root |-> r]]
    /\ UNCHANGED <<tx, raced>>

\* Mutant: a missing row does not raise.
ReadAny(t, op, r) ==
    /\ tx[t].op = "none"
    /\ tx' = [tx EXCEPT ![t] = [Idle EXCEPT !.op = op, !.target = r, !.seen = row[r].status]]
    /\ UNCHANGED <<row, raced>>

\* Both operations on a version first read it; a missing row raises.
Read(t, op, r) ==
    /\ tx[t].op = "none"
    /\ Exists(r)
    /\ tx' = [tx EXCEPT ![t] = [Idle EXCEPT !.op = op, !.target = r, !.seen = row[r].status]]
    /\ UNCHANGED <<row, raced>>

\* Mutant: the new version is not flushed.
FlushOldOnly(t, new) ==
    /\ tx[t].op = "version" /\ tx[t].pc = "read"
    /\ ~Locked(Target(t), t)
    /\ Free(new)
    /\ tx' = [tx EXCEPT ![t].pc = "ready", ![t].writes[Target(t)] = "superseded"]
    /\ UNCHANGED <<row, raced>>

\* supersede_and_create_version: the flush updates the old row, unless it was
\* read as superseded already, and inserts the new version.
Flush(t, new) ==
    /\ tx[t].op = "version" /\ tx[t].pc = "read"
    /\ Free(new)
    /\ \/ /\ tx[t].seen = "superseded"
          /\ tx' = [tx EXCEPT ![t].pc = "ready", ![t].writes[new] = "pending"]
       \/ /\ tx[t].seen # "superseded"
          /\ ~Locked(Target(t), t)
          /\ tx' = [tx EXCEPT ![t].pc = "ready", ![t].writes[new] = "pending",
                              ![t].writes[Target(t)] = "superseded"]
    /\ UNCHANGED <<row, raced>>

\* Mutant: no sibling is swept.
SweepNone(t) == {}

\* The rows the UPDATE of promote takes, as they are when it begins.
Swept(t) == Active(Target(t))

\* promote begins its UPDATE.
Snapshot(t) ==
    /\ tx[t].op = "promote" /\ tx[t].pc = "read"
    /\ tx' = [tx EXCEPT ![t].pc = "sweep", ![t].todo = Swept(t)]
    /\ UNCHANGED <<row, raced>>

\* The UPDATE takes one row, when no other transaction has it, and tests it
\* again.
Sweep(t, q) ==
    /\ tx[t].pc = "sweep"
    /\ q \in tx[t].todo
    /\ ~Locked(q, t)
    /\ tx' = [tx EXCEPT ![t].todo = @ \ {q},
                        ![t].writes[q] = IF row[q].status = "active" THEN "superseded" ELSE "same"]
    /\ UNCHANGED <<row, raced>>

\* Mutant: a target read as active is not written again, no change being seen.
MarkChanged(t) ==
    /\ tx[t].pc = "sweep"
    /\ tx[t].todo = {}
    /\ ~Locked(Target(t), t)
    /\ tx' = [tx EXCEPT ![t].pc = "ready",
                        ![t].writes[Target(t)] = IF tx[t].seen = "active" THEN @ ELSE "active"]
    /\ UNCHANGED <<row, raced>>

\* The target is made active: also one the UPDATE has just superseded, which the
\* UPDATE changes in the session too, so that the flush sees a change.
Mark(t) ==
    /\ tx[t].pc = "sweep"
    /\ tx[t].todo = {}
    /\ ~Locked(Target(t), t)
    /\ tx' = [tx EXCEPT ![t].pc = "ready", ![t].writes[Target(t)] = "active"]
    /\ UNCHANGED <<row, raced>>

-----------------------------------------------------------------------------
(* The end of a transaction.                                               *)

Promotes(t, r) == tx[t].op = "promote" /\ row[Target(t)].root = row[r].root

Settled(t) == tx[t].op = "promote" /\ tx[t].alone

Commit(t) ==
    /\ tx[t].pc = "ready"
    /\ row' = [r \in Rows |->
                 IF tx[t].writes[r] = "same" THEN row[r]
                 ELSE [status |-> tx[t].writes[r],
                       root   |-> IF Exists(r) THEN row[r].root ELSE row[Target(t)].root]]
    /\ tx' = [u \in Txs |->
                IF u = t THEN Idle
                ELSE [tx[u] EXCEPT !.alone = @ /\ ~( /\ tx[t].op = "promote"
                                                     /\ tx[u].pc # "read"
                                                     /\ Promotes(u, Target(t)))]]
    /\ raced' = IF tx[t].op # "promote" THEN raced
                ELSE IF tx[t].alone THEN raced \ {row[Target(t)].root}
                ELSE raced \cup {row[Target(t)].root}

\* An exception, a lost connection or a deadlock the database breaks.
Rollback(t) ==
    /\ tx[t].op # "none"
    /\ tx' = [tx EXCEPT ![t] = Idle]
    /\ UNCHANGED <<row, raced>>

Next ==
    \/ \E r \in Rows, s \in {"pending", "active"} : Insert(r, s)
    \/ \E t \in Txs :
          \/ \E r \in Rows, op \in {"version", "promote"} : Read(t, op, r)
          \/ \E r \in Rows : Flush(t, r) \/ Sweep(t, r)
          \/ Snapshot(t) \/ Mark(t) \/ Commit(t) \/ Rollback(t)

Spec == Init /\ [][Next]_vars

-----------------------------------------------------------------------------
(* Properties.                                                             *)

\* "All active requirements in the session, one per distinct lineage"
\* (repository.py:198), where no two promotions of the lineage overlapped.
OneActive ==
    \A r \in Rows : Exists(r) /\ row[r].root \notin raced =>
        \A p, q \in Active(r) : p = q

\* However superseding, creating versions and promoting interleave, no lineage
\* is left with superseded rows only (repository.py:215, 238).
HeadKept ==
    \A r \in Rows : Exists(r) => \E q \in Lineage(r) : row[q].status \in {"pending", "active"}

\* A promotion that no other promotion of its lineage committed into leaves
\* its target the one active row, whatever raced before (repository.py:231).
PromotionSettles ==
    [][\A t \in Txs, r \in Rows :
          Commit(t) /\ Settled(t) /\ r = Target(t) => Active(r)' = {r}]_vars
=============================================================================
