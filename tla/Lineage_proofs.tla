--------------------------- MODULE Lineage_proofs ----------------------------
(***************************************************************************)
(* Proofs about Lineage, for any sets of transactions and rows.            *)
(***************************************************************************)
EXTENDS Lineage, TLAPS

-----------------------------------------------------------------------------
(* The inductive invariant.                                                *)

\* The root of a row that exists is a row that exists; absent rows have their
\* own id for a root.
Rooted == \A r \in Rows : IF Exists(r) THEN Exists(row[r].root) ELSE row[r].root = r

\* A row is written by one transaction at a time.
Exclusive ==
    \A t, u \in Txs, r \in Rows :
        tx[t].writes[r] # "same" /\ tx[u].writes[r] # "same" => t = u

\* What the running transactions have written: a version its target, which
\* becomes superseded, and a new row; a promotion rows of its lineage, all to
\* superseded but the target, which it makes active in the end.
WritesOf(t) ==
    LET x == tx[t] IN
    /\ Exists(x.target)
    /\ \A r \in Rows : x.writes[r] = "same" \/ (Exists(r) => row[r].root = row[x.target].root)
    /\ x.pc = "read" => \A r \in Rows : x.writes[r] = "same"
    /\ x.op = "version" =>
          /\ x.pc # "sweep"
          /\ \A r \in Rows : x.writes[r] \in {"same", "pending", "superseded"}
          /\ x.pc = "ready" => \E r \in Rows : x.writes[r] = "pending"
    /\ x.op = "promote" =>
          /\ \A r \in x.todo : Exists(r) /\ row[r].root = row[x.target].root
          /\ \A r \in Rows : x.writes[r] # "same" => Exists(r)
          /\ \A r \in Rows : r # x.target => x.writes[r] \in {"same", "superseded"}
          /\ x.pc = "ready" => x.todo = {} /\ x.writes[x.target] = "active"

\* Until another promotion of the lineage commits, a promotion has swept the
\* active rows of its lineage or is still to do so.
Sweeping(t) ==
    LET x == tx[t] IN
    x.op = "promote" /\ x.pc # "read" /\ x.alone =>
        \A r \in Active(x.target) : r \in x.todo \/ x.writes[r] # "same"

IInv ==
    /\ Rooted
    /\ Exclusive
    /\ \A t \in Txs : tx[t].op # "none" => WritesOf(t)
    /\ \A t \in Txs : Sweeping(t)
    /\ OneActive
    /\ HeadKept

LEMMA IdleFacts ==
    /\ Idle.op = "none" /\ Idle.pc = "read" /\ Idle.target = NoRow /\ Idle.alone = TRUE
    /\ Idle.todo = {}
    /\ \A r \in Rows : Idle.writes[r] = "same"
  BY DEF Idle, Kept

\* What an idle and a running transaction have in common, and what tells them
\* apart.
LEMMA TxFacts ==
    ASSUME TypeOK, NEW t \in Txs
    PROVE  /\ tx[t].op # "none" => tx[t] \in Running
           /\ tx[t].op = "none" => tx[t] = Idle
           /\ tx[t].pc # "read" => tx[t].op # "none"
           /\ tx[t].op \in {"none", "version", "promote"}
           /\ tx[t].pc \in {"read", "sweep", "ready"}
  BY IdleFacts DEF TypeOK, Running

-----------------------------------------------------------------------------
(* Steps inside one transaction.                                           *)

\* Such a step keeps the invariant when it keeps the part about this
\* transaction and takes no row another has written.
LEMMA TxStep ==
    ASSUME TypeOK, IInv, NEW t \in Txs, row' = row, raced' = raced,
           tx' \in [Txs -> {Idle} \cup Running],
           \A u \in Txs : u # t => tx'[u] = tx[u],
           tx'[t].op # "none" => WritesOf(t)',
           Sweeping(t)',
           \A r \in Rows : tx'[t].writes[r] # "same" =>
               tx[t].writes[r] # "same" \/ \A u \in Txs \ {t} : tx[u].writes[r] = "same"
    PROVE  TypeOK' /\ IInv'
  <1>1. TypeOK'
    BY DEF TypeOK
  <1>2. Rooted' /\ OneActive' /\ HeadKept'
    BY DEF IInv, Rooted, OneActive, HeadKept, Active, Lineage, Exists
  <1>3. Exclusive'
    BY DEF IInv, Exclusive
  <1>4. \A u \in Txs : tx'[u].op # "none" => WritesOf(u)'
    <2>1. \A u \in Txs : u # t /\ tx[u].op # "none" => WritesOf(u)'
      BY DEF IInv, WritesOf, Exists
    <2>2. QED
      BY <2>1
  <1>5. \A u \in Txs : Sweeping(u)'
    <2>1. \A u \in Txs : u # t => Sweeping(u)'
      BY DEF IInv, Sweeping, Active, Lineage, Exists
    <2>2. QED
      BY <2>1
  <1>6. QED
    BY <1>1, <1>2, <1>3, <1>4, <1>5 DEF IInv

LEMMA ReadStep ==
    ASSUME TypeOK, IInv, NEW t \in Txs, NEW r \in Rows, NEW op \in {"version", "promote"},
           Read(t, op, r)
    PROVE  TypeOK' /\ IInv'
  <1> DEFINE x == [Idle EXCEPT !.op = op, !.target = r, !.seen = row[r].status]
  <1>1. /\ x.op = op /\ x.pc = "read" /\ x.target = r /\ x.seen = row[r].status
        /\ x.todo = {} /\ x.alone = TRUE /\ x.writes = Kept
        /\ Exists(r)
    BY DEF Read, Idle
  <1>2. x \in Running
    <2>1. row[r].status \in {"pending", "active", "superseded"}
      BY <1>1 DEF TypeOK, Statuses, Exists
    <2>2. Kept \in [Rows -> {"same", "pending", "active", "superseded"}]
      BY DEF Kept
    <2>3. QED
      BY <2>1, <2>2 DEF Running, Idle
  <1>3. tx' = [tx EXCEPT ![t] = x] /\ row' = row /\ raced' = raced
    BY DEF Read
  <1> HIDE DEF x
  <1>4. tx'[t] = x /\ (\A u \in Txs : u # t => tx'[u] = tx[u])
        /\ tx' \in [Txs -> {Idle} \cup Running]
    BY <1>2, <1>3 DEF TypeOK
  <1>5. \A q \in Rows : x.writes[q] = "same"
    BY <1>1 DEF Kept
  <1>6. WritesOf(t)'
    BY <1>1, <1>3, <1>4, <1>5 DEF WritesOf, Exists
  <1>7. Sweeping(t)'
    BY <1>1, <1>4 DEF Sweeping
  <1>8. QED
    BY <1>3, <1>4, <1>5, <1>6, <1>7, TxStep

LEMMA RollbackStep ==
    ASSUME TypeOK, IInv, NEW t \in Txs, Rollback(t)
    PROVE  TypeOK' /\ IInv'
  <1>1. tx' = [tx EXCEPT ![t] = Idle] /\ row' = row /\ raced' = raced
    BY DEF Rollback
  <1>2. tx'[t] = Idle /\ (\A u \in Txs : u # t => tx'[u] = tx[u])
        /\ tx' \in [Txs -> {Idle} \cup Running]
    BY <1>1 DEF TypeOK
  <1>3. Sweeping(t)'
    BY <1>2, IdleFacts DEF Sweeping
  <1>4. QED
    BY <1>1, <1>2, <1>3, IdleFacts, TxStep

LEMMA FlushStep ==
    ASSUME TypeOK, IInv, NEW t \in Txs, NEW new \in Rows, Flush(t, new)
    PROVE  TypeOK' /\ IInv'
  <1> DEFINE g == tx[t].target
  <1>1. /\ tx[t] \in Running /\ tx[t].op = "version" /\ tx[t].pc = "read"
        /\ row' = row /\ raced' = raced
        /\ ~Exists(new) /\ \A u \in Txs : tx[u].writes[new] = "same"
    BY TxFacts DEF Flush, Free
  <1>2. /\ g \in Rows /\ Exists(g) /\ g # new
        /\ \A r \in Rows : tx[t].writes[r] = "same"
    BY <1>1 DEF IInv, WritesOf, Running
  <1>3. \/ tx' = [tx EXCEPT ![t].pc = "ready", ![t].writes[new] = "pending"]
        \/ /\ ~Locked(g, t)
           /\ tx' = [tx EXCEPT ![t].pc = "ready", ![t].writes[new] = "pending",
                               ![t].writes[g] = "superseded"]
    BY DEF Flush, Target
  <1>4. /\ tx' \in [Txs -> {Idle} \cup Running]
        /\ \A u \in Txs : u # t => tx'[u] = tx[u]
        /\ tx'[t].op = "version" /\ tx'[t].pc = "ready" /\ tx'[t].target = g
        /\ tx'[t].writes[new] = "pending"
        /\ \A r \in Rows : r # new /\ r # g => tx'[t].writes[r] = "same"
        /\ tx'[t].writes[g] \in {"same", "superseded"}
        /\ tx'[t].writes[g] # "same" => ~Locked(g, t)
    <2>1. ASSUME tx' = [tx EXCEPT ![t].pc = "ready", ![t].writes[new] = "pending"]
          PROVE  <1>4
      BY <1>1, <1>2, <2>1 DEF TypeOK, Running
    <2>2. ASSUME ~Locked(g, t),
                 tx' = [tx EXCEPT ![t].pc = "ready", ![t].writes[new] = "pending",
                                  ![t].writes[g] = "superseded"]
          PROVE  <1>4
      BY <1>1, <1>2, <2>2 DEF TypeOK, Running
    <2>3. QED
      BY <1>3, <2>1, <2>2
  <1>5. WritesOf(t)'
    BY <1>1, <1>2, <1>4 DEF WritesOf, Exists
  <1>6. Sweeping(t)'
    BY <1>4 DEF Sweeping
  <1>7. \A r \in Rows : tx'[t].writes[r] # "same" => \A u \in Txs \ {t} : tx[u].writes[r] = "same"
    BY <1>1, <1>2, <1>4 DEF Locked
  <1>8. QED
    BY <1>1, <1>4, <1>5, <1>6, <1>7, TxStep

LEMMA SnapshotStep ==
    ASSUME TypeOK, IInv, NEW t \in Txs, Snapshot(t)
    PROVE  TypeOK' /\ IInv'
  <1>1. /\ tx[t] \in Running /\ tx[t].op = "promote" /\ tx[t].pc = "read"
        /\ row' = row /\ raced' = raced
        /\ tx' = [tx EXCEPT ![t].pc = "sweep", ![t].todo = Swept(t)]
    BY TxFacts DEF Snapshot
  <1>2. Swept(t) = Active(tx[t].target) /\ Swept(t) \subseteq Rows
    BY DEF Swept, Target, Active, Lineage
  <1>3. /\ tx' \in [Txs -> {Idle} \cup Running]
        /\ \A u \in Txs : u # t => tx'[u] = tx[u]
        /\ tx'[t].op = "promote" /\ tx'[t].pc = "sweep" /\ tx'[t].target = tx[t].target
        /\ tx'[t].todo = Swept(t) /\ tx'[t].writes = tx[t].writes
    BY <1>1, <1>2 DEF TypeOK, Running
  <1>4. WritesOf(t)'
    <2>1. \A r \in Swept(t) : Exists(r) /\ row[r].root = row[tx[t].target].root
      BY <1>2 DEF Active, Lineage
    <2>2. WritesOf(t)
      BY <1>1 DEF IInv
    <2>3. \A r \in Rows : tx'[t].writes[r] = "same"
      BY <1>1, <1>3, <2>2 DEF WritesOf
    <2>4. tx[t].target \in Rows /\ Exists(tx[t].target)
      BY <1>1, <2>2 DEF WritesOf, Running
    <2>5. QED
      BY <1>1, <1>2, <1>3, <2>1, <2>3, <2>4 DEF WritesOf, Exists
  <1>5. \A r \in Rows : r \in Active(tx[t].target)' => r \in Swept(t)
    BY <1>1, <1>2, <1>3 DEF Active, Lineage, Exists
  <1>6. Sweeping(t)'
    <2>1. Active(tx[t].target)' \subseteq Rows
      BY DEF Active, Lineage
    <2>2. QED
      BY <1>3, <1>5, <2>1 DEF Sweeping
  <1>7. QED
    BY <1>1, <1>3, <1>4, <1>6, TxStep

LEMMA SweepStep ==
    ASSUME TypeOK, IInv, NEW t \in Txs, NEW q \in Rows, Sweep(t, q)
    PROVE  TypeOK' /\ IInv'
  <1> DEFINE w == IF row[q].status = "active" THEN "superseded" ELSE "same"
  <1>1. /\ tx[t] \in Running /\ tx[t].pc = "sweep"
        /\ row' = row /\ raced' = raced /\ q \in tx[t].todo /\ ~Locked(q, t)
        /\ tx' = [tx EXCEPT ![t].todo = @ \ {q}, ![t].writes[q] = w]
    BY TxFacts DEF Sweep
  <1>2. WritesOf(t) /\ tx[t].op = "promote" /\ Sweeping(t)
    BY <1>1 DEF IInv, WritesOf, Running
  <1> HIDE DEF w
  <1>3. w \in {"superseded", "same"} /\ (w = "same" <=> row[q].status # "active")
    BY DEF w
  <1>4. /\ tx' \in [Txs -> {Idle} \cup Running]
        /\ \A u \in Txs : u # t => tx'[u] = tx[u]
        /\ tx'[t].op = "promote" /\ tx'[t].pc = "sweep" /\ tx'[t].target = tx[t].target
        /\ tx'[t].alone = tx[t].alone /\ tx'[t].todo = tx[t].todo \ {q}
        /\ \A r \in Rows : tx'[t].writes[r] = IF r = q THEN w ELSE tx[t].writes[r]
    <2> DEFINE y == [tx[t] EXCEPT !.todo = tx[t].todo \ {q}, !.writes[q] = w]
    <2>1. tx' = [tx EXCEPT ![t] = y] /\ tx \in [Txs -> {Idle} \cup Running]
      BY <1>1 DEF TypeOK
    <2>2. /\ y \in Running
          /\ y.op = tx[t].op /\ y.pc = tx[t].pc /\ y.target = tx[t].target
          /\ y.alone = tx[t].alone /\ y.todo = tx[t].todo \ {q}
          /\ \A r \in Rows : y.writes[r] = IF r = q THEN w ELSE tx[t].writes[r]
      BY <1>1, <1>3 DEF Running
    <2> HIDE DEF y
    <2>3. QED
      BY <1>1, <1>2, <2>1, <2>2
  <1>5. WritesOf(t)'
    BY <1>1, <1>2, <1>3, <1>4 DEF WritesOf, Exists
  <1>6. Sweeping(t)'
    BY <1>1, <1>2, <1>3, <1>4 DEF Sweeping, Active, Lineage, Exists
  <1>7. \A r \in Rows : tx'[t].writes[r] # "same" =>
            tx[t].writes[r] # "same" \/ \A u \in Txs \ {t} : tx[u].writes[r] = "same"
    BY <1>1, <1>4 DEF Locked
  <1>8. QED
    BY <1>1, <1>4, <1>5, <1>6, <1>7, TxStep

LEMMA MarkStep ==
    ASSUME TypeOK, IInv, NEW t \in Txs, Mark(t)
    PROVE  TypeOK' /\ IInv'
  <1> DEFINE g == tx[t].target
  <1>1. /\ tx[t] \in Running /\ tx[t].pc = "sweep" /\ tx[t].todo = {}
        /\ row' = row /\ raced' = raced /\ ~Locked(g, t)
        /\ tx' = [tx EXCEPT ![t].pc = "ready", ![t].writes[g] = "active"]
    BY TxFacts DEF Mark, Target
  <1>2. /\ WritesOf(t) /\ tx[t].op = "promote" /\ Sweeping(t)
        /\ g \in Rows /\ Exists(g)
    BY <1>1 DEF IInv, WritesOf, Running
  <1>3. /\ tx' \in [Txs -> {Idle} \cup Running]
        /\ \A u \in Txs : u # t => tx'[u] = tx[u]
        /\ tx'[t].op = "promote" /\ tx'[t].pc = "ready" /\ tx'[t].target = g
        /\ tx'[t].alone = tx[t].alone /\ tx'[t].todo = {}
        /\ \A r \in Rows : tx'[t].writes[r] = IF r = g THEN "active" ELSE tx[t].writes[r]
    BY <1>1, <1>2 DEF TypeOK, Running
  <1>4. WritesOf(t)'
    BY <1>1, <1>2, <1>3 DEF WritesOf, Exists
  <1>5. Sweeping(t)'
    BY <1>1, <1>2, <1>3 DEF Sweeping, Active, Lineage, Exists
  <1>6. \A r \in Rows : tx'[t].writes[r] # "same" =>
            tx[t].writes[r] # "same" \/ \A u \in Txs \ {t} : tx[u].writes[r] = "same"
    BY <1>1, <1>3 DEF Locked
  <1>7. QED
    BY <1>1, <1>3, <1>4, <1>5, <1>6, TxStep

-----------------------------------------------------------------------------
(* Steps that change committed rows.                                       *)

LEMMA InsertStep ==
    ASSUME TypeOK, IInv, NEW n \in Rows, NEW status \in {"pending", "active"}, Insert(n, status)
    PROVE  TypeOK' /\ IInv'
  <1>1. /\ ~Exists(n) /\ \A u \in Txs : tx[u].writes[n] = "same"
        /\ row' = [row EXCEPT ![n] = [status |-> status, root |-> n]]
        /\ tx' = tx /\ raced' = raced
    BY DEF Insert, Free
  <1>2. /\ row' \in [Rows -> [status : Statuses, root : Rows]]
        /\ row'[n].status = status /\ row'[n].root = n
        /\ \A r \in Rows : r # n => row'[r] = row[r]
    BY <1>1 DEF TypeOK, Statuses
  <1>3. \A r \in Rows : /\ Exists(r)' <=> Exists(r) \/ r = n
                        /\ Exists(r) => r # n /\ row[r].root # n /\ row[r].root \in Rows
                        /\ row'[r].root = row[r].root
    BY <1>1, <1>2 DEF Exists, IInv, Rooted, TypeOK
  <1>4. TypeOK'
    BY <1>1, <1>2 DEF TypeOK
  <1>5. Rooted' /\ Exclusive'
    BY <1>1, <1>2, <1>3 DEF IInv, Rooted, Exclusive
  <1>6. ASSUME NEW u \in Txs, tx[u].op # "none" PROVE WritesOf(u)'
    <2>1. WritesOf(u) /\ tx[u] \in Running
      BY <1>6, TxFacts DEF IInv
    <2>2. tx[u].target \in Rows /\ tx[u].todo \subseteq Rows
      BY <2>1 DEF Running
    <2>3. QED
      BY <1>1, <1>2, <1>3, <2>1, <2>2 DEF WritesOf
  <1>7. ASSUME NEW u \in Txs, tx[u].op = "promote" PROVE Sweeping(u)'
    <2>1. WritesOf(u) /\ tx[u] \in Running /\ Sweeping(u)
      BY <1>7, TxFacts DEF IInv
    <2>2. tx[u].target \in Rows /\ Exists(tx[u].target)
      BY <2>1 DEF Running, WritesOf
    <2>3. Active(tx[u].target)' \subseteq Active(tx[u].target)
      BY <1>1, <1>2, <1>3, <2>2 DEF Active, Lineage
    <2>4. QED
      BY <1>1, <2>1, <2>3 DEF Sweeping
  <1>8. \A u \in Txs : Sweeping(u)'
    BY <1>1, <1>7 DEF Sweeping
  <1>9. OneActive'
    <2> SUFFICES ASSUME NEW r \in Rows, Exists(r)', row'[r].root \notin raced,
                        NEW p \in Active(r)', NEW q \in Active(r)'
                 PROVE  p = q
      BY <1>1 DEF OneActive
    <2>1. /\ p \in Rows /\ Exists(p)' /\ row'[p].root = row'[r].root /\ row'[p].status = "active"
          /\ q \in Rows /\ Exists(q)' /\ row'[q].root = row'[r].root /\ row'[q].status = "active"
      BY DEF Active, Lineage
    <2>2. CASE r = n
      BY <1>2, <1>3, <2>1, <2>2
    <2>3. CASE r # n
      <3>1. p # n /\ q # n /\ Exists(r)
        BY <1>2, <1>3, <2>1, <2>3
      <3>2. p \in Active(r) /\ q \in Active(r)
        BY <1>2, <1>3, <2>1, <2>3, <3>1 DEF Active, Lineage
      <3>3. QED
        BY <1>2, <2>3, <3>1, <3>2 DEF IInv, OneActive
    <2>4. QED
      BY <2>2, <2>3
  <1>10. HeadKept'
    <2> SUFFICES ASSUME NEW r \in Rows, Exists(r)'
                 PROVE  \E q \in Lineage(r)' : row'[q].status \in {"pending", "active"}
      BY DEF HeadKept
    <2>1. CASE r = n
      BY <1>2, <1>3, <2>1 DEF Lineage
    <2>2. CASE r # n
      <3>1. PICK q \in Lineage(r) : row[q].status \in {"pending", "active"}
        BY <1>3, <2>2 DEF IInv, HeadKept
      <3>2. q \in Lineage(r)' /\ row'[q] = row[q]
        BY <1>2, <1>3, <2>2, <3>1 DEF Lineage
      <3>3. QED
        BY <3>1, <3>2
    <2>3. QED
      BY <2>1, <2>2
  <1>11. QED
    BY <1>1, <1>4, <1>5, <1>6, <1>8, <1>9, <1>10 DEF IInv

\* What a commit does to the rows.
LEMMA CommitRows ==
    ASSUME TypeOK, IInv, NEW t \in Txs, Commit(t)
    PROVE  /\ tx[t] \in Running /\ WritesOf(t) /\ tx[t].pc = "ready"
           /\ tx[t].target \in Rows /\ Exists(tx[t].target)
           /\ row' \in [Rows -> [status : Statuses, root : Rows]]
           /\ \A r \in Rows : tx[t].writes[r] = "same" => row'[r] = row[r]
           /\ \A r \in Rows : tx[t].writes[r] # "same" =>
                 /\ Exists(r)'
                 /\ row'[r].status = tx[t].writes[r]
                 /\ row'[r].root = row[tx[t].target].root
           /\ \A r \in Rows : Exists(r) => Exists(r)' /\ row'[r].root = row[r].root
  <1>1. /\ tx[t] \in Running /\ WritesOf(t) /\ tx[t].pc = "ready"
        /\ tx[t].target \in Rows /\ Exists(tx[t].target)
        /\ tx[t].writes \in [Rows -> {"same", "pending", "active", "superseded"}]
    BY TxFacts DEF Commit, IInv, WritesOf, Running
  <1>2. \A r \in Rows : row'[r] =
            IF tx[t].writes[r] = "same" THEN row[r]
            ELSE [status |-> tx[t].writes[r],
                  root   |-> IF Exists(r) THEN row[r].root ELSE row[tx[t].target].root]
    BY DEF Commit, Target
  <1>3. row' = [r \in Rows |-> row'[r]]
    BY DEF Commit
  <1>a. \A r \in Rows : tx[t].writes[r] # "same" =>
            tx[t].writes[r] \in {"pending", "active", "superseded"}
    BY <1>1
  <1>b. \A r \in Rows : row[r] \in [status : Statuses, root : Rows] /\ row[r].root \in Rows
    BY DEF TypeOK
  <1>4. ASSUME NEW r \in Rows PROVE row'[r] \in [status : Statuses, root : Rows]
    <2>1. CASE tx[t].writes[r] = "same"
      BY <1>2, <1>b, <2>1
    <2>2. CASE tx[t].writes[r] # "same"
      <3>1. PICK b \in Rows : row'[r] = [status |-> tx[t].writes[r], root |-> b]
        BY <1>1, <1>2, <1>b, <2>2
      <3>2. QED
        BY <1>a, <2>2, <3>1 DEF Statuses
    <2>3. QED
      BY <2>1, <2>2
  <1>5. row' \in [Rows -> [status : Statuses, root : Rows]]
    BY <1>3, <1>4
  <1>6. ASSUME NEW r \in Rows, tx[t].writes[r] # "same"
        PROVE  /\ Exists(r)'
               /\ row'[r].status = tx[t].writes[r]
               /\ row'[r].root = row[tx[t].target].root
    <2>1. Exists(r) => row[r].root = row[tx[t].target].root
      BY <1>1, <1>6 DEF WritesOf
    <2>2. row'[r] = [status |-> tx[t].writes[r], root |-> row[tx[t].target].root]
      BY <1>2, <1>6, <2>1
    <2>3. QED
      BY <1>a, <1>6, <2>2 DEF Exists
  <1>7. ASSUME NEW r \in Rows, Exists(r)
        PROVE  Exists(r)' /\ row'[r].root = row[r].root
    <2>1. CASE tx[t].writes[r] = "same"
      BY <1>2, <1>7, <2>1 DEF Exists
    <2>2. CASE tx[t].writes[r] # "same"
      BY <1>1, <1>6, <1>7, <2>2 DEF WritesOf
    <2>3. QED
      BY <2>1, <2>2
  <1>8. QED
    BY <1>1, <1>2, <1>5, <1>6, <1>7

\* A promotion that ran alone leaves its target the one active row.
LEMMA CommitSettles ==
    ASSUME TypeOK, IInv, NEW t \in Txs, Commit(t), Settled(t), NEW g, g = tx[t].target
    PROVE  Active(g)' = {g}
  <1>1. /\ tx[t].op = "promote" /\ tx[t].alone = TRUE /\ tx[t].pc = "ready"
        /\ WritesOf(t) /\ Sweeping(t) /\ g \in Rows /\ Exists(g)
    BY CommitRows DEF Settled, IInv, Running
  <1>2. tx[t].todo = {} /\ tx[t].writes[g] = "active"
    BY <1>1 DEF WritesOf
  <1>3. g \in Active(g)'
    BY <1>1, <1>2, CommitRows DEF Active, Lineage
  <1>4. ASSUME NEW p \in Active(g)' PROVE p = g
    <2>1. p \in Rows /\ Exists(p)' /\ row'[p].root = row'[g].root /\ row'[p].status = "active"
      BY <1>4 DEF Active, Lineage
    <2>2. CASE tx[t].writes[p] = "same"
      <3>1. p \in Active(g)
        BY <1>1, <2>1, <2>2, CommitRows DEF Active, Lineage, Exists
      <3>2. QED
        BY <1>1, <1>2, <2>2, <3>1 DEF Sweeping
    <2>3. CASE tx[t].writes[p] # "same"
      BY <1>1, <2>1, <2>3, CommitRows DEF WritesOf
    <2>4. QED
      BY <2>2, <2>3
  <1>5. QED
    BY <1>3, <1>4

LEMMA CommitStep ==
    ASSUME TypeOK, IInv, NEW t \in Txs, Commit(t)
    PROVE  TypeOK' /\ IInv'
  <1> DEFINE g == tx[t].target
             L == row[g].root
  <1>1. /\ tx[t] \in Running /\ WritesOf(t) /\ tx[t].pc = "ready"
        /\ g \in Rows /\ Exists(g)
        /\ row' \in [Rows -> [status : Statuses, root : Rows]]
        /\ \A r \in Rows : tx[t].writes[r] = "same" => row'[r] = row[r]
        /\ \A r \in Rows : tx[t].writes[r] # "same" =>
              Exists(r)' /\ row'[r].status = tx[t].writes[r] /\ row'[r].root = L
        /\ \A r \in Rows : Exists(r) => Exists(r)' /\ row'[r].root = row[r].root
    BY CommitRows
  <1>2. L \in Rows /\ Exists(L)
    BY <1>1 DEF TypeOK, IInv, Rooted
  <1>3. /\ tx'[t] = Idle
        /\ \A u \in Txs : u # t =>
              tx'[u] = [tx[u] EXCEPT !.alone = @ /\ ~( /\ tx[t].op = "promote"
                                                      /\ tx[u].pc # "read"
                                                      /\ Promotes(u, Target(t)))]
        /\ tx' = [u \in Txs |-> tx'[u]]
    BY DEF Commit
  <1>4. ASSUME NEW u \in Txs, u # t
        PROVE  /\ tx'[u] \in {Idle} \cup Running
               /\ tx'[u].op = tx[u].op /\ tx'[u].pc = tx[u].pc
               /\ tx'[u].target = tx[u].target /\ tx'[u].todo = tx[u].todo
               /\ tx'[u].writes = tx[u].writes
               /\ tx'[u].alone => /\ tx[u].alone
                                  /\ tx[t].op = "promote" /\ tx[u].pc # "read" => ~Promotes(u, Target(t))
    <2>1. CASE tx[u].op = "none"
      <3>1. tx[u] = Idle /\ ~Promotes(u, Target(t))
        BY <2>1, TxFacts DEF Promotes
      <3> DEFINE b == tx[u].alone /\ ~( /\ tx[t].op = "promote"
                                       /\ tx[u].pc # "read"
                                       /\ Promotes(u, Target(t)))
      <3>a. tx'[u] = [tx[u] EXCEPT !.alone = b]
        BY <1>3, <1>4
      <3>b. b = TRUE
        BY <3>1, IdleFacts
      <3> HIDE DEF b
      <3>2. tx'[u] = [Idle EXCEPT !.alone = TRUE]
        BY <3>1, <3>a, <3>b
      <3>3. tx'[u] = Idle
        BY <3>2 DEF Idle
      <3>4. QED
        BY <3>1, <3>3, IdleFacts
    <2>2. CASE tx[u].op # "none"
      <3>1. tx[u] \in Running
        BY <2>2, TxFacts
      <3>2. QED
        BY <1>3, <1>4, <3>1 DEF Running
    <2>3. QED
      BY <2>1, <2>2
  <1>5. tx' \in [Txs -> {Idle} \cup Running]
    BY <1>3, <1>4
  <1>6. TypeOK'
    <2>1. raced' \subseteq Rows
      BY <1>2 DEF Commit, Target, TypeOK
    <2>2. QED
      BY <1>1, <1>5, <2>1 DEF TypeOK
  <1>7. Rooted'
    <2> SUFFICES ASSUME NEW r \in Rows
                 PROVE  IF Exists(r)' THEN row'[row'[r].root].status # "absent"
                        ELSE row'[r].root = r
      BY DEF Rooted, Exists
    <2>1. CASE tx[t].writes[r] # "same"
      BY <1>1, <1>2, <2>1 DEF Exists
    <2>2. CASE tx[t].writes[r] = "same"
      <3>1. row'[r] = row[r] /\ row[r].root \in Rows
        BY <1>1, <2>2 DEF TypeOK
      <3>2. QED
        BY <1>1, <3>1 DEF IInv, Rooted, Exists
    <2>3. QED
      BY <2>1, <2>2
  <1>8. \A u \in Txs, r \in Rows : tx'[u].writes[r] # "same" => u # t /\ tx'[u].writes[r] = tx[u].writes[r]
    BY <1>3, <1>4, IdleFacts
  <1>9. Exclusive'
    BY <1>8 DEF IInv, Exclusive
  <1>10. ASSUME NEW u \in Txs, tx'[u].op # "none" PROVE WritesOf(u)'
    <2>1. u # t /\ tx[u].op # "none" /\ tx[u] \in Running
      BY <1>3, <1>4, <1>10, IdleFacts, TxFacts
    <2>2. WritesOf(u) /\ tx[u].target \in Rows /\ tx[u].todo \subseteq Rows
      BY <2>1 DEF IInv, Running
    <2>3. ASSUME NEW r \in Rows, tx[u].writes[r] # "same" PROVE row'[r] = row[r]
      <3>1. tx[t].writes[r] = "same"
        BY <2>1, <2>3 DEF IInv, Exclusive
      <3>2. QED
        BY <1>1, <3>1
    <2>4. Exists(tx[u].target)' /\ row'[tx[u].target].root = row[tx[u].target].root
      BY <1>1, <1>4, <2>1, <2>2 DEF WritesOf, Exists
    <2>5. \A r \in Rows : tx[u].writes[r] = "same" \/ (Exists(r)' => row'[r].root = row'[tx[u].target].root)
      BY <2>2, <2>3, <2>4 DEF WritesOf, Exists
    <2>6. tx[u].op = "promote" =>
             /\ \A r \in tx[u].todo : Exists(r)' /\ row'[r].root = row'[tx[u].target].root
             /\ \A r \in Rows : tx[u].writes[r] # "same" => Exists(r)'
      BY <1>1, <2>2, <2>4 DEF WritesOf
    <2>7. QED
      BY <1>4, <2>1, <2>2, <2>4, <2>5, <2>6 DEF WritesOf
  <1>11. ASSUME NEW u \in Txs PROVE Sweeping(u)'
    <2>1. CASE u = t \/ tx[u].op # "promote"
      BY <1>3, <1>4, <2>1, IdleFacts DEF Sweeping
    <2>2. CASE u # t /\ tx[u].op = "promote"
      <3>1. tx[u] \in Running /\ WritesOf(u) /\ tx[u].target \in Rows /\ Exists(tx[u].target)
        BY <2>2, TxFacts DEF IInv, Running, WritesOf
      <3>2. SUFFICES ASSUME tx[u].pc # "read", tx'[u].alone, NEW r \in Active(tx[u].target)'
                     PROVE  r \in tx[u].todo \/ tx[u].writes[r] # "same"
        BY <1>4, <2>2 DEF Sweeping
      <3>3. r \in Rows /\ Exists(r)' /\ row'[r].root = row[tx[u].target].root /\ row'[r].status = "active"
        BY <1>1, <1>4, <2>2, <3>1 DEF Active, Lineage
      <3>4. tx[t].op = "promote" => row[tx[u].target].root # L
        BY <1>4, <2>2, <3>2 DEF Promotes, Target
      <3>5. tx[t].writes[r] = "same"
        <4>1. tx[t].op = "version" \/ tx[t].op = "promote"
          BY <1>1 DEF Running
        <4>2. QED
          BY <1>1, <3>3, <3>4, <4>1 DEF WritesOf
      <3>6. r \in Active(tx[u].target)
        BY <1>1, <3>3, <3>5 DEF Active, Lineage, Exists
      <3>7. QED
        BY <1>4, <2>2, <3>2, <3>6 DEF IInv, Sweeping
    <2>3. QED
      BY <2>1, <2>2
  <1>12. OneActive'
    <2> SUFFICES ASSUME NEW r \in Rows, Exists(r)', row'[r].root \notin raced',
                        NEW p \in Active(r)', NEW q \in Active(r)'
                 PROVE  p = q
      BY DEF OneActive
    <2>1. /\ p \in Rows /\ Exists(p)' /\ row'[p].root = row'[r].root /\ row'[p].status = "active"
          /\ q \in Rows /\ Exists(q)' /\ row'[q].root = row'[r].root /\ row'[q].status = "active"
      BY DEF Active, Lineage
    <2>2. ASSUME row'[r].root \notin raced, tx[t].writes[p] = "same", tx[t].writes[q] = "same"
          PROVE  p = q
      <3>1. p \in Active(p) /\ q \in Active(p) /\ Exists(p) /\ row[p].root \notin raced
        BY <1>1, <2>1, <2>2 DEF Active, Lineage, Exists
      <3>2. QED
        BY <2>1, <3>1 DEF IInv, OneActive
    <2>3. CASE tx[t].op = "version"
      <3>1. raced' = raced
        BY <2>3 DEF Commit
      <3>2. QED
        BY <1>1, <2>1, <2>2, <2>3, <3>1 DEF WritesOf
    <2>4. CASE tx[t].op = "promote" /\ row'[r].root # L
      <3>1. row'[r].root \notin raced
        BY <2>4 DEF Commit, Target
      <3>2. QED
        BY <1>1, <2>1, <2>2, <2>4, <3>1
    <2>5. CASE tx[t].op = "promote" /\ row'[r].root = L
      <3>1. tx[t].alone
        BY <2>5 DEF Commit, Target
      <3>a. PICK c \in Rows : c = tx[t].target
        BY <1>1
      <3>2. Active(c)' = {c}
        BY <2>5, <3>1, <3>a, CommitSettles DEF Settled
      <3>3. row'[c].root = L
        BY <1>1, <3>a
      <3>4. p \in Active(c)' /\ q \in Active(c)'
        BY <2>1, <2>5, <3>3 DEF Active, Lineage
      <3>5. QED
        BY <3>2, <3>4
    <2>6. QED
      BY <1>1, <2>3, <2>4, <2>5 DEF Running
  <1>13. HeadKept'
    <2> SUFFICES ASSUME NEW r \in Rows, Exists(r)'
                 PROVE  \E q \in Lineage(r)' : row'[q].status \in {"pending", "active"}
      BY DEF HeadKept
    <2>1. CASE row'[r].root = L
      <3>1. PICK q \in Rows : tx[t].writes[q] \in {"pending", "active"}
        BY <1>1 DEF WritesOf, Running
      <3>2. q \in Lineage(r)'
        BY <1>1, <2>1, <3>1 DEF Lineage
      <3>3. QED
        BY <1>1, <3>1, <3>2
    <2>2. CASE row'[r].root # L
      <3>1. row'[r] = row[r] /\ Exists(r)
        BY <1>1, <2>2 DEF Exists
      <3>2. PICK q \in Lineage(r) : row[q].status \in {"pending", "active"}
        BY <3>1 DEF IInv, HeadKept
      <3>3. q \in Rows /\ Exists(q) /\ row[q].root = row[r].root
        BY <3>2 DEF Lineage
      <3>4. row'[q] = row[q]
        BY <1>1, <2>2, <3>1, <3>3
      <3>5. QED
        BY <1>1, <3>1, <3>2, <3>3, <3>4 DEF Lineage
    <2>3. QED
      BY <2>1, <2>2
  <1>14. QED
    BY <1>6, <1>7, <1>9, <1>10, <1>11, <1>12, <1>13 DEF IInv

-----------------------------------------------------------------------------
(* The theorems.                                                           *)

LEMMA InitHolds == Init => TypeOK /\ IInv
  <1> SUFFICES ASSUME Init PROVE TypeOK /\ IInv
    OBVIOUS
  <1>1. \A t \in Txs : tx[t] = Idle
    BY DEF Init
  <1>2. TypeOK
    BY DEF Init, TypeOK, Statuses
  <1>3. \A r \in Rows : ~Exists(r) /\ row[r].root = r
    BY DEF Init, Exists
  <1>4. QED
    BY <1>1, <1>2, <1>3, IdleFacts
    DEF IInv, Rooted, Exclusive, WritesOf, Sweeping, OneActive, HeadKept

LEMMA StepHolds == TypeOK /\ IInv /\ [Next]_vars => TypeOK' /\ IInv'
  <1> SUFFICES ASSUME TypeOK, IInv, [Next]_vars PROVE TypeOK' /\ IInv'
    OBVIOUS
  <1>1. CASE UNCHANGED vars
    BY <1>1 DEF vars, TypeOK, IInv, Rooted, Exclusive, WritesOf, Sweeping, OneActive, HeadKept,
                Active, Lineage, Exists
  <1>2. CASE \E r \in Rows, s \in {"pending", "active"} : Insert(r, s)
    BY <1>2, InsertStep
  <1>3. ASSUME NEW t \in Txs, \E r \in Rows, op \in {"version", "promote"} : Read(t, op, r)
        PROVE  TypeOK' /\ IInv'
    BY <1>3, ReadStep
  <1>4. ASSUME NEW t \in Txs, \E r \in Rows : Flush(t, r) \/ Sweep(t, r)
        PROVE  TypeOK' /\ IInv'
    BY <1>4, FlushStep, SweepStep
  <1>5. ASSUME NEW t \in Txs, Snapshot(t) \/ Mark(t) \/ Commit(t) \/ Rollback(t)
        PROVE  TypeOK' /\ IInv'
    BY <1>5, SnapshotStep, MarkStep, CommitStep, RollbackStep
  <1>6. QED
    BY <1>1, <1>2, <1>3, <1>4, <1>5 DEF Next

\* The variables keep their types.
THEOREM TypeCorrect == Spec => []TypeOK
  BY InitHolds, StepHolds, PTL DEF Spec

\* One active version in each lineage whose promotions did not overlap
\* (repository.py:198, 231-249).
THEOREM ActiveIsOne == Spec => []OneActive
  <1>1. IInv => OneActive
    BY DEF IInv
  <1>2. QED
    BY InitHolds, StepHolds, <1>1, PTL DEF Spec

\* A lineage always has a pending or an active version (repository.py:208-249).
THEOREM HeadStays == Spec => []HeadKept
  <1>1. IInv => HeadKept
    BY DEF IInv
  <1>2. QED
    BY InitHolds, StepHolds, <1>1, PTL DEF Spec

\* A promotion no other has committed into settles its lineage
\* (repository.py:231-249).
THEOREM SoleSettles == Spec => PromotionSettles
  <1>1. TypeOK /\ IInv /\ [Next]_vars =>
          [\A t \in Txs, r \in Rows :
              Commit(t) /\ Settled(t) /\ r = Target(t) => Active(r)' = {r}]_vars
    BY CommitSettles DEF Target
  <1>2. QED
    BY InitHolds, StepHolds, <1>1, PTL DEF Spec, PromotionSettles
=============================================================================
