------------------------- MODULE SkillIndex_proofs -------------------------
(***************************************************************************)
(* A quiet call to the loader works with a current index, for any number   *)
(* of directories, names and edits.                                        *)
(*                                                                         *)
(* The argument is about the pair of a signature and the index kept with   *)
(* it: a file that still has the time its stamp was taken with has not     *)
(* been touched since, so the scan that came after the stamp has read this *)
(* very file.                                                              *)
(***************************************************************************)
EXTENDS SkillIndex, TLAPS

-----------------------------------------------------------------------------
(* Types.                                                                  *)

\* A step that changes a file, and nothing of the loader.
Edit == \/ \E p \in Paths, n \in Names : Install(p, n)
        \/ \E p \in Paths : Uninstall(p)

\* A step of the loader.
Work == \/ Call \/ List \/ Missing \/ Hit \/ Miss \/ Store \/ Matched \/ Reset
        \/ \E p \in Paths : Stat(p) \/ ReadMd(p) \/ LoadBody(p)

\* Next is an edit or a step of the loader.
LEMMA Steps == Next <=> Edit \/ Work
  BY DEF Next, Edit, Work

\* What an edit does to the files: one of them gets a new time or goes away.
LEMMA EditFacts ==
  ASSUME TypeOK, Edit
  PROVE  /\ clock' = clock + 1
         /\ Present' \subseteq Paths /\ disk' \in [Present' -> File]
         /\ \A q \in Present' : \/ disk'[q].time = clock + 1
                                \/ q \in Present /\ disk'[q] = disk[q]
         /\ quiet' = FALSE
         /\ UNCHANGED <<kept, pc, matching, walk, taken, found, ended>>
<1>1. CASE \E p \in Paths, n \in Names : Install(p, n)
  <2>1. PICK p \in Paths, n \in Names : Install(p, n)
    BY <1>1
  <2>2. disk' = [q \in Present \cup {p} |-> IF q = p THEN [name |-> n, time |-> clock + 1] ELSE disk[q]]
    BY <2>1 DEF Install
  <2>3. Present' = Present \cup {p} /\ disk' \in [Present' -> File]
    BY <2>2 DEF TypeOK, File, Present
  <2> QED
    BY <2>1, <2>2, <2>3 DEF Install, TypeOK
<1>2. CASE \E p \in Paths : Uninstall(p)
  <2>1. PICK p \in Paths : Uninstall(p)
    BY <1>2
  <2>2. disk' = [q \in Present \ {p} |-> disk[q]]
    BY <2>1 DEF Uninstall
  <2>3. Present' = Present \ {p} /\ disk' \in [Present' -> File]
    BY <2>2 DEF TypeOK, File, Present
  <2> QED
    BY <2>1, <2>2, <2>3 DEF Uninstall, TypeOK
<1> QED
  BY <1>1, <1>2 DEF Edit

\* The loader changes no file.
LEMMA WorkFacts == Work => UNCHANGED <<disk, clock, Present>>
  BY DEF Work, Call, List, Missing, Raise, Hit, Miss, Store, UseIndex, Matched, Reset,
         Stat, ReadMd, LoadBody, files, Present

\* Every step keeps the types.
LEMMA TypeStep == TypeOK /\ [Next]_vars => TypeOK'
<1> SUFFICES ASSUME TypeOK, [Next]_vars PROVE TypeOK'
  OBVIOUS
<1>1. CASE Edit
  <2>0. /\ Present' \subseteq Paths /\ disk' \in [Present' -> File]
        /\ clock' = clock + 1 /\ quiet' = FALSE
    BY <1>1, EditFacts
  <2>1. clock' \in Nat
    BY <2>0 DEF TypeOK
  <2>3. quiet' \in BOOLEAN
    BY <2>0, Zenon
  <2>2. UNCHANGED <<cached, cache, signature, pc, matching, source, todo, taken, found, outcome, answer>>
    BY <1>1, EditFacts DEF kept, walk, ended
  <2> QED
    BY <2>0, <2>1, <2>2, <2>3 DEF TypeOK
<1>2. CASE Work
  <2> UNCHANGED <<disk, clock, Present>>
    BY <1>2, WorkFacts
  <2>1. CASE Call
    BY <2>1 DEF TypeOK, Call, kept, walk
  <2>2. CASE List
    BY <2>2 DEF TypeOK, List, kept, ended
  <2>3. CASE Missing
    BY <2>3 DEF TypeOK, Missing, Raise, Forget, kept
  <2>4. ASSUME NEW I \in SUBSET Entry, UseIndex(I)
        PROVE  /\ answer' \subseteq Entry /\ pc' \in {"idle", "bodies"}
               /\ outcome' \in {"none", "index", "raised"} /\ todo' \subseteq Paths
               /\ source' = 0 /\ taken' = {} /\ found' = {} /\ UNCHANGED <<matching, quiet>>
    BY <2>4 DEF TypeOK, UseIndex, Forget, Entry
  <2>5. CASE Hit
    BY <2>5, <2>4 DEF TypeOK, Hit, kept
  <2>6. CASE Miss
    BY <2>6 DEF TypeOK, Miss, kept, ended
  <2>7. CASE Store
    BY <2>7, <2>4 DEF TypeOK, Store, StampsKept
  <2>8. CASE Matched
    BY <2>8 DEF TypeOK, Matched, kept, walk
  <2>9. CASE Reset
    BY <2>9 DEF TypeOK, Reset, walk, ended
  <2>10. ASSUME NEW p \in Paths, Stat(p) PROVE TypeOK'
    BY <2>10 DEF TypeOK, Stat, Stamp, File, Present, kept, ended
  <2>11. ASSUME NEW p \in Paths, ReadMd(p) PROVE TypeOK'
    BY <2>11 DEF TypeOK, ReadMd, Merge, Entry, File, Present, kept, ended
  <2>12. ASSUME NEW p \in Paths, LoadBody(p) PROVE TypeOK'
    BY <2>12 DEF TypeOK, LoadBody, kept, ended
  <2> QED
    BY <1>2, <2>1, <2>2, <2>3, <2>5, <2>6, <2>7, <2>8, <2>9, <2>10, <2>11, <2>12 DEF Work
<1>3. CASE UNCHANGED vars
  <2>1. UNCHANGED <<disk, Present>>
    BY <1>3 DEF vars, files, Present
  <2> QED
    BY <1>3, <2>1 DEF TypeOK, vars, files, kept, walk, ended
<1> QED
  BY <1>1, <1>2, <1>3, Steps

\* Init has the types.
LEMMA TypeInit == Init => TypeOK
<1> SUFFICES ASSUME Init PROVE TypeOK
  OBVIOUS
<1>1. PICK P \in SUBSET Paths : disk \in [P -> [name : Names, time : {0}]]
  BY DEF Init
<1>2. [name : Names, time : {0}] \subseteq File
  BY DEF File
<1>3. Present = P
  BY <1>1 DEF Present
<1>4. disk \in [Present -> File]
  BY <1>1, <1>2, <1>3
<1>5. cached \in BOOLEAN /\ matching \in BOOLEAN /\ quiet \in BOOLEAN
  BY Zenon DEF Init
<1> QED
  BY <1>3, <1>4, <1>5 DEF Init, TypeOK

\* Every variable of the loader and of its files keeps its type.
THEOREM TypeCorrect == Spec => []TypeOK
  BY TypeInit, TypeStep, PTL DEF Spec
-----------------------------------------------------------------------------
(* A signature and the index that goes with it.                            *)

Touched(p, m) == p \notin Present \/ disk[p].time # m

\* No time is ahead of the clock, so that the next edit makes a new one.
Past(T, I) == /\ \A s \in T : s[2] <= clock
              /\ \A e \in I : e.time <= clock

\* A file that has not been touched since an entry was read from it still
\* has the entry's name; one not touched since its stamp was taken has not
\* been touched since its entry was read; each name is there once.
Coherent(T, I) ==
    /\ \A e \in I : Touched(e.path, e.time) \/ disk[e.path].name = e.name
    /\ \A e \in I, s \in T : s[1] = e.path => Touched(s[1], s[2]) \/ s[2] = e.time
    /\ \A e, f \in I : e.name = f.name => e = f

Named(p, I) == \E e \in I : e.name = disk[p].name /\ ~Before(p, e.path)

\* A file not touched since its stamp was taken is found, unless it is among
\* the files A.
CoversBut(T, I, A) == \A s \in T : Touched(s[1], s[2]) \/ s[1] \in A \/ Named(s[1], I)

\* The files a walk has still to come to.
Ahead == {p \in Paths : p[1] > source} \cup todo

Clocked  == \A p \in Present : disk[p].time <= clock
CacheInv == /\ Past(signature, cache)
            /\ Coherent(signature, cache)
            /\ cached => CoversBut(signature, cache, {})
ScanInv  == /\ Past(taken, found)
            /\ Coherent(taken, found)
            /\ pc = "scan" => CoversBut(taken, found, Ahead)
            /\ pc # "scan" => found = {}

\* The walk takes the files in order.
WalkInv == /\ Walking => /\ \A p \in todo : p[1] = source
                         /\ \A e \in found : e.path[1] <= source
                         /\ \A e \in found, p \in todo : ~Before(p, e.path)
           /\ ~Walking => source = 0 /\ taken = {}
           /\ pc = "idle" => todo = {}

\* What a call knows as long as no file changes.
Stamped(p) == <<p, disk[p].time>> \in taken
QuietInv == quiet =>
    /\ Walking => todo \subseteq Present
    /\ pc = "stat" => \A p \in Present : p \in Ahead \/ Stamped(p)
    /\ pc = "scan" => \A p \in Present : Stamped(p)
    /\ pc = "bodies" => Current(answer)
AnswerInv == /\ pc = "bodies" => todo \subseteq {e.path : e \in answer}
             /\ pc # "idle" => outcome = "none"

SInv == /\ TypeOK /\ Clocked /\ CacheInv /\ ScanInv /\ WalkInv
        /\ QuietInv /\ AnswerInv /\ QuietCallCurrent
\* An edit keeps what is known of a signature and its index: the file it
\* changes is touched from then on.
LEMMA PairEdit ==
  ASSUME TypeOK, Clocked, Edit, NEW T \in SUBSET Stamp, NEW I \in SUBSET Entry, NEW A,
         Past(T, I), Coherent(T, I)
  PROVE  /\ Past(T, I)' /\ Coherent(T, I)'
         /\ CoversBut(T, I, A) => CoversBut(T, I, A)'
<1>1. /\ clock \in Nat /\ clock' = clock + 1
      /\ \A q \in Present' : disk'[q].time = clock + 1 \/ (q \in Present /\ disk'[q] = disk[q])
  BY EditFacts DEF TypeOK
<1>2. /\ \A s \in T : s[1] \in Paths /\ s[2] \in Nat /\ s[2] <= clock
      /\ \A e \in I : e.path \in Paths /\ e.time \in Nat /\ e.time <= clock
  BY DEF Past, Stamp, Entry
<1>3. Past(T, I)'
  BY <1>1, <1>2 DEF Past
<1>4. ASSUME NEW q, NEW m \in Nat, m <= clock, ~(Touched(q, m)')
      PROVE  ~Touched(q, m) /\ disk'[q] = disk[q]
  BY <1>1, <1>4 DEF Touched
<1>5. Coherent(T, I)'
  <2>1. ASSUME NEW e \in I PROVE Touched(e.path, e.time)' \/ disk'[e.path].name = e.name
    BY <1>2, <1>4 DEF Coherent
  <2>2. ASSUME NEW e \in I, NEW s \in T, s[1] = e.path
        PROVE  Touched(s[1], s[2])' \/ s[2] = e.time
    BY <1>2, <1>4, <2>2 DEF Coherent
  <2> QED
    BY <2>1, <2>2 DEF Coherent
<1>6. ASSUME CoversBut(T, I, A) PROVE CoversBut(T, I, A)'
  <2> SUFFICES ASSUME NEW s \in T, ~(Touched(s[1], s[2])'), s[1] \notin A
               PROVE  Named(s[1], I)'
    BY DEF CoversBut
  <2>1. ~Touched(s[1], s[2]) /\ disk'[s[1]] = disk[s[1]]
    BY <1>2, <1>4
  <2>2. Named(s[1], I)
    BY <1>6, <2>1 DEF CoversBut
  <2> QED
    BY <2>1, <2>2 DEF Named
<1> QED
  BY <1>3, <1>5, <1>6

\* Edits keep the invariant: they end the quiet and touch a file.
LEMMA EditStep == SInv /\ Edit => SInv'
<1> SUFFICES ASSUME SInv, Edit PROVE SInv'
  OBVIOUS
<1> USE DEF SInv
<1>1. TypeOK'
  BY TypeStep, Steps
<1>2. /\ clock \in Nat /\ clock' = clock + 1
      /\ \A q \in Present' : disk'[q].time = clock + 1 \/ (q \in Present /\ disk'[q] = disk[q])
      /\ quiet' = FALSE
      /\ UNCHANGED <<cached, cache, signature, pc, matching, source, todo, taken, found, outcome, answer>>
  BY EditFacts DEF TypeOK, kept, walk, ended
<1>3. Clocked'
  <2> SUFFICES ASSUME NEW q \in Present' PROVE disk'[q].time <= clock'
    BY DEF Clocked
  <2>1. CASE disk'[q].time = clock + 1
    BY <1>2, <2>1
  <2>2. CASE q \in Present /\ disk'[q] = disk[q]
    <3>1. disk[q].time \in Nat /\ disk[q].time <= clock
      BY <2>2 DEF Clocked, TypeOK, File
    <3> QED
      BY <1>2, <2>2, <3>1
  <2> QED
    BY <1>2, <2>1, <2>2
<1>4. CacheInv'
  <2>1. PICK T \in SUBSET Stamp, I \in SUBSET Entry :
             T = signature /\ T = signature' /\ I = cache /\ I = cache'
    BY <1>2 DEF TypeOK
  <2>2. Past(T, I) /\ Coherent(T, I) /\ (cached => CoversBut(T, I, {}))
    BY <2>1 DEF CacheInv
  <2>3. Past(T, I)' /\ Coherent(T, I)' /\ (cached => CoversBut(T, I, {})')
    BY <2>2, PairEdit
  <2> QED
    BY <1>2, <2>1, <2>3 DEF CacheInv
<1>5. ScanInv'
  <2>1. PICK T \in SUBSET Stamp, I \in SUBSET Entry, A \in SUBSET Paths :
             T = taken /\ T = taken' /\ I = found /\ I = found' /\ A = Ahead /\ A = Ahead'
    BY <1>2 DEF TypeOK, Ahead
  <2>2. Past(T, I) /\ Coherent(T, I) /\ (pc = "scan" => CoversBut(T, I, A))
    BY <2>1 DEF ScanInv
  <2>3. Past(T, I)' /\ Coherent(T, I)' /\ (pc = "scan" => CoversBut(T, I, A)')
    BY <2>2, PairEdit
  <2>4. pc' # "scan" => found' = {}
    BY <1>2 DEF ScanInv
  <2> QED
    BY <1>2, <2>1, <2>3, <2>4 DEF ScanInv
<1>6. WalkInv'
  BY <1>2 DEF WalkInv, Walking
<1>7. QuietInv' /\ QuietCallCurrent'
  BY <1>2 DEF QuietInv, QuietCallCurrent
<1>8. AnswerInv'
  BY <1>2 DEF AnswerInv
<1> QED
  BY <1>1, <1>3, <1>4, <1>5, <1>6, <1>7, <1>8
-----------------------------------------------------------------------------
(* The loader's own steps.                                                 *)

\* At the end of a walk no file is ahead.
LEMMA NoneAhead == TypeOK /\ Walked => Ahead = {}
  BY DEF TypeOK, Walked, Ahead, Paths, Sources

\* The steps other than Store and Reset leave the cache alone, those other
\* than Stat, ReadMd and the ends of a call leave the locals alone.
LEMMA WorkCases ==
  ASSUME SInv, Work
  PROVE  /\ UNCHANGED <<disk, clock, Present>>
         /\ UNCHANGED <<cached, cache, signature>> \/ Store \/ Reset
         /\ \/ Call \/ List \/ Missing \/ Hit \/ Miss \/ Store \/ Matched \/ Reset
            \/ \E p \in Paths : Stat(p) \/ ReadMd(p) \/ LoadBody(p)
<1>1. UNCHANGED <<cached, cache, signature>> \/ Store \/ Reset
  BY DEF Work, Call, List, Missing, Raise, Hit, Miss, Matched, Stat, ReadMd, LoadBody, kept
<1> QED
  BY <1>1, WorkFacts DEF Work

\* Touched, Named and so on are about files the loader does not change.
LEMMA SameFiles ==
  ASSUME UNCHANGED <<disk, clock, Present>>, NEW T, NEW I, NEW A
  PROVE  /\ Past(T, I)' <=> Past(T, I)
         /\ Coherent(T, I)' <=> Coherent(T, I)
         /\ CoversBut(T, I, A)' <=> CoversBut(T, I, A)
         /\ Current(I)' <=> Current(I)
         /\ Clocked' <=> Clocked
<1>1. Past(T, I)' <=> Past(T, I)
  BY DEF Past
<1>2. \A q, m : Touched(q, m)' <=> Touched(q, m)
  BY DEF Touched
<1>3. Coherent(T, I)' <=> Coherent(T, I)
  BY <1>2 DEF Coherent
<1>4. \A q : Named(q, I)' <=> Named(q, I)
  BY DEF Named
<1>5. CoversBut(T, I, A)' <=> CoversBut(T, I, A)
  BY <1>2, <1>4 DEF CoversBut
<1>6. Current(I)' <=> Current(I)
  BY DEF Current
<1>7. Clocked' <=> Clocked
  BY DEF Clocked
<1> QED
  BY <1>1, <1>3, <1>5, <1>6, <1>7

\* The cache and its signature stay coherent, Store included.
LEMMA WorkCache == SInv /\ Work => CacheInv'
<1> SUFFICES ASSUME SInv, Work PROVE CacheInv'
  OBVIOUS
<1> USE DEF SInv
<1>1. UNCHANGED <<disk, clock, Present>>
  BY WorkCases
<1>2. CASE UNCHANGED <<cached, cache, signature>>
  <2>1. PICK T, I : T = signature /\ T = signature' /\ I = cache /\ I = cache'
    BY <1>2
  <2>2. Past(T, I)' /\ Coherent(T, I)' /\ (cached' => CoversBut(T, I, {})')
    BY <1>1, <1>2, <2>1, SameFiles DEF CacheInv
  <2> QED
    BY <2>1, <2>2 DEF CacheInv
<1>3. CASE Store
  <2>1. PICK T, I : T = taken /\ T = signature' /\ I = found /\ I = cache'
    BY <1>3 DEF Store, StampsKept
  <2>2. Past(T, I) /\ Coherent(T, I) /\ CoversBut(T, I, {})
    BY <1>3, <2>1, NoneAhead DEF ScanInv, Store
  <2>3. Past(T, I)' /\ Coherent(T, I)' /\ CoversBut(T, I, {})'
    BY <1>1, <2>2, SameFiles
  <2> QED
    BY <2>1, <2>3 DEF CacheInv
<1>4. CASE Reset
  BY <1>4 DEF Reset, CacheInv, Past, Coherent
<1> QED
  BY <1>2, <1>3, <1>4, WorkCases

\* Forgetting makes the scan's part trivial.
LEMMA ForgetScan == Forget /\ pc' # "scan" => ScanInv'
  BY DEF Forget, ScanInv, Past, Coherent

\* The walk's order is irreflexive.
LEMMA NeverBeforeItself == \A p \in Paths : ~Before(p, p)
<1> SUFFICES ASSUME NEW p \in Paths PROVE ~Before(p, p)
  OBVIOUS
<1>1. PICK i \in Sources, d \in Dirs : p = <<i, d>>
  BY DEF Paths
<1>2. i \in Nat /\ d \in Nat
  BY DirsAreNat DEF Sources
<1>3. ~(i < i) /\ ~(d < d)
  BY <1>2
<1> QED
  BY <1>1, <1>3 DEF Before

\* The signature being taken and the names found stay coherent.
LEMMA WorkScan == SInv /\ Work => ScanInv'
<1> SUFFICES ASSUME SInv, Work PROVE ScanInv'
  OBVIOUS
<1> USE DEF SInv
<1>1. UNCHANGED <<disk, clock, Present>>
  BY WorkCases
<1>2. ASSUME UNCHANGED <<taken, found>>, pc' # "scan", pc # "scan" PROVE ScanInv'
  <2>1. PICK T, I : T = taken /\ T = taken' /\ I = found /\ I = found'
    BY <1>2
  <2>2. Past(T, I)' /\ Coherent(T, I)' /\ found' = {}
    BY <1>1, <1>2, <2>1, SameFiles DEF ScanInv
  <2> QED
    BY <1>2, <2>1, <2>2 DEF ScanInv
<1>3. CASE Call \/ Matched \/ Reset \/ \E p \in Paths : LoadBody(p)
  BY <1>2, <1>3 DEF Call, Matched, Reset, LoadBody
<1>4. CASE Missing \/ Hit \/ Store
  BY <1>4, ForgetScan DEF Missing, Raise, Hit, Store, UseIndex
<1>5. CASE List
  <2>1. PICK T, I : T = taken /\ T = taken' /\ I = found /\ I = found'
    BY <1>5 DEF List
  <2>2. Past(T, I)' /\ Coherent(T, I)' /\ (pc # "scan" => found = {})
    BY <1>1, <2>1, SameFiles DEF ScanInv
  <2>3. ASSUME pc = "scan" PROVE CoversBut(T, I, Ahead)'
    <3>1. ASSUME NEW q \in Present, q \in Ahead PROVE q \in Ahead'
      BY <1>1, <1>5, <3>1 DEF List, Ahead, TypeOK, Paths, Sources
    <3>2. CoversBut(T, I, Ahead)
      BY <2>1, <2>3 DEF ScanInv
    <3> SUFFICES ASSUME NEW s \in T, ~(Touched(s[1], s[2])'), s[1] \notin Ahead'
                 PROVE  Named(s[1], I)'
      BY DEF CoversBut
    <3>3. ~Touched(s[1], s[2]) /\ s[1] \in Present
      BY <1>1 DEF Touched
    <3>4. Named(s[1], I)
      BY <3>1, <3>2, <3>3 DEF CoversBut
    <3> QED
      BY <1>1, <3>4 DEF Named
  <2> QED
    BY <1>5, <2>1, <2>2, <2>3 DEF ScanInv, List
<1>6. CASE Miss
  <2>1. PICK T, I : T = taken /\ T = taken' /\ I = found /\ I = found' /\ I = {}
    BY <1>6 DEF Miss, ScanInv
  <2>2. Past(T, I)' /\ Coherent(T, I)'
    BY <1>1, <2>1, SameFiles DEF ScanInv
  <2>3. \A q \in Paths : q \in Ahead'
    BY <1>6 DEF Miss, Ahead, Paths, Sources
  <2>4. CoversBut(T, I, Ahead)'
    BY <2>1, <2>3 DEF CoversBut, TypeOK, Stamp
  <2> QED
    BY <1>6, <2>1, <2>2, <2>4 DEF ScanInv, Miss
<1>7. ASSUME NEW p \in Paths, Stat(p) PROVE ScanInv'
  <2>1. pc = "stat" /\ pc' = "stat" /\ found = {} /\ found' = {}
    BY <1>7 DEF Stat, ScanInv
  <2>2. taken' = taken \cup {<<p, disk[p].time>>} /\ disk[p].time <= clock
    BY <1>7 DEF Stat, Clocked
  <2>3. Past(taken, found)'
    BY <1>1, <2>1, <2>2 DEF ScanInv, Past
  <2> QED
    BY <2>1, <2>3 DEF ScanInv, Coherent
<1>8. ASSUME NEW p \in Paths, ReadMd(p) PROVE ScanInv'
  <2> DEFINE new == [path |-> p, name |-> disk[p].name, time |-> disk[p].time]
  <2>1. PICK T, I, J, A, B : /\ T = taken /\ T = taken' /\ I = found /\ J = found'
                             /\ A = Ahead /\ B = Ahead'
    BY <1>8 DEF ReadMd
  <2>2. pc = "scan" /\ pc' = "scan" /\ p \in Present /\ p \in todo
    BY <1>8 DEF ReadMd, IsNext
  <2>3. Past(T, I) /\ Coherent(T, I) /\ CoversBut(T, I, A)
    BY <2>1, <2>2 DEF ScanInv
  <2>4. J = IF \E f \in I : f.name = new.name THEN I ELSE I \cup {new}
    BY <1>8, <2>1 DEF ReadMd, Merge
  <2>5. Past(T, J)
    BY <2>2, <2>3, <2>4 DEF Past, Clocked
  <2>6. Coherent(T, J)
    <3>1. disk[new.path].name = new.name
      OBVIOUS
    <3>2. \A s \in T : s[1] = new.path => Touched(s[1], s[2]) \/ s[2] = new.time
      BY DEF Touched
    <3> HIDE DEF new
    <3> QED
      BY <2>3, <2>4, <3>1, <3>2 DEF Coherent
  <2>7. \A q \in A : q \in B \/ q = p
    BY <1>8, <2>1 DEF Ahead, ReadMd
  <2>8. Named(p, J)
    <3>1. CASE \E f \in I : f.name = new.name
      <4>1. PICK f \in I : f.name = disk[p].name
        BY <3>1
      <4>2. ~Before(p, f.path)
        BY <2>1, <2>2 DEF WalkInv, Walking
      <4> QED
        BY <2>4, <3>1, <4>1, <4>2 DEF Named
    <3>2. CASE ~\E f \in I : f.name = new.name
      <4>1. ~Before(p, p)
        BY NeverBeforeItself
      <4>2. new \in J
        BY <2>4, <3>2
      <4>3. new.name = disk[p].name /\ new.path = p
        OBVIOUS
      <4> QED
        BY <4>1, <4>2, <4>3 DEF Named
    <3> QED
      BY <3>1, <3>2
  <2>9. CoversBut(T, J, B)
    <3> SUFFICES ASSUME NEW s \in T, ~Touched(s[1], s[2]), s[1] \notin B PROVE Named(s[1], J)
      BY DEF CoversBut
    <3>1. CASE s[1] = p
      BY <2>8, <3>1
    <3>2. CASE s[1] # p
      <4>1. Named(s[1], I)
        BY <2>3, <2>7, <3>2 DEF CoversBut
      <4>2. I \subseteq J
        BY <2>4
      <4> QED
        BY <4>1, <4>2 DEF Named
    <3> QED
      BY <3>1, <3>2
  <2>10. Past(T, J)' /\ Coherent(T, J)' /\ CoversBut(T, J, B)'
    BY <1>1, <2>5, <2>6, <2>9, SameFiles
  <2> QED
    BY <2>1, <2>2, <2>10 DEF ScanInv
<1> QED
  BY <1>3, <1>4, <1>5, <1>6, <1>7, <1>8, WorkCases
\* The walk takes the files in order and forgets them at the end.
LEMMA WorkWalk == SInv /\ Work => WalkInv'
<1> SUFFICES ASSUME SInv, Work PROVE WalkInv'
  OBVIOUS
<1> USE DEF SInv
<1>1. CASE Call \/ Matched \/ Reset
  BY <1>1 DEF Call, Matched, Reset, WalkInv, ScanInv, Walking, walk
<1>2. CASE Missing
  BY <1>2 DEF Missing, Raise, Forget, WalkInv, Walking
<1>3. CASE Hit \/ Store
  BY <1>3 DEF Hit, Store, UseIndex, Forget, WalkInv, Walking
<1>4. CASE Miss
  BY <1>4 DEF Miss, WalkInv, ScanInv, Walking, Walked
<1>5. CASE List
  <2>1. /\ Walking /\ pc' = pc /\ source' = source + 1 /\ source \in 0..3 /\ found' = found
        /\ todo' = {p \in Present : p[1] = source + 1}
    BY <1>5 DEF List, TypeOK
  <2>2. ASSUME NEW e \in found PROVE e.path[1] <= source + 1
    <3>1. e.path[1] <= source /\ e.path[1] \in 1..3
      BY <2>1 DEF WalkInv, TypeOK, Entry, Paths, Sources
    <3> QED
      BY <2>1, <3>1
  <2>3. ASSUME NEW e \in found, NEW p \in todo' PROVE ~Before(p, e.path)
    <3>1. e.path[1] <= source /\ e.path[1] \in 1..3
      BY <2>1 DEF WalkInv, TypeOK, Entry, Paths, Sources
    <3>2. p[1] = source + 1
      BY <2>1
    <3> QED
      BY <2>1, <3>1, <3>2 DEF Before
  <2> QED
    BY <2>1, <2>2, <2>3 DEF WalkInv, Walking
<1>6. ASSUME NEW p \in Paths, Stat(p) PROVE WalkInv'
  BY <1>6 DEF Stat, ScanInv, WalkInv, Walking
<1>7. ASSUME NEW p \in Paths, LoadBody(p) PROVE WalkInv'
  BY <1>7 DEF LoadBody, WalkInv, Walking
<1>8. ASSUME NEW p \in Paths, ReadMd(p) PROVE WalkInv'
  <2>1. /\ pc = "scan" /\ pc' = "scan" /\ source' = source /\ todo' = todo \ {p} /\ p \in todo
        /\ \A q \in todo : ~Before(q, p)
    BY <1>8 DEF ReadMd, IsNext
  <2>2. ASSUME NEW e \in found' PROVE e \in found \/ e.path = p
    BY <1>8 DEF ReadMd, Merge
  <2>3. p[1] = source /\ source \in 0..3
    BY <2>1 DEF WalkInv, Walking, TypeOK
  <2>4. ASSUME NEW e \in found' PROVE e.path[1] <= source
    BY <2>1, <2>2, <2>3 DEF WalkInv, Walking
  <2>5. ASSUME NEW e \in found', NEW q \in todo' PROVE ~Before(q, e.path)
    BY <2>1, <2>2 DEF WalkInv, Walking
  <2> QED
    BY <2>1, <2>4, <2>5 DEF WalkInv, Walking
<1> QED
  BY <1>1, <1>2, <1>3, <1>4, <1>5, <1>6, <1>7, <1>8, WorkCases

\* An index coherent with a signature that has every file's stamp is current.
LEMMA FullIsCurrent ==
  ASSUME NEW T, NEW I, Coherent(T, I), CoversBut(T, I, {}),
         \A p \in Present : <<p, disk[p].time>> \in T
  PROVE  Current(I)
<1>1. ASSUME NEW p \in Present PROVE Named(p, I)
  <2>1. ~Touched(p, disk[p].time)
    BY DEF Touched
  <2> QED
    BY <2>1 DEF CoversBut
<1>2. ASSUME NEW e \in I, e.path \in Present PROVE disk[e.path].name = e.name
  <2>1. ~Touched(e.path, disk[e.path].time) /\ <<e.path, disk[e.path].time>> \in T
    BY <1>2 DEF Touched
  <2>2. disk[e.path].time = e.time
    BY <2>1 DEF Coherent
  <2> QED
    BY <2>1, <2>2 DEF Coherent
<1>3. \A e, f \in I : e.name = f.name => e = f
  BY DEF Coherent
<1> QED
  BY <1>1, <1>2, <1>3 DEF Current, Named

\* A quiet call goes on with a current index.
LEMMA WorkUse ==
  ASSUME SInv, quiet, Hit \/ Store
  PROVE  Current(answer)'
<1> USE DEF SInv
<1>1. UNCHANGED <<disk, clock, Present>>
  BY WorkFacts DEF Work
<1>2. CASE Hit
  <2>1. PICK T, I : T = signature /\ T = taken /\ I = cache /\ I = answer'
    BY <1>2 DEF Hit, UseIndex, Unchanged
  <2>2. Coherent(T, I) /\ CoversBut(T, I, {})
    BY <1>2, <2>1 DEF CacheInv, Hit, Unchanged
  <2>3. \A p \in Present : <<p, disk[p].time>> \in T
    BY <1>2, <2>1, NoneAhead DEF QuietInv, Hit, Stamped
  <2>4. Current(I)
    BY <2>2, <2>3, FullIsCurrent
  <2> QED
    BY <1>1, <2>1, <2>4, SameFiles
<1>3. CASE Store
  <2>1. PICK T, I : T = taken /\ I = found /\ I = answer'
    BY <1>3 DEF Store, UseIndex
  <2>2. Coherent(T, I) /\ CoversBut(T, I, {})
    BY <1>3, <2>1, NoneAhead DEF ScanInv, Store
  <2>3. \A p \in Present : <<p, disk[p].time>> \in T
    BY <1>3, <2>1 DEF QuietInv, Store, Stamped
  <2>4. Current(I)
    BY <2>2, <2>3, FullIsCurrent
  <2> QED
    BY <1>1, <2>1, <2>4, SameFiles
<1> QED
  BY <1>2, <1>3

\* What the loader knows of a current answer lasts while it works.
LEMMA WorkQuiet == SInv /\ Work => QuietInv' /\ AnswerInv' /\ QuietCallCurrent'
<1> SUFFICES ASSUME SInv, Work PROVE QuietInv' /\ AnswerInv' /\ QuietCallCurrent'
  OBVIOUS
<1> USE DEF SInv
<1>1. UNCHANGED <<disk, clock, Present>>
  BY WorkCases
<1>0. answer' = answer => (Current(answer)' <=> Current(answer))
  <2>1. PICK I : I = answer
    OBVIOUS
  <2> QED
    BY <1>1, <2>1, SameFiles
<1>2. CASE Call
  <2>1. /\ pc' = "stat" /\ outcome' = "none" /\ todo' = {} /\ source' = 0
    BY <1>2 DEF Call, WalkInv, Walking, walk
  <2>2. \A p \in Paths : p \in Ahead'
    BY <2>1 DEF Ahead, Paths, Sources
  <2> QED
    BY <1>1, <2>1, <2>2 DEF QuietInv, AnswerInv, QuietCallCurrent, Walking, TypeOK
<1>3. CASE List
  <2>1. /\ Walking /\ pc' = pc /\ outcome' = outcome /\ todo = {} /\ quiet' = quiet
        /\ todo' = {p \in Present : p[1] = source + 1} /\ taken' = taken /\ source' = source + 1
    BY <1>3 DEF List, ended
  <2>2. ASSUME NEW p \in Present, p \in Ahead PROVE p \in Ahead'
    BY <2>1, <2>2 DEF Ahead, TypeOK, Paths, Sources
  <2> QED
    BY <1>1, <2>1, <2>2 DEF QuietInv, AnswerInv, QuietCallCurrent, Walking, Stamped
<1>4. CASE Missing
  <2>1. /\ pc' = "idle" /\ outcome' = "raised" /\ answer' = answer /\ quiet' = quiet
    BY <1>4 DEF Missing, Raise
  <2>2. ASSUME quiet PROVE Current(answer) /\ \E e \in answer : e.path \notin Present
    <3>1. PICK p \in todo : p \notin Present
      BY <1>4 DEF Missing
    <3>2. pc = "bodies"
      BY <1>4, <2>2, <3>1 DEF QuietInv, Walking, Missing
    <3> QED
      BY <2>2, <3>1, <3>2 DEF QuietInv, AnswerInv
  <2> QED
    BY <1>0, <1>1, <2>1, <2>2 DEF QuietInv, AnswerInv, QuietCallCurrent, Walking
<1>5. CASE Hit \/ Store
  <2>1. /\ quiet' = quiet
        /\ pc' = "bodies" \/ pc' = "idle"
        /\ pc' = "idle" => outcome' = "index"
        /\ pc' = "bodies" => outcome' = outcome /\ todo' \subseteq {e.path : e \in answer'}
    BY <1>5 DEF Hit, Store, UseIndex
  <2>2. outcome = "none"
    BY <1>5 DEF AnswerInv, Hit, Store
  <2>3. quiet => Current(answer)'
    BY <1>5, WorkUse
  <2> QED
    BY <2>1, <2>2, <2>3 DEF QuietInv, AnswerInv, QuietCallCurrent, Walking
<1>6. CASE Miss
  BY <1>1, <1>6, NoneAhead DEF Miss, QuietInv, AnswerInv, QuietCallCurrent, Walking, Walked, Stamped, ended
<1>7. CASE Matched
  BY <1>0, <1>7 DEF Matched, QuietInv, AnswerInv, QuietCallCurrent, Walking
<1>8. CASE Reset
  BY <1>0, <1>1, <1>8 DEF Reset, QuietInv, AnswerInv, QuietCallCurrent, Walking, ended
<1>9. ASSUME NEW p \in Paths, Stat(p) PROVE QuietInv' /\ AnswerInv' /\ QuietCallCurrent'
  <2>1. /\ pc = "stat" /\ pc' = pc /\ outcome' = outcome /\ quiet' = quiet /\ source' = source
        /\ todo' = todo \ {p} /\ taken' = taken \cup {<<p, disk[p].time>>}
    BY <1>9 DEF Stat, ended
  <2>2. \A q \in Ahead : q \in Ahead' \/ q = p
    BY <2>1 DEF Ahead
  <2> QED
    BY <1>1, <2>1, <2>2 DEF QuietInv, AnswerInv, QuietCallCurrent, Walking, Stamped
<1>10. ASSUME NEW p \in Paths, ReadMd(p) PROVE QuietInv' /\ AnswerInv' /\ QuietCallCurrent'
  BY <1>1, <1>10 DEF ReadMd, QuietInv, AnswerInv, QuietCallCurrent, Walking, Stamped, ended
<1>11. ASSUME NEW p \in Paths, LoadBody(p) PROVE QuietInv' /\ AnswerInv' /\ QuietCallCurrent'
  BY <1>0, <1>11 DEF LoadBody, QuietInv, AnswerInv, QuietCallCurrent, Walking, ended
<1> QED
  BY <1>2, <1>3, <1>4, <1>5, <1>6, <1>7, <1>8, <1>9, <1>10, <1>11, WorkCases

-----------------------------------------------------------------------------
\* Every step keeps the invariant.
LEMMA InvStep == SInv /\ [Next]_vars => SInv'
<1> SUFFICES ASSUME SInv, [Next]_vars PROVE SInv'
  OBVIOUS
<1>1. CASE Edit
  BY <1>1, EditStep
<1>2. CASE Work
  <2>1. TypeOK'
    BY TypeStep DEF SInv
  <2>2. Clocked'
    <3>1. UNCHANGED <<disk, clock, Present>>
      BY <1>2, WorkFacts
    <3> QED
      BY <3>1, SameFiles DEF SInv
  <2> QED
    BY <1>2, <2>1, <2>2, WorkCache, WorkScan, WorkWalk, WorkQuiet DEF SInv
<1>3. CASE UNCHANGED vars
  <2>1. UNCHANGED <<disk, Present>>
    BY <1>3 DEF vars, files, Present
  <2> QED
    BY <1>3, <2>1 DEF SInv, TypeOK, Clocked, CacheInv, ScanInv, WalkInv, QuietInv, AnswerInv,
       QuietCallCurrent, Past, Coherent, CoversBut, Touched, Named, Ahead, Walking, Stamped, Current,
       vars, files, kept, walk, ended
<1> QED
  BY <1>1, <1>2, <1>3, Steps

\* The invariant holds at the start.
LEMMA InvInit == Init => SInv
<1> SUFFICES ASSUME Init PROVE SInv
  OBVIOUS
<1>1. TypeOK
  BY TypeInit
<1>2. Clocked
  BY DEF Init, Clocked, Present
<1>3. CacheInv /\ ScanInv
  BY DEF Init, CacheInv, ScanInv, Past, Coherent
<1>4. WalkInv /\ QuietInv /\ AnswerInv /\ QuietCallCurrent
  BY DEF Init, WalkInv, QuietInv, AnswerInv, QuietCallCurrent, Walking
<1> QED
  BY <1>1, <1>2, <1>3, <1>4 DEF SInv

\* A call during which no SKILL.md changes works with a current index, and
\* fails only over a file that came and went during an earlier scan.
THEOREM QuietCurrent == Spec => []QuietCallCurrent
<1>1. Init => SInv
  BY InvInit
<1>2. SInv /\ [Next]_vars => SInv'
  BY InvStep
<1>3. SInv => QuietCallCurrent
  BY DEF SInv
<1> QED
  BY <1>1, <1>2, <1>3, PTL DEF Spec
=============================================================================
