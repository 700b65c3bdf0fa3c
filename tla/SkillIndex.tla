----------------------------- MODULE SkillIndex -----------------------------
(***************************************************************************)
(* The index of the skills, skills/loader.py: a cache of the names found   *)
(* in the SKILL.md files of three source directories, kept as long as a    *)
(* signature of the files' times stays the same.  The loader runs on the   *)
(* event loop without an await, so one call at a time; the files belong to *)
(* whoever installs and removes skills, between any two of its steps.      *)
(*                                                                         *)
(* The list of a scan and the tuple of a signature are in the order of the *)
(* walk, which is fixed, so that sets stand for both.                      *)
(***************************************************************************)
EXTENDS Naturals, FiniteSets

CONSTANTS
    Dirs,       \* directory names inside a source, ordered as glob sorts them
    Names,      \* names a frontmatter can give
    MaxSkills,  \* match's max_skills
    MaxEdits    \* bound: files written or removed

ASSUME DirsAreNat == Dirs \subseteq Nat
ASSUME SkillBoundsAreNat == MaxSkills \in Nat /\ MaxEdits \in Nat

Sources == 1..3          \* user, learned, default
Paths   == Sources \X Dirs

\* p is walked before q: its source has precedence, or its name sorts first.
Before(p, q) == \/ p[1] < q[1]
                \/ p[1] = q[1] /\ p[2] < q[2]

VARIABLES
    disk,       \* disk[p]: the name and the time of the SKILL.md at p, if any
    clock,      \* files written or removed so far; gives them their times
    cached,     \* _index_cache is not None
    cache,      \* _index_cache
    signature,  \* _index_signature
    pc,         \* what the current call is doing
    matching,   \* the current call is match, not get_index
    source,     \* the source being walked, 0 before the first
    todo,       \* its files still to do
    taken,      \* the signature this call has computed
    found,      \* found_by_name
    outcome,    \* how the last call ended
    answer,     \* the index it used
    quiet       \* history: no file has changed since that call began

files == <<disk, clock>>
kept  == <<cached, cache, signature>>
walk  == <<source, todo>>
ended == <<outcome, answer>>
vars  == <<files, kept, pc, matching, walk, taken, found, ended, quiet>>

File  == [name : Names, time : Nat]
\* `time' is a history: when the file the entry was read from was written.
Entry == [path : Paths, name : Names, time : Nat]
Stamp == Paths \X Nat

Present == DOMAIN disk

TypeOK ==
    /\ Present \subseteq Paths /\ disk \in [Present -> File]
    /\ clock \in Nat
    /\ cached \in BOOLEAN
    /\ cache \subseteq Entry
    /\ signature \subseteq Stamp
    /\ pc \in {"idle", "stat", "scan", "bodies"}
    /\ matching \in BOOLEAN
    /\ source \in 0..3
    /\ todo \subseteq Paths
    /\ taken \subseteq Stamp
    /\ found \subseteq Entry
    /\ outcome \in {"none", "index", "raised"}
    /\ answer \subseteq Entry
    /\ quiet \in BOOLEAN

Init ==
    /\ \E P \in SUBSET Paths : disk \in [P -> [name : Names, time : {0}]]
    /\ clock = 0
    /\ cached = FALSE
    /\ cache = {}
    /\ signature = {}
    /\ pc = "idle"
    /\ matching = FALSE
    /\ source = 0
    /\ todo = {}
    /\ taken = {}
    /\ found = {}
    /\ outcome = "none"
    /\ answer = {}
    /\ quiet = TRUE

-----------------------------------------------------------------------------
(* The files.                                                              *)

\* A skill is installed, or its SKILL.md replaced: a new time each.
Install(p, n) ==
    /\ clock < MaxEdits
    /\ clock' = clock + 1
    /\ disk' = [q \in Present \cup {p} |-> IF q = p THEN [name |-> n, time |-> clock + 1] ELSE disk[q]]
    /\ quiet' = FALSE
    /\ UNCHANGED <<kept, pc, matching, walk, taken, found, ended>>

Uninstall(p) ==
    /\ clock < MaxEdits
    /\ p \in Present
    /\ clock' = clock + 1
    /\ disk' = [q \in Present \ {p} |-> disk[q]]
    /\ quiet' = FALSE
    /\ UNCHANGED <<kept, pc, matching, walk, taken, found, ended>>

-----------------------------------------------------------------------------
(* A call.                                                                 *)

\* get_index, and match, which begins with it.
Call ==
    /\ pc = "idle"
    /\ pc' = "stat"
    /\ matching' \in BOOLEAN
    /\ outcome' = "none"
    /\ answer' = {}
    /\ quiet' = TRUE
    /\ UNCHANGED <<files, kept, walk, taken, found>>

Walking == pc \in {"stat", "scan"}
Walked  == source = 3 /\ todo = {}

\* Mutant: one source too many.
ListOn ==
    /\ Walking
    /\ todo = {}
    /\ source <= 3
    /\ source' = source + 1
    /\ todo' = {p \in Present : p[1] = source + 1}
    /\ UNCHANGED <<files, kept, pc, matching, taken, found, ended, quiet>>

\* glob lists the SKILL.md files of the next source, if its directory exists.
List ==
    /\ Walking
    /\ todo = {}
    /\ source < 3
    /\ source' = source + 1
    /\ todo' = {p \in Present : p[1] = source + 1}
    /\ UNCHANGED <<files, kept, pc, matching, taken, found, ended, quiet>>

\* The next file of the list.
IsNext(p) == p \in todo /\ \A q \in todo : ~Before(q, p)

\* The locals of a call end with it.
Forget == source' = 0 /\ taken' = {} /\ found' = {}

Raise ==
    /\ pc' = "idle"
    /\ outcome' = "raised"
    /\ todo' = {}
    /\ Forget
    /\ UNCHANGED <<files, kept, matching, answer, quiet>>

\* A listed file that is gone when it is its turn: FileNotFoundError, and
\* nothing of this call is kept.
Missing ==
    /\ pc \in {"stat", "scan", "bodies"}
    /\ \E p \in todo : p \notin Present /\ (Walking => IsNext(p))
    /\ Raise

Stat(p) ==
    /\ pc = "stat"
    /\ IsNext(p)
    /\ p \in Present
    /\ taken' = taken \cup {<<p, disk[p].time>>}
    /\ todo' = todo \ {p}
    /\ UNCHANGED <<files, kept, pc, matching, source, found, ended, quiet>>

\* The call goes on with the index I: get_index returns it, match scores it
\* and takes a few of the skills that share a word with the query.
UseIndex(I) ==
    /\ answer' = I
    /\ IF matching
       THEN /\ pc' = "bodies"
            /\ todo' \in {{e.path : e \in E} : E \in {X \in SUBSET I : Cardinality(X) <= MaxSkills}}
            /\ UNCHANGED outcome
       ELSE /\ pc' = "idle"
            /\ outcome' = "index"
            /\ todo' = {}
    /\ Forget
    /\ UNCHANGED <<files, matching, quiet>>

Unchanged == cached /\ taken = signature

Hit ==
    /\ pc = "stat"
    /\ Walked
    /\ Unchanged
    /\ UseIndex(cache)
    /\ UNCHANGED kept

Miss ==
    /\ pc = "stat"
    /\ Walked
    /\ ~Unchanged
    /\ pc' = "scan"
    /\ source' = 0
    /\ UNCHANGED <<files, kept, matching, todo, taken, found, ended, quiet>>

\* A name already found is in a source, or a directory, that goes before.
Merge(e) == IF \E f \in found : f.name = e.name THEN found ELSE found \cup {e}

\* _scan_skill_dirs reads a file.
ReadMd(p) ==
    /\ pc = "scan"
    /\ IsNext(p)
    /\ p \in Present
    /\ found' = Merge([path |-> p, name |-> disk[p].name, time |-> disk[p].time])
    /\ todo' = todo \ {p}
    /\ UNCHANGED <<files, kept, pc, matching, source, taken, ended, quiet>>

\* Mutant: the signature is computed again after the scan.
StampsAfter == {<<p, disk[p].time>> : p \in Present}

\* The signature kept beside the index is the one from before the scan.
StampsKept == taken

Store ==
    /\ pc = "scan"
    /\ Walked
    /\ cached' = TRUE
    /\ cache' = found
    /\ signature' = StampsKept
    /\ UseIndex(found)

\* load_body, for the next of the skills match has chosen.
LoadBody(p) ==
    /\ pc = "bodies"
    /\ p \in todo
    /\ p \in Present
    /\ todo' = todo \ {p}
    /\ UNCHANGED <<files, kept, pc, matching, source, taken, found, ended, quiet>>

Matched ==
    /\ pc = "bodies"
    /\ todo = {}
    /\ pc' = "idle"
    /\ outcome' = "index"
    /\ UNCHANGED <<files, kept, matching, walk, taken, found, answer, quiet>>

\* reset_cache, between calls.
Reset ==
    /\ pc = "idle"
    /\ cached' = FALSE
    /\ cache' = {}
    /\ signature' = {}
    /\ UNCHANGED <<files, pc, matching, walk, taken, found, ended, quiet>>

Next ==
    \/ \E p \in Paths, n \in Names : Install(p, n)
    \/ \E p \in Paths : Uninstall(p)
    \/ Call \/ List \/ Missing \/ Hit \/ Miss \/ Store \/ Matched \/ Reset
    \/ \E p \in Paths : Stat(p) \/ ReadMd(p) \/ LoadBody(p)

Spec == Init /\ [][Next]_vars

-----------------------------------------------------------------------------
(* Properties.                                                             *)

\* What an index must say of the files there are: it has the name of each,
\* once, from that file or one that goes before, and says nothing wrong of a
\* file that is there.  It may still list one that is not.
Current(I) ==
    /\ \A e, f \in I : e.name = f.name => e = f
    /\ \A p \in Present : \E e \in I : e.name = disk[p].name /\ ~Before(p, e.path)
    /\ \A e \in I : e.path \in Present => disk[e.path].name = e.name

\* A call during which no SKILL.md changes works with an index that is
\* current, although it may come from a scan that files changed under
\* (loader.py:145); and it fails only over a file that the cache still lists
\* and that came and went during that scan.
QuietCallCurrent ==
    quiet =>
      /\ outcome = "index" => Current(answer)
      /\ outcome = "raised" => Current(answer) /\ \E e \in answer : e.path \notin Present
=============================================================================
