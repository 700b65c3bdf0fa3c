# Verification of open_adas_backend

TLA+ models of the backend that turns chat messages into SysML v2 artifacts, TLC
configurations that check them on small instances, and TLAPS proofs of what matters most
for every value of their parameters. Paths below are relative to the repository root.

Contents: [the system](#the-system), [modules and code](#modules-and-code),
[runs](#runs-and-what-they-show), [divergences](#divergences-found),
[bounds](#bounds), [fairness](#fairness), [proofs](#proofs),
[not modelled](#not-modelled), [plan](#plan).

## The system

One FastAPI process serves sessions. A message starts a *turn*: a run of a LangGraph graph
whose thread id is the session id. The graph has three layers, each invoked inside a node of
the one above; any of them may call `interrupt()`, which ends the run with a question. A
*resume* request carries the reply. PostgreSQL holds the rows of the program and the
checkpoints of LangGraph.

    client --HTTP--> chat gate --task--> Layer 1 hub --> Layer 2 middle --> Layer 3 processing
                       |  ^                 (plan)        (level, source)     (draft, verify)
                  run lock  SSE queue                                       LLM, LSP/MCP, rows

| Part | State it keeps | Operations | Talks to |
|---|---|---|---|
| Chat gate (`app/api/routes/chat.py`, `app/chat/`) | `run_lock._running`, one queue per run, the pending interrupt in the checkpoint | POST turn, POST resume, GET pending; the `run_turn` task; the response generator | the Layer-1 graph through `astream_events`; the client through a queue |
| Session and project lifecycle (`app/api/routes/projects.py`, `data/repository.py`) | session and project rows, checkpoint rows | create, list, rename, delete with `purge_thread_tree` | the database, and, without knowing it, a live run |
| Layer 1 (`supervisor/`) | `SupervisorState`: visits, classification, plan, results | hub, `plan_node`, `plan_review`, `sysml_middle_node`, `memory_optimization`, `finalize_turn` | one Layer-2 invocation per task |
| Layer 2 (`agents/sysml/middle_*.py`) | `MiddleState`: intent, level, target, source, question, counter, lock on the task's target | `middle_supervisor`, `validate_inputs`, `resolve_level`, `user_confirm_inputs`, `build_structured_format`, `sysml_processing` | the requirement rows; one Layer-3 invocation per processing |
| Layer 3 (`agents/sysml/nodes.py`, `graph.py`) | `SysmlState`: draft, Mermaid text, verdict, warning | supervisor, plan, generate, verify, review, answer, finalize | LLM, language server, MCP server, artifact rows |
| SysML clients (`tools/sysml_v2/`) | a child process, its pipe, a lock | initialize, validate, close | node processes over stdin/stdout |
| Artifact repository (`data/`) | versions of requirements and diagrams | create, supersede, promote, finalize, publish | PostgreSQL |
| Skills loader (`skills/loader.py`) | a cached index and the signature it was made under | `get_index`, `match`, `load_body`, `reset_cache` | SKILL.md files of three source directories |
| Rest | settings, tokens, skills, prompts, traces | see [Not modelled](#not-modelled) | |

What is hard here, and so what the properties are about:

- **Interleavings in the gate.** Handlers are coroutines: everything between two `await`s is
  atomic, everything across one is not. A turn, a resume, a delete and a run of one session
  interleave; the client may go away; the process may restart with interrupts in the
  database and an empty lock.
- **State that outlives its step.** LangGraph merges a node's update into the state and
  keeps the rest: across nodes (a verdict, a Mermaid text), across questions (a target, a
  source), and in Layer 1 across turns (a plan, a visit counter).
- **Nodes that run twice.** A node that interrupts is run again from its top when the reply
  comes, with an LLM that may answer otherwise; a node whose checkpoint was lost is run again
  although its commit was not lost.
- **Loops.** Hub and tasks, generate and verify, middle supervisor and processing: each must
  end by its guard, and the counter and the routes must agree about it.
- **Processes and transactions beside this one.** A server process answers late, talks by
  itself and exits in the middle of a message; the files of a skill change under a scan;
  transactions see each other's rows statement by statement, and checkpoints are saved over
  connections that no foreign key binds.
- **Data from an LLM that control flow depends on.** Dependency numbers, intents, levels.

What makes each part correct:

| Part | It is correct when |
|---|---|
| Gate | one run per session; the lock is neither lost nor leaked; a stream ends; an interrupt is announced; a reply is applied to the question it was checked against |
| Lifecycle | a session has its project and its checkpoints, or is gone with them |
| Layer 1 | tasks start after approval and after what they depend on; a task is never taken back or counted twice; a finished plan is finished; the run ends |
| Layer 2 | each processing has a thread of its own; a derived requirement has a source of the level above; a task said complete was processed; the run ends |
| Layer 3 | the user sees the verdict of the draft he sees; only what he approved is stored, once; the loop ends |
| SysML clients | a call returns the answer to its own text, after a handshake; "closed" is said of a server that exited; every call ends unless a live server stops reading what it writes |
| Repository | one active version per lineage, none left with superseded versions only; a promotion settles its lineage |
| Skills loader | a call that no change overlaps works with a current index |

## Modules and code

| Module | Models | Kind |
|---|---|---|
| `TurnSerial` | what the gate promises a session: at most one admitted request of it is active, and each one finishes | abstract specification |
| `Response` | what the gate promises the client of one request: an answer without a run, or one run whose stream opens, tells one outcome and closes | abstract specification |
| `GraphRun` | what a graph promises its runner: a bounded number of supersteps between two replies, then a question or the end | abstract specification |
| `CallQueue` | what a tool client promises its callers: calls end one at a time, in the order in which they came, with their own answer or an exception | abstract specification |
| `ChatSession`, `MCChatSession` | the gate, the lock, the run task, the streams, deletion, restarts | detailed; implements `TurnSerial`, and `Response` for each request |
| `Supervisor` | the Layer-1 graph over the whole life of a session | detailed; implements `GraphRun` |
| `Middle` | the Layer-2 graph, one delegated task | detailed; implements `GraphRun` |
| `Processing` | the Layer-3 graph, one processing | detailed; implements `GraphRun` |
| `Delegation` | Layer 2 with the whole of Layer 3 inside `sysml_processing` | composition of `Middle` and `Processing`; implements `Middle` |
| `ToolClient` | the clients of the language server and the MCP server | detailed; implements `CallQueue` |
| `Lineage`, `MCLineage` | the versions of requirements and diagrams under concurrent transactions | detailed |
| `Workspace`, `MCWorkspace` | projects, sessions and their checkpoint trees under concurrent requests and runs | detailed |
| `SkillIndex` | the skills loader over files that change | detailed |
| `*_proofs` | theorems about each | proofs |

Definitions carry the names of the source where TLA+ allows it: `middle_supervisor`'s
`requested_level` is the variable `requested_level`, `with_task_status` is `MarkProcessed`,
`route_from_verify` is `RouteFromVerify`. `PROJECT.json` gives the lines of each one.

**`ChatSession`.** An action is a stretch of a coroutine between two suspension points.
`Arrive` is the ownership dependency; `ReadPending` the awaited `aget_state`; `Refuse`,
`RejectBody` and `Launch` what follows it without a suspension, the lock's check-and-add and
`create_task` included; `Begin`, `Superstep`, `Suspend`, `Complete`, `Report`, `Fail` the run
task; `Receive` and `Disconnect` the response; `Purge` and `CommitDelete` the delete
transaction (read committed: a row written after the purge statement is not among those it
deleted); `Restart` the process. A deletion whose session row is gone already is committed and
answered like the first: a DELETE of no row only draws a warning from SQLAlchemy, since no
model has a version column. So a second deletion takes what a run has saved since the first,
the interrupt it left included, and `CheckpointMovesUnderLock` says so. The order in which the
database makes two open deletions wait for each other is left open. The graph is
nondeterministic: it saves, suspends, completes or raises.

**`Supervisor`.** An action is a superstep: the node's update and the edge it takes. A reply
and the re-run of the node it resumes are one action. A plan is a sequence of tasks with a
dependency number, a status and whether a light reference came back; any dependency numbers
may come from the LLM or the edited plan. `Fail` is a run lost to an exception or a restart:
the state of the last superstep stays and the next message starts a turn on it. The model
lets a turn start only when no question is open, as the gate means to; the run `ChatStaleCheck`
shows the window in which the gate does not. `router.py` has two halves around a merge
marker; the first, which the graph imports, is the one modelled (so for `data/repository.py`,
`data/models.py`, `app/config.py`, `app/main.py`, `app/security.py`).

**`Middle`.** One invocation the way Layer 1 makes it, with `single_task_dispatch`. An
artifact is its index in the session and has a level, or is a diagram; Layer 1 hands down one
of them or none. A whole processing is one action, the return of `sysml_processing`, that stores
artifacts or nothing: Layer 3 decides intent and level itself, so the kind it stores is free,
it raises when an id it is given is not a requirement, and after a crash it may have stored
twice. It may come back after the session is gone, then without a row. `Delegation` shows that
this is all Layer 2 can see of Layer 3. The replies are those `validate_resume_payload` lets through for
the pattern asked. An id the LLM names is one it was shown. The session may be deleted at any
moment.

**`Processing`.** A draft is the number of the `generate_node` call that wrote it; the
verdict, the Mermaid text and the stored row carry the draft they were made from, so that
staleness is visible. Diagnostics, coverage and the Mermaid derivation are free. Every node
but the review may raise. `FinalizeCrash` is a death between the commit and the checkpoint;
the session then still shows the review as pending, and whatever the user answers, this graph
resumes at `finalize` (`AnsweredAgain`). A reply sent again after another exception is not
modelled. Layer-3 checkpoints of different tasks do not share a namespace, because it
contains the parent's task id; this is a fact about LangGraph that is assumed.

**`Delegation`.** The module extends `Middle` and has `Processing` as an instance whose
variables are the state of the thread opened last. `Enter` is the node up to `ainvoke`: the
thread is named by the counter, touched in the database, and given the input; a thread
opened before would keep the draft and the verdict it has, one never opened has none.
`ProcessingStep` is any step of `Processing`. A question of Layer 3 suspends the node too, and
the reply runs it again from its top, so it touches the thread and fails once the session is
deleted; so do the look-up of the target and the insertion. Steps that need no row go on
after a deletion. `Return` makes the stored rows visible to Layer 2 and is `Middle`'s
`Process`; `ProcessingRaises` leaves both. The rows and the counters of rounds and crashes
are a history that ends with the processing; the thread's state stays.

**`ToolClient`.** `client` says which of the two clients a behaviour is about: they share the
lock, the start, the handshake and the waiting, and differ in what they ask and how the
server frames it. The holder of the asyncio lock is the head of `queue`; `Enter` is
`_ensure_started`, with the process recorded before `initialize` is sent; `Ask` writes
`didOpen` or `tools/call`, `Drained` is the return of the `drain` awaited after it; `Read` one
step of the reader, `Handle` the loop that looks for the awaited id or uri; `Timeout` the
`wait_for` around it. The drain is outside every `wait_for` and inside the lock: a live server
that stops reading its stdin while a long text is written, hung or blocked on the pipes of its
own that nobody reads meanwhile (stderr is never read), holds the call and all behind it for
as long as it lives. `Stalled` is that state. The shorter messages are written when nothing
long is unread, so their drains return at once and are part of the step. The pipe is a sequence of message
parts, a header block and a body for LSP and a line for MCP, because a timeout cancels the
reader where it stands. A line above asyncio's 64 KiB limit is a `big` part, whose rest may
come later. The server is external: it serves in order, may write notes and requests of its
own, with any id, at any time, and may exit between any two parts. Facts the model shows on
the way: a reader cut inside a message stays out of step with that process until it exits
(`ClosedIsTrue` says so), and a request of the server's own may be taken for the response to
`initialize`, since `_request` goes by the id alone. `aclose` is taken between calls, as
shutdown does it. The texts and positions of diagnostics are left out.

**`Lineage`.** A transaction is one call of the repository and a commit or rollback, under
READ COMMITTED: `Read` and `Flush` are `supersede_and_create_version`; `Read`, `Snapshot`,
`Sweep`, `Mark` are `promote`, its UPDATE taken row by row, each row waited for and tested
again. `Insert` is `create`, and `finalize` for a first version. The history `raced` keeps
the lineages in which promotions overlapped: nothing in the database forbids it (no lock, no
unique index), and two active rows are then possible until a promotion runs alone, which
`PromotionSettles` is about. Today `promote` and `supersede_and_create_version` are called by
scripts only. Version numbers are not modelled; two concurrent versions may well get the
same one. `DiagramRepo` runs the same statements.

**`Workspace`.** A request is a transaction: `OpenProject` and `OpenSession` the ownership
dependencies, `Insert` and `CommitInsert` `create_session`, `List`, `Purge`, `DeleteRows`,
`CommitDelete` the two deletions, `Launch` a turn or a resume some time after it found its
session. Row locks, foreign keys and `ON DELETE CASCADE` are the database's: an insertion
holds its project's row and fails when that is gone, a purge waits for rows another
transaction deletes, a deadlock it breaks is `Abort`. A deletion that finds its row gone is
answered like one that did not. Chat runs save rows of the session's own thread and of
threads named with its prefix over other connections (`Save`), whatever has become of the
session; `overlap` keeps the sessions whose runs a deletion met, the divergence
`NoOrphanCheckpoints`. Renaming and the artifacts' rows are left out; ids are never used again.

**`SkillIndex`.** The loader never awaits, so one call runs at a time; whoever installs,
replaces or removes a SKILL.md acts between any two of its file accesses. `Call`, `List`,
`Stat` are `_current_signature`, `Hit` and `Miss` the comparison, `List`, `ReadMd`, `Store`
the scan, `LoadBody` and `Matched` the bodies `match` loads, `Missing` a listed file that is
gone. A path is a source and a directory, in the order they are walked; `glob` of one source
is one step. Each change gives its file a new time: a file restored with its old time is not
in the model. A file installed and removed within one scan leaves an entry in the cache
under a signature that never knew it; a match that picks it then raises until another
SKILL.md changes, which is the one failure `QuietCallCurrent` admits. The scores of `match`
and Level 3 (`get_syntax`, `get_patterns`, `get_error_help`), which picks sections of
reference files by keyword, are left out.

Left out as data: texts, prompts, diagram types, token and status events, timestamps.

## Runs and what they show

| Run | Property | What would break it |
|---|---|---|
| `ChatGate` | `LockMatchesRuns` | a path of `run_turn` that keeps the lock, or releases it early |
| | `NoSilentInterrupt` | a run that ends on an interrupt and says completed |
| | `CheckpointMovesUnderLock` | a graph run without the lock |
| | `EveryResponseIsWhole` | a put that waits for a reader; a lost sentinel; an outcome told twice, or before the interrupt it is about (refinement of `Response`) |
| | `SerialSpec` | anything that makes two runs of a session overlap (refinement of `TurnSerial`) |
| `Supervisor` | `DependenciesFirst`, `ApprovedBeforeStart` | a wrong readiness test, a route around the review |
| | `OneTaskInProgress`, `PlanOnlyAdvances`, `ResultsCoverPlan` | marking another task than the one that ran, putting one back, counting one twice |
| | `WellFormedPlanFinishes` | a ready task passed over |
| | `BoundedRun` | a cycle of nodes without a question; the visit guard one step late (refinement of `GraphRun`, at most `2 * MaxVisits + 1` supersteps) |
| `Middle` | `FreshThreadId` | a path to a processing that does not count it: it would resume the thread of the one before |
| | `CompleteMeansProcessed` | a prerequisite taken for the target |
| | `DerivesForward` | candidates of another level; a pivot whose source is not resolved again |
| | `BoundedRun` | a cycle that the visit limit does not see; a target fulfilled and processed again (refinement of `GraphRun`, at most 12 supersteps) |
| `Processing` | `VerdictIsAboutDraft` | a route to the review that skips verification; a stale warning |
| | `CleanShowsOwnMermaid` | a draft called clean beside the Mermaid text of an earlier one |
| | `OnlyApprovedIsStored`, `StoresOnce` | storing another draft after a crash; a diagram without its requirement, or one for a target that was not found |
| | `BoundedRun` | counter and route that disagree on the limit (refinement of `GraphRun`, at most `2 * MaxVisits + 3` supersteps) |
| `Delegation` | `WorkIsOwn` | a processing on the thread of the one before it, whose draft and verdict it would find there |
| | `ImplementsMiddle` | a row Layer 3 stores that Layer 2 does not count with, such as a diagram without its requirement; a return Layer 2 cannot tell from another |
| `Tooling` | `AnswersOwnText` | ids or uris that come back; an answer taken for the call that waits now |
| | `InitialisedFirst` | a handshake per client instead of per process |
| | `ClosedIsTrue` | a timeout, or a pipe out of step, reported as a closed server |
| | `ServedInOrder` | a wait for an answer without a timeout; a call that ends before one ahead of it (refinement of `CallQueue`; that every call ends holds of runs that are not stalled for ever) |
| `Lineage` | `OneActive` | a promotion that sweeps no siblings |
| | `HeadKept` | superseding without flushing the new version in the same transaction |
| | `PromotionSettles` | a target the sweep has just superseded and nothing writes again |
| `Skills` | `QuietCallCurrent` | a signature taken after the scan, beside an index from before it |
| `Workspace` | `TreesFollowSessions` | a deletion of a project that purges no session; a purge of the thread without those named with its prefix |

Each run but `Delegation`, whose state is that of two modules, also checks the module's
`TypeOK`. Each property has a mutant of the code under
which its run finds it violated; the mutants are the definitions named so in the modules.
`CHECK_DEADLOCK FALSE` is set where everything ends by itself, the bounds on it being finite:
in the runs of the gate, the three graphs, `Delegation` and `Tooling`. `Lineage`, `Skills` and `Workspace`
check for deadlock.

## Divergences found

Eight statements of comments and docs that the code does not keep, two of them only under a
race. Three are runs that expect the violation; PROJECT.json quotes the statement.

| Run | The code does |
|---|---|
| `ChatStaleCheck` | a handler launches a run on a pending interrupt it read before it had the lock; a whole run may lie between |
| `SupFreshTurn` | the turn after a finished plan finds that plan and answers without reading the message |
| `SupStopped` | the visit guard counts all turns of the session, so a long session is stopped for good |

The other five are formulas of their modules, each under a comment that quotes the
statement; added to the cfg of the module's own run, TLC shows the behaviour in seconds.

| Formula | Added as | The code does |
|---|---|---|
| `ChatSession!NoOrphanCheckpoints` | INVARIANT in `ChatGate.cfg` | a live run of a deleted session goes on saving checkpoints that no later request can purge |
| `Supervisor!CompleteMeansAllDone` | INVARIANT in `Supervisor.cfg` | a plan with a dangling, self or cyclic dependency is reported `execution_complete` with tasks pending |
| `Supervisor!PlanHeedsTheUser` | PROPERTY in `Supervisor.cfg` | a clarification is dropped when the re-run `plan_node` finds the old request sufficient |
| `Processing!MermaidIsOfDraft` | INVARIANT in `Processing.cfg` | a draft is shown, and may be stored, with the Mermaid text of an earlier draft; `CleanShowsOwnMermaid` says when: only beside the verifier's warning |
| `Middle!AlwaysForward` | INVARIANT in `Middle.cfg` | the artifact Layer 1 hands down overrides the source `resolve_level` found, whatever its level |

Two more behaviours of `Middle` contradict no statement of the repository: a task is
complete when Layer 3 ended without storing anything (`middle_nodes.py:707` looks at the
request only), and after a modified request a level of the earlier one may linger beside a
target locked without a level (`middle_nodes.py:213`), so that the task is processed twice.
Nor does the tool clients' write without a timeout (`lsp_client.py:48`, `mcp_client.py:48`):
with `Service!Concludes` in place of the implication of `ToolClient!ServedInOrder`, TLC shows a
call that drains for ever, and with it every call behind it.

## Bounds

| Run | Bounds | Why they are enough |
|---|---|---|
| `ChatGate` and `ChatStaleCheck` | one session, 3 requests, 2 interrupts, 1 restart | nothing in the gate relates two sessions but the set `_running`; three requests give a run, a racing request and one launched between the other's check and its lock; two interrupts tell a stale one from the pending one |
| `Supervisor` | visit limit 6, plans of up to 3 tasks with any dependency numbers 0..3, 3 turns, 1 lost run | three tasks hold a chain, a cycle, a fork and a dangling number; three turns make one that follows a finished plan and one that reaches the shared limit; limit 6 leaves room for a three-task plan in one turn; `SupFreshTurn` and `SupStopped` use an instance of their own, of 4 visits and 4 turns |
| `Middle` | visit limit 3, at most 2 artifacts before the task and 4 in all, 1 modified request | two artifacts give none, one or several candidates of a level; three visits hold a prerequisite, the target and the completion; the limit itself is reached |
| `Processing` | visit limit 3, 3 rounds of generation, 1 crash | three rounds show a stale value two rounds old; the limit is reached with and without a clean draft |
| `Delegation` | visit limit 3 for Layer 2 and 1 for Layer 3, at most 1 artifact before the task and 3 in all, 1 modified request, 2 rounds and 1 crash in a processing | a prerequisite and the target are two processings, so the second could meet what the first left; two rounds and a crash in each give a question, a regeneration and a row stored twice |
| `Tooling` | 2 callers, 3 calls, 1 message of each process that answers nothing, 1 exit | a call that timed out leaves its answer to the two after it, one of them queued already; the message may be a request with the awaited id; a process exits, also inside a message, and is started again; it may stop reading before any message, with another call behind the one it stalls |
| `Lineage` | 2 transactions, 4 rows, symmetric | two promotions, or a promotion and a new version, overlap; four rows hold a lineage of three versions and another one, or one that grows during a sweep; 3 transactions over 3 rows were checked as well |
| `Workspace` | 1 project, 2 sessions, 2 requests, 2 saved rows, symmetric | projects share nothing; two sessions make one that a project's deletion listed and one created later; two requests are two deletions, or one and a turn or a creation; 3 requests were checked as well |
| `Skills` | 1 directory in each of 3 sources, 2 names, 3 edits, `max_skills` 2 | three sources give shadowing two deep and a walk with edits before, at and behind it; three edits install, change and remove a file within one scan |

The code's limits are larger (10, 10 and 5 visits by default) and are constants here; the
theorems hold for every value. Every bound is a constant marked `bound` in its module;
`MaxVisits` is the program's own setting.

## Fairness

Weak fairness of the steps the program takes by itself, and nothing else.

- In `ChatSession`: of each request's handler, of its run up to the end, and of its response.
  The event loop runs every ready coroutine, transactions end, a run is finite (`BoundedRun`
  of its three layers), and a connected client is sent what is queued. `Superstep`, `Arrive`, `Disconnect`, `Restart` are not fair.
- In the graphs: of the next node. LangGraph's runner goes on until END, an interrupt or
  an exception. That the recursion limit does not come first is proved, not assumed: between
  two replies a graph takes at most 21, 12 and 13 supersteps with the default visit limits of
  10, 10 and 5, below the 25 of `app/config.py:55-68`. The bounds of Layer 1 and Layer 3 grow
  with their visit limits, so `supervisor_max_visits` from 13 on, or `sysml_proc_max_visits`
  from 12 on, needs a higher recursion limit; for Layer 3 that is the one of Layer 2, whose
  config it inherits, since nothing reads `sysml_proc_recursion_limit`. The bound of Layer 2
  holds for every limit.
- In `ToolClient`: of entering, asking, reading and the timeout, one condition each: the event
  loop runs the holder of the lock and fires a timer nothing resets. The end of a drain is fair
  only once the server has read everything, or is gone (`Drained /\ ~Stalled`); that it reads is
  not assumed, so `ServedInOrder` has it as the premise of its liveness. The LSP handshake makes
  a new `wait_for` for each message, so a server that never stops talking could hold it up;
  what the model's server says of its own is bounded by `MaxNotes`, and nothing is assumed of
  whether it answers.
- In `Delegation`, `Lineage`, `Workspace`, `SkillIndex`: none, they state safety only.

Nothing makes the user reply, a request arrive or a failure happen.

## Proofs

TLAPS checks all of it from nothing; only the assumptions on the constants in the modules
are used (bounds are natural numbers, there is a session, `sysml_proc_max_visits` is positive,
directories are ordered as numbers, `None` is no transaction). The refinements are proved step
by step: the initial states of the module map to initial states of the abstract one, and each
action to one of its actions or to a stutter, under an inductive invariant.

| Module | Theorem | Argument |
|---|---|---|
| `ChatSession_proofs` | `TypeCorrect` | `TypeOK` is inductive |
| | `LockCorrect` | with `TypeOK`, `LockMatchesRuns` is inductive: a step launches one run and takes the lock, closes one and gives it back, kills all, or changes no run (`QuietStep`, `LaunchRuns`, `CloseRuns`, `RestartRuns`) |
| | `CheckpointOwned` | the action property from `LockCorrect`: whoever saves is live, so its session is locked; a deletion, the first or a later one, leaves neither session nor interrupt |
| | `ImplementsTurnSerial` | each step maps to a step of `TurnSerial` or a stutter (safety part; its fairness is checked by the run) |
| | `InterruptAnnounced` | a run's step that leaves its session waiting is under the lock, and the run gives the lock back only as it announces, fails or is killed (`ReleaseAnnounces`); what a stream has is never taken out (`Grown`, `IdleSilent`) |
| | `ResponsesWhole` | for each request a refinement of `Response`. `Said`: what is on its queue is told by where its run is, nothing before it begins, the opening until it ends, all of it once it is closed; so the sentinel, by which the client stops reading, is on whole streams only (`Sentinel`) |
| `Supervisor_proofs` | `TypeCorrect`, `DependenciesCorrect`, `PlanAdvances` | what each node does to a plan is one of five changes (`PlanSteps`); each keeps dependencies first and advances |
| | `OneTaskCorrect`, `ApprovalCorrect`, `CompletionCorrect` | the strengthening `Orderly`: one task in progress exactly while Layer 2 has it, and a plan under review untouched. Without it the approval of a plan says nothing about which tasks it finds started. `CompletionCorrect` adds that the least task not done of a well-formed plan is ready (`LeastElement`, `FinishedIfStuck`) |
| | `ReferencesCover` | with `RefsOfDone`, that only a done task has a reference, `ResultsCoverPlan` is inductive: a task done adds one result and one done task, and a real one to both or neither (`OneMoreRef`) |
| | `SuperstepsBounded` | the refinement of `GraphRun` under `StepsLeft`: two supersteps for each visit left, less what the turn has done since. `Visited`, that a turn is past the hub only after a visit below the limit, gives it room for the way to `finalize_turn` |
| `Middle_proofs` | `TypeCorrect` | as above |
| | `ThreadIdsFresh` | `Counted`: the counter is ahead of the last processing from the moment a visit proceeds; it needs `Settled`, that no question's context outlives its answer, or a reply could take the pivot, which does not count |
| | `CompletionCorrect` | `FulfilledByLast`: the flag is about the last processing and the target locked now, and is looked at before either changes |
| | `ForwardCorrect` | `Ready`: what the contract will read is forward when it is about to be built; `Offered`: so is every option of an open selection |
| | `SuperstepsBounded` | the refinement of `GraphRun`. The visit limit plays no part: with a target locked (`Locked`), what is processed first is the target, and the next visit ends the run, or a prerequisite, and one more round is about the target (`OnTarget`); only the request that has no target yet is free |
| | `DelegationImplements` | each step of `Delegation` is one of `Middle` or a stutter. `Inside`: while the node is in Layer 3, all that `Processing_proofs` keeps of a processing holds of the thread (`Layer3Inv`, re-using its lemmas through an instance) and, while the session is there, its target is what `Given` says; so what comes back is what `Process` allows (`ReturnIsProcess`). `Outside`: the history is empty |
| | `OwnWork`, `EveryProcessingSound` | from the same invariant. Each `Enter` opens a new thread because `CountInv`, the invariant of `ThreadIdsFresh`, holds of `Delegation` as it does of `Middle`, so `Layer3Inv` starts anew (`Layer3Start`) |
| `Processing_proofs` | `TypeCorrect`, `VerdictCorrect` | `Verified`: outside the verifier the verdict is the current draft's; `Fresh` covers the conversation that starts without a draft; `Judged`: a verdict that reached the review is kept until `plan_node` clears it |
| | `ApprovalCorrect`, `StoreCorrect` | `Consented`, `Anchored`, `Stored`: at `finalize`, crashed or not, the draft is an approved one, generated by a plan that `plan_node` did not raise on |
| | `MermaidCorrect` | `Derived`: from the verifier to the end a clean diagram has the text of its draft, since the verdict is clean only with a derivation and the nodes after it write neither; `RowsDerived` keeps it for what is stored |
| | `SuperstepsBounded` | the refinement of `GraphRun`, from `RoundBounded`, that the verifier's counter is below the limit when `generate_node` runs: two supersteps for each draft left |
| `ToolClient_proofs` | `TypeCorrect` | with `Held`, that a phase past the entry has a holder |
| | `OwnAnswers` | `Own`: what bears the key waited for is about the call that waits, from the write on (`Asked`), wherever it is, in the inbox, half written or in the pipe; keys only grow within a process, and `QueueWaits` keeps one call per caller |
| | `GreetedFirst` | `GreetingAhead`: until a process has read `initialize`, that message is at the head of its inbox |
| | `ClosedTruly` | `Aligned`: headers and bodies alternate from where the reader stands, through the pipe and what is still to be written, unless a timeout cut the reader off |
| | `ImplementsCallQueue` | the refinement of `CallQueue` with the calls ended so far as `calls - Len(queue)`. `InLine`: the queue holds the last calls made, in their order, and with `QueueWaits` everyone who waits; a step adds a call behind them, ends the first, or leaves the queue alone (`QueueSteps`, `HeadEnds`). That the answer is the caller's own is `OwnAnswers` |
| `Lineage_proofs` | `TypeCorrect`, `ActiveIsOne`, `HeadStays`, `SoleSettles` | one invariant, `IInv`: a row is written by one transaction at a time (`Exclusive`), what each has written so far (`WritesOf`), and a promotion no other committed into has every active row of its lineage written or still to do (`Sweeping`) |
| `Workspace_proofs` | `TypeCorrect`, `TreesCorrect` | `WInv`: a deletion that has purged a session, or passed it by before it was there, has doomed all its rows, unless a run is alive (`PurgeInv`); what is doomed belongs to sessions the commit deletes (`Sound`); the foreign key keeps a creation and the deletion of its project apart (`LockInv`) |
| `SkillIndex_proofs` | `TypeCorrect`, `QuietCurrent` | `SInv`: a file untouched since its stamp was taken is in the index that goes with the stamps, under its name (`Coherent`, `CoversBut`), for the cache as for a scan under way; every edit is ahead of all stamps (`Clocked`); a quiet call has stamped every file there is (`QuietInv`) |

Every type invariant, safety invariant and action property of a passing run is proved, and the
safety part of every refinement. Only model-checked is liveness, which TLAPS cannot prove under
fairness: `GraphRun!Ends`, `CallQueue!Concludes` (under `[]<>~Stalled`), `Response!Concludes` and `HearsTheEnd`, and
the fairness part of `SerialSpec`.

## Not modelled

| Part | Why |
|---|---|
| Thread TTL (`harness/thread_ttl.py`) | a timestamp per thread id that Layer 2 only writes; the expiry that reads it is called from scripts alone |
| Checkpointer set-up | LangGraph's saver is a library; what it keeps is in `ChatSession`, `Workspace` and the graphs |
| Trace and token streaming (`app/chat/`) | filtering and formatting per event; the length of the text already sent is a local of one run |
| Tokens and passwords | library calls; the ownership look-ups are in `ChatSession` and `Workspace` |
| Artifacts API, storage, published requirements, files, look-ups | read-only queries, single inserts, object-store I/O |
| Level 3 of the skills, the scores of `match` | text processing without state |
| LLM factory, prompts, settings, start-up, spikes, migrations, dev UI | configuration, text and experiments without state of the program's own |
| `scripts/` | smoke tests that drive the parts above and assert what they print: two thirds of the repository's Python, and no part of the running program |

What is left of the program itself is text, configuration and I/O. The lines the modules map
are therefore a small share of all Python and most of the part that has state.

## Plan

Done, most important first: the gate and its abstract specification, Layer 1, Layer 3,
Layer 2; the tooling clients; the repository's lineages; projects and sessions; the skills
index; abstract specifications of a response, a graph's run and a tool client's queue; Layer 2
with Layer 3 inside.
Type correctness, every safety invariant, every action property and every refinement of them
is proved.

What could come next:

1. `Supervisor` with `Delegation` inside `sysml_middle_node`, as `Delegation` has `Processing`
   inside `sysml_processing`: a plan's tasks one after the other, each on a Layer-2 thread of
   its own, down to the rows.
2. A level lingering after a modified request in `Middle` as a property with a run of its own.
3. A file restored with its old modification time in `SkillIndex`, which the signature cannot
   tell from the file it replaces.

Runs are kept few: a run that only exhibits a divergence gives way to one that asks a new
question of the system.
