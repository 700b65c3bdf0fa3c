----------------------------- MODULE ToolClient -----------------------------
(***************************************************************************)
(* The clients of the two SysML servers, lsp_client.py and mcp_client.py:  *)
(* callers queue on an asyncio lock, the holder starts the server process  *)
(* if there is none, shakes hands, asks, and waits for its answer under a  *)
(* timeout.  The server is a process of its own, slow, talkative, able to  *)
(* exit or to stop reading at any time; it is external.                    *)
(*                                                                         *)
(* The LSP server writes a header and a body for each message, the MCP     *)
(* server one line.  The pipe is a sequence of these parts, because a      *)
(* timeout cancels the reader wherever it waits.                           *)
(***************************************************************************)
EXTENDS Naturals, Sequences, FiniteSets

CONSTANTS
    Callers,   \* coroutines that validate a text or derive its diagram
    MaxCalls,  \* bound: calls, numbered in order of arrival
    MaxNotes,  \* bound: messages of a process that answer nothing
    MaxExits   \* bound: server processes that exit on their own

ASSUME CallBoundsAreNat == /\ MaxCalls \in Nat
                           /\ MaxNotes \in Nat
                           /\ MaxExits \in Nat

VARIABLES
    client,   \* "lsp" or "mcp": which of the two clients this is
    proc,     \* the server process, as the client and the system see it
    inbox,    \* what the server has not read yet
    writing,  \* the parts of a message the server is still to write
    pipe,     \* the parts written and not read
    inside,   \* the reader holds a header and waits for its body
    queue,    \* callers in the order of the asyncio lock; the head holds it
    phase,    \* how far the holder has come
    want,     \* the id or uri the holder waits for
    ids,      \* self._id
    uris,     \* _uri_counter
    calls,    \* calls made so far
    result,   \* result[c]: the last call of caller c and how it ended
    greeted,  \* history: the process has read initialize
    cut,      \* history: a timeout left this process's pipe inside a message
    notes,    \* messages of this process that answer nothing, so far
    exits     \* processes that exited, so far

server  == <<proc, inbox, writing, pipe, greeted, notes, exits>>
counter == <<ids, uris, calls>>
vars    == <<client, server, inside, queue, phase, want, counter, result, cut>>

Kinds  == {"initialize", "ask", "reply", "diagnostics", "request", "note"}
Parts  == {"head", "body", "line", "big", "tail"}

\* A message: the id or uri it carries, and the call whose text it is about.
Msg(k, key, about) == [kind |-> k, key |-> key, about |-> about]
Messages == [kind : Kinds, key : Nat, about : Nat]
Part(p, m) == [part |-> p, msg |-> m]
PipeParts == [part : Parts, msg : Messages]

\* "gone": the process has exited and returncode is still None.
ProcStates == {"none", "alive", "gone", "dead"}
\* "drain": the question is written, and the holder waits until the buffer of
\* the server's stdin has room again.
Phases     == {"enter", "shake", "send", "drain", "ask"}
Endings    == {"ok", "closed", "error"}
States     == {"idle", "waiting"} \cup Endings

TypeOK ==
    /\ client \in {"lsp", "mcp"}
    /\ proc \in ProcStates
    /\ inbox \in Seq(Messages)
    /\ writing \in Seq(PipeParts)
    /\ pipe \in Seq(PipeParts)
    /\ inside \in BOOLEAN
    /\ queue \in Seq(Callers)
    /\ phase \in Phases
    /\ want \in Nat
    /\ ids \in Nat
    /\ uris \in Nat
    /\ calls \in Nat
    /\ result \in [Callers -> [state : States, call : Nat, about : Nat]]
    /\ greeted \in BOOLEAN
    /\ cut \in BOOLEAN
    /\ notes \in Nat
    /\ exits \in Nat

Init ==
    /\ client \in {"lsp", "mcp"}
    /\ proc = "none"
    /\ inbox = << >>
    /\ writing = << >>
    /\ pipe = << >>
    /\ inside = FALSE
    /\ queue = << >>
    /\ phase = "enter"
    /\ want = 0
    /\ ids = 0
    /\ uris = 0
    /\ calls = 0
    /\ result = [c \in Callers |-> [state |-> "idle", call |-> 0, about |-> 0]]
    /\ greeted = FALSE
    /\ cut = FALSE
    /\ notes = 0
    /\ exits = 0

Running == proc \in {"alive", "gone"}     \* returncode is None
Holder  == Head(queue)
Waiting == phase \in {"shake", "ask"}

-----------------------------------------------------------------------------
(* The callers and the lock.                                               *)

\* validate and to_mermaid: `async with self._lock`, which is served in order.
Call(c) ==
    /\ calls < MaxCalls
    /\ result[c].state # "waiting"
    /\ calls' = calls + 1
    /\ result' = [result EXCEPT ![c] = [state |-> "waiting", call |-> calls + 1, about |-> 0]]
    /\ queue' = Append(queue, c)
    /\ UNCHANGED <<client, server, inside, phase, want, ids, uris, cut>>

\* The call returns or raises and the lock passes to the next caller.
End(how, about) ==
    /\ result' = [result EXCEPT ![Holder].state = how, ![Holder].about = about]
    /\ queue' = Tail(queue)
    /\ phase' = "enter"
    /\ inside' = FALSE

Raise(how) == End(how, 0)

-----------------------------------------------------------------------------
(* Starting the server.                                                    *)

\* _ensure_started: a process whose returncode is None is used as it is,
\* whatever became of its handshake.
Reuse ==
    /\ queue # << >>
    /\ phase = "enter"
    /\ Running
    /\ phase' = "send"
    /\ UNCHANGED <<client, server, inside, queue, want, counter, result, cut>>

\* Mutant: the handshake is made once for each client, not for each process.
GreetingOnce == IF ids = 0 THEN <<Msg("initialize", 1, 0)>> ELSE << >>

\* _initialize; the notifications that follow it or a validation change
\* nothing here.
Greeting == <<Msg("initialize", ids + 1, 0)>>

\* A new process with pipes of its own, recorded before initialize is sent.
Start ==
    /\ queue # << >>
    /\ phase = "enter"
    /\ ~Running
    /\ proc' = "alive"
    /\ ids' = ids + 1
    /\ inbox' = Greeting
    /\ writing' = << >>
    /\ pipe' = << >>
    /\ phase' = "shake"
    /\ want' = ids + 1
    /\ greeted' = FALSE
    /\ cut' = FALSE
    /\ notes' = 0
    /\ UNCHANGED <<client, inside, queue, uris, calls, result, exits>>

\* The server's path or the node binary is missing.
StartFails ==
    /\ queue # << >>
    /\ phase = "enter"
    /\ ~Running
    /\ Raise("error")
    /\ UNCHANGED <<client, server, want, counter, cut>>

-----------------------------------------------------------------------------
(* Asking.                                                                 *)

\* Mutants: every document has the same name; the numbers run down.
NextKeyOnce == 1
NextKeyDown == IF client = "lsp" THEN uris - 1 ELSE ids - 1

\* The uri of a new document, or the id of a tools/call.
NextKey == IF client = "lsp" THEN uris + 1 ELSE ids + 1

\* stdin.write of didOpen or tools/call: it never waits, and what is written
\* to a process that has exited is lost.
Ask ==
    /\ phase = "send"
    /\ want' = NextKey
    /\ IF client = "lsp" THEN uris' = NextKey /\ UNCHANGED ids
                         ELSE ids' = NextKey /\ UNCHANGED uris
    /\ inbox' = IF proc = "alive" THEN Append(inbox, Msg("ask", NextKey, result[Holder].call))
                                  ELSE inbox
    /\ phase' = "drain"
    /\ UNCHANGED <<client, proc, writing, pipe, greeted, notes, exits, calls, inside, queue,
                   result, cut>>

\* stdin.drain is over, under no timeout and with the lock held, or it raises
\* on a process that has exited.  Initialize and the notifications never wait:
\* they are short, and nothing long is unread when they are written.
Drained ==
    /\ phase = "drain"
    /\ \/ phase' = "ask" /\ UNCHANGED <<queue, inside, result>>
       \/ proc # "alive" /\ Raise("error")
    /\ UNCHANGED <<client, server, want, counter, cut>>

\* A live server has not read what was written to it: if the text is longer
\* than the buffers, the drain goes on until it does.
Stalled == phase = "drain" /\ proc = "alive" /\ inbox # << >>

\* The test the waiting loop makes: validate goes by method and uri, _request
\* by the id alone, which a request of the server's own may carry too.
Awaited(m) ==
    /\ m.key = want
    /\ m.kind \in IF phase = "ask" /\ client = "lsp" THEN {"diagnostics"} ELSE {"reply", "request"}

\* A message has been read whole: the handshake is over, the call returns, or
\* the message is dropped and the loop reads on.
Handle(m) ==
    \/ /\ ~Awaited(m)
       /\ inside' = FALSE
       /\ UNCHANGED <<queue, phase, result>>
    \/ /\ Awaited(m)
       /\ phase = "shake"
       /\ phase' = "send"
       /\ inside' = FALSE
       /\ UNCHANGED <<queue, result>>
    \/ /\ Awaited(m)
       /\ phase = "ask"
       /\ m.kind # "request"
       /\ End("ok", m.about)
    \/ \* No Mermaid text in the response, or didClose finds the process gone.
       /\ Awaited(m)
       /\ phase = "ask"
       /\ client = "mcp" \/ proc # "alive"
       /\ Raise("error")

\* The holder reads the first part of the pipe.
Reads(part) ==
    /\ Waiting
    /\ pipe # << >>
    /\ Head(pipe).part = part
    /\ pipe' = Tail(pipe)
    /\ UNCHANGED <<client, proc, inbox, writing, greeted, notes, exits, want, counter, cut>>

ReadHead == Reads("head") /\ ~inside /\ inside' = TRUE /\ UNCHANGED <<queue, phase, result>>

ReadBody == Reads("body") /\ inside /\ Handle(Head(pipe).msg)

ReadLine == Reads("line") /\ Handle(Head(pipe).msg)

\* readline refuses a line above the stream's limit, and drops what it has
\* of it; the rest of it is not JSON.
ReadFragment == (Reads("big") \/ Reads("tail")) /\ Raise("error")

\* A body where a header is expected: readline takes it and the header behind
\* it for the header lines of one message, which give no length.
ReadOutOfStep ==
    /\ Waiting
    /\ ~inside
    /\ Len(pipe) > 1
    /\ Head(pipe).part = "body"
    /\ pipe' = Tail(Tail(pipe))
    /\ Raise("closed")
    /\ UNCHANGED <<client, proc, inbox, writing, greeted, notes, exits, want, counter, cut>>

\* Nothing the reader could take whole, and nothing more to come by itself.
Starved == \/ pipe = << >>
           \/ ~inside /\ Len(pipe) = 1 /\ Head(pipe).part = "body"

ReadEOF ==
    /\ Waiting
    /\ proc # "alive"
    /\ Starved
    /\ pipe' = << >>
    /\ Raise(IF inside THEN "error" ELSE "closed")
    /\ UNCHANGED <<client, proc, inbox, writing, greeted, notes, exits, want, counter, cut>>

Read == ReadHead \/ ReadBody \/ ReadLine \/ ReadFragment \/ ReadOutOfStep \/ ReadEOF

\* Mutant: a timeout is taken for the end of the stream.
TimeoutSwallowed == "closed"

\* What wait_for raises.
TimeoutRaises == "error"

\* Mutant: only the handshake has a timeout.
TimeoutOfHandshake ==
    /\ phase = "shake"
    /\ Raise(TimeoutRaises)
    /\ cut' = (cut \/ inside)
    /\ UNCHANGED <<client, server, want, counter>>

\* The timeout is for the whole wait, but for each message of the LSP
\* handshake.  It cancels the reader where it stands.
Timeout ==
    /\ Waiting
    /\ client = "lsp" /\ phase = "shake" => Starved
    /\ Raise(TimeoutRaises)
    /\ cut' = (cut \/ inside)
    /\ UNCHANGED <<client, server, want, counter>>

\* aclose, between calls: the next call makes a new client object.
Close ==
    /\ queue = << >>
    /\ proc # "none"
    /\ proc' = "none"
    /\ inbox' = << >>
    /\ writing' = << >>
    /\ pipe' = << >>
    /\ ids' = 0
    /\ UNCHANGED <<client, inside, queue, phase, want, uris, calls, result, greeted, cut, notes, exits>>

-----------------------------------------------------------------------------
(* The server process and the system.                                      *)

\* The ways a message is written; only an MCP answer may be a long line.
Encoded(m) ==
    IF client = "lsp" THEN {<<Part("head", m), Part("body", m)>>}
    ELSE {<<Part("line", m)>>} \cup
         IF m.kind = "reply" /\ m.about # 0
         THEN {<<Part("big", m)>>, <<Part("big", m), Part("tail", m)>>} ELSE {}

\* The server handles one message, in order: it answers initialize, and
\* publishes the diagnostics of a document or answers a tools/call.
Serve ==
    /\ proc = "alive"
    /\ inbox # << >>
    /\ writing = << >>
    /\ inbox' = Tail(inbox)
    /\ LET m == Head(inbox)
           k == IF m.kind = "ask" /\ client = "lsp" THEN "diagnostics" ELSE "reply"
       IN  /\ writing' \in Encoded(Msg(k, m.key, m.about))
           /\ greeted' = (greeted \/ m.kind = "initialize")
    /\ UNCHANGED <<client, proc, pipe, notes, exits, inside, queue, phase, want, counter, result, cut>>

\* A log message, or a request of its own, numbered as it likes.
Speak ==
    /\ proc = "alive"
    /\ writing = << >>
    /\ notes < MaxNotes
    /\ notes' = notes + 1
    /\ \/ writing' \in Encoded(Msg("note", 0, 0))
       \/ \E k \in 0..ids : writing' \in Encoded(Msg("request", k, 0))
    /\ UNCHANGED <<client, proc, inbox, pipe, greeted, exits, inside, queue, phase, want, counter, result, cut>>

Write ==
    /\ proc = "alive"
    /\ writing # << >>
    /\ pipe' = Append(pipe, Head(writing))
    /\ writing' = Tail(writing)
    /\ UNCHANGED <<client, proc, inbox, greeted, notes, exits, inside, queue, phase, want, counter, result, cut>>

Exit ==
    /\ proc = "alive"
    /\ exits < MaxExits
    /\ exits' = exits + 1
    /\ proc' = "gone"
    /\ inbox' = << >>
    /\ writing' = << >>
    /\ UNCHANGED <<client, pipe, greeted, notes, inside, queue, phase, want, counter, result, cut>>

\* The event loop learns of the exit and sets returncode.
Reap ==
    /\ proc = "gone"
    /\ proc' = "dead"
    /\ UNCHANGED <<client, inbox, writing, pipe, greeted, notes, exits, inside, queue, phase, want, counter, result, cut>>

Enter == Reuse \/ Start \/ StartFails

Next ==
    \/ \E c \in Callers : Call(c)
    \/ Enter \/ Ask \/ Drained \/ Read \/ Timeout \/ Close
    \/ Serve \/ Speak \/ Write \/ Exit \/ Reap

Spec == Init /\ [][Next]_vars

\* The client's coroutines run when they can, and a timer that is not reset
\* fires.  Nothing is assumed of the server, not even that it reads: a drain is
\* only bound to end once what was written has been read, or the process is gone.
Fairness ==
    /\ WF_vars(Enter) /\ WF_vars(Ask) /\ WF_vars(Drained /\ ~Stalled)
    /\ WF_vars(Read) /\ WF_vars(Timeout)

FairSpec == Spec /\ Fairness

-----------------------------------------------------------------------------
(* Properties.                                                             *)

\* A call returns the diagnostics or the diagram of its own text, although a
\* call that timed out leaves its answer to arrive during a later one
\* (lsp_client.py:137, mcp_client.py:56).
AnswersOwnText == \A c \in Callers : result[c].state = "ok" => result[c].about = result[c].call

\* The server never reads a question before it has read initialize, although
\* a handshake that failed is not repeated (lsp_client.py:32).
InitialisedFirst ==
    proc = "alive" /\ inbox # << >> /\ Head(inbox).kind = "ask" => greeted

\* "The server closed the connection" is reported of a server that exited,
\* unless a timeout has cut the reader off inside a message of this process:
\* then the client stays out of step with it (lsp_client.py:132).
ClosedIsTrue ==
    [][\A c \in Callers :
          result[c].state = "waiting" /\ result'[c].state = "closed"
            => proc # "alive" \/ cut]_vars

\* Calls end in the order in which they came, one at a time, each with its own
\* answer or an exception.  Every call ends, whatever else the server does or
\* fails to do, unless the server stays alive and reads no more of what a call
\* writes to it: that call has no timeout yet and holds the lock of all behind it
\* (lsp_client.py:43-48, mcp_client.py:47-48).
Service == INSTANCE CallQueue WITH made <- calls, ended <- calls - Len(queue), outcome <- result

ServedInOrder == Service!Spec /\ ([]<>~Stalled => Service!Concludes)
=============================================================================
