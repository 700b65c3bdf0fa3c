-------------------------- MODULE ToolClient_proofs --------------------------
(***************************************************************************)
(* Proofs about ToolClient, for any set of callers and any bounds.         *)
(***************************************************************************)
EXTENDS ToolClient, TLAPS

-----------------------------------------------------------------------------
(* Sequences, and what is written of a message.                            *)

LEMMA TailFacts ==
    ASSUME NEW S, NEW s \in Seq(S), s # << >>
    PROVE  /\ Len(s) \in Nat \ {0}
           /\ Head(s) = s[1]
           /\ Head(s) \in S
           /\ Tail(s) \in Seq(S)
           /\ Len(Tail(s)) = Len(s) - 1
           /\ \A i \in 1..Len(Tail(s)) : Tail(s)[i] = s[i + 1]
           /\ Len(s) > 1 => Tail(s) # << >>
  OBVIOUS

LEMMA AppendFacts ==
    ASSUME NEW S, NEW s \in Seq(S), NEW e \in S
    PROVE  /\ Append(s, e) \in Seq(S)
           /\ Len(Append(s, e)) = Len(s) + 1
           /\ \A i \in 1..Len(s) : Append(s, e)[i] = s[i]
           /\ Append(s, e)[Len(s) + 1] = e
           /\ Append(s, e) # << >>
  OBVIOUS

LEMMA EmptyFacts ==
    ASSUME NEW S
    PROVE  << >> \in Seq(S) /\ Len(<< >>) = 0
  OBVIOUS

LEMMA SingleFacts ==
    ASSUME NEW S, NEW e \in S
    PROVE  <<e>> \in Seq(S) /\ Len(<<e>>) = 1 /\ <<e>>[1] = e /\ <<e>> # << >>
  OBVIOUS

LEMMA MsgType ==
    ASSUME NEW k \in Kinds, NEW key \in Nat, NEW about \in Nat
    PROVE  /\ Msg(k, key, about) \in Messages
           /\ Msg(k, key, about).kind = k
           /\ Msg(k, key, about).key = key
           /\ Msg(k, key, about).about = about
  BY DEF Msg, Messages

\* A message is written in one or two parts; the LSP server writes a header
\* and a body, the MCP server neither.
LEMMA EncodedFacts ==
    ASSUME NEW m \in Messages, NEW w \in Encoded(m)
    PROVE  /\ w \in Seq(PipeParts)
           /\ \A i \in 1..Len(w) : w[i].msg = m
           /\ client = "lsp" => /\ Len(w) = 2
                                /\ w[1].part = "head"
                                /\ w[2].part = "body"
           /\ client # "lsp" => \A i \in 1..Len(w) : w[i].part \notin {"head", "body"}
  <1>1. \A p \in Parts : /\ Part(p, m) \in PipeParts
                         /\ Part(p, m).msg = m
                         /\ Part(p, m).part = p
    BY DEF Part, PipeParts
  <1>2. CASE client = "lsp"
    <2>1. w = <<Part("head", m), Part("body", m)>>
      BY <1>2 DEF Encoded
    <2>2. QED
      BY <1>1, <1>2, <2>1 DEF Parts
  <1>3. CASE client # "lsp"
    <2>1. \/ w = <<Part("line", m)>>
          \/ w = <<Part("big", m)>>
          \/ w = <<Part("big", m), Part("tail", m)>>
      BY <1>3 DEF Encoded
    <2>2. CASE w = <<Part("line", m)>>
      BY <1>1, <1>3, <2>2 DEF Parts
    <2>3. CASE w = <<Part("big", m)>>
      BY <1>1, <1>3, <2>3 DEF Parts
    <2>4. CASE w = <<Part("big", m), Part("tail", m)>>
      BY <1>1, <1>3, <2>4 DEF Parts
    <2>5. QED
      BY <2>1, <2>2, <2>3, <2>4
  <1>4. QED
    BY <1>2, <1>3

-----------------------------------------------------------------------------
(* Types.  A holder is past "enter" only while the queue has a head.       *)

Held == phase # "enter" => queue # << >>

TInv == TypeOK /\ Held

LEMMA EndType ==
    ASSUME TInv, queue # << >>, NEW how \in Endings, NEW about \in Nat, End(how, about)
    PROVE  /\ queue' \in Seq(Callers)
           /\ phase' = "enter"
           /\ inside' = FALSE
           /\ result' \in [Callers -> [state : States, call : Nat, about : Nat]]
  <1>1. Holder \in Callers /\ Tail(queue) \in Seq(Callers)
    BY TailFacts DEF TInv, TypeOK, Holder
  <1>2. QED
    BY <1>1 DEF TInv, TypeOK, End, States

LEMMA HandleType ==
    ASSUME TInv, Waiting, NEW m \in Messages, Handle(m)
    PROVE  /\ queue' \in Seq(Callers)
           /\ phase' \in Phases
           /\ inside' = FALSE
           /\ result' \in [Callers -> [state : States, call : Nat, about : Nat]]
           /\ Held'
  <1>0. queue # << >> /\ phase \in {"shake", "ask"}
    BY DEF TInv, Held, Waiting
  <1>1. CASE ~Awaited(m) /\ inside' = FALSE /\ UNCHANGED <<queue, phase, result>>
    BY <1>0, <1>1 DEF TInv, TypeOK, Held
  <1>2. CASE phase' = "send" /\ inside' = FALSE /\ UNCHANGED <<queue, result>>
    BY <1>0, <1>2 DEF TInv, TypeOK, Held, Phases
  <1>3. CASE End("ok", m.about)
    BY <1>0, <1>3, EndType DEF Endings, Messages, Held, Phases
  <1>4. CASE Raise("error")
    BY <1>0, <1>4, EndType DEF Endings, Raise, Held, Phases
  <1>5. QED
    BY <1>1, <1>2, <1>3, <1>4 DEF Handle

LEMMA ReadType ==
    ASSUME TInv, NEW p \in Parts, Reads(p)
    PROVE  /\ Waiting
           /\ queue # << >>
           /\ pipe' \in Seq(PipeParts)
           /\ Head(pipe) \in PipeParts
           /\ Head(pipe).msg \in Messages
           /\ UNCHANGED <<client, proc, inbox, writing, greeted, notes, exits, want, counter, cut>>
  <1>1. pipe # << >> /\ pipe \in Seq(PipeParts) /\ Waiting /\ queue # << >>
    BY DEF Reads, TInv, TypeOK, Held, Waiting
  <1>2. Head(pipe) \in PipeParts /\ Tail(pipe) \in Seq(PipeParts)
    BY <1>1, TailFacts
  <1>3. QED
    BY <1>1, <1>2 DEF Reads, PipeParts

LEMMA TypeInit == Init => TInv
  <1> SUFFICES ASSUME Init PROVE TInv
    OBVIOUS
  <1>1. result \in [Callers -> [state : States, call : Nat, about : Nat]]
    BY DEF Init, States
  <1>2. QED
    BY <1>1, EmptyFacts DEF Init, TInv, Held, TypeOK, ProcStates, Phases

LEMMA TypeCalls ==
    ASSUME TInv, \/ \E c \in Callers : Call(c)
                 \/ Enter \/ Ask \/ Drained
    PROVE  TInv'
  <1>a. queue \in Seq(Callers) /\ << >> \in Seq(PipeParts)
    BY EmptyFacts DEF TInv, TypeOK
  <1>b. ASSUME NEW c \in Callers
        PROVE  Append(queue, c) \in Seq(Callers) /\ Append(queue, c) # << >>
    BY <1>a, <1>b, AppendFacts
  <1> USE DEF TInv, Held, TypeOK, ProcStates, Phases, counter, server
  <1>1. ASSUME NEW c \in Callers, Call(c) PROVE TInv'
    <2>1. result' \in [Callers -> [state : States, call : Nat, about : Nat]]
      BY <1>1 DEF Call, States
    <2>2. QED
      BY <1>1, <1>b, <2>1 DEF Call
  <1>2. CASE Reuse
    BY <1>2 DEF Reuse
  <1>3. CASE Start
    <2>1. Msg("initialize", ids + 1, 0) \in Messages
      BY MsgType DEF Kinds
    <2>2. Greeting \in Seq(Messages)
      BY <2>1, SingleFacts DEF Greeting
    <2>3. /\ inbox' \in Seq(Messages)
          /\ writing' \in Seq(PipeParts)
          /\ pipe' \in Seq(PipeParts)
      BY <1>3, <2>2, <1>a DEF Start
    <2>4. /\ want' \in Nat /\ ids' \in Nat /\ uris' \in Nat /\ calls' \in Nat
          /\ notes' \in Nat /\ exits' \in Nat
      BY <1>3 DEF Start
    <2>5. QED
      BY <1>3, <2>3, <2>4 DEF Start
  <1>4. CASE StartFails
    <2>1. queue # << >> /\ End("error", 0)
      BY <1>4 DEF StartFails, Raise
    <2>2. QED
      BY <1>4, <2>1, EndType DEF StartFails, Endings
  <1>5. CASE Ask
    <2>1. queue # << >> /\ NextKey \in Nat /\ Holder \in Callers
      BY <1>5, TailFacts DEF Ask, NextKey, Holder
    <2>2. Msg("ask", NextKey, result[Holder].call) \in Messages
      BY <2>1, MsgType DEF Kinds
    <2>3. inbox' \in Seq(Messages)
      BY <1>5, <2>2, AppendFacts DEF Ask
    <2>4. QED
      BY <1>5, <2>1, <2>3 DEF Ask
  <1>6. CASE Drained
    <2>1. CASE phase' = "ask" /\ UNCHANGED <<queue, inside, result>>
      BY <1>6, <2>1 DEF Drained
    <2>2. CASE End("error", 0)
      <3>1. queue # << >>
        BY <1>6 DEF Drained
      <3>2. QED
        BY <1>6, <2>2, <3>1, EndType DEF Drained, Endings
    <2>3. QED
      BY <1>6, <2>1, <2>2 DEF Drained, Raise
  <1>7. QED
    BY <1>1, <1>2, <1>3, <1>4, <1>5, <1>6 DEF Enter

LEMMA TypeReads ==
    ASSUME TInv, Read \/ Timeout
    PROVE  TInv'
  <1> USE DEF counter, server
  <1>1. ASSUME NEW p \in Parts, Reads(p), Handle(Head(pipe).msg) PROVE TInv'
    <2>1. /\ queue' \in Seq(Callers)
          /\ phase' \in Phases
          /\ inside' = FALSE
          /\ result' \in [Callers -> [state : States, call : Nat, about : Nat]]
          /\ Held'
      BY <1>1, ReadType, HandleType
    <2>2. QED
      BY <1>1, <2>1, ReadType DEF TInv, TypeOK
  <1>2. ASSUME NEW how \in Endings, queue # << >>, Raise(how),
               pipe' \in Seq(PipeParts), cut' \in BOOLEAN,
               UNCHANGED <<client, proc, inbox, writing, greeted, notes, exits, want, counter>>
        PROVE  TInv'
    <2>1. End(how, 0)
      BY <1>2 DEF Raise
    <2>2. QED
      BY <1>2, <2>1, EndType DEF TInv, TypeOK, Held, Phases
  <1>3. CASE ReadHead
    BY <1>3, ReadType DEF ReadHead, TInv, TypeOK, Held, Parts
  <1>4. CASE ReadBody
    BY <1>1, <1>4 DEF ReadBody, Parts
  <1>5. CASE ReadLine
    BY <1>1, <1>5 DEF ReadLine, Parts
  <1>6. CASE ReadFragment
    <2>1. PICK p \in Parts : Reads(p)
      BY <1>6 DEF ReadFragment, Parts
    <2>2. QED
      BY <1>2, <1>6, <2>1, ReadType DEF ReadFragment, Endings, TInv, TypeOK
  <1>7. CASE ReadOutOfStep
    <2>1. pipe \in Seq(PipeParts) /\ Len(pipe) > 1 /\ pipe # << >>
      BY <1>7 DEF ReadOutOfStep, TInv, TypeOK
    <2>2. Tail(pipe) \in Seq(PipeParts) /\ Tail(pipe) # << >>
      BY <2>1, TailFacts
    <2>3. pipe' \in Seq(PipeParts)
      BY <1>7, <2>2, TailFacts DEF ReadOutOfStep
    <2>4. QED
      BY <1>2, <1>7, <2>3 DEF ReadOutOfStep, Endings, TInv, TypeOK, Held, Waiting
  <1>8. CASE ReadEOF
    BY <1>2, <1>8 DEF ReadEOF, Endings, TInv, TypeOK, Held, Waiting
  <1>9. CASE Timeout
    BY <1>2, <1>9 DEF Timeout, TimeoutRaises, Endings, TInv, TypeOK, Held, Waiting
  <1>10. QED
    BY <1>3, <1>4, <1>5, <1>6, <1>7, <1>8, <1>9 DEF Read

\* What the server says of its own is a message.
LEMMA SpokenType ==
    ASSUME NEW n \in Nat
    PROVE  /\ Msg("note", 0, 0) \in Messages
           /\ \A k \in 0..n : Msg("request", k, 0) \in Messages
  <1>1. "note" \in Kinds /\ "request" \in Kinds
    BY DEF Kinds
  <1>2. \A k \in 0..n : k \in Nat
    OBVIOUS
  <1>3. QED
    BY <1>1, <1>2, MsgType

LEMMA TypeServer ==
    ASSUME TInv, Close \/ Serve \/ Speak \/ Write \/ Exit \/ Reap
    PROVE  TInv'
  <1> USE DEF TInv, Held, TypeOK, ProcStates, counter, server
  <1>1. CASE Close
    BY <1>1, EmptyFacts DEF Close
  <1>2. CASE Serve
    <2> DEFINE m == Head(inbox)
               k == IF m.kind = "ask" /\ client = "lsp" THEN "diagnostics" ELSE "reply"
    <2>1. m \in Messages /\ inbox' \in Seq(Messages)
      BY <1>2, TailFacts DEF Serve
    <2>2. Msg(k, m.key, m.about) \in Messages
      BY <2>1, MsgType DEF Messages, Kinds
    <2>3. writing' \in Seq(PipeParts)
      BY <1>2, <2>2, EncodedFacts DEF Serve
    <2>4. greeted' \in BOOLEAN
      BY <1>2 DEF Serve
    <2>5. QED
      BY <1>2, <2>1, <2>3, <2>4 DEF Serve
  <1>3. CASE Speak
    <2>1. /\ Msg("note", 0, 0) \in Messages
          /\ \A k \in 0..ids : Msg("request", k, 0) \in Messages
      BY SpokenType
    <2>2. writing' \in Seq(PipeParts)
      BY <1>3, <2>1, EncodedFacts DEF Speak
    <2>3. QED
      BY <1>3, <2>2 DEF Speak
  <1>4. CASE Write
    <2>1. Head(writing) \in PipeParts /\ Tail(writing) \in Seq(PipeParts)
      BY <1>4, TailFacts DEF Write
    <2>2. QED
      BY <1>4, <2>1, AppendFacts DEF Write
  <1>5. CASE Exit
    BY <1>5 DEF Exit
  <1>6. CASE Reap
    BY <1>6 DEF Reap
  <1>7. QED
    BY <1>1, <1>2, <1>3, <1>4, <1>5, <1>6

LEMMA TypeStep == TInv /\ [Next]_vars => TInv'
  <1>1. ASSUME TInv, UNCHANGED vars PROVE TInv'
    BY <1>1 DEF TInv, Held, TypeOK, vars, server, counter
  <1>2. QED
    BY <1>1, TypeCalls, TypeReads, TypeServer DEF Next

\* The variables keep their types, and only a waiting caller holds the lock
\* past its entry (lsp_client.py, mcp_client.py).
THEOREM TypeCorrect == Spec => [](TypeOK /\ Held)
  <1>1. TInv => TypeOK /\ Held
    BY DEF TInv
  <1>2. QED
    BY TypeInit, TypeStep, <1>1, PTL DEF Spec

-----------------------------------------------------------------------------
(* A call returns what is about its own text.                              *)

\* Every caller in the queue waits, and is in it once.
QueueWaits ==
    /\ \A i \in 1..Len(queue) : result[queue[i]].state = "waiting"
    /\ \A i, j \in 1..Len(queue) : queue[i] = queue[j] => i = j

\* The counter the keys of the calls come from.
Counter == IF client = "lsp" THEN uris ELSE ids

Keyed == IF client = "lsp" THEN {"ask", "diagnostics"} ELSE {"initialize", "ask", "reply"}

\* The question is written, and its key given out.
Asked == phase \in {"drain", "ask"}

\* The messages of which what follows holds: one that bears such a key bears a
\* key already given out, and the key waited for only when it is about the
\* text of the call that waits.
Own ==
    {m \in Messages :
        m.kind \in Keyed =>
            /\ m.key <= Counter
            /\ Asked /\ m.key = want => m.about = result[Holder].call}

OwnInv ==
    /\ Asked => want = Counter
    /\ \A i \in 1..Len(inbox) : inbox[i] \in Own /\ inbox[i].kind \in {"initialize", "ask"}
    /\ \A i \in 1..Len(writing) : writing[i].msg \in Own
    /\ \A i \in 1..Len(pipe) : pipe[i].msg \in Own

AInv == QueueWaits /\ OwnInv /\ AnswersOwnText

LEMMA CounterType == TypeOK => Counter \in Nat
  BY DEF TypeOK, Counter

LEMMA EndQueue ==
    ASSUME TInv, QueueWaits, AnswersOwnText, queue # << >>,
           NEW how \in Endings, NEW about \in Nat, End(how, about),
           how = "ok" => about = result[Holder].call
    PROVE  QueueWaits' /\ AnswersOwnText'
  <1>1. /\ queue \in Seq(Callers) /\ Holder = queue[1] /\ Holder \in Callers
        /\ Len(queue) \in Nat \ {0}
        /\ Len(Tail(queue)) = Len(queue) - 1
        /\ \A i \in 1..Len(Tail(queue)) : Tail(queue)[i] = queue[i + 1]
    BY TailFacts DEF TInv, TypeOK, Holder
  <1>2. \A i \in 1..Len(queue) : queue[i] \in Callers
    BY <1>1
  <1>3. \A c \in Callers : c # Holder => result'[c] = result[c]
    BY <1>1 DEF TInv, TypeOK, End
  <1>4. result'[Holder].state = how /\ result'[Holder].about = about
        /\ result'[Holder].call = result[Holder].call
    BY <1>1 DEF TInv, TypeOK, End
  <1>5. queue' = Tail(queue)
    BY DEF End
  <1>6. \A i \in 1..Len(queue') : queue'[i] = queue[i + 1] /\ i + 1 \in 1..Len(queue) /\ i + 1 # 1
    BY <1>1, <1>5
  <1>7. \A i \in 1..Len(queue') : queue'[i] # Holder /\ queue'[i] \in Callers
    BY <1>1, <1>2, <1>6 DEF QueueWaits
  <1>8. \A i \in 1..Len(queue') : result'[queue'[i]].state = "waiting"
    BY <1>3, <1>6, <1>7 DEF QueueWaits
  <1>9. \A i, j \in 1..Len(queue') : queue'[i] = queue'[j] => i = j
    <2> SUFFICES ASSUME NEW i \in 1..Len(queue'), NEW j \in 1..Len(queue'), queue'[i] = queue'[j]
                 PROVE  i = j
      OBVIOUS
    <2>1. i + 1 = j + 1
      BY <1>6 DEF QueueWaits
    <2>2. i \in Nat /\ j \in Nat
      OBVIOUS
    <2>3. QED
      BY <2>1, <2>2
  <1>10. QED
    BY <1>3, <1>4, <1>8, <1>9 DEF QueueWaits, AnswersOwnText

\* What was so stays so when no key is given out and nothing new is awaited.
LEMMA OwnKept ==
    ASSUME client' = client, Counter' = Counter,
           Asked' => /\ Asked
                     /\ want' = want
                     /\ result'[Holder'].call = result[Holder].call
    PROVE  Own \subseteq Own'
  BY DEF Own, Keyed

\* An end leaves every message as it was.
LEMMA OwnEnd ==
    ASSUME TInv, OwnInv, NEW how, NEW about, End(how, about),
           UNCHANGED <<client, inbox, writing, counter>>,
           pipe' = pipe \/ pipe' = << >> \/ (pipe # << >> /\ pipe' = Tail(pipe))
    PROVE  OwnInv'
  <1>1. phase' = "enter" /\ Counter' = Counter
    BY DEF End, Counter, counter
  <1>2. Own \subseteq Own'
    BY <1>1, OwnKept DEF Asked
  <1>3. \A i \in 1..Len(pipe') : pipe'[i].msg \in Own
    <2>1. CASE pipe' = pipe
      BY <2>1 DEF OwnInv, Asked
    <2>2. CASE pipe' = << >>
      BY <2>2, EmptyFacts
    <2>3. CASE pipe # << >> /\ pipe' = Tail(pipe)
      BY <2>3, TailFacts DEF OwnInv, TInv, TypeOK
    <2>4. QED
      BY <2>1, <2>2, <2>3
  <1>4. QED
    BY <1>1, <1>2, <1>3 DEF OwnInv, Asked

LEMMA AnswersInit == Init => AInv
  BY EmptyFacts DEF Init, AInv, QueueWaits, OwnInv, Asked, AnswersOwnText

LEMMA AnswersCalls ==
    ASSUME TInv, AInv, \/ \E c \in Callers : Call(c)
                       \/ Enter \/ Ask \/ Drained
    PROVE  AInv'
  <1> USE DEF counter, server
  <1>1. ASSUME NEW c \in Callers, Call(c) PROVE AInv'
    <2>1. /\ queue \in Seq(Callers) /\ queue' = Append(queue, c)
          /\ Len(queue) \in Nat
          /\ Len(queue') = Len(queue) + 1
          /\ \A i \in 1..Len(queue) : queue'[i] = queue[i] /\ queue[i] \in Callers
          /\ queue'[Len(queue) + 1] = c
      BY <1>1, AppendFacts DEF Call, TInv, TypeOK
    <2>2. \A d \in Callers : result'[d] = IF d = c
                THEN [state |-> "waiting", call |-> calls + 1, about |-> 0] ELSE result[d]
      BY <1>1 DEF Call, TInv, TypeOK
    <2>3. \A i \in 1..Len(queue) : queue[i] # c
      BY <1>1 DEF AInv, QueueWaits, Call
    <2>4. QueueWaits'
      BY <2>1, <2>2, <2>3 DEF AInv, QueueWaits
    <2>5. AnswersOwnText'
      BY <2>2 DEF AInv, AnswersOwnText
    <2>6. Asked => result'[Holder'].call = result[Holder].call
      <3> SUFFICES ASSUME Asked PROVE result'[Holder'].call = result[Holder].call
        OBVIOUS
      <3>1. queue # << >> /\ queue' # << >> /\ Holder = queue[1] /\ 1 \in 1..Len(queue)
        BY <1>1, <2>1, TailFacts, AppendFacts DEF TInv, Held, Holder, Asked
      <3>2. Holder' = queue[1]
        BY <2>1, <3>1, TailFacts DEF Holder
      <3>3. QED
        BY <2>1, <2>2, <2>3, <3>1, <3>2
    <2>7. client' = client /\ Counter' = Counter /\ phase' = phase /\ want' = want
      BY <1>1 DEF Call, Counter
    <2>8. Own \subseteq Own'
      BY <2>6, <2>7, OwnKept DEF Asked
    <2>9. UNCHANGED <<inbox, writing, pipe>>
      BY <1>1 DEF Call
    <2>10. OwnInv'
      BY <2>7, <2>8, <2>9 DEF AInv, OwnInv, Asked
    <2>11. QED
      BY <2>4, <2>5, <2>10 DEF AInv
  <1>2. CASE Reuse
    <2>1. client' = client /\ Counter' = Counter /\ phase' = "send"
      BY <1>2 DEF Reuse, Counter
    <2>2. Own \subseteq Own'
      BY <2>1, OwnKept DEF Asked
    <2>3. QED
      BY <1>2, <2>1, <2>2 DEF Reuse, AInv, OwnInv, Asked, QueueWaits, AnswersOwnText
  <1>3. CASE Start
    <2>0. "initialize" \in Kinds /\ ids + 1 \in Nat /\ 0 \in Nat
      BY DEF Kinds, TInv, TypeOK
    <2>1. /\ Msg("initialize", ids + 1, 0) \in Messages
          /\ Msg("initialize", ids + 1, 0).kind = "initialize"
          /\ Msg("initialize", ids + 1, 0).key = ids + 1
      BY <2>0, MsgType
    <2>2. /\ phase' = "shake"
          /\ Counter' = (IF client = "lsp" THEN uris ELSE ids + 1)
          /\ client' = client
      BY <1>3 DEF Start, Counter
    <2>3. Msg("initialize", ids + 1, 0) \in Own'
      BY <2>0, <2>1, <2>2 DEF Own, Keyed, Asked
    <2>4. /\ \A i \in 1..Len(inbox') : inbox'[i] = Msg("initialize", ids + 1, 0)
          /\ Len(writing') = 0
          /\ Len(pipe') = 0
      BY <1>3, <2>1, EmptyFacts, SingleFacts DEF Start, Greeting
    <2>5. OwnInv'
      BY <2>1, <2>2, <2>3, <2>4 DEF OwnInv, Asked
    <2>6. QED
      BY <1>3, <2>5 DEF Start, AInv, QueueWaits, AnswersOwnText
  <1>4. CASE StartFails
    <2>1. queue # << >> /\ End("error", 0) /\ UNCHANGED <<client, server, counter>>
      BY <1>4 DEF StartFails, Raise
    <2>2. QED
      BY <2>1, EndQueue, OwnEnd DEF AInv, Endings
  <1>5. CASE Ask
    <2> DEFINE q == Msg("ask", NextKey, result[Holder].call)
    <2>1. queue # << >> /\ NextKey \in Nat /\ Holder \in Callers
      BY <1>5, TailFacts DEF Ask, NextKey, Holder, TInv, TypeOK, Held
    <2>a. "ask" \in Kinds /\ result[Holder].call \in Nat
      BY <2>1 DEF Kinds, TInv, TypeOK
    <2>2. q \in Messages /\ q.kind = "ask" /\ q.key = NextKey /\ q.about = result[Holder].call
      BY <2>1, <2>a, MsgType
    <2>3. /\ client' = client /\ client \in {"lsp", "mcp"}
          /\ NextKey = Counter + 1 /\ Counter' = NextKey /\ want' = NextKey
          /\ UNCHANGED <<writing, pipe>>
      BY <1>5 DEF Ask, NextKey, Counter, TInv, TypeOK
    <2>4. UNCHANGED <<queue, result>>
      BY <1>5 DEF Ask
    <2>5. Own \subseteq Own' /\ q \in Own'
      <3>1. Counter \in Nat
        BY CounterType DEF TInv
      <3>2. Holder' = Holder /\ result' = result
        BY <2>4 DEF Holder
      <3>3. QED
        BY <2>2, <2>3, <3>1, <3>2 DEF Own, Keyed, Asked, Messages
    <2>6. \A i \in 1..Len(inbox') : inbox'[i] \in Own' /\ inbox'[i].kind \in {"initialize", "ask"}
      <3>1. inbox \in Seq(Messages)
        BY DEF TInv, TypeOK
      <3>2. CASE inbox' = Append(inbox, q)
        <4> HIDE DEF q
        <4>1. /\ Len(inbox') = Len(inbox) + 1 /\ Len(inbox) \in Nat
              /\ \A i \in 1..Len(inbox) : inbox'[i] = inbox[i]
              /\ inbox'[Len(inbox) + 1] = q
          BY <2>2, <3>1, <3>2, AppendFacts
        <4>2. QED
          BY <2>2, <2>5, <4>1 DEF AInv, OwnInv, Asked
      <3>3. CASE inbox' = inbox
        BY <2>5, <3>3 DEF AInv, OwnInv, Asked
      <3>4. QED
        BY <1>5, <3>2, <3>3 DEF Ask
    <2>7. OwnInv'
      BY <2>3, <2>5, <2>6 DEF AInv, OwnInv, Asked
    <2>8. QED
      BY <2>4, <2>7 DEF AInv, QueueWaits, AnswersOwnText
  <1>6. CASE Drained
    <2>1. phase = "drain" /\ queue # << >> /\ UNCHANGED <<client, inbox, writing, pipe, want, counter>>
      BY <1>6 DEF Drained, TInv, Held
    <2>2. CASE phase' = "ask" /\ UNCHANGED <<queue, inside, result>>
      <3>1. Counter' = Counter /\ Holder' = Holder
        BY <2>1, <2>2 DEF Counter, Holder
      <3>2. Own \subseteq Own'
        BY <2>1, <2>2, <3>1, OwnKept DEF Asked
      <3>3. QED
        BY <2>1, <2>2, <3>1, <3>2 DEF AInv, OwnInv, Asked, QueueWaits, AnswersOwnText
    <2>3. CASE End("error", 0)
      <3>1. pipe' = pipe /\ UNCHANGED <<client, inbox, writing, counter>>
        BY <2>1
      <3>2. OwnInv'
        BY <2>3, <3>1, OwnEnd DEF AInv
      <3>3. QED
        BY <2>1, <2>3, <3>2, EndQueue DEF AInv, Endings
    <2>4. QED
      BY <1>6, <2>2, <2>3 DEF Drained, Raise
  <1>7. QED
    BY <1>1, <1>2, <1>3, <1>4, <1>5, <1>6 DEF Enter

LEMMA AnswersHandle ==
    ASSUME TInv, AInv, NEW p \in Parts, Reads(p), Handle(Head(pipe).msg)
    PROVE  AInv'
  <1> DEFINE m == Head(pipe).msg
  <1>1. /\ Waiting /\ queue # << >> /\ pipe # << >> /\ pipe \in Seq(PipeParts)
        /\ m \in Messages
        /\ pipe' = Tail(pipe)
        /\ UNCHANGED <<client, inbox, writing, want, counter>>
    BY ReadType DEF Reads, TInv, TypeOK
  <1>2. m \in Own
    BY <1>1, TailFacts DEF AInv, OwnInv, Asked
  <1>3. /\ Counter' = Counter
        /\ \A i \in 1..Len(pipe') : pipe'[i].msg \in Own
    BY <1>1, TailFacts DEF AInv, OwnInv, Counter, counter
  <1>4. CASE UNCHANGED <<queue, phase, result>> \/ (phase' = "send" /\ UNCHANGED <<queue, result>>)
    <2>1. Own \subseteq Own'
      BY <1>1, <1>3, <1>4, OwnKept DEF Holder, Asked
    <2>2. QED
      BY <1>1, <1>3, <1>4, <2>1 DEF AInv, OwnInv, Asked, QueueWaits, AnswersOwnText
  <1>5. CASE Awaited(m) /\ phase = "ask" /\ m.kind # "request" /\ End("ok", m.about)
    <2>1. m.kind \in Keyed /\ m.key = want
      BY <1>5 DEF Awaited, Keyed, TInv, TypeOK
    <2>2. m.about = result[Holder].call /\ m.about \in Nat
      BY <1>1, <1>2, <1>5, <2>1 DEF Own, Asked, Messages
    <2>3. QueueWaits' /\ AnswersOwnText'
      BY <1>1, <1>5, <2>2, EndQueue DEF AInv, Endings
    <2>4. OwnInv'
      BY <1>1, <1>5, OwnEnd DEF AInv
    <2>5. QED
      BY <2>3, <2>4 DEF AInv
  <1>6. CASE Raise("error")
    BY <1>1, <1>6, EndQueue, OwnEnd DEF AInv, Endings, Raise
  <1>7. QED
    BY <1>4, <1>5, <1>6 DEF Handle

LEMMA AnswersReads ==
    ASSUME TInv, AInv, Read \/ Timeout
    PROVE  AInv'
  <1>1. ASSUME NEW how \in {"closed", "error"}, Waiting, Raise(how),
               pipe' = pipe \/ pipe' = << >> \/ (pipe # << >> /\ pipe' = Tail(pipe)),
               UNCHANGED <<client, inbox, writing, counter>>
        PROVE  AInv'
    BY <1>1, EndQueue, OwnEnd DEF AInv, Endings, Raise, TInv, Held, Waiting
  <1>2. CASE ReadHead
    <2>1. /\ pipe # << >> /\ pipe \in Seq(PipeParts) /\ pipe' = Tail(pipe)
          /\ UNCHANGED <<client, inbox, writing, want, counter, queue, phase, result>>
      BY <1>2 DEF ReadHead, Reads, TInv, TypeOK
    <2>2. Counter' = Counter /\ Holder' = Holder
      BY <2>1 DEF Counter, counter, Holder
    <2>3. Own \subseteq Own'
      BY <2>1, <2>2, OwnKept DEF Asked
    <2>4. \A i \in 1..Len(pipe') : pipe'[i].msg \in Own
      BY <2>1, TailFacts DEF AInv, OwnInv, Asked
    <2>5. OwnInv'
      BY <2>1, <2>2, <2>3, <2>4 DEF AInv, OwnInv, Asked
    <2>6. QED
      BY <2>1, <2>5 DEF AInv, QueueWaits, AnswersOwnText
  <1>3. CASE ReadBody
    BY <1>3, AnswersHandle DEF ReadBody, Parts
  <1>4. CASE ReadLine
    BY <1>4, AnswersHandle DEF ReadLine, Parts
  <1>5. CASE ReadFragment
    BY <1>1, <1>5 DEF ReadFragment, Reads
  <1>6. CASE ReadOutOfStep
    <2>1. /\ pipe \in Seq(PipeParts) /\ pipe # << >>
          /\ pipe' = Tail(Tail(pipe)) /\ Len(pipe) > 1
          /\ queue # << >>
          /\ End("closed", 0)
          /\ UNCHANGED <<client, inbox, writing, counter>>
      BY <1>6 DEF ReadOutOfStep, TInv, TypeOK, Held, Waiting, Raise
    <2>2. QueueWaits' /\ AnswersOwnText'
      BY <2>1, EndQueue DEF AInv, Endings
    <2>3. /\ Tail(pipe) \in Seq(PipeParts) /\ Tail(pipe) # << >>
          /\ Len(Tail(pipe)) = Len(pipe) - 1 /\ Len(pipe) \in Nat
          /\ \A i \in 1..Len(Tail(pipe)) : Tail(pipe)[i] = pipe[i + 1]
      BY <2>1, TailFacts
    <2>4. /\ Len(pipe') = Len(Tail(pipe)) - 1
          /\ \A i \in 1..Len(pipe') : pipe'[i] = Tail(pipe)[i + 1]
      BY <2>1, <2>3, TailFacts
    <2>5. \A i \in 1..Len(pipe') : pipe'[i].msg \in Own
      BY <2>3, <2>4 DEF AInv, OwnInv, Asked
    <2>6. phase' = "enter" /\ Counter' = Counter
      BY <2>1 DEF End, Counter, counter
    <2>7. Own \subseteq Own'
      BY <2>1, <2>6, OwnKept DEF Asked
    <2>8. QED
      BY <2>1, <2>2, <2>5, <2>6, <2>7 DEF AInv, OwnInv, Asked
  <1>7. CASE ReadEOF
    BY <1>1, <1>7 DEF ReadEOF
  <1>8. CASE Timeout
    BY <1>1, <1>8 DEF Timeout, TimeoutRaises, server
  <1>9. QED
    BY <1>2, <1>3, <1>4, <1>5, <1>6, <1>7, <1>8 DEF Read

LEMMA AnswersServer ==
    ASSUME TInv, AInv, Serve \/ Speak \/ Write \/ Exit \/ Reap
    PROVE  AInv'
  <1>1. /\ UNCHANGED <<client, ids, uris, queue, phase, want, result>>
        /\ inbox \in Seq(Messages) /\ writing \in Seq(PipeParts) /\ pipe \in Seq(PipeParts)
        /\ client \in {"lsp", "mcp"}
    BY DEF Serve, Speak, Write, Exit, Reap, counter, TInv, TypeOK
  <1>2. Counter' = Counter /\ Holder' = Holder
    BY <1>1 DEF Counter, Holder
  <1>3. Own \subseteq Own'
    BY <1>1, <1>2, OwnKept DEF Asked
  <1>4. ASSUME /\ \A i \in 1..Len(inbox') : inbox'[i] \in Own /\ inbox'[i].kind \in {"initialize", "ask"}
               /\ \A i \in 1..Len(writing') : writing'[i].msg \in Own
               /\ \A i \in 1..Len(pipe') : pipe'[i].msg \in Own
        PROVE  AInv'
    BY <1>1, <1>2, <1>3, <1>4 DEF AInv, OwnInv, Asked, QueueWaits, AnswersOwnText
  <1>5. CASE Serve
    <2> DEFINE m == Head(inbox)
               k == IF m.kind = "ask" /\ client = "lsp" THEN "diagnostics" ELSE "reply"
    <2>1. /\ inbox # << >> /\ pipe' = pipe
          /\ inbox' = Tail(inbox)
          /\ writing' \in Encoded(Msg(k, m.key, m.about))
      BY <1>5 DEF Serve
    <2>2. m \in Messages /\ m \in Own /\ m.kind \in {"initialize", "ask"}
      BY <1>1, <2>1, TailFacts DEF AInv, OwnInv, Asked
    <2>3. k \in Kinds /\ m.key \in Nat /\ m.about \in Nat
      BY <2>2 DEF Kinds, Messages
    <2>4. Msg(k, m.key, m.about) \in Own
      <3>1. /\ Msg(k, m.key, m.about) \in Messages
            /\ Msg(k, m.key, m.about).kind = k
            /\ Msg(k, m.key, m.about).key = m.key
            /\ Msg(k, m.key, m.about).about = m.about
        BY <2>3, MsgType
      <3>2. k \in Keyed => m.kind \in Keyed
        BY <1>1, <2>2 DEF Keyed
      <3>3. QED
        BY <2>2, <3>1, <3>2 DEF Own
    <2>5. \A i \in 1..Len(writing') : writing'[i].msg \in Own
      BY <2>1, <2>4, EncodedFacts DEF Own
    <2>6. \A i \in 1..Len(inbox') : inbox'[i] \in Own /\ inbox'[i].kind \in {"initialize", "ask"}
      BY <1>1, <2>1, TailFacts DEF AInv, OwnInv, Asked
    <2>7. QED
      BY <1>4, <2>1, <2>5, <2>6 DEF AInv, OwnInv, Asked
  <1>6. CASE Speak
    <2>1. PICK m \in Own : writing' \in Encoded(m)
      <3>1. "note" \in Kinds /\ "request" \in Kinds /\ 0 \in Nat /\ \A k \in 0..ids : k \in Nat
        BY DEF Kinds
      <3>2. /\ Msg("note", 0, 0) \in Own
            /\ \A k \in 0..ids : Msg("request", k, 0) \in Own
        BY <3>1, MsgType DEF Own, Keyed
      <3>3. QED
        BY <1>6, <3>2 DEF Speak
    <2>2. \A i \in 1..Len(writing') : writing'[i].msg \in Own
      BY <2>1, EncodedFacts DEF Own
    <2>3. QED
      BY <1>4, <1>6, <2>2 DEF Speak, AInv, OwnInv
  <1>7. CASE Write
    <2>1. /\ writing # << >> /\ writing' = Tail(writing)
          /\ pipe' = Append(pipe, Head(writing))
          /\ inbox' = inbox
      BY <1>7 DEF Write
    <2>2. /\ Head(writing) \in PipeParts /\ Head(writing).msg \in Own
          /\ \A i \in 1..Len(writing') : writing'[i].msg \in Own
      BY <1>1, <2>1, TailFacts DEF AInv, OwnInv, Asked
    <2>3. \A i \in 1..Len(pipe') : pipe'[i].msg \in Own
      <3>1. /\ Len(pipe') = Len(pipe) + 1 /\ Len(pipe) \in Nat
            /\ \A i \in 1..Len(pipe) : pipe'[i] = pipe[i]
            /\ pipe'[Len(pipe) + 1] = Head(writing)
        BY <1>1, <2>1, <2>2, AppendFacts
      <3>2. QED
        BY <2>2, <3>1 DEF AInv, OwnInv, Asked
    <2>4. QED
      BY <1>4, <2>1, <2>2, <2>3 DEF AInv, OwnInv, Asked
  <1>8. CASE Exit
    BY <1>4, <1>8, EmptyFacts DEF Exit, AInv, OwnInv
  <1>9. CASE Reap
    BY <1>4, <1>9 DEF Reap, AInv, OwnInv
  <1>10. QED
    BY <1>5, <1>6, <1>7, <1>8, <1>9

LEMMA AnswersClose ==
    ASSUME TInv, AInv, Close
    PROVE  AInv'
  <1>1. /\ queue = << >> /\ UNCHANGED <<queue, result, phase>>
        /\ inbox' = << >> /\ writing' = << >> /\ pipe' = << >>
    BY DEF Close
  <1>2. phase' = "enter"
    BY <1>1 DEF TInv, Held
  <1>3. QED
    BY <1>1, <1>2, EmptyFacts DEF AInv, OwnInv, Asked, QueueWaits, AnswersOwnText

LEMMA AnswersStep == TInv /\ AInv /\ [Next]_vars => AInv'
  <1>1. ASSUME TInv, AInv, UNCHANGED vars PROVE AInv'
    <2>1. UNCHANGED <<client, inbox, writing, pipe, queue, phase, want, ids, uris, result>>
      BY <1>1 DEF vars, server, counter
    <2>2. Counter' = Counter /\ Holder' = Holder
      BY <2>1 DEF Counter, Holder
    <2>3. Own \subseteq Own'
      BY <2>1, <2>2, OwnKept DEF Asked
    <2>4. QED
      BY <1>1, <2>1, <2>2, <2>3 DEF AInv, OwnInv, Asked, QueueWaits, AnswersOwnText
  <1>2. QED
    BY <1>1, AnswersCalls, AnswersReads, AnswersServer, AnswersClose DEF Next

\* A call returns what the server said of its own text, never a late answer
\* to a call before it (lsp_client.py:137, mcp_client.py:56).
THEOREM OwnAnswers == Spec => []AnswersOwnText
  <1>1. AInv => AnswersOwnText
    BY DEF AInv
  <1>2. QED
    BY TypeInit, TypeStep, AnswersInit, AnswersStep, <1>1, PTL DEF Spec

-----------------------------------------------------------------------------
(* Calls end in the order in which they came.                              *)

\* The calls that wait are the last ones made, and they wait in their order.
InLine ==
    /\ \A i \in 1..Len(queue) : result[queue[i]].call = calls - Len(queue) + i
    /\ \A c \in Callers : result[c].state = "waiting" => \E i \in 1..Len(queue) : queue[i] = c

\* The call at the head of the queue ends, in one of the ways the code knows.
HeadEnds ==
    /\ queue # << >>
    /\ calls' = calls
    /\ \/ \E about \in Nat : End("ok", about)
       \/ Raise("closed")
       \/ Raise("error")

\* Whatever is done beside it, a step adds a call, ends the first one, or
\* leaves the queue as it is.
LEMMA QueueSteps ==
    ASSUME TInv, [Next]_vars
    PROVE  \/ \E c \in Callers : Call(c)
           \/ HeadEnds
           \/ UNCHANGED <<calls, queue, result>>
  <1> USE DEF counter, server
  <1>1. CASE Enter \/ Ask \/ Drained
    BY <1>1 DEF Enter, Reuse, Start, StartFails, Ask, Drained, HeadEnds, TInv, Held
  <1>2. ASSUME NEW p \in Parts, Reads(p), Handle(Head(pipe).msg)
        PROVE  HeadEnds \/ UNCHANGED <<calls, queue, result>>
    <2>1. queue # << >> /\ Head(pipe).msg \in Messages /\ calls' = calls
      BY <1>2, ReadType
    <2>2. Head(pipe).msg.about \in Nat
      BY <2>1 DEF Messages
    <2>3. QED
      BY <1>2, <2>1, <2>2 DEF Handle, HeadEnds
  <1>3. CASE ReadHead
    BY <1>3, ReadType DEF ReadHead, Parts
  <1>4. CASE ReadBody \/ ReadLine
    BY <1>2, <1>4 DEF ReadBody, ReadLine, Parts
  <1>5. CASE ReadFragment
    BY <1>5, ReadType DEF ReadFragment, Parts, HeadEnds
  <1>6. CASE ReadOutOfStep \/ ReadEOF \/ Timeout
    BY <1>6 DEF ReadOutOfStep, ReadEOF, Timeout, TimeoutRaises, Waiting, HeadEnds, TInv, Held
  <1>7. CASE Close \/ Serve \/ Speak \/ Write \/ Exit \/ Reap
    BY <1>7 DEF Close, Serve, Speak, Write, Exit, Reap
  <1>8. CASE UNCHANGED vars
    BY <1>8 DEF vars
  <1>9. QED
    BY <1>1, <1>3, <1>4, <1>5, <1>6, <1>7, <1>8 DEF Next, Read

\* A call joins behind the others.
LEMMA JoinsLine ==
    ASSUME TInv, QueueWaits, InLine, NEW c \in Callers, Call(c)
    PROVE  InLine' /\ Service!Submit(c)
  <1>1. /\ queue \in Seq(Callers) /\ queue' = Append(queue, c) /\ Len(queue) \in Nat
        /\ calls \in Nat /\ calls' = calls + 1
    BY DEF TInv, TypeOK, Call
  <1>2. /\ Len(queue') = Len(queue) + 1
        /\ queue'[Len(queue) + 1] = c
        /\ \A i \in 1..Len(queue) : queue'[i] = queue[i] /\ queue[i] \in Callers
    BY <1>1, AppendFacts
  <1>3. /\ result'[c] = [state |-> "waiting", call |-> calls + 1, about |-> 0]
        /\ \A d \in Callers : d # c => result'[d] = result[d]
    BY DEF TInv, TypeOK, Call
  <1>4. \A i \in 1..Len(queue) : queue[i] # c
    BY DEF QueueWaits, Call
  <1>5. \A i \in 1..Len(queue') : result'[queue'[i]].call = calls' - Len(queue') + i
    <2> TAKE i \in 1..Len(queue')
    <2>1. CASE i \in 1..Len(queue)
      <3>1. result'[queue'[i]].call = calls - Len(queue) + i
        BY <1>2, <1>3, <1>4, <2>1 DEF InLine
      <3>2. QED
        BY <1>1, <1>2, <2>1, <3>1
    <2>2. CASE i = Len(queue) + 1
      BY <1>1, <1>2, <1>3, <2>2
    <2>3. QED
      BY <1>1, <1>2, <2>1, <2>2
  <1>6. \A d \in Callers : result'[d].state = "waiting" => \E i \in 1..Len(queue') : queue'[i] = d
    <2> SUFFICES ASSUME NEW d \in Callers, result'[d].state = "waiting"
                 PROVE  \E i \in 1..Len(queue') : queue'[i] = d
      OBVIOUS
    <2>1. CASE d = c
      BY <1>1, <1>2, <2>1
    <2>2. CASE d # c
      <3>1. PICK i \in 1..Len(queue) : queue[i] = d
        BY <1>3, <2>2 DEF InLine
      <3>2. QED
        BY <1>1, <1>2, <3>1
    <2>3. QED
      BY <2>1, <2>2
  <1>7. (calls - Len(queue))' = calls - Len(queue)
    BY <1>1, <1>2
  <1>8. QED
    BY <1>5, <1>6, <1>7 DEF InLine, Service!Submit, Service!Waits, Call

\* The first call in the line is the oldest that has not ended.
LEMMA LeavesLine ==
    ASSUME TInv, QueueWaits, InLine, HeadEnds, AnswersOwnText'
    PROVE  InLine' /\ \E c \in Callers : Service!Return(c) \/ Service!Raise(c)
  <1>1. /\ queue \in Seq(Callers) /\ Holder = queue[1] /\ Holder \in Callers
        /\ Len(queue) \in Nat \ {0}
        /\ Len(Tail(queue)) = Len(queue) - 1
        /\ \A i \in 1..Len(Tail(queue)) : Tail(queue)[i] = queue[i + 1]
    BY TailFacts DEF TInv, TypeOK, Holder, HeadEnds
  <1>2. PICK how \in Endings, about \in Nat : /\ End(how, about)
                                              /\ how # "ok" => about = 0
    BY DEF HeadEnds, Raise, Endings
  <1>3. /\ queue' = Tail(queue)
        /\ result' = [result EXCEPT ![Holder].state = how, ![Holder].about = about]
    BY <1>2 DEF End
  <1>4. /\ result'[Holder].state = how
        /\ result'[Holder].about = about
        /\ result'[Holder].call = result[Holder].call
        /\ \A c \in Callers : c # Holder => result'[c] = result[c]
    BY <1>1, <1>3 DEF TInv, TypeOK
  <1>5. calls \in Nat /\ calls' = calls
    BY DEF TInv, TypeOK, HeadEnds
  <1>6. \A i \in 1..Len(queue') : /\ queue'[i] = queue[i + 1]
                                  /\ i + 1 \in 1..Len(queue)
                                  /\ i + 1 # 1
    BY <1>1, <1>3
  <1>7. \A i \in 1..Len(queue) : queue[i] \in Callers /\ result[queue[i]].call \in Nat
    BY <1>1 DEF TInv, TypeOK
  <1>8. \A i \in 1..Len(queue') : result'[queue'[i]].call = calls' - Len(queue') + i
    <2> TAKE i \in 1..Len(queue')
    <2>1. queue[i + 1] # Holder
      BY <1>1, <1>6 DEF QueueWaits
    <2>2. result'[queue'[i]].call = result[queue[i + 1]].call
      BY <1>4, <1>6, <1>7, <2>1
    <2>3. result[queue[i + 1]].call = calls - Len(queue) + (i + 1)
      BY <1>6 DEF InLine
    <2>4. Len(queue') = Len(queue) - 1 /\ i \in Nat
      BY <1>1, <1>3
    <2>5. QED
      BY <1>1, <1>5, <2>2, <2>3, <2>4
  <1>9. \A d \in Callers : result'[d].state = "waiting" => \E i \in 1..Len(queue') : queue'[i] = d
    <2> SUFFICES ASSUME NEW d \in Callers, result'[d].state = "waiting"
                 PROVE  \E i \in 1..Len(queue') : queue'[i] = d
      OBVIOUS
    <2>1. d # Holder
      BY <1>2, <1>4 DEF Endings
    <2>2. PICK i \in 1..Len(queue) : queue[i] = d
      BY <1>4, <2>1 DEF InLine
    <2>3. i \in Nat /\ i # 1
      BY <1>1, <2>1, <2>2
    <2>4. i - 1 \in 1..Len(queue') /\ (i - 1) + 1 = i
      BY <1>1, <1>3, <2>2, <2>3
    <2>5. QED
      BY <1>6, <2>2, <2>4
  <1>10. /\ result[Holder].state = "waiting"
         /\ result[Holder].call = (calls - Len(queue)) + 1
    BY <1>1, <1>5 DEF QueueWaits, InLine
  <1>11. (calls - Len(queue))' = (calls - Len(queue)) + 1
    BY <1>1, <1>3, <1>5
  <1>12. how = "ok" => about = result[Holder].call
    BY <1>1, <1>4 DEF AnswersOwnText
  <1>13. Service!Conclude(Holder, how, about)
    BY <1>3, <1>5, <1>10, <1>11 DEF Service!Conclude, Service!Waits
  <1>14. Service!Return(Holder) \/ Service!Raise(Holder)
    BY <1>2, <1>12, <1>13 DEF Service!Return, Service!Raise, Endings
  <1>15. QED
    BY <1>1, <1>8, <1>9, <1>14 DEF InLine

LEMMA LineStep == TInv /\ AInv /\ AInv' /\ InLine /\ [Next]_vars
                    => InLine' /\ [Service!Next]_(Service!vars)
  <1> SUFFICES ASSUME TInv, AInv, AInv', InLine, [Next]_vars
               PROVE  InLine' /\ (Service!Next \/ UNCHANGED <<calls, calls - Len(queue), result>>)
    BY DEF Service!vars
  <1>1. QueueWaits /\ AnswersOwnText'
    BY DEF AInv
  <1>2. CASE \E c \in Callers : Call(c)
    BY <1>1, <1>2, JoinsLine DEF Service!Next
  <1>3. CASE HeadEnds
    BY <1>1, <1>3, LeavesLine DEF Service!Next
  <1>4. CASE UNCHANGED <<calls, queue, result>>
    BY <1>4 DEF InLine
  <1>5. QED
    BY <1>2, <1>3, <1>4, QueueSteps

(***************************************************************************)
(* The asyncio lock and the one reader it leaves make a client a queue:    *)
(* its calls end in the order in which they came, each once, with its own  *)
(* answer or with an exception (lsp_client.py:108, mcp_client.py:83).       *)
(***************************************************************************)
THEOREM ImplementsCallQueue == Spec => Service!Spec
  <1>1. Init => InLine /\ Service!Init
    <2> SUFFICES ASSUME Init PROVE InLine /\ Service!Init
      OBVIOUS
    <2>1. Len(queue) = 0 /\ calls = 0
      BY EmptyFacts DEF Init
    <2>2. calls - Len(queue) = 0 /\ 1..Len(queue) = {}
      BY <2>1
    <2>3. QED
      BY <2>1, <2>2 DEF Init, InLine, Service!Init
  <1>2. QED
    BY TypeInit, TypeStep, AnswersInit, AnswersStep, LineStep, <1>1, PTL DEF Spec, Service!Spec

-----------------------------------------------------------------------------
(* Initialize is read first.                                               *)

GreetingAhead ==
    proc = "alive" => greeted \/ (inbox # << >> /\ Head(inbox).kind = "initialize")

LEMMA GreetingStep == TInv /\ GreetingAhead /\ [Next]_vars => GreetingAhead'
  <1> SUFFICES ASSUME TInv, GreetingAhead, [Next]_vars PROVE GreetingAhead'
    OBVIOUS
  <1>t. inbox \in Seq(Messages)
    BY DEF TInv, TypeOK
  <1>1. ASSUME UNCHANGED <<proc, greeted, inbox>> PROVE GreetingAhead'
    BY <1>1 DEF GreetingAhead
  <1>2. ASSUME proc' # "alive" PROVE GreetingAhead'
    BY <1>2 DEF GreetingAhead
  <1>3. CASE Start
    <2>1. Head(inbox') = Msg("initialize", ids + 1, 0) /\ inbox' # << >>
      BY <1>3 DEF Start, Greeting
    <2>2. QED
      BY <2>1 DEF GreetingAhead, Msg
  <1>4. CASE Ask
    <2>1. inbox # << >> => \A m : LET s == Append(inbox, m) IN s # << >> /\ Head(s) = Head(inbox)
      BY <1>t
    <2>2. inbox' = Append(inbox, Msg("ask", NextKey, result[Holder].call)) \/ inbox' = inbox
      BY <1>4 DEF Ask
    <2>3. QED
      BY <1>4, <2>1, <2>2 DEF Ask, GreetingAhead
  <1>5. CASE Serve
    BY <1>5 DEF Serve, GreetingAhead
  <1>6. CASE \E c \in Callers : Call(c)
    BY <1>1, <1>6 DEF Call, server
  <1>7. CASE Reuse \/ StartFails \/ Drained \/ Timeout
    BY <1>1, <1>7 DEF Reuse, StartFails, Drained, Timeout, server
  <1>8. CASE Read
    BY <1>1, <1>8 DEF Read, ReadHead, ReadBody, ReadLine, ReadFragment, ReadOutOfStep, ReadEOF, Reads
  <1>9. CASE Close \/ Exit \/ Reap
    BY <1>2, <1>9 DEF Close, Exit, Reap
  <1>10. CASE Speak \/ Write
    BY <1>1, <1>10 DEF Speak, Write
  <1>11. CASE UNCHANGED vars
    BY <1>1, <1>11 DEF vars, server
  <1>12. QED
    BY <1>3, <1>4, <1>5, <1>6, <1>7, <1>8, <1>9, <1>10, <1>11 DEF Next, Enter

\* The server reads initialize before any question, also when the handshake
\* failed and was not repeated (lsp_client.py:31-42).
THEOREM GreetedFirst == Spec => []InitialisedFirst
  <1>1. Init => GreetingAhead
    BY DEF Init, GreetingAhead
  <1>2. GreetingAhead => InitialisedFirst
    BY DEF GreetingAhead, InitialisedFirst
  <1>3. QED
    BY TypeInit, TypeStep, GreetingStep, <1>1, <1>2, PTL DEF Spec

-----------------------------------------------------------------------------
(* The reader of an uncut pipe is in step with it.                         *)

\* The part expected i-th, by a reader inside a message or not.
Expected(b, i) == IF (i % 2 = 1) = b THEN "body" ELSE "head"

\* What is in the pipe and what is still to be written alternate, and the next
\* message begins with a header.
Aligned ==
    /\ \A i \in 1..Len(pipe) : pipe[i].part = Expected(inside, i)
    /\ Len(writing) <= 2
    /\ \A i \in 1..Len(writing) : writing[i].part = Expected(inside, Len(pipe) + i)
    /\ Expected(inside, Len(pipe) + Len(writing) + 1) = "head"

InStep == client = "lsp" /\ proc = "alive" /\ ~cut => Aligned

NoHeads ==
    client # "lsp" =>
        /\ \A i \in 1..Len(pipe) : pipe[i].part \notin {"head", "body"}
        /\ \A i \in 1..Len(writing) : writing[i].part \notin {"head", "body"}

CInv == (inside => Waiting) /\ InStep /\ NoHeads

LEMMA Alternates ==
    ASSUME NEW i \in Nat, NEW b \in BOOLEAN
    PROVE  /\ Expected(b, i) \in {"head", "body"}
           /\ Expected(b, i + 1) = "head" <=> Expected(b, i) = "body"
           /\ Expected(~b, i) = Expected(b, i + 1)
  <1>1. i % 2 \in {0, 1} /\ ((i + 1) % 2 = 1 <=> i % 2 = 0)
    OBVIOUS
  <1>2. QED
    BY <1>1 DEF Expected

LEMMA FirstExpected == Expected(FALSE, 1) = "head" /\ Expected(TRUE, 1) = "body"
  <1>1. 1 % 2 = 1
    OBVIOUS
  <1>2. QED
    BY <1>1 DEF Expected

\* Reading the first part turns the reader to the other kind of part.
LEMMA AlignedRead ==
    ASSUME TInv, Aligned, pipe # << >>, pipe' = Tail(pipe), writing' = writing, inside' = ~inside
    PROVE  Aligned'
  <1>1. /\ Len(pipe) \in Nat \ {0} /\ Len(pipe') = Len(pipe) - 1
        /\ \A i \in 1..Len(pipe') : pipe'[i] = pipe[i + 1] /\ i + 1 \in 1..Len(pipe)
        /\ Len(writing) \in Nat
    BY TailFacts DEF TInv, TypeOK
  <1>2. \A i \in Nat : Expected(inside', i) = Expected(inside, i + 1)
    BY Alternates DEF TInv, TypeOK
  <1>3. \A i \in 1..Len(pipe') : pipe'[i].part = Expected(inside', i)
    <2> SUFFICES ASSUME NEW i \in 1..Len(pipe') PROVE pipe'[i].part = Expected(inside', i)
      OBVIOUS
    <2>1. pipe'[i].part = Expected(inside, i + 1)
      BY <1>1 DEF Aligned
    <2>2. i \in Nat
      OBVIOUS
    <2>3. QED
      BY <1>2, <2>1, <2>2
  <1>4. \A i \in 1..Len(writing) : Expected(inside', Len(pipe') + i) = Expected(inside, Len(pipe) + i)
    <2> SUFFICES ASSUME NEW i \in 1..Len(writing)
                 PROVE  Expected(inside', Len(pipe') + i) = Expected(inside, Len(pipe) + i)
      OBVIOUS
    <2>1. Len(pipe') + i \in Nat /\ (Len(pipe') + i) + 1 = Len(pipe) + i
      BY <1>1
    <2>2. QED
      BY <1>2, <2>1
  <1>5. Expected(inside', Len(pipe') + Len(writing) + 1) = Expected(inside, Len(pipe) + Len(writing) + 1)
    <2>1. /\ Len(pipe') + Len(writing) + 1 \in Nat
          /\ (Len(pipe') + Len(writing) + 1) + 1 = Len(pipe) + Len(writing) + 1
      BY <1>1
    <2>2. QED
      BY <1>2, <2>1
  <1>6. QED
    BY <1>3, <1>4, <1>5 DEF Aligned

LEMMA AlignedWrite ==
    ASSUME TInv, Aligned, Write, inside' = inside
    PROVE  Aligned'
  <1>1. /\ pipe \in Seq(PipeParts) /\ writing \in Seq(PipeParts) /\ writing # << >>
        /\ pipe' = Append(pipe, Head(writing)) /\ writing' = Tail(writing)
    BY DEF Write, TInv, TypeOK
  <1>2. /\ Len(writing) \in Nat \ {0} /\ Head(writing) = writing[1] /\ Head(writing) \in PipeParts
        /\ Len(writing') = Len(writing) - 1
        /\ \A i \in 1..Len(writing') : writing'[i] = writing[i + 1] /\ i + 1 \in 1..Len(writing)
    BY <1>1, TailFacts
  <1>3. /\ Len(pipe) \in Nat /\ Len(pipe') = Len(pipe) + 1
        /\ \A i \in 1..Len(pipe) : pipe'[i] = pipe[i]
        /\ pipe'[Len(pipe) + 1] = writing[1]
    BY <1>1, <1>2, AppendFacts
  <1>4. \A i \in Nat : Expected(inside', i) = Expected(inside, i)
    BY Alternates DEF TInv, TypeOK
  <1>5. \A i \in 1..Len(pipe') : pipe'[i].part = Expected(inside', i)
    <2>1. writing[1].part = Expected(inside, Len(pipe) + 1)
      BY <1>2 DEF Aligned
    <2>2. QED
      BY <1>3, <1>4, <2>1 DEF Aligned
  <1>6. \A i \in 1..Len(writing') : writing'[i].part = Expected(inside', Len(pipe') + i)
    <2> SUFFICES ASSUME NEW i \in 1..Len(writing')
                 PROVE  writing'[i].part = Expected(inside', Len(pipe') + i)
      OBVIOUS
    <2>1. Len(pipe') + i \in Nat /\ Len(pipe') + i = Len(pipe) + (i + 1)
      BY <1>2, <1>3
    <2>2. writing'[i].part = Expected(inside, Len(pipe) + (i + 1))
      BY <1>2 DEF Aligned
    <2>3. QED
      BY <1>4, <2>1, <2>2
  <1>7. Expected(inside', Len(pipe') + Len(writing') + 1) = "head"
    <2>1. /\ Len(pipe') + Len(writing') + 1 \in Nat
          /\ Len(pipe') + Len(writing') + 1 = Len(pipe) + Len(writing) + 1
      BY <1>2, <1>3
    <2>2. QED
      BY <1>4, <2>1 DEF Aligned
  <1>8. QED
    BY <1>2, <1>5, <1>6, <1>7 DEF Aligned

LEMMA AlignedSpeech ==
    ASSUME TInv, Aligned, writing = << >>, pipe' = pipe, inside' = inside,
           Len(writing') = 2, writing'[1].part = "head", writing'[2].part = "body"
    PROVE  Aligned'
  <1>1. Len(pipe) \in Nat /\ Len(writing) = 0
    BY EmptyFacts DEF TInv, TypeOK
  <1>2. \A i \in Nat : Expected(inside', i) = Expected(inside, i)
    BY Alternates DEF TInv, TypeOK
  <1>3. Expected(inside, Len(pipe) + 1) = "head"
    <2>1. Len(pipe) + Len(writing) + 1 = Len(pipe) + 1
      BY <1>1
    <2>2. QED
      BY <2>1 DEF Aligned
  <1>4. Expected(inside, Len(pipe) + 2) = "body" /\ Expected(inside, Len(pipe) + 3) = "head"
    <2>1. /\ Len(pipe) + 1 \in Nat /\ Len(pipe) + 2 \in Nat
          /\ (Len(pipe) + 1) + 1 = Len(pipe) + 2 /\ (Len(pipe) + 2) + 1 = Len(pipe) + 3
      BY <1>1
    <2>2. inside \in BOOLEAN
      BY DEF TInv, TypeOK
    <2>3. Expected(inside, (Len(pipe) + 1) + 1) = "body"
      <3>1. Expected(inside, (Len(pipe) + 1) + 1) \in {"head", "body"}
        BY <2>1, <2>2, Alternates
      <3>2. Expected(inside, (Len(pipe) + 1) + 1) # "head"
        BY <1>3, <2>1, <2>2, Alternates
      <3>3. QED
        BY <3>1, <3>2
    <2>4. Expected(inside, Len(pipe) + 2) = "body"
      BY <2>1, <2>3
    <2>5. Expected(inside, (Len(pipe) + 2) + 1) = "head"
      BY <2>1, <2>2, <2>4, Alternates
    <2>6. QED
      BY <2>1, <2>4, <2>5
  <1>5. \A i \in 1..Len(writing') : i = 1 \/ i = 2
    OBVIOUS
  <1>6. \A i \in 1..Len(writing') : writing'[i].part = Expected(inside, Len(pipe) + i)
    BY <1>3, <1>4, <1>5
  <1>7. /\ \A i \in 1..2 : Len(pipe) + i \in Nat
        /\ Len(pipe) + Len(writing') + 1 = Len(pipe) + 3 /\ Len(pipe) + 3 \in Nat
        /\ \A i \in 1..Len(pipe) : i \in Nat
    BY <1>1
  <1>8. QED
    BY <1>2, <1>4, <1>6, <1>7 DEF Aligned

LEMMA NoHeadsStep == TInv /\ NoHeads /\ [Next]_vars => NoHeads'
  <1> SUFFICES ASSUME TInv, NoHeads, [Next]_vars, client # "lsp" PROVE NoHeads'
    BY DEF NoHeads, Next, Call, Enter, Reuse, Start, StartFails, Ask, Drained, Read, ReadHead,
           ReadBody, ReadLine, ReadFragment, ReadOutOfStep, ReadEOF, Reads, Timeout, Close, Serve,
           Speak, Write, Exit, Reap, vars
  <1>t. pipe \in Seq(PipeParts) /\ writing \in Seq(PipeParts)
    BY DEF TInv, TypeOK
  <1> DEFINE Free(s) == \A i \in 1..Len(s) : s[i].part \notin {"head", "body"}
  <1>f. Free(pipe) /\ Free(writing)
    BY DEF NoHeads
  <1>e. Free(<< >>)
    BY EmptyFacts
  <1>p. ASSUME NEW s \in Seq(PipeParts), Free(s), s # << >>
        PROVE  Free(Tail(s)) /\ Tail(s) \in Seq(PipeParts) /\ s[1].part \notin {"head", "body"}
    BY <1>p, TailFacts
  <1>1. ASSUME Free(pipe'), Free(writing') PROVE NoHeads'
    BY <1>1 DEF NoHeads
  <1>2. CASE UNCHANGED <<pipe, writing>>
    BY <1>1, <1>2, <1>f
  <1>3. CASE Start \/ Close
    BY <1>1, <1>3, <1>e DEF Start, Close
  <1>4. CASE Read
    <2>1. UNCHANGED writing
      BY <1>4 DEF Read, ReadHead, ReadBody, ReadLine, ReadFragment, ReadOutOfStep, ReadEOF, Reads
    <2>2. CASE pipe # << >> /\ pipe' = Tail(pipe)
      BY <1>1, <1>f, <1>p, <1>t, <2>1, <2>2
    <2>3. CASE ReadEOF
      BY <1>1, <1>f, <1>e, <2>1, <2>3 DEF ReadEOF
    <2>4. CASE ReadOutOfStep
      <3>1. pipe # << >> /\ Head(pipe) = pipe[1] /\ Head(pipe).part = "body"
        BY <1>t, <2>4, EmptyFacts, TailFacts DEF ReadOutOfStep
      <3>2. QED
        BY <1>f, <1>p, <1>t, <3>1
    <2>5. QED
      BY <1>4, <2>2, <2>3, <2>4 DEF Read, ReadHead, ReadBody, ReadLine, ReadFragment, Reads
  <1>5. CASE Serve \/ Speak
    <2>1. PICK m \in Messages : writing' \in Encoded(m)
      <3>1. CASE Serve
        <4> DEFINE m == Head(inbox)
                   k == IF m.kind = "ask" /\ client = "lsp" THEN "diagnostics" ELSE "reply"
        <4>1. m \in Messages
          BY <3>1, TailFacts DEF Serve, TInv, TypeOK
        <4>2. k \in Kinds /\ m.key \in Nat /\ m.about \in Nat
          BY <4>1 DEF Kinds, Messages
        <4>3. Msg(k, m.key, m.about) \in Messages
          BY <4>2, MsgType
        <4>4. QED
          BY <3>1, <4>3 DEF Serve
      <3>2. CASE Speak
        <4>1. "note" \in Kinds /\ "request" \in Kinds /\ 0 \in Nat /\ \A k \in 0..ids : k \in Nat
          BY DEF Kinds
        <4>2. QED
          BY <3>2, <4>1, MsgType DEF Speak
      <3>3. QED
        BY <1>5, <3>1, <3>2
    <2>2. Free(writing')
      BY <2>1, EncodedFacts
    <2>3. QED
      BY <1>1, <1>5, <1>f, <2>2 DEF Serve, Speak
  <1>6. CASE Write
    <2>1. /\ writing # << >> /\ pipe' = Append(pipe, Head(writing)) /\ writing' = Tail(writing)
      BY <1>6 DEF Write
    <2>2. Head(writing) = writing[1] /\ Head(writing) \in PipeParts
      BY <1>t, <2>1, TailFacts
    <2>3. Head(writing).part \notin {"head", "body"}
      BY <1>f, <1>p, <1>t, <2>1, <2>2
    <2>4. /\ Len(pipe') = Len(pipe) + 1 /\ Len(pipe) \in Nat
          /\ \A i \in 1..Len(pipe) : pipe'[i] = pipe[i]
          /\ pipe'[Len(pipe) + 1] = Head(writing)
      BY <1>t, <2>1, <2>2, AppendFacts
    <2>5. Free(pipe')
      BY <1>f, <2>3, <2>4
    <2>6. QED
      BY <1>1, <1>f, <1>p, <1>t, <2>1, <2>5
  <1>7. CASE Exit
    BY <1>1, <1>7, <1>e, <1>f DEF Exit
  <1>8. QED
    BY <1>2, <1>3, <1>4, <1>5, <1>6, <1>7 DEF Next, Enter, Call, Reuse, StartFails, Ask, Drained,
       Timeout, Reap, server, vars

LEMMA InsideStep == TInv /\ (inside => Waiting) /\ [Next]_vars => (inside => Waiting)'
  <1> SUFFICES ASSUME TInv, inside => Waiting, [Next]_vars PROVE (inside => Waiting)'
    OBVIOUS
  <1>1. CASE UNCHANGED <<inside, phase>>
    BY <1>1 DEF Waiting
  <1>2. CASE inside' = FALSE
    BY <1>2
  <1>3. CASE ReadHead
    BY <1>3 DEF ReadHead, Reads, Waiting
  <1>4. CASE Reuse \/ Start \/ Ask \/ Drained
    BY <1>2, <1>4 DEF Reuse, Start, Ask, Drained, Waiting, Raise, End, TInv, TypeOK
  <1>5. QED
    BY <1>1, <1>2, <1>3, <1>4
    DEF Next, Enter, Call, StartFails, Read, ReadBody, ReadLine, ReadFragment, ReadOutOfStep,
        ReadEOF, Handle, Timeout, Close, Serve, Speak, Write, Exit, Reap, Raise, End, vars

\* Every step keeps an uncut pipe in step with its reader.
LEMMA InStepStep == TInv /\ CInv /\ [Next]_vars => InStep'
  <1> SUFFICES ASSUME TInv, CInv, [Next]_vars,
                      client' = "lsp", proc' = "alive", ~cut'
               PROVE  Aligned'
    BY DEF InStep
  <1>t. /\ pipe \in Seq(PipeParts) /\ writing \in Seq(PipeParts) /\ inside \in BOOLEAN
        /\ cut \in BOOLEAN /\ inbox \in Seq(Messages)
    BY DEF TInv, TypeOK
  <1>1. CASE Start
    <2>1. /\ Len(pipe') = 0 /\ Len(writing') = 0 /\ inside' = inside /\ phase = "enter"
      BY <1>1, EmptyFacts DEF Start
    <2>2. inside' = FALSE
      BY <1>t, <2>1 DEF CInv, Waiting
    <2>3. Len(pipe') + Len(writing') + 1 = 1
      BY <2>1
    <2>4. Expected(inside', Len(pipe') + Len(writing') + 1) = "head"
      BY <2>2, <2>3, FirstExpected
    <2>5. Len(writing') <= 2 /\ 1..Len(pipe') = {} /\ 1..Len(writing') = {}
      BY <2>1
    <2>6. QED
      BY <2>4, <2>5 DEF Aligned
  <1>2. CASE ~Start
    <2>1. client = "lsp" /\ proc = "alive" /\ ~cut
      BY <1>2, <1>t DEF Next, Enter, Call, Reuse, StartFails, Ask, Drained, Read, ReadHead,
           ReadBody, ReadLine, ReadFragment, ReadOutOfStep, ReadEOF, Reads, Timeout, Close, Serve,
           Speak, Write, Exit, Reap, vars, server, counter
    <2>2. Aligned
      BY <2>1 DEF CInv, InStep
    <2>3. pipe # << >> => Head(pipe).part = Expected(inside, 1)
      BY <1>t, <2>2, TailFacts DEF Aligned
    <2>4. CASE UNCHANGED <<pipe, writing, inside>>
      BY <2>2, <2>4 DEF Aligned
    <2>5. CASE Read
      <3>1. ~ReadEOF
        BY <2>1 DEF ReadEOF
      <3>2. ~ReadOutOfStep
        <4>1. ~ReadOutOfStep \/ pipe # << >>
          BY <1>t, EmptyFacts DEF ReadOutOfStep
        <4>2. QED
          BY <1>t, <2>3, <4>1, FirstExpected DEF ReadOutOfStep
      <3>3. ASSUME NEW p, Reads(p) PROVE p \in {"head", "body"}
        BY <1>t, <2>3, <3>3, FirstExpected DEF Reads
      <3>4. ~ReadLine /\ ~ReadFragment
        BY <3>3 DEF ReadLine, ReadFragment
      <3>5. CASE ReadHead
        BY <1>t, <2>2, <3>5, AlignedRead DEF ReadHead, Reads
      <3>6. CASE ReadBody
        <4>1. inside' = FALSE
          BY <3>6 DEF ReadBody, Handle, Raise, End
        <4>2. QED
          BY <1>t, <2>2, <3>6, <4>1, AlignedRead DEF ReadBody, Reads
      <3>7. QED
        BY <2>5, <3>1, <3>2, <3>4, <3>5, <3>6 DEF Read
    <2>6. CASE Serve \/ Speak
      <3>1. PICK m \in Messages : writing' \in Encoded(m)
        <4>1. CASE Serve
          <5> DEFINE m == Head(inbox)
                     k == IF m.kind = "ask" /\ client = "lsp" THEN "diagnostics" ELSE "reply"
          <5>1. m \in Messages
            BY <1>t, <4>1, TailFacts DEF Serve
          <5>2. k \in Kinds /\ m.key \in Nat /\ m.about \in Nat
            BY <5>1 DEF Kinds, Messages
          <5>3. Msg(k, m.key, m.about) \in Messages
            BY <5>2, MsgType
          <5>4. QED
            BY <4>1, <5>3 DEF Serve
        <4>2. CASE Speak
          <5>1. "note" \in Kinds /\ "request" \in Kinds /\ 0 \in Nat /\ \A k \in 0..ids : k \in Nat
            BY DEF Kinds
          <5>2. QED
            BY <4>2, <5>1, MsgType DEF Speak
        <4>3. QED
          BY <2>6, <4>1, <4>2
      <3>2. Len(writing') = 2 /\ writing'[1].part = "head" /\ writing'[2].part = "body"
        BY <2>1, <3>1, EncodedFacts
      <3>3. writing = << >> /\ pipe' = pipe /\ inside' = inside
        BY <2>6 DEF Serve, Speak
      <3>4. QED
        BY <2>2, <3>2, <3>3, AlignedSpeech
    <2>7. CASE Write
      BY <2>2, <2>7, AlignedWrite DEF Write
    <2>8. CASE StartFails \/ Ask \/ Drained \/ Timeout
      <3>1. UNCHANGED <<pipe, writing>> /\ inside' \in {inside, FALSE}
        BY <2>8 DEF StartFails, Ask, Drained, Timeout, Raise, End, server
      <3>2. inside = FALSE \/ inside' = inside
        <4>1. CASE StartFails \/ Ask \/ Drained
          BY <1>t, <4>1 DEF StartFails, Ask, Drained, CInv, Waiting
        <4>2. CASE Timeout
          BY <1>t, <2>1, <4>2 DEF Timeout
        <4>3. QED
          BY <2>8, <4>1, <4>2
      <3>3. QED
        BY <2>4, <3>1, <3>2
    <2>9. CASE Close \/ Exit
      BY <2>9 DEF Close, Exit
    <2>10. QED
      BY <1>2, <2>4, <2>5, <2>6, <2>7, <2>8, <2>9 DEF Next, Enter, Call, Reuse, Reap, vars, server
  <1>3. QED
    BY <1>1, <1>2

\* The client says that the server closed the connection only of a server that
\* exited, or of one a timeout had put it out of step with (lsp_client.py:132).
THEOREM ClosedTruly == Spec => ClosedIsTrue
  <1>1. Init => CInv
    BY EmptyFacts DEF Init, CInv, InStep, NoHeads
  <1>2. TInv /\ CInv /\ [Next]_vars => CInv'
    BY InsideStep, InStepStep, NoHeadsStep DEF CInv
  <1>3. TInv /\ CInv /\ [Next]_vars =>
          [\A c \in Callers :
              result[c].state = "waiting" /\ result'[c].state = "closed"
                => proc # "alive" \/ cut]_vars
    <2> SUFFICES ASSUME TInv, CInv, Next, NEW c \in Callers,
                        result[c].state = "waiting", result'[c].state = "closed",
                        proc = "alive", cut = FALSE
                 PROVE  FALSE
      BY DEF TInv, TypeOK
    <2>1. ASSUME NEW how \in {"ok", "error"}, NEW about, queue # << >>, End(how, about) PROVE FALSE
      <3>1. Holder \in Callers
        BY <2>1, TailFacts DEF Holder, TInv, TypeOK
      <3>2. QED
        BY <2>1, <3>1 DEF End, TInv, TypeOK
    <2>2. CASE ReadOutOfStep
      <3>1. /\ pipe # << >> /\ Head(pipe) = pipe[1] /\ ~inside /\ Head(pipe).part = "body"
            /\ Len(pipe) \in Nat \ {0}
        BY <2>2, EmptyFacts, TailFacts DEF ReadOutOfStep, TInv, TypeOK
      <3>2. CASE client = "lsp"
        <4>1. Head(pipe).part = Expected(inside, 1)
          BY <3>1, <3>2 DEF CInv, InStep, Aligned
        <4>2. inside = FALSE
          BY <3>1
        <4>3. QED
          BY <3>1, <4>1, <4>2, FirstExpected
      <3>3. CASE client # "lsp"
        BY <3>1, <3>3 DEF CInv, NoHeads
      <3>4. QED
        BY <3>2, <3>3
    <2>3. CASE UNCHANGED result
      BY <2>3
    <2>4. CASE \E d \in Callers : Call(d)
      BY <2>4 DEF Call, TInv, TypeOK
    <2>5. CASE Enter \/ Ask \/ Drained
      BY <2>1, <2>3, <2>5 DEF Enter, Reuse, Start, StartFails, Ask, Drained, Raise, TInv, Held
    <2>6. CASE Read \/ Timeout
      <3>1. queue # << >>
        BY <2>6 DEF Read, ReadHead, ReadBody, ReadLine, ReadFragment, ReadOutOfStep, ReadEOF, Reads,
             Timeout, Waiting, TInv, Held
      <3>2. ~ReadEOF
        BY DEF ReadEOF
      <3>3. CASE ReadHead
        BY <2>3, <3>3 DEF ReadHead
      <3>4. CASE ReadBody \/ ReadLine
        BY <2>1, <2>3, <3>1, <3>4 DEF ReadBody, ReadLine, Handle, Raise
      <3>5. CASE ReadFragment \/ Timeout
        BY <2>1, <3>1, <3>5 DEF ReadFragment, Timeout, TimeoutRaises, Raise
      <3>6. QED
        BY <2>2, <2>6, <3>2, <3>3, <3>4, <3>5 DEF Read
    <2>7. CASE Close \/ Serve \/ Speak \/ Write \/ Exit \/ Reap
      BY <2>3, <2>7 DEF Close, Serve, Speak, Write, Exit, Reap
    <2>8. QED
      BY <2>4, <2>5, <2>6, <2>7 DEF Next
  <1>4. QED
    BY TypeInit, TypeStep, <1>1, <1>2, <1>3, PTL DEF Spec, ClosedIsTrue

=============================================================================
