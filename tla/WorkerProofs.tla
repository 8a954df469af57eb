---------------------------- MODULE WorkerProofs ----------------------------
(* Theorems about Worker, for any threads that call run() and close(), any   *)
(* number of calls, any number of pieces and pipes of any size.              *)
EXTENDS Worker, TLAPS

-----------------------------------------------------------------------------
(* Types, with the domain that TypeOK leaves to the actions *)

Places == {"idle", "calling", "checking", "selecting", "parsing", "failing",
           "failed", "closing", "stopping", "stopped", "closed"}

Flags == closed \in BOOLEAN /\ starting \in BOOLEAN /\ pipesOpen \in BOOLEAN

Control ==
    /\ deadline \in {"none", "ahead", "passed"}
    /\ process \in {"alive", "killed", "exited"}
    /\ thread \in [Threads -> Places]
    /\ \A c \in Callers : thread[c] \in {"idle", "calling"} \cup InTransport
    /\ \A x \in Closers :
        thread[x] \in {"idle", "closing", "stopping", "stopped", "closed"}
    /\ outcome \in [Callers -> {"none", "result", "error", "failed", "refused"}]
    /\ request \in [Callers -> 0 .. MaxRuns]
    /\ issued \in 0 .. MaxRuns
    /\ \A c \in Callers : thread[c] # "idle" => request[c] \in 1 .. MaxRuns

Locks ==
    /\ transportLock \in Callers \cup {Nobody}
    /\ \A c \in Callers : transportLock = c <=> thread[c] \in InTransport
    /\ stopLock \in Threads \cup {Nobody}
    /\ \A t \in Threads : stopLock = t <=> thread[t] \in InStop

Pipes ==
    /\ sent \in 0 .. Parts
    /\ received \in Seq(Piece)
    /\ inbox \in Seq(1 .. MaxRuns) /\ Len(inbox) <= Room
    /\ line \in Seq(1 .. MaxRuns) /\ Len(line) <= Parts
    /\ emitted \in 0 .. (Parts - 1)
    /\ outbox \in Seq(Piece) /\ Len(outbox) <= Room

Typed == Flags /\ Control /\ Locks /\ Pipes

-----------------------------------------------------------------------------
(* The deadline, the engine's end and the pipes' *)

Ends ==
    /\ deadline = "none" <=> transportLock = Nobody
    /\ \A c \in Callers : outcome[c] = "failed" => process = "exited"
    /\ \A x \in Closers :
        /\ thread[x] # "idle" => closed
        /\ thread[x] \in {"stopped", "closed"} => process = "exited"
        /\ thread[x] = "closed" => ~pipesOpen
    /\ ~pipesOpen => closed /\ process = "exited" /\ transportLock = Nobody

-----------------------------------------------------------------------------
(* An exchange: one request and its answer, wherever their pieces are *)

Exchanging == {"checking", "selecting", "parsing"}

\* Every piece on the way is of the request of c.
Own(c) ==
    /\ \A i \in 1 .. Len(inbox) : inbox[i] = request[c]
    /\ \A i \in 1 .. Len(line) : line[i] = request[c]
    /\ \A i \in 1 .. Len(outbox) : outbox[i].id = request[c]
    /\ \A i \in 1 .. Len(received) : received[i].id = request[c]

\* The last piece of an answer, and only it, says what the answer is.
LastSays ==
    /\ \A i \in 1 .. Len(received) : received[i].says = "more" <=> i < Parts
    /\ \A i \in 1 .. Len(outbox) :
        outbox[i].says = "more" <=> Len(received) + i < Parts

\* No piece is lost or made: the engine answers when it has read a request to
\* its end, and forgets it with the last piece of the answer.
Answering ==
    /\ Len(received) + Len(outbox) = emitted
    /\ Len(line) + Len(inbox) = sent
    /\ emitted > 0 => Len(line) = Parts
Answered ==
    /\ Len(received) + Len(outbox) = Parts
    /\ emitted = 0 /\ line = <<>> /\ inbox = <<>>
    /\ sent = Parts

Exchange(c) == thread[c] \in Exchanging =>
    /\ Own(c)
    /\ LastSays
    /\ Answering \/ Answered
    /\ thread[c] = "parsing" => Answered /\ outbox = <<>>

\* Between exchanges nothing is on the way, as long as there is an engine.
Rest == transportLock = Nobody /\ process # "exited" =>
    inbox = <<>> /\ line = <<>> /\ outbox = <<>> /\ emitted = 0

Inductive == Typed /\ Ends /\ Rest /\ \A c \in Callers : Exchange(c)
-----------------------------------------------------------------------------

LEMMA StepFlags == ASSUME Flags, [Next]_vars PROVE Flags'
<1> USE DEF Flags, GoTo, Leave
<1>1. ASSUME NEW c \in Callers, Call(c) \/ Begin(c) \/ Refuse(c) \/ Unencodable(c) \/ Check(c)
      PROVE  Flags'
  BY <1>1 DEF Call, Begin, Refuse, Unencodable, Check
<1>2. ASSUME NEW c \in Callers, Write(c) \/ Read(c) \/ Break(c)
      PROVE  Flags'
  BY <1>2 DEF Write, Read, Break
<1>3. ASSUME NEW c \in Callers, Return(c) \/ Distrust(c) \/ Kill(c) \/ Fail(c)
      PROVE  Flags'
  BY <1>3 DEF Return, Distrust, Kill, Fail
<1>4. ASSUME NEW x \in Closers, BeginClose(x) \/ Kill(x) \/ Stopped(x) \/ ClosePipes(x)
      PROVE  Flags'
  BY <1>4 DEF BeginClose, Kill, Stopped, ClosePipes
<1>5. CASE EngineRead \/ EngineWrite \/ EngineExit \/ Tick \/ Ended \/ UNCHANGED vars
  BY <1>5 DEF EngineRead, EngineWrite, EngineExit, Tick, Ended, vars
<1> QED
  BY <1>1, <1>2, <1>3, <1>4, <1>5 DEF Next, Run, Close

LEMMA StepControl == ASSUME Control, Locks, [Next]_vars PROVE Control'
<1> USE WorkerAssumption
    DEF transport, engine, Threads, GoTo, InTransport, InStop,
        Control, Locks, Leave, Places, Continue, Replies
<1>1. ASSUME NEW c \in Callers, Call(c) \/ Begin(c) \/ Refuse(c) \/ Unencodable(c) \/ Check(c)
      PROVE  Control'
  BY SMTT(30), <1>1 DEF Call, Begin, Refuse, Unencodable, Check
<1>2. ASSUME NEW c \in Callers, Write(c) \/ Read(c) \/ Break(c)
      PROVE  Control'
  <2>1. CASE Write(c) BY <1>2, <2>1 DEF Write
  <2>2. CASE Read(c) BY <1>2, <2>2 DEF Read
  <2>3. CASE Break(c) BY <1>2, <2>3 DEF Break
  <2> QED
    BY <1>2, <2>1, <2>2, <2>3
<1>3. ASSUME NEW c \in Callers, Return(c) \/ Distrust(c) \/ Kill(c) \/ Fail(c)
      PROVE  Control'
  BY <1>3 DEF Return, Distrust, Kill, Fail
<1>4. ASSUME NEW x \in Closers, BeginClose(x) \/ Kill(x) \/ Stopped(x) \/ ClosePipes(x)
      PROVE  Control'
  BY <1>4 DEF BeginClose, Kill, Stopped, ClosePipes
<1>5. CASE EngineRead \/ EngineWrite \/ EngineExit \/ Tick \/ Ended \/ UNCHANGED vars
  BY <1>5 DEF EngineRead, EngineWrite, EngineExit, Tick, Ended, vars
<1> QED
  BY <1>1, <1>2, <1>3, <1>4, <1>5 DEF Next, Run, Close

LEMMA StepLocks == ASSUME Control, Locks, [Next]_vars PROVE Locks'
<1> USE WorkerAssumption
    DEF transport, engine, Threads, GoTo, InTransport, InStop,
        Control, Locks, Leave, Continue
<1>1. ASSUME NEW c \in Callers, Call(c) \/ Begin(c) \/ Refuse(c) \/ Unencodable(c) \/ Check(c)
      PROVE  Locks'
  BY <1>1 DEF Call, Begin, Refuse, Unencodable, Check
<1>2. ASSUME NEW c \in Callers, Write(c) \/ Read(c) \/ Break(c)
      PROVE  Locks'
  BY <1>2 DEF Write, Read, Break
<1>3. ASSUME NEW c \in Callers, Return(c) \/ Distrust(c) \/ Kill(c) \/ Fail(c)
      PROVE  Locks'
  BY <1>3 DEF Return, Distrust, Kill, Fail
<1>4. ASSUME NEW x \in Closers, BeginClose(x) \/ Kill(x) \/ Stopped(x) \/ ClosePipes(x)
      PROVE  Locks'
  BY <1>4 DEF BeginClose, Kill, Stopped, ClosePipes
<1>5. CASE EngineRead \/ EngineWrite \/ EngineExit \/ Tick \/ Ended \/ UNCHANGED vars
  BY <1>5 DEF EngineRead, EngineWrite, EngineExit, Tick, Ended, vars
<1> QED
  BY <1>1, <1>2, <1>3, <1>4, <1>5 DEF Next, Run, Close

\* The engine counts the pieces of one answer.
LEMMA NextPiece ==
    ASSUME NEW n \in Nat, NEW p \in Nat \ {0}, n < p
    PROVE  (n + 1) % p = IF n + 1 = p THEN 0 ELSE n + 1
<1>1. ASSUME NEW m \in Nat, m < p PROVE m % p = m
  BY <1>1
<1>2. p % p = 0
  OBVIOUS
<1> QED
  BY <1>1, <1>2

\* What leaves the pipes alone.
Elsewhere == UNCHANGED <<transport, engine>>

LEMMA OnThePipes ==
    ASSUME [Next]_vars
    PROVE  \/ Elsewhere \/ EngineRead \/ EngineWrite
           \/ \E c \in Callers : Begin(c) \/ Write(c) \/ Read(c)
  BY DEF Next, Run, Close, vars, Elsewhere, transport, engine, Call, Refuse,
         Unencodable, Check, Break, Return, Distrust, Kill, Fail, BeginClose,
         Stopped, ClosePipes, EngineExit, Tick, Ended

LEMMA StepPipes == ASSUME Control, Pipes, [Next]_vars PROVE Pipes'
<1> USE WorkerAssumption DEF transport, engine, Pipes
<1>1. CASE Elsewhere
  BY <1>1 DEF Elsewhere
<1>2. ASSUME NEW c \in Callers, Begin(c) PROVE Pipes'
  BY <1>2 DEF Begin
<1>3. ASSUME NEW c \in Callers, Write(c) PROVE Pipes'
  BY <1>3 DEF Write, Control
<1>4. ASSUME NEW c \in Callers, Read(c) PROVE Pipes'
  <2>1. Head(outbox) \in Piece /\ Tail(outbox) \in Seq(Piece) /\ Len(Tail(outbox)) <= Room
    BY <1>4 DEF Read
  <2> QED
    BY <1>4, <2>1 DEF Read
<1>5. CASE EngineRead
  BY <1>5 DEF EngineRead
<1>6. CASE EngineWrite
  <2>1. PICK says \in Replies \cup {"more"} :
            outbox' = Append(outbox, [id |-> line[1], says |-> says])
    BY <1>6 DEF EngineWrite
  <2>2. [id |-> line[1], says |-> says] \in Piece
    BY <1>6 DEF EngineWrite, Piece
  <2>3. outbox' \in Seq(Piece) /\ Len(outbox') <= Room
    BY <1>6, <2>1, <2>2 DEF EngineWrite
  <2>4. emitted' \in 0 .. (Parts - 1)
    BY <1>6, NextPiece DEF EngineWrite
  <2>5. line' \in Seq(1 .. MaxRuns) /\ Len(line') <= Parts
    <3>1. line' = <<>> \/ line' = line
      BY <1>6 DEF EngineWrite
    <3>2. CASE line' = <<>>
      BY <3>2
    <3>3. CASE line' = line
      BY <3>3
    <3> QED
      BY <3>1, <3>2, <3>3
  <2>6. UNCHANGED <<sent, received, inbox>>
    BY <1>6 DEF EngineWrite
  <2> QED
    BY <2>3, <2>4, <2>5, <2>6
<1> QED
  BY <1>1, <1>2, <1>3, <1>4, <1>5, <1>6, OnThePipes

LEMMA StepEnds == ASSUME Typed, Ends, [Next]_vars PROVE Ends'
<1> USE WorkerAssumption
    DEF transport, engine, Threads, GoTo, InTransport, InStop,
        Typed, Flags, Control, Locks, Ends, Leave, Continue
<1>1. ASSUME NEW c \in Callers, Call(c) \/ Begin(c) \/ Refuse(c) \/ Unencodable(c) \/ Check(c)
      PROVE  Ends'
  BY <1>1 DEF Call, Begin, Refuse, Unencodable, Check
<1>2. ASSUME NEW c \in Callers, Write(c) \/ Read(c) \/ Break(c)
      PROVE  Ends'
  BY <1>2 DEF Write, Read, Break
<1>3. ASSUME NEW c \in Callers, Return(c) \/ Distrust(c) \/ Kill(c) \/ Fail(c)
      PROVE  Ends'
  BY <1>3 DEF Return, Distrust, Kill, Fail
<1>4. ASSUME NEW x \in Closers, BeginClose(x) \/ Kill(x) \/ Stopped(x) \/ ClosePipes(x)
      PROVE  Ends'
  BY <1>4 DEF BeginClose, Kill, Stopped, ClosePipes
<1>5. CASE EngineRead \/ EngineWrite \/ EngineExit \/ Tick \/ Ended \/ UNCHANGED vars
  BY <1>5 DEF EngineRead, EngineWrite, EngineExit, Tick, Ended, vars
<1> QED
  BY <1>1, <1>2, <1>3, <1>4, <1>5 DEF Next, Run, Close

-----------------------------------------------------------------------------
(* The exchange.  One thread at a time is in it, so that what is on the way  *)
(* is on its way between this thread and the engine.                         *)

LEMMA StepBegin ==
    ASSUME Typed, Ends, Rest, NEW c \in Callers, Begin(c)
    PROVE  Exchange(c)'
<1>1. inbox' = <<>> /\ line' = <<>> /\ outbox' = <<>> /\ emitted' = 0
  BY DEF Begin, Rest, engine
<1>2. received' = <<>> /\ sent' = 0 /\ thread'[c] = "checking"
  BY DEF Begin, Typed, Control, GoTo, Threads
<1> QED
  BY <1>1, <1>2, WorkerAssumption DEF Exchange, Own, LastSays, Answering

LEMMA StepWrite ==
    ASSUME Typed, NEW c \in Callers, Exchange(c), Write(c)
    PROVE  Exchange(c)'
<1> USE WorkerAssumption DEF Typed, Pipes
<1>1. Own(c) /\ LastSays /\ Answering
  BY DEF Exchange, Exchanging, Write, Answered
<1>2. Own(c)'
  <2>1. /\ inbox' = Append(inbox, request[c])
        /\ UNCHANGED <<line, outbox, received, request>>
    BY DEF Write
  <2>2. \A i \in 1 .. Len(inbox') : inbox'[i] = request[c]
    BY <1>1, <2>1 DEF Own
  <2> QED
    BY <1>1, <2>1, <2>2 DEF Own
<1>3. LastSays' /\ Answering'
  BY <1>1 DEF LastSays, Answering, Write
<1>4. ~Complete'
  BY <1>1 DEF Complete, LastSays, Answering, Write
<1>5. thread'[c] # "parsing"
  BY <1>4 DEF Write, Continue, GoTo, Control, Threads
<1> QED
  BY <1>2, <1>3, <1>5 DEF Exchange

LEMMA StepRead ==
    ASSUME Typed, NEW c \in Callers, Exchange(c), Read(c)
    PROVE  Exchange(c)'
<1> USE WorkerAssumption DEF Typed, Pipes
<1>1. Own(c) /\ LastSays /\ (Answering \/ Answered)
  BY DEF Exchange, Exchanging, Read
<1>2. Own(c)'
  BY <1>1 DEF Own, Read
<1>3. /\ Len(received') = Len(received) + 1
      /\ \A i \in 1 .. Len(received) : received'[i] = received[i]
      /\ received'[Len(received) + 1] = outbox[1]
  BY DEF Read
<1>4. /\ Len(outbox') = Len(outbox) - 1
      /\ \A i \in 1 .. Len(outbox') : outbox'[i] = outbox[i + 1]
  BY DEF Read
<1>5. LastSays'
  <2>1. \A i \in 1 .. Len(received') : received'[i].says = "more" <=> i < Parts
    BY SMTT(30), <1>1, <1>3 DEF LastSays, Read
  <2>2. \A i \in 1 .. Len(outbox') :
            outbox'[i].says = "more" <=> Len(received') + i < Parts
    <3> TAKE i \in 1 .. Len(outbox')
    <3>1. i + 1 \in 1 .. Len(outbox)
      BY <1>4
    <3>2. outbox[i + 1].says = "more" <=> Len(received) + (i + 1) < Parts
      BY <1>1, <3>1 DEF LastSays
    <3> QED
      BY <1>3, <1>4, <3>2
  <2> QED
    BY <2>1, <2>2 DEF LastSays
<1>6. Len(received') + Len(outbox') = Len(received) + Len(outbox)
  BY <1>3, <1>4
<1>7. Answering' \/ Answered'
  BY <1>1, <1>6 DEF Answering, Answered, Read
<1>8. thread'[c] = "parsing" => Complete'
  BY DEF Read, Continue, GoTo, Control, Threads
<1>9. ASSUME Complete' PROVE Answered' /\ outbox' = <<>>
  <2>1. Len(received') >= Parts
    BY <1>5, <1>9, <1>3 DEF Complete, LastSays
  <2>2. outbox' \in Seq(Piece) /\ emitted' < Parts
    BY DEF Read
  <2> QED
    BY <1>7, <2>1, <2>2, <1>3 DEF Answering, Answered
<1> QED
  BY <1>2, <1>5, <1>7, <1>8, <1>9 DEF Exchange

LEMMA StepEngineRead ==
    ASSUME Typed, NEW c \in Callers, Exchange(c), EngineRead
    PROVE  Exchange(c)'
<1> SUFFICES ASSUME thread[c] \in Exchanging PROVE Exchange(c)'
  BY DEF Exchange, EngineRead
<1> USE WorkerAssumption DEF Typed, Pipes
<1>1. Own(c) /\ LastSays /\ Answering /\ thread[c] # "parsing"
  BY DEF Exchange, EngineRead, Answered
<1>2. /\ Len(inbox') = Len(inbox) - 1
      /\ \A i \in 1 .. Len(inbox') : inbox'[i] = inbox[i + 1]
  BY DEF EngineRead
<1>3. /\ Len(line') = Len(line) + 1
      /\ \A i \in 1 .. Len(line) : line'[i] = line[i]
      /\ line'[Len(line) + 1] = inbox[1]
  BY DEF EngineRead
<1>4. Own(c)'
  <2>1. UNCHANGED <<outbox, received, request>>
    BY DEF EngineRead, transport
  <2> QED
    BY SMTT(30), <1>1, <2>1, <1>2, <1>3 DEF Own, EngineRead
<1>5. LastSays'
  BY <1>1 DEF LastSays, EngineRead, transport
<1>6. Answering'
  <2>1. /\ sent' = sent /\ received' = received
        /\ emitted' = emitted /\ outbox' = outbox
        /\ Len(line) < Parts
    BY DEF EngineRead, transport
  <2>2. emitted = 0
    BY <1>1, <2>1 DEF Answering
  <2>3. Len(line') + Len(inbox') = Len(line) + Len(inbox)
    BY <1>2, <1>3
  <2> QED
    BY <1>1, <2>1, <2>2, <2>3 DEF Answering
<1> QED
  BY <1>1, <1>4, <1>5, <1>6 DEF Exchange, EngineRead

LEMMA StepEngineWrite ==
    ASSUME Typed, NEW c \in Callers, Exchange(c), EngineWrite
    PROVE  Exchange(c)'
<1> SUFFICES ASSUME thread[c] \in Exchanging PROVE Exchange(c)'
  BY DEF Exchange, EngineWrite
<1> USE WorkerAssumption DEF Typed, Pipes, transport
<1>1. Own(c) /\ LastSays /\ Answering /\ thread[c] # "parsing"
  BY DEF Exchange, EngineWrite, Answered
<1>2. inbox = <<>> /\ sent = Parts
  BY <1>1 DEF Answering, EngineWrite
<1>3. PICK says \in IF emitted + 1 = Parts THEN Replies ELSE {"more"} :
          outbox' = Append(outbox, [id |-> line[1], says |-> says])
  BY DEF EngineWrite
<1>4. says = "more" <=> emitted + 1 < Parts
  BY <1>3 DEF Replies
<1>5. Own(c)'
  BY <1>1, <1>3 DEF Own, EngineWrite
<1>6. /\ Len(outbox') = Len(outbox) + 1
      /\ \A i \in 1 .. Len(outbox) : outbox'[i] = outbox[i]
      /\ outbox'[Len(outbox) + 1].says = says
  BY <1>3
<1>7. LastSays'
  <2>1. UNCHANGED received
    BY DEF EngineWrite
  <2>2. \A i \in 1 .. Len(outbox') :
            outbox'[i].says = "more" <=> Len(received) + i < Parts
    <3> TAKE i \in 1 .. Len(outbox')
    <3>1. CASE i \in 1 .. Len(outbox)
      BY <1>1, <1>6, <3>1 DEF LastSays
    <3>2. CASE i = Len(outbox) + 1
      BY SMTT(30), <1>1, <1>4, <1>6, <3>2 DEF Answering
    <3> QED
      BY SMTT(30), <1>6, <3>1, <3>2
  <2> QED
    BY <1>1, <2>1, <2>2 DEF LastSays
<1>8. emitted' = IF emitted + 1 = Parts THEN 0 ELSE emitted + 1
  BY NextPiece DEF EngineWrite
<1>9. Answering' \/ Answered'
  BY <1>1, <1>2, <1>6, <1>8 DEF Answering, Answered, EngineWrite
<1> QED
  BY <1>1, <1>5, <1>7, <1>9 DEF Exchange, EngineWrite

\* The other actions of an exchange are a look at the deadline or its end.
LEMMA StepElsewhere ==
    ASSUME Typed, NEW c \in Callers, Exchange(c), [Next]_vars, Elsewhere,
           ~ \E d \in Callers : Begin(d) \/ Write(d) \/ Read(d)
    PROVE  Exchange(c)'
<1> DEFINE Stays == \/ thread'[c] \notin Exchanging
                    \/ /\ thread[c] \in Exchanging
                       /\ request'[c] = request[c]
                       /\ thread'[c] = "parsing" => thread[c] = "parsing"
<1>1. Stays
  <2> USE WorkerAssumption DEF GoTo, Control, Typed, Threads, Exchanging, Pipes
  <2>1. ASSUME NEW d \in Callers,
               Call(d) \/ Refuse(d) \/ Unencodable(d) \/ Check(d) \/ Break(d)
                   \/ Return(d) \/ Distrust(d) \/ Kill(d) \/ Fail(d)
        PROVE  Stays
    BY <2>1 DEF Call, Refuse, Unencodable, Check, Break, Return, Leave, Distrust, Kill, Fail
  <2>2. ASSUME NEW x \in Closers, BeginClose(x) \/ Close(x) PROVE Stays
    BY <2>2 DEF BeginClose, Close, Kill, Stopped, ClosePipes
  <2>3. CASE EngineRead \/ EngineWrite \/ EngineExit \/ Tick \/ Ended \/ UNCHANGED vars
    BY <2>3 DEF EngineRead, EngineWrite, EngineExit, Tick, Ended, vars
  <2> QED
    BY <2>1, <2>2, <2>3 DEF Next, Run
<1> QED
  BY <1>1 DEF Elsewhere, transport, engine, Exchange, Own, LastSays, Answering, Answered

LEMMA StepExchange ==
    ASSUME Inductive, [Next]_vars, NEW c \in Callers
    PROVE  Exchange(c)'
<1> USE DEF Inductive
<1>1. ASSUME NEW d \in Callers, d # c, Begin(d) \/ Write(d) \/ Read(d)
      PROVE  Exchange(c)'
  <2>1. thread'[d] \in Exchanging /\ thread'[c] = thread[c]
    BY <1>1 DEF Begin, Write, Read, Continue, GoTo, Typed, Control, Threads, Exchanging
  <2>2. thread'[d] \in InTransport
    BY <2>1 DEF Exchanging, InTransport
  <2>3. Locks'
    BY StepLocks DEF Typed
  <2>4. thread'[c] \notin InTransport
    BY <1>1, <2>2, <2>3 DEF Locks
  <2> QED
    BY <2>4 DEF Exchange, Exchanging, InTransport
<1>2. ASSUME NEW d \in Callers, Begin(d) \/ Write(d) \/ Read(d)
      PROVE  Exchange(c)'
  BY <1>1, <1>2, StepBegin, StepWrite, StepRead
<1> QED
  BY <1>2, OnThePipes, StepEngineRead, StepEngineWrite, StepElsewhere

LEMMA StepRest == ASSUME Inductive, [Next]_vars PROVE Rest'
<1> USE WorkerAssumption
    DEF Inductive, Typed, Control, Locks, Pipes, Ends, Rest, transport, engine, Leave
<1>1. ASSUME NEW c \in Callers, Return(c) PROVE Rest'
  BY <1>1 DEF Return, Exchange, Exchanging, Answered
<1>2. ASSUME NEW c \in Callers, Fail(c) PROVE Rest'
  BY <1>2 DEF Fail
<1>3. CASE Elsewhere /\ UNCHANGED transportLock
  BY <1>3 DEF Elsewhere, Next, Run, Close, vars, Call, Begin, Refuse, Unencodable,
         Check, Write, Read, Break, Return, Distrust, Kill, Fail, BeginClose,
         Stopped, ClosePipes, EngineRead, EngineWrite, EngineExit, Tick, Ended
<1>4. ASSUME NEW c \in Callers, Begin(c) \/ Write(c) \/ Read(c) PROVE Rest'
  BY <1>4 DEF Begin, Write, Read, InTransport
<1>5. CASE EngineRead
  BY <1>5 DEF EngineRead
<1>6. CASE EngineWrite
  BY <1>6 DEF EngineWrite
<1>7. \/ UNCHANGED transportLock
      \/ \E c \in Callers : Return(c) \/ Fail(c) \/ Begin(c)
  BY DEF Next, Run, Close, vars, Call, Refuse, Unencodable, Check, Write, Read,
         Break, Distrust, Kill, BeginClose, Stopped, ClosePipes, EngineRead,
         EngineWrite, EngineExit, Tick, Ended
<1> QED
  BY <1>1, <1>2, <1>3, <1>4, <1>5, <1>6, <1>7, OnThePipes

-----------------------------------------------------------------------------
(* The invariant, and what follows from it *)

LEMMA Invariance == Spec => []Inductive
<1>1. Init => Inductive
  <2> SUFFICES ASSUME Init PROVE Inductive
    OBVIOUS
  <2> USE WorkerAssumption DEF Init, Threads, InTransport, InStop, Exchanging
  <2>1. Flags
    BY DEF Flags
  <2>2. Control
    BY DEF Control, Places
  <2>3. Locks
    BY DEF Locks
  <2>4. Pipes
    BY DEF Pipes
  <2>5. Ends /\ Rest /\ \A c \in Callers : Exchange(c)
    BY DEF Ends, Rest, Exchange
  <2> QED
    BY <2>1, <2>2, <2>3, <2>4, <2>5 DEF Inductive, Typed
<1>2. Inductive /\ [Next]_vars => Inductive'
  <2> SUFFICES ASSUME Inductive, [Next]_vars PROVE Inductive'
    OBVIOUS
  <2>1. Typed'
    BY StepFlags, StepControl, StepLocks, StepPipes DEF Inductive, Typed
  <2>2. Ends'
    BY StepEnds DEF Inductive
  <2> QED
    BY <2>1, <2>2, StepRest, StepExchange DEF Inductive
<1> QED
  BY <1>1, <1>2, PTL DEF Spec

\* The types of the transport's state, and that each of its two locks is held
\* exactly from where worker.py takes it to where it gives it back.
THEOREM TypeCorrect == Spec => []TypeOK
<1>1. Inductive => TypeOK
  BY DEF Inductive, Typed, Flags, Control, Locks, Pipes, TypeOK
<1> QED
  BY <1>1, Invariance, PTL

\* A line that run() parses is the answer to its own request, however many
\* requests have timed out, been closed or lost their engine before.
THEOREM AnswersAreOwn == Spec => []AnswersMatch
<1>1. ASSUME Inductive PROVE AnswersMatch
  <2>1. DOMAIN received = 1 .. Len(received)
    BY <1>1 DEF Inductive, Typed, Pipes
  <2> QED
    BY <1>1, <2>1 DEF Inductive, Exchange, Exchanging, Own, AnswersMatch
<1> QED
  BY <1>1, Invariance, PTL

\* _exchange() has a deadline to do arithmetic with from its first turn to its
\* last, and self.deadline is None when no exchange runs.
THEOREM DeadlineIsThere == Spec => []DeadlineCoversExchange
<1>1. Inductive => DeadlineCoversExchange
  BY WorkerAssumption DEF Inductive, Typed, Locks, Ends, DeadlineCoversExchange
<1> QED
  BY <1>1, Invariance, PTL

\* close() closes the pipes only when no run() selects on them.
THEOREM PipesOutliveExchanges == Spec => []NoUseOfClosedPipes
<1>1. Inductive => NoUseOfClosedPipes
  BY WorkerAssumption DEF Inductive, Typed, Locks, Ends, InTransport, NoUseOfClosedPipes
<1> QED
  BY <1>1, Invariance, PTL

\* After a run() that raised for its transport, and after close(), the engine
\* is reaped; after close() the pipes are closed and stay closed to every run().
THEOREM StoppingIsFinal == Spec => []StoppedForGood
<1>1. Inductive => StoppedForGood
  BY DEF Inductive, Ends, StoppedForGood
<1> QED
  BY <1>1, Invariance, PTL
=============================================================================
