--------------------------- MODULE TcpClientProofs ---------------------------
(* The safety properties of TcpClient, for any number of messages and of      *)
(* writes in flight.                                                          *)
EXTENDS TcpClient, SequenceTheorems, TLAPS

\* No handler of q, or at most one, is in S.
Free(q, S) == \A i \in 1..Len(q) : q[i].op \notin S
Single(q, S) == \A i, j \in 1..Len(q) : q[i].op \in S /\ q[j].op \in S => i = j

\* The connection is established by one resolve and one connect: at most one of
\* them, or of their handlers, is there at any time.
OneConnect ==
  /\ Single(queue, ConnectOps)
  /\ ops \cap {"resolve", "connect"} # {} => Free(queue, ConnectOps)
  /\ ~({"resolve", "connect"} \subseteq ops)

\* Before connect_handler there is nothing of the chains, after it nothing of the
\* connect.
Phase ==
  \/ /\ connected = "unset" /\ writes = <<>> /\ "read" \notin ops
     /\ Free(queue, LaterOps)
  \/ connected = "yes" /\ ops \subseteq {"read"} /\ Free(queue, ConnectOps)

Chains ==
  /\ Single(queue, {"Process"}) /\ Single(queue, ReadOps)
  /\ "read" \in ops => Free(queue, ReadOps)
  /\ (connected = "yes" /\ closed = "no") =>
       /\ ~Free(queue, {"Process"})
       /\ ~Free(queue, ReadOps) \/ "read" \in ops

\* What the application thread has done.
AppInv ==
  /\ app = "connect" => /\ queue = <<>> /\ ops = {} /\ writes = <<>>
                        /\ connected = "unset" /\ io = "none"
  /\ app # "connect" => closed # "unset"
  /\ app = "appending" => sent < MaxSends

ClientInv == ClientTypeOK /\ OneConnect /\ Phase /\ Chains /\ AppInv

-----------------------------------------------------------------------------
(* Handlers taken from and posted to the queue *)

\* Taking the oldest handler leaves the others as they are.
LEMMA TailFacts ==
  ASSUME NEW q \in Seq(Handler), q # <<>>, NEW S
  PROVE  /\ Tail(q) \in Seq(Handler)
         /\ Head(q) \in Handler
         /\ Free(q, S) => Free(Tail(q), S)
         /\ Free(q, S) => Head(q).op \notin S
         /\ Single(q, S) => Single(Tail(q), S)
         /\ Single(q, S) /\ Head(q).op \in S => Free(Tail(q), S)
         /\ ~Free(q, S) /\ Head(q).op \notin S => ~Free(Tail(q), S)
<1> DEFINE t == Tail(q)
<1>1. /\ t \in Seq(Handler) /\ Head(q) \in Handler /\ Len(q) \in Nat \ {0}
      /\ Len(t) = Len(q) - 1 /\ Head(q) = q[1]
      /\ \A i \in 1..Len(t) : t[i] = q[i + 1]
  OBVIOUS
<1>2. \A i \in 1..Len(t) : i + 1 \in 1..Len(q) /\ i + 1 # 1
  BY <1>1
<1>3. \A i \in 1..Len(q) : i # 1 => i - 1 \in 1..Len(t) /\ (i - 1) + 1 = i
  BY <1>1
<1>4. \A i, j \in 1..Len(t) : i + 1 = j + 1 => i = j
  BY <1>1
<1>5. 1 \in 1..Len(q)
  BY <1>1
<1> HIDE DEF t
<1>6. Free(q, S) => Free(t, S) /\ Head(q).op \notin S
  BY <1>1, <1>2, <1>5 DEF Free
<1>7. Single(q, S) => Single(t, S)
  BY <1>1, <1>2, <1>4 DEF Single
<1>8. Single(q, S) /\ Head(q).op \in S => Free(t, S)
  BY <1>1, <1>2, <1>5 DEF Single, Free
<1>9. ~Free(q, S) /\ Head(q).op \notin S => ~Free(t, S)
  <2> SUFFICES ASSUME ~Free(q, S), Head(q).op \notin S, Free(t, S) PROVE FALSE
    OBVIOUS
  <2>1. PICK i \in 1..Len(q) : q[i].op \in S
    BY DEF Free
  <2>2. i - 1 \in 1..Len(t) /\ t[i - 1] = q[i]
    BY <2>1, <1>1, <1>3
  <2> QED BY <2>1, <2>2 DEF Free
<1> QED BY <1>1, <1>6, <1>7, <1>8, <1>9 DEF t

\* A posted handler comes after the others.
LEMMA AppendFacts ==
  ASSUME NEW q \in Seq(Handler), NEW h \in Handler, NEW S
  PROVE  /\ Append(q, h) \in Seq(Handler)
         /\ Free(q, S) /\ h.op \notin S => Free(Append(q, h), S)
         /\ Single(q, S) /\ h.op \notin S => Single(Append(q, h), S)
         /\ Free(q, S) => Single(Append(q, h), S)
         /\ h.op \in S => ~Free(Append(q, h), S)
         /\ ~Free(q, S) => ~Free(Append(q, h), S)
<1> DEFINE a == Append(q, h)
           n == Len(q) + 1
<1>1. /\ a \in Seq(Handler) /\ Len(q) \in Nat /\ Len(a) = n
      /\ a[n] = h
      /\ \A i \in 1..Len(q) : a[i] = q[i]
  OBVIOUS
<1>2. 1..Len(a) = 1..Len(q) \cup {n}
  BY <1>1
<1> HIDE DEF a, n
<1>3. Free(q, S) /\ h.op \notin S => Free(a, S)
  BY <1>1, <1>2 DEF Free
<1>4. Single(q, S) /\ h.op \notin S => Single(a, S)
  BY <1>1, <1>2 DEF Single
<1>5. Free(q, S) => Single(a, S)
  BY <1>1, <1>2 DEF Free, Single
<1>6. (h.op \in S \/ ~Free(q, S)) => ~Free(a, S)
  BY <1>1, <1>2 DEF Free
<1> QED BY <1>1, <1>3, <1>4, <1>5, <1>6 DEF a

\* Taking the oldest handler, for all sets of handlers at once.
LEMMA TailAll ==
  ASSUME NEW q \in Seq(Handler), q # <<>>
  PROVE  /\ Tail(q) \in Seq(Handler) /\ Head(q) \in Handler
         /\ \A S :
              /\ Free(q, S) => Free(Tail(q), S) /\ Head(q).op \notin S
              /\ Single(q, S) => Single(Tail(q), S)
              /\ Single(q, S) /\ Head(q).op \in S => Free(Tail(q), S)
              /\ ~Free(q, S) /\ Head(q).op \notin S => ~Free(Tail(q), S)
BY TailFacts

\* A posted handler, for all sets of handlers at once.
LEMMA AppendAll ==
  ASSUME NEW q \in Seq(Handler), NEW h \in Handler
  PROVE  /\ Append(q, h) \in Seq(Handler)
         /\ \A S :
              /\ Free(q, S) /\ h.op \notin S => Free(Append(q, h), S)
              /\ Single(q, S) /\ h.op \notin S => Single(Append(q, h), S)
              /\ Free(q, S) => Single(Append(q, h), S)
              /\ h.op \in S => ~Free(Append(q, h), S)
              /\ ~Free(q, S) => ~Free(Append(q, h), S)
BY AppendFacts

\* An empty queue holds no handler.
LEMMA EmptyFacts == \A S : Free(<<>>, S) /\ Single(<<>>, S)
BY DEF Free, Single

\* Which of the four sets a handler belongs to.
LEMMA OpSets ==
  /\ \A op \in ConnectOps : op \notin ReadOps /\ op # "Process" /\ op \notin LaterOps
  /\ \A op \in ReadOps : op \notin ConnectOps /\ op # "Process" /\ op \in LaterOps
  /\ \A op \in {"Send", "write_handler"} :
       op \notin ConnectOps /\ op \notin ReadOps /\ op # "Process" /\ op \in LaterOps
  /\ "Process" \notin ConnectOps /\ "Process" \notin ReadOps /\ "Process" \in LaterOps
  /\ {"resolve_handler", "resolve_failed", "connect_handler"} \subseteq ConnectOps
  /\ {"Receive", "read_handler"} \subseteq ReadOps
  /\ "stop_event" \notin ConnectOps /\ "stop_event" \notin ReadOps
  /\ "stop_event" \notin LaterOps
BY DEF ConnectOps, ReadOps, LaterOps, Ops

\* A posted function is a handler.
LEMMA TaskType == \A op \in Ops : Task(op) \in Handler /\ Task(op).op = op
BY DEF Task, Handler

\* A write of the last b of a messages is started.
LEMMA NewWrite ==
  ASSUME NEW s \in Seq(Write), NEW a \in Nat, NEW b \in 0..a
  PROVE  /\ Append(s, [from |-> a - b, n |-> b]) \in Seq(Write)
         /\ Append(s, [from |-> a - b, n |-> b]) # <<>>
<1> DEFINE h == [from |-> a - b, n |-> b]
<1>1. a - b \in Nat /\ b \in Nat
  OBVIOUS
<1>2. h \in Write
  BY <1>1 DEF Write
<1> HIDE DEF h
<1>3. Append(s, h) \in Seq(Write)
  BY <1>2
<1>4. Append(s, h) # <<>>
  BY <1>2, AppendProperties
<1> QED BY <1>3, <1>4 DEF h

\* The end of a write posts one handler, whatever was transferred.
LEMMA DoneFacts ==
  ASSUME NEW w \in Seq(Write), w # <<>>, NEW q \in Seq(Handler), wire \in Seq(Nat),
         WriteDone(w, q)
  PROVE  /\ writes' \in Seq(Write) /\ wire' \in Seq(Nat)
         /\ \E h \in Handler : h.op = "write_handler" /\ queue' = Append(q, h)
<1>1. Head(w) \in Write /\ Tail(w) \in Seq(Write)
  OBVIOUS
<1>2. Head(w).from \in Nat /\ Head(w).n \in Nat
  BY <1>1 DEF Write
<1>3. PICK n \in 0..Head(w).n :
            /\ queue' = Append(q, [op |-> "write_handler", n |-> n])
            /\ writes' = Tail(w)
            /\ wire' = IF clash' THEN wire ELSE wire \o [i \in 1..n |-> Head(w).from + i]
  BY DEF WriteDone
<1>4. [op |-> "write_handler", n |-> n] \in Handler
  BY <1>2 DEF Handler, Ops
<1> DEFINE s == [i \in 1..n |-> Head(w).from + i]
<1>5. s \in Seq(Nat)
  BY <1>2
<1> HIDE DEF s
<1>6. wire \o s \in Seq(Nat)
  BY <1>5
<1>7. wire' \in Seq(Nat)
  BY <1>3, <1>6 DEF s
<1> QED BY <1>1, <1>3, <1>4, <1>7

-----------------------------------------------------------------------------

\* A new client satisfies the invariant.
LEMMA ClientInvInit == ClientInit => ClientInv
<1> SUFFICES ASSUME ClientInit PROVE ClientInv
  OBVIOUS
<1>1. ClientTypeOK
  <2>1. sent \in 0..MaxSends /\ size \in 0..sent
    BY ClientAssumption DEF ClientInit
  <2>2. queue \in Seq(Handler) /\ writes \in Seq(Write) /\ wire \in Seq(Nat)
    BY DEF ClientInit
  <2>3. ops \subseteq {"resolve", "connect", "read"}
    BY DEF ClientInit
  <2>4. stopped \in BOOLEAN /\ clash \in BOOLEAN
    BY DEF ClientInit
  <2> QED BY <2>1, <2>2, <2>3, <2>4 DEF ClientInit, ClientTypeOK
<1>2. \A S : Free(queue, S) /\ Single(queue, S)
  BY EmptyFacts DEF ClientInit
<1>3. OneConnect /\ Phase /\ Chains
  BY <1>2 DEF ClientInit, OneConnect, Phase, Chains
<1>4. AppInv
  BY DEF ClientInit, AppInv
<1> QED BY <1>1, <1>3, <1>4 DEF ClientInv

\* So does the client of the next clientStart.
LEMMA RestartStep == Restart => ClientInv'
<1>1. Restart => ClientInit'
  BY DEF Restart, ClientInit
<1> QED BY <1>1, ClientInvInit, PTL

\* The steps of the application thread keep the invariant.
LEMMA AppStep == ClientInv /\ clientStart => ClientInv'
<1> SUFFICES ASSUME ClientInv, clientStart PROVE ClientInv'
  OBVIOUS
<1> USE ClientAssumption, EmptyFacts
    DEF ClientInv, ClientTypeOK, OneConnect, Phase, Chains, AppInv, bufVars
<1>1. CASE Connect
  BY <1>1 DEF Connect
<1>2. CASE StartThread
  BY <1>2 DEF StartThread
<1>3. CASE SendBegin
  BY <1>3 DEF SendBegin
<1>4. CASE SendEnd
  BY <1>4 DEF SendEnd
<1>5. CASE Close
  BY <1>5 DEF Close
<1>6. CASE CloseStops
  <2>1. Task("stop_event") \in Handler /\ Task("stop_event").op = "stop_event"
    BY TaskType DEF Ops
  <2>2. CASE stopped
    BY <1>6, <2>2 DEF CloseStops
  <2>3. CASE ~stopped
    <3>1. queue' = Append(queue, Task("stop_event"))
      BY <1>6, <2>3 DEF CloseStops
    <3> QED BY <1>6, <2>1, <3>1, OpSets, AppendAll DEF CloseStops
  <2> QED BY <2>2, <2>3
<1>7. CASE Join
  BY <1>7 DEF Join
<1>8. CASE Restart
  BY <1>8, RestartStep
<1> QED BY <1>1, <1>2, <1>3, <1>4, <1>5, <1>6, <1>7, <1>8 DEF clientStart

\* The completions of operations and the server keep the invariant.
LEMMA NetworkStep == ClientInv /\ Network => ClientInv'
<1> SUFFICES ASSUME ClientInv, Network PROVE ClientInv'
  OBVIOUS
<1> USE DEF ClientInv, ClientTypeOK, OneConnect, Phase, Chains, AppInv, appVars, bufVars
<1>1. CASE ResolveCompletes
  <2>1. PICK op \in {"resolve_handler", "resolve_failed"} :
              queue' = Append(queue, Task(op))
    BY <1>1 DEF ResolveCompletes
  <2>2. Task(op) \in Handler /\ Task(op).op = op /\ op \in ConnectOps
    BY TaskType DEF Ops, ConnectOps
  <2> QED BY <1>1, <2>1, <2>2, OpSets, AppendAll DEF ResolveCompletes
<1>2. CASE ConnectCompletes
  <2>1. Task("connect_handler") \in Handler /\ Task("connect_handler").op \in ConnectOps
    BY TaskType DEF Ops, ConnectOps
  <2> QED BY <1>2, <2>1, OpSets, AppendAll DEF ConnectCompletes
<1>3. CASE ReadCompletes
  <2>1. Task("read_handler") \in Handler /\ Task("read_handler").op \in ReadOps
    BY TaskType DEF Ops, ReadOps
  <2> QED BY <1>3, <2>1, OpSets, AppendAll DEF ReadCompletes
<1>4. CASE WriteCompletes
  <2>1. /\ writes' \in Seq(Write) /\ wire' \in Seq(Nat)
        /\ \E h \in Handler : h.op = "write_handler" /\ queue' = Append(queue, h)
    BY <1>4, DoneFacts DEF WriteCompletes
  <2>2. PICK h \in Handler : h.op = "write_handler" /\ queue' = Append(queue, h)
    BY <2>1
  <2>3. connected = "yes"
    BY <1>4 DEF WriteCompletes
  <2> QED BY <1>4, <2>1, <2>2, <2>3, OpSets, AppendAll DEF WriteCompletes
<1>5. CASE ServerCloses
  BY <1>5 DEF ServerCloses
<1> QED BY <1>1, <1>2, <1>3, <1>4, <1>5 DEF Network

\* The handlers on the io thread, and the return of io_context::run, keep the
\* invariant.
LEMMA IoStep == ClientInv /\ IoThread => ClientInv'
<1> SUFFICES ASSUME ClientInv, IoThread PROVE ClientInv'
  OBVIOUS
<1> DEFINE t == Tail(queue)
<1>0. ASSUME queue # <<>>
      PROVE  /\ t \in Seq(Handler) /\ Head(queue) \in Handler
             /\ \A S : /\ Free(queue, S) => Free(t, S) /\ Head(queue).op \notin S
                       /\ Single(queue, S) => Single(t, S)
                       /\ Single(queue, S) /\ Head(queue).op \in S => Free(t, S)
                       /\ ~Free(queue, S) /\ Head(queue).op \notin S => ~Free(t, S)
  BY <1>0, TailAll DEF ClientInv, ClientTypeOK
<1> USE DEF ClientInv, ClientTypeOK, OneConnect, Phase, Chains, AppInv, appVars, bufVars, Runs
<1> HIDE DEF t
<1>1. CASE resolve_handler \/ resolve_failed
  <2>1. queue # <<>> /\ queue' = t /\ Head(queue).op \in ConnectOps
    BY <1>1 DEF resolve_handler, resolve_failed, ConnectOps, t
  <2>2. CASE resolve_handler
    BY <2>1, <2>2, <1>0, OpSets DEF resolve_handler
  <2>3. CASE resolve_failed
    BY <2>1, <2>3, <1>0, OpSets DEF resolve_failed
  <2> QED BY <1>1, <2>2, <2>3, Zenon
<1>2. CASE connect_handler
  <2> DEFINE r == Append(t, Task("Receive"))
  <2>1. queue # <<>> /\ Head(queue).op \in ConnectOps
    BY <1>2 DEF connect_handler, ConnectOps
  <2>2. Task("Receive") \in Handler /\ Task("Receive").op \in ReadOps
    BY TaskType DEF Ops, ReadOps
  <2>3. Task("Process") \in Handler /\ Task("Process").op = "Process"
    BY TaskType DEF Ops
  <2>4. queue' = Append(r, Task("Process"))
    BY <1>2 DEF connect_handler, t
  <2>5. /\ connected = "unset" /\ Free(queue, LaterOps)
        /\ Free(t, ConnectOps) /\ Free(t, LaterOps)
        /\ ops \cap {"resolve", "connect"} = {}
    BY <2>1, <1>0, OpSets
  <2>6. Free(t, ReadOps) /\ Free(t, {"Process"})
    BY <2>5, OpSets DEF Free
  <2>7. /\ r \in Seq(Handler) /\ Free(r, ConnectOps) /\ Single(r, ReadOps)
        /\ ~Free(r, ReadOps) /\ Free(r, {"Process"})
    BY <1>0, <2>1, <2>2, <2>5, <2>6, AppendAll, OpSets
  <2> HIDE DEF r
  <2>8. /\ queue' \in Seq(Handler) /\ Free(queue', ConnectOps)
        /\ Single(queue', ReadOps) /\ ~Free(queue', ReadOps)
        /\ Single(queue', {"Process"}) /\ ~Free(queue', {"Process"})
    BY <2>3, <2>4, <2>7, AppendAll, OpSets
  <2>9. Single(queue', ConnectOps)
    BY <2>8 DEF Free, Single
  <2> QED BY <1>2, <2>5, <2>8, <2>9 DEF connect_handler
<1>3. CASE Receive
  <2>1. queue # <<>> /\ queue' = t /\ Head(queue).op \in ReadOps
    BY <1>3 DEF Receive, ReadOps, t
  <2> QED BY <1>3, <2>1, <1>0, OpSets DEF Receive
<1>4. CASE read_handler
  <2>1. queue # <<>> /\ Head(queue).op \in ReadOps
    BY <1>4 DEF read_handler, ReadOps
  <2>2. Task("Receive") \in Handler /\ Task("Receive").op \in ReadOps
    BY TaskType DEF Ops, ReadOps
  <2>3. CASE Ended
    BY <1>4, <2>1, <2>3, <1>0, OpSets DEF read_handler, Ended, t
  <2>4. CASE ~Ended
    <3>1. queue' = Append(t, Task("Receive"))
      BY <1>4, <2>4 DEF read_handler, Posts, t
    <3> QED BY <1>4, <2>1, <2>2, <3>1, <1>0, AppendAll, OpSets DEF read_handler
  <2> QED BY <2>3, <2>4
<1>5. CASE Process
  <2>1. queue # <<>> /\ Head(queue).op = "Process"
    BY <1>5 DEF Process
  <2>2. Task("Process") \in Handler /\ Task("Process").op = "Process"
    BY TaskType DEF Ops
  <2>3. Task("Send") \in Handler /\ Task("Send").op = "Send"
    BY TaskType DEF Ops
  <2>4. PICK q \in {t, Append(t, Task("Send"))} :
              queue' = IF Ended THEN q ELSE Append(q, Task("Process"))
    BY <1>5 DEF Process, t
  <2>5. /\ connected = "yes" /\ Free(t, ConnectOps) /\ Free(t, {"Process"})
        /\ Single(t, ReadOps)
        /\ Free(queue, ReadOps) => Free(t, ReadOps)
        /\ ~Free(queue, ReadOps) => ~Free(t, ReadOps)
    BY <2>1, <1>0, OpSets
  <2>6. /\ q \in Seq(Handler) /\ Free(q, ConnectOps) /\ Free(q, {"Process"})
        /\ Single(q, ReadOps)
        /\ Free(queue, ReadOps) => Free(q, ReadOps)
        /\ ~Free(queue, ReadOps) => ~Free(q, ReadOps)
    <3>1. CASE q = t
      BY <3>1, <1>0, <2>1, <2>5
    <3>2. CASE q = Append(t, Task("Send"))
      <4>1. t \in Seq(Handler)
        BY <1>0, <2>1
      <4>2. Free(q, ConnectOps) /\ Free(q, {"Process"}) /\ Single(q, ReadOps)
        BY <3>2, <4>1, <2>3, <2>5, AppendAll, OpSets
      <4>3. Free(t, ReadOps) => Free(q, ReadOps)
        BY <3>2, <4>1, <2>3, AppendAll, OpSets
      <4>4. ~Free(t, ReadOps) => ~Free(q, ReadOps)
        BY <3>2, <4>1, <2>3, AppendAll
      <4>5. q \in Seq(Handler)
        BY <3>2, <4>1, <2>3, AppendAll
      <4> QED BY <2>5, <4>2, <4>3, <4>4, <4>5
    <3> QED BY <2>4, <3>1, <3>2
  <2>7. Single(q, {"Process"}) /\ Single(q, ConnectOps)
    BY <2>6, Zenon DEF Free, Single
  <2>8. CASE Ended
    BY <1>5, <2>4, <2>5, <2>6, <2>7, <2>8 DEF Process, Ended
  <2>9. CASE ~Ended
    <3>1. queue' = Append(q, Task("Process"))
      BY <2>4, <2>9
    <3>2. /\ queue' \in Seq(Handler) /\ Free(queue', ConnectOps)
          /\ Single(queue', {"Process"}) /\ ~Free(queue', {"Process"})
          /\ Single(queue', ReadOps)
      BY <2>2, <2>6, <3>1, AppendAll, OpSets
    <3>3. /\ Free(queue, ReadOps) => Free(queue', ReadOps)
          /\ ~Free(queue, ReadOps) => ~Free(queue', ReadOps)
      BY <2>2, <2>6, <3>1, AppendAll, OpSets
    <3>4. Single(queue', ConnectOps)
      BY <3>2 DEF Free, Single
    <3> QED BY <1>5, <2>5, <3>2, <3>3, <3>4 DEF Process
  <2> QED BY <2>8, <2>9
<1>6. CASE Send
  <2>1. queue # <<>> /\ Head(queue).op = "Send" /\ connected = "yes"
    BY <1>6, <1>0, OpSets DEF Send
  <2>2. Task("write_handler") \in Handler /\ Task("write_handler").op = "write_handler"
    BY TaskType DEF Ops
  <2>3. CASE socket = "failed" \/ size = 0
    <3>1. queue' = Append(t, Task("write_handler"))
      BY <1>6, <2>3 DEF Send, Posts, t
    <3> QED BY <1>6, <2>1, <2>2, <2>3, <3>1, <1>0, AppendAll, OpSets DEF Send
  <2>4. CASE ~(socket = "failed" \/ size = 0)
    <3> DEFINE w == Append(writes, [from |-> sent - size, n |-> size])
    <3>1. w \in Seq(Write) /\ w # <<>>
      <4>1. writes \in Seq(Write) /\ sent \in Nat /\ size \in 0..sent
        BY ClientAssumption
      <4> QED BY <4>1, NewWrite, Zenon
    <3>2. /\ IF Len(w) > MaxWrites THEN WriteDone(w, t)
             ELSE writes' = w /\ queue' = t /\ UNCHANGED wire
          /\ clash' \in BOOLEAN
          /\ UNCHANGED <<app, sent, size, closed, connected, io, stopped, ops, socket>>
      BY <1>6, <2>4 DEF Send, t
    <3> HIDE DEF w
    <3>3. /\ writes' \in Seq(Write) /\ wire' \in Seq(Nat)
          /\ \/ queue' = t
             \/ \E h \in Handler : h.op = "write_handler" /\ queue' = Append(t, h)
      BY <3>1, <3>2, <2>1, <1>0, DoneFacts
    <3>4. CASE queue' = t
      BY <2>1, <3>2, <3>3, <3>4, <1>0, OpSets
    <3>5. CASE \E h \in Handler : h.op = "write_handler" /\ queue' = Append(t, h)
      <4>1. PICK h \in Handler : h.op = "write_handler" /\ queue' = Append(t, h)
        BY <3>5
      <4> QED BY <2>1, <3>2, <3>3, <4>1, <1>0, AppendAll, OpSets
    <3> QED BY <3>3, <3>4, <3>5, Zenon
  <2> QED BY <2>3, <2>4, Zenon
<1>7. CASE write_handler
  <2>1. queue # <<>> /\ Head(queue).op = "write_handler" /\ queue' = t
    BY <1>7 DEF write_handler, t
  <2>2. Head(queue).n \in Nat
    BY <2>1, <1>0 DEF Handler
  <2>3. size' \in 0..sent
    BY <1>7, <2>2, ClientAssumption DEF write_handler, Consumed
  <2> QED BY <1>7, <2>1, <2>3, <1>0, OpSets DEF write_handler
<1>8. CASE RunReturns
  <2>1. Task("stop_event") \in Handler /\ Task("stop_event").op = "stop_event"
    BY TaskType DEF Ops
  <2>2. CASE Runs("stop_event") /\ Posts("stop_event")
    <3>1. queue # <<>> /\ Head(queue).op = "stop_event"
      BY <2>2 DEF Runs
    <3>2. queue' = Append(t, Task("stop_event"))
      BY <2>2 DEF Posts, t
    <3> QED BY <1>8, <2>1, <3>1, <3>2, <1>0, AppendAll, OpSets DEF RunReturns
  <2>3. CASE /\ io = "running" /\ queue = <<>> /\ ops = {} /\ writes = <<>>
             /\ queue' = <<Task("stop_event")>>
    <3>1. queue' = Append(queue, Task("stop_event")) /\ queue \in Seq(Handler)
      BY <2>3
    <3>2. \A S : /\ Task("stop_event").op \notin S => Free(queue', S)
                 /\ Single(queue', S)
      <4>1. \A S : Free(queue, S) /\ Single(queue, S)
        BY <2>3 DEF Free, Single
      <4> QED BY <2>1, <3>1, <4>1, AppendAll
    <3>3. queue' \in Seq(Handler)
      BY <2>1, <3>1, AppendAll
    <3>4. ~(connected = "yes" /\ closed = "no") /\ app # "connect"
      BY <2>3, EmptyFacts
    <3> QED BY <1>8, <2>1, <2>3, <3>2, <3>3, <3>4, OpSets DEF RunReturns
  <2> QED BY <1>8, <2>2, <2>3 DEF RunReturns
<1> QED BY <1>1, <1>2, <1>3, <1>4, <1>5, <1>6, <1>7, <1>8 DEF IoThread

\* The invariant says what the properties say.
LEMMA ClientInvImplies ==
  ClientInv => OneChainEach /\ SetBeforeRead /\ ChainsUntilClose
<1> SUFFICES ASSUME ClientInv PROVE OneChainEach /\ SetBeforeRead /\ ChainsUntilClose
  OBVIOUS
<1>1. \A S : Posted(S) = {} <=> Free(queue, S)
  BY DEF Posted, Free
<1>2. \A S : (\A i, j \in Posted(S) : i = j) <=> Single(queue, S)
  BY DEF Posted, Single
<1>3. OneChainEach
  BY <1>1, <1>2 DEF ClientInv, Chains, OneChainEach
<1>4. SetBeforeRead
  BY <1>1 DEF ClientInv, Phase, AppInv, SetBeforeRead, LaterOps
<1>5. ChainsUntilClose
  BY <1>1 DEF ClientInv, Chains, ChainsUntilClose
<1> QED BY <1>3, <1>4, <1>5

\* Whatever the two threads, the network and the server do in whatever order, the
\* client has one Process and one read, has both until Close once it is connected,
\* and never looks at a flag that nobody has set.
THEOREM ClientSound ==
  ClientSpec => [](ClientTypeOK /\ OneChainEach /\ SetBeforeRead /\ ChainsUntilClose)
<1>1. ClientInv /\ UNCHANGED clientVars => ClientInv'
  BY DEF clientVars, appVars, bufVars, ClientInv, ClientTypeOK, OneConnect, Phase, Chains, AppInv
<1>2. ClientInv /\ [ClientNext]_clientVars => ClientInv'
  BY <1>1, AppStep, IoStep, NetworkStep DEF ClientNext
<1>3. ClientInv => ClientTypeOK /\ OneChainEach /\ SetBeforeRead /\ ChainsUntilClose
  BY ClientInvImplies DEF ClientInv
<1> QED BY <1>2, <1>3, ClientInvInit, PTL DEF ClientSpec

-----------------------------------------------------------------------------
(* From Close to the end of the join *)

\* The handlers of q are still the first ones of r.
Keeps(q, r) == Len(q) <= Len(r) /\ \A i \in 1..Len(q) : r[i] = q[i]

\* A queue keeps its handlers when others are posted.
LEMMA KeepsAppend ==
  ASSUME NEW q \in Seq(Handler), NEW r \in Seq(Handler), NEW h \in Handler, Keeps(q, r)
  PROVE  Append(r, h) \in Seq(Handler) /\ Keeps(q, Append(r, h))
<1>1. Len(Append(r, h)) = Len(r) + 1 /\ \A i \in 1..Len(r) : Append(r, h)[i] = r[i]
  OBVIOUS
<1>2. Append(r, h) \in Seq(Handler) /\ Len(q) \in Nat /\ Len(r) \in Nat
  OBVIOUS
<1>3. \A i \in 1..Len(q) : i \in 1..Len(r)
  BY <1>2 DEF Keeps
<1> QED BY <1>1, <1>2, <1>3 DEF Keeps

\* A queue keeps its own handlers.
LEMMA KeepsSelf == ASSUME NEW q \in Seq(Handler) PROVE Keeps(q, q)
<1>1. Len(q) \in Nat
  OBVIOUS
<1> QED BY <1>1 DEF Keeps

\* A handler other than the stop event takes itself from the front of the queue,
\* posts what it posts at the end, and leaves the io_context running.
LEMMA IoTakesFirst ==
  ASSUME ClientInv, IoThread, ~RunReturns
  PROVE  /\ queue # <<>> /\ Head(queue).op # "stop_event"
         /\ Keeps(Tail(queue), queue')
         /\ UNCHANGED <<app, io, stopped>>
<1> DEFINE t == Tail(queue)
<1> USE DEF Runs, appVars
<1>0. \A op \in Ops : Task(op) \in Handler
  BY TaskType
<1>1. queue # <<>> => t \in Seq(Handler) /\ Keeps(t, t)
  <2>1. queue # <<>> => t \in Seq(Handler)
    BY TailAll DEF ClientInv, ClientTypeOK
  <2> QED BY <2>1, KeepsSelf
<1> HIDE DEF t
<1>2. \A op \in Ops : queue # <<>> => /\ Append(t, Task(op)) \in Seq(Handler)
                                     /\ Keeps(t, Append(t, Task(op)))
  BY <1>0, <1>1, KeepsAppend
<1>3. \A op, pp \in Ops : queue # <<>> => Keeps(t, Append(Append(t, Task(op)), Task(pp)))
  BY <1>0, <1>1, <1>2, KeepsAppend
<1>4. CASE resolve_handler \/ resolve_failed \/ Receive \/ write_handler
  BY <1>4, <1>1 DEF resolve_handler, resolve_failed, Receive, write_handler, t
<1>5. CASE connect_handler
  <2>1. "Receive" \in Ops /\ "Process" \in Ops
    BY DEF Ops
  <2> QED BY <1>5, <2>1, <1>3 DEF connect_handler, t
<1>6. CASE read_handler
  <2>1. "Receive" \in Ops
    BY DEF Ops
  <2> QED BY <1>6, <2>1, <1>1, <1>2 DEF read_handler, Posts, t
<1>7. CASE Process
  <2>1. "Send" \in Ops /\ "Process" \in Ops
    BY DEF Ops
  <2>2. PICK q \in {t, Append(t, Task("Send"))} :
              queue' = IF Ended THEN q ELSE Append(q, Task("Process"))
    BY <1>7 DEF Process, t
  <2>3. queue # <<>> /\ Head(queue).op = "Process"
    BY <1>7 DEF Process
  <2>4. Keeps(t, queue')
    BY <2>1, <2>2, <2>3, <1>1, <1>2, <1>3
  <2> QED BY <1>7, <2>3, <2>4 DEF Process, t
<1>8. CASE Send
  <2>1. "write_handler" \in Ops
    BY DEF Ops
  <2>2. CASE socket = "failed" \/ size = 0
    BY <1>8, <2>1, <2>2, <1>1, <1>2 DEF Send, Posts, t
  <2>3. CASE ~(socket = "failed" \/ size = 0)
    <3> DEFINE w == Append(writes, [from |-> sent - size, n |-> size])
    <3>1. w \in Seq(Write) /\ w # <<>>
      <4>1. writes \in Seq(Write) /\ sent \in Nat /\ size \in 0..sent
        BY ClientAssumption DEF ClientInv, ClientTypeOK
      <4> QED BY <4>1, NewWrite, Zenon
    <3>2. /\ IF Len(w) > MaxWrites THEN WriteDone(w, t) ELSE queue' = t
          /\ queue # <<>> /\ Head(queue).op = "Send"
          /\ UNCHANGED <<app, io, stopped>>
      BY <1>8, <2>3 DEF Send, t
    <3> HIDE DEF w
    <3>3. wire \in Seq(Nat)
      BY DEF ClientInv, ClientTypeOK
    <3>4. Keeps(t, queue')
      BY <1>1, <3>1, <3>2, <3>3, DoneFacts, KeepsAppend
    <3> QED BY <3>2, <3>4 DEF t
  <2> QED BY <2>2, <2>3
<1> QED BY <1>4, <1>5, <1>6, <1>7, <1>8 DEF IoThread

\* A completion only posts its handler.
LEMMA NetworkPosts ==
  ASSUME ClientInv, Network
  PROVE  Keeps(queue, queue') /\ UNCHANGED <<app, io, stopped>>
<1> USE DEF appVars
<1>0. queue \in Seq(Handler)
  BY DEF ClientInv, ClientTypeOK
<1>1. \A op \in Ops : Keeps(queue, Append(queue, Task(op)))
  BY <1>0, TaskType, KeepsSelf, KeepsAppend
<1>2. CASE ResolveCompletes \/ ConnectCompletes \/ ReadCompletes
  <2>1. \E op \in {"resolve_handler", "resolve_failed", "connect_handler",
                   "read_handler"} : queue' = Append(queue, Task(op))
    BY <1>2 DEF ResolveCompletes, ConnectCompletes, ReadCompletes
  <2>2. Keeps(queue, queue')
    BY <1>1, <2>1 DEF Ops
  <2> QED BY <1>2, <2>2 DEF ResolveCompletes, ConnectCompletes, ReadCompletes
<1>3. CASE WriteCompletes
  <2>1. \E h \in Handler : queue' = Append(queue, h)
    BY <1>3, DoneFacts DEF WriteCompletes, ClientInv, ClientTypeOK
  <2>2. Keeps(queue, queue')
    BY <1>0, <2>1, KeepsSelf, KeepsAppend
  <2> QED BY <1>3, <2>2 DEF WriteCompletes
<1>4. CASE ServerCloses
  BY <1>0, <1>4, KeepsSelf DEF ServerCloses
<1> QED BY <1>2, <1>3, <1>4 DEF Network

\* Once the io_context is stopped there is a stop event for the thread that has
\* not returned from run yet; the thread is started once, and the application joins
\* it only after Close.
StopInv ==
  /\ app = "thread" => io = "none"
  /\ app = "join" => stopped
  /\ stopped /\ io # "finished" => ~Free(queue, {"stop_event"})

\* A stop event stays in the queue while handlers are posted behind it.
LEMMA StopKept ==
  ASSUME NEW q \in Seq(Handler), NEW r, Keeps(q, r), ~Free(q, {"stop_event"}),
         Len(r) \in Nat
  PROVE  ~Free(r, {"stop_event"})
<1>1. PICK i \in 1..Len(q) : q[i].op = "stop_event"
  BY DEF Free
<1>2. Len(q) \in Nat
  OBVIOUS
<1>3. i \in 1..Len(r) /\ r[i] = q[i]
  BY <1>1, <1>2 DEF Keeps
<1> QED BY <1>1, <1>3 DEF Free

\* Every step keeps StopInv.
LEMMA StopInvStep == ClientInv /\ ClientInv' /\ StopInv /\ [ClientNext]_clientVars => StopInv'
<1> SUFFICES ASSUME ClientInv, ClientInv', StopInv, [ClientNext]_clientVars
             PROVE  StopInv'
  OBVIOUS
<1>0. queue \in Seq(Handler) /\ queue' \in Seq(Handler) /\ Len(queue') \in Nat
  BY DEF ClientInv, ClientTypeOK
<1>1. CASE clientStart
  <2>1. CASE CloseStops
    <3>1. CASE stopped
      BY <2>1, <3>1 DEF CloseStops, StopInv
    <3>2. CASE ~stopped
      <4>1. Task("stop_event") \in Handler /\ Task("stop_event").op = "stop_event"
        BY TaskType DEF Ops
      <4>2. ~Free(queue', {"stop_event"})
        BY <1>0, <2>1, <3>2, <4>1, AppendAll DEF CloseStops
      <4> QED BY <2>1, <4>2 DEF CloseStops, StopInv
    <3> QED BY <3>1, <3>2
  <2>2. CASE Connect
    BY <2>2 DEF Connect, StopInv, ClientInv, AppInv
  <2>3. CASE StartThread
    BY <2>3 DEF StartThread, StopInv
  <2>4. CASE SendBegin \/ SendEnd \/ Close \/ Join \/ Restart
    BY <2>4 DEF SendBegin, SendEnd, Close, Join, Restart, StopInv
  <2> QED BY <1>1, <2>1, <2>2, <2>3, <2>4 DEF clientStart
<1>2. CASE RunReturns
  BY <1>2 DEF RunReturns, Runs, StopInv, appVars
<1>3. CASE IoThread /\ ~RunReturns
  <2>1. /\ queue # <<>> /\ Head(queue).op # "stop_event"
        /\ Keeps(Tail(queue), queue') /\ UNCHANGED <<app, io, stopped>>
    BY <1>3, IoTakesFirst
  <2>2. ~Free(queue, {"stop_event"}) => ~Free(Tail(queue), {"stop_event"})
    BY <1>0, <2>1, TailAll
  <2>3. ~Free(queue, {"stop_event"}) => ~Free(queue', {"stop_event"})
    BY <1>0, <2>1, <2>2, TailAll, StopKept
  <2> QED BY <2>1, <2>3 DEF StopInv
<1>4. CASE Network
  BY <1>0, <1>4, NetworkPosts, StopKept DEF StopInv
<1>5. CASE UNCHANGED clientVars
  BY <1>5 DEF clientVars, appVars, bufVars, StopInv
<1> QED BY <1>1, <1>2, <1>3, <1>4, <1>5 DEF ClientNext

\* What StopComesUp says of one step.
ComesUp ==
  app = "join" /\ io = "running" =>
    /\ Posted({"stop_event"}) # {}
    /\ \A i \in Posted({"stop_event"}) :
         \/ io' = "finished"
         \/ IoThread /\ i > 1 /\ i - 1 \in Posted({"stop_event"})'
         \/ Network /\ i \in Posted({"stop_event"})'

\* While the application joins, each step is such a step.
LEMMA ComesUpStep == ClientInv /\ ClientInv' /\ StopInv /\ ClientNext => ComesUp
<1> SUFFICES ASSUME ClientInv, ClientInv', StopInv, ClientNext,
                    app = "join", io = "running"
             PROVE  ComesUp
  BY DEF ComesUp
<1>0. /\ queue \in Seq(Handler) /\ Len(queue) \in Nat
      /\ queue' \in Seq(Handler) /\ Len(queue') \in Nat
  BY DEF ClientInv, ClientTypeOK
<1>1. Posted({"stop_event"}) # {}
  BY DEF StopInv, Free, Posted
<1>2. CASE RunReturns
  BY <1>1, <1>2 DEF RunReturns, ComesUp
<1>3. CASE IoThread /\ ~RunReturns
  <2>1. /\ queue # <<>> /\ Head(queue).op # "stop_event"
        /\ Keeps(Tail(queue), queue')
    BY <1>3, IoTakesFirst
  <2>2. ASSUME NEW i \in Posted({"stop_event"})
        PROVE  i > 1 /\ i - 1 \in Posted({"stop_event"})'
    <3>1. i \in 1..Len(queue) /\ queue[i].op = "stop_event"
      BY <2>2 DEF Posted
    <3>2. i # 1
      BY <1>0, <2>1, <3>1
    <3>3. /\ i - 1 \in 1..Len(Tail(queue)) /\ Tail(queue)[i - 1] = queue[i]
          /\ Len(Tail(queue)) \in Nat
      BY <1>0, <2>1, <3>1, <3>2
    <3> DEFINE t == Tail(queue)
               k == i - 1
    <3>4. k \in 1..Len(t) /\ t[k] = queue[i] /\ Len(t) \in Nat /\ Keeps(t, queue')
      BY <2>1, <3>3
    <3> HIDE DEF t, k
    <3>5. k \in 1..Len(queue') /\ queue'[k] = queue[i]
      BY <1>0, <3>4 DEF Keeps
    <3> QED BY <1>0, <3>1, <3>2, <3>5 DEF Posted, k
  <2> QED BY <1>1, <1>3, <2>2 DEF ComesUp
<1>4. CASE Network
  <2>1. \A i \in 1..Len(queue) : i \in 1..Len(queue') /\ queue'[i] = queue[i]
    BY <1>0, <1>4, NetworkPosts DEF Keeps
  <2>2. \A i \in Posted({"stop_event"}) : i \in Posted({"stop_event"})'
    BY <2>1 DEF Posted
  <2> QED BY <1>1, <1>4, <2>2 DEF ComesUp
<1>5. CASE clientStart
  BY <1>5 DEF clientStart, Connect, StartThread, SendBegin, SendEnd, Close,
              CloseStops, Join, Restart
<1> QED BY <1>2, <1>3, <1>4, <1>5 DEF ClientNext

\* The core of CloseJoins, for any number of messages and of writes in flight:
\* Close leaves a stop event in the queue, the handlers that are queued before it
\* are all that the application can still have to wait for, and none of them, nor
\* a completion that arrives meanwhile, puts anything in front of it.
THEOREM ClientStops == ClientSpec => []StopInv /\ StopComesUp
<1>1. ClientInv /\ [ClientNext]_clientVars => ClientInv'
  <2>1. ClientInv /\ UNCHANGED clientVars => ClientInv'
    BY DEF clientVars, appVars, bufVars, ClientInv, ClientTypeOK, OneConnect, Phase, Chains,
           AppInv
  <2> QED BY <2>1, AppStep, IoStep, NetworkStep DEF ClientNext
<1>2. ClientInit => StopInv
  BY DEF ClientInit, StopInv
<1>3. ClientInv /\ ClientInv' /\ StopInv /\ [ClientNext]_clientVars
        => [ComesUp]_clientVars
  BY ComesUpStep
<1> QED
  BY <1>1, <1>2, <1>3, ClientInvInit, StopInvStep, PTL
     DEF ClientSpec, StopComesUp, ComesUp

-----------------------------------------------------------------------------
(* What is written *)

\* A handler whose write has transferred something; no handler of q is one; exactly
\* one is, and has transferred n messages.
Covers(h) == h.op = "write_handler" /\ h.n > 0
Idle(q) == \A i \in 1..Len(q) : ~Covers(q[i])
Holds(q, n) ==
  \E k \in 1..Len(q) : /\ Covers(q[k]) /\ q[k].n = n
                      /\ \A j \in 1..Len(q) : Covers(q[j]) => j = k

\* Until a clash, what has been taken from the buffer is on the wire, and at most one
\* write is between its start and its consume: it covers the front of the buffer.
WireInv ==
  ~clash =>
    /\ \A i \in 1..Len(wire) : wire[i] = i
    /\ \/ /\ Idle(queue) /\ Len(wire) = sent - size
          /\ writes # <<>> => /\ Tail(writes) = <<>>
                              /\ Head(writes).from = sent - size /\ Head(writes).n <= size
       \/ /\ writes = <<>>
          /\ \E n \in 1..size : Holds(queue, n) /\ Len(wire) = sent - size + n

\* r has the same ends of writes as q.
SameEnds(q, r) == (Idle(q) => Idle(r)) /\ \A n : Holds(q, n) => Holds(r, n)

\* Taking the oldest handler from the queue.
LEMMA TailEnds ==
  ASSUME NEW q \in Seq(Handler), q # <<>>
  PROVE  /\ Idle(q) => Idle(Tail(q)) /\ ~Covers(Head(q))
         /\ ~Covers(Head(q)) => SameEnds(q, Tail(q))
         /\ \A n : Holds(q, n) /\ Covers(Head(q)) => Head(q).n = n /\ Idle(Tail(q))
<1> DEFINE t == Tail(q)
<1>1. /\ Len(q) \in Nat \ {0} /\ Len(t) = Len(q) - 1 /\ Head(q) = q[1]
      /\ \A i \in 1..Len(t) : t[i] = q[i + 1]
  OBVIOUS
<1>2. \A i \in 1..Len(t) : i + 1 \in 1..Len(q) /\ i + 1 # 1
  BY <1>1
<1>3. \A i \in 1..Len(q) : i # 1 => i - 1 \in 1..Len(t) /\ (i - 1) + 1 = i
  BY <1>1
<1>4. 1 \in 1..Len(q)
  BY <1>1
<1> HIDE DEF t
<1>5. Idle(q) => Idle(t) /\ ~Covers(Head(q))
  BY <1>1, <1>2, <1>4 DEF Idle
<1>6. ASSUME NEW n, Holds(q, n), Covers(Head(q)) PROVE Head(q).n = n /\ Idle(t)
  <2>1. PICK k \in 1..Len(q) : /\ Covers(q[k]) /\ q[k].n = n
                              /\ \A j \in 1..Len(q) : Covers(q[j]) => j = k
    BY <1>6 DEF Holds
  <2>2. k = 1
    BY <1>1, <1>4, <1>6, <2>1
  <2>3. \A i \in 1..Len(t) : ~Covers(t[i])
    BY <1>1, <1>2, <2>1, <2>2
  <2> QED BY <1>1, <2>1, <2>2, <2>3 DEF Idle
<1>7. ASSUME NEW n, Holds(q, n), ~Covers(Head(q)) PROVE Holds(t, n)
  <2>1. PICK k \in 1..Len(q) : /\ Covers(q[k]) /\ q[k].n = n
                              /\ \A j \in 1..Len(q) : Covers(q[j]) => j = k
    BY <1>7 DEF Holds
  <2>2. k # 1
    BY <1>1, <1>7, <2>1
  <2>3. k - 1 \in 1..Len(t) /\ t[k - 1] = q[k]
    BY <1>1, <1>3, <2>2
  <2>4. ASSUME NEW j \in 1..Len(t), Covers(t[j]) PROVE j = k - 1
    <3>1. j + 1 = k
      BY <1>1, <1>2, <2>1, <2>4
    <3> QED BY <3>1, <1>1
  <2> QED BY <2>1, <2>3, <2>4 DEF Holds
<1>8. ~Covers(Head(q)) => SameEnds(q, t)
  BY <1>5, <1>7 DEF SameEnds
<1> QED BY <1>5, <1>6, <1>8 DEF t

\* A posted handler that has transferred nothing changes nothing; one that has is
\* the only one.
LEMMA AppendEnds ==
  ASSUME NEW q \in Seq(Handler), NEW h \in Handler
  PROVE  /\ ~Covers(h) => SameEnds(q, Append(q, h))
         /\ Idle(q) /\ Covers(h) => Holds(Append(q, h), h.n)
<1> DEFINE a == Append(q, h)
           m == Len(q) + 1
<1>1. /\ Len(q) \in Nat /\ Len(a) = m /\ a[m] = h
      /\ \A i \in 1..Len(q) : a[i] = q[i]
  OBVIOUS
<1>2. 1..Len(a) = 1..Len(q) \cup {m}
  BY <1>1
<1> HIDE DEF a, m
<1>3. Idle(q) /\ ~Covers(h) => Idle(a)
  BY <1>1, <1>2 DEF Idle
<1>4. ASSUME NEW n, Holds(q, n), ~Covers(h) PROVE Holds(a, n)
  <2>1. PICK k \in 1..Len(q) : /\ Covers(q[k]) /\ q[k].n = n
                              /\ \A j \in 1..Len(q) : Covers(q[j]) => j = k
    BY <1>4 DEF Holds
  <2>2. k \in 1..Len(a) /\ a[k] = q[k]
    BY <1>1, <1>2
  <2>3. \A j \in 1..Len(a) : Covers(a[j]) => j = k
    BY <1>1, <1>2, <1>4, <2>1
  <2> QED BY <2>1, <2>2, <2>3 DEF Holds
<1>5. ASSUME Idle(q), Covers(h) PROVE Holds(a, h.n)
  <2>1. m \in 1..Len(a) /\ a[m] = h
    BY <1>1, <1>2
  <2>2. \A j \in 1..Len(a) : Covers(a[j]) => j = m
    BY <1>1, <1>2, <1>5 DEF Idle
  <2> QED BY <1>5, <2>1, <2>2 DEF Holds
<1>6. ~Covers(h) => SameEnds(q, a)
  BY <1>3, <1>4 DEF SameEnds
<1> QED BY <1>5, <1>6 DEF a

\* A posted function has transferred nothing.
LEMMA TaskEnds == \A op \in Ops : Task(op) \in Handler /\ ~Covers(Task(op))
<1>1. \A op \in Ops : Task(op) \in Handler /\ Task(op).n = 0
  BY TaskType DEF Task
<1> QED BY <1>1 DEF Covers

\* The same ends, one after the other.
LEMMA EndsTrans ==
  ASSUME NEW p, NEW q, NEW r, SameEnds(p, q), SameEnds(q, r) PROVE SameEnds(p, r)
BY DEF SameEnds

\* A step that leaves the ends of writes as they are keeps the invariant.
LEMMA KeepsWire ==
  ASSUME WireInv, SameEnds(queue, queue'), clash => clash',
         sent' - size' = sent - size, size \in Nat, size' \in Nat, size' >= size,
         writes \in Seq(Write), UNCHANGED <<writes, wire>>
  PROVE  WireInv'
<1> SUFFICES ASSUME ~clash' PROVE WireInv'
  BY DEF WireInv
<1>0. writes # <<>> => Head(writes).n \in Nat
  <2>1. writes # <<>> => Head(writes) \in Write
    OBVIOUS
  <2> QED BY <2>1 DEF Write
<1>1. ~clash /\ \A i \in 1..Len(wire) : wire[i] = i
  BY DEF WireInv
<1>2. CASE /\ Idle(queue) /\ Len(wire) = sent - size
           /\ writes # <<>> => /\ Tail(writes) = <<>>
                               /\ Head(writes).from = sent - size /\ Head(writes).n <= size
  <2>1. Idle(queue') /\ Len(wire') = sent' - size'
    BY <1>2 DEF SameEnds
  <2>2. writes # <<>> => Head(writes).n <= size'
    BY <1>0, <1>2
  <2> QED BY <1>1, <1>2, <2>1, <2>2 DEF WireInv
<1>3. CASE /\ writes = <<>>
           /\ \E n \in 1..size : Holds(queue, n) /\ Len(wire) = sent - size + n
  <2>1. PICK n \in 1..size : Holds(queue, n) /\ Len(wire) = sent - size + n
    BY <1>3
  <2>2. n \in 1..size' /\ Holds(queue', n) /\ Len(wire') = sent' - size' + n
    BY <2>1 DEF SameEnds
  <2> QED BY <1>1, <1>3, <2>2 DEF WireInv
<1> QED BY <1>1, <1>2, <1>3 DEF WireInv

\* The steps that neither start nor end a write.
LEMMA OtherWire ==
  ASSUME ClientInv, ClientInv', WireInv,
         \/ Connect \/ StartThread \/ SendBegin \/ SendEnd \/ Close \/ CloseStops \/ Join
         \/ ResolveCompletes \/ ConnectCompletes \/ ReadCompletes \/ ServerCloses
         \/ resolve_handler \/ resolve_failed \/ connect_handler
         \/ Receive \/ read_handler \/ Process \/ RunReturns
  PROVE  WireInv'
<1> DEFINE t == Tail(queue)
<1> USE DEF appVars, bufVars
<1>0. /\ queue \in Seq(Handler) /\ writes \in Seq(Write) /\ sent \in Nat /\ sent' \in Nat
      /\ size \in Nat /\ size' \in Nat
  BY ClientAssumption DEF ClientInv, ClientTypeOK
<1>1. /\ UNCHANGED <<writes, wire>>
      /\ clash => clash'
      /\ sent' - size' = sent - size /\ size' >= size
  <2>1. CASE SendBegin
    <3>1. UNCHANGED <<sent, size, writes, wire>>
      BY <2>1 DEF SendBegin
    <3>2. clash => clash'
      BY <2>1, Zenon DEF SendBegin
    <3> QED BY <1>0, <3>1, <3>2
  <2>2. CASE SendEnd
    <3>1. UNCHANGED <<clash, writes, wire>> /\ sent' = sent + 1 /\ size' = size + 1
      BY <2>2 DEF SendEnd
    <3> QED BY <1>0, <3>1
  <2>3. CASE ~SendBegin /\ ~SendEnd
    <3>1. UNCHANGED <<sent, size, clash, writes, wire>>
      BY <2>3 DEF Connect, StartThread, Close, CloseStops, Join, ResolveCompletes,
         ConnectCompletes, ReadCompletes, ServerCloses, resolve_handler, resolve_failed,
         connect_handler, Receive, read_handler, Process, RunReturns
    <3> QED BY <1>0, <3>1
  <2> QED BY <2>1, <2>2, <2>3
<1>2. SameEnds(queue, queue)
  BY DEF SameEnds
<1>3. \A op \in Ops : SameEnds(queue, Append(queue, Task(op)))
  BY <1>0, TaskEnds, AppendEnds
<1>4. ASSUME queue # <<>>, Head(queue).op # "write_handler"
      PROVE  /\ SameEnds(queue, t)
             /\ \A op \in Ops : /\ Append(t, Task(op)) \in Seq(Handler)
                               /\ SameEnds(queue, Append(t, Task(op)))
             /\ \A op, pp \in Ops : SameEnds(queue, Append(Append(t, Task(op)), Task(pp)))
  <2>1. t \in Seq(Handler) /\ SameEnds(queue, t)
    BY <1>0, <1>4, TailEnds DEF Covers
  <2> HIDE DEF t
  <2>2. \A op \in Ops : Append(t, Task(op)) \in Seq(Handler)
    BY <2>1, TaskEnds
  <2>3. \A op \in Ops : SameEnds(t, Append(t, Task(op)))
    BY <2>1, TaskEnds, AppendEnds
  <2>4. \A op \in Ops : SameEnds(queue, Append(t, Task(op)))
    BY <2>1, <2>3, EndsTrans
  <2>5. \A op, pp \in Ops : SameEnds(Append(t, Task(op)), Append(Append(t, Task(op)), Task(pp)))
    BY <2>2, TaskEnds, AppendEnds
  <2>6. \A op, pp \in Ops : SameEnds(queue, Append(Append(t, Task(op)), Task(pp)))
    BY <2>4, <2>5, EndsTrans
  <2> QED BY <2>1, <2>2, <2>4, <2>6
<1> HIDE DEF t
<1>5. SameEnds(queue, queue')
  <2>1. CASE Connect \/ StartThread \/ SendBegin \/ SendEnd \/ Close \/ Join \/ ServerCloses
    BY <1>2, <2>1 DEF Connect, StartThread, SendBegin, SendEnd, Close, Join, ServerCloses
  <2>2. CASE CloseStops \/ ResolveCompletes \/ ConnectCompletes \/ ReadCompletes
    <3>1. \/ queue' = queue
          \/ \E op \in {"stop_event", "resolve_handler", "resolve_failed", "connect_handler",
                        "read_handler"} : queue' = Append(queue, Task(op))
      BY <2>2 DEF CloseStops, ResolveCompletes, ConnectCompletes, ReadCompletes
    <3> QED BY <1>2, <1>3, <3>1 DEF Ops
  <2>3. CASE resolve_handler \/ resolve_failed \/ Receive
    BY <1>4, <2>3 DEF resolve_handler, resolve_failed, Receive, Runs, t
  <2>4. CASE connect_handler
    <3>1. "Receive" \in Ops /\ "Process" \in Ops
      BY DEF Ops
    <3> QED BY <1>4, <2>4, <3>1 DEF connect_handler, Runs, t
  <2>5. CASE read_handler
    <3>1. "Receive" \in Ops
      BY DEF Ops
    <3> QED BY <1>4, <2>5, <3>1 DEF read_handler, Runs, Posts, t
  <2>6. CASE Process
    <3>1. "Send" \in Ops /\ "Process" \in Ops
      BY DEF Ops
    <3>2. PICK q \in {t, Append(t, Task("Send"))} :
                queue' = IF Ended THEN q ELSE Append(q, Task("Process"))
      BY <2>6 DEF Process, t
    <3>3. queue # <<>> /\ Head(queue).op # "write_handler"
      BY <2>6 DEF Process, Runs
    <3> QED BY <1>4, <3>1, <3>2, <3>3
  <2>7. CASE RunReturns
    <3>1. "stop_event" \in Ops
      BY DEF Ops
    <3>2. CASE Runs("stop_event") /\ Posts("stop_event")
      BY <1>4, <3>1, <3>2 DEF Runs, Posts, t
    <3>3. CASE queue = <<>> /\ queue' = <<Task("stop_event")>>
      <4>1. queue' = Append(queue, Task("stop_event"))
        BY <3>3
      <4> QED BY <1>3, <3>1, <4>1
    <3> QED BY <2>7, <3>2, <3>3 DEF RunReturns
  <2> QED BY <2>1, <2>2, <2>3, <2>4, <2>5, <2>6, <2>7
<1> QED BY <1>0, <1>1, <1>5, KeepsWire, Zenon

\* A write is started at the front of the buffer, and alone unless there is a clash.
LEMMA SendWire == ASSUME ClientInv, WireInv, Send PROVE WireInv'
<1> DEFINE t == Tail(queue)
<1>0. /\ queue \in Seq(Handler) /\ writes \in Seq(Write) /\ size \in Nat
      /\ sent \in Nat /\ clash \in BOOLEAN
  BY ClientAssumption DEF ClientInv, ClientTypeOK
<1>1. /\ queue # <<>> /\ t \in Seq(Handler) /\ SameEnds(queue, t)
      /\ Idle(queue) => Idle(t)
  <2>1. queue # <<>> /\ Head(queue).op = "Send"
    BY DEF Send, Runs
  <2>2. ~Covers(Head(queue))
    BY <2>1 DEF Covers
  <2> QED BY <1>0, <2>1, <2>2, TailEnds
<1>2. UNCHANGED <<sent, size>>
  BY DEF Send, appVars
<1>3. CASE socket = "failed" \/ size = 0
  <2>1. queue' = Append(t, Task("write_handler")) /\ UNCHANGED <<writes, wire, clash>>
    BY <1>3 DEF Send, Posts
  <2>2. Task("write_handler") \in Handler /\ ~Covers(Task("write_handler"))
    BY TaskEnds DEF Ops
  <2> HIDE DEF t
  <2>3. SameEnds(queue, queue')
    BY <1>1, <2>1, <2>2, AppendEnds, EndsTrans
  <2>4. sent' - size' = sent - size /\ size' \in Nat /\ size' >= size
    BY <1>0, <1>2
  <2> QED BY <1>0, <2>1, <2>3, <2>4, KeepsWire, Zenon
<1>4. CASE ~(socket = "failed" \/ size = 0)
  <2> DEFINE h == [from |-> sent - size, n |-> size]
             w == Append(writes, h)
  <2>1. /\ clash' = (clash \/ Covered)
        /\ IF Len(w) > MaxWrites THEN WriteDone(w, t)
           ELSE writes' = w /\ queue' = t /\ UNCHANGED wire
    BY <1>4 DEF Send
  <2>2. SUFFICES ASSUME ~clash' PROVE WireInv'
    BY DEF WireInv
  <2>3. ~clash /\ ~Covered
    BY <2>1, <2>2, Zenon
  <2>4. writes = <<>> /\ Idle(queue)
    BY <2>3 DEF Covered, Idle, Covers
  <2>5. w = <<h>> /\ Len(w) = 1 /\ w # <<>> /\ Head(w) = h /\ Tail(w) = <<>>
    BY <2>4
  <2>6. writes' = w /\ queue' = t /\ UNCHANGED wire
    BY <2>1, <2>5, ClientAssumption
  <2>7. h.from = sent - size /\ h.n = size
    OBVIOUS
  <2>8. \A n : ~Holds(queue, n)
    BY <2>4 DEF Holds, Idle
  <2>9. Len(wire) = sent - size /\ \A i \in 1..Len(wire) : wire[i] = i
    BY <2>3, <2>8 DEF WireInv
  <2> HIDE DEF h, w, t
  <2>10. Head(writes').n <= size'
    BY <1>0, <1>2, <2>5, <2>6, <2>7
  <2> QED BY <1>1, <1>2, <2>4, <2>5, <2>6, <2>7, <2>9, <2>10 DEF WireInv
<1> QED BY <1>3, <1>4

\* What a write transfers goes on the wire behind the rest.
LEMMA CompletesWire == ASSUME ClientInv, WireInv, WriteCompletes PROVE WireInv'
<1>0. /\ queue \in Seq(Handler) /\ writes \in Seq(Write) /\ wire \in Seq(Nat)
      /\ size \in Nat /\ sent \in Nat /\ writes # <<>>
  BY ClientAssumption DEF ClientInv, ClientTypeOK, WriteCompletes
<1>1. UNCHANGED <<sent, size, clash>>
  BY DEF WriteCompletes, appVars
<1> SUFFICES ASSUME ~clash' PROVE WireInv'
  BY DEF WireInv
<1>2. /\ Idle(queue) /\ Len(wire) = sent - size /\ Tail(writes) = <<>>
      /\ Head(writes).from = sent - size /\ Head(writes).n <= size
      /\ \A i \in 1..Len(wire) : wire[i] = i
  BY <1>0, <1>1 DEF WireInv
<1>3. PICK n \in 0..Head(writes).n :
            /\ queue' = Append(queue, [op |-> "write_handler", n |-> n])
            /\ writes' = Tail(writes)
            /\ wire' = wire \o [i \in 1..n |-> Head(writes).from + i]
  BY Zenon DEF WriteCompletes, WriteDone
<1>4. Head(writes).n \in Nat
  <2>1. Head(writes) \in Write
    BY <1>0
  <2> QED BY <2>1 DEF Write
<1>5. n \in Nat /\ n <= size
  BY <1>0, <1>2, <1>4
<1> DEFINE s == [i \in 1..n |-> Head(writes).from + i]
           h == [op |-> "write_handler", n |-> n]
<1>6. h \in Handler /\ h.n = n /\ (Covers(h) <=> n > 0)
  BY <1>5 DEF Handler, Ops, Covers
<1>7. s \in Seq(Nat) /\ Len(s) = n /\ \A i \in 1..n : s[i] = Len(wire) + i
  <2>1. \A i \in 1..n : s[i] = Len(wire) + i
    BY <1>2
  <2>2. Len(wire) \in Nat
    BY <1>0
  <2>3. s \in Seq(Nat) /\ Len(s) = n
    BY <1>2, <1>5, <2>2
  <2> QED BY <2>1, <2>3
<1> HIDE DEF s, h
<1>8. queue' = Append(queue, h) /\ wire' = wire \o s /\ writes' = <<>>
  BY <1>2, <1>3 DEF s, h
<1>9. Len(wire') = Len(wire) + n /\ \A i \in 1..Len(wire') : wire'[i] = i
  <2>1. /\ Len(wire \o s) = Len(wire) + n /\ Len(wire) \in Nat
        /\ \A i \in 1..(Len(wire) + n) :
             (wire \o s)[i] = IF i <= Len(wire) THEN wire[i] ELSE s[i - Len(wire)]
    <3>1. wire \in Seq(Nat) /\ s \in Seq(Nat) /\ Len(s) = n
      BY <1>0, <1>7
    <3>2. /\ Len(wire \o s) = Len(wire) + Len(s)
          /\ \A i \in 1..Len(wire) + Len(s) :
               (wire \o s)[i] = IF i <= Len(wire) THEN wire[i] ELSE s[i - Len(wire)]
      BY <3>1, ConcatProperties, Zenon
    <3>3. Len(wire) \in Nat
      BY <3>1
    <3> QED BY <3>1, <3>2, <3>3
  <2>2. ASSUME NEW i \in 1..(Len(wire) + n) PROVE (wire \o s)[i] = i
    <3>1. CASE i <= Len(wire)
      BY <1>2, <2>1, <3>1
    <3>2. CASE i > Len(wire)
      <4>1. (wire \o s)[i] = s[i - Len(wire)]
        BY <2>1, <3>2
      <4>2. i - Len(wire) \in 1..n
        BY <1>5, <2>1, <3>2
      <4>3. s[i - Len(wire)] = Len(wire) + (i - Len(wire))
        BY <1>7, <4>2
      <4> QED BY <2>1, <4>1, <4>3
    <3> QED BY <2>1, <3>1, <3>2
  <2> QED BY <1>8, <2>1, <2>2
<1>10. CASE n = 0
  <2>1. Idle(queue') /\ Len(wire') = sent - size
    BY <1>0, <1>2, <1>6, <1>8, <1>9, <1>10, AppendEnds DEF SameEnds
  <2> QED BY <1>1, <1>8, <1>9, <2>1 DEF WireInv
<1>11. CASE n > 0
  <2>1. Holds(queue', n)
    BY <1>0, <1>2, <1>6, <1>8, <1>11, AppendEnds
  <2>2. n \in 1..size /\ Len(wire') = sent - size + n
    BY <1>2, <1>5, <1>9, <1>11
  <2> QED BY <1>1, <1>8, <1>9, <2>1, <2>2 DEF WireInv
<1> QED BY <1>5, <1>10, <1>11

\* The end of a write takes from the buffer what it has put on the wire.
LEMMA ConsumeWire == ASSUME ClientInv, WireInv, write_handler PROVE WireInv'
<1> DEFINE t == Tail(queue)
           h == Head(queue)
<1>0. /\ queue \in Seq(Handler) /\ queue # <<>> /\ size \in Nat /\ sent \in Nat
      /\ h.op = "write_handler" /\ queue' = t
  BY ClientAssumption DEF ClientInv, ClientTypeOK, write_handler, Runs
<1>1. h.n \in Nat
  <2>1. h \in Handler
    BY <1>0
  <2> QED BY <2>1 DEF Handler
<1>2. UNCHANGED <<sent, wire, writes>>
  BY DEF write_handler, appVars
<1> SUFFICES ASSUME ~clash' PROVE WireInv'
  BY DEF WireInv
<1>3. ~clash /\ app # "appending"
  BY Zenon DEF write_handler
<1>4. size' = Consumed(h.n)
  BY <1>3 DEF write_handler
<1>5. \A i \in 1..Len(wire) : wire[i] = i
  BY <1>3 DEF WireInv
<1>6. /\ Idle(queue) => Idle(t) /\ ~Covers(h)
      /\ ~Covers(h) => SameEnds(queue, t)
      /\ \A n : Holds(queue, n) /\ Covers(h) => h.n = n /\ Idle(t)
  BY <1>0, TailEnds
<1> HIDE DEF t, h
<1>7. Covers(h) <=> h.n > 0
  BY <1>0 DEF Covers
<1>8. ~Covers(h) => size' = size
  BY <1>0, <1>1, <1>4, <1>7 DEF Consumed
<1>9. CASE /\ Idle(queue) /\ Len(wire) = sent - size
           /\ writes # <<>> => /\ Tail(writes) = <<>>
                               /\ Head(writes).from = sent - size /\ Head(writes).n <= size
  <2>1. Idle(queue') /\ size' = size
    BY <1>0, <1>6, <1>8, <1>9
  <2> QED BY <1>2, <1>5, <1>9, <2>1 DEF WireInv
<1>10. CASE /\ writes = <<>>
            /\ \E n \in 1..size : Holds(queue, n) /\ Len(wire) = sent - size + n
  <2>1. PICK n \in 1..size : Holds(queue, n) /\ Len(wire) = sent - size + n
    BY <1>10
  <2>2. CASE Covers(h)
    <3>1. Idle(queue') /\ h.n = n
      BY <1>0, <1>6, <2>1, <2>2
    <3>2. size' = size - n /\ Len(wire) = sent - size'
      BY <1>0, <1>4, <2>1, <3>1 DEF Consumed
    <3> QED BY <1>2, <1>5, <1>10, <3>1, <3>2 DEF WireInv
  <2>3. CASE ~Covers(h)
    <3>1. Holds(queue', n) /\ size' = size
      BY <1>0, <1>6, <1>8, <2>1, <2>3 DEF SameEnds
    <3> QED BY <1>2, <1>5, <1>10, <2>1, <3>1 DEF WireInv
  <2> QED BY <2>2, <2>3
<1> QED BY <1>3, <1>9, <1>10 DEF WireInv

\* Every step keeps the invariant.
LEMMA WireStep == ClientInv /\ ClientInv' /\ WireInv /\ [ClientNext]_clientVars => WireInv'
<1> SUFFICES ASSUME ClientInv, ClientInv', WireInv, [ClientNext]_clientVars
             PROVE  WireInv'
  OBVIOUS
<1>1. CASE Restart
  <2>1. clash' = FALSE /\ wire' = <<>> /\ queue' = <<>> /\ writes' = <<>>
        /\ sent' = 0 /\ size' = 0
    BY <1>1 DEF Restart
  <2>2. Idle(queue') /\ Len(wire') = sent' - size' /\ \A i \in 1..Len(wire') : wire'[i] = i
    BY <2>1 DEF Idle
  <2> QED BY <2>1, <2>2 DEF WireInv
<1>2. CASE Send
  BY <1>2, SendWire
<1>3. CASE write_handler
  BY <1>3, ConsumeWire
<1>4. CASE WriteCompletes
  BY <1>4, CompletesWire
<1>5. CASE ClientNext /\ ~Restart /\ ~Send /\ ~write_handler /\ ~WriteCompletes
  BY <1>5, OtherWire DEF ClientNext, clientStart, IoThread, Network
<1>6. CASE UNCHANGED clientVars
  BY <1>6 DEF clientVars, appVars, bufVars, WireInv
<1> QED BY <1>1, <1>2, <1>3, <1>4, <1>5, <1>6

\* For any number of messages and of writes in flight: until two use mDataStreamSend
\* at once, the messages go on the wire in the order they were sent, each once, and
\* none is consumed that is not there.
THEOREM ClientWrites == ClientSpec => []WrittenInOrder
<1>1. ClientInit => WireInv
  <2> SUFFICES ASSUME ClientInit PROVE WireInv
    OBVIOUS
  <2>1. wire = <<>> /\ queue = <<>> /\ writes = <<>> /\ sent = 0 /\ size = 0
    BY DEF ClientInit
  <2>2. Idle(queue) /\ Len(wire) = sent - size /\ \A i \in 1..Len(wire) : wire[i] = i
    BY <2>1 DEF Idle
  <2> QED BY <2>1, <2>2 DEF WireInv
<1>2. ClientInv /\ WireInv => WrittenInOrder
  <2> SUFFICES ASSUME ClientInv, WireInv, ~clash PROVE WrittenInOrder
    BY DEF WrittenInOrder
  <2>1. sent \in Nat /\ size \in 0..sent
    BY ClientAssumption DEF ClientInv, ClientTypeOK
  <2>2. Len(wire) \in (sent - size)..sent
    BY <2>1 DEF WireInv
  <2> QED BY <2>2 DEF WireInv, WrittenInOrder
<1>3. ClientInv /\ UNCHANGED clientVars => ClientInv'
  BY DEF clientVars, appVars, bufVars, ClientInv, ClientTypeOK, OneConnect, Phase, Chains, AppInv
<1>4. ClientInv /\ [ClientNext]_clientVars => ClientInv'
  BY <1>3, AppStep, IoStep, NetworkStep DEF ClientNext
<1> QED BY <1>1, <1>2, <1>4, ClientInvInit, WireStep, PTL DEF ClientSpec

=============================================================================
