--------------------------- MODULE TcpServerProofs ---------------------------
(* The safety properties of TcpServer, for any set of clients.                 *)
EXTENDS TcpServer, TLAPS

\* No handler of q, or at most one, is in S.
Free(q, S) == \A i \in 1..Len(q) : q[i] \notin S
Single(q, S) == \A i, j \in 1..Len(q) : q[i] \in S /\ q[j] \in S => i = j

\* The handlers of the accept loop; those of c's Process chain, of its read chain,
\* and all of c's handlers.
AcceptSet == {h \in Handler : h.op \in {"handle_accept", "accept_failed"}}
ProcessSet(c) == {h \in Handler : h.op \in {"handle_accept", "Process"} /\ h.c = c}
ReadSet(c) == {h \in Handler : h.op \in ReadOps /\ h.c = c}
ConnSet(c) == {h \in Handler : h.op \in ConnOps /\ h.c = c}

AcceptInv ==
  /\ Single(queue, AcceptSet)
  /\ accepting => Free(queue, AcceptSet)
  /\ server = "running" => accepting \/ ~Free(queue, AcceptSet)

ConnInv(c) ==
  /\ Single(queue, ProcessSet(c)) /\ Single(queue, ReadSet(c))
  /\ c \in reading => Free(queue, ReadSet(c))
  /\ c \in error => c \notin reading /\ Free(queue, ReadSet(c))
  /\ (c \in reading \/ c \in writing \/ ~Free(queue, ConnSet(c))) /\ c \notin error =>
       /\ ~Free(queue, ProcessSet(c))
       /\ c \in reading \/ ~Free(queue, ReadSet(c))

ServerInv == ServerTypeOK /\ AcceptInv /\ \A c \in Clients : ConnInv(c)

-----------------------------------------------------------------------------
(* Handlers taken from and posted to the queue *)

\* Taking the oldest handler leaves the others as they are.
LEMMA TailFacts ==
  ASSUME NEW q \in Seq(Handler), q # <<>>, NEW S
  PROVE  /\ Tail(q) \in Seq(Handler) /\ Head(q) \in Handler
         /\ Free(q, S) => Free(Tail(q), S) /\ Head(q) \notin S
         /\ Single(q, S) => Single(Tail(q), S)
         /\ Single(q, S) /\ Head(q) \in S => Free(Tail(q), S)
         /\ ~Free(q, S) /\ Head(q) \notin S => ~Free(Tail(q), S)
<1> DEFINE t == Tail(q)
<1>1. /\ t \in Seq(Handler) /\ Head(q) \in Handler /\ Len(q) \in Nat \ {0}
      /\ Len(t) = Len(q) - 1 /\ Head(q) = q[1]
      /\ \A i \in 1..Len(t) : t[i] = q[i + 1]
  OBVIOUS
<1>2. \A i \in 1..Len(t) : i + 1 \in 1..Len(q) /\ i + 1 # 1
  BY <1>1
<1>3. \A i \in 1..Len(q) : i # 1 => i - 1 \in 1..Len(t) /\ (i - 1) + 1 = i
  BY <1>1
<1>4. \A i, j \in 1..Len(t) : i + 1 = j + 1 => i = j
  BY <1>1
<1>5. 1 \in 1..Len(q)
  BY <1>1
<1> HIDE DEF t
<1>6. Free(q, S) => Free(t, S) /\ Head(q) \notin S
  BY <1>1, <1>2, <1>5 DEF Free
<1>7. Single(q, S) => Single(t, S)
  BY <1>1, <1>2, <1>4 DEF Single
<1>8. Single(q, S) /\ Head(q) \in S => Free(t, S)
  BY <1>1, <1>2, <1>5 DEF Single, Free
<1>9. ~Free(q, S) /\ Head(q) \notin S => ~Free(t, S)
  <2> SUFFICES ASSUME ~Free(q, S), Head(q) \notin S, Free(t, S) PROVE FALSE
    OBVIOUS
  <2>1. PICK i \in 1..Len(q) : q[i] \in S
    BY DEF Free
  <2>2. i - 1 \in 1..Len(t) /\ t[i - 1] = q[i]
    BY <2>1, <1>1, <1>3
  <2> QED BY <2>1, <2>2 DEF Free
<1> QED BY <1>1, <1>6, <1>7, <1>8, <1>9 DEF t

\* A posted handler comes after the others.
LEMMA AppendFacts ==
  ASSUME NEW q \in Seq(Handler), NEW h \in Handler, NEW S
  PROVE  /\ Append(q, h) \in Seq(Handler)
         /\ Free(q, S) /\ h \notin S => Free(Append(q, h), S)
         /\ Single(q, S) /\ h \notin S => Single(Append(q, h), S)
         /\ Free(q, S) => Single(Append(q, h), S)
         /\ h \in S \/ ~Free(q, S) => ~Free(Append(q, h), S)
<1> DEFINE a == Append(q, h)
           n == Len(q) + 1
<1>1. /\ a \in Seq(Handler) /\ Len(q) \in Nat /\ Len(a) = n
      /\ a[n] = h
      /\ \A i \in 1..Len(q) : a[i] = q[i]
  OBVIOUS
<1>2. 1..Len(a) = 1..Len(q) \cup {n}
  BY <1>1
<1> HIDE DEF a, n
<1>3. Free(q, S) /\ h \notin S => Free(a, S)
  BY <1>1, <1>2 DEF Free
<1>4. Single(q, S) /\ h \notin S => Single(a, S)
  BY <1>1, <1>2 DEF Single
<1>5. Free(q, S) => Single(a, S)
  BY <1>1, <1>2 DEF Free, Single
<1>6. (h \in S \/ ~Free(q, S)) => ~Free(a, S)
  BY <1>1, <1>2 DEF Free
<1> QED BY <1>1, <1>3, <1>4, <1>5, <1>6 DEF a

\* Taking the oldest handler, for all sets of handlers at once.
LEMMA TailAll ==
  ASSUME NEW q \in Seq(Handler), q # <<>>
  PROVE  /\ Tail(q) \in Seq(Handler) /\ Head(q) \in Handler
         /\ \A S : /\ Free(q, S) => Free(Tail(q), S) /\ Head(q) \notin S
                   /\ Single(q, S) => Single(Tail(q), S)
                   /\ Single(q, S) /\ Head(q) \in S => Free(Tail(q), S)
                   /\ ~Free(q, S) /\ Head(q) \notin S => ~Free(Tail(q), S)
BY TailFacts

\* A posted handler, for all sets of handlers at once.
LEMMA AppendAll ==
  ASSUME NEW q \in Seq(Handler), NEW h \in Handler
  PROVE  /\ Append(q, h) \in Seq(Handler)
         /\ \A S : /\ Free(q, S) /\ h \notin S => Free(Append(q, h), S)
                   /\ Single(q, S) /\ h \notin S => Single(Append(q, h), S)
                   /\ Free(q, S) => Single(Append(q, h), S)
                   /\ h \in S \/ ~Free(q, S) => ~Free(Append(q, h), S)
BY AppendFacts

\* The empty queue holds no handler.
LEMMA EmptyFacts == \A S : Free(<<>>, S) /\ Single(<<>>, S)
BY DEF Free, Single

\* Which handlers belong to which set.
LEMMA TaskSets ==
  /\ \A op \in ConnOps : \A c \in Clients :
       /\ Task(op, c) \in Handler
       /\ Task(op, c) \in AcceptSet <=> op = "handle_accept"
       /\ \A d \in Clients :
            /\ Task(op, c) \in ProcessSet(d) <=> c = d /\ op \in {"handle_accept", "Process"}
            /\ Task(op, c) \in ReadSet(d) <=> c = d /\ op \in ReadOps
            /\ Task(op, c) \in ConnSet(d) <=> c = d
  /\ \A op \in ServerOps :
       /\ Task(op, NoClient) \in Handler
       /\ Task(op, NoClient) \in AcceptSet <=> op = "accept_failed"
       /\ \A d \in Clients :
            /\ Task(op, NoClient) \notin ProcessSet(d)
            /\ Task(op, NoClient) \notin ReadSet(d)
            /\ Task(op, NoClient) \notin ConnSet(d)
BY ClientsAssumption
   DEF Task, Handler, AcceptSet, ProcessSet, ReadSet, ConnSet, ConnOps, ServerOps, ReadOps,
       NoClient

\* A handler of c's chains is one of c's handlers.
LEMMA SubSets ==
  ASSUME NEW c
  PROVE  /\ ~Free(queue, ProcessSet(c)) => ~Free(queue, ConnSet(c))
         /\ ~Free(queue, ReadSet(c)) => ~Free(queue, ConnSet(c))
BY DEF Free, ProcessSet, ReadSet, ConnSet, ConnOps, ReadOps

\* The connection of c exists as long as one of its handlers or operations does.
LEMMA AliveFree ==
  ASSUME queue \in Seq(Handler), NEW c \in Clients
  PROVE  Alive(c) <=> c \in reading \/ c \in writing \/ ~Free(queue, ConnSet(c))
<1>1. \A i \in 1..Len(queue) :
        queue[i] \in ConnSet(c) <=> \E op \in ConnOps : queue[i] = Task(op, c)
  <2> SUFFICES ASSUME NEW i \in 1..Len(queue)
               PROVE  queue[i] \in ConnSet(c) <=> \E op \in ConnOps : queue[i] = Task(op, c)
    OBVIOUS
  <2>1. queue[i] \in Handler
    OBVIOUS
  <2>2. ASSUME queue[i] \in ConnSet(c) PROVE queue[i] = Task(queue[i].op, c)
    BY <2>1, <2>2 DEF Handler, ConnSet, Task
  <2>3. \A op \in ConnOps : Task(op, c) \in ConnSet(c)
    BY TaskSets
  <2> QED BY <2>2, <2>3 DEF ConnSet
<1> QED BY <1>1 DEF Alive, Posted, Free

-----------------------------------------------------------------------------

\* A server that starts satisfies the invariant.
LEMMA ServerInvInit == ServerInit => ServerInv
<1> SUFFICES ASSUME ServerInit PROVE ServerInv
  OBVIOUS
<1> DEFINE h == Task("TcpServer::Process", NoClient)
<1>1. /\ h \in Handler /\ h \notin AcceptSet
      /\ \A d \in Clients : h \notin ProcessSet(d) /\ h \notin ReadSet(d) /\ h \notin ConnSet(d)
  BY TaskSets DEF ServerOps
<1>2. queue = <<h>>
  BY DEF ServerInit
<1> HIDE DEF h
<1>3. queue \in Seq(Handler) /\ Len(queue) = 1 /\ queue[1] = h
  BY <1>1, <1>2
<1>4. \A S : h \notin S => Free(queue, S) /\ Single(queue, S)
  BY <1>3 DEF Free, Single
<1> QED BY <1>1, <1>3, <1>4 DEF ServerInit, ServerInv, ServerTypeOK, AcceptInv, ConnInv

\* The handlers of the accept loop keep the invariant.
LEMMA AcceptStep ==
  ASSUME ServerInv,
         TcpServer_Process \/ accept_failed
           \/ \E c \in Clients : handle_accept(c) \/ start_throws(c)
  PROVE  ServerInv'
<1> DEFINE t == Tail(queue)
<1>0. /\ queue # <<>> /\ queue \in Seq(Handler)
      /\ t \in Seq(Handler) /\ Head(queue) \in Handler
      /\ \A S : /\ Free(queue, S) => Free(t, S) /\ Head(queue) \notin S
                /\ Single(queue, S) => Single(t, S)
                /\ Single(queue, S) /\ Head(queue) \in S => Free(t, S)
                /\ ~Free(queue, S) /\ Head(queue) \notin S => ~Free(t, S)
  <2>1. queue # <<>> /\ queue \in Seq(Handler)
    BY DEF ServerInv, ServerTypeOK, TcpServer_Process, accept_failed, handle_accept,
           start_throws, Runs
  <2> QED BY <2>1, TailAll
<1> HIDE DEF t
<1> USE DEF ServerInv, ServerTypeOK, AcceptInv, ConnInv, Runs
<1>1. CASE TcpServer_Process
  <2>1. queue' = Append(t, Head(queue)) /\ Head(queue) = Task("TcpServer::Process", NoClient)
    BY <1>1 DEF TcpServer_Process, t
  <2>2. /\ Head(queue) \notin AcceptSet
        /\ \A d \in Clients : /\ Head(queue) \notin ProcessSet(d)
                              /\ Head(queue) \notin ReadSet(d) /\ Head(queue) \notin ConnSet(d)
    BY <2>1, TaskSets DEF ServerOps
  <2>3. \A S : Head(queue) \notin S =>
              /\ Free(queue', S) <=> Free(queue, S)
              /\ Single(queue, S) => Single(queue', S)
    BY <1>0, <2>1, AppendAll
  <2>4. queue' \in Seq(Handler)
    BY <1>0, <2>1, AppendAll
  <2> QED BY <1>1, <2>2, <2>3, <2>4 DEF TcpServer_Process
<1>2. CASE accept_failed
  <2>1. queue' = t /\ Head(queue) = Task("accept_failed", NoClient)
    BY <1>2 DEF accept_failed, t
  <2>2. /\ Head(queue) \in AcceptSet
        /\ \A d \in Clients : /\ Head(queue) \notin ProcessSet(d)
                              /\ Head(queue) \notin ReadSet(d) /\ Head(queue) \notin ConnSet(d)
    BY <2>1, TaskSets DEF ServerOps
  <2> QED BY <1>0, <1>2, <2>1, <2>2 DEF accept_failed
<1>3. ASSUME NEW c \in Clients, handle_accept(c) PROVE ServerInv'
  <2> DEFINE r == Task("start_read", c)
             p == Task("Process", c)
             u == Append(t, r)
  <2>1. queue' = Append(u, p) /\ Head(queue) = Task("handle_accept", c)
    BY <1>3 DEF handle_accept, t
  <2>2. /\ r \in Handler /\ p \in Handler
        /\ Head(queue) \in AcceptSet /\ r \notin AcceptSet /\ p \notin AcceptSet
        /\ \A d \in Clients :
             /\ Head(queue) \in ProcessSet(d) <=> c = d
             /\ Head(queue) \in ReadSet(d) <=> c = d
             /\ Head(queue) \in ConnSet(d) <=> c = d
             /\ r \notin ProcessSet(d) /\ (r \in ReadSet(d) <=> c = d)
             /\ p \notin ReadSet(d) /\ (p \in ProcessSet(d) <=> c = d)
             /\ r \in ConnSet(d) <=> c = d
             /\ p \in ConnSet(d) <=> c = d
    BY <2>1, TaskSets DEF ConnOps, ReadOps
  <2> HIDE DEF r, p, u
  <2>3. /\ u \in Seq(Handler)
        /\ \A S : /\ Free(t, S) /\ r \notin S => Free(u, S)
                  /\ Single(t, S) /\ r \notin S => Single(u, S)
                  /\ Free(t, S) => Single(u, S)
                  /\ r \in S \/ ~Free(t, S) => ~Free(u, S)
    BY <1>0, <2>2, AppendAll DEF u
  <2>4. /\ queue' \in Seq(Handler)
        /\ \A S : /\ Free(u, S) /\ p \notin S => Free(queue', S)
                  /\ Single(u, S) /\ p \notin S => Single(queue', S)
                  /\ Free(u, S) => Single(queue', S)
                  /\ p \in S \/ ~Free(u, S) => ~Free(queue', S)
    BY <2>1, <2>2, <2>3, AppendAll
  <2>5. AcceptInv'
    BY <1>0, <1>3, <2>2, <2>3, <2>4 DEF handle_accept
  <2>6. ASSUME NEW d \in Clients PROVE ConnInv(d)'
    <3>1. CASE d = c
      <4>1. /\ Free(t, ProcessSet(d)) /\ Free(t, ReadSet(d))
            /\ d \notin reading /\ d \notin error
        BY <1>0, <2>2, <3>1
      <4>2. Free(u, ProcessSet(d)) /\ Single(u, ReadSet(d)) /\ ~Free(u, ReadSet(d))
        BY <2>2, <2>3, <3>1, <4>1
      <4>3. /\ Single(queue', ProcessSet(d)) /\ ~Free(queue', ProcessSet(d))
            /\ Single(queue', ReadSet(d)) /\ ~Free(queue', ReadSet(d))
        BY <2>2, <2>4, <3>1, <4>2
      <4> QED BY <1>3, <4>1, <4>3 DEF handle_accept
    <3>2. CASE d # c
      <4>1. /\ Free(queue', ProcessSet(d)) <=> Free(queue, ProcessSet(d))
            /\ Free(queue', ReadSet(d)) <=> Free(queue, ReadSet(d))
            /\ Free(queue', ConnSet(d)) <=> Free(queue, ConnSet(d))
            /\ Single(queue', ProcessSet(d)) /\ Single(queue', ReadSet(d))
        BY <1>0, <2>2, <2>3, <2>4, <3>2
      <4> QED BY <1>3, <3>2, <4>1 DEF handle_accept
    <3> QED BY <3>1, <3>2
  <2>7. ServerTypeOK'
    BY <1>3, <2>4 DEF handle_accept
  <2> QED BY <2>5, <2>6, <2>7
<1>4. ASSUME NEW c \in Clients, start_throws(c) PROVE ServerInv'
  <2>1. queue' = <<>> /\ queue' \in Seq(Handler) /\ \A S : Free(queue', S) /\ Single(queue', S)
    BY <1>4, EmptyFacts DEF start_throws
  <2> QED BY <1>4, <2>1 DEF start_throws
<1> QED BY <1>1, <1>2, <1>3, <1>4

\* The handlers of a connection keep the invariant.
LEMMA ConnStep ==
  ASSUME ServerInv, NEW c \in Clients,
         \/ start_read(c) \/ handle_read(c) \/ read_failed(c)
         \/ Process(c) \/ Send(c) \/ handle_write(c)
  PROVE  ServerInv'
<1> DEFINE t == Tail(queue)
           h == Head(queue)
<1>0. /\ queue # <<>> /\ queue \in Seq(Handler) /\ t \in Seq(Handler)
      /\ \A S : /\ Free(queue, S) => Free(t, S) /\ h \notin S
                /\ Single(queue, S) => Single(t, S)
                /\ Single(queue, S) /\ h \in S => Free(t, S)
                /\ ~Free(queue, S) /\ h \notin S => ~Free(t, S)
  <2>1. queue # <<>> /\ queue \in Seq(Handler)
    BY DEF ServerInv, ServerTypeOK, start_read, handle_read, read_failed, Process, Send,
           handle_write, Runs
  <2> QED BY <2>1, TailAll
<1>a. ASSUME NEW op \in ConnOps, op # "handle_accept", h = Task(op, c)
      PROVE  /\ h \notin AcceptSet /\ h \in ConnSet(c)
             /\ h \in ProcessSet(c) <=> op = "Process"
             /\ h \in ReadSet(c) <=> op \in ReadOps
             /\ \A d \in Clients : d # c => /\ h \notin ProcessSet(d) /\ h \notin ReadSet(d)
                                            /\ h \notin ConnSet(d)
  BY <1>a, TaskSets
<1>b. ASSUME NEW op \in ConnOps, op # "handle_accept", NEW q \in Seq(Handler)
      PROVE  LET a == Append(q, Task(op, c))
             IN /\ a \in Seq(Handler)
                /\ Free(a, AcceptSet) <=> Free(q, AcceptSet)
                /\ Single(q, AcceptSet) => Single(a, AcceptSet)
                /\ \A d \in Clients :
                     /\ d # c \/ op # "Process" =>
                          /\ Free(a, ProcessSet(d)) <=> Free(q, ProcessSet(d))
                          /\ Single(q, ProcessSet(d)) => Single(a, ProcessSet(d))
                     /\ d # c \/ op \notin ReadOps =>
                          /\ Free(a, ReadSet(d)) <=> Free(q, ReadSet(d))
                          /\ Single(q, ReadSet(d)) => Single(a, ReadSet(d))
                     /\ d # c => (Free(a, ConnSet(d)) <=> Free(q, ConnSet(d)))
                /\ op = "Process" /\ Free(q, ProcessSet(c)) =>
                     ~Free(a, ProcessSet(c)) /\ Single(a, ProcessSet(c))
                /\ op \in ReadOps /\ Free(q, ReadSet(c)) =>
                     ~Free(a, ReadSet(c)) /\ Single(a, ReadSet(c))
  <2>1. /\ Task(op, c) \in Handler /\ Task(op, c) \notin AcceptSet
        /\ \A d \in Clients :
             /\ Task(op, c) \in ProcessSet(d) <=> c = d /\ op = "Process"
             /\ Task(op, c) \in ReadSet(d) <=> c = d /\ op \in ReadOps
             /\ Task(op, c) \in ConnSet(d) <=> c = d
    BY <1>b, TaskSets
  <2> QED BY <2>1, AppendAll
<1> HIDE DEF t, h
<1>1. CASE start_read(c)
  <2>1. queue' = t /\ h = Task("start_read", c)
    BY <1>1 DEF start_read, Runs, t, h
  <2>2. /\ h \notin AcceptSet /\ h \in ConnSet(c) /\ h \notin ProcessSet(c) /\ h \in ReadSet(c)
        /\ \A d \in Clients : d # c => /\ h \notin ProcessSet(d) /\ h \notin ReadSet(d)
                                       /\ h \notin ConnSet(d)
    BY <1>a, <2>1 DEF ConnOps, ReadOps
  <2>3. /\ AcceptInv' /\ ServerTypeOK'
    BY <1>0, <1>1, <2>1, <2>2 DEF start_read, ServerInv, ServerTypeOK, AcceptInv
  <2>4. ASSUME NEW d \in Clients PROVE ConnInv(d)'
    BY <1>0, <1>1, <2>1, <2>2 DEF start_read, ServerInv, ConnInv
  <2> QED BY <2>3, <2>4 DEF ServerInv
<1>2. CASE handle_read(c)
  <2>1. h = Task("handle_read", c)
    BY <1>2 DEF handle_read, Runs, h
  <2>2. /\ h \notin AcceptSet /\ h \in ConnSet(c) /\ h \notin ProcessSet(c) /\ h \in ReadSet(c)
        /\ \A d \in Clients : d # c => /\ h \notin ProcessSet(d) /\ h \notin ReadSet(d)
                                       /\ h \notin ConnSet(d)
    BY <1>a, <2>1 DEF ConnOps, ReadOps
  <2>3. c \notin error /\ c \notin reading /\ Free(t, ReadSet(c))
    BY <1>0, <2>2 DEF ServerInv, ConnInv
  <2>4. queue' = Append(t, Task("start_read", c))
    BY <1>2, <2>3 DEF handle_read, t
  <2>5. /\ queue' \in Seq(Handler)
        /\ Free(queue', AcceptSet) <=> Free(t, AcceptSet)
        /\ Single(t, AcceptSet) => Single(queue', AcceptSet)
        /\ \A d \in Clients :
             /\ Free(queue', ProcessSet(d)) <=> Free(t, ProcessSet(d))
             /\ Single(t, ProcessSet(d)) => Single(queue', ProcessSet(d))
             /\ d # c => /\ Free(queue', ReadSet(d)) <=> Free(t, ReadSet(d))
                         /\ Single(t, ReadSet(d)) => Single(queue', ReadSet(d))
                         /\ Free(queue', ConnSet(d)) <=> Free(t, ConnSet(d))
        /\ ~Free(queue', ReadSet(c)) /\ Single(queue', ReadSet(c))
    BY <1>0, <1>b, <2>3, <2>4 DEF ConnOps, ReadOps
  <2>6. /\ AcceptInv' /\ ServerTypeOK'
    BY <1>0, <1>2, <2>2, <2>5 DEF handle_read, ServerInv, ServerTypeOK, AcceptInv
  <2>7. ASSUME NEW d \in Clients PROVE ConnInv(d)'
    <3>1. CASE d = c
      BY <1>0, <1>2, <2>2, <2>3, <2>5, <3>1 DEF handle_read, ServerInv, ConnInv
    <3>2. CASE d # c
      BY <1>0, <1>2, <2>2, <2>5, <3>2 DEF handle_read, ServerInv, ConnInv
    <3> QED BY <3>1, <3>2
  <2> QED BY <2>6, <2>7 DEF ServerInv
<1>3. CASE read_failed(c)
  <2>1. queue' = t /\ h = Task("read_failed", c)
    BY <1>3 DEF read_failed, Runs, t, h
  <2>2. /\ h \notin AcceptSet /\ h \in ConnSet(c) /\ h \notin ProcessSet(c) /\ h \in ReadSet(c)
        /\ \A d \in Clients : d # c => /\ h \notin ProcessSet(d) /\ h \notin ReadSet(d)
                                       /\ h \notin ConnSet(d)
    BY <1>a, <2>1 DEF ConnOps, ReadOps
  <2>3. /\ AcceptInv' /\ ServerTypeOK'
    BY <1>0, <1>3, <2>1, <2>2 DEF read_failed, ServerInv, ServerTypeOK, AcceptInv
  <2>4. ASSUME NEW d \in Clients PROVE ConnInv(d)'
    BY <1>0, <1>3, <2>1, <2>2 DEF read_failed, ServerInv, ConnInv
  <2> QED BY <2>3, <2>4 DEF ServerInv
<1>4. CASE Process(c)
  <2>1. h = Task("Process", c)
    BY <1>4 DEF Process, Runs, h
  <2>2. /\ h \notin AcceptSet /\ h \in ConnSet(c) /\ h \in ProcessSet(c) /\ h \notin ReadSet(c)
        /\ \A d \in Clients : d # c => /\ h \notin ProcessSet(d) /\ h \notin ReadSet(d)
                                       /\ h \notin ConnSet(d)
    BY <1>a, <2>1 DEF ConnOps, ReadOps
  <2>3. PICK q \in {t, Append(t, Task("Send", c))} :
              /\ queue' = IF c \in error THEN q ELSE Append(q, Task("Process", c))
              /\ c \in error => q = t
    BY <1>4 DEF Process, t
  <2>4. /\ q \in Seq(Handler)
        /\ Free(q, AcceptSet) <=> Free(t, AcceptSet)
        /\ Single(t, AcceptSet) => Single(q, AcceptSet)
        /\ \A d \in Clients :
             /\ Free(q, ProcessSet(d)) <=> Free(t, ProcessSet(d))
             /\ Single(t, ProcessSet(d)) => Single(q, ProcessSet(d))
             /\ Free(q, ReadSet(d)) <=> Free(t, ReadSet(d))
             /\ Single(t, ReadSet(d)) => Single(q, ReadSet(d))
             /\ d # c => (Free(q, ConnSet(d)) <=> Free(t, ConnSet(d)))
    <3>1. CASE q = t
      BY <1>0, <3>1
    <3>2. CASE q = Append(t, Task("Send", c))
      BY <1>0, <1>b, <3>2 DEF ConnOps, ReadOps
    <3> QED BY <2>3, <3>1, <3>2
  <2>5. Free(t, ProcessSet(c))
    BY <1>0, <2>2 DEF ServerInv, ConnInv
  <2>6. CASE c \in error
    <3>1. queue' = t
      BY <2>3, <2>6
    <3>2. AcceptInv' /\ ServerTypeOK'
      BY <1>0, <1>4, <2>2, <3>1 DEF Process, ServerInv, ServerTypeOK, AcceptInv
    <3>3. ASSUME NEW d \in Clients PROVE ConnInv(d)'
      BY <1>0, <1>4, <2>2, <2>6, <3>1 DEF Process, ServerInv, ConnInv
    <3> QED BY <3>2, <3>3 DEF ServerInv
  <2>7. CASE c \notin error
    <3>1. queue' = Append(q, Task("Process", c))
      BY <2>3, <2>7
    <3>2. /\ queue' \in Seq(Handler)
          /\ Free(queue', AcceptSet) <=> Free(q, AcceptSet)
          /\ Single(q, AcceptSet) => Single(queue', AcceptSet)
          /\ \A d \in Clients :
               /\ Free(queue', ReadSet(d)) <=> Free(q, ReadSet(d))
               /\ Single(q, ReadSet(d)) => Single(queue', ReadSet(d))
               /\ d # c => /\ Free(queue', ProcessSet(d)) <=> Free(q, ProcessSet(d))
                           /\ Single(q, ProcessSet(d)) => Single(queue', ProcessSet(d))
                           /\ Free(queue', ConnSet(d)) <=> Free(q, ConnSet(d))
          /\ ~Free(queue', ProcessSet(c)) /\ Single(queue', ProcessSet(c))
      BY <1>b, <2>4, <2>5, <3>1 DEF ConnOps, ReadOps
    <3>3. AcceptInv' /\ ServerTypeOK'
      BY <1>0, <1>4, <2>2, <2>4, <3>2 DEF Process, ServerInv, ServerTypeOK, AcceptInv
    <3>4. ASSUME NEW d \in Clients PROVE ConnInv(d)'
      <4>1. CASE d = c
        BY <1>0, <1>4, <2>2, <2>4, <2>7, <3>2, <4>1 DEF Process, ServerInv, ConnInv
      <4>2. CASE d # c
        BY <1>0, <1>4, <2>2, <2>4, <3>2, <4>2 DEF Process, ServerInv, ConnInv
      <4> QED BY <4>1, <4>2
    <3> QED BY <3>3, <3>4 DEF ServerInv
  <2> QED BY <2>6, <2>7
<1>5. CASE Send(c) \/ handle_write(c)
  <2>1. queue' = t /\ (h = Task("Send", c) \/ h = Task("handle_write", c))
    BY <1>5 DEF Send, handle_write, Runs, t, h
  <2>2. /\ h \notin AcceptSet /\ h \in ConnSet(c) /\ h \notin ProcessSet(c) /\ h \notin ReadSet(c)
        /\ \A d \in Clients : d # c => /\ h \notin ProcessSet(d) /\ h \notin ReadSet(d)
                                       /\ h \notin ConnSet(d)
    BY <1>a, <2>1 DEF ConnOps, ReadOps
  <2>3. /\ AcceptInv' /\ ServerTypeOK'
    BY <1>0, <1>5, <2>1, <2>2 DEF Send, handle_write, ServerInv, ServerTypeOK, AcceptInv
  <2>4. ASSUME NEW d \in Clients PROVE ConnInv(d)'
    BY <1>0, <1>5, <2>1, <2>2 DEF Send, handle_write, ServerInv, ConnInv
  <2> QED BY <2>3, <2>4 DEF ServerInv
<1> QED BY <1>1, <1>2, <1>3, <1>4, <1>5

\* What posting a handler to the end of the queue does to the sets of handlers.
LEMMA PostedSets ==
  ASSUME queue \in Seq(Handler), NEW h \in Handler, queue' = Append(queue, h)
  PROVE  /\ queue' \in Seq(Handler)
         /\ \A S : /\ Free(queue, S) /\ h \notin S => Free(queue', S)
                   /\ Single(queue, S) /\ h \notin S => Single(queue', S)
                   /\ h \in S \/ ~Free(queue, S) => ~Free(queue', S)
                   /\ Free(queue, S) => Single(queue', S)
BY AppendAll

\* Completions of accepts, reads and writes keep the invariant.
LEMMA CompletionStep ==
  ASSUME ServerInv, AcceptFails \/ \E c \in Clients : Completion(c)
  PROVE  ServerInv'
<1>0. queue \in Seq(Handler)
  BY DEF ServerInv, ServerTypeOK
<1>1. CASE AcceptFails
  <2> DEFINE h == Task("accept_failed", NoClient)
  <2>1. /\ h \in Handler /\ h \in AcceptSet
        /\ \A d \in Clients : h \notin ProcessSet(d) /\ h \notin ReadSet(d) /\ h \notin ConnSet(d)
    BY TaskSets DEF ServerOps
  <2>2. queue' = Append(queue, h)
    BY <1>1 DEF AcceptFails
  <2> HIDE DEF h
  <2>p. /\ queue' \in Seq(Handler)
        /\ \A S : /\ Free(queue, S) /\ h \notin S => Free(queue', S)
                  /\ Single(queue, S) /\ h \notin S => Single(queue', S)
                  /\ h \in S \/ ~Free(queue, S) => ~Free(queue', S)
                  /\ Free(queue, S) => Single(queue', S)
    BY <1>0, <2>1, <2>2, PostedSets
  <2>q. /\ queue' \in Seq(Handler)
        /\ ~Free(queue', AcceptSet) /\ (Free(queue, AcceptSet) => Single(queue', AcceptSet))
        /\ \A d \in Clients :
             /\ Free(queue', ProcessSet(d)) <=> Free(queue, ProcessSet(d))
             /\ Single(queue, ProcessSet(d)) => Single(queue', ProcessSet(d))
             /\ Free(queue', ReadSet(d)) <=> Free(queue, ReadSet(d))
             /\ Single(queue, ReadSet(d)) => Single(queue', ReadSet(d))
             /\ Free(queue', ConnSet(d)) <=> Free(queue, ConnSet(d))
             /\ Single(queue, ConnSet(d)) => Single(queue', ConnSet(d))
    BY <2>1, <2>p
  <2>3. AcceptInv' /\ ServerTypeOK'
    BY <1>0, <1>1, <2>1, <2>q DEF AcceptFails, ServerInv, ServerTypeOK, AcceptInv
  <2>4. ASSUME NEW d \in Clients PROVE ConnInv(d)'
    BY <1>0, <1>1, <2>1, <2>q DEF AcceptFails, ServerInv, ConnInv
  <2> QED BY <2>3, <2>4 DEF ServerInv
<1>2. ASSUME NEW c \in Clients, AcceptCompletes(c) PROVE ServerInv'
  <2> DEFINE h == Task("handle_accept", c)
  <2>1. /\ h \in Handler /\ h \in AcceptSet
        /\ \A d \in Clients : /\ h \in ProcessSet(d) <=> c = d
                              /\ h \in ReadSet(d) <=> c = d
                              /\ h \in ConnSet(d) <=> c = d
    BY TaskSets DEF ConnOps, ReadOps
  <2>2. queue' = Append(queue, h)
    BY <1>2 DEF AcceptCompletes
  <2> HIDE DEF h
  <2>p. /\ queue' \in Seq(Handler)
        /\ \A S : /\ Free(queue, S) /\ h \notin S => Free(queue', S)
                  /\ Single(queue, S) /\ h \notin S => Single(queue', S)
                  /\ h \in S \/ ~Free(queue, S) => ~Free(queue', S)
                  /\ Free(queue, S) => Single(queue', S)
    BY <1>0, <2>1, <2>2, PostedSets
  <2>q. /\ queue' \in Seq(Handler)
        /\ ~Free(queue', AcceptSet) /\ (Free(queue, AcceptSet) => Single(queue', AcceptSet))
        /\ \A d \in Clients :
             /\ d # c => /\ Free(queue', ProcessSet(d)) <=> Free(queue, ProcessSet(d))
                         /\ Single(queue, ProcessSet(d)) => Single(queue', ProcessSet(d))
             /\ d = c => ~Free(queue', ProcessSet(d)) /\ (Free(queue, ProcessSet(d)) => Single(queue', ProcessSet(d)))
             /\ d # c => /\ Free(queue', ReadSet(d)) <=> Free(queue, ReadSet(d))
                         /\ Single(queue, ReadSet(d)) => Single(queue', ReadSet(d))
             /\ d = c => ~Free(queue', ReadSet(d)) /\ (Free(queue, ReadSet(d)) => Single(queue', ReadSet(d)))
             /\ d # c => /\ Free(queue', ConnSet(d)) <=> Free(queue, ConnSet(d))
                         /\ Single(queue, ConnSet(d)) => Single(queue', ConnSet(d))
             /\ d = c => ~Free(queue', ConnSet(d)) /\ (Free(queue, ConnSet(d)) => Single(queue', ConnSet(d)))
    BY <2>1, <2>p
  <2>3. AcceptInv' /\ ServerTypeOK'
    BY <1>0, <1>2, <2>1, <2>q DEF AcceptCompletes, ServerInv, ServerTypeOK, AcceptInv
  <2>4. /\ c \notin reading /\ c \notin error
        /\ Free(queue, ProcessSet(c)) /\ Free(queue, ReadSet(c))
    BY <1>0, <1>2, AliveFree, SubSets DEF AcceptCompletes
  <2>5. ASSUME NEW d \in Clients PROVE ConnInv(d)'
    <3>1. CASE d = c
      BY <1>0, <1>2, <2>1, <2>4, <3>1, <2>q DEF AcceptCompletes, ServerInv, ConnInv
    <3>2. CASE d # c
      BY <1>0, <1>2, <2>1, <3>2, <2>q DEF AcceptCompletes, ServerInv, ConnInv
    <3> QED BY <3>1, <3>2
  <2> QED BY <2>3, <2>5 DEF ServerInv
<1>3. ASSUME NEW c \in Clients, ReadCompletes(c) PROVE ServerInv'
  <2>0. PICK op \in {"handle_read", "read_failed"} : queue' = Append(queue, Task(op, c))
    BY <1>3 DEF ReadCompletes
  <2> DEFINE h == Task(op, c)
  <2>1. /\ h \in Handler /\ h \notin AcceptSet
        /\ \A d \in Clients : /\ h \notin ProcessSet(d)
                              /\ h \in ReadSet(d) <=> c = d
                              /\ h \in ConnSet(d) <=> c = d
    <3>1. op \in ConnOps /\ op \in ReadOps /\ op # "handle_accept" /\ op # "Process"
      BY <2>0 DEF ConnOps, ReadOps
    <3> QED BY <3>1, TaskSets
  <2>2. queue' = Append(queue, h)
    BY <2>0
  <2> HIDE DEF h
  <2>p. /\ queue' \in Seq(Handler)
        /\ \A S : /\ Free(queue, S) /\ h \notin S => Free(queue', S)
                  /\ Single(queue, S) /\ h \notin S => Single(queue', S)
                  /\ h \in S \/ ~Free(queue, S) => ~Free(queue', S)
                  /\ Free(queue, S) => Single(queue', S)
    BY <1>0, <2>1, <2>2, PostedSets
  <2>q. /\ queue' \in Seq(Handler)
        /\ Free(queue', AcceptSet) <=> Free(queue, AcceptSet)
        /\ Single(queue, AcceptSet) => Single(queue', AcceptSet)
        /\ \A d \in Clients :
             /\ Free(queue', ProcessSet(d)) <=> Free(queue, ProcessSet(d))
             /\ Single(queue, ProcessSet(d)) => Single(queue', ProcessSet(d))
             /\ d # c => /\ Free(queue', ReadSet(d)) <=> Free(queue, ReadSet(d))
                         /\ Single(queue, ReadSet(d)) => Single(queue', ReadSet(d))
             /\ d = c => ~Free(queue', ReadSet(d)) /\ (Free(queue, ReadSet(d)) => Single(queue', ReadSet(d)))
             /\ d # c => /\ Free(queue', ConnSet(d)) <=> Free(queue, ConnSet(d))
                         /\ Single(queue, ConnSet(d)) => Single(queue', ConnSet(d))
             /\ d = c => ~Free(queue', ConnSet(d)) /\ (Free(queue, ConnSet(d)) => Single(queue', ConnSet(d)))
    BY <2>1, <2>p
  <2>3. AcceptInv' /\ ServerTypeOK'
    BY <1>0, <1>3, <2>1, <2>q DEF ReadCompletes, ServerInv, ServerTypeOK, AcceptInv
  <2>4. c \in reading /\ c \notin error /\ Free(queue, ReadSet(c)) /\ ~Free(queue, ProcessSet(c))
    BY <1>3 DEF ReadCompletes, ServerInv, ConnInv
  <2>5. ASSUME NEW d \in Clients PROVE ConnInv(d)'
    <3>1. CASE d = c
      BY <1>0, <1>3, <2>1, <2>4, <3>1, <2>q DEF ReadCompletes, ServerInv, ConnInv
    <3>2. CASE d # c
      BY <1>0, <1>3, <2>1, <3>2, <2>q DEF ReadCompletes, ServerInv, ConnInv
    <3> QED BY <3>1, <3>2
  <2> QED BY <2>3, <2>5 DEF ServerInv
<1>4. ASSUME NEW c \in Clients, WriteCompletes(c) PROVE ServerInv'
  <2> DEFINE h == Task("handle_write", c)
  <2>1. /\ h \in Handler /\ h \notin AcceptSet
        /\ \A d \in Clients : /\ h \notin ProcessSet(d) /\ h \notin ReadSet(d)
                              /\ h \in ConnSet(d) <=> c = d
    BY TaskSets DEF ConnOps, ReadOps
  <2>2. queue' = Append(queue, h)
    BY <1>4 DEF WriteCompletes
  <2> HIDE DEF h
  <2>p. /\ queue' \in Seq(Handler)
        /\ \A S : /\ Free(queue, S) /\ h \notin S => Free(queue', S)
                  /\ Single(queue, S) /\ h \notin S => Single(queue', S)
                  /\ h \in S \/ ~Free(queue, S) => ~Free(queue', S)
                  /\ Free(queue, S) => Single(queue', S)
    BY <1>0, <2>1, <2>2, PostedSets
  <2>q. /\ queue' \in Seq(Handler)
        /\ Free(queue', AcceptSet) <=> Free(queue, AcceptSet)
        /\ Single(queue, AcceptSet) => Single(queue', AcceptSet)
        /\ \A d \in Clients :
             /\ Free(queue', ProcessSet(d)) <=> Free(queue, ProcessSet(d))
             /\ Single(queue, ProcessSet(d)) => Single(queue', ProcessSet(d))
             /\ Free(queue', ReadSet(d)) <=> Free(queue, ReadSet(d))
             /\ Single(queue, ReadSet(d)) => Single(queue', ReadSet(d))
             /\ d # c => /\ Free(queue', ConnSet(d)) <=> Free(queue, ConnSet(d))
                         /\ Single(queue, ConnSet(d)) => Single(queue', ConnSet(d))
             /\ d = c => ~Free(queue', ConnSet(d)) /\ (Free(queue, ConnSet(d)) => Single(queue', ConnSet(d)))
    BY <2>1, <2>p
  <2>3. AcceptInv' /\ ServerTypeOK'
    BY <1>0, <1>4, <2>1, <2>q DEF WriteCompletes, ServerInv, ServerTypeOK, AcceptInv
  <2>4. ASSUME NEW d \in Clients PROVE ConnInv(d)'
    <3>1. CASE d = c
      BY <1>0, <1>4, <2>1, <3>1, <2>q DEF WriteCompletes, ServerInv, ConnInv
    <3>2. CASE d # c
      BY <1>0, <1>4, <2>1, <3>2, <2>q DEF WriteCompletes, ServerInv, ConnInv
    <3> QED BY <3>1, <3>2
  <2> QED BY <2>3, <2>4 DEF ServerInv
<1> QED BY <1>1, <1>2, <1>3, <1>4 DEF Completion

\* What the clients do keeps the invariant.
LEMMA ClientsStep ==
  ASSUME ServerInv, NEW c \in Clients, ClientStep(c) PROVE ServerInv'
<1>1. ServerTypeOK' /\ AcceptInv'
  BY DEF ClientStep, ClientConnects, ClientLeaves, ClientForgets, ServerInv, ServerTypeOK,
         AcceptInv
<1>2. ASSUME NEW d \in Clients PROVE ConnInv(d)'
  <2>1. CASE ClientConnects(c) \/ ClientLeaves(c)
    BY <2>1 DEF ClientConnects, ClientLeaves, ServerInv, ConnInv
  <2>2. CASE ClientForgets(c)
    <3>1. c \notin reading /\ c \notin writing /\ Free(queue, ConnSet(c))
      BY <2>2, AliveFree DEF ClientForgets, ServerInv, ServerTypeOK
    <3> QED BY <2>2, <3>1 DEF ClientForgets, ServerInv, ConnInv
  <2> QED BY <2>1, <2>2 DEF ClientStep
<1> QED BY <1>1, <1>2 DEF ServerInv

\* The invariant says what the properties say.
LEMMA ServerInvImplies == ServerInv => ServerTypeOK /\ OneAccept /\ ConnectionWhole
<1> SUFFICES ASSUME ServerInv PROVE OneAccept /\ ConnectionWhole
  BY DEF ServerInv
<1>0. queue \in Seq(Handler) /\ \A i \in 1..Len(queue) : queue[i] \in Handler
  BY DEF ServerInv, ServerTypeOK
<1>1. AcceptHandlers = {i \in 1..Len(queue) : queue[i] \in AcceptSet}
  BY <1>0 DEF AcceptHandlers, AcceptSet
<1>2. OneAccept
  BY <1>1 DEF ServerInv, AcceptInv, OneAccept, Single, Free
<1>3. ASSUME NEW c \in Clients
      PROVE  /\ Handlers({"handle_accept", "Process"}, c) =
                   {i \in 1..Len(queue) : queue[i] \in ProcessSet(c)}
             /\ Handlers(ReadOps, c) = {i \in 1..Len(queue) : queue[i] \in ReadSet(c)}
  BY <1>0 DEF Handlers, ProcessSet, ReadSet
<1>4. ConnectionWhole
  <2> SUFFICES ASSUME NEW c \in Clients
               PROVE  /\ \A i, j \in Handlers({"handle_accept", "Process"}, c) : i = j
                      /\ \A i, j \in Handlers(ReadOps, c) : i = j
                      /\ c \in reading => Handlers(ReadOps, c) = {}
                      /\ c \in error => c \notin reading /\ Handlers(ReadOps, c) = {}
                      /\ Alive(c) /\ c \notin error =>
                           /\ Handlers({"handle_accept", "Process"}, c) # {}
                           /\ c \in reading \/ Handlers(ReadOps, c) # {}
    BY DEF ConnectionWhole
  <2>1. ConnInv(c) /\ (Alive(c) <=> c \in reading \/ c \in writing \/ ~Free(queue, ConnSet(c)))
    BY <1>0, AliveFree DEF ServerInv
  <2>2. /\ Single(queue, ProcessSet(c)) <=> \A i, j \in Handlers({"handle_accept", "Process"}, c) : i = j
        /\ Free(queue, ProcessSet(c)) <=> Handlers({"handle_accept", "Process"}, c) = {}
        /\ Single(queue, ReadSet(c)) <=> \A i, j \in Handlers(ReadOps, c) : i = j
        /\ Free(queue, ReadSet(c)) <=> Handlers(ReadOps, c) = {}
    BY <1>3 DEF Single, Free
  <2> QED BY <2>1, <2>2 DEF ConnInv
<1> QED BY <1>2, <1>4

\* For any set of clients that come, stay away, send, stop reading or leave in any
\* order, the server has exactly one accept as long as it runs, and every connection
\* has its Process and its read until its own read fails.
THEOREM ServerSound == ServerSpec => [](ServerTypeOK /\ OneAccept /\ ConnectionWhole)
<1>1. ServerInv /\ UNCHANGED serverVars => ServerInv'
  BY DEF serverVars, ServerInv, ServerTypeOK, AcceptInv, ConnInv
<1>2. ServerInv /\ [ServerNext]_serverVars => ServerInv'
  BY <1>1, AcceptStep, ConnStep, CompletionStep, ClientsStep DEF ServerNext, IoThread, ConnHandler
<1> QED BY <1>2, ServerInvInit, ServerInvImplies, PTL DEF ServerSpec

-----------------------------------------------------------------------------
(* From a failed read to the destructor *)

\* Which sets are free of the handlers of a queue with one more.
LEMMA AppendFree ==
  ASSUME NEW q \in Seq(Handler), NEW h \in Handler
  PROVE  /\ Append(q, h) \in Seq(Handler)
         /\ \A S : Free(Append(q, h), S) <=> Free(q, S) /\ h \notin S
BY AppendAll

\* The handler that runs leaves the queue; what it posts, P, goes to the end.
Posts(P) ==
  /\ queue # <<>> /\ Tail(queue) \in Seq(Handler) /\ Head(queue) \in Handler
  /\ \A S : Free(queue', S) <=> Free(Tail(queue), S) /\ P \cap S = {}

\* Nothing is posted for a connection whose error is set, and Process is posted
\* again for one whose error is not.
Continues(P) ==
  \A d \in Clients :
    /\ d \in error => P \cap ConnSet(d) = {}
    /\ d \notin error /\ Head(queue) \in ProcessSet(d) => P \cap ProcessSet(d) # {}

\* Every handler, if it does not end the server, posts in that way.
LEMMA IoPosts ==
  ASSUME ServerInv, IoThread, server' # "ended"
  PROVE  \E P : Posts(P) /\ Continues(P)
<1> DEFINE t == Tail(queue)
           h == Head(queue)
<1>0. /\ queue # <<>> /\ t \in Seq(Handler) /\ h \in Handler
      /\ \A S : Free(queue, S) => h \notin S
  <2>1. queue # <<>> /\ queue \in Seq(Handler)
    BY DEF ServerInv, ServerTypeOK, IoThread, ConnHandler, TcpServer_Process, accept_failed,
           handle_accept, start_throws, start_read, handle_read, read_failed, Process, Send,
           handle_write, Runs
  <2> QED BY <2>1, TailAll
<1>a. ASSUME NEW c \in Clients, h \in ReadSet(c) PROVE c \notin error
  BY <1>0, <1>a DEF ServerInv, ConnInv
<1> HIDE DEF t, h
<1>1. CASE TcpServer_Process
  <2>1. queue' = Append(t, h) /\ h = Task("TcpServer::Process", NoClient)
    BY <1>1 DEF TcpServer_Process, Runs, t, h
  <2>2. \A d \in Clients : h \notin ProcessSet(d) /\ h \notin ConnSet(d)
    BY <2>1, TaskSets DEF ServerOps
  <2>a. \A S : Free(queue', S) <=> Free(t, S) /\ h \notin S
    BY <1>0, <2>1, AppendFree
  <2>3. Posts({h})
    BY <1>0, <2>a DEF Posts, t, h
  <2>4. Continues({h})
    BY <2>2 DEF Continues, h
  <2> QED BY <2>3, <2>4
<1>2. CASE accept_failed
  <2>1. queue' = t /\ h = Task("accept_failed", NoClient)
    BY <1>2 DEF accept_failed, Runs, t, h
  <2>2. \A d \in Clients : h \notin ProcessSet(d)
    BY <2>1, TaskSets DEF ServerOps
  <2>3. Posts({}) /\ Continues({})
    BY <1>0, <2>1, <2>2 DEF Posts, Continues, t, h
  <2> QED BY <2>3
<1>3. ASSUME NEW c \in Clients, handle_accept(c)
      PROVE  \E P : Posts(P) /\ Continues(P)
  <2> DEFINE r == Task("start_read", c)
             p == Task("Process", c)
  <2>1. queue' = Append(Append(t, r), p) /\ h = Task("handle_accept", c)
    BY <1>3 DEF handle_accept, Runs, t, h
  <2>2. /\ r \in Handler /\ p \in Handler /\ h \in ReadSet(c)
        /\ \A d \in Clients : /\ h \in ProcessSet(d) <=> d = c
                              /\ p \in ProcessSet(d) <=> d = c
                              /\ r \in ConnSet(d) <=> d = c
                              /\ p \in ConnSet(d) <=> d = c
    BY <2>1, TaskSets DEF ConnOps, ReadOps
  <2>3. c \notin error
    BY <1>a, <2>2
  <2> HIDE DEF r, p
  <2>4. \A S : Free(queue', S) <=> Free(t, S) /\ r \notin S /\ p \notin S
    BY <1>0, <2>1, <2>2, AppendFree
  <2>5. Posts({r, p})
    BY <1>0, <2>4 DEF Posts, t, h
  <2>6. Continues({r, p})
    BY <2>2, <2>3 DEF Continues, h
  <2> QED BY <2>5, <2>6
<1>4. ASSUME NEW c \in Clients, handle_read(c)
      PROVE  \E P : Posts(P) /\ Continues(P)
  <2> DEFINE r == Task("start_read", c)
  <2>1. h = Task("handle_read", c)
    BY <1>4 DEF handle_read, Runs, h
  <2>2. /\ r \in Handler /\ h \in ReadSet(c)
        /\ \A d \in Clients : h \notin ProcessSet(d) /\ (r \in ConnSet(d) <=> d = c)
    BY <2>1, TaskSets DEF ConnOps, ReadOps
  <2>3. c \notin error
    BY <1>a, <2>2
  <2>4. queue' = Append(t, r)
    BY <1>4, <2>3 DEF handle_read, t
  <2> HIDE DEF r
  <2>a. \A S : Free(queue', S) <=> Free(t, S) /\ r \notin S
    BY <1>0, <2>2, <2>4, AppendFree
  <2>5. Posts({r})
    BY <1>0, <2>a DEF Posts, t, h
  <2>6. Continues({r})
    BY <2>2, <2>3 DEF Continues, h
  <2> QED BY <2>5, <2>6
<1>5. ASSUME NEW c \in Clients, Process(c)
      PROVE  \E P : Posts(P) /\ Continues(P)
  <2> DEFINE s == Task("Send", c)
             p == Task("Process", c)
  <2>1. h = p
    BY <1>5 DEF Process, Runs, h
  <2>2. /\ s \in Handler /\ p \in Handler
        /\ \A d \in Clients : /\ p \in ProcessSet(d) <=> d = c
                              /\ s \in ConnSet(d) <=> d = c
                              /\ p \in ConnSet(d) <=> d = c
    BY TaskSets DEF ConnOps, ReadOps
  <2>3. PICK q \in {t, Append(t, s)} :
              /\ queue' = IF c \in error THEN q ELSE Append(q, p)
              /\ c \in error => q = t
    BY <1>5 DEF Process, t
  <2> HIDE DEF s, p
  <2>4. CASE c \in error
    <3>1. queue' = t
      BY <2>3, <2>4
    <3>2. Posts({}) /\ Continues({})
      BY <1>0, <2>1, <2>2, <2>4, <3>1 DEF Posts, Continues, t, h
    <3> QED BY <3>2
  <2>5. CASE c \notin error /\ q = t
    <3>a. \A S : Free(queue', S) <=> Free(t, S) /\ p \notin S
      BY <1>0, <2>2, <2>3, <2>5, AppendFree
    <3>1. Posts({p})
      BY <1>0, <3>a DEF Posts, t, h
    <3>2. Continues({p})
      BY <2>1, <2>2, <2>5 DEF Continues, h
    <3> QED BY <3>1, <3>2
  <2>6. CASE c \notin error /\ q = Append(t, s)
    <3>1. \A S : Free(queue', S) <=> Free(t, S) /\ s \notin S /\ p \notin S
      BY <1>0, <2>2, <2>3, <2>6, AppendFree
    <3>2. Posts({s, p})
      BY <1>0, <3>1 DEF Posts, t, h
    <3>3. Continues({s, p})
      BY <2>1, <2>2, <2>6 DEF Continues, h
    <3> QED BY <3>2, <3>3
  <2> QED BY <2>3, <2>4, <2>5, <2>6
<1>6. ASSUME NEW c \in Clients, start_read(c) \/ read_failed(c) \/ Send(c) \/ handle_write(c)
      PROVE  \E P : Posts(P) /\ Continues(P)
  <2>1. /\ queue' = t
        /\ h \in {Task(op, c) : op \in {"start_read", "read_failed", "Send", "handle_write"}}
    BY <1>6 DEF start_read, read_failed, Send, handle_write, Runs, t, h
  <2>2. \A d \in Clients : h \notin ProcessSet(d)
    BY <2>1, TaskSets DEF ConnOps
  <2>3. Posts({}) /\ Continues({})
    BY <1>0, <2>1, <2>2 DEF Posts, Continues, t, h
  <2> QED BY <2>3
<1>7. ASSUME NEW c \in Clients, start_throws(c) PROVE FALSE
  BY <1>7 DEF start_throws
<1> QED BY <1>1, <1>2, <1>3, <1>4, <1>5, <1>6, <1>7 DEF IoThread, ConnHandler

\* What FailsThenFreed says of one step and one connection.
FreedInOrder(c) ==
  /\ Alive(c) /\ ~Alive(c)' => c \in error \/ server' = "ended"
  /\ c \in error /\ Alive(c) /\ server' # "ended" =>
       /\ c \in error' /\ c \notin reading'
       /\ c \in writing' => c \in writing \/ Posted("Send", c)
       /\ \A op \in ConnOps :
            Posted(op, c)' => Posted(op, c) \/ (op = "handle_write" /\ c \in writing)

\* A handler is posted if the queue is not free of it.
LEMMA PostedFree ==
  ASSUME NEW op, NEW c
  PROVE  /\ Posted(op, c) <=> ~Free(queue, {Task(op, c)})
         /\ Posted(op, c)' <=> ~Free(queue', {Task(op, c)})
BY DEF Posted, Free

\* A connection with a Process, or the handler that will post it, is alive.
LEMMA ProcessAlive ==
  ASSUME queue \in Seq(Handler), NEW c \in Clients, ~Free(queue, ProcessSet(c))
  PROVE  Alive(c)
BY AliveFree, SubSets

\* The handlers on the io thread destroy connections in that order.
LEMMA IoFreed ==
  ASSUME ServerInv, ServerInv', IoThread, NEW c \in Clients
  PROVE  FreedInOrder(c)
<1>1. CASE server' = "ended"
  BY <1>1 DEF FreedInOrder
<1>2. CASE server' # "ended"
  <2>0. queue \in Seq(Handler) /\ queue' \in Seq(Handler)
    BY DEF ServerInv, ServerTypeOK
  <2>1. PICK P : Posts(P) /\ Continues(P)
    BY <1>2, IoPosts
  <2>2. CASE c \notin error
    <3>1. ASSUME Alive(c) PROVE Alive(c)'
      <4>1. ~Free(queue, ProcessSet(c))
        BY <2>0, <2>2, <3>1, AliveFree DEF ServerInv, ConnInv
      <4>2. ~Free(queue', ProcessSet(c))
        <5>1. CASE Head(queue) \in ProcessSet(c)
          BY <2>1, <2>2, <5>1 DEF Posts, Continues
        <5>2. CASE Head(queue) \notin ProcessSet(c)
          BY <2>0, <2>1, <4>1, <5>2, TailAll DEF Posts
        <5> QED BY <5>1, <5>2
      <4>3. (queue \in Seq(Handler) /\ ~Free(queue, ProcessSet(c)) => Alive(c))'
        BY ProcessAlive, PTL
      <4> QED BY <2>0, <4>2, <4>3
    <3> QED BY <2>2, <3>1 DEF FreedInOrder
  <2>3. CASE c \in error
    <3>1. \A op \in ConnOps : Posted(op, c)' => Posted(op, c)
      <4> SUFFICES ASSUME NEW op \in ConnOps, ~Posted(op, c) PROVE ~Posted(op, c)'
        OBVIOUS
      <4>1. Task(op, c) \in ConnSet(c)
        BY TaskSets
      <4>2. Free(Tail(queue), {Task(op, c)})
        BY <2>0, <2>1, PostedFree, TailAll DEF Posts
      <4>3. P \cap {Task(op, c)} = {}
        BY <2>1, <2>3, <4>1 DEF Continues
      <4>4. Free(queue', {Task(op, c)})
        BY <2>1, <4>2, <4>3 DEF Posts
      <4> QED BY <4>4, PostedFree
    <3>2. c \in error'
      <4>1. ASSUME NEW d \in Clients, handle_accept(d) PROVE d # c
        <5>1. Head(queue) = Task("handle_accept", d) /\ queue # <<>>
          BY <4>1 DEF handle_accept, Runs
        <5>2. Head(queue) \in ReadSet(d)
          BY <5>1, TaskSets DEF ConnOps, ReadOps
        <5>3. d \notin error
          BY <2>0, <5>1, <5>2, TailAll DEF ServerInv, ConnInv
        <5> QED BY <2>3, <5>3
      <4> QED
        BY <1>2, <2>3, <4>1
           DEF IoThread, ConnHandler, TcpServer_Process, accept_failed, handle_accept,
               start_throws, start_read, handle_read, read_failed, Process, Send, handle_write
    <3>3. c \notin reading'
      BY <3>2 DEF ServerInv, ConnInv
    <3>4. c \in writing' => c \in writing \/ Posted("Send", c)
      <4>1. ASSUME NEW d \in Clients, Send(d) PROVE Posted("Send", d)
        <5>1. queue[1] = Task("Send", d) /\ 1 \in 1..Len(queue)
          BY <2>0, <4>1 DEF Send, Runs
        <5> QED BY <5>1 DEF Posted
      <4> QED
        BY <1>2, <4>1
           DEF IoThread, ConnHandler, TcpServer_Process, accept_failed, handle_accept,
               start_throws, start_read, handle_read, read_failed, Process, Send, handle_write
    <3> QED BY <2>3, <3>1, <3>2, <3>3, <3>4 DEF FreedInOrder
  <2> QED BY <2>2, <2>3
<1> QED BY <1>1, <1>2

\* A completion posts a handler and destroys nothing; for a connection whose error is
\* set it can only be the end of a write.
LEMMA CompletionFreed ==
  ASSUME ServerInv, ServerInv', AcceptFails \/ \E d \in Clients : Completion(d),
         NEW c \in Clients
  PROVE  FreedInOrder(c)
<1>0. queue \in Seq(Handler) /\ queue' \in Seq(Handler)
  BY DEF ServerInv, ServerTypeOK
<1>1. PICK h \in Handler :
        /\ queue' = Append(queue, h)
        /\ error' = error /\ writing' \subseteq writing
        /\ c \in reading /\ c \notin reading' => h \in ConnSet(c)
        /\ c \in writing /\ c \notin writing' => h \in ConnSet(c)
        /\ c \in error /\ h \in ConnSet(c) => h = Task("handle_write", c) /\ c \in writing
  <2>1. CASE AcceptFails
    <3>1. /\ Task("accept_failed", NoClient) \in Handler
          /\ Task("accept_failed", NoClient) \notin ConnSet(c)
      BY TaskSets DEF ServerOps
    <3> QED BY <2>1, <3>1 DEF AcceptFails
  <2>2. ASSUME NEW d \in Clients, AcceptCompletes(d)
        PROVE  /\ Task("handle_accept", d) \in Handler
               /\ c \in error => Task("handle_accept", d) \notin ConnSet(c)
    BY <2>2, TaskSets DEF AcceptCompletes, ConnOps
  <2>3. ASSUME NEW d \in Clients, ReadCompletes(d), NEW op \in {"handle_read", "read_failed"}
        PROVE  /\ Task(op, d) \in Handler
               /\ c \in error => Task(op, d) \notin ConnSet(c)
               /\ Task(op, d) \in ConnSet(d)
    <3>1. d \notin error /\ op \in ConnOps
      BY <2>3 DEF ReadCompletes, ServerInv, ConnInv, ConnOps
    <3> QED BY <3>1, TaskSets
  <2>4. ASSUME NEW d \in Clients, WriteCompletes(d)
        PROVE  /\ Task("handle_write", d) \in Handler
               /\ Task("handle_write", d) \in ConnSet(c) <=> c = d
    BY TaskSets DEF ConnOps
  <2>5. ASSUME NEW d \in Clients, AcceptCompletes(d)
        PROVE  /\ queue' = Append(queue, Task("handle_accept", d))
               /\ error' = error /\ writing' = writing /\ reading' = reading
    BY <2>5 DEF AcceptCompletes
  <2>6. ASSUME NEW d \in Clients, ReadCompletes(d)
        PROVE  /\ \E op \in {"handle_read", "read_failed"} : queue' = Append(queue, Task(op, d))
               /\ error' = error /\ writing' = writing /\ reading' = reading \ {d}
    BY <2>6 DEF ReadCompletes
  <2>7. ASSUME NEW d \in Clients, WriteCompletes(d)
        PROVE  /\ queue' = Append(queue, Task("handle_write", d)) /\ d \in writing
               /\ error' = error /\ writing' = writing \ {d} /\ reading' = reading
    BY <2>7 DEF WriteCompletes
  <2>8. ASSUME NEW d \in Clients, Completion(d)
        PROVE  \E h \in Handler :
                 /\ queue' = Append(queue, h)
                 /\ error' = error /\ writing' \subseteq writing
                 /\ c \in reading /\ c \notin reading' => h \in ConnSet(c)
                 /\ c \in writing /\ c \notin writing' => h \in ConnSet(c)
                 /\ c \in error /\ h \in ConnSet(c) =>
                      h = Task("handle_write", c) /\ c \in writing
    <3>1. CASE AcceptCompletes(d)
      BY <2>2, <2>5, <3>1
    <3>2. CASE ReadCompletes(d)
      BY <2>3, <2>6, <3>2
    <3>3. CASE WriteCompletes(d)
      BY <2>4, <2>7, <3>3
    <3> QED BY <2>8, <3>1, <3>2, <3>3 DEF Completion
  <2> QED BY <2>1, <2>8
<1>2. \A S : Free(queue', S) <=> Free(queue, S) /\ h \notin S
  BY <1>0, <1>1, AppendFree
<1>3. ASSUME Alive(c) PROVE Alive(c)'
  <2>1. c \in reading \/ c \in writing \/ ~Free(queue, ConnSet(c))
    BY <1>0, <1>3, AliveFree
  <2>2. c \in reading' \/ c \in writing' \/ ~Free(queue', ConnSet(c))
    BY <1>1, <1>2, <2>1
  <2>3. (queue \in Seq(Handler) /\ (c \in reading \/ c \in writing \/ ~Free(queue, ConnSet(c)))
           => Alive(c))'
    BY AliveFree, PTL
  <2> QED BY <1>0, <2>2, <2>3
<1>4. ASSUME c \in error
      PROVE  \A op \in ConnOps :
               Posted(op, c)' => Posted(op, c) \/ (op = "handle_write" /\ c \in writing)
  <2> SUFFICES ASSUME NEW op \in ConnOps, Posted(op, c)', ~Posted(op, c)
               PROVE  op = "handle_write" /\ c \in writing
    OBVIOUS
  <2>1. h = Task(op, c)
    BY <1>2, PostedFree
  <2>2. h \in ConnSet(c)
    BY <2>1, TaskSets
  <2>3. Task(op, c) = Task("handle_write", c) /\ c \in writing
    BY <1>1, <1>4, <2>1, <2>2
  <2> QED BY <2>3 DEF Task
<1>5. c \in error => c \notin reading'
  BY <1>1 DEF ServerInv, ConnInv
<1> QED BY <1>1, <1>3, <1>4, <1>5 DEF FreedInOrder

\* What the clients do destroys nothing and starts nothing.
LEMMA ClientsFreed ==
  ASSUME ServerInv, NEW d \in Clients, ClientStep(d), NEW c \in Clients
  PROVE  FreedInOrder(c)
<1>1. /\ queue' = queue /\ reading' = reading /\ writing' = writing
      /\ c \in error /\ Alive(c) => c \in error'
  BY DEF ClientStep, ClientConnects, ClientLeaves, ClientForgets
<1>2. (Alive(c)' <=> Alive(c)) /\ \A op : Posted(op, c)' <=> Posted(op, c)
  BY <1>1 DEF Alive, Posted
<1>3. c \in error => c \notin reading
  BY DEF ServerInv, ConnInv
<1> QED BY <1>1, <1>2, <1>3 DEF FreedInOrder

\* The core of ConnectionFreed, for any set of clients: a connection is destroyed
\* only after its read has failed, and from then on it can only run out: the
\* handlers it has run, each at most turning into the write or the handle_write
\* that ends it, and none posts another.
THEOREM ServerFrees == ServerSpec => FailsThenFreed
<1>1. ServerInv /\ UNCHANGED serverVars => ServerInv'
  BY DEF serverVars, ServerInv, ServerTypeOK, AcceptInv, ConnInv
<1>2. ServerInv /\ [ServerNext]_serverVars => ServerInv'
  BY <1>1, AcceptStep, ConnStep, CompletionStep, ClientsStep DEF ServerNext, IoThread, ConnHandler
<1>3. ServerInv /\ ServerInv' /\ [ServerNext]_serverVars
        => [\A c \in Clients : FreedInOrder(c)]_serverVars
  BY IoFreed, CompletionFreed, ClientsFreed DEF ServerNext
<1> QED BY <1>2, <1>3, ServerInvInit, PTL DEF ServerSpec, FailsThenFreed, FreedInOrder

=============================================================================
