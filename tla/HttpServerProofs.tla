-------------------------- MODULE HttpServerProofs --------------------------
(* The safety properties of HttpServer, for any number of clients.           *)
EXTENDS HttpServer, TLAPS

\* What the handlers rely on: an aborted operation belongs to a connection that
\* stop_all has taken out of the set, so its handler need not do it.
AbortedForgotten == \A c \in Conns : ec[c] = "aborted" => c \notin connections

HttpInv ==
  HttpTypeOK /\ Managed /\ AcceptOutstanding /\ StoppedForGood /\ AbortedForgotten

\* A started server satisfies the invariant.
LEMMA HttpInvInit == HttpInit => HttpInv
BY DEF HttpInit, HttpInv, HttpTypeOK, Managed, AcceptOutstanding, StoppedForGood,
       AbortedForgotten, NoOp, Codes

\* Every handler and every completion keeps the invariant.
LEMMA HttpInvStep == HttpInv /\ [HttpNext]_httpVars => HttpInv'
<1> SUFFICES ASSUME HttpInv, [HttpNext]_httpVars PROVE HttpInv'
  OBVIOUS
<1> USE DEF HttpInv, HttpTypeOK, Managed, AcceptOutstanding, StoppedForGood,
            AbortedForgotten, NoOp, Codes
<1>1. CASE accept_handler
  BY <1>1, ConnsAssumption DEF accept_handler, start
<1>2. CASE signal_handler
  BY <1>2, ConnsAssumption DEF signal_handler, stop_all
<1>3. ASSUME NEW c \in Conns, read_handler(c)
      PROVE  HttpInv'
  <2>1. CASE ec[c] = "ok"
    BY <1>3, <2>1 DEF read_handler, do_write, do_read, Begin
  <2>2. CASE ec[c] = "error"
    BY <1>3, <2>2 DEF read_handler, Ends, stop
  <2>3. CASE ec[c] = "aborted"
    BY <1>3, <2>3 DEF read_handler, Ends
  <2> QED BY <1>3, <2>1, <2>2, <2>3 DEF read_handler
<1>4. ASSUME NEW c \in Conns, write_handler(c)
      PROVE  HttpInv'
  <2>1. CASE ec[c] = "aborted"
    BY <1>4, <2>1 DEF write_handler, Ends
  <2>2. CASE ec[c] # "aborted"
    BY <1>4, <2>2 DEF write_handler, Ends, stop
  <2> QED BY <2>1, <2>2
<1>5. ASSUME NEW c \in Conns, Completes(c)
      PROVE  HttpInv'
  BY <1>5 DEF Completes
<1>6. ASSUME NEW c \in Conns, ClientConnects(c)
      PROVE  HttpInv'
  BY <1>6, ConnsAssumption DEF ClientConnects
<1>7. CASE AcceptFails \/ Signal
  BY <1>7 DEF AcceptFails, Signal
<1>8. CASE UNCHANGED httpVars
  BY <1>8 DEF httpVars
<1> QED BY <1>1, <1>2, <1>3, <1>4, <1>5, <1>6, <1>7, <1>8 DEF HttpNext, Handlers

\* For any number of clients connection_manager holds exactly the open
\* connections, an accept is outstanding as long as the acceptor is open, and
\* after the signal nothing is opened any more, although an accept, a read or a
\* write may have completed before the signal and be handled after it.
THEOREM HttpServerSound ==
  HttpSpec => [](HttpTypeOK /\ Managed /\ AcceptOutstanding /\ StoppedForGood)
<1>1. HttpInv => HttpTypeOK /\ Managed /\ AcceptOutstanding /\ StoppedForGood
  BY DEF HttpInv
<1> QED BY <1>1, HttpInvInit, HttpInvStep, PTL DEF HttpSpec

-----------------------------------------------------------------------------
(* From the signal to the return of run *)

\* Only an open acceptor and the connections of connections_ are waited for.
WaitsOpen ==
  /\ accept = "pending" => acceptor = "open"
  /\ \A c \in Conns : op[c] # NoOp /\ ec[c] = "pending" => c \in connections

\* After signal_handler nothing is waited for: whatever is left of the accept and
\* of the connections' operations is a handler that can run.
Quiesced ==
  signal = "done" =>
    /\ accept # "pending"
    /\ \A c \in Conns : op[c] # NoOp => ec[c] # "pending"

\* Closing the acceptor and the sockets completes what is pending on them, and
\* nothing can be started on them that stays pending.
LEMMA WaitsOpenStep == HttpInv /\ WaitsOpen /\ [HttpNext]_httpVars => WaitsOpen'
<1> SUFFICES ASSUME HttpInv, WaitsOpen, [HttpNext]_httpVars PROVE WaitsOpen'
  OBVIOUS
<1> USE DEF HttpInv, HttpTypeOK, Managed, StoppedForGood, WaitsOpen, NoOp, Codes
<1>1. CASE accept_handler
  BY <1>1, ConnsAssumption DEF accept_handler, start
<1>2. CASE signal_handler
  BY <1>2, ConnsAssumption DEF signal_handler, stop_all
<1>3. ASSUME NEW c \in Conns, read_handler(c)
      PROVE  WaitsOpen'
  <2>1. CASE ec[c] = "ok"
    BY <1>3, <2>1 DEF read_handler, do_write, do_read, Begin
  <2>2. CASE ec[c] # "ok"
    BY <1>3, <2>2 DEF read_handler, Ends, stop
  <2> QED BY <2>1, <2>2
<1>4. ASSUME NEW c \in Conns, write_handler(c)
      PROVE  WaitsOpen'
  BY <1>4 DEF write_handler, Ends, stop
<1>5. ASSUME NEW c \in Conns, Completes(c)
      PROVE  WaitsOpen'
  BY <1>5 DEF Completes
<1>6. ASSUME NEW c \in Conns, ClientConnects(c)
      PROVE  WaitsOpen'
  BY <1>6, ConnsAssumption DEF ClientConnects
<1>7. CASE AcceptFails \/ Signal \/ UNCHANGED httpVars
  BY <1>7 DEF AcceptFails, Signal, httpVars
<1> QED BY <1>1, <1>2, <1>3, <1>4, <1>5, <1>6, <1>7 DEF HttpNext, Handlers

\* What WindsDown says of one step.
Winds ==
  signal = "done" =>
    /\ accept' \in {accept, NoOp}
    /\ \A c \in Conns : Left(c)' <= Left(c)
    /\ accept' # accept \/ \E c \in Conns : Left(c)' < Left(c)

\* A handler of connection c that changes op and ec only at c, and leaves c less
\* to run, is such a step.
LEMMA WindsAt ==
  ASSUME NEW c \in Conns, Left(c)' < Left(c), UNCHANGED accept,
         \A d \in Conns \ {c} : op'[d] = op[d] /\ ec'[d] = ec[d]
  PROVE  Winds
BY DEF Winds, Left

\* After the signal each step runs a handler that is queued and leaves less to run.
LEMMA WindsStep == HttpInv /\ Quiesced /\ HttpNext => Winds
<1> SUFFICES ASSUME HttpInv, Quiesced, HttpNext, signal = "done" PROVE Winds
  BY DEF Winds
<1> USE DEF HttpInv, HttpTypeOK, Managed, StoppedForGood, Quiesced, NoOp, Codes
<1>1. CASE accept_handler
  BY <1>1, ConnsAssumption DEF accept_handler, Winds, Left
<1>2. ASSUME NEW c \in Conns, read_handler(c)
      PROVE  Winds
  <2>1. \A d \in Conns \ {c} : op'[d] = op[d] /\ ec'[d] = ec[d]
    BY <1>2 DEF read_handler, do_write, do_read, Begin, Ends
  <2>2. CASE ec[c] = "ok"
    <3>1. op'[c] # NoOp /\ ec'[c] = "error"
      BY <1>2, <2>2 DEF read_handler, do_write, do_read, Begin
    <3>2. Left(c)' < Left(c)
      BY <3>1, <1>2, <2>2 DEF Left, read_handler
    <3> QED BY <1>2, <2>1, <3>2, WindsAt DEF read_handler
  <2>3. CASE ec[c] # "ok"
    <3>1. Left(c)' < Left(c)
      BY <1>2, <2>3 DEF Left, read_handler, Ends
    <3> QED BY <1>2, <2>1, <3>1, WindsAt DEF read_handler
  <2> QED BY <2>2, <2>3
<1>3. ASSUME NEW c \in Conns, write_handler(c)
      PROVE  Winds
  <2>1. Left(c)' < Left(c)
    BY <1>3 DEF Left, write_handler, Ends
  <2>2. \A d \in Conns \ {c} : op'[d] = op[d] /\ ec'[d] = ec[d]
    BY <1>3 DEF write_handler, Ends
  <2> QED BY <1>3, <2>1, <2>2, WindsAt DEF write_handler
<1> QED
  BY <1>1, <1>2, <1>3
     DEF HttpNext, Handlers, signal_handler, Completes, ClientConnects, AcceptFails,
         Signal

\* The core of SignalStops, for any number of clients: once the signal has been
\* handled whatever is left is a handler that can run, and each one that runs
\* leaves less.  As many steps as there was to run and io_service::run returns.
THEOREM HttpServerWindsDown == HttpSpec => []Quiesced /\ WindsDown
<1>1. HttpInit => WaitsOpen
  BY DEF HttpInit, WaitsOpen
<1>2. HttpInv /\ WaitsOpen => Quiesced
  BY DEF HttpInv, StoppedForGood, WaitsOpen, Quiesced
<1>3. HttpInv /\ Quiesced /\ [HttpNext]_httpVars => [Winds]_httpVars
  BY WindsStep
<1> QED
  BY <1>1, <1>2, <1>3, HttpInvInit, HttpInvStep, WaitsOpenStep, PTL
     DEF HttpSpec, WindsDown, Winds

=============================================================================
