------------------------------ MODULE Exchange ------------------------------
(***************************************************************************)
(* What a client and the server promise each other, without bytes, buffers, *)
(* reads or writes: requests are served one by one in the order they were   *)
(* asked; one that has a processor with an answer gets one reply and no      *)
(* other gets any; the client takes the replies one by one in their order   *)
(* and shows those that have a processor of its own.                        *)
(***************************************************************************)
EXTENDS Naturals, Sequences

CONSTANTS
  Requests,     \* what the client can ask
  Serves(_),    \* the requests that reach a processor of the server
  Answers(_),   \* what that processor may answer with, if it answers
  Shows(_)      \* the replies that reach a processor of the client

VARIABLES
  requests,   \* the requests asked so far
  served,     \* how many of them the server is done with
  replies,    \* the replies, each with the number of its request
  taken,      \* how many of them the client is done with
  shown       \* the numbers of those its processors have seen

exchangeVars == <<requests, served, replies, taken, shown>>

Init ==
  /\ requests = <<>> /\ served = 0 /\ replies = <<>>
  /\ taken = 0 /\ shown = <<>>

Ask ==
  /\ \E p \in Requests : requests' = Append(requests, p)
  /\ UNCHANGED <<served, replies, taken, shown>>

Serve ==
  LET k == served + 1
  IN  /\ k <= Len(requests)
      /\ served' = k
      /\ IF Serves(requests[k]) /\ Answers(requests[k]) # {}
         THEN \E r \in Answers(requests[k]) :
                replies' = Append(replies, [to |-> k, packet |-> r])
         ELSE replies' = replies
      /\ UNCHANGED <<requests, taken, shown>>

Take ==
  LET j == taken + 1
  IN  /\ j <= Len(replies)
      /\ taken' = j
      /\ shown' = IF Shows(replies[j].packet) THEN Append(shown, j) ELSE shown
      /\ UNCHANGED <<requests, served, replies>>

Spec == Init /\ [][Ask \/ Serve \/ Take]_exchangeVars
=============================================================================
