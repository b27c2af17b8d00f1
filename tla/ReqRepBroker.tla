---------------------------- MODULE ReqRepBroker ----------------------------
(***************************************************************************)
(* zmqtest: request-reply clients (reqrepclient.cpp), the broker between    *)
(* its ROUTER and its DEALER socket (reqrepbroker.cpp) and the workers      *)
(* behind it (reqrepworker.cpp).  A request is its client and its number;   *)
(* the reply keeps both, the client as the envelope ZeroMQ puts on it.      *)
(* Queues, envelopes and the loss of what was dealt to a process that is    *)
(* killed are ZeroMQ's.                                                     *)
(***************************************************************************)
EXTENDS Integers, Sequences, FiniteSets, Functions

CONSTANTS
  Requesters, Workers,
  Requests        \* requests per client, 10 in the code

VARIABLES
  cpc, reqNo,     \* of each client: send, recv, done, dead; its request i
  frontend,       \* requests at the ROUTER socket
  backend,        \* replies at the DEALER socket
  dealt,          \* of each worker: the requests dealt to it
  working,        \* of each worker: the request it answers, a set of at most one
  alive,          \* the workers that have not been killed
  bpc, revents,   \* the broker: poll, front, back; the sockets poll reported
  replies,        \* of each client: the numbers that came back
  lost            \* history: requests lost with a worker

brokerVars == <<cpc, reqNo, frontend, backend, dealt, working, alive, bpc, revents,
                replies, lost>>

BrokerInit ==
  /\ cpc = [c \in Requesters |-> "send"] /\ reqNo = [c \in Requesters |-> 0]
  /\ frontend = <<>> /\ backend = <<>>
  /\ dealt = [w \in Workers |-> <<>>] /\ working = [w \in Workers |-> {}]
  /\ alive = Workers /\ bpc = "poll" /\ revents = {}
  /\ replies = [c \in Requesters |-> <<>>] /\ lost = {}

requester_send(c) ==
  /\ cpc[c] = "send" /\ cpc' = [cpc EXCEPT ![c] = "recv"]
  /\ frontend' = Append(frontend, <<c, reqNo[c]>>)
  /\ UNCHANGED <<reqNo, backend, dealt, working, alive, bpc, revents, replies, lost>>

\* zmq_recv: the reply of this client is the only one it is given.
requester_recv(c) ==
  /\ cpc[c] = "recv" /\ Len(replies[c]) > reqNo[c]
  /\ reqNo' = [reqNo EXCEPT ![c] = @ + 1]
  /\ cpc' = [cpc EXCEPT ![c] = IF reqNo'[c] = Requests THEN "done" ELSE "send"]
  /\ UNCHANGED <<frontend, backend, dealt, working, alive, bpc, revents, replies, lost>>

broker_poll ==
  /\ bpc = "poll" /\ bpc' = "front"
  /\ revents' = {x \in {"front", "back"} :
                   IF x = "front" THEN frontend # <<>> ELSE backend # <<>>}
  /\ revents' # {}
  /\ UNCHANGED <<cpc, reqNo, frontend, backend, dealt, working, alive, replies, lost>>

\* All the frames of one request go to the backend, which deals it to a worker
\* that is connected and blocks the broker while there is none.
broker_front ==
  /\ bpc = "front" /\ bpc' = "back"
  /\ IF "front" \notin revents THEN UNCHANGED <<frontend, dealt>>
     ELSE \E w \in alive :
            /\ dealt' = [dealt EXCEPT ![w] = Append(@, Head(frontend))]
            /\ frontend' = Tail(frontend)
  /\ UNCHANGED <<cpc, reqNo, backend, working, alive, revents, replies, lost>>

\* All the frames of one reply go to the client of the envelope, or nowhere if
\* it is gone.
broker_back ==
  /\ bpc = "back" /\ bpc' = "poll" /\ revents' = {}
  /\ IF "back" \notin revents THEN UNCHANGED <<backend, replies>>
     ELSE /\ backend' = Tail(backend)
          /\ LET c == Head(backend)[1] IN
             replies' = IF cpc[c] = "dead" THEN replies
                        ELSE [replies EXCEPT ![c] = Append(@, Head(backend)[2])]
  /\ UNCHANGED <<cpc, reqNo, frontend, dealt, working, alive, lost>>

worker_recv(w) ==
  /\ w \in alive /\ working[w] = {} /\ dealt[w] # <<>>
  /\ working' = [working EXCEPT ![w] = {Head(dealt[w])}]
  /\ dealt' = [dealt EXCEPT ![w] = Tail(@)]
  /\ UNCHANGED <<cpc, reqNo, frontend, backend, alive, bpc, revents, replies, lost>>

\* "World_" and the request from its first digit on.
worker_send(w) ==
  /\ w \in alive
  /\ \E r \in working[w] : backend' = Append(backend, r)
  /\ working' = [working EXCEPT ![w] = {}]
  /\ UNCHANGED <<cpc, reqNo, frontend, dealt, alive, bpc, revents, replies, lost>>

kill_worker(w) ==
  /\ w \in alive /\ alive' = alive \ {w}
  /\ lost' = lost \cup working[w] \cup Range(dealt[w])
  /\ dealt' = [dealt EXCEPT ![w] = <<>>] /\ working' = [working EXCEPT ![w] = {}]
  /\ UNCHANGED <<cpc, reqNo, frontend, backend, bpc, revents, replies>>

kill_requester(c) ==
  /\ cpc[c] \in {"send", "recv"} /\ cpc' = [cpc EXCEPT ![c] = "dead"]
  /\ UNCHANGED <<reqNo, frontend, backend, dealt, working, alive, bpc, revents, replies, lost>>

brokerStep == broker_poll \/ broker_front \/ broker_back
requester(c) == requester_send(c) \/ requester_recv(c)
worker(w) == worker_recv(w) \/ worker_send(w)

BrokerNext ==
  \/ brokerStep
  \/ \E c \in Requesters : requester(c) \/ kill_requester(c)
  \/ \E w \in Workers : worker(w) \/ kill_worker(w)

-----------------------------------------------------------------------------
\* A client gets the replies to its own requests and in their order, and a
\* request is in one place: at the broker, at one worker, answered or lost.
RepliesMatch ==
  \A c \in Requesters :
    /\ \A k \in 1 .. Len(replies[c]) : replies[c][k] = k - 1
    /\ Len(replies[c]) <= reqNo[c] + 1
    /\ cpc[c] = "recv" =>
         LET r == <<c, reqNo[c]>> IN
         Cardinality({x \in {"front", "back", "lost"} :
             CASE x = "front" -> r \in Range(frontend)
               [] x = "back"  -> r \in Range(backend)
               [] x = "lost"  -> r \in lost})
         + Cardinality({w \in Workers : r \in Range(dealt[w]) \cup working[w]})
         + (IF Len(replies[c]) > reqNo[c] THEN 1 ELSE 0) = 1

\* While a worker is alive every client gets through its requests, unless one of
\* its own was lost with a worker, which nobody sends again.
RequesterEnds(c) ==
  cpc[c] \in {"done", "dead"} \/ (\E r \in lost : r[1] = c) \/ alive = {}
=============================================================================
