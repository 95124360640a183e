------------------------------- MODULE ZmqQueue -------------------------------
(***************************************************************************)
(* The flow-controlled queue of elefant_rust/src/zmq_queue.rs: one server  *)
(* (ROUTER socket) fans items out to NClients clients (DEALER sockets).    *)
(* The server counts, per client, what it has sent and not seen            *)
(* acknowledged; a client acknowledges an item as soon as it has received  *)
(* it.  Modelled with the interleaving of the server's put, of the         *)
(* messages under way in both directions, and of the clients' gets, and    *)
(* with client processes that die and are started again.                   *)
(*                                                                         *)
(* A message from a client is "ready" or "ack"; acks are alike, so the     *)
(* channel towards the server is two counters per peer.  A message that    *)
(* has been sent arrives at any later time, which is why every drain of    *)
(* the socket (DONTWAIT) may end while acks are still under way.           *)
(***************************************************************************)
EXTENDS Naturals, Sequences, FiniteSets

CONSTANTS NClients,          \* n_clients
          Peers,             \* identities that may connect; those the server expects are Clients
          PerClientMaxSize,  \* per_client_max_size
          Items,             \* payloads
          EndOfEpoch,        \* the pickled None that ends an epoch
          Nothing,           \* no item yet
          MaxOverflow,       \* bound: forced sends happen only below PerClientMaxSize + MaxOverflow
          MaxCrashes         \* bound: how many client deaths a behaviour has

Clients == 0 .. NClients - 1
Messages == Items \union {EndOfEpoch}

ASSUME ConstantsAssumption ==
  /\ NClients \in Nat \ {0}
  /\ Clients \subseteq Peers
  /\ PerClientMaxSize \in Nat \ {0}
  /\ MaxOverflow \in Nat
  /\ MaxCrashes \in Nat
  /\ Nothing \notin Messages
  /\ EndOfEpoch \notin Items

VARIABLES
  serverPc,          \* where the server is in new() or put()
  connected,         \* connected_clients of wait_for_clients
  call,              \* the arguments of the put in progress
  clientQueueSizes,  \* client_queue_sizes
  lastSentIdx,       \* last_sent_idx
  why,               \* which Err ended the server
  peer,              \* "off", "on" or "dead": the client process behind each identity
  ready,             \* "ready" messages under way from each peer
  down,              \* items under way to each client, in order
  acks,              \* acks under way from each client
  got,               \* what the client's last get returned
  crashed            \* clients that have died at least once

serverVars == <<serverPc, connected, call, clientQueueSizes, lastSentIdx, why>>
clientVars == <<peer, got, crashed>>
netVars == <<ready, down, acks>>
vars == <<serverVars, clientVars, netVars>>

Call == [item : Messages, ignoreFull : BOOLEAN, waits : BOOLEAN]
NoCall == [item |-> EndOfEpoch, ignoreFull |-> FALSE, waits |-> FALSE]

\* put returns: its arguments are gone.
Return == serverPc' = "idle" /\ call' = NoCall

\* The server's process ends on an Err, whichever of its callers sees it.
Fail(reason) == serverPc' = "failed" /\ why' = reason

-----------------------------------------------------------------------------
Init ==
  /\ serverPc = "waiting"
  /\ connected = {}
  /\ call = NoCall
  /\ clientQueueSizes = [c \in Clients |-> 0]
  /\ lastSentIdx = 0
  /\ why = "none"
  /\ peer = [p \in Peers |-> "off"]
  /\ ready = [p \in Peers |-> 0]
  /\ down = [c \in Clients |-> <<>>]
  /\ acks = [c \in Clients |-> 0]
  /\ got = [c \in Clients |-> Nothing]
  /\ crashed = {}

-----------------------------------------------------------------------------
(* ZMQQueueServer::wait_for_clients *)

\* Variant with a defect: starts one client too early.
ReceiveReadyOneShort(p) ==
  /\ serverPc = "waiting" /\ ready[p] > 0
  /\ ready' = [ready EXCEPT ![p] = @ - 1]
  /\ connected' = connected \union {p}
  /\ IF Cardinality(connected') < NClients - 1 THEN UNCHANGED serverPc ELSE serverPc' = "idle"
  /\ UNCHANGED <<why, call, clientQueueSizes, lastSentIdx, clientVars, down, acks>>

\* The sorted identities are compared with 0..n_clients once enough have come.
ReceiveReady(p) ==
  /\ serverPc = "waiting" /\ ready[p] > 0
  /\ ready' = [ready EXCEPT ![p] = @ - 1]
  /\ IF p \in connected
       THEN Fail("duplicate") /\ UNCHANGED connected
       ELSE /\ connected' = connected \union {p}
            /\ IF Cardinality(connected') < NClients THEN UNCHANGED <<serverPc, why>>
               ELSE IF connected' = Clients THEN serverPc' = "idle" /\ UNCHANGED why
               ELSE Fail("identities")
  /\ UNCHANGED <<call, clientQueueSizes, lastSentIdx, clientVars, down, acks>>

\* Four minutes without a message.
StartTimeout ==
  /\ serverPc = "waiting"
  /\ Fail("start timeout")
  /\ UNCHANGED <<connected, call, clientQueueSizes, lastSentIdx, clientVars, netVars>>

-----------------------------------------------------------------------------
(* ZMQQueueServer::put *)

\* Only a marker is ever put with ignore_full (video_proto_dataset.py:176), and
\* then without a wait.
CallPut ==
  /\ serverPc = "idle"
  /\ \E c \in Call :
       /\ c.ignoreFull => /\ c.item = EndOfEpoch /\ ~c.waits
                          /\ \A i \in Clients : clientQueueSizes[i] < PerClientMaxSize + MaxOverflow
       /\ call' = c
  /\ serverPc' = "acking"
  /\ UNCHANGED <<connected, clientQueueSizes, lastSentIdx, why, clientVars, netVars>>

\* check_for_acks: an ack is counted, or refused when nothing is outstanding.
CountAck(c) ==
  /\ acks[c] > 0
  /\ acks' = [acks EXCEPT ![c] = @ - 1]
  /\ IF clientQueueSizes[c] = 0
       THEN Fail("ack of nothing") /\ UNCHANGED clientQueueSizes
       ELSE /\ clientQueueSizes' = [clientQueueSizes EXCEPT ![c] = @ - 1]
            /\ serverPc' = "acking" /\ UNCHANGED why
  /\ UNCHANGED <<connected, call, lastSentIdx, clientVars, ready, down>>

\* The DONTWAIT drain, also after the first ack of a blocking wait.
DrainAck(c) == serverPc = "acking" /\ CountAck(c)

\* Variant with a defect: the ack is counted, but the queues are not looked at again.
BlockedAckForgotten(c) ==
  /\ serverPc = "blocked" /\ acks[c] > 0
  /\ acks' = [acks EXCEPT ![c] = @ - 1]
  /\ clientQueueSizes' = [clientQueueSizes EXCEPT ![c] = @ - 1]
  /\ UNCHANGED <<serverPc, why, connected, call, lastSentIdx, clientVars, ready, down>>

\* The blocking wait of a put that found every client full.
BlockedAck(c) == serverPc = "blocked" /\ CountAck(c)

\* Anything but an ack, such as the "ready" of a client started again, is an error.
UnexpectedReady(p) ==
  /\ serverPc \in {"acking", "blocked"} /\ ready[p] > 0
  /\ ready' = [ready EXCEPT ![p] = @ - 1]
  /\ Fail("unexpected message")
  /\ UNCHANGED <<connected, call, clientQueueSizes, lastSentIdx, clientVars, down, acks>>

EndDrain ==
  /\ serverPc = "acking"
  /\ serverPc' = "sending"
  /\ UNCHANGED <<connected, call, clientQueueSizes, lastSentIdx, why, clientVars, netVars>>

\* Variant with a defect: off by one.
HasRoomOffByOne(c) == clientQueueSizes[c] <= PerClientMaxSize

HasRoom(c) == clientQueueSizes[c] < PerClientMaxSize

\* send_to_client for every client in cs: a ROUTER drops silently what it cannot
\* route, but the size is counted all the same.
SendTo(cs, m) ==
  /\ down' = [c \in Clients |->
                IF c \in cs /\ peer[c] = "on" THEN Append(down[c], m) ELSE down[c]]
  /\ clientQueueSizes' = [c \in Clients |->
                IF c \in cs THEN clientQueueSizes[c] + 1 ELSE clientQueueSizes[c]]

\* Variant with a defect: the turn never moves on.
SendInTurnKeepingTurn ==
  /\ serverPc = "sending"
  /\ HasRoom(lastSentIdx) \/ call.ignoreFull
  /\ SendTo({lastSentIdx}, call.item)
  /\ Return
  /\ UNCHANGED <<connected, lastSentIdx, why, clientVars, ready, acks>>

\* The client whose turn it is takes the item, and the turn moves on.
SendInTurn ==
  /\ serverPc = "sending"
  /\ HasRoom(lastSentIdx) \/ call.ignoreFull
  /\ SendTo({lastSentIdx}, call.item)
  /\ lastSentIdx' = (lastSentIdx + 1) % NClients
  /\ Return
  /\ UNCHANGED <<connected, why, clientVars, ready, acks>>

\* Its queue is full: the first one after it with room takes the item, and the
\* turn stays where it is.
SendOutOfTurn ==
  /\ serverPc = "sending"
  /\ ~HasRoom(lastSentIdx) /\ ~call.ignoreFull
  /\ \E i \in 1 .. NClients - 1 :
       /\ HasRoom((lastSentIdx + i) % NClients)
       /\ \A j \in 1 .. i - 1 : ~HasRoom((lastSentIdx + j) % NClients)
       /\ SendTo({(lastSentIdx + i) % NClients}, call.item)
  /\ Return
  /\ UNCHANGED <<connected, lastSentIdx, why, clientVars, ready, acks>>

Block ==
  /\ serverPc = "sending"
  /\ ~call.ignoreFull /\ \A c \in Clients : ~HasRoom(c)
  /\ serverPc' = "blocked"
  /\ UNCHANGED <<connected, call, clientQueueSizes, lastSentIdx, why, clientVars, netVars>>

\* put returns false after wait_seconds without an ack.
GiveUp ==
  /\ serverPc = "blocked" /\ call.waits
  /\ Return
  /\ UNCHANGED <<connected, clientQueueSizes, lastSentIdx, why, clientVars, netVars>>

\* Without wait_seconds the wait is of 24 hours: it is taken to end only when no
\* ack is under way and no live client has anything left to acknowledge.
FullError ==
  /\ serverPc = "blocked" /\ ~call.waits
  /\ \A c \in Clients : acks[c] = 0 /\ (peer[c] = "on" => down[c] = <<>>)
  /\ Fail("full")
  /\ UNCHANGED <<connected, call, clientQueueSizes, lastSentIdx, clientVars, netVars>>

\* Variant with a defect: the markers are sent but not counted.
PutToAllUncounted ==
  /\ serverPc = "idle"
  /\ \A c \in Clients : Len(down[c]) < PerClientMaxSize + MaxOverflow
  /\ down' = [c \in Clients |->
                IF peer[c] = "on" THEN Append(down[c], EndOfEpoch) ELSE down[c]]
  /\ UNCHANGED <<serverPc, connected, call, clientQueueSizes, lastSentIdx, why, clientVars,
                 ready, acks>>

\* put_to_all looks at no ack and at no limit.
PutToAll ==
  /\ serverPc = "idle"
  /\ \A i \in Clients : clientQueueSizes[i] < PerClientMaxSize + MaxOverflow
  /\ SendTo(Clients, EndOfEpoch)
  /\ UNCHANGED <<serverPc, connected, call, lastSentIdx, why, clientVars, ready, acks>>

-----------------------------------------------------------------------------
(* ZMQQueueClient *)

\* new: connect, then send "ready".
Connect(p) ==
  /\ peer[p] # "on"
  /\ peer' = [peer EXCEPT ![p] = "on"]
  /\ ready' = [ready EXCEPT ![p] = @ + 1]
  /\ UNCHANGED <<serverVars, got, crashed, down, acks>>

\* get acknowledges the item at once, before its caller has done anything with it.
Get(c) ==
  /\ peer[c] = "on" /\ down[c] # <<>>
  /\ got' = [got EXCEPT ![c] = Head(down[c])]
  /\ down' = [down EXCEPT ![c] = Tail(@)]
  /\ acks' = [acks EXCEPT ![c] = @ + 1]
  /\ UNCHANGED <<serverVars, peer, crashed, ready>>

\* The client's process dies; what was under way to it is gone, and any of its own
\* messages may be.
Crash(c) ==
  /\ peer[c] = "on" /\ c \notin crashed /\ Cardinality(crashed) < MaxCrashes
  /\ peer' = [peer EXCEPT ![c] = "dead"]
  /\ crashed' = crashed \union {c}
  /\ down' = [down EXCEPT ![c] = <<>>]
  /\ \E n \in 0 .. acks[c] : acks' = [acks EXCEPT ![c] = n]
  /\ \E n \in 0 .. ready[c] : ready' = [ready EXCEPT ![c] = n]
  /\ UNCHANGED <<serverVars, got>>

-----------------------------------------------------------------------------
Server ==
  \/ \E p \in Peers : ReceiveReady(p) \/ UnexpectedReady(p)
  \/ \E c \in Clients : DrainAck(c) \/ BlockedAck(c)
  \/ StartTimeout \/ CallPut \/ PutToAll
  \/ EndDrain \/ SendInTurn \/ SendOutOfTurn \/ Block \/ GiveUp \/ FullError

Client ==
  \/ \E p \in Peers : Connect(p)
  \/ \E c \in Clients : Get(c) \/ Crash(c)

Next == Server \/ Client

\* The server thread and every client run on.  Nothing obliges a process to start or
\* to die, nor a put to time out.  The drain reads the socket until it is empty,
\* so an ack that keeps being there is counted, though a drain may also end before
\* the ack has arrived: strong fairness.
Fairness ==
  /\ WF_vars(EndDrain) /\ WF_vars(SendInTurn) /\ WF_vars(SendOutOfTurn) /\ WF_vars(Block)
  /\ \A c \in Clients : SF_vars(DrainAck(c)) /\ WF_vars(BlockedAck(c)) /\ WF_vars(Get(c))

Spec == Init /\ [][Next]_vars /\ Fairness

-----------------------------------------------------------------------------
(* Properties *)

TypeOK ==
  /\ serverPc \in {"waiting", "idle", "acking", "sending", "blocked", "failed"}
  /\ connected \in SUBSET Peers
  /\ call \in Call
  /\ clientQueueSizes \in [Clients -> Nat]
  /\ lastSentIdx \in Clients
  /\ why \in {"none", "start timeout", "duplicate", "identities", "unexpected message",
              "ack of nothing", "full"}
  /\ peer \in [Peers -> {"off", "on", "dead"}]
  /\ ready \in [Peers -> Nat]
  /\ down \in [Clients -> Seq(Messages)]
  /\ acks \in [Clients -> Nat]
  /\ got \in [Clients -> Messages \union {Nothing}]
  /\ crashed \in SUBSET Clients

\* The credit of the flow control (send_to_client, check_for_acks, get): the size kept
\* for a client covers every item under way to it and every ack under way from it,
\* and exactly those as long as the client has not died.  So no ack ever finds a
\* size of 0, and a live client's room is never given away nor lost.
CreditConserved ==
  \A c \in Clients :
    /\ clientQueueSizes[c] >= Len(down[c]) + acks[c]
    /\ c \notin crashed => clientQueueSizes[c] = Len(down[c]) + acks[c]

\* What an Err of the server tells its operator: the "size 0" error of check_for_acks
\* is unreachable, a put without wait_seconds is refused as full only when every client
\* has died, and a "ready" at the wrong time comes from a client that was started
\* again or has an identity nobody expects.
FailureHasCause ==
  /\ why # "ack of nothing"
  /\ why = "full" => Clients \subseteq crashed
  /\ why \in {"duplicate", "unexpected message"} =>
       crashed # {} \/ \E p \in Peers \ Clients : peer[p] = "on"
  /\ why = "identities" => connected \ Clients # {}

\* Every step of server, clients and network is one of the abstract fan-out queue, or
\* leaves it alone: items are neither lost, nor duplicated, nor reordered, and an
\* ordinary put never pushes a client past per_client_max_size.
FanOut == INSTANCE FanOutQueue WITH fifo <- down, Capacity <- PerClientMaxSize
ImplementsFanOut == FanOut!Spec

\* put returns: with every client alive, a put without ignore_full does not wait for
\* ever behind full queues (the loop of put, and the early ack of get).
PutReturns ==
  [](crashed = {}) =>
    (serverPc \in {"acking", "sending", "blocked"} ~> serverPc \in {"idle", "failed"})

\* No starvation by the round robin: as long as an epoch lasts, clients live and
\* ordinary puts go on, the turn comes to every client again and again, although puts
\* that find the turn's client full are served out of turn and leave the turn in
\* place.  (A marker sent to all may refill the client whose turn it is.)
NoClientStarved ==
  (/\ [](crashed = {})
   /\ <>[][~PutToAll]_vars
   /\ []<>(serverPc = "sending" /\ ~call.ignoreFull)) =>
    \A c \in Clients : []<>(lastSentIdx = c)

\* A put always has something to do.  When the client whose turn it is has no room, the scan
\* from it around finds the first that has; and when none has and put waits, each client
\* that never died has an ack on its way or still an item to acknowledge: put and its
\* clients never wait for each other.
PutNotStuck ==
  /\ serverPc = "sending" /\ ~HasRoom(lastSentIdx) /\ (\E c \in Clients : HasRoom(c)) =>
       \E i \in 1 .. NClients - 1 :
         /\ HasRoom((lastSentIdx + i) % NClients)
         /\ \A j \in 1 .. i - 1 : ~HasRoom((lastSentIdx + j) % NClients)
  /\ serverPc = "blocked" =>
       \A c \in Clients \ crashed : acks[c] > 0 \/ (peer[c] = "on" /\ down[c] # <<>>)

InPut == {"acking", "sending", "blocked"}
StageLeft == CASE serverPc = "acking" -> 2 [] serverPc = "sending" -> 1 [] OTHER -> 0

\* As long as a put lasts, nothing is added to what it waits for, and every step that is not
\* a client's start or death takes something away: an ack is counted, put goes on to its
\* next stage, or a client receives an item.  Only so many steps can come before it returns.
PutProceeds ==
  [][{serverPc, serverPc'} \subseteq InPut =>
       /\ \A c \in Clients :
            clientQueueSizes'[c] <= clientQueueSizes[c] /\ Len(down'[c]) <= Len(down[c])
       /\ \/ \E c \in Clients : clientQueueSizes'[c] < clientQueueSizes[c]
          \/ StageLeft' < StageLeft
          \/ /\ StageLeft' = StageLeft
             /\ peer' # peer \/ \E c \in Clients : Len(down'[c]) < Len(down[c])]_vars
=============================================================================
