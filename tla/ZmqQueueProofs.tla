---------------------------- MODULE ZmqQueueProofs ----------------------------
(***************************************************************************)
(* Machine-checked proofs about ZmqQueue, for every number of clients,     *)
(* every limit, every set of payloads and any number of client deaths.     *)
(***************************************************************************)
EXTENDS ZmqQueue, SequenceTheorems, FiniteSetTheorems, TLAPS

\* Only a marker is put past the limit.
ForcedIsMarker == call.ignoreFull => call.item = EndOfEpoch

\* A server that has been started serves clients that all have connected.
Started ==
  /\ \A p \in Peers : p \in connected \/ ready[p] > 0 => peer[p] # "off"
  /\ \A p \in Peers : peer[p] = "dead" => p \in crashed
  /\ serverPc \in {"idle", "acking", "sending", "blocked"} => Clients \subseteq connected

IInv == TypeOK /\ CreditConserved /\ ForcedIsMarker /\ Started

-----------------------------------------------------------------------------
\* Appending to and taking from the channel of a client keeps it a sequence of
\* messages and changes its length by one.
LEMMA AppendMessage ==
  ASSUME NEW s \in Seq(Messages), NEW m \in Messages
  PROVE  Append(s, m) \in Seq(Messages) /\ Len(Append(s, m)) = Len(s) + 1 /\ Len(s) \in Nat
BY AppendProperties, LenProperties

LEMMA TakeMessage ==
  ASSUME NEW s \in Seq(Messages), s # <<>>
  PROVE  /\ Head(s) \in Messages /\ Tail(s) \in Seq(Messages)
         /\ Len(Tail(s)) = Len(s) - 1 /\ Len(s) \in Nat
BY HeadTailProperties, LenProperties

LEMMA EmptyChannel == <<>> \in Seq(Messages) /\ Len(<<>>) = 0
BY EmptySeq

-----------------------------------------------------------------------------
\* Initially every channel is empty and nothing is counted.
LEMMA InitIInv == Init => IInv
<1> SUFFICES ASSUME Init PROVE IInv
  OBVIOUS
<1>1. TypeOK
  BY ConstantsAssumption, EmptyChannel DEF Init, TypeOK, Call, NoCall, Messages, Clients
<1>2. CreditConserved
  BY EmptyChannel DEF Init, CreditConserved
<1>3. ForcedIsMarker /\ Started
  BY DEF Init, NoCall, ForcedIsMarker, Started
<1> QED
  BY <1>1, <1>2, <1>3 DEF IInv

\* send_to_client of a started server: the size kept for a client grows with its
\* channel, and by itself only when the client has died.
LEMMA SendKeepsCredit ==
  ASSUME IInv, serverPc \in {"idle", "sending"}, NEW cs \in SUBSET Clients, NEW m \in Messages,
         SendTo(cs, m), UNCHANGED <<acks, crashed>>
  PROVE  /\ down' \in [Clients -> Seq(Messages)]
         /\ clientQueueSizes' \in [Clients -> Nat]
         /\ CreditConserved'
<1>1. /\ down \in [Clients -> Seq(Messages)] /\ clientQueueSizes \in [Clients -> Nat]
      /\ acks \in [Clients -> Nat] /\ peer \in [Peers -> {"off", "on", "dead"}]
  BY DEF IInv, TypeOK
<1>2. ASSUME NEW c \in Clients
      PROVE  /\ down'[c] \in Seq(Messages) /\ clientQueueSizes'[c] \in Nat
             /\ clientQueueSizes'[c] >= Len(down'[c]) + acks[c]
             /\ c \notin crashed => clientQueueSizes'[c] = Len(down'[c]) + acks[c]
  <2>1. /\ Append(down[c], m) \in Seq(Messages)
        /\ Len(Append(down[c], m)) = Len(down[c]) + 1 /\ Len(down[c]) \in Nat
    BY <1>1, AppendMessage
  <2>2. /\ clientQueueSizes[c] >= Len(down[c]) + acks[c]
        /\ c \notin crashed => clientQueueSizes[c] = Len(down[c]) + acks[c]
        /\ clientQueueSizes[c] \in Nat /\ acks[c] \in Nat
    BY <1>1 DEF IInv, CreditConserved
  <2>3. c \notin crashed => peer[c] = "on"
    BY <1>1, ConstantsAssumption DEF IInv, Started
  <2> QED
    BY <1>1, <2>1, <2>2, <2>3 DEF SendTo
<1> QED
  BY <1>2 DEF SendTo, CreditConserved

\* Counting an ack gives back the credit that the ack stood for; the size-0 error of
\* check_for_acks cannot be reached.
LEMMA AckKeepsCredit ==
  ASSUME IInv, NEW c \in Clients, CountAck(c), serverPc \in {"acking", "blocked"}
  PROVE  IInv' /\ why' = why
<1>1. /\ clientQueueSizes \in [Clients -> Nat] /\ acks \in [Clients -> Nat]
      /\ \A d \in Clients : down[d] \in Seq(Messages) /\ Len(down[d]) \in Nat
  BY LenProperties DEF IInv, TypeOK
<1>2. clientQueueSizes[c] \in Nat /\ clientQueueSizes[c] # 0 /\ acks[c] \in Nat
  <2>1. acks[c] > 0 /\ clientQueueSizes[c] >= Len(down[c]) + acks[c]
    BY DEF CountAck, IInv, CreditConserved
  <2> QED
    BY <1>1, <2>1
<1>3. /\ acks' = [acks EXCEPT ![c] = @ - 1]
      /\ clientQueueSizes' = [clientQueueSizes EXCEPT ![c] = @ - 1]
      /\ serverPc' = "acking" /\ UNCHANGED why /\ acks[c] > 0
      /\ UNCHANGED <<connected, call, lastSentIdx, clientVars, ready, down>>
  BY <1>2 DEF CountAck
<1>4. TypeOK'
  <2>1. clientQueueSizes' \in [Clients -> Nat] /\ acks' \in [Clients -> Nat]
    BY <1>1, <1>2, <1>3
  <2> QED
    BY <1>3, <2>1 DEF IInv, TypeOK, clientVars
<1>5. CreditConserved'
  <2> SUFFICES ASSUME NEW d \in Clients
               PROVE  /\ clientQueueSizes'[d] >= Len(down[d]) + acks'[d]
                      /\ d \notin crashed => clientQueueSizes'[d] = Len(down[d]) + acks'[d]
    BY <1>3 DEF CreditConserved, clientVars
  <2> QED
    BY <1>1, <1>3 DEF IInv, CreditConserved
<1>6. ForcedIsMarker' /\ Started'
  BY <1>3 DEF IInv, ForcedIsMarker, Started, clientVars
<1> QED
  BY <1>3, <1>4, <1>5, <1>6 DEF IInv

-----------------------------------------------------------------------------
\* The turn of the round robin stays an index of a client.
LEMMA TurnInRange ==
  ASSUME NEW k \in Nat
  PROVE  k % NClients \in Clients
BY ConstantsAssumption DEF Clients

\* put, put_to_all: the three ways to send.
LEMMA SendStep ==
  ASSUME IInv, SendInTurn \/ SendOutOfTurn \/ PutToAll
  PROVE  IInv'
<1> USE DEF Return
<1>1. EndOfEpoch \in Messages /\ call.item \in Messages /\ NoCall \in Call /\ lastSentIdx \in Nat
      /\ NClients \in Nat
  <2>1. call \in Call /\ lastSentIdx \in Clients
    BY DEF IInv, TypeOK
  <2>2. lastSentIdx \in Nat /\ NClients \in Nat
    BY <2>1, ConstantsAssumption DEF Clients
  <2> QED
    BY <2>1, <2>2 DEF Call, NoCall, Messages
<1>2. /\ \E cs \in SUBSET Clients, m \in Messages : SendTo(cs, m)
      /\ serverPc \in {"idle", "sending"}
      /\ UNCHANGED <<connected, why, clientVars, ready, acks>>
      /\ lastSentIdx' \in Clients /\ serverPc' = "idle" /\ call' \in {call, NoCall}
  <2>1. CASE SendInTurn
    <3>1. {lastSentIdx} \in SUBSET Clients
      BY DEF IInv, TypeOK
    <3>2. lastSentIdx' \in Clients
      BY <1>1, <2>1, TurnInRange DEF SendInTurn
    <3> QED
      BY <1>1, <2>1, <3>1, <3>2 DEF SendInTurn
  <2>2. CASE SendOutOfTurn
    <3>1. PICK i \in 1 .. NClients - 1 : SendTo({(lastSentIdx + i) % NClients}, call.item)
      BY <2>2 DEF SendOutOfTurn
    <3>2. {(lastSentIdx + i) % NClients} \in SUBSET Clients
      BY <1>1, TurnInRange
    <3> QED
      BY <1>1, <2>2, <3>1, <3>2 DEF SendOutOfTurn, IInv, TypeOK
  <2>3. CASE PutToAll
    BY <1>1, <2>3 DEF PutToAll, IInv, TypeOK
  <2> QED
    BY <2>1, <2>2, <2>3
<1>3. /\ down' \in [Clients -> Seq(Messages)]
      /\ clientQueueSizes' \in [Clients -> Nat]
      /\ CreditConserved'
  BY <1>2, SendKeepsCredit DEF clientVars
<1>4. TypeOK'
  BY <1>1, <1>2, <1>3 DEF IInv, TypeOK, clientVars
<1>5. ForcedIsMarker' /\ Started'
  BY <1>2 DEF IInv, ForcedIsMarker, Started, clientVars, NoCall
<1> QED
  BY <1>3, <1>4, <1>5 DEF IInv

\* The client's side: connecting, taking an item with its ack, and dying.
LEMMA ClientStep ==
  ASSUME IInv, Client
  PROVE  IInv'
<1>1. /\ acks \in [Clients -> Nat] /\ ready \in [Peers -> Nat]
      /\ clientQueueSizes \in [Clients -> Nat]
      /\ down \in [Clients -> Seq(Messages)]
      /\ \A d \in Clients : down[d] \in Seq(Messages) /\ Len(down[d]) \in Nat
  BY LenProperties DEF IInv, TypeOK
<1>2. ASSUME NEW p \in Peers, Connect(p)
      PROVE  IInv'
  <2>1. TypeOK'
    <3>0. peer \in [Peers -> {"off", "on", "dead"}]
      BY DEF IInv, TypeOK
    <3>1. peer' \in [Peers -> {"off", "on", "dead"}]
      BY <1>2, <3>0 DEF Connect
    <3>2. ready' \in [Peers -> Nat]
      BY <1>1, <1>2 DEF Connect
    <3> QED
      BY <1>2, <3>1, <3>2 DEF Connect, IInv, TypeOK, serverVars
  <2>2. CreditConserved' /\ ForcedIsMarker'
    BY <1>2 DEF Connect, IInv, CreditConserved, ForcedIsMarker, serverVars
  <2>3. Started'
    BY <1>1, <1>2 DEF Connect, IInv, TypeOK, Started, serverVars
  <2> QED
    BY <2>1, <2>2, <2>3 DEF IInv
<1>3. ASSUME NEW c \in Clients, Get(c)
      PROVE  IInv'
  <2>1. /\ Head(down[c]) \in Messages /\ Tail(down[c]) \in Seq(Messages)
        /\ Len(Tail(down[c])) = Len(down[c]) - 1
    BY <1>1, <1>3, TakeMessage DEF Get
  <2>2. TypeOK'
    <3>0. got \in [Clients -> Messages \union {Nothing}]
      BY DEF IInv, TypeOK
    <3>1. acks' \in [Clients -> Nat]
      BY <1>1, <1>3 DEF Get
    <3>2. down' \in [Clients -> Seq(Messages)]
      BY <1>1, <1>3, <2>1 DEF Get
    <3>3. got' \in [Clients -> Messages \union {Nothing}]
      BY <1>3, <2>1, <3>0 DEF Get
    <3> QED
      BY <1>3, <3>1, <3>2, <3>3 DEF Get, IInv, TypeOK, serverVars
  <2>3. CreditConserved'
    <3> SUFFICES ASSUME NEW d \in Clients
                 PROVE  /\ clientQueueSizes[d] >= Len(down'[d]) + acks'[d]
                        /\ d \notin crashed => clientQueueSizes[d] = Len(down'[d]) + acks'[d]
      BY <1>3 DEF CreditConserved, Get, serverVars
    <3>1. CASE d = c
      BY <1>1, <1>3, <2>1, <3>1 DEF Get, IInv, CreditConserved
    <3>2. CASE d # c
      BY <1>1, <1>3, <3>2 DEF Get, IInv, CreditConserved
    <3> QED
      BY <3>1, <3>2
  <2>4. ForcedIsMarker' /\ Started'
    BY <1>3 DEF Get, IInv, ForcedIsMarker, Started, serverVars
  <2> QED
    BY <2>2, <2>3, <2>4 DEF IInv
<1>4. ASSUME NEW c \in Clients, Crash(c)
      PROVE  IInv'
  <2>1. PICK n \in 0 .. acks[c] : acks' = [acks EXCEPT ![c] = n]
    BY <1>4 DEF Crash
  <2>2. PICK k \in 0 .. ready[c] : ready' = [ready EXCEPT ![c] = k]
    BY <1>4 DEF Crash
  <2>3. c \in Peers /\ acks[c] \in Nat /\ ready[c] \in Nat /\ n \in Nat /\ k \in Nat /\ n <= acks[c]
    BY <1>1, ConstantsAssumption
  <2>4. TypeOK'
    BY <1>1, <1>4, <2>1, <2>2, <2>3, EmptyChannel DEF Crash, IInv, TypeOK, serverVars
  <2>5. CreditConserved'
    <3> SUFFICES ASSUME NEW d \in Clients
                 PROVE  /\ clientQueueSizes[d] >= Len(down'[d]) + acks'[d]
                        /\ d \notin crashed' => clientQueueSizes[d] = Len(down'[d]) + acks'[d]
      BY <1>4 DEF CreditConserved, Crash, serverVars
    <3>1. CASE d = c
      BY <1>1, <1>4, <2>1, <2>3, <3>1, EmptyChannel DEF Crash, IInv, CreditConserved
    <3>2. CASE d # c
      BY <1>1, <1>4, <2>1, <3>2 DEF Crash, IInv, CreditConserved
    <3> QED
      BY <3>1, <3>2
  <2>6. ForcedIsMarker'
    BY <1>4 DEF Crash, IInv, ForcedIsMarker, serverVars
  <2>7. Started'
    BY <1>1, <1>4, <2>2, <2>3 DEF Crash, IInv, TypeOK, Started, serverVars
  <2> QED
    BY <2>4, <2>5, <2>6, <2>7 DEF IInv
<1> QED
  BY <1>2, <1>3, <1>4 DEF Client

\* The server's steps that move no credit.
LEMMA ControlStep ==
  ASSUME IInv,
         \/ \E p \in Peers : ReceiveReady(p) \/ UnexpectedReady(p)
         \/ StartTimeout \/ CallPut \/ EndDrain \/ Block \/ GiveUp \/ FullError
  PROVE  IInv'
<1> USE DEF Fail, Return
<1>a. ready \in [Peers -> Nat]
  BY DEF IInv, TypeOK
<1>0. \A p \in Peers : ready[p] > 0 => ready[p] - 1 \in Nat
  BY <1>a
<1>1. UNCHANGED <<clientQueueSizes, lastSentIdx, clientVars, down, acks>>
  BY DEF ReceiveReady, UnexpectedReady, StartTimeout, CallPut, EndDrain, Block, GiveUp,
         FullError, netVars
<1>2. CreditConserved'
  BY <1>1 DEF IInv, CreditConserved, clientVars
<1>3. NoCall \in Call /\ ~NoCall.ignoreFull
  BY ConstantsAssumption DEF NoCall, Call, Messages
<1>4. ASSUME NEW p \in Peers, ReceiveReady(p)
      PROVE  IInv'
  <2>1. /\ serverPc' \in {"waiting", "idle", "failed"} /\ call' = call
        /\ connected' \in {connected, connected \union {p}}
        /\ serverPc' = "idle" => connected' = Clients
        /\ ready' = [ready EXCEPT ![p] = @ - 1] /\ ready[p] > 0
        /\ why' \in {why, "duplicate", "identities"}
    BY <1>4 DEF ReceiveReady
  <2> ready' \in [Peers -> Nat]
    BY <2>1, <1>0, <1>a
  <2>2. TypeOK'
    BY <1>1, <2>1 DEF IInv, TypeOK, clientVars
  <2>3. ForcedIsMarker'
    BY <2>1 DEF IInv, ForcedIsMarker
  <2>4. Started'
    BY <1>1, <2>1 DEF IInv, TypeOK, Started, clientVars
  <2> QED
    BY <1>2, <2>2, <2>3, <2>4 DEF IInv
<1>5. ASSUME NEW p \in Peers, UnexpectedReady(p)
      PROVE  IInv'
  <2> ready' \in [Peers -> Nat]
    BY <1>0, <1>a, <1>5 DEF UnexpectedReady
  <2>1. TypeOK'
    BY <1>1, <1>5 DEF UnexpectedReady, IInv, TypeOK, clientVars
  <2>2. ForcedIsMarker' /\ Started'
    BY <1>1, <1>5 DEF UnexpectedReady, IInv, TypeOK, ForcedIsMarker, Started, clientVars
  <2> QED
    BY <1>2, <2>1, <2>2 DEF IInv
<1>6. CASE StartTimeout \/ EndDrain \/ Block \/ GiveUp \/ FullError
  <2>1. /\ UNCHANGED <<connected, ready>> /\ call' \in {call, NoCall}
        /\ why' \in {why, "start timeout", "full"}
        /\ \/ serverPc' = "failed"
           \/ serverPc' \in {"sending", "blocked", "idle"} /\ serverPc \in {"acking", "sending", "blocked"}
    BY <1>6 DEF StartTimeout, EndDrain, Block, GiveUp, FullError, netVars
  <2>2. TypeOK'
    BY <1>1, <1>3, <2>1 DEF IInv, TypeOK, clientVars
  <2>3. ForcedIsMarker' /\ Started'
    BY <1>1, <1>3, <2>1 DEF IInv, ForcedIsMarker, Started, clientVars
  <2> QED
    BY <1>2, <2>2, <2>3 DEF IInv
<1>7. CASE CallPut
  <2>1. call' \in Call /\ (call'.ignoreFull => call'.item = EndOfEpoch)
    BY <1>7 DEF CallPut
  <2>2. TypeOK'
    BY <1>1, <1>7, <2>1 DEF CallPut, IInv, TypeOK, clientVars, netVars
  <2>3. ForcedIsMarker' /\ Started'
    BY <1>1, <1>7, <2>1 DEF CallPut, IInv, ForcedIsMarker, Started, clientVars, netVars
  <2> QED
    BY <1>2, <2>2, <2>3 DEF IInv
<1> QED
  BY <1>4, <1>5, <1>6, <1>7

LEMMA StepIInv == IInv /\ [Next]_vars => IInv'
<1> SUFFICES ASSUME IInv, [Next]_vars PROVE IInv'
  OBVIOUS
<1>1. ASSUME NEW c \in Clients, DrainAck(c) \/ BlockedAck(c)
      PROVE  IInv'
  BY <1>1, AckKeepsCredit DEF DrainAck, BlockedAck
<1>2. CASE UNCHANGED vars
  BY <1>2 DEF vars, serverVars, clientVars, netVars, IInv, TypeOK, CreditConserved,
              ForcedIsMarker, Started
<1> QED
  BY <1>1, <1>2, ClientStep, ControlStep, SendStep DEF Next, Server

-----------------------------------------------------------------------------
\* The values of every variable of the queue stay in their sets, whatever the clients do.
THEOREM TypeCorrect == Spec => []TypeOK
<1>1. IInv => TypeOK
  BY DEF IInv
<1> QED
  BY <1>1, InitIInv, StepIInv, PTL DEF Spec

\* The credit of the flow control is conserved (send_to_client, check_for_acks, get), for
\* any number of clients and limit, and through any number of client deaths.
THEOREM CreditTheorem == Spec => []CreditConserved
<1>1. IInv => CreditConserved
  BY DEF IInv
<1> QED
  BY <1>1, InitIInv, StepIInv, PTL DEF Spec

-----------------------------------------------------------------------------
(* What an Err of the server tells *)

\* A client that has never died has sent one "ready" in its life.
ReadyOnce == \A c \in Clients \ crashed : ready[c] <= 1 /\ (c \in connected => ready[c] = 0)

\* A put waits only while every client is full.
BlockedIsFull == serverPc = "blocked" => \A c \in Clients : ~HasRoom(c)

\* An Err ends the server.
ErrEnds == why # "none" => serverPc = "failed"

FInv == ReadyOnce /\ BlockedIsFull /\ ErrEnds /\ FailureHasCause

\* A cause that is there stays there: clients that died have died, and an identity that
\* nobody expects is never taken for a dead client.
LEMMA CauseStays ==
  ASSUME FailureHasCause, why' = why, crashed \subseteq crashed',
         why = "identities" => connected' = connected,
         \A p \in Peers \ Clients : peer[p] = "on" => peer'[p] = "on"
  PROVE  FailureHasCause'
<1>1. why' # "ack of nothing" /\ (why' = "full" => Clients \subseteq crashed')
  BY DEF FailureHasCause
<1>2. why' \in {"duplicate", "unexpected message"} =>
        crashed' # {} \/ \E p \in Peers \ Clients : peer'[p] = "on"
  BY DEF FailureHasCause
<1>3. why' = "identities" => connected' \ Clients # {}
  BY DEF FailureHasCause
<1> QED
  BY <1>1, <1>2, <1>3 DEF FailureHasCause

\* As many identities as clients, none of them unexpected, are the clients.
LEMMA EnoughAreAll ==
  ASSUME NEW S \in SUBSET Clients, ~(Cardinality(S) < NClients)
  PROVE  S = Clients
<1>1. IsFiniteSet(Clients) /\ Cardinality(Clients) = NClients
  <2>1. NClients \in Nat /\ NClients > 0 /\ 0 <= NClients - 1 /\ NClients - 1 - 0 + 1 = NClients
    BY ConstantsAssumption
  <2> QED
    BY <2>1, FS_Interval DEF Clients
<1>2. IsFiniteSet(S) /\ Cardinality(S) <= Cardinality(Clients) /\ (Cardinality(S) = Cardinality(Clients) => S = Clients)
  BY <1>1, FS_Subset
<1>3. Cardinality(S) \in Nat
  BY <1>2, FS_CardinalityType
<1> QED
  BY <1>1, <1>2, <1>3, ConstantsAssumption

\* A "ready" out of turn is of a client that was started again, or of nobody expected.
LEMMA ReadyOutOfTurn ==
  ASSUME IInv, FInv, NEW p \in Peers, p \in connected \/ Clients \subseteq connected, ready[p] > 0
  PROVE  crashed # {} \/ \E q \in Peers \ Clients : peer[q] = "on"
<1>1. CASE p \in Clients
  <2>0. ready[p] \in Nat
    BY DEF IInv, TypeOK
  <2>1. p \in connected /\ ready[p] # 0
    BY <1>1, <2>0
  <2>2. p \in crashed
    BY <1>1, <2>1 DEF FInv, ReadyOnce
  <2> QED
    BY <2>2
<1>2. CASE p \notin Clients
  <2>1. peer[p] # "off" /\ peer[p] # "dead" /\ peer[p] \in {"off", "on", "dead"}
    BY <1>2 DEF IInv, Started, TypeOK
  <2> QED
    BY <1>2, <2>1
<1> QED
  BY <1>1, <1>2

\* wait_for_clients: every Err it ends with has the cause it names.
LEMMA ReceiveReadyCause ==
  ASSUME IInv, FInv, NEW p \in Peers, ReceiveReady(p)
  PROVE  FInv'
<1> USE DEF Fail
<1>1. /\ serverPc = "waiting" /\ why = "none" /\ ready[p] > 0 /\ ready \in [Peers -> Nat]
      /\ ready' = [ready EXCEPT ![p] = @ - 1] /\ connected \subseteq Peers
      /\ UNCHANGED <<peer, crashed, clientQueueSizes>>
  BY DEF ReceiveReady, FInv, ErrEnds, IInv, TypeOK, clientVars
<1>2. ReadyOnce'
  <2>1. connected' \subseteq connected \union {p}
    BY DEF ReceiveReady
  <2>2. ASSUME NEW c \in Clients \ crashed
        PROVE  ready'[c] <= 1 /\ (c \in connected' => ready'[c] = 0)
    <3>1. c \in Peers /\ ready[c] \in Nat /\ ready[c] <= 1 /\ (c \in connected => ready[c] = 0)
      BY <1>1, ConstantsAssumption DEF FInv, ReadyOnce
    <3>2. CASE c = p
      BY <1>1, <3>1, <3>2
    <3>3. CASE c # p
      BY <1>1, <2>1, <3>1, <3>3
    <3> QED
      BY <3>2, <3>3
  <2> QED
    BY <1>1, <2>2 DEF ReadyOnce
<1>3. CASE p \in connected
  <2>1. serverPc' = "failed" /\ why' = "duplicate"
    BY <1>3 DEF ReceiveReady
  <2>2. crashed' # {} \/ \E q \in Peers \ Clients : peer'[q] = "on"
    BY <1>1, <1>3, ReadyOutOfTurn
  <2> QED
    BY <1>2, <2>1, <2>2 DEF FInv, BlockedIsFull, ErrEnds, FailureHasCause
<1>4. CASE p \notin connected
  <2>1. CASE why' = why /\ serverPc' \in {serverPc, "idle"}
    <3>1. BlockedIsFull' /\ ErrEnds'
      BY <1>1, <2>1 DEF BlockedIsFull, ErrEnds
    <3>2. FailureHasCause'
      BY <1>1, <2>1 DEF FailureHasCause
    <3> QED
      BY <1>2, <3>1, <3>2 DEF FInv
  <2>2. CASE serverPc' = "failed" /\ why' = "identities"
             /\ ~(Cardinality(connected') < NClients) /\ connected' # Clients
    <3>1. connected' \ Clients # {}
      BY <2>2, EnoughAreAll
    <3> QED
      BY <1>2, <2>2, <3>1 DEF FInv, BlockedIsFull, ErrEnds, FailureHasCause
  <2> QED
    BY <1>4, <2>1, <2>2 DEF ReceiveReady
<1> QED
  BY <1>3, <1>4

\* put: "full" is said only when no client is left that could acknowledge anything.
LEMMA FullErrorCause ==
  ASSUME IInv, FInv, FullError
  PROVE  FInv'
<1> USE DEF Fail
<1>1. /\ serverPc = "blocked" /\ serverPc' = "failed" /\ why' = "full"
      /\ UNCHANGED <<connected, crashed, ready>>
  BY DEF FullError, clientVars, netVars
<1>2. ASSUME NEW c \in Clients PROVE c \in crashed
  <2>1. clientQueueSizes[c] \in Nat /\ ~HasRoom(c) /\ acks[c] = 0 /\ (peer[c] = "on" => down[c] = <<>>)
    BY <1>1 DEF FullError, FInv, BlockedIsFull, IInv, TypeOK
  <2>2. clientQueueSizes[c] # 0
    BY <2>1, ConstantsAssumption DEF HasRoom
  <2>3. c \notin crashed => peer[c] = "on"
    BY <1>1, ConstantsAssumption DEF IInv, Started, TypeOK
  <2>4. c \notin crashed => clientQueueSizes[c] = Len(down[c]) + acks[c]
    BY DEF IInv, CreditConserved
  <2> QED
    BY <2>1, <2>2, <2>3, <2>4, EmptyChannel
<1>3. ReadyOnce' /\ BlockedIsFull' /\ ErrEnds'
  BY <1>1 DEF FInv, ReadyOnce, BlockedIsFull, ErrEnds
<1>4. FailureHasCause'
  BY <1>1, <1>2 DEF FailureHasCause
<1> QED
  BY <1>3, <1>4 DEF FInv

LEMMA FInvStep == IInv /\ FInv /\ [Next]_vars => FInv'
<1> SUFFICES ASSUME IInv, FInv, [Next]_vars PROVE FInv'
  OBVIOUS
<1>1. ASSUME NEW p \in Peers, UnexpectedReady(p) PROVE FInv'
  <2>1. /\ serverPc \in {"acking", "blocked"} /\ serverPc' = "failed" /\ why' = "unexpected message"
        /\ UNCHANGED <<connected, crashed, peer>>
        /\ ready[p] > 0 /\ ready' = [ready EXCEPT ![p] = @ - 1] /\ ready \in [Peers -> Nat]
    BY <1>1 DEF UnexpectedReady, Fail, clientVars, IInv, TypeOK
  <2>2. crashed' # {} \/ \E q \in Peers \ Clients : peer'[q] = "on"
    BY <2>1, ReadyOutOfTurn DEF IInv, Started
  <2>3. ReadyOnce'
    <3>1. ASSUME NEW c \in Clients \ crashed
          PROVE  ready'[c] <= 1 /\ (c \in connected => ready'[c] = 0)
      <4>1. c \in Peers /\ ready[c] <= 1 /\ (c \in connected => ready[c] = 0) /\ ready[c] \in Nat
        BY <2>1, ConstantsAssumption DEF FInv, ReadyOnce
      <4>2. CASE c = p
        <5>1. ready'[c] = ready[c] - 1 /\ ready[c] > 0
          BY <2>1, <4>1, <4>2
        <5> QED
          BY <4>1, <5>1
      <4>3. CASE c # p
        BY <2>1, <4>1, <4>3
      <4> QED
        BY <4>2, <4>3
    <3> QED
      BY <2>1, <3>1 DEF ReadyOnce
  <2>4. BlockedIsFull' /\ ErrEnds'
    BY <2>1 DEF BlockedIsFull, ErrEnds
  <2>5. FailureHasCause'
    BY <2>1, <2>2 DEF FailureHasCause
  <2> QED
    BY <2>3, <2>4, <2>5 DEF FInv
<1>2. ASSUME NEW c \in Clients, DrainAck(c) \/ BlockedAck(c) PROVE FInv'
  <2>1. /\ why' = why /\ serverPc # "failed"
        /\ UNCHANGED <<connected, crashed, ready, peer>>
    BY <1>2, AckKeepsCredit DEF DrainAck, BlockedAck, CountAck, clientVars
  <2>2. serverPc' = "acking"
    BY <1>2, <2>1 DEF DrainAck, BlockedAck, CountAck, Fail, FInv, ErrEnds
  <2>3. ReadyOnce' /\ BlockedIsFull' /\ ErrEnds'
    BY <2>1, <2>2 DEF FInv, ReadyOnce, BlockedIsFull, ErrEnds
  <2> QED
    BY <2>1, <2>3, CauseStays DEF FInv
<1>3. CASE StartTimeout
  <2>1. serverPc' = "failed" /\ why' = "start timeout" /\ UNCHANGED <<connected, crashed, ready>>
    BY <1>3 DEF StartTimeout, Fail, clientVars, netVars
  <2> QED
    BY <2>1 DEF FInv, ReadyOnce, BlockedIsFull, ErrEnds, FailureHasCause
<1>4. CASE CallPut \/ PutToAll \/ EndDrain \/ SendInTurn \/ SendOutOfTurn \/ GiveUp
  <2>1. /\ UNCHANGED <<why, connected, crashed, ready, peer>>
        /\ serverPc # "failed" /\ serverPc' \in {"acking", "idle", "sending"}
    BY <1>4 DEF CallPut, PutToAll, EndDrain, SendInTurn, SendOutOfTurn, GiveUp, Return, clientVars, netVars
  <2>2. ReadyOnce' /\ BlockedIsFull' /\ ErrEnds'
    BY <2>1 DEF FInv, ReadyOnce, BlockedIsFull, ErrEnds
  <2> QED
    BY <2>1, <2>2, CauseStays DEF FInv
<1>5. CASE Block
  <2>1. /\ UNCHANGED <<why, connected, crashed, ready, peer, clientQueueSizes>>
        /\ serverPc # "failed" /\ serverPc' = "blocked" /\ \A c \in Clients : ~HasRoom(c)
    BY <1>5 DEF Block, clientVars, netVars
  <2>2. ReadyOnce' /\ BlockedIsFull' /\ ErrEnds'
    BY <2>1 DEF FInv, ReadyOnce, BlockedIsFull, ErrEnds, HasRoom
  <2> QED
    BY <2>1, <2>2, CauseStays DEF FInv
<1>6. ASSUME NEW p \in Peers, Connect(p) PROVE FInv'
  <2>1. /\ UNCHANGED <<serverPc, why, connected, crashed, clientQueueSizes>>
        /\ peer' = [peer EXCEPT ![p] = "on"] /\ peer \in [Peers -> {"off", "on", "dead"}]
        /\ ready' = [ready EXCEPT ![p] = @ + 1] /\ ready \in [Peers -> Nat] /\ peer[p] # "on"
    BY <1>6 DEF Connect, serverVars, IInv, TypeOK
  <2>2. ASSUME NEW c \in Clients \ crashed
        PROVE  ready'[c] <= 1 /\ (c \in connected => ready'[c] = 0)
    <3>1. c \in Peers /\ ready[c] <= 1 /\ (c \in connected => ready[c] = 0)
      BY ConstantsAssumption DEF FInv, ReadyOnce
    <3>2. CASE c = p
      <4>1. peer[c] = "off"
        BY <2>1, <3>1, <3>2 DEF IInv, Started
      <4>2. c \notin connected /\ ready[c] = 0
        BY <2>1, <3>1, <4>1 DEF IInv, Started
      <4> QED
        BY <2>1, <3>2, <4>2
    <3>3. CASE c # p
      BY <2>1, <3>1, <3>3
    <3> QED
      BY <3>2, <3>3
  <2>3. ReadyOnce' /\ BlockedIsFull' /\ ErrEnds'
    BY <2>1, <2>2 DEF FInv, ReadyOnce, BlockedIsFull, ErrEnds, HasRoom
  <2> QED
    BY <2>1, <2>3, CauseStays DEF FInv
<1>7. ASSUME NEW c \in Clients, Get(c) PROVE FInv'
  <2>1. UNCHANGED <<serverPc, why, connected, crashed, clientQueueSizes, ready, peer>>
    BY <1>7 DEF Get, serverVars
  <2>2. ReadyOnce' /\ BlockedIsFull' /\ ErrEnds'
    BY <2>1 DEF FInv, ReadyOnce, BlockedIsFull, ErrEnds, HasRoom
  <2> QED
    BY <2>1, <2>2, CauseStays DEF FInv
<1>8. ASSUME NEW c \in Clients, Crash(c) PROVE FInv'
  <2>1. /\ UNCHANGED <<serverPc, why, connected, clientQueueSizes>>
        /\ peer' = [peer EXCEPT ![c] = "dead"] /\ peer \in [Peers -> {"off", "on", "dead"}]
        /\ crashed' = crashed \union {c}
        /\ \E n \in 0 .. ready[c] : ready' = [ready EXCEPT ![c] = n]
    BY <1>8 DEF Crash, serverVars, IInv, TypeOK
  <2>2. \A d \in Clients \ crashed' : ready'[d] = ready[d]
    <3>1. ready \in [Peers -> Nat]
      BY DEF IInv, TypeOK
    <3>2. PICK n \in 0 .. ready[c] : ready' = [ready EXCEPT ![c] = n]
      BY <2>1
    <3> QED
      BY <2>1, <3>1, <3>2, ConstantsAssumption
  <2>3. ReadyOnce' /\ BlockedIsFull' /\ ErrEnds'
    BY <2>1, <2>2 DEF FInv, ReadyOnce, BlockedIsFull, ErrEnds, HasRoom
  <2> QED
    BY <2>1, <2>3, CauseStays DEF FInv
<1>9. CASE UNCHANGED vars
  BY <1>9 DEF vars, serverVars, clientVars, netVars, FInv, ReadyOnce, BlockedIsFull, ErrEnds,
              FailureHasCause, HasRoom
<1> QED
  BY <1>1, <1>2, <1>3, <1>4, <1>5, <1>6, <1>7, <1>8, <1>9, ReceiveReadyCause, FullErrorCause
    DEF Next, Server, Client

LEMMA FInvInit == Init => FInv
BY ConstantsAssumption DEF Init, FInv, ReadyOnce, BlockedIsFull, ErrEnds, FailureHasCause

\* For any number of clients and of deaths, the Err that ends the server has the cause it
\* names: "size 0" of check_for_acks cannot be reached, "full" means that every client has
\* died, and a "ready" at the wrong time is of a client started again or of a stranger.
THEOREM FailuresHaveCauses == Spec => []FailureHasCause
<1>1. FInv => FailureHasCause
  BY DEF FInv
<1> QED
  BY <1>1, FInvInit, FInvStep, InitIInv, StepIInv, PTL DEF Spec

-----------------------------------------------------------------------------
\* A send of a started server to the client in {c} is a Put of the abstract queue when
\* c has room, for the credit bounds what is under way to c; a forced one is a Mark.
LEMMA SendOneRefines ==
  ASSUME IInv, NEW c \in Clients, NEW m \in Messages, SendTo({c}, m),
         HasRoom(c) \/ m = EndOfEpoch, UNCHANGED got
  PROVE  FanOut!Next \/ UNCHANGED FanOut!vars
<1>1. /\ down \in [Clients -> Seq(Messages)] /\ acks \in [Clients -> Nat]
      /\ clientQueueSizes \in [Clients -> Nat]
  BY DEF IInv, TypeOK
<1>2. CASE peer[c] # "on"
  <2>1. down' = down
    BY <1>1, <1>2 DEF SendTo
  <2> QED
    BY <2>1 DEF FanOut!vars
<1>3. CASE peer[c] = "on"
  <2>1. down' = [down EXCEPT ![c] = Append(@, m)]
    BY <1>1, <1>3 DEF SendTo
  <2>2. CASE HasRoom(c)
    <3>1. Len(down[c]) \in Nat /\ acks[c] \in Nat /\ clientQueueSizes[c] \in Nat
      BY <1>1, LenProperties
    <3>2. clientQueueSizes[c] >= Len(down[c]) + acks[c] /\ clientQueueSizes[c] < PerClientMaxSize
      BY <2>2 DEF HasRoom, IInv, CreditConserved
    <3>3. Len(down[c]) < PerClientMaxSize
      BY <3>1, <3>2, ConstantsAssumption
    <3>4. FanOut!Put(c, m)
      BY <2>1, <3>3 DEF FanOut!Put
    <3> QED
      BY <3>4 DEF FanOut!Next, Messages
  <2>3. CASE m = EndOfEpoch
    <3>1. down' = [d \in Clients |-> IF d \in {c} THEN Append(down[d], EndOfEpoch) ELSE down[d]]
      BY <1>1, <2>1, <2>3
    <3>2. FanOut!Mark({c})
      BY <3>1 DEF FanOut!Mark
    <3> QED
      BY <3>2 DEF FanOut!Next
  <2> QED
    BY <2>2, <2>3
<1> QED
  BY <1>2, <1>3

\* Every step of the server is a step of the abstract queue, or leaves it alone.
LEMMA ServerRefines ==
  ASSUME IInv, Server
  PROVE  FanOut!Next \/ UNCHANGED FanOut!vars
<1>0. call.item \in Messages /\ lastSentIdx \in Clients /\ EndOfEpoch \in Messages
      /\ lastSentIdx \in Nat /\ NClients \in Nat
  <2>1. call \in Call /\ lastSentIdx \in Clients
    BY DEF IInv, TypeOK
  <2> QED
    BY <2>1, ConstantsAssumption DEF Call, Messages, Clients
<1>1. CASE SendInTurn
  <2>1. /\ SendTo({lastSentIdx}, call.item) /\ UNCHANGED got
        /\ HasRoom(lastSentIdx) \/ call.item = EndOfEpoch
    BY <1>1 DEF SendInTurn, clientVars, IInv, ForcedIsMarker
  <2> QED
    BY <1>0, <2>1, SendOneRefines
<1>2. CASE SendOutOfTurn
  <2>1. PICK i \in 1 .. NClients - 1 : /\ HasRoom((lastSentIdx + i) % NClients)
                                      /\ SendTo({(lastSentIdx + i) % NClients}, call.item)
    BY <1>2 DEF SendOutOfTurn
  <2>2. (lastSentIdx + i) % NClients \in Clients /\ UNCHANGED got
    BY <1>0, <1>2, TurnInRange DEF SendOutOfTurn, clientVars
  <2> QED
    BY <1>0, <2>1, <2>2, SendOneRefines
<1>3. CASE PutToAll
  <2>1. /\ down' = [d \in Clients |-> IF d \in {c \in Clients : peer[c] = "on"}
                                      THEN Append(down[d], EndOfEpoch) ELSE down[d]]
        /\ UNCHANGED got
    BY <1>3 DEF PutToAll, SendTo, clientVars
  <2>2. FanOut!Mark({c \in Clients : peer[c] = "on"})
    BY <2>1 DEF FanOut!Mark
  <2> QED
    BY <2>2 DEF FanOut!Next
<1>4. CASE ~(SendInTurn \/ SendOutOfTurn \/ PutToAll)
  <2>1. UNCHANGED <<down, got>>
    BY <1>4 DEF Server, ReceiveReady, UnexpectedReady, DrainAck, BlockedAck, CountAck, StartTimeout,
                CallPut, EndDrain, Block, GiveUp, FullError, clientVars, netVars
  <2> QED
    BY <2>1 DEF FanOut!vars
<1> QED
  BY <1>1, <1>2, <1>3, <1>4

\* A client that takes, dies or connects does what the abstract client does.
LEMMA ClientRefines ==
  ASSUME IInv, Client
  PROVE  FanOut!Next \/ UNCHANGED FanOut!vars
<1>1. ASSUME NEW p \in Peers, Connect(p)
      PROVE  UNCHANGED FanOut!vars
  BY <1>1 DEF Connect, FanOut!vars
<1>2. ASSUME NEW c \in Clients, Get(c)
      PROVE  FanOut!Next
  <2>1. FanOut!Take(c)
    BY <1>2 DEF Get, FanOut!Take
  <2> QED
    BY <2>1 DEF FanOut!Next
<1>3. ASSUME NEW c \in Clients, Crash(c)
      PROVE  FanOut!Next
  <2>1. FanOut!Lose(c)
    BY <1>3 DEF Crash, FanOut!Lose
  <2> QED
    BY <2>1 DEF FanOut!Next
<1> QED
  BY <1>1, <1>2, <1>3 DEF Client

\* The flow-controlled queue implements the fan-out queue: no item is lost, duplicated,
\* reordered or put past the limit, except what was under way to a client that died.
THEOREM QueueImplementsFanOut == Spec => ImplementsFanOut
<1>1. Init => FanOut!Init
  BY DEF Init, FanOut!Init
<1>2. IInv /\ [Next]_vars => [FanOut!Next]_(FanOut!vars)
  <2> SUFFICES ASSUME IInv, [Next]_vars
               PROVE  FanOut!Next \/ UNCHANGED FanOut!vars
    OBVIOUS
  <2>1. CASE UNCHANGED vars
    BY <2>1 DEF vars, clientVars, netVars, FanOut!vars
  <2> QED
    BY <2>1, ServerRefines, ClientRefines DEF Next
<1> QED
  BY <1>1, <1>2, InitIInv, StepIInv, PTL DEF Spec, ImplementsFanOut, FanOut!Spec

-----------------------------------------------------------------------------
(* A put always has something to do *)

\* A set of natural numbers that is not empty has a least element.
LEMMA LeastOf ==
  ASSUME NEW S \in SUBSET Nat, S # {}
  PROVE  \E n \in S : \A k \in S : n <= k
<1> DEFINE Upto(k) == 1 .. k
           M == {Upto(k) : k \in S}
           R == StrictSubsetOrdering(Nat)
<1>1. M \subseteq FiniteSubsetsOf(Nat) /\ M # {}
  <2>1. ASSUME NEW k \in S PROVE Upto(k) \in FiniteSubsetsOf(Nat)
    <3>1. IsFiniteSet(Upto(k)) /\ Upto(k) \subseteq Nat
      BY FS_Interval
    <3> QED
      BY <3>1 DEF FiniteSubsetsOf
  <2> QED
    BY <2>1
<1>2. IsWellFoundedOn(R, FiniteSubsetsOf(Nat))
  BY FS_StrictSubsetOrderingWellFounded
<1> HIDE DEF R, M
<1>3. PICK x \in M : \A y \in M : <<y, x>> \notin R
  BY <1>1, <1>2, WFMin
<1>4. PICK n \in S : x = Upto(n)
  BY DEF M
<1>5. ASSUME NEW k \in S, k < n PROVE FALSE
  <2>1. Upto(k) \subseteq Upto(n) /\ n \in Upto(n) /\ n \notin Upto(k) /\ Upto(n) \subseteq Nat
    BY <1>5
  <2>2. Upto(k) # Upto(n) /\ Upto(k) \in SUBSET Nat /\ Upto(n) \in SUBSET Nat
    BY <2>1
  <2>3. <<Upto(k), Upto(n)>> \in R
    BY <2>1, <2>2 DEF R, StrictSubsetOrdering
  <2>4. Upto(k) \in M
    BY DEF M
  <2> QED
    BY <1>3, <1>4, <2>3, <2>4
<1> QED
  BY <1>5

\* Once around: from any turn the scan comes to every other client.
LEMMA ScanReachesAll ==
  ASSUME NEW t \in Clients, NEW c \in Clients, c # t
  PROVE  \E i \in 1 .. NClients - 1 : (t + i) % NClients = c
<1>1. NClients \in Nat \ {0} /\ t \in 0 .. NClients - 1 /\ c \in 0 .. NClients - 1
  BY ConstantsAssumption DEF Clients
<1>2. CASE t < c
  <2>1. c - t \in 1 .. NClients - 1 /\ t + (c - t) = c /\ c % NClients = c
    BY <1>1, <1>2
  <2> QED
    BY <2>1
<1>3. CASE c < t
  <2>1. NClients + c - t \in 1 .. NClients - 1 /\ t + (NClients + c - t) = NClients + c
    BY <1>1, <1>3
  <2>2. (NClients + c) % NClients = c
    BY <1>1
  <2> QED
    BY <2>1, <2>2
<1> QED
  BY <1>1, <1>2, <1>3

\* A put that waits finds each client full, and what a client is counted for is under way
\* to it or acknowledged, unless it has died.
LEMMA BlockedIsServed ==
  ASSUME IInv, FInv, serverPc = "blocked", NEW c \in Clients \ crashed
  PROVE  acks[c] > 0 \/ (peer[c] = "on" /\ down[c] # <<>>)
<1>1. clientQueueSizes[c] \in Nat /\ ~(clientQueueSizes[c] < PerClientMaxSize) /\ PerClientMaxSize \in Nat \ {0}
  BY ConstantsAssumption DEF IInv, TypeOK, FInv, BlockedIsFull, HasRoom
<1>2. clientQueueSizes[c] = Len(down[c]) + acks[c] /\ acks[c] \in Nat
  BY DEF IInv, TypeOK, CreditConserved
<1>3. down[c] = <<>> => Len(down[c]) = 0
  BY EmptyChannel
<1>4. acks[c] = 0 => down[c] # <<>>
  BY <1>1, <1>2, <1>3
<1>5. peer[c] = "on"
  BY ConstantsAssumption DEF IInv, TypeOK, Started
<1> QED
  BY <1>2, <1>4, <1>5

\* For any number of clients and any limits, the scan of put finds the first client with room
\* if there is one, and a put that waits is owed an ack by every client that never died.
THEOREM PutNeverStuck == Spec => []PutNotStuck
<1>1. ASSUME IInv, serverPc = "sending", ~HasRoom(lastSentIdx), NEW c \in Clients, HasRoom(c)
      PROVE  \E i \in 1 .. NClients - 1 :
               /\ HasRoom((lastSentIdx + i) % NClients)
               /\ \A j \in 1 .. i - 1 : ~HasRoom((lastSentIdx + j) % NClients)
  <2> DEFINE S == {i \in 1 .. NClients - 1 : HasRoom((lastSentIdx + i) % NClients)}
  <2>1. lastSentIdx \in Clients /\ c # lastSentIdx
    BY <1>1 DEF IInv, TypeOK
  <2>2. S # {} /\ S \subseteq Nat
    BY <1>1, <2>1, ScanReachesAll
  <2>3. PICK n \in S : \A k \in S : n <= k
    BY <2>2, LeastOf
  <2>4. \A j \in 1 .. n - 1 : j \notin S /\ j \in 1 .. NClients - 1
    BY <2>3, ConstantsAssumption
  <2> QED
    BY <2>3, <2>4
<1>2. IInv /\ FInv => PutNotStuck
  BY <1>1, BlockedIsServed DEF PutNotStuck
<1> QED
  BY <1>2, FInvInit, FInvStep, InitIInv, StepIInv, PTL DEF Spec

\* What a put waits for is used up, step by step.
LEMMA PutStep ==
  ASSUME IInv, [Next]_vars, ~UNCHANGED vars, {serverPc, serverPc'} \subseteq InPut
  PROVE  /\ \A c \in Clients :
              clientQueueSizes'[c] <= clientQueueSizes[c] /\ Len(down'[c]) <= Len(down[c])
         /\ \/ \E c \in Clients : clientQueueSizes'[c] < clientQueueSizes[c]
            \/ StageLeft' < StageLeft
            \/ /\ StageLeft' = StageLeft
               /\ peer' # peer \/ \E c \in Clients : Len(down'[c]) < Len(down[c])
<1> USE DEF InPut
<1>1. \A c \in Clients : clientQueueSizes[c] \in Nat /\ down[c] \in Seq(Messages) /\ Len(down[c]) \in Nat
  BY LenProperties DEF IInv, TypeOK
<1>a. clientQueueSizes \in [Clients -> Nat] /\ down \in [Clients -> Seq(Messages)]
  BY DEF IInv, TypeOK
<1>2. ASSUME NEW c \in Clients, DrainAck(c) \/ BlockedAck(c)
      PROVE  /\ down' = down /\ clientQueueSizes'[c] < clientQueueSizes[c]
             /\ \A d \in Clients : clientQueueSizes'[d] <= clientQueueSizes[d]
  <2>1. down' = down /\ clientQueueSizes' = [clientQueueSizes EXCEPT ![c] = @ - 1]
    BY <1>2 DEF DrainAck, BlockedAck, CountAck, Fail
  <2> QED
    BY ONLY <1>1, <1>2, <1>a, <2>1
<1>3. ASSUME EndDrain \/ Block
      PROVE  UNCHANGED <<down, clientQueueSizes>> /\ StageLeft' < StageLeft
  BY <1>3 DEF EndDrain, Block, StageLeft, netVars
<1>4. ASSUME NEW p \in Peers, Connect(p)
      PROVE  UNCHANGED <<down, clientQueueSizes>> /\ StageLeft' = StageLeft /\ peer' # peer
  <2>1. peer' = [peer EXCEPT ![p] = "on"] /\ peer[p] # "on" /\ peer \in [Peers -> {"off", "on", "dead"}]
    BY <1>4 DEF Connect, IInv, TypeOK
  <2>2. peer' # peer
    BY <2>1
  <2> QED
    BY <1>4, <2>2 DEF Connect, StageLeft, serverVars
<1>5. ASSUME NEW c \in Clients, Get(c)
      PROVE  /\ UNCHANGED clientQueueSizes /\ StageLeft' = StageLeft /\ Len(down'[c]) < Len(down[c])
             /\ \A d \in Clients : Len(down'[d]) <= Len(down[d])
  <2>1. /\ Len(Tail(down[c])) = Len(down[c]) - 1 /\ down' = [down EXCEPT ![c] = Tail(@)]
        /\ UNCHANGED <<serverPc, clientQueueSizes>>
    BY <1>1, <1>5, TakeMessage DEF Get, serverVars
  <2>a. down'[c] = Tail(down[c]) /\ \A d \in Clients \ {c} : down'[d] = down[d]
    BY <1>a, <2>1
  <2>b. Len(down'[c]) = Len(down[c]) - 1 /\ Len(down[c]) \in Nat
    BY <1>1, <2>1, <2>a
  <2>c. Len(down'[c]) < Len(down[c]) /\ Len(down'[c]) <= Len(down[c])
    BY <2>b
  <2>d. ASSUME NEW d \in Clients PROVE Len(down'[d]) <= Len(down[d])
    <3>1. CASE d = c
      BY <2>c, <3>1
    <3>2. CASE d # c
      <4>1. down'[d] = down[d] /\ Len(down[d]) \in Nat
        BY <1>1, <2>a, <3>2
      <4> QED
        BY <4>1
    <3> QED
      BY <3>1, <3>2
  <2>2. Len(down'[c]) < Len(down[c]) /\ \A d \in Clients : Len(down'[d]) <= Len(down[d])
    BY <2>c, <2>d
  <2> QED
    BY <2>1, <2>2 DEF StageLeft
<1>6. ASSUME NEW c \in Clients, Crash(c)
      PROVE  /\ UNCHANGED clientQueueSizes /\ StageLeft' = StageLeft /\ peer' # peer
             /\ \A d \in Clients : Len(down'[d]) <= Len(down[d])
  <2>1. /\ down' = [down EXCEPT ![c] = <<>>] /\ peer' = [peer EXCEPT ![c] = "dead"] /\ peer[c] = "on"
        /\ UNCHANGED <<serverPc, clientQueueSizes>> /\ c \in Peers
    BY <1>6, ConstantsAssumption DEF Crash, serverVars
  <2>2. peer' # peer
    BY <2>1 DEF IInv, TypeOK
  <2>3. \A d \in Clients : Len(down'[d]) <= Len(down[d])
    BY ONLY <1>1, <1>6, <1>a, <2>1, EmptyChannel
  <2> QED
    BY <2>1, <2>2, <2>3 DEF StageLeft
<1>7. ASSUME (\E p \in Peers : ReceiveReady(p) \/ UnexpectedReady(p)) \/ StartTimeout \/ CallPut \/ PutToAll
               \/ SendInTurn \/ SendOutOfTurn \/ GiveUp \/ FullError
      PROVE  FALSE
  BY <1>7 DEF ReceiveReady, UnexpectedReady, StartTimeout, CallPut, PutToAll, SendInTurn, SendOutOfTurn, GiveUp,
              FullError, Return, Fail
<1> QED
  BY <1>1, <1>2, <1>3, <1>4, <1>5, <1>6, <1>7 DEF Next, Server, Client

\* For any number of clients, limits and deaths: while a put lasts, each step brings it nearer
\* to its return, but for the start or death of a client, which adds nothing to do.
THEOREM PutTheorem == Spec => PutProceeds
<1>1. ASSUME IInv, [Next]_vars
      PROVE  [{serverPc, serverPc'} \subseteq InPut =>
                /\ \A c \in Clients :
                     clientQueueSizes'[c] <= clientQueueSizes[c] /\ Len(down'[c]) <= Len(down[c])
                /\ \/ \E c \in Clients : clientQueueSizes'[c] < clientQueueSizes[c]
                   \/ StageLeft' < StageLeft
                   \/ /\ StageLeft' = StageLeft
                      /\ peer' # peer \/ \E c \in Clients : Len(down'[c]) < Len(down[c])]_vars
  BY <1>1, PutStep
<1> QED
  BY <1>1, InitIInv, StepIInv, PTL DEF Spec, PutProceeds
=============================================================================
