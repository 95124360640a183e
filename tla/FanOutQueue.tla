----------------------------- MODULE FanOutQueue -----------------------------
(***************************************************************************)
(* What a user of the flow-controlled queue may rely on: one FIFO per      *)
(* client.  An ordinary put appends its item to the FIFO of exactly one    *)
(* client, and only to one that holds fewer than Capacity entries.  An     *)
(* end-of-epoch marker may be forced past that limit, to one client or to  *)
(* all of them.  A client takes its entries in the order they were put,    *)
(* each once.  Entries are lost only with the client they were sent to.    *)
(***************************************************************************)
EXTENDS Naturals, Sequences

CONSTANTS Clients,     \* the consumers of the queue
          Items,       \* the payloads
          EndOfEpoch,  \* the marker that ends an epoch
          Capacity,    \* how many entries an ordinary put may fill a FIFO to
          Nothing      \* what a client has before its first get

VARIABLES fifo,        \* entries put for each client and not taken yet
          got          \* the entry each client took last

vars == <<fifo, got>>

Init == /\ fifo = [c \in Clients |-> <<>>]
        /\ got = [c \in Clients |-> Nothing]

Put(c, m) == /\ Len(fifo[c]) < Capacity
             /\ fifo' = [fifo EXCEPT ![c] = Append(@, m)]
             /\ UNCHANGED got

\* The marker reaches exactly the clients in "live": the others have no
\* connection, and what is sent to them is dropped.
Mark(live) ==
  /\ fifo' = [c \in Clients |->
                IF c \in live THEN Append(fifo[c], EndOfEpoch) ELSE fifo[c]]
  /\ UNCHANGED got

Take(c) == /\ fifo[c] # <<>>
           /\ got' = [got EXCEPT ![c] = Head(fifo[c])]
           /\ fifo' = [fifo EXCEPT ![c] = Tail(@)]

Lose(c) == /\ fifo' = [fifo EXCEPT ![c] = <<>>]
           /\ UNCHANGED got

Next == \/ \E c \in Clients : Take(c) \/ Lose(c)
        \/ \E c \in Clients, m \in Items \union {EndOfEpoch} : Put(c, m)
        \/ \E live \in SUBSET Clients : Mark(live)

Spec == Init /\ [][Next]_vars
=============================================================================
