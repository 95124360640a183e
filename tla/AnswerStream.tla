---------------------------- MODULE AnswerStream ----------------------------
(***************************************************************************)
(* What a client of the inference server may rely on.  The frames of each  *)
(* client are answered from the oldest on and each at most once.  A frame  *)
(* may go without an answer, but only together with all that were waiting  *)
(* before it, or once the server stops.  The answers reach the client's    *)
(* handler in the order they were made; after the end mark none is made.   *)
(***************************************************************************)
EXTENDS Integers, Sequences

CONSTANTS Clients,     \* the connections
          End          \* the mark behind a connection's last answer

VARIABLES newest,      \* number of the frame each client sent last
          waiting,     \* frames that may still be answered
          ready,       \* answers made and not yet handed out, a sequence
          handed,      \* frames whose answer has been handed out
          stopped      \* the server stops

vars == <<newest, waiting, ready, handed, stopped>>

Init == /\ newest = [c \in Clients |-> 0]
        /\ waiting = [c \in Clients |-> {}]
        /\ ready = [c \in Clients |-> <<>>]
        /\ handed = [c \in Clients |-> {}]
        /\ stopped = FALSE

Ended(c) == \E i \in DOMAIN ready[c] : ready[c][i] = End

\* S holds the oldest of what waits: nothing older than one of S stays behind.
Oldest(c, S) == S \subseteq waiting[c] /\ \A f \in S, g \in waiting[c] \ S : f < g

\* A frame that cannot be read counts, and is never answered.
Send(c) == /\ newest' = [newest EXCEPT ![c] = @ + 1]
           /\ \E new \in {{}, {newest'[c]}} : waiting' = [waiting EXCEPT ![c] = @ \union new]
           /\ UNCHANGED <<ready, handed, stopped>>

GiveUp(c) == /\ \E S \in SUBSET waiting[c] : /\ Oldest(c, S)
                                              /\ waiting' = [waiting EXCEPT ![c] = @ \ S]
             /\ UNCHANGED <<newest, ready, handed, stopped>>

Lose(c) == /\ stopped
           /\ \E f \in waiting[c] : waiting' = [waiting EXCEPT ![c] = @ \ {f}]
           /\ UNCHANGED <<newest, ready, handed, stopped>>

Answer(c) == /\ ~Ended(c)
             /\ \E f \in waiting[c] :
                  /\ Oldest(c, {f})
                  /\ waiting' = [waiting EXCEPT ![c] = @ \ {f}]
                  /\ ready' = [ready EXCEPT ![c] = Append(@, f)]
             /\ UNCHANGED <<newest, handed, stopped>>

Finish(c) == /\ ~Ended(c)
             /\ \E S \in SUBSET waiting[c] : /\ Oldest(c, S)
                                              /\ waiting' = [waiting EXCEPT ![c] = @ \ S]
             /\ ready' = [ready EXCEPT ![c] = Append(@, End)]
             /\ UNCHANGED <<newest, handed, stopped>>

Hand(c) == /\ ready[c] # <<>> /\ Head(ready[c]) # End
           /\ handed' = [handed EXCEPT ![c] = @ \union {Head(ready[c])}]
           /\ ready' = [ready EXCEPT ![c] = Tail(@)]
           /\ UNCHANGED <<newest, waiting, stopped>>

Stop == /\ stopped' = TRUE
        /\ UNCHANGED <<newest, waiting, ready, handed>>

Next == \/ \E c \in Clients : Send(c) \/ GiveUp(c) \/ Lose(c) \/ Answer(c) \/ Finish(c) \/ Hand(c)
        \/ Stop

Spec == Init /\ [][Next]_vars
=============================================================================
