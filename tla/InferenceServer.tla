--------------------------- MODULE InferenceServer ---------------------------
(***************************************************************************)
(* The Unix-socket inference server (policy_model/inference.py over        *)
(* inference/unix_socket_server.py).  Each connection has a handler        *)
(* coroutine, a task that reads its frames and a compute thread of the     *)
(* default executor; the first two and the shutdown share one event loop.  *)
(* All threads share one FullInferenceState.  get_action either returns or *)
(* raises; which action it returns is abstracted to the frame it answers.  *)
(***************************************************************************)
EXTENDS Integers, Sequences, FiniteSets, SequencesExt

CONSTANTS
  Clients,      \* connections, each used once
  MaxFrames,    \* frames each client sends at most (bound)
  Workers,      \* threads of the default executor
  Room,         \* replies the sockets hold for a client that does not read
  T             \* n_seq_timesteps: rows of the inference window

ASSUME ConstantsAssumption ==
  /\ {Workers, Room, T} \subseteq Nat \ {0}
  /\ MaxFrames \in [Clients -> Nat \ {0}]

Stop == 0       \* None in in_queue and out_queue
Bad == -1       \* a frame that cannot be parsed or has the wrong size

VARIABLES
  running,      \* self.running, the negation of shutdown_event
  shut,         \* progress of shutdown
  spinning,     \* the terminal listener never yields to the event loop again
  link,         \* the transport of a connection
  sent,         \* frames the client has sent
  sock,         \* frames sent and not yet read by the server
  reader,       \* _process_request_iterator
  inq,          \* in_queue
  thread,       \* _handle_requests
  held,         \* frame the thread is working on
  outq,         \* out_queue
  handler,      \* _handle_client
  gen,          \* the _infer_video generator
  produced,     \* frames a thread has answered (history)
  unread,       \* replies the client has not read
  active,       \* active_connections
  frames,       \* frame_in, its first n_prior_frames rows
  actions,      \* action_in, the rows beside them
  misaligned    \* a call ended between rolling frame_in and rolling action_in (history)

loopVars == <<running, shut, spinning>>
window == <<frames, actions, misaligned>>
vars == <<running, shut, spinning, link, sent, sock, reader, inq, thread, held,
          outq, handler, gen, produced, unread, active, frames, actions, misaligned>>

Frame(c) == 1..MaxFrames[c]
NoAction == <<>>          \* a row of make_empty_action
Rolled(q) == Append(Tail(q), Head(q))   \* torch.roll by -1
Row(c, f) == <<c, f>>

Init ==
  /\ running = TRUE /\ shut = "no" /\ spinning = FALSE
  /\ link = [c \in Clients |-> "none"]
  /\ sent = [c \in Clients |-> 0]
  /\ sock = [c \in Clients |-> <<>>]
  /\ reader = [c \in Clients |-> "none"]
  /\ inq = [c \in Clients |-> <<>>]
  /\ thread = [c \in Clients |-> "none"]
  /\ held = [c \in Clients |-> Stop]
  /\ outq = [c \in Clients |-> <<>>]
  /\ handler = [c \in Clients |-> "none"]
  /\ gen = [c \in Clients |-> "none"]
  /\ produced = [c \in Clients |-> {}]
  /\ unread = [c \in Clients |-> 0]
  /\ active = {}
  /\ frames = <<>> /\ actions = <<>> /\ misaligned = FALSE

-----------------------------------------------------------------------------
(* The clients *)

\* The server accepts c: _handle_client registers the writer and starts
\* _infer_video, which submits the compute thread and the reading task.
Connect(c) ==
  /\ link[c] = "none" /\ shut \in {"no", "signalled"} /\ ~spinning
  /\ link' = [link EXCEPT ![c] = "open"]
  /\ active' = active \cup {c}
  /\ handler' = [handler EXCEPT ![c] = "poll"]
  /\ gen' = [gen EXCEPT ![c] = "live"]
  /\ reader' = [reader EXCEPT ![c] = "reading"]
  /\ thread' = [thread EXCEPT ![c] = "queued"]
  /\ UNCHANGED <<loopVars, window, sent, sock, inq, held, outq, produced, unread>>

\* Bound: what is sent when nobody will read it any more is left out.
SendFrame(c) ==
  /\ link[c] = "open" /\ sent[c] < MaxFrames[c]
  /\ reader[c] = "reading" /\ ~Contains(sock[c], Bad)
  /\ sent' = [sent EXCEPT ![c] = @ + 1]
  /\ \E f \in {sent'[c], Bad} : sock' = [sock EXCEPT ![c] = Append(@, f)]
  /\ UNCHANGED <<loopVars, window, link, reader, inq, thread, held, outq,
                 handler, gen, produced, unread, active>>

ReadReply(c) ==
  /\ link[c] \in {"open", "closing"} /\ unread[c] > 0
  /\ unread' = [unread EXCEPT ![c] = @ - 1]
  /\ UNCHANGED <<loopVars, window, link, sent, sock, reader, inq, thread, held,
                 outq, handler, gen, produced, active>>

\* The client closes its socket or dies.  The server's protocol keeps its own
\* half of the transport open.
Leave(c) ==
  /\ link[c] = "open" \/ (link[c] = "closing" /\ unread[c] > 0)
  /\ link' = [link EXCEPT ![c] = IF @ = "open" THEN "eof" ELSE "closing"]
  /\ unread' = [unread EXCEPT ![c] = 0]
  /\ UNCHANGED <<loopVars, window, sent, sock, reader, inq, thread, held, outq,
                 handler, gen, produced, active>>

-----------------------------------------------------------------------------
(* The reading task *)

\* Variant with a defect: frames are still queued during a shutdown.
ReadFrameAlways(c) ==
  /\ reader[c] = "reading" /\ sock[c] # <<>> /\ ~spinning
  /\ sock' = [sock EXCEPT ![c] = Tail(@)]
  /\ IF Head(sock[c]) # Bad
       THEN /\ inq' = [inq EXCEPT ![c] = Append(@, Head(sock[c]))]
            /\ UNCHANGED reader
       ELSE /\ reader' = [reader EXCEPT ![c] = "ended"]
            /\ UNCHANGED inq
  /\ UNCHANGED <<loopVars, window, link, sent, thread, held, outq, handler, gen,
                 produced, unread, active>>

\* One frame is read, converted and queued; a frame that does not parse or
\* has the wrong size ends the task, and so does a shutdown.
ReadFrame(c) ==
  /\ reader[c] = "reading" /\ sock[c] # <<>> /\ ~spinning
  /\ sock' = [sock EXCEPT ![c] = Tail(@)]
  /\ IF running /\ Head(sock[c]) # Bad
       THEN /\ inq' = [inq EXCEPT ![c] = Append(@, Head(sock[c]))]
            /\ UNCHANGED reader
       ELSE /\ reader' = [reader EXCEPT ![c] = "ended"]
            /\ UNCHANGED inq
  /\ UNCHANGED <<loopVars, window, link, sent, thread, held, outq, handler, gen,
                 produced, unread, active>>

\* End of the stream ends the task; nobody else is told.
ReadEnd(c) ==
  /\ reader[c] = "reading" /\ sock[c] = <<>> /\ ~spinning
  /\ link[c] \in {"eof", "lost", "closed"}
  /\ reader' = [reader EXCEPT ![c] = "ended"]
  /\ UNCHANGED <<loopVars, window, link, sent, sock, inq, thread, held, outq,
                 handler, gen, produced, unread, active>>

-----------------------------------------------------------------------------
(* The compute thread *)

Busy == {c \in Clients : thread[c] \in {"idle", "working"}}

\* A worker of the executor is free; reset() does nothing.
StartThread(c) ==
  /\ thread[c] = "queued" /\ Cardinality(Busy) < Workers
  /\ thread' = [thread EXCEPT ![c] = "idle"]
  /\ UNCHANGED <<loopVars, window, link, sent, sock, reader, inq, held, outq,
                 handler, gen, produced, unread, active>>

\* The timed get comes back to the loop's condition.
StopThread(c) ==
  /\ thread[c] = "idle" /\ ~running
  /\ thread' = [thread EXCEPT ![c] = "exited"]
  /\ UNCHANGED <<loopVars, window, link, sent, sock, reader, inq, held, outq,
                 handler, gen, produced, unread, active>>

\* A None in the queue, the last thing put there, is reached while older
\* frames are dropped and ends the thread.
EndThread(c) ==
  /\ thread[c] = "idle" /\ Contains(inq[c], Stop)
  /\ thread' = [thread EXCEPT ![c] = "exited"]
  /\ inq' = [inq EXCEPT ![c] = <<>>]
  /\ outq' = [outq EXCEPT ![c] = Append(@, Stop)]
  /\ UNCHANGED <<loopVars, window, link, sent, sock, reader, held, handler, gen,
                 produced, unread, active>>

\* Variant with a defect: the actions stay where they were.
PushFrameUnrolled(r) ==
  /\ UNCHANGED misaligned
  /\ IF Len(frames) < T
       THEN /\ frames' = Append(frames, r)
            /\ actions' = Append(actions, NoAction)
       ELSE /\ frames' = Append(Tail(frames), r)
            /\ UNCHANGED actions

\* First half of get_action: the frame takes the next row, the oldest row goes
\* once the window is full.
PushFrame(r) ==
  /\ UNCHANGED misaligned
  /\ IF Len(frames) < T
       THEN /\ frames' = Append(frames, r)
            /\ actions' = Append(actions, NoAction)
       ELSE /\ frames' = Append(Tail(frames), r)
            /\ actions' = Rolled(actions)

\* The push ends with an exception: before it has changed what counts, or with the
\* frames of a full window rolled and the new one not yet in its row, the actions
\* rolled as well or not.
PushFails ==
  \/ UNCHANGED window
  \/ /\ Len(frames) = T
     /\ frames' = Rolled(frames)
     /\ \/ actions' = Rolled(actions) /\ UNCHANGED misaligned
        \/ UNCHANGED actions /\ misaligned' = TRUE

\* Variant with a defect: the oldest waiting frame is taken, the rest is kept.
TakeFrameOldest(c) ==
  /\ thread[c] = "idle" /\ inq[c] # <<>> /\ ~Contains(inq[c], Stop)
  /\ held' = [held EXCEPT ![c] = Last(inq[c])]
  /\ inq' = [inq EXCEPT ![c] = Front(@)]
  /\ thread' = [thread EXCEPT ![c] = "working"]
  /\ PushFrame(Row(c, held'[c]))
  /\ UNCHANGED <<loopVars, link, sent, sock, reader, outq, handler, gen,
                 produced, unread, active>>

\* The newest frame is taken and the older ones are dropped.  running was read
\* before the wait, so a frame can still be taken after a shutdown.
TakeFrame(c) ==
  /\ thread[c] = "idle" /\ inq[c] # <<>> /\ ~Contains(inq[c], Stop)
  /\ held' = [held EXCEPT ![c] = Last(inq[c])]
  /\ inq' = [inq EXCEPT ![c] = <<>>]
  /\ thread' = [thread EXCEPT ![c] = "working"]
  /\ PushFrame(Row(c, held'[c]))
  /\ UNCHANGED <<loopVars, link, sent, sock, reader, outq, handler, gen,
                 produced, unread, active>>

\* get_action raises before the frame has its row: the frames taken are lost all the
\* same, and the window stays as far as it was rolled.
RaisePushing(c) ==
  /\ thread[c] = "idle" /\ inq[c] # <<>> /\ ~Contains(inq[c], Stop)
  /\ inq' = [inq EXCEPT ![c] = <<>>]
  /\ PushFails
  /\ UNCHANGED <<loopVars, link, sent, sock, reader, thread, held, outq, handler,
                 gen, produced, unread, active>>

\* Second half of get_action: the sampled action fills the last row, which is
\* the row of this frame if no other thread has pushed one meanwhile.
Answer(c) ==
  /\ thread[c] = "working"
  /\ actions' = [actions EXCEPT ![Len(frames)] = Row(c, held[c])]
  /\ outq' = [outq EXCEPT ![c] = Append(@, held[c])]
  /\ thread' = [thread EXCEPT ![c] = "idle"]
  /\ held' = [held EXCEPT ![c] = Stop]
  /\ produced' = [produced EXCEPT ![c] = @ \cup {held[c]}]
  /\ UNCHANGED <<loopVars, frames, misaligned, link, sent, sock, reader, inq, handler,
                 gen, unread, active>>

\* Variant with a defect: the exception ends the thread.
RaiseFatal(c) ==
  /\ thread[c] = "working"
  /\ thread' = [thread EXCEPT ![c] = "exited"]
  /\ held' = [held EXCEPT ![c] = Stop]
  /\ UNCHANGED <<loopVars, window, link, sent, sock, reader, inq, outq, handler,
                 gen, produced, unread, active>>

\* get_action raises once the frame has its row: the frame is logged, skipped and keeps its row.
Raise(c) ==
  /\ thread[c] = "working"
  /\ thread' = [thread EXCEPT ![c] = "idle"]
  /\ held' = [held EXCEPT ![c] = Stop]
  /\ UNCHANGED <<loopVars, window, link, sent, sock, reader, inq, outq, handler,
                 gen, produced, unread, active>>

-----------------------------------------------------------------------------
(* The handler and its generator *)

\* The finally of _infer_video: the tasks are cancelled (a submitted thread
\* only if it has not started) and None is put for the thread.
CloseGenerator(c) ==
  /\ gen' = [gen EXCEPT ![c] = "closed"]
  /\ reader' = [reader EXCEPT ![c] = "ended"]
  /\ thread' = [thread EXCEPT ![c] = IF @ = "queued" THEN "exited" ELSE @]
  /\ inq' = [inq EXCEPT ![c] = Append(@, Stop)]

\* Variant with a defect: the wait for an answer has no timeout.
LeaveLoopOnAnswer(c) ==
  /\ handler[c] = "poll" /\ ~running /\ ~spinning /\ outq[c] # <<>>
  /\ handler' = [handler EXCEPT ![c] = "close"]
  /\ CloseGenerator(c)
  /\ UNCHANGED <<loopVars, window, link, sent, sock, held, outq, produced, unread, active>>

\* The generator's loop ends because the server stops.
LeaveLoop(c) ==
  /\ handler[c] = "poll" /\ ~running /\ ~spinning
  /\ handler' = [handler EXCEPT ![c] = "close"]
  /\ CloseGenerator(c)
  /\ UNCHANGED <<loopVars, window, link, sent, sock, held, outq, produced, unread, active>>

\* An answer is ready (None only comes once the generator is closed, so the
\* generator's branch for it is never taken).  It is written, or, after a shutdown, dropped with the
\* generator left to the event loop.  A client that has gone breaks the pipe.
TakeAnswer(c) ==
  /\ handler[c] = "poll" /\ outq[c] # <<>> /\ Head(outq[c]) # Stop /\ ~spinning
  /\ outq' = [outq EXCEPT ![c] = Tail(@)]
  /\ IF running
       THEN /\ handler' = [handler EXCEPT ![c] = "drain"]
            /\ link' = [link EXCEPT ![c] = IF @ = "eof" THEN "lost" ELSE @]
            /\ unread' = [unread EXCEPT ![c] = IF link[c] = "open" THEN @ + 1 ELSE @]
            /\ UNCHANGED gen
       ELSE /\ handler' = [handler EXCEPT ![c] = "close"]
            /\ gen' = [gen EXCEPT ![c] = "dropped"]
            /\ UNCHANGED <<link, unread>>
  /\ UNCHANGED <<loopVars, window, sent, sock, reader, inq, thread, held, produced, active>>

\* drain returns once the client has read enough, and raises on a lost pipe.
Drained(c) ==
  /\ handler[c] = "drain" /\ ~spinning
  /\ \/ /\ link[c] = "lost"
        /\ handler' = [handler EXCEPT ![c] = "close"]
        /\ gen' = [gen EXCEPT ![c] = "dropped"]
     \/ /\ link[c] # "lost" /\ unread[c] <= Room
        /\ handler' = [handler EXCEPT ![c] = "poll"]
        /\ UNCHANGED gen
  /\ UNCHANGED <<loopVars, window, link, sent, sock, reader, inq, thread, held,
                 outq, produced, unread, active>>

\* The event loop closes a generator its handler has dropped.
CloseDropped(c) ==
  /\ gen[c] = "dropped" /\ ~spinning
  /\ CloseGenerator(c)
  /\ UNCHANGED <<loopVars, window, link, sent, sock, held, outq, handler,
                 produced, unread, active>>

\* The finally of _handle_client: KeyError if the writer is no longer in the set.
CloseWriter(c) ==
  /\ handler[c] = "close" /\ ~spinning
  /\ IF c \in active
       THEN /\ handler' = [handler EXCEPT ![c] = "closing"]
            /\ active' = active \ {c}
            /\ link' = [link EXCEPT ![c] = IF @ = "lost" THEN "lost" ELSE "closing"]
       ELSE /\ handler' = [handler EXCEPT ![c] = "failed"]
            /\ UNCHANGED <<active, link>>
  /\ UNCHANGED <<loopVars, window, sent, sock, reader, inq, thread, held, outq,
                 gen, produced, unread>>

\* The transport has sent what it held, or lost its peer, and is gone.
WriterClosed(c) ==
  /\ handler[c] = "closing" /\ unread[c] <= Room /\ ~spinning
  /\ handler' = [handler EXCEPT ![c] = "done"]
  /\ link' = [link EXCEPT ![c] = IF @ = "lost" THEN "lost" ELSE "closed"]
  /\ UNCHANGED <<loopVars, window, sent, sock, reader, inq, thread, held,
                 outq, gen, produced, unread, active>>

-----------------------------------------------------------------------------
(* The listener, the signal and the shutdown *)

connVars == <<window, link, sent, sock, reader, inq, thread, held, outq, handler,
              gen, produced, unread>>

\* At the end of standard input readline returns at once and wait_for does not
\* suspend: the listener's loop runs for ever without the event loop.
StdinEnds ==
  /\ running /\ ~spinning
  /\ spinning' = TRUE
  /\ UNCHANGED <<running, shut, connVars, active>>

\* SIGINT or SIGTERM: the event loop will start shutdown.
Signal ==
  /\ shut = "no"
  /\ shut' = "signalled"
  /\ UNCHANGED <<running, spinning, connVars, active>>

\* shutdown: the listener is cancelled, the flags are set, the server is closed.
\* serve() then starts a second shutdown, which does the same.
BeginShutdown ==
  /\ shut = "signalled" /\ ~spinning
  /\ shut' = "closing" /\ running' = FALSE
  /\ UNCHANGED <<spinning, connVars, active>>

\* Variant with a defect: the connections are forgotten before the server waits.
ConnectionsGoneEarly == shut = "closing" /\ ~spinning

\* server.wait_closed: every transport has gone.
ConnectionsGone ==
  /\ shut = "closing" /\ ~spinning
  /\ \A c \in Clients : link[c] \in {"none", "closed", "lost"}

\* The writers still registered are closed and forgotten.
ClearConnections ==
  /\ ConnectionsGone
  /\ shut' = "cleared" /\ active' = {}
  /\ UNCHANGED <<running, spinning, connVars>>

\* No coroutine or thread is left but reading tasks.
Quiet ==
  /\ Busy = {}
  /\ \A c \in Clients : handler[c] \in {"none", "done", "failed"} /\ thread[c] # "queued"
                        /\ gen[c] # "dropped"

\* asyncio.run cancels what is left, joins the executor and returns.
Exit ==
  /\ shut = "cleared" /\ Quiet
  /\ shut' = "exited"
  /\ UNCHANGED <<running, spinning, connVars, active>>

\* The process has ended, or only the listener's loop runs.
Done == (shut = "exited" \/ spinning) /\ UNCHANGED vars

\* A client with replies before it reads one or goes.
Unblock(c) == unread[c] > 0 /\ (ReadReply(c) \/ Leave(c))

Serve(c) ==
  \/ ReadFrame(c) \/ ReadEnd(c) \/ LeaveLoop(c) \/ TakeAnswer(c) \/ Drained(c)
  \/ CloseDropped(c) \/ CloseWriter(c) \/ WriterClosed(c)

Compute(c) ==
  \/ StartThread(c) \/ StopThread(c) \/ EndThread(c) \/ TakeFrame(c) \/ RaisePushing(c)
  \/ Answer(c) \/ Raise(c)

Shutdown == BeginShutdown \/ ClearConnections \/ Exit

Next ==
  \/ \E c \in Clients :
       \/ Connect(c) \/ SendFrame(c) \/ ReadReply(c) \/ Leave(c)
       \/ Serve(c) \/ Compute(c)
  \/ StdinEnds \/ Signal \/ Shutdown \/ Done

\* The event loop does not leave a connection's ready tasks aside, nor the
\* operating system its thread; a client does not leave its replies unread for ever.
Fairness ==
  /\ \A c \in Clients : WF_vars(Serve(c)) /\ WF_vars(Compute(c)) /\ WF_vars(Unblock(c))
  /\ WF_vars(Shutdown)

Spec == Init /\ [][Next]_vars /\ Fairness
-----------------------------------------------------------------------------
Rows == UNION {{Row(c, f) : f \in Frame(c)} : c \in Clients}

\* Every variable keeps its type.
TypeOK ==
  /\ running \in BOOLEAN /\ spinning \in BOOLEAN /\ misaligned \in BOOLEAN
  /\ shut \in {"no", "signalled", "closing", "cleared", "exited"}
  /\ active \subseteq Clients
  /\ frames \in Seq(Rows) /\ actions \in Seq(Rows \cup {NoAction})
  /\ Len(frames) = Len(actions) /\ Len(frames) <= T
  /\ link \in [Clients -> {"none", "open", "eof", "lost", "closing", "closed"}]
  /\ unread \in [Clients -> 0..Room + 1]
  /\ reader \in [Clients -> {"none", "reading", "ended"}]
  /\ thread \in [Clients -> {"none", "queued", "idle", "working", "exited"}]
  /\ handler \in [Clients -> {"none", "poll", "drain", "close", "closing", "done", "failed"}]
  /\ gen \in [Clients -> {"none", "live", "dropped", "closed"}]
  /\ {DOMAIN sent, DOMAIN sock, DOMAIN inq, DOMAIN outq, DOMAIN held, DOMAIN produced} = {Clients}
  /\ \A c \in Clients :
       /\ sent[c] \in 0..MaxFrames[c]
       /\ sock[c] \in Seq(Frame(c) \cup {Bad})
       /\ inq[c] \in Seq(Frame(c) \cup {Stop}) /\ outq[c] \in Seq(Frame(c) \cup {Stop})
       /\ held[c] \in Frame(c) \cup {Stop} /\ (held[c] = Stop <=> thread[c] # "working")
       /\ produced[c] \subseteq Frame(c)

\* The frames that have not been answered yet, and the answers the handler has taken.
Unanswered(c) == ({held[c]} \cup ToSet(inq[c]) \cup ToSet(sock[c])) \cap Frame(c)
Handed(c) == produced[c] \ ToSet(outq[c])

\* What is between a client's socket and its handler, oldest first, and the places of
\* the frames and answers in it.
Line(c) == outq[c] \o <<held[c]>> \o inq[c] \o sock[c]
OnItsWay(c) == {i \in DOMAIN Line(c) : Line(c)[i] \in Frame(c)}

\* Frames and answers of a connection never overtake one another and none is
\* there twice, although frames are dropped, calls raise and the answers come
\* through another thread: what is on its way is in the order it was sent, and
\* every answer no longer on its way is older.
AnswersInOrder ==
  \A c \in Clients :
    /\ \A i, j \in OnItsWay(c) : i < j => Line(c)[i] < Line(c)[j]
    /\ \A f \in Handed(c), i \in OnItsWay(c) : f < Line(c)[i]

\* What a client relies on (AnswerStream): the frames in its socket, in_queue and with its
\* thread are answered from the oldest on, each at most once; a frame goes without an
\* answer only with all older ones or after a shutdown; out_queue hands the answers
\* over in order, and nothing is answered behind its None.
Stream == INSTANCE AnswerStream WITH
  End <- Stop,
  newest <- sent,
  waiting <- [c \in Clients |-> Unanswered(c)],
  ready <- outq,
  handed <- [c \in Clients |-> Handed(c)],
  stopped <- ~running
ImplementsAnswerStream == Stream!Spec

\* shutdown forgets the set of connections from which each handler still removes
\* its own (KeyError, and the writer is then never closed): that can only happen
\* to a connection whose pipe its client has broken already.
RemovalFailsOnlyWhenLost ==
  \A c \in Clients : handler[c] = "failed" => link[c] = "lost"

\* As long as no two threads can be at it, the row of every frame that was answered
\* holds its own action, through failed calls, rolls of the two arrays and the
\* windows other clients left (reset does nothing).  A call that raises leaves
\* its row with the action of the frame rolled out, or a window of which nothing
\* was put in the last row; one that raises between the two rolls puts the arrays
\* out of step for good, and two threads at once fill each other's rows.
AnsweredRowsMatch ==
  (Workers = 1 \/ \E c \in Clients : Clients = {c}) /\ ~misaligned =>
    \A i \in DOMAIN frames :
      frames[i][2] \in produced[frames[i][1]] => actions[i] = frames[i]

\* A frame that has reached a server with a thread for it does not stay on its
\* way: it is answered, dropped for a newer one or skipped, unless the client
\* or the server goes, a frame that cannot be read has ended the reading, or the
\* terminal's end of file stopped the event loop.
NoFrameStuck ==
  \A c \in Clients :
    (OnItsWay(c) # {} /\ thread[c] = "idle") ~>
      (OnItsWay(c) = {} \/ reader[c] = "ended" \/ link[c] # "open" \/ ~running \/ spinning)

\* A signal stops the server, whatever its clients and threads are doing, as long
\* as standard input has not ended: from then on the event loop never runs again,
\* and a signal has no effect.
ShutdownEnds == (shut = "signalled") ~> (shut = "exited" \/ spinning)

\* What a coroutine or the thread of c, or its client with replies to read, can do next
\* during a shutdown.
CanMove(c) ==
  \/ handler[c] \in {"poll", "close"} \/ gen[c] = "dropped"
  \/ handler[c] = "drain" /\ (link[c] = "lost" \/ unread[c] <= Room)
  \/ handler[c] = "closing" /\ unread[c] <= Room
  \/ link[c] \in {"open", "closing"} /\ unread[c] > 0
  \/ thread[c] = "queued" /\ Cardinality(Busy) < Workers
  \/ thread[c] \in {"idle", "working"}

\* A shutdown never waits in a cycle: wait_closed for a transport, its handler for the
\* client to read, a thread for a place in the executor, and the exit for all of them.
ShutdownNotStuck ==
  shut \in {"signalled", "closing", "cleared"} /\ ~spinning =>
    \/ shut = "signalled" \/ ConnectionsGone \/ (shut = "cleared" /\ Quiet)
    \/ \E c \in Clients : CanMove(c)

Waiting(c) == {i \in DOMAIN inq[c] : inq[c][i] # Stop}

\* What is left of c: how many steps each of its parts may still take.
LinkLeft(c) ==
  CASE link[c] = "open" -> 3 [] link[c] = "eof" -> 2 [] link[c] = "closing" -> 1 [] OTHER -> 0
ReaderLeft(c) == IF reader[c] = "reading" THEN 1 ELSE 0
ThreadLeft(c) ==
  (CASE thread[c] \in {"queued", "working"} -> 2 [] thread[c] = "idle" -> 1 [] OTHER -> 0)
    + (IF Waiting(c) = {} THEN 0 ELSE 2)
HandlerLeft(c) ==
  CASE handler[c] = "drain" -> 4 [] handler[c] = "poll" -> 3 [] handler[c] = "close" -> 2
    [] handler[c] = "closing" -> 1 [] OTHER -> 0
GenLeft(c) == CASE gen[c] = "live" -> 2 [] gen[c] = "dropped" -> 1 [] OTHER -> 0
ShutdownLeft == CASE shut = "closing" -> 2 [] shut = "cleared" -> 1 [] OTHER -> 0

NoMoreLeft(c) ==
  /\ LinkLeft(c)' <= LinkLeft(c) /\ ReaderLeft(c)' <= ReaderLeft(c) /\ ThreadLeft(c)' <= ThreadLeft(c)
  /\ HandlerLeft(c)' <= HandlerLeft(c) /\ GenLeft(c)' <= GenLeft(c) /\ unread'[c] <= unread[c]

LessLeft(c) ==
  \/ LinkLeft(c)' < LinkLeft(c) \/ ReaderLeft(c)' < ReaderLeft(c) \/ ThreadLeft(c)' < ThreadLeft(c)
  \/ HandlerLeft(c)' < HandlerLeft(c) \/ GenLeft(c)' < GenLeft(c) \/ unread'[c] < unread[c]

\* Once a shutdown has begun, every step but a client's sending uses up something that is left
\* and none adds anything, in this or another connection: the server can take only so many
\* steps more, whatever its clients, its threads and failing calls do meanwhile.
ShutdownProceeds ==
  [][~running =>
       /\ ShutdownLeft' <= ShutdownLeft
       /\ \A c \in Clients : NoMoreLeft(c)
       /\ sent' = sent => ShutdownLeft' < ShutdownLeft \/ \E c \in Clients : LessLeft(c)]_vars
=============================================================================
