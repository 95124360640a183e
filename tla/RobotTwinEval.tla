---------------------------- MODULE RobotTwinEval ----------------------------
(***************************************************************************)
(* The RoboTwin evaluation: evaluators (eval_policy.py) that run episodes  *)
(* in their simulator and ask one policy for actions over websockets       *)
(* (websocket_client_policy.py, websocket_policy_server.py).  The policy   *)
(* is one object for all connections; of its window only the observations  *)
(* it was given since its last reset matter here.                          *)
(***************************************************************************)
EXTENDS Integers, Sequences, FiniteSets, SequencesExt

CONSTANTS
  Evaluators,   \* evaluation processes, in no order of time
  TestNum,      \* test_num of each
  Limit,        \* step_lim of the task of each
  Seeds,        \* seeds of each whose demonstration may fail; the later ones work (bound)
  Fallback,     \* whether the task has fallback metadata (adjust_bottle)
  MaxCrashes    \* crashes of the policy server (bound)

None == 0

ASSUME ConstantsAssumption ==
  /\ {TestNum, Limit} \subseteq [Evaluators -> Nat \ {0}] /\ Seeds \in [Evaluators -> Nat]
  /\ None \notin Evaluators /\ MaxCrashes \in Nat /\ Fallback \in BOOLEAN

VARIABLES
  up, crashes,  \* the policy server
  policy,       \* prompt and observations since the last reset, and whose it was
  conn,         \* connection of an evaluator
  inbox,        \* request not yet received by its handler
  outbox,       \* response not yet received by the client
  pc,           \* where the evaluator is
  seed,         \* now_seed
  started,      \* succ_seed
  tested,       \* test_num and suc of the task environment
  scene,        \* seed whose objects left their attributes on the environment
  demo,         \* how the last demonstration went (demo_failure, demo_ready)
  instruction,  \* seed whose objects episode_info describes, and so the instruction
  steps,        \* take_action_cnt
  video,        \* file of the recorder that hooks the rendering
  result,       \* what res.json holds
  ended         \* the episodes that came to their end (history)

serverVars == <<up, crashes, policy>>
wireVars == <<conn, inbox, outbox>>
sceneVars == <<scene, demo, instruction>>
countVars == <<seed, started, tested, result, ended>>
progress == <<sceneVars, countVars>>
vars == <<serverVars, wireVars, pc, progress, steps, video>>

Outcomes == {"works", "unstable", "demo fails", "setup fails"}

Nothing == <<>>
Fresh == [by |-> None, prompt |-> None, window |-> <<>>]
Observation(e) == [from |-> e, episode |-> started[e], step |-> steps[e]]
InEpisode(e) == pc[e] \in {"reset", "step", "infer", "solved"}

NoFile == [kind |-> "none"]
Torn == [kind |-> "torn"]      \* truncated, or not yet written to its end
Metrics(num, suc, latest) == [kind |-> "whole", total |-> num, success |-> suc, latest |-> latest]

Init ==
  /\ up = TRUE /\ crashes = 0
  /\ policy = Fresh
  /\ conn = [e \in Evaluators |-> "none"]
  /\ inbox = [e \in Evaluators |-> Nothing] /\ outbox = [e \in Evaluators |-> Nothing]
  /\ pc = [e \in Evaluators |-> "connect"]
  /\ seed = [e \in Evaluators |-> 1]
  /\ started = [e \in Evaluators |-> 0]
  /\ tested = [e \in Evaluators |-> [num |-> 0, suc |-> 0]]
  /\ scene = [e \in Evaluators |-> None] /\ instruction = [e \in Evaluators |-> None]
  /\ demo = [e \in Evaluators |-> "works"]
  /\ steps = [e \in Evaluators |-> 0]
  /\ video = [e \in Evaluators |-> None]
  /\ result = [e \in Evaluators |-> NoFile]
  /\ ended = [e \in Evaluators |-> <<>>]

-----------------------------------------------------------------------------
(* The policy server *)

\* Variant with a defect: a reset changes the prompt and keeps the window.
ServedKeepingWindow(e, request) ==
  IF request.kind = "reset"
    THEN [policy EXCEPT !.by = e, !.prompt = request.seed]
    ELSE [policy EXCEPT !.window = Append(@, request.obs)]

\* The policy after a request of e.
Served(e, request) ==
  IF request.kind = "reset"
    THEN [by |-> e, prompt |-> request.seed, window |-> <<>>]
    ELSE [policy EXCEPT !.window = Append(@, request.obs)]

\* The handler of e receives a request and the policy serves it, without any
\* other handler in between.  The handler of a client that has gone ends.
Serve(e) ==
  /\ up /\ inbox[e] # Nothing
  /\ inbox' = [inbox EXCEPT ![e] = Nothing]
  /\ policy' = Served(e, inbox[e])
  /\ outbox' = [outbox EXCEPT ![e] = IF conn[e] = "open" THEN [ok |-> TRUE] ELSE Nothing]
  /\ UNCHANGED <<up, crashes, conn, pc, progress, steps, video>>

\* Variant with a defect: what infer raises is logged and the handler goes on without a response.
ServeFailsSilently(e) ==
  /\ up /\ inbox[e] # Nothing
  /\ inbox' = [inbox EXCEPT ![e] = Nothing]
  /\ policy' \in {policy, Served(e, inbox[e])}
  /\ UNCHANGED <<up, crashes, conn, outbox, pc, progress, steps, video>>

\* infer raises, in a reset (which encodes the prompt before it clears anything) or in a
\* step: the traceback is the response, the connection is closed and the server goes on.
ServeFails(e) ==
  /\ up /\ inbox[e] # Nothing
  /\ inbox' = [inbox EXCEPT ![e] = Nothing]
  /\ outbox' = [outbox EXCEPT ![e] = IF conn[e] = "open" THEN [ok |-> FALSE] ELSE Nothing]
  /\ conn' = [conn EXCEPT ![e] = "closed"]
  /\ policy' \in {policy, Served(e, inbox[e])}
  /\ UNCHANGED <<up, crashes, pc, progress, steps, video>>

Crash ==
  /\ up /\ crashes < MaxCrashes
  /\ up' = FALSE /\ crashes' = crashes + 1
  /\ conn' = [e \in Evaluators |-> IF conn[e] = "open" THEN "closed" ELSE conn[e]]
  /\ inbox' = [e \in Evaluators |-> Nothing] /\ outbox' = [e \in Evaluators |-> Nothing]
  /\ UNCHANGED <<policy, pc, progress, steps, video>>

\* The new process has warmed up and reset its policy before it listens.
Restart ==
  /\ ~up /\ up' = TRUE
  /\ policy' = Fresh
  /\ UNCHANGED <<crashes, wireVars, pc, progress, steps, video>>

-----------------------------------------------------------------------------
(* An evaluator *)

\* _wait_for_server tries again until the server sends its metadata.
Connect(e) ==
  /\ pc[e] = "connect" /\ up
  /\ conn' = [conn EXCEPT ![e] = "open"]
  /\ pc' = [pc EXCEPT ![e] = "seed"]
  /\ UNCHANGED <<serverVars, inbox, outbox, progress, steps, video>>

Finish(e) ==
  /\ pc[e] = "seed" /\ started[e] = TestNum[e]
  /\ pc' = [pc EXCEPT ![e] = "done"]
  /\ conn' = [conn EXCEPT ![e] = "closed"]
  /\ UNCHANGED <<serverVars, inbox, outbox, progress, steps, video>>

\* How the demonstration of the next seed may go.  Nothing says that the same seed goes the
\* same way twice: its second set-up may fail after a good demonstration, and work after a bad one.
Demonstrations(e) == IF seed[e] <= Seeds[e] THEN Outcomes ELSE {"works"}

\* The scene whose attributes the environment has after the demonstration.
Placed(e, outcome) == IF outcome = "setup fails" THEN scene[e] ELSE seed[e]

\* Variant with a defect: the metadata to fall back on are read before the demonstration.
InfoBefore(e, outcome) ==
  CASE outcome = "works" -> seed[e]
    [] outcome = "unstable" -> None
    [] OTHER -> IF Fallback THEN scene[e] ELSE None

\* What the instruction can be made from: the demonstration's own info, or the
\* attributes that some scene has left on the environment.
Info(e, outcome) ==
  CASE outcome = "works" -> seed[e]
    [] outcome = "unstable" -> None
    [] OTHER -> IF Fallback THEN Placed(e, outcome) ELSE None

\* An unstable seed, or one that fails without metadata to fall back on.
SkipSeed(e) ==
  /\ pc[e] = "seed" /\ started[e] < TestNum[e]
  /\ \E outcome \in Demonstrations(e) :
       /\ Info(e, outcome) = None
       /\ scene' = [scene EXCEPT ![e] = Placed(e, outcome)]
  /\ seed' = [seed EXCEPT ![e] = @ + 1]
  /\ UNCHANGED <<serverVars, wireVars, pc, demo, instruction, started, tested, result, ended,
                 steps, video>>

\* The seed has an episode, described by what the demonstration left.
StartEpisode(e) ==
  /\ pc[e] = "seed" /\ started[e] < TestNum[e]
  /\ \E outcome \in Demonstrations(e) :
       /\ Info(e, outcome) # None
       /\ scene' = [scene EXCEPT ![e] = Placed(e, outcome)]
       /\ demo' = [demo EXCEPT ![e] = outcome]
       /\ instruction' = [instruction EXCEPT ![e] = Info(e, outcome)]
  /\ started' = [started EXCEPT ![e] = @ + 1]
  /\ pc' = [pc EXCEPT ![e] = "setup"]
  /\ UNCHANGED <<serverVars, wireVars, seed, tested, result, ended, steps, video>>

\* The scene is set up again, which may raise (Kill), and the policy told to reset.
SetUp(e) ==
  /\ pc[e] = "setup" /\ conn[e] = "open"
  /\ scene' = [scene EXCEPT ![e] = seed[e]]
  /\ inbox' = [inbox EXCEPT ![e] = [kind |-> "reset", seed |-> instruction[e]]]
  /\ pc' = [pc EXCEPT ![e] = "reset"]
  /\ UNCHANGED <<serverVars, conn, outbox, demo, instruction, countVars, steps, video>>

\* install_on_env: the wrapped rendering records every action_render_stride-th
\* picture of an action.
StartRecording(e) == video' = [video EXCEPT ![e] = tested[e].num + 1]

\* reset was answered: the recorder is installed and the episode begins.
ResetDone(e) ==
  /\ pc[e] = "reset" /\ outbox[e] # Nothing /\ outbox[e].ok
  /\ outbox' = [outbox EXCEPT ![e] = Nothing]
  /\ pc' = [pc EXCEPT ![e] = "step"]
  /\ steps' = [steps EXCEPT ![e] = 0]
  /\ StartRecording(e)
  /\ UNCHANGED <<serverVars, conn, inbox, progress>>

\* One step asks the policy.  A frame is recorded before; a frame that cannot be
\* exported only disables the recorder.
AskPolicy(e) ==
  /\ pc[e] = "step" /\ steps[e] < Limit[e] /\ conn[e] = "open"
  /\ inbox' = [inbox EXCEPT ![e] = [kind |-> "infer", obs |-> Observation(e)]]
  /\ pc' = [pc EXCEPT ![e] = "infer"]
  /\ UNCHANGED <<serverVars, conn, outbox, progress, steps, video>>

\* The action is taken; the environment says whether the task is solved.
TakeAction(e) ==
  /\ pc[e] = "infer" /\ outbox[e] # Nothing /\ outbox[e].ok
  /\ outbox' = [outbox EXCEPT ![e] = Nothing]
  /\ steps' = [steps EXCEPT ![e] = @ + 1]
  /\ \E solved \in BOOLEAN : pc' = [pc EXCEPT ![e] = IF solved THEN "solved" ELSE "step"]
  /\ UNCHANGED <<serverVars, conn, inbox, progress, video>>

\* Variant with a defect: the recorder stays on the environment.
StopRecordingNot(e) == UNCHANGED video

\* close: the hook is taken off the environment and ffmpeg ends.
StopRecording(e) == video' = [video EXCEPT ![e] = None]

\* Variant with a defect: succ is not reset between episodes.
LeaveEpisodeOnceSolved(e) ==
  /\ pc[e] = "solved" \/ (pc[e] = "step" /\ steps[e] = Limit[e])
  /\ StopRecording(e)
  /\ tested' = [tested EXCEPT ![e].suc =
                  IF pc[e] = "solved" \/ (\E i \in DOMAIN ended[e] : ended[e][i].solved) THEN @ + 1 ELSE @]
  /\ ended' = [ended EXCEPT ![e] = Append(@, [seed |-> seed[e], solved |-> pc[e] = "solved"])]
  /\ pc' = [pc EXCEPT ![e] = "closing"]
  /\ UNCHANGED <<serverVars, wireVars, sceneVars, seed, started, result, steps>>

\* The episode is over, solved or at its limit: the recorder is closed (finally) and a
\* success counted.
LeaveEpisode(e) ==
  /\ pc[e] = "solved" \/ (pc[e] = "step" /\ steps[e] = Limit[e])
  /\ StopRecording(e)
  /\ tested' = [tested EXCEPT ![e].suc = IF pc[e] = "solved" THEN @ + 1 ELSE @]
  /\ ended' = [ended EXCEPT ![e] = Append(@, [seed |-> seed[e], solved |-> pc[e] = "solved"])]
  /\ pc' = [pc EXCEPT ![e] = "closing"]
  /\ UNCHANGED <<serverVars, wireVars, sceneVars, seed, started, result, steps>>

\* The environment and its viewer are closed, and only then the episode is counted.
CloseEnv(e) ==
  /\ pc[e] = "closing"
  /\ tested' = [tested EXCEPT ![e].num = @ + 1]
  /\ pc' = [pc EXCEPT ![e] = "saving"]
  /\ UNCHANGED <<serverVars, wireVars, sceneVars, seed, started, result, ended, steps, video>>

\* _write_json opens res.json for writing: what it held is gone.
OpenResults(e) ==
  /\ pc[e] = "saving"
  /\ result' = [result EXCEPT ![e] = Torn]
  /\ pc' = [pc EXCEPT ![e] = "writing"]
  /\ UNCHANGED <<serverVars, wireVars, sceneVars, seed, started, tested, ended, steps, video>>

\* res.json is written to its end and closed.
WriteResults(e) ==
  /\ pc[e] = "writing"
  /\ result' = [result EXCEPT ![e] = Metrics(tested[e].num, tested[e].suc, seed[e])]
  /\ pc' = [pc EXCEPT ![e] = "report"]
  /\ UNCHANGED <<serverVars, wireVars, sceneVars, seed, started, tested, ended, steps, video>>

\* _result.txt, which has the same content, is written; the next seed is due.
NextSeed(e) ==
  /\ pc[e] = "report"
  /\ seed' = [seed EXCEPT ![e] = @ + 1]
  /\ pc' = [pc EXCEPT ![e] = "seed"]
  /\ UNCHANGED <<serverVars, wireVars, sceneVars, started, tested, result, ended, steps, video>>

\* The process ends, and with it its environment and its connection.
Die(e) ==
  /\ pc' = [pc EXCEPT ![e] = "dead"]
  /\ conn' = [conn EXCEPT ![e] = "closed"]
  /\ outbox' = [outbox EXCEPT ![e] = Nothing]
  /\ video' = [video EXCEPT ![e] = None]
  /\ UNCHANGED <<serverVars, inbox, progress, steps>>

\* A traceback from the server or a closed connection is an exception nobody
\* catches.
PolicyLost(e) ==
  /\ \/ pc[e] \in {"reset", "infer"} /\ outbox[e] # Nothing /\ ~outbox[e].ok
     \/ pc[e] \in {"reset", "infer"} /\ outbox[e] = Nothing /\ conn[e] = "closed"
     \/ pc[e] = "step" /\ steps[e] < Limit[e] /\ conn[e] = "closed"
     \/ pc[e] = "setup" /\ conn[e] = "closed"
  /\ Die(e)

\* The process is killed, or something it calls raises: the simulator in a set-up, an action
\* or as it is closed, ffmpeg, the file system.  This may happen between any two steps.
Kill(e) == pc[e] \notin {"done", "dead"} /\ Die(e)

Evaluate(e) ==
  \/ Connect(e) \/ Finish(e) \/ SkipSeed(e) \/ StartEpisode(e) \/ SetUp(e) \/ ResetDone(e)
  \/ AskPolicy(e) \/ TakeAction(e) \/ LeaveEpisode(e) \/ CloseEnv(e) \/ OpenResults(e)
  \/ WriteResults(e) \/ NextSeed(e) \/ PolicyLost(e)

Stopped == \A e \in Evaluators : pc[e] \in {"done", "dead"} /\ inbox[e] = Nothing
Done == Stopped /\ UNCHANGED vars

Next ==
  \/ \E e \in Evaluators : Evaluate(e) \/ Kill(e) \/ Serve(e) \/ ServeFails(e)
  \/ Crash \/ Restart \/ Done

\* The evaluators and the server's handlers run when they can, and a server that
\* has died is started again; nothing says that calls raise or processes die.
Fairness ==
  /\ \A e \in Evaluators : WF_vars(Evaluate(e)) /\ WF_vars(Serve(e) \/ ServeFails(e))
  /\ WF_vars(Restart)

Spec == Init /\ [][Next]_vars /\ Fairness

-----------------------------------------------------------------------------
Row == [from : Evaluators, episode : Nat, step : Nat]
Request == [kind : {"reset"}, seed : Nat] \cup [kind : {"infer"}, obs : Row]
Place == {"connect", "seed", "setup", "reset", "step", "infer", "solved",
          "closing", "saving", "writing", "report", "done", "dead"}
Content == {NoFile, Torn} \cup [kind : {"whole"}, total : Nat, success : Nat, latest : Nat]
Episode == [seed : Nat, solved : BOOLEAN]

\* Every variable keeps its type.
TypeOK ==
  /\ up \in BOOLEAN /\ crashes \in 0..MaxCrashes
  /\ policy \in [by : Evaluators \cup {None}, prompt : Nat, window : Seq(Row)]
  /\ conn \in [Evaluators -> {"none", "open", "closed"}]
  /\ inbox \in [Evaluators -> {Nothing} \cup Request]
  /\ outbox \in [Evaluators -> {Nothing} \cup [ok : BOOLEAN]]
  /\ pc \in [Evaluators -> Place]
  /\ seed \in [Evaluators -> Nat \ {0}] /\ started \in [Evaluators -> Nat]
  /\ tested \in [Evaluators -> [num : Nat, suc : Nat]]
  /\ scene \in [Evaluators -> Nat] /\ instruction \in [Evaluators -> Nat]
  /\ demo \in [Evaluators -> Outcomes]
  /\ steps \in [Evaluators -> Nat] /\ video \in [Evaluators -> Nat]
  /\ result \in [Evaluators -> Content]
  /\ ended \in [Evaluators -> Seq(Episode)]

Rows(e) == {i \in DOMAIN policy.window : policy.window[i].from = e}

\* Between the resets of other evaluators, the policy has of the evaluator that
\* reset it last exactly the observations of its present episode from the first
\* on; what it has of another is in order and of one episode.  This holds though
\* all connections share the policy, evaluators die with a request under way and
\* the server restarts.
EpisodeSeenWhole ==
  LET w == policy.window
  IN  \A e \in Evaluators : \A i \in Rows(e) :
        /\ policy.by = e =>
             \A k \in 0..w[i].step - 1 : \E j \in Rows(e) : j < i /\ w[j].step = k
        /\ policy.by = e /\ pc[e] \in {"step", "infer"} => w[i].episode = started[e]
        /\ \A j \in Rows(e) : i < j => w[i].step < w[j].step /\ w[i].episode = w[j].episode

\* res.json is a true account of the first n episodes that came to their end.
Solved(e, n) == {i \in 1..n : ended[e][i].solved}
Accounts(e, n) ==
  result[e] = IF n = 0 THEN NoFile ELSE Metrics(n, Cardinality(Solved(e, n)), ended[e][n].seed)

\* Whenever the evaluator stops, be it killed or by an exception between counting a success,
\* closing the environment, counting the episode and writing: who reads res.json finds a true
\* account of all episodes that came to their end, or of all but the last one, or a torn file
\* (and with it none of the earlier ones), the latter only of an evaluator that is writing or
\* died so.  No seed counts twice, skipped ones not at all, and an evaluation that is done
\* has accounted for test_num episodes.
ResultsAreComplete ==
  \A e \in Evaluators :
    LET n == Len(ended[e])
    IN  /\ \A i, j \in 1..n : i < j => ended[e][i].seed < ended[e][j].seed
        /\ IF result[e] = Torn
             THEN pc[e] \in {"writing", "dead"}
             ELSE \/ Accounts(e, n)
                  \/ n > 0 /\ Accounts(e, n - 1) /\ pc[e] \in {"closing", "saving", "dead"}
        /\ pc[e] = "seed" => n = started[e]
        /\ pc[e] = "done" => Accounts(e, TestNum[e])

\* The environment holds the scene of the episode's seed, and the instruction describes it,
\* though it is made from a demonstration in a scene that was closed since.  There is one
\* exception: if the demonstration's set-up raised and the second one worked, the
\* instruction is of the attributes an earlier seed left on the environment.  The policy
\* the evaluator has reset last has the evaluator's instruction.
InstructionIsOfScene ==
  \A e \in Evaluators :
    /\ InEpisode(e) => /\ scene[e] = seed[e]
                       /\ IF demo[e] = "setup fails"
                            THEN Fallback /\ instruction[e] \in 1 .. seed[e] - 1
                            ELSE instruction[e] = scene[e]
    /\ pc[e] \in {"step", "infer"} /\ policy.by = e => policy.prompt = instruction[e]

\* A recorder is on the environment only in an episode, and records the n-th one that
\* comes to its end in the n-th file: the file's number is taken from a counter that goes
\* on only after the environment is closed, and seeds are skipped in between.
VideoIsOfEpisode ==
  \A e \in Evaluators :
    video[e] = IF pc[e] \in {"step", "infer", "solved"} THEN Len(ended[e]) + 1 ELSE None

\* Every evaluation ends, with its episodes or with an exception: skipped seeds
\* do not go on for ever and no request is left without a response.
EvaluationEnds == \A e \in Evaluators : <>(pc[e] \in {"done", "dead"})

\* What e can do next, or its handler for it, or the server for both.
CanGoOn(e) ==
  \/ ~up                                                                 \* it is started again
  \/ inbox[e] # Nothing /\ up
  \/ pc[e] = "connect" /\ up
  \/ pc[e] \in {"setup", "step"} /\ conn[e] \in {"open", "closed"}
  \/ pc[e] \in {"reset", "infer"} /\ (outbox[e] # Nothing \/ conn[e] = "closed")
  \/ pc[e] \in {"seed", "solved", "closing", "saving", "writing", "report"}

\* No evaluator is left waiting: a request without its response is with a handler that
\* runs, or the connection is known to be closed; also when the server has crashed with
\* the request and come back, or the policy has raised.
NobodyLeftWaiting ==
  \A e \in Evaluators :
    /\ pc[e] \in {"done", "dead"} \/ CanGoOn(e)
    /\ started[e] <= TestNum[e] /\ (pc[e] = "step" => steps[e] <= Limit[e])

\* What is left of an evaluation: episodes and chosen seeds, and within the same the
\* requests of the episode, each of which is asked, served and acted on, and what ends it.
EpisodesLeft(e) == TestNum[e] - started[e]
SeedsLeft(e) == IF seed[e] <= Seeds[e] THEN Seeds[e] + 1 - seed[e] ELSE 0
RequestsLeft(e) ==
  (CASE pc[e] = "setup" -> 10 + 3 * Limit[e]
     [] pc[e] = "reset" -> 8 + 3 * Limit[e]
     [] pc[e] = "step" -> 7 + 3 * (Limit[e] - steps[e])
     [] pc[e] = "infer" -> 5 + 3 * (Limit[e] - steps[e])
     [] pc[e] = "solved" -> 6
     [] pc[e] = "closing" -> 5
     [] pc[e] = "saving" -> 4
     [] pc[e] = "writing" -> 3
     [] pc[e] \in {"connect", "report"} -> 2
     [] pc[e] = "seed" -> 1
     [] OTHER -> 0)
   + (IF inbox[e] = Nothing THEN 0 ELSE 1)

LessLeft(e) ==
  /\ EpisodesLeft(e)' <= EpisodesLeft(e) /\ SeedsLeft(e)' <= SeedsLeft(e)
  /\ \/ EpisodesLeft(e)' < EpisodesLeft(e) \/ SeedsLeft(e)' < SeedsLeft(e)
     \/ RequestsLeft(e)' < RequestsLeft(e)

\* Every step but a crash or a restart of the server brings some evaluation nearer to its
\* end, and none sets another one back: skipped seeds, a shared policy, crashes and deaths
\* delay an evaluation only so often.
EvaluationsProceed ==
  [][/\ \A e \in Evaluators :
          LessLeft(e) \/ UNCHANGED <<EpisodesLeft(e), SeedsLeft(e), RequestsLeft(e)>>
     /\ up' = up => \E e \in Evaluators : LessLeft(e)]_vars
=============================================================================
