# A TLA+ model of p2p-rdt

p2p-rdt trains a policy that maps video (and text) to actions, and serves it: to
games over a Unix socket, and to the RoboTwin simulator over a websocket. This
directory holds TLA+ modules of the parts of the program in which order, concurrency, failure or index
arithmetic decide whether it is right, configurations that model-check them with
TLC, and proofs of the most important properties that the TLA+ proof system (TLAPS)
checks. `PROJECT.json` maps every definition to the lines it stands for and lists the runs,
the theorems, the hazards and, for each property, a plausible bug that it catches.

    tlc -config MCZmqQueue.cfg MCZmqQueue     # model-check one configuration
    tlapm ZmqQueueProofs.tla                  # check one module's proofs

## Inventory

| part | code | state | operations | what is hard | correct when |
|---|---|---|---|---|---|
| flow-controlled queue | `elefant_rust/src/zmq_queue.rs`, `zmq_queue_py.rs`, `elefant/data/zmq_queue.py` | per-client credit, turn, messages and acks under way | start-up, `put`, `get` | acks late, clients dying and coming back, a put in the middle of draining acks | every item is received once, in order, by one client; credit is exact; nobody starves |
| video data pipeline | `elefant/data/video_proto_dataset.py`, `shuffle_thread.rs` | queues, shuffle buffer, epoch counters of five kinds of processes | queue protos, preprocess, shuffle, iterate | processes an epoch apart, bounded queues, deaths | epochs do not mix and are complete; no chunk is lost or doubled; no deadlock |
| chunking and labels | `video_proto_dataset.py`, `action_label_video_proto_dataset.py` | the position in a video | cut a chunk, annotate it | boundaries: offset, tail, missing annotations | chunks tile the video, labels are those of the next frame |
| action mapping | `elefant/data/action_mapping.py` | - (tables) | tokenise, invert | four tables of mouse bins, rounding, more keys than tokens | what is decoded reads back as the same tokens |
| LeRobot latent dataset | `elefant/data/lerobot_latent_dataset.py` | index over repositories and clips | find a clip, slice, pad, mask, rebase | short and damaged clips, strides, masks | labels are anchored where the slice begins; exactly what was recorded is supervised |
| attention mask | `policy_model/policy_transformer.py` | - (pure) | the mask of a layer | index arithmetic; leaks through several layers | a prediction is a function of the past only |
| stage-3 step, RDT head, flow matching | `policy_model/stage3_finetune.py`, `rdt/*.py`, `policy_model/flow_matching.py` | the batch, the sample being denoised | train, validate, predict, denoise | what the head is shown in training and is not when it predicts | nothing is predicted from itself; each denoising step is one the head was trained for |
| checkpointing and restart | `lightning/async_checkpoint.py`, `auto_restart_train.sh`, `scripts/train_*.sh`, `stage3_finetune.py` | files, the writer's queue, the training step | train, save, write, die, restart | kills in the middle of a file, lost exceptions, loads that fail | training goes back to a whole checkpoint and ends |
| Unix-socket inference server | `inference/unix_socket_server.py`, `policy_model/inference.py` | connections, a thread and two queues for each, the shared window, the shutdown | accept, read, compute, answer, shut down | an event loop beside threads, clients that stop reading or go, shutdown meanwhile | answers in order, no frame stuck, a signal ends it |
| RoboTwin sequence state | `evaluation/robotwin/server.py`, `common.py` | the window of frames, poses and relative actions | reset, step | an anchor that moves, warm starts, failures in mid-step | what is stored stands for what was done |
| RoboTwin transport and episodes | `websocket_policy_server.py`, `websocket_client_policy.py`, `eval_policy.py` | connections over one shared policy; seed, scene, instruction, recorder, results of an evaluator | connect, infer, reset; start, skip, end an episode | two evaluators in turns, seeds that fail at any stage, a server that dies, a death between counting and writing | every episode is seen from its start, counted once, described and recorded as itself |
| rolling KV cache | `policy_model/kv_cache.py`, `transformer.py` | ring of keys and values | update, reset | index arithmetic | unreachable: `online_forward` raises before it (`policy_transformer.py:364-371`) |
| GPU choice, networks, tokenizers, decoding, tools | see `PROJECT.json` | weights | tensors, subprocesses | numerics | out of TLC's reach |

How they interact: the launcher starts training, training iterates the dataset workers; those
are the clients of one queue whose server is the shuffle thread, which in turn is the client
of one queue per preprocess worker, each of them the client of a queue of the proto process.
A preprocess worker decodes, cuts and labels one video at a time (`Chunking`), its labels tokenised
by `ActionMapping`. The robot policy is trained on `LatentSlice`'s examples instead. The batches
go through a transformer whose mask is `AttentionMask`, and its outputs through the RDT head, trained and
sampled by `FlowMatching`: `Stage3Step` composes the three. `server.py` asks that model for the
actions of a window, the state `RobotTwinWindow` is about, on behalf of the evaluators of `RobotTwinEval`;
games ask through `InferenceServer`.

## Modules

| module | models | properties |
|---|---|---|
| `FanOutQueue` | what users of the queue rely on: a FIFO per client, Capacity, forced markers, loss with a client | it is the property `ImplementsFanOut` |
| `ZmqQueue` | server and clients of the queue with the network between them | `CreditConserved`, `FailureHasCause`, `ImplementsFanOut`, `PutReturns`, `NoClientStarved`; `PutNotStuck`, `PutProceeds` (proved only) |
| `DataPipeline` | five kinds of processes on queues taken at the level of `FanOutQueue` | `EpochsApart`, `ChunkConservation`, `NoCycleOfWaits`, `EpochsEnd` |
| `Chunking` | one video cut into chunks and labelled | `Tiling`, `LabelledWithNextFrame`, `AssertionHolds` (proved only) |
| `ActionMapping` | keys, buttons and moves to tokens and back | `TokensReadBack`, `LabelsFaithful` |
| `LatentSlice` | one clip made an example of the robot data set | `LabelsAnchored`, `SupervisionIsExact`, `WholeClipsNeverFail`, stated in `Stage3Step` |
| `FlowMatching` | the noise schedule and its Euler step | `OnTrainedPath`, stated in `Stage3Step` |
| `AttentionMask` | the mask, and what positions depend on layer after layer | `PredictionIsCausal`, `OutputSeesHistory`; `OutputsAreReadOnly`, `ReceptiveField` (proved only) |
| `Stage3Step` | the three above composed: training, validation, prediction | `LastActionUnseen`, `NoLabelLeak` and those named above |
| `CheckpointRestart` | launcher, training process and writer thread, disk | `FileHoldsItsStep`, `BaseIsLoadable`, `FinishedFilesStay`, `FinalIsOnDisk`, `TrainingEnds`; `NothingTrainedAgain`, `TrainingProceeds` (proved only) |
| `InferenceServer` | event loop, handlers, threads, clients and shutdown of the inference server | `RemovalFailsOnlyWhenLost`, `AnsweredRowsMatch`, `ShutdownProceeds`, `ImplementsAnswerStream`, `NoFrameStuck`, `ShutdownEnds`; `AnswersInOrder`, `ShutdownNotStuck` (proved only) |
| `AnswerStream` | what a client of that server may rely on: answers in order, each at most once, losses only from the oldest on or in a shutdown | it is the property `ImplementsAnswerStream` |
| `RobotTwinWindow` | the sliding window of the policy server | `WindowIsRecent`, `HistoryReplays`, `WarmStartFollows`, `SmoothsFromLast` |
| `RobotTwinEval` | evaluators over one policy server | `EpisodeSeenWhole`, `ResultsAreComplete`, `InstructionIsOfScene`, `VideoIsOfEpisode`, `EvaluationEnds`; `NobodyLeftWaiting`, `EvaluationsProceed` (proved only) |

`MC*` modules and their `.cfg` files are the instances for TLC, `*Proofs` modules hold theorems.

Correspondence of state and actions:

- **ZmqQueue.** `serverPc` is the place in `ZmqServer::new` or `put`: collecting ready messages,
  draining acks without blocking, sending, or blocked in a poll. `clientQueueSizes` and
  `lastSentIdx` are the fields of those names; `down` and `acks` are the ZeroMQ sockets' content in the two
  directions. A poll with DONTWAIT sees any part of the acks under way, so it is an action that may
  end at any time. A client that dies takes its channel with it; one started again says
  `ready` to a server that does not expect it.
- **DataPipeline.** One action per loop iteration that changes state: `QueueProto`,
  `TryNextWorker`, `QueueEndOfEpoch` (proto process); `GetProto`, `PutPart`, `CrashWorker` (preprocess
  worker); `PollNothing`, `PollChunk`, `PollMarker`, `AddItem`, `DrainBuffer`, `FinishEpoch` (shuffle thread);
  `GetExample`, `GetMarker`, `NextIteration` (dataset workers and the loader over them). A chunk is
  its video, its part and the epoch it was queued for; the epoch is not transmitted by the program and is in
  the model only for the properties to look at.
- **Chunking.** `ChooseStart`, `MainChunk` and `FinalTail` are the three parts of
  `_preprocess_all_frames`; `Annotate` is `annotate_frames` with its padding and the assertion.
- **AttentionMask.** `Mask` is the closure `_mask`; `ApplyLayer` composes it with what earlier
  layers have let through. `reads` is history: the program has tensors there.
- **CheckpointRestart.** `Scan`, `LaunchInit`, `LaunchResume`, `Restart` are the shell loop; `TrainBatch` is a
  batch with the callbacks around it (`on_train_batch_start`, ModelCheckpoint's `save_checkpoint`); `OpenFile` and `WriteFile`
  are the two halves of `_finalize_checkpoint`. Weights are the number of steps they have been trained for.
- **RobotTwinWindow.** `StepFirst`, `StepLegacy` and `StepPredicted` are the three ways through `step`,
  `StepFails` the one in which the model raises. A pose is an element of a group, an action the
  relative pose that its normalised vector stands for.
- **ActionMapping.** The tables `Edges`, `Centers` and `ConservativeCenters` are the program's, in tenths of a pixel where
  they have halves. `RecordAction` and `Sample` are the two sources of tokens (a recording, the policy), `Decode` is
  `tensor_to_action` under one of its sampling approaches and `Reencode` `action_to_tensor` on what came out.
- **LatentSlice.** `Labels`, `RawItem`, `Fixed` and `Rebased` are the stages of `__getitem__` in its order; `GetItemRaises` collects
  every way in which one of them raises. An index is the pair of repository and clip it counts to. A configuration carries the repositories, so that an instance can have sound and damaged ones.
- **Stage3Step.** `TakeExample` is a batch of one; `Forward` is one layer of the transformer; `TrainStep`, `ValidationStep` and
  `BeginDenoising` show the head its conditions. `out.inputs` is history: the pairs of kind and slot the head's
  result depends on, which is one set for all slots because no mask restricts the head's self-attention. A sample is kept as the weights
  of clean actions, noise and the initial sample in it.
- **InferenceServer.** `Connect` to `WriterClosed` are a connection's life, coroutine by coroutine: `reader` is the task that reads
  frames, `thread` the function given to `asyncio.to_thread`, `gen` the generator between it and `handler`. `sock`, `inq` and `outq` are
  what is on its way, `unread` the replies a client has not taken. `frames` and `actions` are the two arrays of `FullInferenceState`,
  which all connections share. A call of `get_action` that raises is `Raise` once the frame has its row, and `RaisePushing` before: with the
  window as it was, or with `frames` rolled (by `torch.roll`, which allocates, and so may fail), and `actions` too or not. `misaligned` is history: the
  latter has happened. The two tasks that can shut the server down (signal, terminal) are one.
- **RobotTwinEval.** `SkipSeed` to `NextSeed` are the body of the loop over seeds, and `Kill` may fall between any two of them; `LeaveEpisode` closes the recorder
  and counts a success, `CloseEnv` closes the environment and counts the episode, `OpenResults` and `WriteResults` are the two halves of `_write_json`.
  How a demonstration goes is chosen each time (`Demonstrations`), and whether the second set-up of the same seed raises is not tied to it.
  `Serve`, `ServeFails` (a reset may raise as well as a step), `Crash` and `Restart` are the server. `policy.window`
  is what the policy was given since its last reset; `ended` is history, the episodes that came to their end.

## Runs

| run | instance | shows |
|---|---|---|
| `zmq_queue` | 2 clients and a third identity nobody expects, one place per client and one beyond for markers, one payload, deaths of one or both | credit, causes of failure, the abstract queue, put returns, no starvation |
| `data_pipeline` | 2 protos of at most one chunk, 2 preprocess workers of which one may die, 2 dataset workers, queues of one place, no buffer or one of one place, 2 epochs | barrier, completeness, conservation; every epoch ends if nobody dies |
| `chunking` | T = 3, videos of 0, 1, 2, 4 and 7 frames, every sequence of annotations, every option | tiling, offset, labels |
| `chunking_system_only` | as above | a disagreement, below |
| `action_mapping` | every move of up to 520 pixels, up to 5 of 6 keys for 4 tokens, 3 buttons for 2 tokens, every choice of sampled tokens | tables and rounding agree |
| `stage3_step` | 3 slots of 4 tokens, one sink, 2 layers with any history lengths; clips of 1 to 5 frames, sound and damaged, strides 1 to 3, each view mode, each kind of tokenizer; 4 denoising steps | causality, what is supervised and how it is anchored, what may raise, the sampler's path |
| `stage3_label_leak` | as above, with the conditions the shipped configuration has (no state, images) | a disagreement, below |
| `checkpoint_restart` | 7 steps, a checkpoint every 2, 3 crashes, a failing write, 2 failing loads | files, restarts, that training ends |
| `freeze_after_resume` | 5 steps | a disagreement, below |
| `robotwin_window` | window of 3, episodes of up to 6 steps, poses from the permutations of three things | the window, rebasing, warm start, smoothing |
| `robotwin_eval` | 2 evaluators, one of 2 episodes of 1 step with every outcome of the first 2 demonstrations, one of 1 episode of 2 steps; one crash of the server, either evaluator killed at any point | histories, results, instructions, recordings, that evaluations end |
| `inference_server` | 2 connections of 2 frames and 1 frame, bad frames, broken pipes, calls that raise at any point, one executor thread, one reply of room, window of 2 | removal, the shared window, the abstract answer stream, no frame stuck, that shutdown ends and that each of its steps uses something up |

Why the bounds are enough. Two clients make a turn that matters, and one place with one beyond it a queue that is empty, full
or past its limit; two deaths give a dead and a restarted client beside a live one, and a server whose
clients are all gone, which is the one case in which put ends with the error that it is full. Two preprocess workers let one be
an epoch ahead, and queues of one place are the ones most easily full.
With chunks of three frames, 0, 1 and 2 frames are too few or a tail only, 4 is T + 1, and 7 is two whole chunks and the
look-ahead frame, or an offset with a tail. The last edges of the mouse tables are at 500 pixels and less, so 520 reaches into both open bins;
six keys for four tokens let five be pressed at once. Three steps and two layers allow a leak over an intermediate step (the theorems
are for any number of either). Clips of one to five frames are shorter than three slots, as long, and longer by more than one choice of slice; four denoising
steps have a first, a last and two between. Seven steps end between
two checkpoints, and three crashes allow a run that goes back twice and comes to
an older file. Six steps through a window of three slide it as
often as it is long, so every slot has been rebased from the first index to the last. The permutations of three things are the smallest
group in which the order of composition matters. Two demonstrations of every outcome before sound ones let an episode follow a skip, a failed set-up or another episode,
and the second evaluator, whose episode has two steps, may reset the policy between any two requests or be reset between its own. Three frames of two connections roll a window of two, and
with one executor thread one connection waits for the other's.

CHECK_DEADLOCK is FALSE where the system stops: the last epoch, the end of a video,
training that has ended or failed on an example, and a queue server that has failed. It is on for `robotwin_window` and `action_mapping`, where
something is always possible, and for `robotwin_eval` and `inference_server`, whose end is an action of its own (`Done`).

### Disagreements between code and words

- `SystemOnlyDropped`: `drop_chunks_with_only_system_actions` keeps a padded tail whose every valid frame has a system action,
  because `annotate_frames` tests the whole mask, padding included.
- `NoLabelLeak`: the docstring of `_img_policy_causal_mask` says that action tokens are causal and prior actions masked out,
  so that the model learns causally. The mask attends to prior actions, and the head looks at the outputs of all supervised steps at once:
  in training a label reaches its own prediction through the steps after it. Only the last one does not (`LastActionUnseen`).
- `FrozenForFirstSteps`: a run that resumes before `freeze_transformer_layers_for_steps` has passed does not freeze the layers again,
  against the description of the option.

Observed while modelling, without a run of its own:

- The comment at `video_proto_dataset.py:201` says at least T + 1 frames are checked for; the code gives up only on fewer than 2 and pads.
- When standard input of the inference server ends, `readline` returns at once, without giving way to the event loop, for ever
  (`inference.py:1027`): no frame is read and no signal handled from then on. `NoFrameStuck` and `ShutdownEnds` hold up to that moment, which
  the model lets come at any time (`StdinEnds`).
- `InferenceServer` cannot be constructed at this commit: its warm-up takes the path through the KV cache, which raises. The module
  models the server as it is written after the warm-up.
- A call of `get_action` that raises when the window is full has already rolled it, and leaves in its last row the action of the frame rolled out; `reset` does nothing.
  If it raises between the two rolls (`inference.py:410` and `411`), frames and actions are out of step from then on, for all clients.
- `_write_json` truncates `res.json` in place (`eval_policy.py:608-611`): an evaluator that dies while it writes loses the account of all its earlier episodes.
  One that dies after the end of an episode and before the write (822 to 847; closing the environment or its viewer may raise) leaves that episode out.
- If the set-up of a demonstration raises (`eval_policy.py:702`) and the second one of the same seed works (737), a task with metadata to fall back on has its instruction made from
  the objects of an earlier seed. `InstructionIsOfScene` names this exception.
- The thread of a client that has gone waits in its queue until shutdown, and keeps one of the executor's threads.
- Text dropout of the latent dataset is drawn twice, so its probability is 1 - (1 - p)^2. With image_frame_stride above 1 rebasing indexes
  other columns than it means to (excluded by `LatentAssumption`; the shipped stride is 1). A frame is labelled with the actions of the stride before it.
- `make_empty_action` fills with zeros, and bin 0 is the far left, not "no move"; only padding and the empty inference window contain it.

### Hazards that are only partly caught

Where the code does what a hazard warns of, and nothing in it promises otherwise, a property cannot deny it. It then says what holds in spite of it, and
the hazard's note in `PROJECT.json` says what is left:

- `CreditConserved` is exact for live clients and a bound for those that have gone, whose credit the code never takes back.
- `EpochsEnd` is about behaviours in which no process dies and no dataset worker raises.
- `FinalIsOnDisk` excuses runs with a failed write, `FinishedFilesStay` those with a failed load.
- `WindowIsRecent` and `HistoryReplays` tolerate the slot that a failed prediction leaves.
- `EpisodeSeenWhole` looks at an evaluator's own observations: those of others do get between them.
- `AnsweredRowsMatch` is about the rows of the window, whichever client they are of: that a client finds those of an earlier one is not denied. It ends with the first
  call that raises between the two rolls.
- `ShutdownEnds` and `ShutdownProceeds` excuse the listener that spins at the end of standard input.

## Fairness

- `ZmqQueue`: weak fairness for each step of a put in progress and each client's `get`, as the server thread and the clients run
  their loops; strong fairness for taking in an ack, since a drain may end just before an ack arrives but reads every ack that is there.
  No fairness for starting, dying, timing out, or calling put; the liveness properties say under which of those they hold (no death, ordinary puts going on).
- `DataPipeline`: weak fairness for each process's loop and for the loader's next iteration. None for deaths.
  The shuffle thread polls its queues round robin (`PollNothing` moves on), so weak fairness of the thread is enough for every queue.
- `CheckpointRestart`: weak fairness for launcher, training loop and writer thread. Failures need not happen and are
  finitely many (with failures for ever no training ends).
- `InferenceServer`: weak fairness for the coroutines of a connection together, for its thread, and for the shutdown, as an event loop runs what is ready and
  the operating system its threads; and a client with replies before it reads one or goes, sooner or later. None for sending, leaving, raising or the signal.
- `RobotTwinEval`: weak fairness for each evaluator's loop and each handler, and for starting the server again, which evaluators wait for without end. None for
  crashes, deaths and failures.
- `Chunking`, `ActionMapping`, `AttentionMask`, `Stage3Step`, `RobotTwinWindow` state safety only.

## Proofs

All theorems are for every value of the constants that their module's named assumptions allow: TLC checks the
invariant on a small instance, the theorem states it for any number of clients, workers, videos, connections, slots or layers.
In each module the invariant that is inductive is stronger than what is wanted; the table says what it has to know besides.

| theorem | says | argument |
|---|---|---|
| `ZmqQueueProofs!TypeCorrect`, `CreditTheorem` | types; the credit is exact | `IInv` adds that only markers are forced and that a started server's clients have connected: without the latter a put could count a message to a client the network drops it for |
| `ZmqQueueProofs!FailuresHaveCauses` | a server fails only for a reason the code names | `FInv`: a client is ready once before it is connected, a server that blocks has no client with room, and an error is recorded only as the server ends |
| `ZmqQueueProofs!QueueImplementsFanOut` | the queue implements `FanOutQueue` | each step maps to a step or a stutter; that an ordinary put respects Capacity needs `CreditConserved`: the size kept is at least what is in the channel |
| `ZmqQueueProofs!PutNeverStuck`, `PutTheorem` | a put and its clients never wait for each other; each step of a put brings it nearer to its return | a server that blocks has no client with room (`FInv`), so by the exact credit each live client's queue or channel holds something (`BlockedIsServed`). The scan from the turn reaches every client (`ScanReachesAll`) and the first with room is the least element of a finite set (`LeastOf`). `PutStep` weighs the steps: sizes only sink while a put lasts, and an ack that is counted lowers one |
| `DataPipelineProofs!TypeCorrect`, `EpochsApartTheorem` | epochs do not mix and are complete | `Epochal` counts markers: behind each preprocess worker (`Behind`) its three queues, read in a row from the shuffle thread's end, hold entries of the epochs that follow the markers read so far (`Passed`), and as long as the worker lives the count ends at the epoch the proto process is in; what the shuffle thread holds is of its own epoch. The lemmas on `Marks` and `Tagged` say what one entry more or less does to the count |
| `DataPipelineProofs!ConservationTheorem` | no chunk is lost, doubled or in two places | a video of an epoch is queued once and its parts are made once (`MadeOnce`), so what a preprocess worker puts is new; from there on each step moves one chunk between two of the five stages (`Divided`) |
| `DataPipelineProofs!NoCycleTheorem` | the processes never all wait for each other before everything is delivered | `Waits`: the shuffle thread that holds an example has one to give for it, it waits for some marker or is finishing, and the DataLoader keeps its workers within an epoch (`Begun`). If nobody can go on, some dataset worker waits at an empty queue, so the shuffle thread is not waiting for room but polls; a worker it polls has nothing, so every epoch has been queued and, counting markers with `Epochal`, has passed everywhere; by `EpochComplete` nothing is then upstream, and by `ChunkConservation` all is delivered |
| `LabelProofs!TypeCorrect`, `ChunksTile`, `NeverFails` | no frame twice, none left out, the first chunk whole; the assertion holds | `IInv`: each chunk is a run of frames below `startFrame`, chunks are in order, and everything below `startFrame` is covered. `Tiling` alone does not say where the next chunk begins |
| `LabelProofs!TokensReadBackTheorem`, `LabelsFaithfulTheorem` | tokens decoded and encoded again mean the same; a label is read as no more than was done | a move has the bin between whose edges it lies and no other (`BinIsInBin`, `BinIsUnique`); case by case the tables' entries lie in their bins, and what is drawn does because edges are whole on one side of zero and a tenth off on the other (`EdgesShape`). A key's place is its rank, so every key up to the last place has one (`SortedHasAll`) |
| `LabelProofs!LabelsFollow` | a frame is labelled with the action after it | from `IInv` and what `annotate_frames` does to a chunk that is well cut (`Labelled`) |
| `InferenceServerProofs!TypeCorrect`, `OrderTheorem` | types; frames and answers never overtake one another | `WayOK` orders all places on a connection's way by the frames in them, socket, `in_queue`, thread, `out_queue` and what has been answered: `AnswersInOrder` says nothing of frames not yet answered |
| `InferenceServerProofs!RemovalTheorem` | a handler fails to remove its writer only when its client is lost | `Handled` ties the handler's state to the table of writers and to the link |
| `InferenceServerProofs!RowsTheorem` | an answered frame's row holds its own action | under the property's condition at most one thread is at the window (`OneBusy`), a frame is pushed once (`Pushed`), and the one being worked on is in the last row (`LastIsHeld`). A push that fails after both rolls moves each row with its action (`FailedPush`); one that fails between them ends the property's premise. With two threads and two connections the rows do mix |
| `InferenceServerProofs!ServerImplementsStream` | the server implements `AnswerStream` | each step maps to a step or a stutter; what may still be answered is everything on the way up to the thread (`WayOK` gives its order), and that nothing is answered behind an end mark needs `Closed`: the thread's None is its last |
| `InferenceServerProofs!ShutdownNeverStuck`, `ShutdownTheorem` | in a shutdown nobody waits for somebody who waits; each of its steps uses something up | `Stages`: a transport is as far as its handler and the handler keeps its generator until it leaves the loop, so a shutdown that waits for a transport waits for a handler that can go on, or whose client has replies to read. Threads end of themselves once the loop does not run, and a task that finds no place in the executor waits for one of them |
| `RobotTwinEvalProofs!TypeCorrect`, `EpisodesSeenWhole`, `ResultsComplete`, `InstructionsFit`, `VideosFit` | what an evaluator counts, describes and records is its own episode; `res.json` is a true account wherever a death falls | the invariant is a conjunction for each evaluator (`Parts`): a request under way is the one its evaluator waits for (`Asked`), and rows of the shared window by it are of its episode, in order, complete when no other has reset meanwhile (`Seen`). A step of one evaluator leaves the parts of all others (`EvaluatorsApart`) |
| `RobotTwinEvalProofs!NobodyWaits`, `ProgressTheorem` | whatever the server does, no evaluator waits for an answer nobody will give; each step brings an evaluation nearer to its end | `Linked` ties a request to its connection and to the server that holds it: a crash closes the connection together with the request, and the evaluator finds it closed. Then `EvaluatorStep` weighs the steps of one evaluator in three counts, episodes, seeds and requests, compared in this order |
| `RobotTwinWindowProofs!TypeCorrect`, `WindowTheorem`, `ReplaysTheorem`, `WarmStartTheorem`, `SmoothingTheorem` | the window is the newest frames; what is stored stands for the targets answered; a warm start and smoothing go on from the last | from the group axioms: rebasing keeps the absolute target; the invariant ties the anchor to the pose of the oldest frame and the number of frames to the log, and knows that the older path neither smooths nor warm-starts |
| `CheckpointRestartProofs!TypeCorrect`, `FilesHoldTheirStep`, `BaseStaysLoadable`, `FinalWritten`, `FinishedStay` | what is on disk after any crash | `IInv` orders what is on its way: each checkpoint is newer than the run's base and than all before it, so opening one truncates neither the base nor, while no load has failed, any finished file; while no write has failed every path is finished or on its way |
| `CheckpointRestartProofs!NewestTheorem`, `ProgressTheorem` | an attempt goes on from the newest finished file, so nothing saved is trained again; each step leaves less to do | the first from `NothingAhead`. For the second, `ResumeHasFile`: the launcher has looked for a file before it resumes, so a resume that finds none has had a load fail (`FoundNothing`); each checkpoint is counted twice in the queue and once while it is written, less than the batch that made it (`WorkStep`) |
| `Stage3StepProofs!TypeCorrect`, `PredictionCausal`, `OutputsReadOnly`, `FieldBounded`, `HistorySeen` | the mask by itself (`AttentionMask`'s specification) leaks nothing through any number of layers and hides nothing it should show | `IInv` is about all positions, not outputs only: what an observation reads is causal, and nothing but an output reads an output; the layer lemma follows a path of two hops. That nothing is hidden needs that every position reads itself |
| `Stage3StepProofs!LastUnseen`, `StepsAreCausal`, `StepsSeeHistory` | the last action that counts is predicted unseen, in training, validation and prediction; the transformer keeps the above over all forward passes | the mask's invariant, kept through resets, and two facts about positions: a condition token is no real action and belongs to its slot (`ConditionPositions`, from a lemma on division), so what it depends on is earlier (`ActionsAreEarlier`) |
| `Stage3StepProofs!DenoisesOnPath` | each denoising step is asked at a mixture of its own timestep, and the last is clean | the invariant holds the mixture exactly (`DInv`); a timestep is found again because the schedule's entries differ (`ResolutionAssumption`) |
| `Stage3StepProofs!SupervisionTheorem`, `LabelsTheorem`, `WholeClips` | what is learnt from is what was recorded, in the right frame of reference; only clips with something missing raise | `LInv` says that an item is what `__getitem__` makes of its clip (`ExampleOf`). Lemmas then follow one slot through the stages: strides (`StridesFit`), labels (`LabelRow`), views (`RawOf`), slice and padding (`FixedOf`, `SlotOf`), rebasing (`RebasedOf`); that a rebased rotation put back is the recorded one is algebra in a group that need not commute (`Rebasing`) |

Assumptions worth knowing: evaluators and the value for none differ (`ConstantsAssumption` of `RobotTwinEval`); no two entries of the schedule
are equal in the model's fixed point (`ResolutionAssumption`); a clip's rows lie in the action table, poses have integer coordinates and rotations are a
group (`TableAssumption`, `RotationAssumption`); a data set that rebases has stride 1, as shipped (`LatentAssumption`). The proofs take no bound on
deaths, crashes, forced puts or connections: TLC's bounds are constants of the modules and the theorems hold for all of them.

Only model-checked:

- liveness (`PutReturns`, `NoClientStarved`, `EpochsEnd`, `TrainingEnds`, `EvaluationEnds`, `NoFrameStuck`, `ShutdownEnds`), which with
  ENABLED is out of the prover's reach. What can be said of it without fairness is proved for every instance: that nobody waits for somebody
  who waits, and that each step leaves less to do. These are `NoCycleTheorem` for `EpochsEnd`, `PutNeverStuck` and `PutTheorem` for `PutReturns`,
  `ProgressTheorem` of `CheckpointRestartProofs` for `TrainingEnds`, `NobodyWaits` and `ProgressTheorem` of `RobotTwinEvalProofs` for
  `EvaluationEnds`, `ShutdownNeverStuck` and `ShutdownTheorem` for `ShutdownEnds`. That a step which can be taken is taken, and hence the conclusion, is
  left to TLC; so are `NoClientStarved` and `NoFrameStuck`, where others may go on for ever.

`AssertionHolds`, `OutputsAreReadOnly`, `ReceptiveField`, `AnswersInOrder` (of which `ImplementsAnswerStream` says more), `ShutdownNotStuck`, `PutNotStuck`,
`PutProceeds`, `NobodyLeftWaiting`, `EvaluationsProceed`, `NothingTrainedAgain`, `TrainingProceeds` and the types of the modules above are proved and
not among the runs; each held in TLC on the instance of its module's run before it was proved. Each inductive
invariant also holds in TLC, as an invariant of a module that extends the run's and the proofs', with the run's constants. Induction over data by the library's theorems is out
of reach (they take an operator as a parameter), but a least element can be had from their fact that finite sets are well-founded by
inclusion (`FirstOf`). The models have no recursive operators.

## Not modelled

- ZeroMQ itself (external): ordered and lossless between live peers, silent loss to a peer that is gone, which is what `zmq_queue.rs` relies on.
- The order in which the pipeline's processes start (four-minute timeouts), and `shutdown`/`join` of the shuffle thread, which nothing calls.
- The values of text embeddings and prompts, pixels, and all real-valued arithmetic; the exponential shift, inverse and reversed schedules of `flow_matching.py`.
- In training: the broadcast of the starting point between ranks, `origin_init` weights, logging.
- In the inference server: text annotations, the recording of sessions, warm-up. In the action mapping: gamepads and serialisation.
- The simulator, and the metrics computed from an evaluation's results.
- The KV cache: nothing reaches it.

## Plan

Done: the queue, the pipeline, chunking, the mask, checkpoints and the window; then the inference server, the evaluation, the latent dataset with
the stage-3 step, and the action mapping; then proofs of every safety invariant, of the refinements of `FanOutQueue` and `AnswerStream`, and of
what makes put, pipeline, training, evaluation and shutdown go on. Left, in this order:

1. *Abstract specification*: an evaluation as a sequence of whole episodes, from `Seen`.
2. *Composition*: `RobotTwinEval` over `RobotTwinWindow` in place of the list of observations.
3. *DataPipeline*: start-up order.
