----------------------------- MODULE DataPipeline -----------------------------
(***************************************************************************)
(* The processes that feed training (elefant/data/video_proto_dataset.py   *)
(* and elefant_rust/src/shuffle_thread.rs) between startup and the end of  *)
(* the program: the proto process, the preprocess workers, the shuffle     *)
(* thread and the dataset workers, joined by the queues of ZmqQueue.  Each *)
(* queue is taken at the level ZmqQueue is proved to implement             *)
(* (FanOutQueue): a FIFO per client, an ordinary put goes to some client   *)
(* with room, a marker is sent past the limit.                             *)
(*                                                                         *)
(* A video's chunks are abstracted to their number: a missing file, a      *)
(* video that is too short, chunks nobody labelled, and an exception in    *)
(* the middle of a video all make it smaller.  Every item carries the      *)
(* epoch it was queued for, which the program does not transmit and the    *)
(* properties need.                                                        *)
(***************************************************************************)
EXTENDS Naturals, Sequences, FiniteSets, SequencesExt

CONSTANTS Protos,          \* the proto files of the dataset
          NWorkers,        \* n_preprocess_workers
          DatasetWorkers,  \* the dataset workers of all GPUs
          MaxChunks,       \* bound: chunks a video yields
          ProtoQueueSize, ChunkQueueSize, OutQueueSize,  \* per_client_max_size of the queues
          BufferSizes,     \* shuffle_buffer_size, or 0 for shuffle=False
          BatchSize,       \* batch_size
          MaxEpochs,       \* bound: epochs the proto process queues
          MaxCrashes,      \* bound: preprocess workers that die
          EndOfEpoch       \* the None that ends an epoch

Workers == 0 .. NWorkers - 1
Epochs == 0 .. MaxEpochs - 1
Videos == [epoch : Epochs, proto : Protos]
Chunks == [epoch : Epochs, proto : Protos, part : 1 .. MaxChunks]

ASSUME PipelineAssumption ==
  /\ Protos # {} /\ IsFiniteSet(Protos)
  /\ DatasetWorkers # {} /\ IsFiniteSet(DatasetWorkers)
  /\ NWorkers \in Nat \ {0}
  /\ MaxChunks \in Nat /\ MaxEpochs \in Nat /\ MaxCrashes \in Nat
  /\ ProtoQueueSize \in Nat \ {0} /\ ChunkQueueSize \in Nat \ {0} /\ OutQueueSize \in Nat \ {0}
  /\ BufferSizes \subseteq Nat
  /\ BatchSize \in Nat \ {0}
  /\ EndOfEpoch \notin Chunks \union Videos

VARIABLES
  config,       \* bufferSize and ignoreReset (ignore_iterator_reset), fixed for a run
  queueEpoch,   \* the epoch the proto process is queueing
  todo,         \* its protos that are not queued yet
  nextWorker,   \* idx of the proto process
  protoQ,       \* proto_i: proto process to preprocess worker i
  parts,        \* what a preprocess worker still has to put, in order
  alive,        \* preprocess workers that have not died
  chunkQ,       \* preprocess_i: preprocess worker i to shuffle thread
  scan,         \* i of the shuffle thread's for loop
  running,      \* workers_still_running
  incoming,     \* the example add_item is working on, or nothing
  finishing,    \* finish_epoch is under way
  buffer,       \* the shuffle buffer
  shuffleEpoch, \* epochs the shuffle thread has finished
  outQ,         \* shuffle: shuffle thread to each dataset worker
  iter,         \* a dataset worker is "iterating", has "ended" its epoch or "failed"
  epoch,        \* epochs a dataset worker has finished
  examples,     \* n_examples_in_epoch, counted up to BatchSize
  produced,     \* history: chunks put by preprocess workers and not lost with one
  delivered     \* history: chunks yielded by dataset workers

protoVars == <<queueEpoch, todo, nextWorker>>
workerVars == <<parts, alive>>
shuffleVars == <<scan, running, incoming, finishing, buffer, shuffleEpoch>>
datasetVars == <<iter, epoch, examples, delivered>>
vars == <<config, protoVars, protoQ, workerVars, chunkQ, produced, shuffleVars, outQ, datasetVars>>

Init ==
  /\ config \in [bufferSize : BufferSizes, ignoreReset : BOOLEAN]
  /\ queueEpoch = 0 /\ todo = IF MaxEpochs = 0 THEN {} ELSE Protos
  /\ nextWorker = 0
  /\ protoQ = [w \in Workers |-> <<>>]
  /\ parts = [w \in Workers |-> <<>>]
  /\ alive = Workers
  /\ chunkQ = [w \in Workers |-> <<>>]
  /\ scan = 0 /\ running = Workers
  /\ incoming = <<>> /\ finishing = FALSE
  /\ buffer = {} /\ shuffleEpoch = 0
  /\ outQ = [d \in DatasetWorkers |-> <<>>]
  /\ iter = [d \in DatasetWorkers |-> "iterating"]
  /\ epoch = [d \in DatasetWorkers |-> 0]
  /\ examples = [d \in DatasetWorkers |-> 0]
  /\ produced = {} /\ delivered = {}

-----------------------------------------------------------------------------
(* _proto_queue_process: the order of the protos of an epoch is any order. *)

QueueProto(p) ==
  /\ p \in todo
  /\ Len(protoQ[nextWorker]) < ProtoQueueSize
  /\ protoQ' = [protoQ EXCEPT ![nextWorker] = Append(@, [epoch |-> queueEpoch, proto |-> p])]
  /\ todo' = todo \ {p}
  /\ nextWorker' = (nextWorker + 1) % NWorkers
  /\ UNCHANGED <<config, queueEpoch, workerVars, chunkQ, produced, shuffleVars, outQ, datasetVars>>

\* The put gives up after a second, and the next worker is tried with the same proto.
TryNextWorker ==
  /\ todo # {}
  /\ Len(protoQ[nextWorker]) >= ProtoQueueSize
  /\ nextWorker' = (nextWorker + 1) % NWorkers
  /\ UNCHANGED <<config, queueEpoch, todo, protoQ, workerVars, chunkQ, produced, shuffleVars,
                 outQ, datasetVars>>

\* The end of the epoch goes to every worker, past the limit (ignore_full), and the next
\* epoch begins with idx back at 0.
QueueEndOfEpoch ==
  /\ todo = {} /\ queueEpoch < MaxEpochs
  /\ protoQ' = [w \in Workers |-> Append(protoQ[w], EndOfEpoch)]
  /\ queueEpoch' = queueEpoch + 1
  /\ todo' = IF queueEpoch' < MaxEpochs THEN Protos ELSE {}
  /\ nextWorker' = 0
  /\ UNCHANGED <<config, workerVars, chunkQ, produced, shuffleVars, outQ, datasetVars>>

-----------------------------------------------------------------------------
(* _preprocess_worker *)

Parts(v, n) == [k \in 1 .. n |-> [epoch |-> v.epoch, proto |-> v.proto, part |-> k]]

\* A marker is passed on; a video becomes some number of chunks.
GetProto(w) ==
  /\ w \in alive /\ parts[w] = <<>> /\ protoQ[w] # <<>>
  /\ protoQ' = [protoQ EXCEPT ![w] = Tail(@)]
  /\ \/ Head(protoQ[w]) = EndOfEpoch /\ parts' = [parts EXCEPT ![w] = <<EndOfEpoch>>]
     \/ /\ Head(protoQ[w]) # EndOfEpoch
        /\ \E n \in 0 .. MaxChunks : parts' = [parts EXCEPT ![w] = Parts(Head(protoQ[w]), n)]
  /\ UNCHANGED <<config, protoVars, alive, chunkQ, produced, shuffleVars, outQ, datasetVars>>

\* preprocessed_chunks_queue.put, for a chunk and for the marker alike: it waits for room.
PutPart(w) ==
  /\ w \in alive /\ parts[w] # <<>> /\ Len(chunkQ[w]) < ChunkQueueSize
  /\ chunkQ' = [chunkQ EXCEPT ![w] = Append(@, Head(parts[w]))]
  /\ parts' = [parts EXCEPT ![w] = Tail(@)]
  /\ produced' = produced \union ({Head(parts[w])} \ {EndOfEpoch})
  /\ UNCHANGED <<config, protoVars, protoQ, alive, shuffleVars, outQ, datasetVars>>

\* Nothing restarts a preprocess worker that dies.  What it had sent survives as far as it
\* had left the process.
CrashWorker(w) ==
  /\ w \in alive /\ Cardinality(Workers \ alive) < MaxCrashes
  /\ alive' = alive \ {w}
  /\ \E n \in 0 .. Len(chunkQ[w]) :
       /\ chunkQ' = [chunkQ EXCEPT ![w] = SubSeq(@, 1, n)]
       /\ produced' = produced \ ToSet(SubSeq(chunkQ[w], n + 1, Len(chunkQ[w])))
  /\ parts' = [parts EXCEPT ![w] = <<>>]
  /\ UNCHANGED <<config, protoVars, protoQ, shuffleVars, outQ, datasetVars>>

-----------------------------------------------------------------------------
(* run_shuffle_worker, NoShuffle and ShuffleBuffer *)

Polling == incoming = <<>> /\ ~finishing
ScanOn == scan' = (scan + 1) % NWorkers

\* Nothing within the timeout, or a worker whose epoch is over.
PollNothing ==
  /\ Polling
  /\ scan \notin running \/ chunkQ[scan] = <<>>
  /\ ScanOn
  /\ UNCHANGED <<config, protoVars, protoQ, workerVars, chunkQ, produced, running, incoming,
                 finishing, buffer, shuffleEpoch, outQ, datasetVars>>

\* Variant with a defect: a worker that has finished its epoch is read all the same.
PollChunkOfAnyWorker ==
  /\ Polling
  /\ chunkQ[scan] # <<>> /\ Head(chunkQ[scan]) # EndOfEpoch
  /\ chunkQ' = [chunkQ EXCEPT ![scan] = Tail(@)]
  /\ IF Cardinality(buffer) < config.bufferSize
       THEN buffer' = buffer \union {Head(chunkQ[scan])} /\ ScanOn /\ UNCHANGED incoming
       ELSE incoming' = <<Head(chunkQ[scan])>> /\ UNCHANGED <<buffer, scan>>
  /\ UNCHANGED <<config, protoVars, protoQ, workerVars, produced, running, finishing, shuffleEpoch,
                 outQ, datasetVars>>

\* The buffer is filled first.
PollChunk ==
  /\ Polling
  /\ scan \in running /\ chunkQ[scan] # <<>> /\ Head(chunkQ[scan]) # EndOfEpoch
  /\ chunkQ' = [chunkQ EXCEPT ![scan] = Tail(@)]
  /\ IF Cardinality(buffer) < config.bufferSize
       THEN buffer' = buffer \union {Head(chunkQ[scan])} /\ ScanOn /\ UNCHANGED incoming
       ELSE incoming' = <<Head(chunkQ[scan])>> /\ UNCHANGED <<buffer, scan>>
  /\ UNCHANGED <<config, protoVars, protoQ, workerVars, produced, running, finishing, shuffleEpoch,
                 outQ, datasetVars>>

PollMarker ==
  /\ Polling
  /\ scan \in running /\ chunkQ[scan] # <<>> /\ Head(chunkQ[scan]) = EndOfEpoch
  /\ chunkQ' = [chunkQ EXCEPT ![scan] = Tail(@)]
  /\ running' = running \ {scan}
  /\ IF running' = {} THEN finishing' = TRUE /\ UNCHANGED scan
                      ELSE UNCHANGED finishing /\ ScanOn
  /\ UNCHANGED <<config, protoVars, protoQ, workerVars, produced, incoming, buffer, shuffleEpoch,
                 outQ, datasetVars>>

\* shuffle_queue.put waits until some dataset worker has room.
Emit(x) ==
  \E d \in DatasetWorkers : /\ Len(outQ[d]) < OutQueueSize
                            /\ outQ' = [outQ EXCEPT ![d] = Append(@, x)]

\* Variant with a defect: the sample is sent and stays in the buffer.
AddItemKeepingSample ==
  /\ incoming # <<>>
  /\ \/ config.bufferSize = 0 /\ Emit(Head(incoming)) /\ UNCHANGED buffer
     \/ \E s \in buffer : Emit(s) /\ buffer' = buffer \union {Head(incoming)}
  /\ incoming' = <<>> /\ ScanOn
  /\ UNCHANGED <<config, protoVars, protoQ, workerVars, chunkQ, produced, running, finishing,
                 shuffleEpoch, datasetVars>>

\* add_item with a full buffer: a sample leaves and the new example takes its place; without
\* a buffer the example itself is sent.
AddItem ==
  /\ incoming # <<>>
  /\ \/ config.bufferSize = 0 /\ Emit(Head(incoming)) /\ UNCHANGED buffer
     \/ \E s \in buffer : Emit(s) /\ buffer' = (buffer \ {s}) \union {Head(incoming)}
  /\ incoming' = <<>> /\ ScanOn
  /\ UNCHANGED <<config, protoVars, protoQ, workerVars, chunkQ, produced, running, finishing,
                 shuffleEpoch, datasetVars>>

\* finish_epoch: the buffer is emptied in random order ...
DrainBuffer ==
  /\ finishing
  /\ \E s \in buffer : Emit(s) /\ buffer' = buffer \ {s}
  /\ UNCHANGED <<config, protoVars, protoQ, workerVars, chunkQ, produced, scan, running, incoming,
                 finishing, shuffleEpoch, datasetVars>>

\* Variants with a defect: the marker overtakes the buffer; the barrier is not set up again.
FinishEpochBeforeDraining ==
  /\ finishing /\ shuffleEpoch < MaxEpochs
  /\ outQ' = [d \in DatasetWorkers |-> Append(outQ[d], EndOfEpoch)]
  /\ shuffleEpoch' = shuffleEpoch + 1
  /\ running' = Workers /\ scan' = 0 /\ finishing' = FALSE
  /\ UNCHANGED <<config, protoVars, protoQ, workerVars, chunkQ, produced, incoming, buffer, datasetVars>>
FinishEpochKeepingBarrier ==
  /\ finishing /\ buffer = {}
  /\ outQ' = [d \in DatasetWorkers |-> Append(outQ[d], EndOfEpoch)]
  /\ shuffleEpoch' = shuffleEpoch + 1
  /\ scan' = 0 /\ finishing' = FALSE
  /\ UNCHANGED <<config, protoVars, protoQ, workerVars, chunkQ, produced, running, incoming, buffer,
                 datasetVars>>

\* ... and then the marker goes to every dataset worker, past the limit.
FinishEpoch ==
  /\ finishing /\ buffer = {}
  /\ outQ' = [d \in DatasetWorkers |-> Append(outQ[d], EndOfEpoch)]
  /\ shuffleEpoch' = shuffleEpoch + 1
  /\ running' = Workers /\ scan' = 0 /\ finishing' = FALSE
  /\ UNCHANGED <<config, protoVars, protoQ, workerVars, chunkQ, produced, incoming, buffer, datasetVars>>

-----------------------------------------------------------------------------
(* VideoProtoDataset.__iter__ in a dataset worker *)

GetExample(d) ==
  /\ iter[d] = "iterating" /\ outQ[d] # <<>> /\ Head(outQ[d]) # EndOfEpoch
  /\ outQ' = [outQ EXCEPT ![d] = Tail(@)]
  /\ examples' = [examples EXCEPT ![d] = IF @ < BatchSize THEN @ + 1 ELSE @]
  /\ delivered' = delivered \union {Head(outQ[d])}
  /\ UNCHANGED <<config, protoVars, protoQ, workerVars, chunkQ, produced, shuffleVars, iter, epoch>>

\* The marker ends the iterator, or raises when there was less than a batch, or is ignored.
GetMarker(d) ==
  /\ iter[d] = "iterating" /\ outQ[d] # <<>> /\ Head(outQ[d]) = EndOfEpoch
  /\ outQ' = [outQ EXCEPT ![d] = Tail(@)]
  /\ epoch' = [epoch EXCEPT ![d] = @ + 1]
  /\ \/ config.ignoreReset /\ UNCHANGED iter
     \/ /\ ~config.ignoreReset /\ examples[d] >= BatchSize
        /\ iter' = [iter EXCEPT ![d] = "ended"]
     \/ /\ ~config.ignoreReset /\ examples[d] < BatchSize
        /\ iter' = [iter EXCEPT ![d] = "failed"]
  /\ examples' = [examples EXCEPT ![d] = 0]
  /\ UNCHANGED <<config, protoVars, protoQ, workerVars, chunkQ, produced, shuffleVars, delivered>>

\* A DataLoader with persistent workers starts the next epoch when every worker has ended
\* the last one.
NextIteration ==
  /\ \A d \in DatasetWorkers : iter[d] = "ended"
  /\ iter' = [d \in DatasetWorkers |-> "iterating"]
  /\ UNCHANGED <<config, protoVars, protoQ, workerVars, chunkQ, produced, shuffleVars, outQ, epoch,
                 examples, delivered>>

-----------------------------------------------------------------------------
ProtoProcess == (\E p \in Protos : QueueProto(p)) \/ TryNextWorker \/ QueueEndOfEpoch
Preprocess(w) == GetProto(w) \/ PutPart(w)
ShuffleThread == PollNothing \/ PollChunk \/ PollMarker \/ AddItem \/ DrainBuffer \/ FinishEpoch
DatasetWorker(d) == GetExample(d) \/ GetMarker(d)

Next ==
  \/ ProtoProcess \/ ShuffleThread \/ NextIteration
  \/ \E w \in Workers : Preprocess(w) \/ CrashWorker(w)
  \/ \E d \in DatasetWorkers : DatasetWorker(d)

\* Each process runs on; the training loop keeps asking for batches.
Fairness ==
  /\ WF_vars(ProtoProcess) /\ WF_vars(ShuffleThread) /\ WF_vars(NextIteration)
  /\ \A w \in Workers : WF_vars(Preprocess(w))
  /\ \A d \in DatasetWorkers : WF_vars(DatasetWorker(d))

Spec == Init /\ [][Next]_vars /\ Fairness

-----------------------------------------------------------------------------
(* Properties *)

TypeOK ==
  /\ config \in [bufferSize : BufferSizes, ignoreReset : BOOLEAN]
  /\ queueEpoch \in 0 .. MaxEpochs /\ todo \in SUBSET Protos /\ nextWorker \in Workers
  /\ protoQ \in [Workers -> Seq(Videos \union {EndOfEpoch})]
  /\ parts \in [Workers -> Seq(Chunks \union {EndOfEpoch})]
  /\ alive \in SUBSET Workers
  /\ chunkQ \in [Workers -> Seq(Chunks \union {EndOfEpoch})]
  /\ scan \in Workers /\ running \in SUBSET Workers
  /\ incoming \in Seq(Chunks) /\ Len(incoming) <= 1
  /\ finishing \in BOOLEAN
  /\ buffer \in SUBSET Chunks /\ shuffleEpoch \in 0 .. MaxEpochs
  /\ outQ \in [DatasetWorkers -> Seq(Chunks \union {EndOfEpoch})]
  /\ iter \in [DatasetWorkers -> {"iterating", "ended", "failed"}]
  /\ epoch \in [DatasetWorkers -> 0 .. MaxEpochs]
  /\ examples \in [DatasetWorkers -> 0 .. BatchSize]
  /\ produced \in SUBSET Chunks /\ delivered \in SUBSET Chunks

\* The epoch of entry i of a queue whose reader has seen k markers.
EpochAt(q, k, i) == k + Cardinality({j \in 1 .. i - 1 : q[j] = EndOfEpoch})

\* Epochs do not mix: between two markers every dataset worker gets chunks of one epoch
\* only, however far ahead the preprocess workers and the shuffle buffer are (the
\* workers_still_running barrier and finish_epoch), and whichever of them die.
EpochBarrier ==
  \A d \in DatasetWorkers : \A i \in 1 .. Len(outQ[d]) :
    outQ[d][i] # EndOfEpoch => outQ[d][i].epoch = EpochAt(outQ[d], epoch[d], i)

InQueues(q) == (UNION {ToSet(q[i]) : i \in DOMAIN q}) \ {EndOfEpoch}

\* What has not left the shuffle thread, or has not reached it.
Upstream == InQueues(chunkQ) \union InQueues(parts) \union ToSet(incoming) \union buffer
             \union InQueues(protoQ)

\* A marker closes its epoch: once the shuffle thread has sent it, nothing of that epoch is
\* left anywhere upstream, except at a worker that has died, which lets no epoch end.
EpochComplete == \A x \in Upstream : x.epoch >= shuffleEpoch

\* A marker keeps two epochs apart on both sides of the shuffle thread.
EpochsApart == EpochBarrier /\ EpochComplete

\* No chunk is twice in a queue or in two queues of a kind.
Once(q) ==
  /\ \A x \in DOMAIN q : \A i, j \in 1 .. Len(q[x]) : i # j /\ q[x][i] = q[x][j] => q[x][i] = EndOfEpoch
  /\ \A x, y \in DOMAIN q : x # y => ToSet(q[x]) \intersect ToSet(q[y]) \subseteq {EndOfEpoch}

Stages == <<InQueues(chunkQ), ToSet(incoming), buffer, InQueues(outQ), delivered>>

\* Every chunk put by a preprocess worker is in exactly one place until it is yielded, once,
\* by exactly one dataset worker.
ChunkConservation ==
  /\ LET at == Stages
     IN  /\ UNION {at[s] : s \in 1 .. 5} = produced
         /\ \A s, t \in 1 .. 5 : s # t => at[s] \intersect at[t] = {}
  /\ Once(chunkQ) /\ Once(outQ)

\* A process can take something further; a poll or a put that only finds out that it must
\* wait does not count.
SomeoneCanMove ==
  \/ (\E w \in Workers : todo # {} /\ Len(protoQ[w]) < ProtoQueueSize)
  \/ (todo = {} /\ queueEpoch < MaxEpochs)
  \/ (\E w \in alive : IF parts[w] = <<>> THEN protoQ[w] # <<>> ELSE Len(chunkQ[w]) < ChunkQueueSize)
  \/ (\E w \in running : Polling /\ chunkQ[w] # <<>>)
  \/ (finishing /\ buffer = {})
  \/ /\ (buffer # {} /\ ~Polling) \/ (config.bufferSize = 0 /\ incoming # <<>>)
     /\ \E d \in DatasetWorkers : Len(outQ[d]) < OutQueueSize
  \/ (\E d \in DatasetWorkers : iter[d] = "iterating" /\ outQ[d] # <<>>)
  \/ (\A d \in DatasetWorkers : iter[d] = "ended")

AllDelivered == delivered = produced /\ \A d \in DatasetWorkers : epoch[d] = MaxEpochs

\* No cycle of waits.  Every queue is bounded, the shuffle thread waits for the marker of
\* every preprocess worker and the DataLoader for every dataset worker: as long as none of
\* them has died or failed, somebody can go on until all that was made has been delivered.
NoCycleOfWaits ==
  alive = Workers /\ (\A d \in DatasetWorkers : iter[d] # "failed") =>
    SomeoneCanMove \/ AllDelivered

AllAlive == [](alive = Workers) /\ []\A d \in DatasetWorkers : iter[d] # "failed"

\* With bounded queues everywhere, a barrier in the shuffle thread and one in the
\* DataLoader, every epoch that is queued ends at every dataset worker, with every chunk
\* that was made delivered.
EpochsEnd == AllAlive => <>AllDelivered
=============================================================================
