--------------------------- MODULE CheckpointRestart ---------------------------
(***************************************************************************)
(* Training that survives its own crashes: the launcher                    *)
(* (auto_restart_train.sh) starts training afresh or from the latest       *)
(* checkpoint that can be loaded, again and again until a run ends well;   *)
(* training (train_stage3_finetune) hands a checkpoint to a background     *)
(* thread every save_every_n_steps steps; that thread                      *)
(* (elefant/lightning/async_checkpoint.py) writes one file after another.  *)
(* The process may be killed between any two of these steps, also in the   *)
(* middle of a file, a write may fail, and so may the loading of a good    *)
(* file.  Files are named by their step; the weights of a run are          *)
(* abstracted to the number of steps they have been trained for.           *)
(***************************************************************************)
EXTENDS Naturals, Sequences, FiniteSets

CONSTANTS NTrainingSteps,     \* n_training_steps
          SaveEvery,          \* save_every_n_steps
          FreezeSteps,        \* the values freeze_transformer_layers_for_steps may have
          MaxCrashes,         \* bound: exceptions and kills
          MaxWriteFailures,   \* bound: writes that end in an exception
          MaxLoadFailures     \* bound: loads of a complete file that fail all the same

Steps == 1 .. NTrainingSteps

ASSUME RestartAssumption ==
  /\ NTrainingSteps \in Nat \ {0} /\ SaveEvery \in Nat \ {0} /\ FreezeSteps \subseteq Nat
  /\ MaxCrashes \in Nat /\ MaxWriteFailures \in Nat /\ MaxLoadFailures \in Nat

VARIABLES
  pc,               \* launcher: "scan", "launch", "waiting", "stopped";
                    \* training process: "training", "closing" (trainer teardown)
  phase,            \* RUN_PHASE
  exitCode,         \* of the training process, from "closing" on
  freezeSteps,      \* freeze_transformer_layers_for_steps
  base,             \* the step the process resumed from, 0 if it was initialised
  globalStep,       \* trainer.global_step
  frozen,           \* the transformer layers have requires_grad = False
  alreadyFrozen, alreadyUnfrozen,
  queue,            \* checkpoints handed to the executor and not taken up yet
  writing,          \* the checkpoint its thread is writing, as a sequence of at most one
  paths,            \* _checkpoint_paths
  disk,             \* the file of each step: absent, partial or complete, and its weights
  final,            \* what get_final_checkpoint returned, 0 for None
  crashes, writeFailures, loadFailures,
  thawedEarly       \* history: a batch below freezeSteps has trained the transformer layers

launcherVars == <<phase, exitCode, freezeSteps, final>>
trainVars == <<base, globalStep, frozen, alreadyFrozen, alreadyUnfrozen, thawedEarly>>
saveVars == <<queue, writing, paths, disk>>
countVars == <<crashes, writeFailures, loadFailures>>
vars == <<pc, launcherVars, trainVars, saveVars, countVars>>

Checkpoint == [step : Steps, weights : Nat]
File == [state : {"absent", "partial", "complete"}, weights : Nat]

Complete(s) == disk[s].state = "complete"

Init ==
  /\ pc = "scan" /\ phase = "init" /\ exitCode = 0 /\ final = 0
  /\ freezeSteps \in FreezeSteps
  /\ base = 0 /\ globalStep = 0
  /\ frozen = FALSE /\ alreadyFrozen = FALSE /\ alreadyUnfrozen = FALSE /\ thawedEarly = FALSE
  /\ queue = <<>> /\ writing = <<>> /\ paths = <<>>
  /\ disk = [s \in Steps |-> [state |-> "absent", weights |-> 0]]
  /\ crashes = 0 /\ writeFailures = 0 /\ loadFailures = 0

-----------------------------------------------------------------------------
(* auto_restart_train.sh and the scripts it starts *)

\* Variant with a defect: any file that is not empty will do.
FindLatestUnchecked(found) ==
  /\ found \in {0} \union {s \in Steps : disk[s].state # "absent"}
  /\ \A s \in Steps : disk[s].state # "absent" => s <= found
  /\ UNCHANGED loadFailures

\* find_latest_ckpt, find_resume_ckpt: the first file that loads, from the latest on.  A
\* partial file never does; a complete one is passed over when loading it fails.
FindLatest(found) ==
  LET passedOver == Cardinality({s \in Steps : Complete(s) /\ s > found})
  IN  /\ found = 0 \/ (found \in Steps /\ Complete(found))
      /\ loadFailures + passedOver <= MaxLoadFailures
      /\ loadFailures' = loadFailures + passedOver

Scan ==
  /\ pc = "scan"
  /\ \E found \in Steps \union {0} :
       FindLatest(found) /\ phase' = IF found = 0 THEN "init" ELSE "resume"
  /\ pc' = "launch"
  /\ UNCHANGED <<exitCode, freezeSteps, final, trainVars, saveVars, crashes, writeFailures>>

\* Variant with a defect: the weights are loaded and the step counter is not.
StartTrainingAtZero(from) ==
  /\ pc' = "training"
  /\ base' = from /\ globalStep' = 0
  /\ frozen' = FALSE /\ alreadyFrozen' = FALSE /\ alreadyUnfrozen' = FALSE
  /\ queue' = <<>> /\ writing' = <<>> /\ paths' = <<>>

\* A new process: nothing of the last one but its files is left.
StartTraining(from) ==
  /\ pc' = "training"
  /\ base' = from /\ globalStep' = from
  /\ frozen' = FALSE /\ alreadyFrozen' = FALSE /\ alreadyUnfrozen' = FALSE
  /\ queue' = <<>> /\ writing' = <<>> /\ paths' = <<>>

LaunchInit ==
  /\ pc = "launch" /\ phase = "init"
  /\ StartTraining(0)
  /\ UNCHANGED <<launcherVars, thawedEarly, disk, countVars>>

\* train_resume_latest.sh looks for the checkpoint again, and train.py loads it: either may
\* find that it cannot, which ends the script with an error.
LaunchResume ==
  /\ pc = "launch" /\ phase = "resume"
  /\ \E found \in Steps \union {0} :
       /\ FindLatest(found)
       /\ IF found # 0 THEN StartTraining(found) /\ UNCHANGED <<exitCode, thawedEarly, disk>>
          ELSE pc' = "waiting" /\ exitCode' = 1 /\ UNCHANGED <<trainVars, saveVars>>
  /\ UNCHANGED <<phase, freezeSteps, final, crashes, writeFailures>>

LoadError ==
  /\ pc = "launch" /\ phase = "resume" /\ loadFailures < MaxLoadFailures
  /\ pc' = "waiting" /\ exitCode' = 1 /\ loadFailures' = loadFailures + 1
  /\ UNCHANGED <<phase, freezeSteps, final, trainVars, saveVars, crashes, writeFailures>>

\* Variant with a defect: the exit code is not looked at.
RestartAlways ==
  /\ pc = "waiting"
  /\ pc' = "scan"
  /\ UNCHANGED <<launcherVars, trainVars, saveVars, countVars>>

\* sleep RESTART_WAIT; an exit code of 0 ends the loop.
Restart ==
  /\ pc = "waiting"
  /\ pc' = IF exitCode = 0 THEN "stopped" ELSE "scan"
  /\ UNCHANGED <<launcherVars, trainVars, saveVars, countVars>>

-----------------------------------------------------------------------------
(* trainer.fit *)

\* on_train_batch_start
FreezeLayers ==
  LET freeze == globalStep = 0 /\ freezeSteps > 0 /\ ~alreadyFrozen
      thaw == ~freeze /\ freezeSteps > 0 /\ globalStep = freezeSteps /\ ~alreadyUnfrozen
  IN  /\ frozen' = ((frozen \/ freeze) /\ ~thaw)
      /\ alreadyFrozen' = (alreadyFrozen \/ freeze)
      /\ alreadyUnfrozen' = (alreadyUnfrozen \/ thaw)

\* save_checkpoint: serialised here and now, written later.
SaveCheckpoint(s, weights) ==
  /\ paths' = Append(paths, s)
  /\ queue' = Append(queue, [step |-> s, weights |-> weights])

\* One batch, and ModelCheckpoint after it.
TrainBatch ==
  /\ pc = "training" /\ globalStep < NTrainingSteps
  /\ FreezeLayers
  /\ globalStep' = globalStep + 1
  /\ thawedEarly' = (thawedEarly \/ (globalStep < freezeSteps /\ ~frozen'))
  /\ IF globalStep' % SaveEvery = 0 THEN SaveCheckpoint(globalStep', globalStep')
                                    ELSE UNCHANGED <<paths, queue>>
  /\ UNCHANGED <<pc, launcherVars, base, writing, disk, countVars>>

\* max_steps is reached, or has been reached by the run before.
Finish ==
  /\ pc = "training" /\ globalStep >= NTrainingSteps
  /\ pc' = "closing" /\ exitCode' = 0
  /\ UNCHANGED <<phase, freezeSteps, final, trainVars, saveVars, countVars>>

\* An exception in training: the trainer still tears its strategy down.
Raise ==
  /\ pc = "training" /\ crashes < MaxCrashes
  /\ pc' = "closing" /\ exitCode' = 1 /\ crashes' = crashes + 1
  /\ UNCHANGED <<phase, freezeSteps, final, trainVars, saveVars, writeFailures, loadFailures>>

\* The process is gone at once, and with it what was not on disk.
Kill ==
  /\ pc \in {"training", "closing"} /\ crashes < MaxCrashes
  /\ pc' = "waiting" /\ exitCode' = 1 /\ crashes' = crashes + 1
  /\ queue' = <<>> /\ writing' = <<>> /\ paths' = <<>>
  /\ UNCHANGED <<phase, freezeSteps, final, trainVars, disk, writeFailures, loadFailures>>

\* Variant with a defect: the executor is not waited for.
CloseWithoutWaiting ==
  /\ pc = "closing"
  /\ pc' = "waiting"
  /\ final' = IF exitCode = 0 /\ paths # <<>> THEN paths[Len(paths)] ELSE final
  /\ queue' = <<>> /\ writing' = <<>>
  /\ UNCHANGED <<phase, exitCode, freezeSteps, trainVars, paths, disk, countVars>>

\* teardown: shutdown(wait=True), then get_final_checkpoint.
Close ==
  /\ pc = "closing" /\ queue = <<>> /\ writing = <<>>
  /\ pc' = "waiting"
  /\ final' = IF exitCode = 0 /\ paths # <<>> THEN paths[Len(paths)] ELSE final
  /\ UNCHANGED <<phase, exitCode, freezeSteps, trainVars, saveVars, countVars>>

-----------------------------------------------------------------------------
(* ThreadsafeCheckpointer._finalize_checkpoint, in the executor's only thread *)

Alive == pc \in {"training", "closing"}

\* open(path, "wb") leaves nothing of a file that was there.
OpenFile ==
  /\ Alive /\ writing = <<>> /\ queue # <<>>
  /\ writing' = <<Head(queue)>> /\ queue' = Tail(queue)
  /\ disk' = [disk EXCEPT ![Head(queue).step] = [state |-> "partial", weights |-> 0]]
  /\ UNCHANGED <<pc, launcherVars, trainVars, paths, countVars>>

\* Variant with a defect: the weights are those of the moment the file is written.
WriteFileLate ==
  /\ Alive /\ writing # <<>>
  /\ disk' = [disk EXCEPT ![writing[1].step] = [state |-> "complete", weights |-> globalStep]]
  /\ writing' = <<>>
  /\ UNCHANGED <<pc, launcherVars, trainVars, queue, paths, countVars>>

WriteFile ==
  /\ Alive /\ writing # <<>>
  /\ disk' = [disk EXCEPT ![writing[1].step] =
                [state |-> "complete", weights |-> writing[1].weights]]
  /\ writing' = <<>>
  /\ UNCHANGED <<pc, launcherVars, trainVars, queue, paths, countVars>>

\* Opening the file fails, or writing it.  Nobody looks at the future, so the exception is
\* lost.
OpenError ==
  /\ Alive /\ writing = <<>> /\ queue # <<>> /\ writeFailures < MaxWriteFailures
  /\ queue' = Tail(queue) /\ writeFailures' = writeFailures + 1
  /\ UNCHANGED <<pc, launcherVars, trainVars, writing, paths, disk, crashes, loadFailures>>

WriteError ==
  /\ Alive /\ writing # <<>> /\ writeFailures < MaxWriteFailures
  /\ writing' = <<>> /\ writeFailures' = writeFailures + 1
  /\ UNCHANGED <<pc, launcherVars, trainVars, queue, paths, disk, crashes, loadFailures>>

-----------------------------------------------------------------------------
Launcher == Scan \/ LaunchInit \/ LaunchResume \/ Restart
Training == TrainBatch \/ Finish \/ Close
Writer == OpenFile \/ WriteFile

Next == Launcher \/ Training \/ Writer \/ LoadError \/ Raise \/ Kill \/ OpenError \/ WriteError

\* The launcher, the training loop and the writer's thread run on; failures need not happen.
Fairness == WF_vars(Launcher) /\ WF_vars(Training) /\ WF_vars(Writer)

Spec == Init /\ [][Next]_vars /\ Fairness

-----------------------------------------------------------------------------
(* Properties *)

TypeOK ==
  /\ pc \in {"scan", "launch", "waiting", "stopped", "training", "closing"}
  /\ phase \in {"init", "resume"} /\ exitCode \in {0, 1} /\ freezeSteps \in FreezeSteps
  /\ base \in Steps \union {0} /\ globalStep \in Steps \union {0}
  /\ frozen \in BOOLEAN /\ alreadyFrozen \in BOOLEAN /\ alreadyUnfrozen \in BOOLEAN
  /\ queue \in Seq(Checkpoint)
  /\ writing \in Seq(Checkpoint) /\ Len(writing) <= 1
  /\ paths \in Seq(Steps)
  /\ disk \in [Steps -> File]
  /\ final \in Steps \union {0}
  /\ crashes \in 0 .. MaxCrashes /\ writeFailures \in 0 .. MaxWriteFailures
  /\ loadFailures \in 0 .. MaxLoadFailures
  /\ thawedEarly \in BOOLEAN

\* A file that loads holds the weights of the step it is named after, although training has
\* gone on by the time it is written (save_checkpoint serialises in the main thread).
FileHoldsItsStep == \A s \in Steps : Complete(s) => disk[s].weights = s

\* The run in progress goes back to a checkpoint that can be loaded, and will be there for
\* the next attempt: it was chosen complete, and no later save overwrites it, whatever is
\* killed and whatever write fails.
BaseIsLoadable == pc \in {"training", "closing"} /\ base # 0 => Complete(base)

\* A finished checkpoint is never destroyed by a later run: one is only written again when
\* a load of it had failed and training went back behind it.
FinishedFilesStay ==
  [][\A s \in Steps : Complete(s) /\ ~Complete(s)' => loadFailures > 0]_vars

\* The final checkpoint that is reported when training ends is on disk, unless writing a
\* file failed (shutdown(wait=True) before get_final_checkpoint).
FinalIsOnDisk == final # 0 => Complete(final) \/ writeFailures > 0

\* With finitely many failures training ends: every restart makes progress or starts over.
TrainingEnds == <>(pc = "stopped" /\ exitCode = 0)

\* What the description of freeze_transformer_layers_for_steps says: the layers are frozen
\* for the first N steps.
FrozenForFirstSteps == ~thawedEarly

\* A restart goes on from the newest finished checkpoint as long as every load succeeds: what
\* was on disk is not trained again, whoever looked for it, the launcher or the script.
NothingTrainedAgain ==
  [][pc = "launch" /\ pc' = "training" /\ loadFailures' = 0 =>
       \A s \in Steps : Complete(s) => s <= base']_vars

\* What is left to do until training has ended, if nothing fails any more.
WorkLeft ==
  LET onItsWay == 2 * Len(queue) + Len(writing)
      attempt == 4 * NTrainingSteps + 4
  IN  CASE pc = "launch" -> attempt
        [] pc = "scan" -> attempt + 1
        [] pc = "waiting" -> IF exitCode = 0 THEN 1 ELSE attempt + 2
        [] pc = "training" -> 4 * (NTrainingSteps - globalStep) + 3 + onItsWay
        [] pc = "closing" -> (IF exitCode = 0 THEN 2 ELSE attempt + 3) + onItsWay
        [] OTHER -> 0

\* Every step of launcher, training or writer that is not a crash or a failing load leaves
\* less to do, a write that fails included: between two failures an attempt takes only so
\* many steps, and one in which none happens ends training.
TrainingProceeds ==
  [][/\ crashes' >= crashes /\ loadFailures' >= loadFailures
     /\ crashes' > crashes \/ loadFailures' > loadFailures \/ WorkLeft' < WorkLeft]_vars
=============================================================================
