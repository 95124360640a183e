------------------------ MODULE CheckpointRestartProofs ------------------------
(***************************************************************************)
(* Proofs about CheckpointRestart, for every number of training steps,     *)
(* every saving interval and any number of crashes, failing writes and     *)
(* failing loads.                                                          *)
(***************************************************************************)
EXTENDS CheckpointRestart, FiniteSetTheorems, TLAPS

\* A checkpoint on its way to disk is one this run has trained.
Trained(c) == c.weights = c.step /\ base < c.step /\ c.step <= globalStep

\* Checkpoints are on their way in the order of their steps, and only in a live process.
InOrder ==
  /\ ~Alive => queue = <<>> /\ writing = <<>>
  /\ base <= globalStep
  /\ \A i \in 1 .. Len(queue) : Trained(queue[i])
  /\ \A i \in 1 .. Len(writing) : Trained(writing[i])
  /\ \A i, j \in 1 .. Len(queue) : i < j => queue[i].step < queue[j].step
  /\ \A i \in 1 .. Len(queue), j \in 1 .. Len(writing) : writing[j].step < queue[i].step

\* As long as every load has succeeded, no finished file lies ahead of the run in progress.
NothingAhead ==
  loadFailures = 0 =>
    /\ pc = "launch" /\ phase = "init" => \A s \in Steps : ~Complete(s)
    /\ Alive => \A s \in Steps : Complete(s) =>
                  s <= globalStep /\ \A i \in 1 .. Len(queue) : s < queue[i].step

\* As long as every write has succeeded, a path is finished or on its way.
PathsKept ==
  writeFailures = 0 /\ Alive =>
    \A k \in 1 .. Len(paths) :
      \/ Complete(paths[k])
      \/ \E i \in 1 .. Len(queue) : queue[i].step = paths[k]
      \/ \E i \in 1 .. Len(writing) : writing[i].step = paths[k]

\* A final checkpoint is reported once, by the run that ended well.
FinalIsLast == final # 0 => pc = "stopped" \/ (pc = "waiting" /\ exitCode = 0)

IInv ==
  /\ TypeOK /\ FileHoldsItsStep /\ BaseIsLoadable /\ FinalIsOnDisk
  /\ InOrder /\ NothingAhead /\ PathsKept /\ FinalIsLast

StaysUnlessLoadFailed == \A s \in Steps : Complete(s) /\ ~Complete(s)' => loadFailures > 0

-----------------------------------------------------------------------------
LEMMA StepsType ==
  /\ Steps \subseteq Nat /\ IsFiniteSet(Steps) /\ 0 \notin Steps
  /\ \A g \in Steps \union {0} : g < NTrainingSteps => g + 1 \in Steps
BY RestartAssumption, FS_Interval DEF Steps

\* The two outcomes of a search: it counts what it passed over, and what it did not count it
\* has not passed over.
LEMMA Found ==
  ASSUME TypeOK, NEW found \in Steps \union {0}, FindLatest(found)
  PROVE  /\ found # 0 => Complete(found)
         /\ loadFailures' \in 0 .. MaxLoadFailures
         /\ loadFailures' = 0 => /\ loadFailures = 0
                                 /\ \A s \in Steps : Complete(s) => s <= found
<1> DEFINE over == {s \in Steps : Complete(s) /\ s > found}
<1>1. IsFiniteSet(over) /\ Cardinality(over) \in Nat
  <2>1. over \in SUBSET Steps
    OBVIOUS
  <2> QED
    BY <2>1, StepsType, FS_Subset, FS_CardinalityType
<1>2. /\ found = 0 \/ (found \in Steps /\ Complete(found))
      /\ loadFailures + Cardinality(over) <= MaxLoadFailures
      /\ loadFailures' = loadFailures + Cardinality(over)
  BY DEF FindLatest
<1>3. loadFailures \in Nat /\ MaxLoadFailures \in Nat
  BY RestartAssumption DEF TypeOK
<1>4. loadFailures' = 0 => loadFailures = 0 /\ over = {}
  <2> HIDE DEF over
  <2>1. loadFailures' = 0 => loadFailures = 0 /\ Cardinality(over) = 0
    BY <1>1, <1>2, <1>3
  <2>2. Cardinality(over) = 0 => over = {}
    BY <1>1, FS_EmptySet
  <2> QED
    BY <2>1, <2>2
<1>5. found \in Nat
  BY StepsType
<1> HIDE DEF over
<1>6. loadFailures' \in 0 .. MaxLoadFailures
  BY <1>1, <1>2, <1>3
<1>7. over = {} => \A s \in Steps : Complete(s) => s <= found
  BY <1>5, StepsType DEF over
<1> QED
  BY <1>2, <1>4, <1>6, <1>7

-----------------------------------------------------------------------------
LEMMA InitIInv == Init => IInv
<1> SUFFICES ASSUME Init PROVE IInv
  OBVIOUS
<1> USE RestartAssumption DEF Init
<1>1. TypeOK
  <2>1. queue \in Seq(Checkpoint) /\ writing \in Seq(Checkpoint) /\ paths \in Seq(Steps)
        /\ Len(writing) = 0
    OBVIOUS
  <2>2. disk \in [Steps -> File]
    BY DEF File
  <2>3. /\ crashes \in 0 .. MaxCrashes /\ writeFailures \in 0 .. MaxWriteFailures
        /\ loadFailures \in 0 .. MaxLoadFailures
    OBVIOUS
  <2>4. /\ pc \in {"scan", "launch", "waiting", "stopped", "training", "closing"}
        /\ phase \in {"init", "resume"} /\ exitCode \in {0, 1} /\ freezeSteps \in FreezeSteps
    OBVIOUS
  <2>5. base \in Steps \union {0} /\ globalStep \in Steps \union {0} /\ final \in Steps \union {0}
    OBVIOUS
  <2>6. /\ frozen \in BOOLEAN /\ alreadyFrozen \in BOOLEAN /\ alreadyUnfrozen \in BOOLEAN
        /\ thawedEarly \in BOOLEAN
    OBVIOUS
  <2>7. Len(writing) <= 1
    BY <2>1
  <2> HIDE DEF Init
  <2> QED
    BY ONLY <2>1, <2>2, <2>3, <2>4, <2>5, <2>6, <2>7 DEF TypeOK
<1>2. \A s \in Steps : ~Complete(s)
  BY DEF Complete
<1>3. FileHoldsItsStep /\ BaseIsLoadable /\ FinalIsOnDisk
  BY <1>2 DEF FileHoldsItsStep, BaseIsLoadable, FinalIsOnDisk
<1>4. InOrder /\ NothingAhead /\ PathsKept /\ FinalIsLast
  BY DEF InOrder, NothingAhead, PathsKept, FinalIsLast, Alive
<1> QED
  BY <1>1, <1>3, <1>4 DEF IInv

\* A new process starts from a file that is whole, or from nothing.
LEMMA StartPreserves ==
  ASSUME IInv, NEW from \in Steps \union {0}, StartTraining(from),
         from # 0 => Complete(from),
         loadFailures' \in 0 .. MaxLoadFailures,
         loadFailures' = 0 => \A s \in Steps : Complete(s) => s <= from,
         pc = "launch",
         UNCHANGED <<launcherVars, thawedEarly, disk, crashes, writeFailures>>
  PROVE  IInv'
<1> USE DEF StartTraining, launcherVars
<1>1. TypeOK'
  <2>1. /\ queue' \in Seq(Checkpoint) /\ writing' \in Seq(Checkpoint) /\ paths' \in Seq(Steps)
        /\ Len(writing') <= 1
    OBVIOUS
  <2> QED
    BY <2>1 DEF IInv, TypeOK
<1>2. \A s \in Steps \union {0} : Complete(s)' <=> Complete(s)
  BY DEF Complete
<1>3. final = 0
  BY DEF IInv, FinalIsLast
<1>4. FileHoldsItsStep' /\ BaseIsLoadable' /\ FinalIsOnDisk' /\ FinalIsLast'
  BY <1>2, <1>3 DEF IInv, FileHoldsItsStep, BaseIsLoadable, FinalIsOnDisk, FinalIsLast
<1>5. InOrder' /\ PathsKept'
  BY StepsType DEF InOrder, PathsKept, Alive
<1>6. NothingAhead'
  BY <1>2, StepsType DEF NothingAhead, Alive
<1> QED
  BY <1>1, <1>4, <1>5, <1>6 DEF IInv

\* A step of the launcher without a training process leaves the disk alone.
LEMMA LauncherPreserves ==
  ASSUME IInv, Launcher \/ LoadError
  PROVE  IInv'
<1>1. CASE Scan
  <2>1. PICK found \in Steps \union {0} :
          FindLatest(found) /\ phase' = IF found = 0 THEN "init" ELSE "resume"
    BY <1>1 DEF Scan
  <2>2. /\ loadFailures' \in 0 .. MaxLoadFailures
        /\ loadFailures' = 0 => \A s \in Steps : Complete(s) => s <= found
    BY <2>1, Found DEF IInv
  <2> USE <1>1 DEF Scan, trainVars, saveVars
  <2>3. TypeOK'
    BY <2>1, <2>2 DEF IInv, TypeOK
  <2>4. \A s \in Steps \union {0} : Complete(s)' <=> Complete(s)
    BY DEF Complete
  <2>5. FileHoldsItsStep' /\ BaseIsLoadable' /\ FinalIsOnDisk' /\ FinalIsLast'
    BY <2>4 DEF IInv, FileHoldsItsStep, BaseIsLoadable, FinalIsOnDisk, FinalIsLast
  <2>6. InOrder' /\ PathsKept'
    BY DEF IInv, InOrder, PathsKept, Alive, Trained
  <2>7. NothingAhead'
    <3>1. found = 0 /\ loadFailures' = 0 => \A s \in Steps : ~Complete(s)
      BY <2>2, StepsType DEF Steps
    <3> QED
      BY <2>1, <2>4, <3>1 DEF NothingAhead, Alive
  <2> QED
    BY <2>3, <2>5, <2>6, <2>7 DEF IInv
<1>2. CASE LaunchInit
  <2>1. loadFailures' = 0 => \A s \in Steps : Complete(s) => s <= 0
    BY <1>2 DEF LaunchInit, countVars, IInv, NothingAhead
  <2>2. loadFailures' \in 0 .. MaxLoadFailures
    BY <1>2 DEF LaunchInit, countVars, IInv, TypeOK
  <2> QED
    BY <1>2, <2>1, <2>2, StartPreserves DEF LaunchInit, countVars
<1>3. CASE LaunchResume
  <2>1. PICK found \in Steps \union {0} :
          /\ FindLatest(found)
          /\ IF found # 0 THEN StartTraining(found) /\ UNCHANGED <<exitCode, thawedEarly, disk>>
             ELSE pc' = "waiting" /\ exitCode' = 1 /\ UNCHANGED <<trainVars, saveVars>>
    BY <1>3 DEF LaunchResume
  <2>2. /\ found # 0 => Complete(found)
        /\ loadFailures' \in 0 .. MaxLoadFailures
        /\ loadFailures' = 0 => \A s \in Steps : Complete(s) => s <= found
    BY <2>1, Found DEF IInv
  <2>3. CASE found # 0
    BY <1>3, <2>1, <2>2, <2>3, StartPreserves DEF LaunchResume, launcherVars
  <2>4. CASE found = 0
    <3> USE <1>3, <2>1, <2>4 DEF LaunchResume, trainVars, saveVars
    <3>1. TypeOK'
      BY <2>2 DEF IInv, TypeOK
    <3>2. \A s \in Steps \union {0} : Complete(s)' <=> Complete(s)
      BY DEF Complete
    <3>3. final = 0
      BY DEF IInv, FinalIsLast
    <3>4. FileHoldsItsStep' /\ BaseIsLoadable' /\ FinalIsOnDisk' /\ FinalIsLast'
      <4>1. final' = 0 /\ pc' = "waiting"
        BY <3>3
      <4> QED
        BY <3>2, <4>1 DEF IInv, FileHoldsItsStep, BaseIsLoadable, FinalIsOnDisk, FinalIsLast
    <3>5. InOrder' /\ PathsKept' /\ NothingAhead'
      BY DEF IInv, InOrder, PathsKept, NothingAhead, Alive, Trained
    <3> QED
      BY <3>1, <3>4, <3>5 DEF IInv
  <2> QED
    BY <2>3, <2>4
<1>4. CASE Restart
  <2> USE <1>4 DEF Restart, launcherVars, trainVars, saveVars, countVars
  <2>1. TypeOK'
    BY DEF IInv, TypeOK
  <2>2. \A s \in Steps \union {0} : Complete(s)' <=> Complete(s)
    BY DEF Complete
  <2>3. FileHoldsItsStep' /\ BaseIsLoadable' /\ FinalIsOnDisk' /\ FinalIsLast'
    <3>1. final \in Steps \union {0} /\ (Complete(final)' <=> Complete(final))
      BY <2>2 DEF IInv, TypeOK
    <3> QED
      BY <2>2, <3>1 DEF IInv, FileHoldsItsStep, BaseIsLoadable, FinalIsOnDisk, FinalIsLast
  <2>4. InOrder' /\ PathsKept' /\ NothingAhead'
    BY DEF IInv, InOrder, PathsKept, NothingAhead, Alive, Trained
  <2> QED
    BY <2>1, <2>3, <2>4 DEF IInv
<1>5. CASE LoadError
  <2> USE <1>5 DEF LoadError, trainVars, saveVars
  <2>1. TypeOK'
    BY RestartAssumption DEF IInv, TypeOK
  <2>2. \A s \in Steps \union {0} : Complete(s)' <=> Complete(s)
    BY DEF Complete
  <2>3. final = 0
    BY DEF IInv, FinalIsLast
  <2>4. FileHoldsItsStep' /\ BaseIsLoadable' /\ FinalIsOnDisk' /\ FinalIsLast'
    BY <2>2, <2>3 DEF IInv, FileHoldsItsStep, BaseIsLoadable, FinalIsOnDisk, FinalIsLast
  <2>5. InOrder' /\ PathsKept' /\ NothingAhead'
    BY DEF IInv, InOrder, PathsKept, NothingAhead, Alive, Trained
  <2> QED
    BY <2>1, <2>4, <2>5 DEF IInv
<1> QED
  BY <1>1, <1>2, <1>3, <1>4, <1>5 DEF Launcher

\* A checkpoint that is saved is newer than all that are on their way or finished.
LEMMA TrainBatchPreserves ==
  ASSUME IInv, TrainBatch
  PROVE  IInv'
<1> USE DEF TrainBatch, launcherVars, countVars
<1>1. globalStep' \in Steps /\ globalStep' = globalStep + 1 /\ globalStep \in Nat /\ base \in Nat
  BY StepsType DEF IInv, TypeOK
<1>2. CASE UNCHANGED <<paths, queue>>
  <2>1. TypeOK'
    BY <1>1, <1>2 DEF IInv, TypeOK, FreezeLayers
  <2>2. \A s \in Steps \union {0} : Complete(s)' <=> Complete(s)
    BY DEF Complete
  <2>3. final = 0
    BY DEF IInv, FinalIsLast
  <2>4. FileHoldsItsStep' /\ BaseIsLoadable' /\ FinalIsOnDisk' /\ FinalIsLast'
    BY <1>1, <2>2, <2>3 DEF IInv, TypeOK, FileHoldsItsStep, BaseIsLoadable, FinalIsOnDisk, FinalIsLast
  <2>5. InOrder'
    <3>1. \A c \in Checkpoint : Trained(c) => Trained(c)'
      BY <1>1, StepsType DEF Trained, Checkpoint
    <3>2. /\ \A i \in 1 .. Len(queue) : queue[i] \in Checkpoint
          /\ \A i \in 1 .. Len(writing) : writing[i] \in Checkpoint
      BY DEF IInv, TypeOK
    <3>3. /\ \A i \in 1 .. Len(queue) : Trained(queue[i])'
          /\ \A i \in 1 .. Len(writing) : Trained(writing[i])'
      BY <1>2, <3>1, <3>2 DEF IInv, InOrder, Trained
    <3> QED
      BY <1>1, <1>2, <3>3 DEF IInv, InOrder, Alive
  <2>6. PathsKept'
    BY <1>2 DEF IInv, PathsKept, Alive, Complete
  <2>7. NothingAhead'
    BY <1>1, <1>2, <2>2, StepsType DEF IInv, NothingAhead, Alive
  <2> QED
    BY <2>1, <2>4, <2>5, <2>6, <2>7 DEF IInv
<1>3. CASE SaveCheckpoint(globalStep', globalStep')
  <2>0. PICK new : new = [step |-> globalStep', weights |-> globalStep']
    OBVIOUS
  <2>1. new \in Checkpoint /\ new.step = globalStep' /\ new.weights = globalStep'
    BY <1>1, <2>0, StepsType DEF Checkpoint
  <2>2. queue \in Seq(Checkpoint) /\ paths \in Seq(Steps) /\ Len(queue) \in Nat /\ Len(paths) \in Nat
    BY DEF IInv, TypeOK
  <2>3. queue' = Append(queue, new) /\ paths' = Append(paths, globalStep')
    BY <1>3, <2>0 DEF SaveCheckpoint
  <2>4. /\ queue' \in Seq(Checkpoint) /\ Len(queue') = Len(queue) + 1
        /\ \A i \in 1 .. Len(queue) : queue'[i] = queue[i] /\ queue[i] \in Checkpoint
        /\ queue'[Len(queue) + 1] = new
    BY <2>1, <2>2, <2>3
  <2>5. /\ paths' \in Seq(Steps) /\ Len(paths') = Len(paths) + 1
        /\ \A i \in 1 .. Len(paths) : paths'[i] = paths[i]
        /\ paths'[Len(paths) + 1] = globalStep'
    BY <1>1, <2>2, <2>3
  <2>6. TypeOK'
    BY <1>1, <2>4, <2>5 DEF IInv, TypeOK, FreezeLayers
  <2>7. \A s \in Steps \union {0} : Complete(s)' <=> Complete(s)
    BY DEF Complete
  <2>8. final = 0
    BY DEF IInv, FinalIsLast
  <2>9. FileHoldsItsStep' /\ BaseIsLoadable' /\ FinalIsOnDisk' /\ FinalIsLast'
    BY <1>1, <2>7, <2>8 DEF IInv, TypeOK, FileHoldsItsStep, BaseIsLoadable, FinalIsOnDisk, FinalIsLast
  <2>10. \A i \in 1 .. Len(queue') : i \in 1 .. Len(queue) \/ i = Len(queue) + 1
    BY <2>2, <2>4
  <2>11. InOrder'
    <3>1. \A c \in Checkpoint : Trained(c) => Trained(c)' /\ c.step < globalStep'
      BY <1>1, StepsType DEF Trained, Checkpoint
    <3>2. Trained(new)'
      BY <1>1, <2>1, StepsType DEF Trained, IInv, InOrder
    <3>3. \A i \in 1 .. Len(writing) : Trained(writing[i])' /\ writing[i].step < globalStep'
      BY <3>1 DEF IInv, TypeOK, InOrder
    <3>4. \A i \in 1 .. Len(queue) : Trained(queue[i])' /\ queue[i].step < globalStep'
      BY <2>4, <3>1 DEF IInv, InOrder
    <3>5. \A i \in 1 .. Len(queue') : Trained(queue[i])'
      BY <2>4, <2>10, <3>2, <3>4 DEF Trained
    <3>6. \A i, j \in 1 .. Len(queue') : i < j => queue'[i].step < queue'[j].step
      BY <2>1, <2>2, <2>4, <2>10, <3>4 DEF IInv, InOrder
    <3>7. \A i \in 1 .. Len(queue'), j \in 1 .. Len(writing) : writing[j].step < queue'[i].step
      BY <2>1, <2>4, <2>10, <3>3 DEF IInv, InOrder
    <3> QED
      BY <1>1, <3>3, <3>5, <3>6, <3>7 DEF IInv, InOrder, Alive, Trained
  <2>12. PathsKept'
    <3> SUFFICES ASSUME (writeFailures = 0 /\ Alive)', NEW k \in 1 .. Len(paths')
                 PROVE  \/ Complete(paths[k])'
                        \/ \E i \in 1 .. Len(queue') : queue'[i].step = paths'[k]
                        \/ \E i \in 1 .. Len(writing') : writing'[i].step = paths'[k]
      BY DEF PathsKept
    <3>1. CASE k = Len(paths) + 1
      <4>1. Len(queue) + 1 \in 1 .. Len(queue') /\ queue'[Len(queue) + 1].step = paths'[k]
        BY <2>1, <2>2, <2>4, <2>5, <3>1
      <4> QED
        BY <4>1
    <3>2. CASE k \in 1 .. Len(paths)
      <4>1. \/ Complete(paths[k])
            \/ \E i \in 1 .. Len(queue) : queue[i].step = paths[k]
            \/ \E i \in 1 .. Len(writing) : writing[i].step = paths[k]
        BY <3>2 DEF IInv, PathsKept, Alive
      <4>2. \A i \in 1 .. Len(queue) : i \in 1 .. Len(queue')
        BY <2>2, <2>4
      <4> QED
        BY <2>4, <2>5, <3>2, <4>1, <4>2 DEF Complete
    <3> QED
      BY <2>2, <2>5, <3>1, <3>2
  <2>13. NothingAhead'
    <3> SUFFICES ASSUME loadFailures = 0, NEW s \in Steps, Complete(s)
                 PROVE  s <= globalStep' /\ \A i \in 1 .. Len(queue') : s < queue'[i].step
      BY <2>7 DEF NothingAhead, Alive
    <3>1. s <= globalStep /\ \A i \in 1 .. Len(queue) : s < queue[i].step
      BY DEF IInv, NothingAhead, Alive
    <3> QED
      BY <1>1, <2>1, <2>4, <2>10, <3>1, StepsType
  <2> QED
    BY <2>6, <2>9, <2>11, <2>12, <2>13 DEF IInv
<1> QED
  BY <1>2, <1>3

\* The ways a run of training ends; only the good one reports a final checkpoint.
LEMMA EndPreserves ==
  ASSUME IInv, Finish \/ Raise \/ Kill \/ Close
  PROVE  IInv'
<1>1. CASE Finish
  <2> USE <1>1 DEF Finish, launcherVars, trainVars, saveVars, countVars
  <2>1. TypeOK'
    BY RestartAssumption DEF IInv, TypeOK
  <2>2. \A s \in Steps \union {0} : Complete(s)' <=> Complete(s)
    BY DEF Complete
  <2>3. final = 0 /\ FileHoldsItsStep' /\ BaseIsLoadable' /\ FinalIsOnDisk' /\ FinalIsLast'
    <3>1. final = 0
      BY DEF IInv, FinalIsLast
    <3> QED
      BY <2>2, <3>1 DEF IInv, TypeOK, FileHoldsItsStep, BaseIsLoadable, FinalIsOnDisk, FinalIsLast
  <2>4. InOrder' /\ PathsKept' /\ NothingAhead'
    BY DEF IInv, InOrder, PathsKept, NothingAhead, Alive, Trained, Complete
  <2> QED
    BY <2>1, <2>3, <2>4 DEF IInv
<1>2. CASE Raise
  <2> USE <1>2 DEF Raise, launcherVars, trainVars, saveVars, countVars
  <2>1. TypeOK'
    BY RestartAssumption DEF IInv, TypeOK
  <2>2. \A s \in Steps \union {0} : Complete(s)' <=> Complete(s)
    BY DEF Complete
  <2>3. final = 0 /\ FileHoldsItsStep' /\ BaseIsLoadable' /\ FinalIsOnDisk' /\ FinalIsLast'
    <3>1. final = 0
      BY DEF IInv, FinalIsLast
    <3> QED
      BY <2>2, <3>1 DEF IInv, TypeOK, FileHoldsItsStep, BaseIsLoadable, FinalIsOnDisk, FinalIsLast
  <2>4. InOrder' /\ PathsKept' /\ NothingAhead'
    BY DEF IInv, InOrder, PathsKept, NothingAhead, Alive, Trained, Complete
  <2> QED
    BY <2>1, <2>3, <2>4 DEF IInv
<1>3. CASE Kill
  <2> USE <1>3 DEF Kill, launcherVars, trainVars, saveVars, countVars
  <2>1. TypeOK'
    BY RestartAssumption DEF IInv, TypeOK
  <2>2. \A s \in Steps \union {0} : Complete(s)' <=> Complete(s)
    BY DEF Complete
  <2>3. final = 0 /\ FileHoldsItsStep' /\ BaseIsLoadable' /\ FinalIsOnDisk' /\ FinalIsLast'
    <3>1. final = 0
      BY DEF IInv, FinalIsLast
    <3> QED
      BY <2>2, <3>1 DEF IInv, TypeOK, FileHoldsItsStep, BaseIsLoadable, FinalIsOnDisk, FinalIsLast
  <2>4. InOrder' /\ PathsKept' /\ NothingAhead'
    BY DEF IInv, InOrder, PathsKept, NothingAhead, Alive, Trained, Complete
  <2> QED
    BY <2>1, <2>3, <2>4 DEF IInv
<1>4. CASE Close
  <2> USE <1>4 DEF Close, trainVars, saveVars, countVars
  <2>1. /\ paths \in Seq(Steps) /\ Len(paths) \in Nat
        /\ paths # <<>> => Len(paths) \in 1 .. Len(paths) /\ paths[Len(paths)] \in Steps
    BY DEF IInv, TypeOK
  <2>2. TypeOK'
    BY <2>1 DEF IInv, TypeOK
  <2>3. \A s \in Steps \union {0} : Complete(s)' <=> Complete(s)
    BY DEF Complete
  <2>4. final = 0
    BY DEF IInv, FinalIsLast
  <2>5. FinalIsOnDisk'
    <3>1. SUFFICES ASSUME exitCode = 0, paths # <<>>, writeFailures = 0
                   PROVE  Complete(paths[Len(paths)])
      BY <2>1, <2>3, <2>4 DEF IInv, TypeOK, FinalIsOnDisk
    <3>2. Len(queue) = 0 /\ Len(writing) = 0
      OBVIOUS
    <3> QED
      BY <2>1, <3>1, <3>2 DEF IInv, PathsKept, Alive
  <2>6. FileHoldsItsStep' /\ BaseIsLoadable' /\ FinalIsLast'
    BY <2>3, <2>4 DEF IInv, FileHoldsItsStep, BaseIsLoadable, FinalIsLast
  <2>7. InOrder' /\ PathsKept' /\ NothingAhead'
    BY DEF IInv, InOrder, PathsKept, NothingAhead, Alive, Trained
  <2> QED
    BY <2>2, <2>5, <2>6, <2>7 DEF IInv
<1> QED
  BY <1>1, <1>2, <1>3, <1>4

\* Taking up the first of the queue.
LEMMA TakeUp ==
  ASSUME IInv, queue # <<>>
  PROVE  /\ Head(queue) \in Checkpoint /\ Head(queue) = queue[1] /\ 1 \in 1 .. Len(queue)
         /\ Tail(queue) \in Seq(Checkpoint) /\ Len(Tail(queue)) = Len(queue) - 1
         /\ Len(queue) \in Nat \ {0}
         /\ \A i \in 1 .. Len(Tail(queue)) :
              i + 1 \in 1 .. Len(queue) /\ Tail(queue)[i] = queue[i + 1]
         /\ \A i \in 1 .. Len(queue) :
              i = 1 \/ (i - 1 \in 1 .. Len(Tail(queue)) /\ Tail(queue)[i - 1] = queue[i])
<1>1. queue \in Seq(Checkpoint)
  BY DEF IInv, TypeOK
<1> QED
  BY <1>1

\* The file that is opened is newer than the one the run came from.
LEMMA OpenFilePreserves ==
  ASSUME IInv, OpenFile
  PROVE  IInv' /\ StaysUnlessLoadFailed
<1> USE DEF OpenFile, launcherVars, trainVars, countVars
<1>1. PICK c : c = Head(queue)
  OBVIOUS
<1>2. /\ c \in Checkpoint /\ c = queue[1] /\ c.step \in Steps
      /\ writing' = <<c>> /\ queue' = Tail(queue)
      /\ disk' = [disk EXCEPT ![c.step] = [state |-> "partial", weights |-> 0]]
  BY <1>1, TakeUp DEF Checkpoint
<1>3. Trained(c) /\ base \in Nat
  BY <1>2, TakeUp, StepsType DEF IInv, TypeOK, InOrder
<1>4. writing' \in Seq(Checkpoint) /\ Len(writing') = 1 /\ writing'[1] = c
  BY <1>2
<1>5. [state |-> "partial", weights |-> 0] \in File
  BY DEF File
<1>6. disk' \in [Steps -> File]
  BY <1>2, <1>5 DEF IInv, TypeOK
<1>7. TypeOK'
  BY <1>2, <1>4, <1>6, TakeUp DEF IInv, TypeOK
<1>8. /\ \A s \in Steps : s # c.step => disk'[s] = disk[s]
      /\ disk'[c.step].state = "partial"
  BY <1>2 DEF IInv, TypeOK
<1>9. \A s \in Steps : Complete(s)' <=> s # c.step /\ Complete(s)
  BY <1>2, <1>8 DEF Complete
<1>10. FileHoldsItsStep'
  BY <1>8, <1>9 DEF IInv, FileHoldsItsStep
<1>11. BaseIsLoadable'
  <2>1. base # 0 => base \in Steps /\ base # c.step
    BY <1>2, <1>3, StepsType DEF Trained, IInv, TypeOK
  <2> QED
    BY <1>9, <2>1 DEF IInv, BaseIsLoadable
<1>12. final = 0
  BY DEF IInv, FinalIsLast, Alive
<1>13. FinalIsOnDisk' /\ FinalIsLast'
  BY <1>12 DEF FinalIsOnDisk, FinalIsLast
<1>14. InOrder'
  <2>1. \A i \in 1 .. Len(queue') : Trained(queue'[i])
    BY <1>2, TakeUp DEF IInv, InOrder
  <2>2. \A i \in 1 .. Len(queue') : c.step < queue'[i].step
    <3> SUFFICES ASSUME NEW i \in 1 .. Len(queue') PROVE c.step < queue'[i].step
      OBVIOUS
    <3>1. 1 < i + 1 /\ i + 1 \in 1 .. Len(queue) /\ 1 \in 1 .. Len(queue)
      BY <1>2, TakeUp
    <3>2. queue[1].step < queue[i + 1].step
      BY <3>1 DEF IInv, InOrder
    <3> QED
      BY <1>2, <3>2, TakeUp
  <2>3. \A i, j \in 1 .. Len(queue') : i < j => queue'[i].step < queue'[j].step
    <3> SUFFICES ASSUME NEW i \in 1 .. Len(queue'), NEW j \in 1 .. Len(queue'), i < j
                 PROVE  queue'[i].step < queue'[j].step
      OBVIOUS
    <3>1. i + 1 < j + 1 /\ i + 1 \in 1 .. Len(queue) /\ j + 1 \in 1 .. Len(queue)
      BY <1>2, TakeUp
    <3>2. queue[i + 1].step < queue[j + 1].step
      BY <3>1 DEF IInv, InOrder
    <3> QED
      BY <1>2, <3>2, TakeUp
  <2>4. \A i \in 1 .. Len(writing') : writing'[i] = c
    BY <1>4
  <2> QED
    BY <1>3, <2>1, <2>2, <2>3, <2>4 DEF IInv, InOrder, Alive, Trained
<1>15. NothingAhead'
  <2> SUFFICES ASSUME loadFailures = 0, NEW s \in Steps, Complete(s)
               PROVE  s <= globalStep /\ \A i \in 1 .. Len(queue') : s < queue'[i].step
    BY <1>9 DEF NothingAhead, Alive
  <2> QED
    BY <1>2, TakeUp DEF IInv, NothingAhead, Alive
<1>16. PathsKept'
  <2> SUFFICES ASSUME writeFailures = 0, NEW k \in 1 .. Len(paths)
               PROVE  \/ Complete(paths[k])'
                      \/ \E i \in 1 .. Len(queue') : queue'[i].step = paths[k]
                      \/ \E i \in 1 .. Len(writing') : writing'[i].step = paths[k]
    BY DEF PathsKept
  <2>1. paths[k] \in Steps
    BY DEF IInv, TypeOK
  <2>2. \/ Complete(paths[k])
        \/ \E i \in 1 .. Len(queue) : queue[i].step = paths[k]
    BY DEF IInv, PathsKept, Alive
  <2>3. CASE paths[k] = c.step
    BY <1>4, <2>3
  <2>4. CASE Complete(paths[k]) /\ paths[k] # c.step
    BY <1>9, <2>1, <2>4 DEF Complete
  <2>5. ASSUME NEW i \in 1 .. Len(queue), queue[i].step = paths[k], paths[k] # c.step
        PROVE  \E h \in 1 .. Len(queue') : queue'[h].step = paths[k]
    <3>1. i # 1
      BY <1>2, <2>5
    <3>2. i - 1 \in 1 .. Len(queue') /\ queue'[i - 1] = queue[i]
      BY <1>2, <3>1, TakeUp
    <3> QED
      BY <2>5, <3>2
  <2> QED
    BY <2>2, <2>3, <2>4, <2>5
<1>17. StaysUnlessLoadFailed
  <2> SUFFICES ASSUME NEW s \in Steps, Complete(s), ~Complete(s)', loadFailures = 0 PROVE FALSE
    BY RestartAssumption DEF StaysUnlessLoadFailed, IInv, TypeOK
  <2>1. s = queue[1].step
    BY <1>2, <1>9
  <2>2. s < queue[1].step
    BY TakeUp DEF IInv, NothingAhead, Alive
  <2> QED
    BY <2>1, <2>2, StepsType
<1> QED
  BY <1>7, <1>10, <1>11, <1>13, <1>14, <1>15, <1>16, <1>17 DEF IInv

\* What is written is what was serialised, and its step is the name of the file.
LEMMA WriteFilePreserves ==
  ASSUME IInv, WriteFile
  PROVE  IInv' /\ StaysUnlessLoadFailed
<1> USE DEF WriteFile, launcherVars, trainVars, countVars
<1>1. PICK c : c = writing[1]
  OBVIOUS
<1>2. /\ Len(writing) = 1 /\ c \in Checkpoint /\ c.step \in Steps /\ c.weights \in Nat
      /\ \A i \in 1 .. Len(writing) : writing[i] = c
  <2> HIDE DEF WriteFile
  <2>1. writing \in Seq(Checkpoint) /\ Len(writing) \in Nat /\ Len(writing) <= 1
    BY DEF IInv, TypeOK
  <2>2. Len(writing) # 0
    BY <2>1 DEF WriteFile
  <2>3. Len(writing) = 1
    <3>1. \A m \in Nat : m <= 1 /\ m # 0 => m = 1
      OBVIOUS
    <3> QED
      BY <2>1, <2>2, <3>1, Zenon
  <2>4. c \in Checkpoint
    BY <1>1, <2>1, <2>3
  <2> QED
    BY <1>1, <2>3, <2>4 DEF Checkpoint
<1>3. c.weights = c.step
  BY <1>1, <1>2 DEF IInv, InOrder, Trained
<1>4. disk' = [disk EXCEPT ![c.step] = [state |-> "complete", weights |-> c.weights]]
  BY <1>1
<1>5. disk' \in [Steps -> File]
  <2>1. [state |-> "complete", weights |-> c.weights] \in File
    BY <1>2 DEF File
  <2> QED
    BY <1>2, <1>4, <2>1 DEF IInv, TypeOK
<1>6. writing' \in Seq(Checkpoint) /\ Len(writing') = 0
  OBVIOUS
<1>7. TypeOK'
  BY <1>5, <1>6 DEF IInv, TypeOK
<1>8. /\ \A s \in Steps : s # c.step => disk'[s] = disk[s]
      /\ disk'[c.step].state = "complete" /\ disk'[c.step].weights = c.step
  BY <1>2, <1>3, <1>4 DEF IInv, TypeOK
<1>9. \A s \in Steps : Complete(s)' <=> s = c.step \/ Complete(s)
  BY <1>2, <1>8 DEF Complete
<1>10. FileHoldsItsStep'
  BY <1>8, <1>9 DEF IInv, FileHoldsItsStep
<1>11. BaseIsLoadable'
  BY <1>9 DEF IInv, TypeOK, BaseIsLoadable
<1>12. final = 0
  BY DEF IInv, FinalIsLast, Alive
<1>13. FinalIsOnDisk' /\ FinalIsLast'
  BY <1>12 DEF FinalIsOnDisk, FinalIsLast
<1>14. InOrder'
  BY <1>6 DEF IInv, InOrder, Alive, Trained
<1>15. NothingAhead'
  <2>1. c.step <= globalStep /\ \A i \in 1 .. Len(queue) : c.step < queue[i].step
    BY <1>1, <1>2 DEF IInv, InOrder, Trained
  <2> QED
    BY <1>9, <2>1 DEF IInv, NothingAhead, Alive
<1>16. PathsKept'
  <2> SUFFICES ASSUME writeFailures = 0, NEW k \in 1 .. Len(paths)
               PROVE  \/ Complete(paths[k])'
                      \/ \E i \in 1 .. Len(queue) : queue[i].step = paths[k]
    BY DEF PathsKept
  <2>1. paths[k] \in Steps
    BY DEF IInv, TypeOK
  <2>2. \/ Complete(paths[k]) \/ paths[k] = c.step
        \/ \E i \in 1 .. Len(queue) : queue[i].step = paths[k]
    BY <1>2 DEF IInv, PathsKept, Alive
  <2>3. Complete(paths[k])' <=> disk'[paths[k]].state = "complete"
    BY DEF Complete
  <2> QED
    BY <1>8, <2>1, <2>2, <2>3 DEF Complete
<1>17. StaysUnlessLoadFailed
  BY <1>9 DEF StaysUnlessLoadFailed
<1> QED
  BY <1>7, <1>10, <1>11, <1>13, <1>14, <1>15, <1>16, <1>17 DEF IInv

\* A write that fails: what it was to write is on its way no longer.
LEMMA WriteFailurePreserves ==
  ASSUME IInv, OpenError \/ WriteError
  PROVE  IInv'
<1>1. writeFailures' # 0 /\ writeFailures' \in 0 .. MaxWriteFailures
  BY RestartAssumption DEF OpenError, WriteError, IInv, TypeOK
<1>2. final = 0
  BY DEF OpenError, WriteError, IInv, FinalIsLast, Alive
<1>3. CASE OpenError
  <2> USE <1>3 DEF OpenError, launcherVars, trainVars
  <2>1. TypeOK'
    BY <1>1, TakeUp DEF IInv, TypeOK
  <2>2. \A s \in Steps \union {0} : Complete(s)' <=> Complete(s)
    BY DEF Complete
  <2>3. FileHoldsItsStep' /\ BaseIsLoadable' /\ FinalIsOnDisk' /\ FinalIsLast' /\ PathsKept'
    BY <1>1, <1>2, <2>2 DEF IInv, TypeOK, FileHoldsItsStep, BaseIsLoadable, FinalIsOnDisk,
                            FinalIsLast, PathsKept
  <2>4. \A i, j \in 1 .. Len(queue') : i < j => queue'[i].step < queue'[j].step
    <3> SUFFICES ASSUME NEW i \in 1 .. Len(queue'), NEW j \in 1 .. Len(queue'), i < j
                 PROVE  queue'[i].step < queue'[j].step
      OBVIOUS
    <3>1. i + 1 < j + 1 /\ i + 1 \in 1 .. Len(queue) /\ j + 1 \in 1 .. Len(queue)
      BY TakeUp
    <3>2. queue[i + 1].step < queue[j + 1].step
      BY <3>1 DEF IInv, InOrder
    <3> QED
      BY <3>2, TakeUp
  <2>5. \A i \in 1 .. Len(queue') : Trained(queue'[i])
    BY TakeUp DEF IInv, InOrder
  <2>6. InOrder'
    BY <2>4, <2>5 DEF IInv, InOrder, Alive, Trained
  <2>7. NothingAhead'
    BY <2>2, TakeUp DEF IInv, NothingAhead, Alive
  <2> QED
    BY <2>1, <2>3, <2>6, <2>7 DEF IInv
<1>4. CASE WriteError
  <2> USE <1>4 DEF WriteError, launcherVars, trainVars
  <2>1. writing' \in Seq(Checkpoint) /\ Len(writing') = 0
    OBVIOUS
  <2>2. TypeOK'
    BY <1>1, <2>1 DEF IInv, TypeOK
  <2>3. \A s \in Steps \union {0} : Complete(s)' <=> Complete(s)
    BY DEF Complete
  <2>4. FileHoldsItsStep' /\ BaseIsLoadable' /\ FinalIsOnDisk' /\ FinalIsLast' /\ PathsKept'
    BY <1>1, <1>2, <2>3 DEF IInv, TypeOK, FileHoldsItsStep, BaseIsLoadable, FinalIsOnDisk,
                            FinalIsLast, PathsKept
  <2>5. InOrder' /\ NothingAhead'
    BY <2>1, <2>3 DEF IInv, InOrder, NothingAhead, Alive, Trained
  <2> QED
    BY <2>2, <2>4, <2>5 DEF IInv
<1> QED
  BY <1>3, <1>4

LEMMA StutterPreserves ==
  ASSUME IInv, UNCHANGED vars
  PROVE  IInv'
<1> USE DEF vars, launcherVars, trainVars, saveVars, countVars
<1>1. TypeOK' /\ FileHoldsItsStep' /\ BaseIsLoadable' /\ FinalIsOnDisk'
  BY DEF IInv, TypeOK, FileHoldsItsStep, BaseIsLoadable, FinalIsOnDisk, Complete
<1>2. InOrder' /\ NothingAhead' /\ PathsKept' /\ FinalIsLast'
  BY DEF IInv, InOrder, NothingAhead, PathsKept, FinalIsLast, Complete, Alive, Trained
<1> QED
  BY <1>1, <1>2 DEF IInv

\* Only the writer's thread touches files.
LEMMA DiskUntouched ==
  ASSUME [Next]_vars, ~OpenFile, ~WriteFile
  PROVE  disk' = disk
BY DEF Next, vars, saveVars, trainVars, launcherVars, countVars, Launcher, Training, Writer,
       Scan, LaunchInit, LaunchResume, Restart, LoadError, TrainBatch, Finish, Close, Raise,
       Kill, OpenError, WriteError

LEMMA StepIInv == IInv /\ [Next]_vars => IInv' /\ StaysUnlessLoadFailed
<1> SUFFICES ASSUME IInv, [Next]_vars PROVE IInv' /\ StaysUnlessLoadFailed
  OBVIOUS
<1>1. CASE OpenFile
  BY <1>1, OpenFilePreserves
<1>2. CASE WriteFile
  BY <1>2, WriteFilePreserves
<1>3. CASE ~OpenFile /\ ~WriteFile
  <2>1. IInv'
    BY <1>3, LauncherPreserves, TrainBatchPreserves, EndPreserves, WriteFailurePreserves,
       StutterPreserves DEF Next, Training, Writer
  <2>2. StaysUnlessLoadFailed
    BY <1>3, DiskUntouched DEF StaysUnlessLoadFailed, Complete
  <2> QED
    BY <2>1, <2>2
<1> QED
  BY <1>1, <1>2, <1>3

LEMMA Invariance == Spec => []IInv
BY InitIInv, StepIInv, PTL DEF Spec

-----------------------------------------------------------------------------
(* Training goes on *)

\* A launcher that is going to resume has seen a file, and until it does no file changes.
ResumeHasFile == pc = "launch" /\ phase = "resume" => \E s \in Steps : Complete(s)

RInv == IInv /\ ResumeHasFile

LEMMA ResumeStep == RInv /\ [Next]_vars => ResumeHasFile'
<1> SUFFICES ASSUME RInv, [Next]_vars, pc' = "launch", phase' = "resume"
             PROVE  \E s \in Steps : Complete(s)'
  BY DEF ResumeHasFile
<1>1. CASE Scan
  <2>1. PICK found \in Steps \union {0} :
          FindLatest(found) /\ phase' = IF found = 0 THEN "init" ELSE "resume"
    BY <1>1 DEF Scan
  <2>2. found \in Steps /\ Complete(found) /\ disk' = disk
    BY <1>1, <2>1 DEF Scan, FindLatest, saveVars
  <2> QED
    BY <2>2 DEF Complete
<1>2. CASE UNCHANGED vars
  BY <1>2 DEF RInv, ResumeHasFile, Complete, vars, launcherVars, saveVars
<1>3. ASSUME LaunchInit \/ LaunchResume \/ LoadError \/ Restart PROVE FALSE
  BY <1>3 DEF LaunchInit, LaunchResume, LoadError, Restart, StartTraining
<1>4. ASSUME Training \/ Writer \/ Raise \/ Kill \/ OpenError \/ WriteError PROVE FALSE
  BY <1>4 DEF Training, TrainBatch, Finish, Close, Writer, OpenFile, WriteFile, Raise, Kill, OpenError, WriteError, Alive
<1> QED
  BY <1>1, <1>2, <1>3, <1>4 DEF Next, Launcher

LEMMA ResumeAlways == Spec => []RInv
<1>1. Init => RInv
  BY InitIInv DEF RInv, ResumeHasFile, Init
<1>2. RInv /\ [Next]_vars => RInv'
  BY ResumeStep, StepIInv DEF RInv
<1> QED
  BY <1>1, <1>2, PTL DEF Spec

\* A search that finds nothing although there is a file has passed it over.
LEMMA FoundNothing ==
  ASSUME TypeOK, FindLatest(0), NEW s \in Steps, Complete(s)
  PROVE  loadFailures' > loadFailures
<1> DEFINE over == {t \in Steps : Complete(t) /\ t > 0}
<1>1. over \in SUBSET Steps /\ over # {}
  BY StepsType DEF Steps
<1>2. loadFailures' = loadFailures + Cardinality(over) /\ loadFailures \in Nat
  BY DEF FindLatest, TypeOK
<1> HIDE DEF over
<1>3. Cardinality(over) \in Nat /\ Cardinality(over) # 0
  BY <1>1, StepsType, FS_Subset, FS_CardinalityType, FS_EmptySet
<1> QED
  BY <1>2, <1>3

\* A search only adds to the loads that failed.
LEMMA SearchCounts ==
  ASSUME TypeOK, NEW found \in Steps \union {0}, FindLatest(found)
  PROVE  loadFailures' >= loadFailures
<1> DEFINE over == {s \in Steps : Complete(s) /\ s > found}
<1>1. over \in SUBSET Steps /\ loadFailures' = loadFailures + Cardinality(over) /\ loadFailures \in Nat
  BY DEF FindLatest, TypeOK
<1> HIDE DEF over
<1>2. Cardinality(over) \in Nat
  BY <1>1, StepsType, FS_Subset, FS_CardinalityType
<1> QED
  BY <1>1, <1>2

\* The arithmetic of what is on its way, for plain numbers.
LEMMA OneOrNone == ASSUME NEW n \in Nat, n <= 1 PROVE n \in {0, 1}
OBVIOUS

LEMMA TakenUp ==
  ASSUME NEW q \in Nat, NEW r, r = q - 1, NEW v, v = 0, NEW w \in {0, 1}
  PROVE  2 * r + w < 2 * q + v
OBVIOUS

LEMMA BatchCounts ==
  ASSUME NEW n \in Nat, NEW g \in Nat, NEW q \in Nat, NEW r \in Nat, r <= q + 1, NEW w \in {0, 1}
  PROVE  4 * (n - (g + 1)) + 3 + (2 * r + w) < 4 * (n - g) + 3 + (2 * q + w)
OBVIOUS

\* What is on its way, counted before and after a step of the writer or a batch.
LEMMA OnItsWay ==
  ASSUME TypeOK
  PROVE  /\ Len(queue) \in Nat /\ Len(writing) \in {0, 1} /\ globalStep \in Nat /\ NTrainingSteps \in Nat
         /\ globalStep <= NTrainingSteps
         /\ queue # <<>> => Len(Tail(queue)) = Len(queue) - 1
         /\ writing = <<>> <=> Len(writing) = 0
         /\ \A c \in Checkpoint : Len(Append(queue, c)) = Len(queue) + 1
<1>1. queue \in Seq(Checkpoint) /\ writing \in Seq(Checkpoint) /\ Len(writing) <= 1
  BY DEF TypeOK
<1>2. globalStep \in Nat /\ NTrainingSteps \in Nat /\ globalStep <= NTrainingSteps
  BY RestartAssumption DEF TypeOK, Steps
<1>a. Len(queue) \in Nat /\ Len(writing) \in Nat /\ Len(writing) <= 1
  BY <1>1
<1>3. Len(queue) \in Nat /\ Len(writing) \in {0, 1}
  <2> DEFINE n == Len(writing)
  <2>1. n \in Nat /\ n <= 1
    BY <1>a
  <2> HIDE DEF n
  <2>2. n \in {0, 1}
    BY <2>1, OneOrNone
  <2> QED
    BY <1>a, <2>2 DEF n
<1>5. queue # <<>> => Len(Tail(queue)) = Len(queue) - 1
  BY <1>1
<1>6. ASSUME NEW c \in Checkpoint PROVE Len(Append(queue, c)) = Len(queue) + 1
  BY <1>1
<1>4. writing = <<>> <=> Len(writing) = 0
  BY <1>1
<1> QED
  BY <1>2, <1>3, <1>4, <1>5, <1>6

LEMMA WorkStep ==
  ASSUME RInv, [Next]_vars, ~UNCHANGED vars
  PROVE  /\ crashes' >= crashes /\ loadFailures' >= loadFailures
         /\ crashes' > crashes \/ loadFailures' > loadFailures \/ WorkLeft' < WorkLeft
<1> DEFINE Less == /\ crashes' >= crashes /\ loadFailures' >= loadFailures
                   /\ crashes' > crashes \/ loadFailures' > loadFailures \/ WorkLeft' < WorkLeft
           N == NTrainingSteps
<1>1. TypeOK /\ TypeOK' /\ crashes \in Nat /\ loadFailures \in Nat /\ exitCode \in {0, 1}
  BY StepIInv DEF RInv, IInv, TypeOK
<1>2. /\ Len(queue) \in Nat /\ Len(writing) \in {0, 1} /\ N \in Nat
      /\ globalStep \in Nat /\ globalStep <= N
      /\ Len(queue') \in Nat /\ Len(writing') \in {0, 1} /\ globalStep' \in Nat /\ globalStep' <= N
  <2>1. queue' \in Seq(Checkpoint) /\ writing' \in Seq(Checkpoint) /\ Len(writing') <= 1
    BY <1>1 DEF TypeOK
  <2>2. Len(queue') \in Nat /\ Len(writing') \in {0, 1}
    BY <2>1
  <2>3. globalStep' \in Nat /\ globalStep' <= N
    BY <1>1, RestartAssumption DEF TypeOK, Steps
  <2> QED
    BY <1>1, <2>2, <2>3, OnItsWay
<1>3. CASE Scan
  <2>1. pc = "scan" /\ pc' = "launch" /\ crashes' = crashes
    BY <1>3 DEF Scan
  <2>2. WorkLeft' < WorkLeft
    BY ONLY <1>2, <2>1 DEF WorkLeft
  <2>3. loadFailures' >= loadFailures
    <3>1. PICK found \in Steps \union {0} : FindLatest(found)
      BY <1>3 DEF Scan
    <3> QED
      BY <1>1, <3>1, SearchCounts
  <2> QED
    BY <1>1, <2>1, <2>2, <2>3
<1>4. ASSUME NEW from \in Steps \union {0}, pc = "launch", StartTraining(from)
      PROVE  WorkLeft' < WorkLeft
  <2>1. pc' = "training" /\ Len(queue') = 0 /\ Len(writing') = 0
    BY <1>4 DEF StartTraining
  <2> QED
    BY ONLY <1>2, <1>4, <2>1 DEF WorkLeft
<1>5. CASE LaunchInit
  BY <1>1, <1>4, <1>5 DEF LaunchInit, countVars
<1>6. CASE LaunchResume
  <2>1. PICK found \in Steps \union {0} :
          /\ FindLatest(found)
          /\ IF found # 0 THEN StartTraining(found) /\ UNCHANGED <<exitCode, thawedEarly, disk>>
             ELSE pc' = "waiting" /\ exitCode' = 1 /\ UNCHANGED <<trainVars, saveVars>>
    BY <1>6 DEF LaunchResume
  <2>2. pc = "launch" /\ phase = "resume" /\ crashes' = crashes
    BY <1>6 DEF LaunchResume
  <2>3. loadFailures' >= loadFailures
    BY <1>1, <2>1, SearchCounts
  <2>4. CASE found # 0
    BY <1>1, <1>4, <2>1, <2>2, <2>3, <2>4
  <2>5. CASE found = 0
    BY <1>1, <2>1, <2>2, <2>3, <2>5, FoundNothing DEF RInv, ResumeHasFile
  <2> QED
    BY <2>4, <2>5
<1>7. CASE Restart
  <2>1. pc = "waiting" /\ pc' = (IF exitCode = 0 THEN "stopped" ELSE "scan") /\ UNCHANGED <<exitCode, countVars>>
    BY <1>7 DEF Restart, launcherVars
  <2>2. WorkLeft' < WorkLeft
    BY ONLY <1>1, <1>2, <2>1 DEF WorkLeft
  <2> QED
    BY <1>1, <2>1, <2>2 DEF countVars
<1>8. CASE TrainBatch
  <2>1. /\ pc = "training" /\ pc' = "training" /\ globalStep' = globalStep + 1 /\ UNCHANGED <<writing, countVars>>
        /\ Len(queue') <= Len(queue) + 1
    <3>1. queue' = queue \/ \E c \in Checkpoint : queue' = Append(queue, c)
      <4>1. globalStep' \in Steps
        BY <1>1, <1>8, StepsType DEF TrainBatch, TypeOK
      <4>2. [step |-> globalStep', weights |-> globalStep'] \in Checkpoint
        BY <4>1, StepsType DEF Checkpoint
      <4> QED
        BY <1>8, <4>2 DEF TrainBatch, SaveCheckpoint
    <3>2. Len(queue') <= Len(queue) + 1
      BY <1>1, <1>2, <3>1, OnItsWay
    <3> QED
      BY <1>8, <3>2 DEF TrainBatch
  <2>2. WorkLeft' < WorkLeft
    <3> DEFINE q == Len(queue)
               r == Len(queue')
               w == Len(writing)
    <3>1. /\ WorkLeft = 4 * (N - globalStep) + 3 + (2 * q + w)
          /\ WorkLeft' = 4 * (N - (globalStep + 1)) + 3 + (2 * r + w)
      BY ONLY <2>1 DEF WorkLeft
    <3>2. N \in Nat /\ globalStep \in Nat /\ q \in Nat /\ r \in Nat /\ r <= q + 1 /\ w \in {0, 1}
      BY ONLY <1>2, <2>1
    <3> HIDE DEF q, r, w, N
    <3>3. 4 * (N - (globalStep + 1)) + 3 + (2 * r + w) < 4 * (N - globalStep) + 3 + (2 * q + w)
      BY <3>2, BatchCounts
    <3> QED
      BY ONLY <3>1, <3>3
  <2> QED
    BY <1>1, <2>1, <2>2 DEF countVars
<1>9. CASE Finish \/ Close
  <2>1. /\ \/ pc = "training" /\ pc' = "closing" /\ exitCode' = 0
           \/ pc = "closing" /\ pc' = "waiting" /\ exitCode' = exitCode
        /\ UNCHANGED <<globalStep, queue, writing, countVars>>
    BY <1>9 DEF Finish, Close, trainVars, saveVars
  <2>2. WorkLeft' < WorkLeft
    BY ONLY <1>1, <1>2, <2>1 DEF WorkLeft
  <2> QED
    BY <1>1, <2>1, <2>2 DEF countVars
<1>10. CASE Writer \/ OpenError \/ WriteError
  <2>1. pc \in {"training", "closing"} /\ UNCHANGED <<pc, exitCode, globalStep, crashes, loadFailures>>
    BY <1>10 DEF Writer, OpenFile, WriteFile, OpenError, WriteError, Alive, launcherVars, trainVars, countVars
  <2>2. 2 * Len(queue') + Len(writing') < 2 * Len(queue) + Len(writing)
    <3>1. CASE OpenFile \/ OpenError
      <4>1. queue # <<>> /\ queue' = Tail(queue) /\ Len(writing) = 0
        BY <1>1, <3>1, OnItsWay DEF OpenFile, OpenError
      <4>2. Len(queue') = Len(queue) - 1
        BY <1>1, <4>1, OnItsWay
      <4>3. Len(writing') = 0 \/ Len(writing') = 1
        BY <1>2
      <4>4. Len(queue) \in Nat
        BY <1>2
      <4>5. Len(writing) = 0
        BY <4>1
      <4> DEFINE q == Len(queue)
                 r == Len(queue')
                 v == Len(writing)
                 w == Len(writing')
      <4>6. q \in Nat /\ r = q - 1 /\ v = 0 /\ w \in {0, 1}
        BY <4>2, <4>3, <4>4, <4>5
      <4> HIDE DEF q, r, v, w
      <4>7. 2 * r + w < 2 * q + v
        BY <4>6, TakenUp
      <4> QED
        BY ONLY <4>7 DEF q, r, v, w
    <3>2. CASE WriteFile \/ WriteError
      <4>1. Len(writing) = 1 /\ Len(writing') = 0 /\ queue' = queue
        BY <1>1, <1>2, <3>2, OnItsWay DEF WriteFile, WriteError
      <4> QED
        BY <1>2, <4>1
    <3> QED
      BY <1>10, <3>1, <3>2 DEF Writer
  <2>3. WorkLeft' < WorkLeft
    <3> DEFINE v == 2 * Len(queue) + Len(writing)
               w == 2 * Len(queue') + Len(writing')
               k == IF pc = "training" THEN 4 * (N - globalStep) + 3
                    ELSE IF exitCode = 0 THEN 2 ELSE 4 * N + 4 + 3
    <3>1. WorkLeft = k + v /\ WorkLeft' = k + w
      BY ONLY <2>1 DEF WorkLeft
    <3>2. k \in Int
      BY ONLY <1>2
    <3>3. v \in Nat /\ w \in Nat /\ w < v
      BY ONLY <1>2, <2>2
    <3> HIDE DEF v, w, k
    <3> QED
      BY ONLY <3>1, <3>2, <3>3
  <2> QED
    BY <1>1, <2>1, <2>3
<1>11. CASE LoadError \/ Raise \/ Kill
  BY <1>1, <1>11 DEF LoadError, Raise, Kill
<1> QED
  BY <1>3, <1>5, <1>6, <1>7, <1>8, <1>9, <1>10, <1>11 DEF Next, Launcher, Training

-----------------------------------------------------------------------------
\* The checkpoint queue, the disk and the counters of the launcher have the values they are
\* meant to have.
THEOREM TypeCorrect == Spec => []TypeOK
BY Invariance, PTL DEF IInv

\* A file that loads holds the weights of the step in its name, although it is written while
\* training goes on (save_checkpoint, _finalize_checkpoint).
THEOREM FilesHoldTheirStep == Spec => []FileHoldsItsStep
BY Invariance, PTL DEF IInv

\* The checkpoint a run came from stays loadable as long as the run lasts, so the next
\* attempt need not go back further (find_latest_ckpt, _finalize_checkpoint).
THEOREM BaseStaysLoadable == Spec => []BaseIsLoadable
BY Invariance, PTL DEF IInv

\* The checkpoint reported when training ends has been written, unless a write failed
\* (teardown, get_final_checkpoint).
THEOREM FinalWritten == Spec => []FinalIsOnDisk
BY Invariance, PTL DEF IInv

\* As long as no load of a good file fails, no run writes over a finished file
\* (auto_restart_train.sh, _finalize_checkpoint).
THEOREM FinishedStay == Spec => FinishedFilesStay
<1>1. IInv /\ [Next]_vars => [StaysUnlessLoadFailed]_vars
  BY StepIInv
<1> QED
  BY <1>1, Invariance, PTL DEF Spec, FinishedFilesStay, StaysUnlessLoadFailed

\* For any number of steps and failures: every step but a crash or a failing load leaves less
\* to do (auto_restart_train.sh, trainer.fit, _finalize_checkpoint).
THEOREM ProgressTheorem == Spec => TrainingProceeds
<1>1. ASSUME RInv, [Next]_vars
      PROVE  [/\ crashes' >= crashes /\ loadFailures' >= loadFailures
              /\ crashes' > crashes \/ loadFailures' > loadFailures \/ WorkLeft' < WorkLeft]_vars
  BY <1>1, WorkStep
<1> QED
  BY <1>1, ResumeAlways, PTL DEF Spec, TrainingProceeds

\* As long as every load succeeds, each attempt goes on from the newest finished checkpoint
\* (find_latest_ckpt, find_resume_ckpt).
THEOREM NewestTheorem == Spec => NothingTrainedAgain
<1>1. ASSUME IInv, [Next]_vars
      PROVE  [pc = "launch" /\ pc' = "training" /\ loadFailures' = 0 =>
                \A s \in Steps : Complete(s) => s <= base']_vars
  <2>1. ASSUME pc = "launch", pc' = "training", loadFailures' = 0, NEW s \in Steps, Complete(s)
        PROVE  s <= base'
    <3>1. disk' = disk
      BY <1>1, <2>1, DiskUntouched DEF OpenFile, WriteFile, Alive
    <3>2. base' = globalStep'
      BY <1>1, <2>1 DEF Next, vars, Launcher, Training, Writer, Scan, LaunchInit, LaunchResume, Restart, StartTraining,
                        LoadError, TrainBatch, Finish, Close, OpenFile, WriteFile, Raise, Kill, OpenError, WriteError, Alive
    <3>3. NothingAhead' /\ Complete(s)'
      BY <1>1, <2>1, <3>1, StepIInv DEF IInv, Complete
    <3> QED
      BY <2>1, <3>2, <3>3 DEF NothingAhead, Alive
  <2> QED
    BY <2>1
<1> QED
  BY <1>1, Invariance, PTL DEF Spec, NothingTrainedAgain
=============================================================================
