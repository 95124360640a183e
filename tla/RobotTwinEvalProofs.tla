-------------------------- MODULE RobotTwinEvalProofs --------------------------
(***************************************************************************)
(* Proofs about RobotTwinEval: histories, results, instructions and        *)
(* recordings belong to their episode for any number of evaluators, seeds, *)
(* steps and crashes, whatever the demonstrations do and whenever a        *)
(* process dies.                                                           *)
(***************************************************************************)
EXTENDS RobotTwinEval, SequenceTheorems, FiniteSetTheorems, TLAPS

-----------------------------------------------------------------------------
(* The inductive invariant, evaluator by evaluator *)

\* A request under way is one its evaluator waits for, unless it has died meanwhile.
Asked(e) ==
  /\ inbox[e] # Nothing =>
       /\ outbox[e] = Nothing
       /\ pc[e] \in {"reset", "infer", "dead"}
       /\ inbox[e].kind = "reset" /\ pc[e] # "dead" => pc[e] = "reset" /\ inbox[e].seed = instruction[e]
       /\ inbox[e].kind = "infer" => inbox[e].obs.from = e
       /\ inbox[e].kind = "infer" /\ pc[e] # "dead" => pc[e] = "infer" /\ inbox[e].obs = Observation(e)
  /\ outbox[e] # Nothing => pc[e] \in {"reset", "infer"}
  /\ pc[e] = "dead" => conn[e] = "closed"

\* Where an episode is under way, and where one has come to its end and is accounted for.
UnderWay(e) == pc[e] \in {"setup", "reset", "step", "infer", "solved"}
Ending(e) == pc[e] \in {"closing", "saving", "writing", "report"}

\* What the environment and the evaluator count.
Counted(e) ==
  LET n == Len(ended[e])
  IN  /\ pc[e] \in {"connect", "seed", "done"} => n = started[e]
      /\ UnderWay(e) => n + 1 = started[e]
      /\ Ending(e) => n = started[e] /\ n # 0
      /\ pc[e] = "closing" => tested[e].num + 1 = n
      /\ pc[e] \notin {"closing", "dead"} => tested[e].num = n
      /\ tested[e].suc = Cardinality(Solved(e, n))
      /\ pc[e] = "done" => started[e] = TestNum[e]

\* The seeds of the episodes that ended.
Advanced(e) ==
  LET n == Len(ended[e])
  IN  /\ \A i \in 1..n : /\ pc[e] \in {"connect", "seed"} \/ UnderWay(e) => ended[e][i].seed < seed[e]
                         /\ Ending(e) => ended[e][i].seed <= seed[e]
      /\ \A i, j \in 1..n : i < j => ended[e][i].seed < ended[e][j].seed
      /\ Ending(e) => ended[e][n].seed = seed[e]

\* What res.json holds.
Written(e) ==
  LET n == Len(ended[e])
  IN  /\ pc[e] \in {"connect", "seed", "report", "done"} \/ UnderWay(e) => Accounts(e, n)
      /\ pc[e] \in {"closing", "saving"} => Accounts(e, n - 1)
      /\ pc[e] = "writing" => result[e] = Torn
      /\ pc[e] = "dead" => result[e] = Torn \/ Accounts(e, n) \/ (n # 0 /\ Accounts(e, n - 1))

Results(e) == Counted(e) /\ Advanced(e) /\ Written(e)

\* What the instruction was made from: the seed, unless the demonstration's set-up raised.
Fits(e) ==
  IF demo[e] = "setup fails" THEN Fallback /\ instruction[e] \in 1 .. seed[e] - 1
                             ELSE instruction[e] = seed[e]

\* The scene of the episode, its instruction, and the prompt of a policy that was reset for it.
Described(e) ==
  /\ pc[e] \in {"connect", "seed"} => scene[e] < seed[e]
  /\ InEpisode(e) \/ Ending(e) => scene[e] = seed[e]
  /\ UnderWay(e) => Fits(e)
  /\ policy.by = e /\ (pc[e] \in {"step", "infer"} \/ (pc[e] = "reset" /\ outbox[e] # Nothing /\ outbox[e].ok))
       => policy.prompt = instruction[e]

\* The policy has nothing of e but rows of that episode and of earlier steps.
AllBefore(e, episode, n) ==
  \A i \in Rows(e) : policy.window[i].episode = episode /\ policy.window[i].step < n

\* If e has reset it last, it has every step before n.
Complete(e, n) ==
  policy.by = e => \A k \in 0..n - 1 : \E i \in Rows(e) : policy.window[i].step = k

Ordered(e) ==
  \A i, j \in Rows(e) : i < j =>
    policy.window[i].step < policy.window[j].step /\ policy.window[i].episode = policy.window[j].episode

Closed(e) ==
  policy.by = e => \A i \in Rows(e) : \A k \in 0..policy.window[i].step - 1 :
    \E j \in Rows(e) : j < i /\ policy.window[j].step = k

\* The window and how far e is.  A request under way may outlive its evaluator, so that
\* what its row will need is said of the request.
Seen(e) ==
  /\ Ordered(e) /\ Closed(e)
  /\ pc[e] = "reset" /\ outbox[e] # Nothing /\ outbox[e].ok => Rows(e) = {}
  /\ pc[e] = "step" => AllBefore(e, started[e], steps[e]) /\ Complete(e, steps[e])
  /\ inbox[e] # Nothing /\ inbox[e].kind = "infer" =>
       AllBefore(e, inbox[e].obs.episode, inbox[e].obs.step) /\ Complete(e, inbox[e].obs.step)
  /\ pc[e] = "infer" => AllBefore(e, started[e], steps[e] + 1)
  /\ pc[e] = "infer" /\ outbox[e] # Nothing /\ outbox[e].ok => Complete(e, steps[e] + 1)

Recorded(e) ==
  video[e] = IF pc[e] \in {"step", "infer", "solved"} THEN Len(ended[e]) + 1 ELSE None

Parts(e) == Asked(e) /\ Results(e) /\ Described(e) /\ Seen(e) /\ Recorded(e)

IInv == TypeOK /\ \A e \in Evaluators : Parts(e)

-----------------------------------------------------------------------------
(* Types *)

LEMMA InitType == Init => TypeOK
<1> SUFFICES ASSUME Init PROVE TypeOK
  OBVIOUS
<1>1. Nothing \in {Nothing} \cup Request /\ NoFile \in Content /\ <<>> \in Seq(Row) /\ <<>> \in Seq(Episode)
  BY EmptySeq DEF Content
<1>2. QED
  BY <1>1, ConstantsAssumption DEF Init, TypeOK, Fresh, None, Place, Outcomes

\* The policy keeps its type when it serves a request.
LEMMA ServedType ==
  ASSUME TypeOK, NEW e \in Evaluators, NEW request \in Request
  PROVE  Served(e, request) \in [by : Evaluators \cup {None}, prompt : Nat, window : Seq(Row)]
<1>1. CASE request \in [kind : {"reset"}, seed : Nat]
  BY <1>1, EmptySeq DEF Served
<1>2. CASE request \in [kind : {"infer"}, obs : Row]
  <2>1. Append(policy.window, request.obs) \in Seq(Row)
    BY <1>2, AppendProperties DEF TypeOK
  <2>2. request.kind = "infer"
    BY <1>2
  <2>3. Served(e, request) = [policy EXCEPT !.window = Append(policy.window, request.obs)]
    BY <2>2 DEF Served
  <2>4. QED
    BY <2>1, <2>3 DEF TypeOK
<1>3. QED
  BY <1>1, <1>2 DEF Request

\* The sets of the types are the same in every state.
LEMMA SameType ==
  /\ Row' = Row /\ Request' = Request /\ Outcomes' = Outcomes /\ Nothing' = Nothing
  /\ Place' = Place /\ Content' = Content /\ Episode' = Episode
BY DEF Row, Request, Outcomes, Nothing, Place, Content, Episode, NoFile, Torn

LEMMA DieType == ASSUME TypeOK, NEW e \in Evaluators, Die(e) PROVE TypeOK'
<1>1. /\ pc' \in [Evaluators -> Place] /\ conn' \in [Evaluators -> {"none", "open", "closed"}]
      /\ outbox' \in [Evaluators -> {Nothing} \cup [ok : BOOLEAN]] /\ video' \in [Evaluators -> Nat]
  BY DEF Die, TypeOK, Place, None
<1>2. UNCHANGED <<serverVars, inbox, progress, steps>>
  BY DEF Die
<1>3. QED
  BY <1>1, <1>2, SameType DEF TypeOK, serverVars, progress, sceneVars, countVars

LEMMA NextType == TypeOK /\ [Next]_vars => TypeOK'
<1> SUFFICES ASSUME TypeOK, [Next]_vars PROVE TypeOK'
  OBVIOUS
<1> USE SameType
<1>1. ASSUME NEW e \in Evaluators, Evaluate(e) PROVE TypeOK'
  <2>1. CASE Connect(e) \/ Finish(e)
    <3>1. /\ pc' \in [Evaluators -> Place]
          /\ conn' \in [Evaluators -> {"none", "open", "closed"}]
      BY <2>1 DEF Connect, Finish, TypeOK, Place
    <3>2. UNCHANGED <<serverVars, inbox, outbox, progress, steps, video>>
      BY <2>1 DEF Connect, Finish
    <3>3. QED
      BY <3>1, <3>2 DEF TypeOK, serverVars, progress, sceneVars, countVars
  <2>2. CASE SkipSeed(e)
    <3>1. \A outcome : Placed(e, outcome) \in Nat
      BY DEF TypeOK, Placed
    <3>2. scene' \in [Evaluators -> Nat] /\ seed' \in [Evaluators -> Nat \ {0}]
      <4>1. PICK place \in Nat : scene' = [scene EXCEPT ![e] = place]
        BY <2>2, <3>1 DEF SkipSeed
      <4>2. seed' = [seed EXCEPT ![e] = seed[e] + 1]
        BY <2>2 DEF SkipSeed
      <4>3. scene \in [Evaluators -> Nat] /\ seed \in [Evaluators -> Nat \ {0}]
        BY DEF TypeOK
      <4>4. seed[e] + 1 \in Nat \ {0}
        BY <4>3
      <4>5. QED
        BY ONLY <4>1, <4>2, <4>3, <4>4
    <3>3. UNCHANGED <<serverVars, wireVars, pc, demo, instruction, started, tested, result, ended,
                      steps, video>>
      BY <2>2 DEF SkipSeed
    <3>4. QED
      BY <3>2, <3>3 DEF TypeOK, serverVars, wireVars
  <2>3. CASE StartEpisode(e)
    <3>1. PICK outcome \in Demonstrations(e) :
            /\ scene' = [scene EXCEPT ![e] = Placed(e, outcome)]
            /\ demo' = [demo EXCEPT ![e] = outcome]
            /\ instruction' = [instruction EXCEPT ![e] = Info(e, outcome)]
      BY <2>3 DEF StartEpisode
    <3>2. outcome \in Outcomes /\ Placed(e, outcome) \in Nat
      BY DEF Demonstrations, Outcomes, TypeOK, Placed
    <3>3. Info(e, outcome) \in Nat
      BY <3>2 DEF Info, TypeOK, None
    <3>4. started' \in [Evaluators -> Nat]
      <4>1. started' = [started EXCEPT ![e] = started[e] + 1]
        BY <2>3 DEF StartEpisode
      <4>2. started \in [Evaluators -> Nat]
        BY DEF TypeOK
      <4>3. QED
        BY ONLY <4>1, <4>2
    <3>5. pc' \in [Evaluators -> Place] /\ UNCHANGED <<serverVars, wireVars, seed, tested, result, ended,
                                                        steps, video>>
      BY <2>3 DEF StartEpisode, TypeOK, Place
    <3>6. /\ scene' \in [Evaluators -> Nat] /\ demo' \in [Evaluators -> Outcomes]
          /\ instruction' \in [Evaluators -> Nat]
      BY <3>1, <3>2, <3>3 DEF TypeOK
    <3>7. QED
      BY <3>4, <3>5, <3>6 DEF TypeOK, serverVars, wireVars
  <2>4. CASE SetUp(e)
    <3>1. [kind |-> "reset", seed |-> instruction[e]] \in Request
      BY DEF Request, TypeOK
    <3>2. /\ inbox' \in [Evaluators -> {Nothing} \cup Request] /\ scene' \in [Evaluators -> Nat]
          /\ pc' \in [Evaluators -> Place]
      BY <2>4, <3>1 DEF SetUp, TypeOK, Place
    <3>3. UNCHANGED <<serverVars, conn, outbox, demo, instruction, countVars, steps, video>>
      BY <2>4 DEF SetUp
    <3>4. QED
      BY <3>2, <3>3 DEF TypeOK, serverVars, countVars
  <2>5. CASE PolicyLost(e)
    BY <2>5, DieType DEF PolicyLost
  <2>6. CASE ResetDone(e)
    <3>1. /\ steps' \in [Evaluators -> Nat] /\ video' \in [Evaluators -> Nat] /\ pc' \in [Evaluators -> Place]
          /\ outbox' \in [Evaluators -> {Nothing} \cup [ok : BOOLEAN]]
      BY <2>6 DEF ResetDone, StartRecording, TypeOK, Place
    <3>2. UNCHANGED <<serverVars, conn, inbox, progress>>
      BY <2>6 DEF ResetDone
    <3>3. QED
      BY <3>1, <3>2 DEF TypeOK, serverVars, progress, sceneVars, countVars
  <2>7. CASE AskPolicy(e)
    <3>1. [kind |-> "infer", obs |-> Observation(e)] \in Request
      BY DEF Request, Observation, Row, TypeOK
    <3>2. inbox' \in [Evaluators -> {Nothing} \cup Request] /\ pc' \in [Evaluators -> Place]
      BY <2>7, <3>1 DEF AskPolicy, TypeOK, Place
    <3>3. UNCHANGED <<serverVars, conn, outbox, progress, steps, video>>
      BY <2>7 DEF AskPolicy
    <3>4. QED
      BY <3>2, <3>3 DEF TypeOK, serverVars, progress, sceneVars, countVars
  <2>8. CASE TakeAction(e)
    <3>1. steps' \in [Evaluators -> Nat] /\ outbox' \in [Evaluators -> {Nothing} \cup [ok : BOOLEAN]]
      BY <2>8 DEF TakeAction, TypeOK
    <3>2. pc' \in [Evaluators -> Place]
      BY <2>8 DEF TakeAction, TypeOK, Place
    <3>3. UNCHANGED <<serverVars, conn, inbox, progress, video>>
      BY <2>8 DEF TakeAction
    <3>4. QED
      BY <3>1, <3>2, <3>3 DEF TypeOK, serverVars, progress, sceneVars, countVars
  <2>9. CASE LeaveEpisode(e)
    <3>1. tested[e] \in [num : Nat, suc : Nat] /\ seed[e] \in Nat /\ ended[e] \in Seq(Episode)
      BY DEF TypeOK
    <3>2. tested' \in [Evaluators -> [num : Nat, suc : Nat]]
      <4> DEFINE suc == IF pc[e] = "solved" THEN tested[e].suc + 1 ELSE tested[e].suc
      <4>1. tested' = [tested EXCEPT ![e].suc = suc]
        BY <2>9 DEF LeaveEpisode
      <4>2. suc \in Nat
        BY <3>1
      <4> HIDE DEF suc
      <4>3. tested \in [Evaluators -> [num : Nat, suc : Nat]]
        BY DEF TypeOK
      <4>4. QED
        BY ONLY <4>1, <4>2, <4>3
    <3>3. ended' \in [Evaluators -> Seq(Episode)]
      <4> DEFINE episode == [seed |-> seed[e], solved |-> pc[e] = "solved"]
      <4>1. episode \in Episode
        BY <3>1 DEF Episode
      <4>2. ended' = [ended EXCEPT ![e] = Append(ended[e], episode)]
        BY <2>9 DEF LeaveEpisode
      <4> HIDE DEF episode
      <4>3. Append(ended[e], episode) \in Seq(Episode)
        BY <3>1, <4>1, AppendProperties
      <4>4. QED
        BY <4>2, <4>3 DEF TypeOK
    <3>4. pc' \in [Evaluators -> Place] /\ video' \in [Evaluators -> Nat]
      BY <2>9 DEF LeaveEpisode, StopRecording, TypeOK, Place, None
    <3>5. UNCHANGED <<serverVars, wireVars, sceneVars, seed, started, result, steps>>
      BY <2>9 DEF LeaveEpisode
    <3>6. QED
      BY <3>2, <3>3, <3>4, <3>5 DEF TypeOK, serverVars, wireVars, sceneVars
  <2>10. CASE CloseEnv(e)
    <3>1. tested[e] \in [num : Nat, suc : Nat]
      BY DEF TypeOK
    <3>2. tested' = [tested EXCEPT ![e].num = tested[e].num + 1]
      BY <2>10, <3>1 DEF CloseEnv
    <3>3. tested \in [Evaluators -> [num : Nat, suc : Nat]]
      BY DEF TypeOK
    <3>4. tested' \in [Evaluators -> [num : Nat, suc : Nat]]
      <4>1. tested[e].num + 1 \in Nat
        BY ONLY <3>1
      <4>2. QED
        BY ONLY <3>2, <3>3, <4>1
    <3>5. /\ pc' \in [Evaluators -> Place]
          /\ UNCHANGED <<serverVars, wireVars, sceneVars, seed, started, result, ended, steps, video>>
      BY <2>10 DEF CloseEnv, TypeOK, Place
    <3>6. QED
      BY <3>4, <3>5 DEF TypeOK, serverVars, wireVars, sceneVars
  <2>11. CASE OpenResults(e) \/ WriteResults(e)
    <3>1. tested[e] \in [num : Nat, suc : Nat] /\ seed[e] \in Nat
      BY DEF TypeOK
    <3>2. Metrics(tested[e].num, tested[e].suc, seed[e]) \in Content /\ Torn \in Content
      BY <3>1 DEF Metrics, Content
    <3>3. result' \in [Evaluators -> Content] /\ pc' \in [Evaluators -> Place]
      <4>1. PICK content \in Content, place \in Place :
              result' = [result EXCEPT ![e] = content] /\ pc' = [pc EXCEPT ![e] = place]
        BY <2>11, <3>2 DEF OpenResults, WriteResults, Place
      <4>2. QED
        BY <4>1 DEF TypeOK
    <3>4. UNCHANGED <<serverVars, wireVars, sceneVars, seed, started, tested, ended, steps, video>>
      BY <2>11 DEF OpenResults, WriteResults
    <3>5. QED
      BY <3>3, <3>4 DEF TypeOK, serverVars, wireVars, sceneVars
  <2>12. CASE NextSeed(e)
    <3>1. seed' = [seed EXCEPT ![e] = seed[e] + 1] /\ seed[e] + 1 \in Nat \ {0}
      BY <2>12 DEF NextSeed, TypeOK
    <3>2. seed' \in [Evaluators -> Nat \ {0}] /\ pc' \in [Evaluators -> Place]
      BY <2>12, <3>1 DEF NextSeed, TypeOK, Place
    <3>3. UNCHANGED <<serverVars, wireVars, sceneVars, started, tested, result, ended, steps, video>>
      BY <2>12 DEF NextSeed
    <3>4. QED
      BY <3>2, <3>3 DEF TypeOK, serverVars, wireVars, sceneVars
  <2>13. QED
    BY <1>1, <2>1, <2>2, <2>3, <2>4, <2>5, <2>6, <2>7, <2>8, <2>9, <2>10, <2>11, <2>12 DEF Evaluate
<1>2. ASSUME NEW e \in Evaluators, Kill(e) PROVE TypeOK'
  BY <1>2, DieType DEF Kill
<1>3. ASSUME NEW e \in Evaluators, Serve(e) PROVE TypeOK'
  <2>1. inbox[e] \in Request
    BY <1>3 DEF Serve, TypeOK
  <2>2. /\ inbox' \in [Evaluators -> {Nothing} \cup Request]
        /\ outbox' \in [Evaluators -> {Nothing} \cup [ok : BOOLEAN]]
        /\ policy' \in [by : Evaluators \cup {None}, prompt : Nat, window : Seq(Row)]
    BY <1>3, <2>1, ServedType DEF Serve, TypeOK
  <2>3. UNCHANGED <<up, crashes, conn, pc, progress, steps, video>>
    BY <1>3 DEF Serve
  <2>4. QED
    BY <2>2, <2>3 DEF TypeOK, progress, sceneVars, countVars
<1>4. ASSUME NEW e \in Evaluators, ServeFails(e) PROVE TypeOK'
  <2>1. inbox[e] \in Request
    BY <1>4 DEF ServeFails, TypeOK
  <2>2. policy' \in [by : Evaluators \cup {None}, prompt : Nat, window : Seq(Row)]
    <3>1. CASE policy' = policy
      BY <3>1 DEF TypeOK
    <3>2. CASE policy' = Served(e, inbox[e])
      BY <2>1, <3>2, ServedType
    <3>3. QED
      BY <1>4, <3>1, <3>2 DEF ServeFails
  <2>3. /\ inbox' \in [Evaluators -> {Nothing} \cup Request]
        /\ outbox' \in [Evaluators -> {Nothing} \cup [ok : BOOLEAN]]
        /\ conn' \in [Evaluators -> {"none", "open", "closed"}]
    BY <1>4 DEF ServeFails, TypeOK
  <2>4. UNCHANGED <<up, crashes, pc, progress, steps, video>>
    BY <1>4 DEF ServeFails
  <2>5. QED
    BY <2>2, <2>3, <2>4 DEF TypeOK, progress, sceneVars, countVars
<1>5. CASE Crash
  <2>1. /\ crashes' \in 0..MaxCrashes /\ conn' \in [Evaluators -> {"none", "open", "closed"}]
    BY <1>5, ConstantsAssumption DEF Crash, TypeOK
  <2>2. /\ inbox' \in [Evaluators -> {Nothing} \cup Request]
        /\ outbox' \in [Evaluators -> {Nothing} \cup [ok : BOOLEAN]]
        /\ up' \in BOOLEAN
    BY <1>5 DEF Crash
  <2>3. UNCHANGED <<policy, pc, progress, steps, video>>
    BY <1>5 DEF Crash
  <2>4. QED
    BY <2>1, <2>2, <2>3 DEF TypeOK, progress, sceneVars, countVars
<1>6. CASE Restart
  <2>1. up' \in BOOLEAN /\ policy' \in [by : Evaluators \cup {None}, prompt : Nat, window : Seq(Row)]
    BY <1>6, EmptySeq DEF Restart, Fresh, None
  <2>2. UNCHANGED <<crashes, wireVars, pc, progress, steps, video>>
    BY <1>6 DEF Restart
  <2>3. QED
    BY <2>1, <2>2 DEF TypeOK, progress, sceneVars, countVars, wireVars
<1>7. CASE UNCHANGED vars
  BY <1>7 DEF vars, TypeOK, serverVars, wireVars, progress, sceneVars, countVars
<1>8. QED
  BY <1>1, <1>2, <1>3, <1>4, <1>5, <1>6, <1>7 DEF Next, Done

-----------------------------------------------------------------------------
(* What a step leaves to an evaluator that takes no part in it *)

CountsKept(e) ==
  /\ seed'[e] = seed[e] /\ started'[e] = started[e] /\ tested'[e] = tested[e]
  /\ result'[e] = result[e] /\ ended'[e] = ended[e]

SceneKept(e) == scene'[e] = scene[e] /\ demo'[e] = demo[e] /\ instruction'[e] = instruction[e]

Kept(e) ==
  /\ conn'[e] = conn[e] /\ inbox'[e] = inbox[e] /\ outbox'[e] = outbox[e] /\ pc'[e] = pc[e]
  /\ CountsKept(e) /\ SceneKept(e)
  /\ steps'[e] = steps[e] /\ video'[e] = video[e]

LEMMA ProgressKept ==
  ASSUME NEW e \in Evaluators
  PROVE  /\ UNCHANGED progress => CountsKept(e) /\ SceneKept(e)
         /\ UNCHANGED countVars => CountsKept(e)
         /\ UNCHANGED sceneVars => SceneKept(e)
BY DEF progress, countVars, sceneVars, CountsKept, SceneKept

\* The account of the first episodes depends on them and on res.json.
LEMMA AccountsSame ==
  ASSUME NEW e \in Evaluators, result'[e] = result[e], ended'[e] = ended[e]
  PROVE  /\ \A n : Solved(e, n)' = Solved(e, n)
         /\ \A n : Accounts(e, n)' <=> Accounts(e, n)
BY DEF Accounts, Solved

\* Steps that count nothing, from place to place.
LEMMA ResultsMoved ==
  ASSUME NEW e \in Evaluators, Results(e), CountsKept(e),
         \/ pc'[e] = pc[e]
         \/ pc[e] = "connect" /\ pc'[e] = "seed"
         \/ pc[e] = "seed" /\ pc'[e] = "done" /\ started[e] = TestNum[e]
         \/ UnderWay(e) /\ UnderWay(e)'
         \/ pc'[e] = "dead" /\ pc[e] \in Place \ {"done", "dead"}
  PROVE  Results(e)'
<1> DEFINE n == Len(ended[e])
<1>1. ended'[e] = ended[e] /\ result'[e] = result[e] /\ tested'[e] = tested[e]
      /\ started'[e] = started[e] /\ seed'[e] = seed[e]
  BY DEF CountsKept
<1>2. /\ Solved(e, n)' = Solved(e, n)
      /\ Accounts(e, n)' <=> Accounts(e, n)
      /\ Accounts(e, n - 1)' <=> Accounts(e, n - 1)
  BY <1>1, AccountsSame
<1>3. Counted(e)'
  BY <1>1, <1>2 DEF Results, Counted, UnderWay, Ending
<1>4. Advanced(e)'
  BY <1>1 DEF Results, Advanced, UnderWay, Ending
<1>5. Written(e)'
  BY <1>1, <1>2 DEF Results, Written, Counted, UnderWay, Ending, Place
<1>6. QED
  BY <1>3, <1>4, <1>5 DEF Results

\* The window has the same rows of e, or none and the reset is another's.
RowsKept(e) ==
  /\ policy'.by = policy.by /\ policy'.prompt = policy.prompt
  /\ Rows(e)' = Rows(e)
  /\ \A i \in Rows(e) : policy'.window[i] = policy.window[i]
RowsGone(e) == policy'.by # e /\ Rows(e)' = {}

LEMMA KeptParts ==
  ASSUME NEW e \in Evaluators, Parts(e), Kept(e), RowsKept(e) \/ RowsGone(e)
  PROVE  Parts(e)'
<1>1. Asked(e)' /\ Recorded(e)'
  BY DEF Parts, Kept, CountsKept, SceneKept, Asked, Recorded, Observation
<1>2. Results(e)'
  BY ResultsMoved DEF Parts, Kept
<1>3. Described(e)'
  BY DEF Parts, Kept, CountsKept, SceneKept, Described, InEpisode, UnderWay, Ending, Fits, RowsKept, RowsGone
<1>4. Seen(e)'
  <2>1. CASE RowsGone(e)
    BY <2>1 DEF RowsGone, Seen, Ordered, Closed, AllBefore, Complete
  <2>2. CASE RowsKept(e)
    <3>1. Ordered(e)' /\ Closed(e)'
      BY <2>2 DEF Parts, RowsKept, Seen, Ordered, Closed
    <3>2. \A episode, n : (AllBefore(e, episode, n) => AllBefore(e, episode, n)')
      BY <2>2 DEF RowsKept, AllBefore
    <3>3. \A n : (Complete(e, n) => Complete(e, n)')
      BY <2>2 DEF RowsKept, Complete
    <3>4. QED
      BY <2>2, <3>1, <3>2, <3>3 DEF Parts, Kept, CountsKept, RowsKept, Seen
  <2>3. QED
    BY <2>1, <2>2
<1>5. QED
  BY <1>1, <1>2, <1>3, <1>4 DEF Parts

\* A step of e is none of another evaluator.
LEMMA EvaluatorsApart ==
  ASSUME TypeOK, NEW e \in Evaluators, Evaluate(e) \/ Kill(e)
  PROVE  /\ \A f \in Evaluators \ {e} : Kept(f)
         /\ \A f \in Evaluators : RowsKept(f)
         /\ policy' = policy /\ up' = up
<1> USE DEF Kept, CountsKept, SceneKept, TypeOK, serverVars, wireVars, progress, countVars, sceneVars
<1>1. policy' = policy /\ up' = up
  BY DEF Evaluate, Kill, Connect, Finish, SkipSeed, StartEpisode, SetUp, ResetDone, AskPolicy,
         TakeAction, LeaveEpisode, CloseEnv, OpenResults, WriteResults, NextSeed, PolicyLost, Die
<1>2. \A f \in Evaluators : RowsKept(f)
  BY <1>1 DEF RowsKept, Rows
<1>3. ASSUME NEW f \in Evaluators \ {e} PROVE Kept(f)
  <2>1. CASE Connect(e) \/ Finish(e)
    BY <2>1 DEF Connect, Finish
  <2>2. CASE SkipSeed(e)
    BY <2>2 DEF SkipSeed
  <2>3. CASE StartEpisode(e)
    BY <2>3 DEF StartEpisode
  <2>4. CASE SetUp(e)
    BY <2>4 DEF SetUp
  <2>5. CASE PolicyLost(e) \/ Kill(e)
    BY <2>5 DEF PolicyLost, Kill, Die
  <2>6. CASE ResetDone(e) \/ AskPolicy(e)
    BY <2>6 DEF ResetDone, StartRecording, AskPolicy
  <2>7. CASE TakeAction(e)
    BY <2>7 DEF TakeAction
  <2>8. CASE LeaveEpisode(e)
    BY <2>8 DEF LeaveEpisode, StopRecording
  <2>9. CASE CloseEnv(e) \/ OpenResults(e) \/ WriteResults(e) \/ NextSeed(e)
    BY <2>9 DEF CloseEnv, OpenResults, WriteResults, NextSeed
  <2>10. QED
    BY <1>3, <2>1, <2>2, <2>3, <2>4, <2>5, <2>6, <2>7, <2>8, <2>9 DEF Evaluate
<1>4. QED
  BY <1>1, <1>2, <1>3

-----------------------------------------------------------------------------
(* The window of the policy *)

\* A reset leaves nothing of anybody.
LEMMA ResetWindow ==
  ASSUME NEW by, policy'.window = <<>>, policy'.by = by
  PROVE  \A f : f # by => RowsGone(f)
  BY DEF RowsGone, Rows

\* A request for actions adds a row of its evaluator after all others.
LEMMA AppendedWindow ==
  ASSUME TypeOK, NEW e \in Evaluators, NEW row \in Row, row.from = e,
         policy' = [policy EXCEPT !.window = Append(@, row)]
  PROVE  /\ policy'.by = policy.by /\ policy'.prompt = policy.prompt
         /\ Rows(e)' = Rows(e) \cup {Len(policy.window) + 1}
         /\ \A i \in Rows(e) :
              i \in Nat /\ i < Len(policy.window) + 1 /\ policy'.window[i] = policy.window[i]
         /\ policy'.window[Len(policy.window) + 1] = row
         /\ \A f \in Evaluators \ {e} : RowsKept(f)
<1> DEFINE w == policy.window
           v == Append(w, row)
<1>1. w \in Seq(Row) /\ policy \in [by : Evaluators \cup {None}, prompt : Nat, window : Seq(Row)]
  BY DEF TypeOK
<1>2. policy'.by = policy.by /\ policy'.prompt = policy.prompt /\ policy'.window = v
  BY <1>1
<1>3. /\ v \in Seq(Row) /\ Len(v) = Len(w) + 1 /\ v[Len(w) + 1] = row
      /\ \A i \in 1..Len(w) : v[i] = w[i]
  BY <1>1, AppendProperties
<1>4. Len(w) \in Nat /\ DOMAIN w = 1..Len(w) /\ DOMAIN v = 1..Len(w) + 1
  BY <1>1, <1>3, LenProperties
<1> HIDE DEF v
<1>5. \A f : Rows(f) = {i \in 1..Len(w) : w[i].from = f} /\ Rows(f)' = {i \in 1..Len(w) + 1 : v[i].from = f}
  BY <1>2, <1>4 DEF Rows
<1>6. \A f : \A i \in Rows(f) : i \in Nat /\ i < Len(w) + 1 /\ policy'.window[i] = w[i]
  BY <1>2, <1>3, <1>4, <1>5
<1>7. Rows(e)' = Rows(e) \cup {Len(w) + 1}
  BY <1>3, <1>4, <1>5
<1>8. ASSUME NEW f \in Evaluators \ {e} PROVE Rows(f)' = Rows(f)
  <2>1. row.from # f
    OBVIOUS
  <2>2. \A i \in 1..Len(w) + 1 : v[i].from = f <=> i \in 1..Len(w) /\ w[i].from = f
    BY <1>3, <1>4, <2>1
  <2>3. \A i : i \in Rows(f)' <=> i \in 1..Len(w) + 1 /\ v[i].from = f
    BY <1>5
  <2>4. \A i : i \in Rows(f) <=> i \in 1..Len(w) /\ w[i].from = f
    BY <1>5
  <2>5. \A i : i \in Rows(f)' <=> i \in Rows(f)
    BY <1>4, <2>2, <2>3, <2>4
  <2>6. QED
    BY <2>5
<1>9. QED
  BY <1>2, <1>3, <1>6, <1>7, <1>8 DEF RowsKept

-----------------------------------------------------------------------------
(* The steps of an evaluator, for the evaluator itself *)

LEMMA DieParts ==
  ASSUME TypeOK, NEW e \in Evaluators, Parts(e), Die(e), pc[e] \notin {"done", "dead"}
  PROVE  Parts(e)'
<1>1. /\ policy' = policy /\ inbox' = inbox
      /\ pc'[e] = "dead" /\ conn'[e] = "closed" /\ outbox'[e] = Nothing /\ video'[e] = None
      /\ CountsKept(e) /\ pc[e] \in Place
  BY ProgressKept DEF Die, TypeOK, serverVars
<1>2. Asked(e)' /\ Recorded(e)'
  BY <1>1 DEF Parts, Asked, Recorded
<1>3. Results(e)'
  BY <1>1, ResultsMoved DEF Parts
<1>4. Described(e)'
  BY <1>1 DEF Described, InEpisode, UnderWay, Ending
<1>5. Ordered(e)' /\ Closed(e)'
  BY <1>1 DEF Parts, Seen, Ordered, Closed, Rows
<1>6. inbox[e] # Nothing /\ inbox[e].kind = "infer" =>
        (AllBefore(e, inbox[e].obs.episode, inbox[e].obs.step) /\ Complete(e, inbox[e].obs.step))'
  BY <1>1 DEF Parts, Seen, AllBefore, Complete, Rows
<1>7. Seen(e)'
  BY <1>1, <1>5, <1>6 DEF Seen
<1>8. QED
  BY <1>2, <1>3, <1>4, <1>7 DEF Parts

\* The policy as e sees it is not changed by a step of e.
LEMMA PolicySame ==
  ASSUME policy' = policy, NEW e \in Evaluators, Parts(e)
  PROVE  /\ Ordered(e)' /\ Closed(e)' /\ Rows(e)' = Rows(e)
         /\ \A episode, n : AllBefore(e, episode, n)' <=> AllBefore(e, episode, n)
         /\ \A n : Complete(e, n)' <=> Complete(e, n)
  BY DEF Parts, Seen, Ordered, Closed, AllBefore, Complete, Rows

\* Steps that neither ask nor hear from the policy, outside of an episode's requests.
LEMMA QuietSeen ==
  ASSUME NEW e \in Evaluators, Parts(e), policy' = policy, inbox'[e] = inbox[e], outbox'[e] = outbox[e],
         pc[e] \notin {"reset", "infer", "dead"}, pc'[e] \notin {"step", "reset", "infer", "dead"}
  PROVE  Asked(e)' /\ Seen(e)'
<1>1. inbox[e] = Nothing /\ outbox[e] = Nothing
  BY DEF Parts, Asked
<1>2. Seen(e)'
  BY <1>1, PolicySame DEF Seen
<1>3. QED
  BY <1>1, <1>2 DEF Asked

LEMMA ConnectParts ==
  ASSUME TypeOK, NEW e \in Evaluators, Parts(e), Connect(e) \/ Finish(e)
  PROVE  Parts(e)'
<1>1. /\ policy' = policy /\ inbox' = inbox /\ outbox' = outbox /\ video' = video
      /\ CountsKept(e) /\ SceneKept(e)
      /\ \/ pc[e] = "connect" /\ pc'[e] = "seed"
         \/ pc[e] = "seed" /\ pc'[e] = "done" /\ started[e] = TestNum[e]
  <2>1. CASE Connect(e)
    BY <2>1, ProgressKept DEF Connect, TypeOK, serverVars
  <2>2. CASE Finish(e)
    BY <2>2, ProgressKept DEF Finish, TypeOK, serverVars
  <2>3. QED
    BY <2>1, <2>2
<1>2. Asked(e)' /\ Seen(e)'
  BY <1>1, QuietSeen
<1>3. Results(e)'
  BY <1>1, ResultsMoved DEF Parts
<1>4. Described(e)' /\ Recorded(e)'
  BY <1>1 DEF Parts, Described, InEpisode, UnderWay, Ending, Recorded, CountsKept, SceneKept
<1>5. QED
  BY <1>2, <1>3, <1>4 DEF Parts

\* A seed is left behind: the ended episodes are of seeds before it.
LEMMA SeedPassed ==
  ASSUME TypeOK, NEW e \in Evaluators, Results(e), pc[e] \in {"seed", "report"}, pc'[e] = "seed",
         seed'[e] = seed[e] + 1, started'[e] = started[e], tested'[e] = tested[e],
         result'[e] = result[e], ended'[e] = ended[e]
  PROVE  Results(e)'
<1> DEFINE n == Len(ended[e])
<1>1. Solved(e, n)' = Solved(e, n) /\ (Accounts(e, n)' <=> Accounts(e, n))
  BY AccountsSame
<1>2. Counted(e)' /\ Written(e)'
  BY <1>1 DEF Results, Counted, Written, UnderWay, Ending
<1>3. \A i \in 1..n : ended[e][i].seed \in Nat
  <2>1. ended[e] \in Seq(Episode)
    BY DEF TypeOK
  <2>2. \A i \in 1..n : ended[e][i] \in Episode
    BY <2>1, ElementOfSeq
  <2>3. QED
    BY <2>2 DEF Episode
<1>4. \A i \in 1..n : ended[e][i].seed < seed[e] + 1
  <2>1. seed[e] \in Nat
    BY DEF TypeOK
  <2>2. \A i \in 1..n : ended[e][i].seed < seed[e] \/ ended[e][i].seed <= seed[e]
    BY DEF Results, Advanced, Ending
  <2>3. \A k \in Nat : k < seed[e] \/ k <= seed[e] => k < seed[e] + 1
    BY <2>1
  <2>4. QED
    BY <1>3, <2>2, <2>3
<1>5. Advanced(e)'
  BY <1>4 DEF Results, Advanced, UnderWay, Ending
<1>6. QED
  BY <1>2, <1>5 DEF Results

LEMMA SkipSeedParts ==
  ASSUME TypeOK, NEW e \in Evaluators, Parts(e), SkipSeed(e) \/ NextSeed(e)
  PROVE  Parts(e)'
<1>1. /\ policy' = policy /\ inbox' = inbox /\ outbox' = outbox /\ video' = video
      /\ conn' = conn /\ tested' = tested /\ started' = started /\ ended' = ended /\ result' = result
      /\ pc[e] \in {"seed", "report"} /\ pc'[e] = "seed"
      /\ seed[e] \in Nat /\ scene[e] \in Nat /\ seed'[e] = seed[e] + 1
  BY DEF SkipSeed, NextSeed, TypeOK, serverVars, wireVars
<1>2. scene'[e] \in {scene[e], seed[e]}
  <2>1. CASE SkipSeed(e)
    BY <2>1 DEF SkipSeed, Placed, TypeOK
  <2>2. CASE NextSeed(e)
    BY <2>2 DEF NextSeed, sceneVars
  <2>3. QED
    BY <2>1, <2>2
<1>3. Asked(e)' /\ Seen(e)'
  BY <1>1, QuietSeen
<1>4. Results(e)'
  BY <1>1, SeedPassed DEF Parts
<1>5. Described(e)' /\ Recorded(e)'
  <2>1. scene[e] <= seed[e]
    BY <1>1 DEF Parts, Described, Ending
  <2>2. scene'[e] < seed'[e]
    BY <1>1, <1>2, <2>1
  <2>3. QED
    BY <1>1, <2>2 DEF Parts, Described, InEpisode, UnderWay, Ending, Recorded
<1>6. QED
  BY <1>3, <1>4, <1>5 DEF Parts

\* What an episode is described by: its own seed, or what an earlier one left when the
\* demonstration did not even place its own objects.
LEMMA InfoOfSeed ==
  ASSUME TypeOK, NEW e \in Evaluators, scene[e] < seed[e], NEW outcome \in Outcomes, Info(e, outcome) # None
  PROVE  IF outcome = "setup fails" THEN Fallback /\ Info(e, outcome) \in 1 .. seed[e] - 1
                                    ELSE Info(e, outcome) = seed[e]
<1>1. CASE outcome = "works"
  BY <1>1 DEF Info
<1>2. CASE outcome = "demo fails"
  BY <1>2 DEF Info, Placed
<1>3. CASE outcome = "setup fails"
  <2>1. Fallback /\ Info(e, outcome) = scene[e]
    BY <1>3 DEF Info, Placed
  <2>2. scene[e] \in Nat /\ seed[e] \in Nat /\ scene[e] # 0
    BY <2>1 DEF TypeOK, None
  <2>3. scene[e] \in 1 .. seed[e] - 1
    BY ONLY <2>2, scene[e] < seed[e]
  <2>4. QED
    BY <1>3, <2>1, <2>3
<1>4. CASE outcome = "unstable"
  BY <1>4 DEF Info
<1>5. QED
  BY <1>1, <1>2, <1>3, <1>4 DEF Outcomes

LEMMA StartEpisodeParts ==
  ASSUME TypeOK, NEW e \in Evaluators, Parts(e), StartEpisode(e)
  PROVE  Parts(e)'
<1>1. /\ policy' = policy /\ inbox' = inbox /\ outbox' = outbox /\ seed' = seed /\ conn' = conn
      /\ tested' = tested /\ ended' = ended /\ result' = result /\ video' = video
      /\ pc[e] = "seed" /\ pc'[e] = "setup" /\ started[e] \in Nat /\ started'[e] = started[e] + 1
  BY DEF StartEpisode, TypeOK, serverVars, wireVars
<1>2. PICK outcome \in Outcomes : Info(e, outcome) # None /\ demo'[e] = outcome /\ instruction'[e] = Info(e, outcome)
  <2>1. PICK outcome \in Demonstrations(e) :
          /\ Info(e, outcome) # None /\ demo' = [demo EXCEPT ![e] = outcome]
          /\ instruction' = [instruction EXCEPT ![e] = Info(e, outcome)]
    BY DEF StartEpisode
  <2>2. outcome \in Outcomes
    BY DEF Demonstrations, Outcomes
  <2>3. demo'[e] = outcome /\ instruction'[e] = Info(e, outcome)
    BY <2>1 DEF TypeOK
  <2>4. QED
    BY <2>1, <2>2, <2>3
<1>3. Asked(e)' /\ Seen(e)'
  BY <1>1, QuietSeen
<1>4. Results(e)'
  <2> DEFINE n == Len(ended[e])
  <2>1. Solved(e, n)' = Solved(e, n) /\ (Accounts(e, n)' <=> Accounts(e, n))
    BY <1>1, AccountsSame
  <2>2. n = started[e] /\ n + 1 = started'[e]
    BY <1>1 DEF Parts, Results, Counted
  <2>3. QED
    BY <1>1, <2>1, <2>2 DEF Parts, Results, Counted, Advanced, Written, UnderWay, Ending
<1>5. Fits(e)'
  <2>1. scene[e] < seed[e]
    BY <1>1 DEF Parts, Described
  <2>2. QED
    BY <1>1, <1>2, <2>1, InfoOfSeed DEF Fits
<1>6. Described(e)' /\ Recorded(e)'
  BY <1>1, <1>5 DEF Parts, Described, InEpisode, Ending, Recorded
<1>7. QED
  BY <1>3, <1>4, <1>6 DEF Parts

LEMMA SetUpParts ==
  ASSUME TypeOK, NEW e \in Evaluators, Parts(e), SetUp(e)
  PROVE  Parts(e)'
<1> DEFINE request == [kind |-> "reset", seed |-> instruction[e]]
<1>1. /\ policy' = policy /\ inbox'[e] = request /\ outbox' = outbox /\ conn' = conn /\ video' = video
      /\ demo' = demo /\ instruction' = instruction /\ scene'[e] = seed[e] /\ CountsKept(e)
      /\ pc[e] = "setup" /\ pc'[e] = "reset"
  BY ProgressKept DEF SetUp, TypeOK, serverVars
<1>2. request # Nothing /\ request.kind = "reset" /\ request.seed = instruction[e]
  BY DEF Nothing
<1> HIDE DEF request
<1>3. outbox[e] = Nothing
  BY <1>1 DEF Parts, Asked
<1>4. Asked(e)' /\ Recorded(e)'
  BY <1>1, <1>2, <1>3 DEF Parts, Asked, Recorded
<1>5. Results(e)'
  BY <1>1, ResultsMoved DEF Parts, UnderWay
<1>6. Described(e)'
  BY <1>1, <1>3 DEF Parts, Described, Fits, InEpisode, UnderWay, Ending, CountsKept
<1>7. Seen(e)'
  BY <1>1, <1>2, <1>3, PolicySame DEF Seen
<1>8. QED
  BY <1>4, <1>5, <1>6, <1>7 DEF Parts

LEMMA ResetDoneParts ==
  ASSUME TypeOK, NEW e \in Evaluators, Parts(e), ResetDone(e)
  PROVE  Parts(e)'
<1>1. /\ policy' = policy /\ inbox' = inbox /\ outbox'[e] = Nothing /\ conn' = conn
      /\ CountsKept(e) /\ SceneKept(e)
      /\ pc[e] = "reset" /\ pc'[e] = "step" /\ outbox[e] # Nothing /\ outbox[e].ok
      /\ steps'[e] = 0 /\ video'[e] = tested[e].num + 1
  BY ProgressKept DEF ResetDone, StartRecording, TypeOK, serverVars
<1>2. inbox[e] = Nothing
  BY <1>1 DEF Parts, Asked
<1>3. Asked(e)'
  BY <1>1, <1>2 DEF Asked
<1>4. Recorded(e)'
  <2>1. tested[e].num = Len(ended[e])
    BY <1>1 DEF Parts, Results, Counted
  <2>2. QED
    BY <1>1, <2>1 DEF Recorded, CountsKept
<1>5. Results(e)'
  BY <1>1, ResultsMoved DEF Parts, UnderWay
<1>6. Described(e)'
  BY <1>1 DEF Parts, Described, Fits, InEpisode, UnderWay, Ending, CountsKept, SceneKept
<1>7. Rows(e)' = {}
  BY <1>1, PolicySame DEF Parts, Seen
<1>8. AllBefore(e, started[e], steps[e])' /\ Complete(e, steps[e])'
  BY <1>1, <1>7 DEF AllBefore, Complete
<1>9. Seen(e)'
  BY <1>1, <1>2, <1>8, PolicySame DEF Seen
<1>10. QED
  BY <1>3, <1>4, <1>5, <1>6, <1>9 DEF Parts

LEMMA AskPolicyParts ==
  ASSUME TypeOK, NEW e \in Evaluators, Parts(e), AskPolicy(e)
  PROVE  Parts(e)'
<1> DEFINE request == [kind |-> "infer", obs |-> Observation(e)]
<1>1. /\ policy' = policy /\ outbox' = outbox /\ inbox'[e] = request /\ conn' = conn
      /\ CountsKept(e) /\ SceneKept(e)
      /\ pc[e] = "step" /\ pc'[e] = "infer" /\ steps' = steps /\ video' = video
      /\ steps[e] \in Nat
  BY ProgressKept DEF AskPolicy, TypeOK, serverVars
<1>2. /\ request # Nothing /\ request.kind = "infer" /\ request.obs = Observation(e)
      /\ request.obs.from = e /\ request.obs.episode = started[e] /\ request.obs.step = steps[e]
  BY DEF Observation, Nothing
<1> HIDE DEF request
<1>3. outbox[e] = Nothing
  BY <1>1 DEF Parts, Asked
<1>4. Observation(e)' = Observation(e)
  BY <1>1 DEF Observation, CountsKept
<1>5. Asked(e)' /\ Recorded(e)'
  BY <1>1, <1>2, <1>3, <1>4 DEF Parts, Asked, Recorded, CountsKept
<1>6. Results(e)'
  BY <1>1, ResultsMoved DEF Parts, UnderWay
<1>7. Described(e)'
  BY <1>1, <1>3 DEF Parts, Described, Fits, InEpisode, UnderWay, Ending, CountsKept, SceneKept
<1>8. AllBefore(e, started[e], steps[e]) /\ Complete(e, steps[e])
  BY <1>1 DEF Parts, Seen
<1>9. AllBefore(e, started[e], steps[e] + 1)
  <2>1. \A i \in Rows(e) : policy.window[i] \in Row
    BY ElementOfSeq DEF Rows, TypeOK
  <2>2. QED
    BY <1>1, <1>8, <2>1 DEF AllBefore, Row
<1>10. Seen(e)'
  BY <1>1, <1>2, <1>3, <1>8, <1>9, PolicySame DEF Seen, CountsKept
<1>11. QED
  BY <1>5, <1>6, <1>7, <1>10 DEF Parts

LEMMA TakeActionParts ==
  ASSUME TypeOK, NEW e \in Evaluators, Parts(e), TakeAction(e)
  PROVE  Parts(e)'
<1>1. /\ policy' = policy /\ inbox' = inbox /\ outbox'[e] = Nothing /\ conn' = conn
      /\ CountsKept(e) /\ SceneKept(e)
      /\ pc[e] = "infer" /\ outbox[e] # Nothing /\ outbox[e].ok
      /\ steps'[e] = steps[e] + 1 /\ video' = video
  BY ProgressKept DEF TakeAction, TypeOK, serverVars
<1>2. pc'[e] \in {"step", "solved"}
  BY DEF TakeAction, TypeOK
<1>3. inbox[e] = Nothing
  BY <1>1 DEF Parts, Asked
<1>4. Asked(e)' /\ Recorded(e)'
  BY <1>1, <1>2, <1>3 DEF Parts, Asked, Recorded, CountsKept
<1>5. Results(e)'
  BY <1>1, <1>2, ResultsMoved DEF Parts, UnderWay
<1>6. Described(e)'
  BY <1>1, <1>2 DEF Parts, Described, Fits, InEpisode, UnderWay, Ending, CountsKept, SceneKept
<1>7. AllBefore(e, started[e], steps[e] + 1) /\ Complete(e, steps[e] + 1)
  BY <1>1 DEF Parts, Seen
<1>8. Seen(e)'
  BY <1>1, <1>2, <1>3, <1>7, PolicySame DEF Seen, CountsKept
<1>9. QED
  BY <1>4, <1>5, <1>6, <1>8 DEF Parts

\* An episode is added to those that ended: their account stays one of all but the last.
LEMMA LeaveEpisodeParts ==
  ASSUME TypeOK, NEW e \in Evaluators, Parts(e), LeaveEpisode(e)
  PROVE  Parts(e)'
<1> DEFINE c == ended[e]
           episode == [seed |-> seed[e], solved |-> pc[e] = "solved"]
           d == Append(c, episode)
<1>0. PICK n \in Nat : n = Len(c)
  BY LenProperties DEF TypeOK
<1>1. /\ policy' = policy /\ inbox' = inbox /\ outbox' = outbox /\ conn' = conn /\ video'[e] = None
      /\ seed' = seed /\ started' = started /\ result' = result /\ SceneKept(e)
      /\ pc[e] \in {"step", "solved"} /\ pc'[e] = "closing" /\ ended'[e] = d
  BY ProgressKept DEF LeaveEpisode, StopRecording, TypeOK, serverVars, wireVars
<1>2. /\ tested'[e].num = tested[e].num
      /\ tested'[e].suc = IF pc[e] = "solved" THEN tested[e].suc + 1 ELSE tested[e].suc
  BY DEF LeaveEpisode, TypeOK
<1>3. episode \in Episode /\ episode.seed = seed[e] /\ episode.solved = (pc[e] = "solved")
  BY DEF Episode, TypeOK
<1> HIDE DEF episode
<1>4. /\ c \in Seq(Episode) /\ d \in Seq(Episode) /\ Len(d) = n + 1 /\ d[n + 1] = episode
      /\ \A i \in 1..n : d[i] = c[i] /\ c[i] \in Episode
  <2>1. c \in Seq(Episode)
    BY DEF TypeOK
  <2>2. QED
    BY <1>0, <1>3, <2>1, AppendProperties, ElementOfSeq
<1> HIDE DEF d
<1>5. /\ n + 1 = started[e] /\ tested[e].num = n /\ tested[e].suc = Cardinality(Solved(e, n))
      /\ Accounts(e, n) /\ \A i \in 1..n : c[i].seed < seed[e]
      /\ \A i, j \in 1..n : i < j => c[i].seed < c[j].seed
  BY <1>0, <1>1 DEF Parts, Results, Counted, Written, Advanced, UnderWay
<1>6. \A i \in 1..n + 1 : (i \in 1..n /\ d[i] = c[i]) \/ (i = n + 1 /\ d[i] = episode)
  BY <1>4
<1>7. Counted(e)'
  <2>1. Solved(e, n + 1)' = IF pc[e] = "solved" THEN Solved(e, n) \cup {n + 1} ELSE Solved(e, n)
    <3>1. Solved(e, n + 1)' = {i \in 1..n + 1 : d[i].solved} /\ Solved(e, n) = {i \in 1..n : c[i].solved}
      BY <1>1 DEF Solved
    <3>2. \A i \in 1..n : i \in 1..n + 1 /\ i # n + 1 /\ d[i] = c[i]
      BY <1>4
    <3>3. n + 1 \in 1..n + 1 /\ (d[n + 1].solved <=> pc[e] = "solved")
      <4>1. n + 1 \in 1..n + 1
        OBVIOUS
      <4>2. d[n + 1].solved = (pc[e] = "solved")
        BY <1>3, <1>4, Zenon
      <4>3. QED
        BY <4>1, <4>2
    <3>4. QED
      BY <1>6, <3>1, <3>2, <3>3
  <2>2. IsFiniteSet(Solved(e, n)) /\ n + 1 \notin Solved(e, n)
    <3>1. IsFiniteSet(1..n) /\ Solved(e, n) \subseteq 1..n /\ n + 1 \notin 1..n
      BY <1>4, FS_Interval DEF Solved
    <3>2. QED
      BY <3>1, FS_Subset
  <2>3. Cardinality(Solved(e, n) \cup {n + 1}) = Cardinality(Solved(e, n)) + 1
    BY <2>2, FS_AddElement
  <2>4. tested'[e].suc = Cardinality(Solved(e, n + 1)')
    BY <1>2, <1>5, <2>1, <2>3
  <2>5. n + 1 # 0
    BY <1>4
  <2>6. QED
    BY <1>1, <1>2, <1>4, <1>5, <2>4, <2>5 DEF Counted, UnderWay
<1>8. Advanced(e)'
  <2>1. \A i \in 1..n : c[i].seed \in Nat
    BY <1>4 DEF Episode
  <2>2. seed[e] \in Nat
    BY DEF TypeOK
  <2>3. \A i \in 1..n + 1 : d[i].seed <= seed[e]
    BY <1>3, <1>5, <1>6, <2>1, <2>2
  <2>4. \A i, j \in 1..n + 1 : i < j => d[i].seed < d[j].seed
    <3> SUFFICES ASSUME NEW i \in 1..n + 1, NEW j \in 1..n + 1, i < j PROVE d[i].seed < d[j].seed
      OBVIOUS
    <3>1. i \in 1..n /\ d[i] = c[i]
      BY <1>4, <1>6
    <3>2. CASE j \in 1..n /\ d[j] = c[j]
      BY <1>5, <3>1, <3>2
    <3>3. CASE j = n + 1 /\ d[j] = episode
      BY <1>3, <1>5, <3>1, <3>3
    <3>4. QED
      BY <1>6, <3>2, <3>3
  <2>5. QED
    BY <1>1, <1>3, <1>4, <2>3, <2>4 DEF Advanced, UnderWay
<1>9. Written(e)'
  <2>1. Solved(e, n)' = Solved(e, n)
    <3>1. Solved(e, n)' = {i \in 1..n : d[i].solved} /\ Solved(e, n) = {i \in 1..n : c[i].solved}
      BY <1>1 DEF Solved
    <3>2. QED
      BY <1>4, <3>1
  <2>2. n # 0 => d[n].seed = c[n].seed
    BY <1>4
  <2>3. Accounts(e, n)'
    BY <1>1, <1>5, <2>1, <2>2 DEF Accounts
  <2>4. n + 1 - 1 = n
    BY <1>4
  <2>5. QED
    BY <1>1, <1>4, <2>3, <2>4 DEF Written, UnderWay
<1>10. Asked(e)' /\ Seen(e)'
  BY <1>1, QuietSeen
<1>11. Described(e)' /\ Recorded(e)'
  BY <1>1 DEF Parts, Described, InEpisode, UnderWay, Ending, Recorded, SceneKept
<1>12. QED
  BY <1>7, <1>8, <1>9, <1>10, <1>11 DEF Parts, Results

LEMMA CloseEnvParts ==
  ASSUME TypeOK, NEW e \in Evaluators, Parts(e), CloseEnv(e)
  PROVE  Parts(e)'
<1>1. /\ policy' = policy /\ inbox' = inbox /\ outbox' = outbox /\ video' = video
      /\ seed' = seed /\ started' = started /\ result' = result /\ ended' = ended /\ SceneKept(e)
      /\ pc[e] = "closing" /\ pc'[e] = "saving"
      /\ tested'[e].num = tested[e].num + 1 /\ tested'[e].suc = tested[e].suc
  BY ProgressKept DEF CloseEnv, TypeOK, serverVars, wireVars
<1>2. Results(e)'
  <2> DEFINE n == Len(ended[e])
  <2>1. Solved(e, n)' = Solved(e, n) /\ (Accounts(e, n - 1)' <=> Accounts(e, n - 1))
    BY <1>1, AccountsSame
  <2>2. Counted(e)'
    BY <1>1, <2>1 DEF Parts, Results, Counted, UnderWay, Ending
  <2>3. QED
    BY <1>1, <2>1, <2>2 DEF Parts, Results, Advanced, Written, UnderWay, Ending
<1>3. Asked(e)' /\ Seen(e)'
  BY <1>1, QuietSeen
<1>4. Described(e)' /\ Recorded(e)'
  BY <1>1 DEF Parts, Described, InEpisode, UnderWay, Ending, Recorded, SceneKept
<1>5. QED
  BY <1>2, <1>3, <1>4 DEF Parts

\* What res.json held is gone.
LEMMA OpenResultsParts ==
  ASSUME TypeOK, NEW e \in Evaluators, Parts(e), OpenResults(e)
  PROVE  Parts(e)'
<1>1. /\ policy' = policy /\ inbox' = inbox /\ outbox' = outbox /\ video' = video
      /\ seed' = seed /\ started' = started /\ tested' = tested /\ ended' = ended /\ SceneKept(e)
      /\ pc[e] = "saving" /\ pc'[e] = "writing" /\ result'[e] = Torn
  BY ProgressKept DEF OpenResults, TypeOK, serverVars, wireVars
<1>2. Results(e)'
  <2>1. \A n : Solved(e, n)' = Solved(e, n)
    BY <1>1 DEF Solved
  <2>2. QED
    BY <1>1, <2>1 DEF Parts, Results, Counted, Advanced, Written, UnderWay, Ending, Torn
<1>3. Asked(e)' /\ Seen(e)'
  BY <1>1, QuietSeen
<1>4. Described(e)' /\ Recorded(e)'
  BY <1>1 DEF Parts, Described, InEpisode, UnderWay, Ending, Recorded, SceneKept
<1>5. QED
  BY <1>2, <1>3, <1>4 DEF Parts

\* res.json is the account of all episodes again.
LEMMA WriteResultsParts ==
  ASSUME TypeOK, NEW e \in Evaluators, Parts(e), WriteResults(e)
  PROVE  Parts(e)'
<1> DEFINE n == Len(ended[e])
<1>1. /\ policy' = policy /\ inbox' = inbox /\ outbox' = outbox /\ video' = video
      /\ seed' = seed /\ started' = started /\ tested' = tested /\ ended' = ended /\ SceneKept(e)
      /\ pc[e] = "writing" /\ pc'[e] = "report"
      /\ result'[e] = Metrics(tested[e].num, tested[e].suc, seed[e])
  BY ProgressKept DEF WriteResults, TypeOK, serverVars, wireVars
<1>2. /\ n # 0 /\ tested[e].num = n /\ tested[e].suc = Cardinality(Solved(e, n)) /\ ended[e][n].seed = seed[e]
  BY <1>1 DEF Parts, Results, Counted, Advanced, Ending
<1>3. Solved(e, n)' = Solved(e, n)
  BY <1>1 DEF Solved
<1>4. Accounts(e, n)'
  BY <1>1, <1>2, <1>3 DEF Accounts, Metrics
<1>5. Results(e)'
  BY <1>1, <1>3, <1>4 DEF Parts, Results, Counted, Advanced, Written, UnderWay, Ending
<1>6. Asked(e)' /\ Seen(e)'
  BY <1>1, QuietSeen
<1>7. Described(e)' /\ Recorded(e)'
  BY <1>1 DEF Parts, Described, InEpisode, UnderWay, Ending, Recorded, SceneKept
<1>8. QED
  BY <1>5, <1>6, <1>7 DEF Parts

LEMMA EvaluateParts ==
  ASSUME TypeOK, NEW e \in Evaluators, Parts(e), Evaluate(e) \/ Kill(e)
  PROVE  Parts(e)'
<1>1. CASE Connect(e) \/ Finish(e)
  BY <1>1, ConnectParts
<1>2. CASE PolicyLost(e) \/ Kill(e)
  BY <1>2, DieParts DEF PolicyLost, Kill
<1>3. CASE SkipSeed(e) \/ NextSeed(e)
  BY <1>3, SkipSeedParts
<1>4. CASE StartEpisode(e) \/ SetUp(e) \/ ResetDone(e) \/ AskPolicy(e) \/ TakeAction(e)
  BY <1>4, StartEpisodeParts, SetUpParts, ResetDoneParts, AskPolicyParts, TakeActionParts
<1>5. CASE LeaveEpisode(e) \/ CloseEnv(e) \/ OpenResults(e) \/ WriteResults(e)
  BY <1>5, LeaveEpisodeParts, CloseEnvParts, OpenResultsParts, WriteResultsParts
<1>6. QED
  BY <1>1, <1>2, <1>3, <1>4, <1>5 DEF Evaluate

-----------------------------------------------------------------------------
(* The steps of the server *)

\* What the handler of e changes besides the policy.
Handled(e) ==
  /\ inbox[e] # Nothing /\ inbox' = [inbox EXCEPT ![e] = Nothing]
  /\ conn'[e] = conn[e] \/ conn'[e] = "closed"
  /\ outbox'[e] = Nothing \/ conn[e] = "open"
  /\ UNCHANGED <<pc, progress, steps, video>>
  /\ \A f \in Evaluators \ {e} : Kept(f)

LEMMA HandledOf ==
  ASSUME TypeOK, NEW e \in Evaluators, Serve(e) \/ ServeFails(e)
  PROVE  Handled(e)
<1>1. CASE Serve(e)
  BY <1>1, ProgressKept DEF Serve, Handled, Kept, TypeOK
<1>2. CASE ServeFails(e)
  BY <1>2, ProgressKept DEF ServeFails, Handled, Kept, TypeOK
<1>3. QED
  BY <1>1, <1>2

\* A reset under way becomes the prompt of an empty window, or raises and changes nothing.
LEMMA ServedReset ==
  ASSUME TypeOK, NEW e \in Evaluators, Parts(e), Handled(e), inbox[e].kind = "reset",
         \/ policy' = Served(e, inbox[e])
         \/ policy' = policy /\ (outbox'[e] # Nothing => ~outbox'[e].ok)
  PROVE  /\ Parts(e)'
         /\ (\A f \in Evaluators \ {e} : RowsGone(f)) \/ (\A f \in Evaluators \ {e} : RowsKept(f))
<1>1. /\ inbox'[e] = Nothing /\ steps' = steps /\ video' = video /\ pc' = pc
      /\ CountsKept(e) /\ SceneKept(e)
  BY ProgressKept DEF Handled, TypeOK
<1>2. pc[e] = "dead" \/ (pc[e] = "reset" /\ inbox[e].seed = instruction[e])
  BY DEF Parts, Asked, Handled
<1>3. pc[e] = "dead" => conn'[e] = "closed" /\ outbox'[e] = Nothing
  BY DEF Parts, Asked, Handled
<1>4. Asked(e)' /\ Recorded(e)'
  BY <1>1, <1>2, <1>3 DEF Parts, Asked, Recorded, CountsKept
<1>5. Results(e)'
  BY <1>1, ResultsMoved DEF Parts
<1>6. CASE policy' = Served(e, inbox[e])
  <2>1. policy' = [by |-> e, prompt |-> inbox[e].seed, window |-> <<>>]
    BY <1>6 DEF Served
  <2>2. policy'.by = e /\ policy'.prompt = inbox[e].seed /\ Rows(e)' = {}
    BY <2>1 DEF Rows
  <2>3. Described(e)'
    BY <1>1, <1>2, <2>2 DEF Parts, Described, Fits, InEpisode, UnderWay, Ending, CountsKept, SceneKept
  <2>4. Seen(e)'
    BY <1>1, <1>2, <2>2 DEF Seen, Ordered, Closed
  <2>5. \A f \in Evaluators \ {e} : RowsGone(f)
    BY <2>1, ResetWindow
  <2>6. QED
    BY <1>4, <1>5, <2>3, <2>4, <2>5 DEF Parts
<1>7. CASE policy' = policy /\ (outbox'[e] # Nothing => ~outbox'[e].ok)
  <2>1. Described(e)'
    BY <1>1, <1>2, <1>7 DEF Parts, Described, Fits, InEpisode, UnderWay, Ending, CountsKept, SceneKept
  <2>2. Seen(e)'
    BY <1>1, <1>2, <1>7, PolicySame DEF Seen
  <2>3. \A f \in Evaluators \ {e} : RowsKept(f)
    BY <1>7 DEF RowsKept, Rows
  <2>4. QED
    BY <1>4, <1>5, <2>1, <2>2, <2>3 DEF Parts
<1>8. QED
  BY <1>6, <1>7

\* A row under way is the next of its evaluator; when the call raises before it, the
\* window is as it was.
LEMMA ServedRow ==
  ASSUME TypeOK, NEW e \in Evaluators, Parts(e), Handled(e), inbox[e].kind = "infer",
         \/ policy' = Served(e, inbox[e])
         \/ policy' = policy /\ (outbox'[e] # Nothing => ~outbox'[e].ok)
  PROVE  Parts(e)' /\ \A f \in Evaluators \ {e} : RowsKept(f)
<1> DEFINE row == inbox[e].obs
           n == Len(policy.window) + 1
<1>1. /\ inbox'[e] = Nothing /\ steps' = steps /\ video' = video /\ pc' = pc
      /\ CountsKept(e) /\ SceneKept(e)
  BY ProgressKept DEF Handled, TypeOK
<1>2. inbox[e] # Nothing /\ inbox[e] \in Request
  BY DEF Handled, TypeOK
<1>3. row \in Row /\ row.from = e
  <2>1. inbox[e] \in [kind : {"infer"}, obs : Row]
    BY <1>2 DEF Request
  <2>2. QED
    BY <1>2, <2>1 DEF Parts, Asked
<1>4. /\ pc[e] = "dead" \/ (pc[e] = "infer" /\ row.episode = started[e] /\ row.step = steps[e])
      /\ outbox[e] = Nothing /\ steps[e] \in Nat /\ row.step \in Nat
  <2>1. /\ pc[e] = "dead" \/ (pc[e] = "infer" /\ row = Observation(e))
        /\ outbox[e] = Nothing
    BY <1>2 DEF Parts, Asked
  <2>2. Observation(e).episode = started[e] /\ Observation(e).step = steps[e]
    BY DEF Observation
  <2>3. steps[e] \in Nat
    BY DEF TypeOK
  <2>4. row.step \in Nat
    BY <1>3 DEF Row
  <2>5. QED
    BY <2>1, <2>2, <2>3, <2>4
<1>5. pc[e] = "dead" => conn'[e] = "closed" /\ outbox'[e] = Nothing
  BY DEF Parts, Asked, Handled
<1>6. Asked(e)' /\ Recorded(e)' /\ Results(e)'
  <2>1. Results(e)'
    BY <1>1, ResultsMoved DEF Parts
  <2>2. QED
    BY <1>1, <1>4, <1>5, <2>1 DEF Parts, Asked, Recorded, CountsKept
<1>7. Ordered(e) /\ Closed(e) /\ AllBefore(e, row.episode, row.step) /\ Complete(e, row.step)
  BY <1>2 DEF Parts, Seen
<1>8. CASE policy' = policy /\ (outbox'[e] # Nothing => ~outbox'[e].ok)
  <2>1. Described(e)'
    BY <1>1, <1>4, <1>8 DEF Parts, Described, Fits, InEpisode, UnderWay, Ending, CountsKept, SceneKept
  <2>2. pc[e] = "infer" => AllBefore(e, started[e], steps[e] + 1)
    BY DEF Parts, Seen
  <2>3. Seen(e)'
    BY <1>1, <1>4, <1>8, <2>2, PolicySame DEF Seen, CountsKept
  <2>4. \A f \in Evaluators \ {e} : RowsKept(f)
    BY <1>8 DEF RowsKept, Rows
  <2>5. QED
    BY <1>6, <2>1, <2>3, <2>4 DEF Parts
<1>9. CASE policy' = Served(e, inbox[e])
  <2>1. policy' = [policy EXCEPT !.window = Append(@, row)]
    BY <1>9 DEF Served
  <2>2. /\ policy'.by = policy.by /\ policy'.prompt = policy.prompt
        /\ Rows(e)' = Rows(e) \cup {n}
        /\ \A i \in Rows(e) : i \in Nat /\ i < n /\ policy'.window[i] = policy.window[i]
        /\ policy'.window[n] = row
        /\ \A f \in Evaluators \ {e} : RowsKept(f)
    BY <1>3, <2>1, AppendedWindow
  <2>3. n \in Nat
    BY LenProperties DEF TypeOK
  <2> HIDE DEF n, row
  <2>4. \A i \in Rows(e) : policy.window[i].episode = row.episode /\ policy.window[i].step < row.step
    BY <1>7 DEF AllBefore
  <2>5. \A i \in Rows(e) : policy.window[i].step \in Nat
    <3>1. policy.window \in Seq(Row)
      BY DEF TypeOK
    <3>2. \A i \in Rows(e) : policy.window[i] \in Row
      BY <3>1, ElementOfSeq DEF Rows
    <3>3. QED
      BY <3>2 DEF Row
  <2>6. \A i \in Rows(e)' : policy'.window[i].episode = row.episode /\ policy'.window[i].step < row.step + 1
    BY <1>4, <2>2, <2>4, <2>5
  <2>7. policy'.by = e => \A k \in 0..row.step : \E i \in Rows(e)' : policy'.window[i].step = k
    <3> SUFFICES ASSUME policy'.by = e, NEW k \in 0..row.step
                 PROVE  \E i \in Rows(e)' : policy'.window[i].step = k
      OBVIOUS
    <3>1. CASE k = row.step
      BY <2>2, <3>1
    <3>2. CASE k \in 0..row.step - 1
      <4>1. PICK i \in Rows(e) : policy.window[i].step = k
        BY <1>7, <2>2, <3>2 DEF Complete
      <4>2. QED
        BY <2>2, <4>1
    <3>3. QED
      BY <1>4, <3>1, <3>2
  <2>8. Ordered(e)'
    BY <1>7, <2>2, <2>3, <2>4, <2>5 DEF Ordered
  <2>9. Closed(e)'
    <3> SUFFICES ASSUME policy'.by = e, NEW i \in Rows(e)', NEW k \in 0..policy'.window[i].step - 1
                 PROVE  \E j \in Rows(e)' : j < i /\ policy'.window[j].step = k
      BY DEF Closed
    <3>1. CASE i \in Rows(e)
      <4>1. PICK j \in Rows(e) : j < i /\ policy.window[j].step = k
        BY <1>7, <2>2, <3>1 DEF Closed
      <4>2. QED
        BY <2>2, <4>1
    <3>2. CASE i = n
      <4>1. PICK j \in Rows(e) : policy.window[j].step = k
        BY <1>7, <2>2, <3>2 DEF Complete
      <4>2. QED
        BY <2>2, <3>2, <4>1
    <3>3. QED
      BY <2>2, <3>1, <3>2
  <2>10. Described(e)'
    BY <1>1, <1>4, <2>2 DEF Parts, Described, Fits, InEpisode, UnderWay, Ending, CountsKept, SceneKept
  <2>11. Seen(e)'
    <3>1. pc[e] = "infer" => AllBefore(e, started[e], steps[e] + 1)' /\ Complete(e, steps[e] + 1)'
      <4>1. steps[e]' + 1 - 1 = steps[e]
        BY <1>1, <1>4
      <4>2. QED
        BY <1>1, <1>4, <2>6, <2>7, <4>1 DEF AllBefore, Complete, CountsKept
    <3>2. QED
      BY <1>1, <1>4, <2>8, <2>9, <3>1 DEF Seen, CountsKept
  <2>12. QED
    BY <1>6, <2>2, <2>10, <2>11 DEF Parts
<1>10. QED
  BY <1>8, <1>9

LEMMA ServeParts ==
  ASSUME TypeOK, \A f \in Evaluators : Parts(f), NEW e \in Evaluators, Serve(e) \/ ServeFails(e)
  PROVE  \A f \in Evaluators : Parts(f)'
<1>1. Handled(e)
  BY HandledOf
<1>2. \A f \in Evaluators \ {e} : Kept(f)
  BY <1>1 DEF Handled
<1>3. \/ policy' = Served(e, inbox[e])
      \/ policy' = policy /\ (outbox'[e] # Nothing => ~outbox'[e].ok)
  <2>1. CASE Serve(e)
    BY <2>1 DEF Serve
  <2>2. CASE ServeFails(e)
    BY <2>2 DEF ServeFails, TypeOK
  <2>3. QED
    BY <2>1, <2>2
<1>4. CASE inbox[e].kind = "reset"
  BY <1>1, <1>2, <1>3, <1>4, ServedReset, KeptParts
<1>5. CASE inbox[e].kind = "infer"
  BY <1>1, <1>2, <1>3, <1>5, ServedRow, KeptParts
<1>6. inbox[e].kind \in {"reset", "infer"}
  BY <1>1 DEF Handled, TypeOK, Request
<1>7. QED
  BY <1>4, <1>5, <1>6

LEMMA CrashParts ==
  ASSUME TypeOK, NEW e \in Evaluators, Parts(e), Crash
  PROVE  Parts(e)'
<1>1. /\ policy' = policy /\ inbox'[e] = Nothing /\ outbox'[e] = Nothing
      /\ steps' = steps /\ video' = video /\ pc' = pc /\ CountsKept(e) /\ SceneKept(e)
      /\ conn'[e] = IF conn[e] = "open" THEN "closed" ELSE conn[e]
  BY ProgressKept DEF Crash
<1>2. Asked(e)' /\ Recorded(e)'
  BY <1>1 DEF Parts, Asked, Recorded, CountsKept
<1>3. Described(e)'
  BY <1>1 DEF Parts, Described, Fits, InEpisode, UnderWay, Ending, CountsKept, SceneKept
<1>4. Results(e)'
  BY <1>1, ResultsMoved DEF Parts
<1>5. Seen(e)'
  BY <1>1, PolicySame DEF Parts, Seen, CountsKept
<1>6. QED
  BY <1>2, <1>3, <1>4, <1>5 DEF Parts

LEMMA RestartParts ==
  ASSUME NEW e \in Evaluators, Parts(e), Restart
  PROVE  Parts(e)'
<1>1. Kept(e)
  BY ProgressKept DEF Restart, Kept, wireVars
<1>2. policy'.by = None /\ policy'.window = <<>>
  BY DEF Restart, Fresh
<1>3. e # None
  BY ConstantsAssumption
<1>4. RowsGone(e)
  BY <1>2, <1>3, ResetWindow
<1>5. QED
  BY <1>1, <1>4, KeptParts

-----------------------------------------------------------------------------
(* The invariant *)

LEMMA InitIInv == Init => IInv
<1> SUFFICES ASSUME Init, NEW e \in Evaluators PROVE Parts(e)
  BY InitType DEF IInv
<1>1. /\ policy.by # e /\ Rows(e) = {}
      /\ inbox[e] = Nothing /\ outbox[e] = Nothing /\ pc[e] = "connect" /\ started[e] = 0
      /\ tested[e].num = 0 /\ tested[e].suc = 0 /\ ended[e] = <<>> /\ result[e] = NoFile
      /\ seed[e] = 1 /\ scene[e] = 0 /\ video[e] = None
  BY ConstantsAssumption DEF Init, Fresh, Rows, None
<1>2. Len(<<>>) = 0 /\ 1..0 = {}
  OBVIOUS
<1>3. Solved(e, 0) = {} /\ Cardinality({}) = 0
  BY <1>2, FS_EmptySet DEF Solved
<1>4. Asked(e) /\ Recorded(e) /\ Seen(e)
  BY <1>1, <1>2 DEF Asked, Recorded, Seen, Ordered, Closed
<1>5. Described(e)
  BY <1>1 DEF Described, InEpisode, UnderWay, Ending
<1>6. Results(e)
  BY <1>1, <1>2, <1>3 DEF Results, Counted, Advanced, Written, Accounts, UnderWay, Ending
<1>7. QED
  BY <1>4, <1>5, <1>6 DEF Parts

LEMMA NextIInv == IInv /\ [Next]_vars => IInv'
<1> SUFFICES ASSUME IInv, [Next]_vars PROVE \A f \in Evaluators : Parts(f)'
  BY NextType DEF IInv
<1> USE DEF IInv
<1>1. ASSUME NEW e \in Evaluators, Evaluate(e) \/ Kill(e) PROVE \A f \in Evaluators : Parts(f)'
  <2>1. Parts(e)'
    BY <1>1, EvaluateParts
  <2>2. \A f \in Evaluators \ {e} : Kept(f) /\ RowsKept(f)
    BY <1>1, EvaluatorsApart
  <2>3. QED
    BY <2>1, <2>2, KeptParts
<1>2. ASSUME NEW e \in Evaluators, Serve(e) \/ ServeFails(e) PROVE \A f \in Evaluators : Parts(f)'
  BY <1>2, ServeParts
<1>3. CASE Crash
  BY <1>3, CrashParts
<1>4. CASE Restart
  BY <1>4, RestartParts
<1>5. CASE UNCHANGED vars
  <2>1. \A f \in Evaluators : Kept(f) /\ RowsKept(f)
    BY <1>5, ProgressKept DEF vars, serverVars, wireVars, Kept, RowsKept, Rows
  <2>2. QED
    BY <2>1, KeptParts
<1>6. QED
  BY <1>1, <1>2, <1>3, <1>4, <1>5 DEF Next, Done

LEMMA Invariance == Spec => []IInv
  BY InitIInv, NextIInv, PTL DEF Spec

-----------------------------------------------------------------------------
(* Nobody is left waiting *)

\* The connection and the request of an evaluator, and the server they need.
Linked(e) ==
  /\ inbox[e] # Nothing \/ conn[e] = "open" => up
  /\ pc[e] # "connect" => conn[e] \in {"open", "closed"}
  /\ pc[e] \in {"reset", "infer"} => inbox[e] # Nothing \/ outbox[e] # Nothing \/ conn[e] = "closed"
  /\ started[e] <= TestNum[e]
  /\ pc[e] = "step" => steps[e] <= Limit[e]
  /\ pc[e] = "infer" => steps[e] < Limit[e]

LinkedInv == IInv /\ \A e \in Evaluators : Linked(e)

\* The places an evaluator passes without the policy, one after the other.
After(place) ==
  CASE place = "closing" -> "saving"
    [] place = "saving" -> "writing"
    [] place = "writing" -> "report"

\* The step of e seen from e: each disjunct is what one action does to what is counted.
EvaluatorStep(e) ==
  \/ pc[e] = "connect" /\ pc'[e] = "seed" /\ conn'[e] = "open" /\ up
       /\ UNCHANGED <<seed[e], started[e], inbox[e], outbox[e]>>
  \/ pc[e] = "seed" /\ pc'[e] = "done" /\ conn'[e] = "closed"
       /\ UNCHANGED <<seed[e], started[e], inbox[e], outbox[e]>>
  \/ pc[e] = "seed" /\ pc'[e] = "seed" /\ seed[e] \in 1 .. Seeds[e] /\ seed'[e] = seed[e] + 1
       /\ UNCHANGED <<started[e], conn[e], inbox[e], outbox[e]>>
  \/ pc[e] = "seed" /\ pc'[e] = "setup" /\ started[e] < TestNum[e] /\ started'[e] = started[e] + 1
       /\ UNCHANGED <<seed[e], conn[e], inbox[e], outbox[e]>>
  \/ pc[e] = "setup" /\ pc'[e] = "reset" /\ conn[e] = "open" /\ inbox'[e] # Nothing
       /\ UNCHANGED <<seed[e], started[e], conn[e], outbox[e]>>
  \/ pc[e] = "reset" /\ outbox[e] # Nothing /\ pc'[e] = "step" /\ steps'[e] = 0
       /\ UNCHANGED <<seed[e], started[e], conn[e], inbox[e]>>
  \/ pc[e] = "step" /\ pc'[e] = "infer" /\ steps[e] < Limit[e] /\ inbox'[e] # Nothing /\ conn[e] = "open"
       /\ UNCHANGED <<seed[e], started[e], conn[e], outbox[e], steps[e]>>
  \/ pc[e] = "infer" /\ outbox[e] # Nothing /\ pc'[e] \in {"solved", "step"} /\ steps'[e] = steps[e] + 1
       /\ UNCHANGED <<seed[e], started[e], conn[e], inbox[e]>>
  \/ (pc[e] = "solved" \/ (pc[e] = "step" /\ steps[e] = Limit[e]))
       /\ pc'[e] = "closing" /\ UNCHANGED <<seed[e], started[e], conn[e], inbox[e], outbox[e]>>
  \/ pc[e] \in {"closing", "saving", "writing"} /\ pc'[e] = After(pc[e])
       /\ UNCHANGED <<seed[e], started[e], conn[e], inbox[e], outbox[e]>>
  \/ pc[e] = "report" /\ pc'[e] = "seed" /\ seed'[e] = seed[e] + 1
       /\ UNCHANGED <<started[e], conn[e], inbox[e], outbox[e]>>
  \/ pc[e] \notin {"done", "dead"} /\ pc'[e] = "dead" /\ conn'[e] = "closed"
       /\ UNCHANGED <<seed[e], started[e], inbox[e], steps[e]>>

LEMMA EvaluatorSteps ==
  ASSUME TypeOK, NEW e \in Evaluators, Evaluate(e) \/ Kill(e)
  PROVE  EvaluatorStep(e)
<1> USE DEF EvaluatorStep, TypeOK
<1>1. CASE Connect(e) \/ Finish(e)
  BY <1>1 DEF Connect, Finish, serverVars, progress, countVars
<1>2. CASE SkipSeed(e)
  <2>1. seed[e] \in Nat \ {0} /\ Seeds[e] \in Nat
    BY ConstantsAssumption
  <2>2. seed[e] \in 1 .. Seeds[e]
    <3>1. ASSUME seed[e] \notin 1 .. Seeds[e] PROVE FALSE
      <4>1. Demonstrations(e) = {"works"}
        BY <2>1, <3>1 DEF Demonstrations
      <4>2. Info(e, "works") = None
        BY <1>2, <4>1 DEF SkipSeed
      <4> QED
        BY <2>1, <4>2 DEF Info, None
    <3> QED
      BY <3>1
  <2> QED
    BY <1>2, <2>2 DEF SkipSeed, serverVars, wireVars
<1>3. CASE StartEpisode(e)
  BY <1>3 DEF StartEpisode, serverVars, wireVars
<1>4. CASE SetUp(e)
  <2>1. inbox'[e] = [kind |-> "reset", seed |-> instruction[e]]
    BY <1>4 DEF SetUp
  <2>2. inbox'[e] # Nothing
    BY <2>1 DEF Nothing
  <2> QED
    BY <1>4, <2>2 DEF SetUp, serverVars, countVars
<1>5. CASE ResetDone(e)
  BY <1>5 DEF ResetDone, serverVars, progress, countVars
<1>6. CASE AskPolicy(e)
  <2>1. inbox'[e] = [kind |-> "infer", obs |-> Observation(e)]
    BY <1>6 DEF AskPolicy
  <2>2. inbox'[e] # Nothing
    BY <2>1 DEF Nothing
  <2> QED
    BY <1>6, <2>2 DEF AskPolicy, serverVars, progress, countVars
<1>7. CASE TakeAction(e)
  BY <1>7 DEF TakeAction, serverVars, progress, countVars
<1>8. CASE LeaveEpisode(e)
  BY <1>8 DEF LeaveEpisode, serverVars, wireVars
<1>9. CASE CloseEnv(e) \/ OpenResults(e) \/ WriteResults(e)
  BY <1>9 DEF CloseEnv, OpenResults, WriteResults, After, serverVars, wireVars
<1>10. CASE NextSeed(e)
  BY <1>10 DEF NextSeed, serverVars, wireVars
<1>11. CASE PolicyLost(e) \/ Kill(e)
  BY <1>11 DEF PolicyLost, Kill, Die, serverVars, progress, countVars
<1> QED
  BY <1>1, <1>2, <1>3, <1>4, <1>5, <1>6, <1>7, <1>8, <1>9, <1>10, <1>11 DEF Evaluate

LEMMA KeptLinked ==
  ASSUME NEW e \in Evaluators, Kept(e), Linked(e), up' = up \/ up'
  PROVE  Linked(e)'
BY DEF Kept, CountsKept, Linked

LEMMA LinkedNext == LinkedInv /\ [Next]_vars => LinkedInv'
<1> SUFFICES ASSUME LinkedInv, [Next]_vars PROVE \A f \in Evaluators : Linked(f)'
  BY NextIInv DEF LinkedInv
<1>1. TypeOK /\ IInv /\ \A f \in Evaluators : Linked(f) /\ Asked(f)
  BY DEF LinkedInv, IInv, Parts
<1>2. ASSUME NEW e \in Evaluators, Evaluate(e) \/ Kill(e) PROVE \A f \in Evaluators : Linked(f)'
  <2>1. EvaluatorStep(e) /\ up' = up /\ \A f \in Evaluators \ {e} : Kept(f)
    BY <1>1, <1>2, EvaluatorSteps, EvaluatorsApart
  <2>2. \A f \in Evaluators \ {e} : Linked(f)'
    BY <1>1, <2>1, KeptLinked
  <2>3. /\ started[e] \in Nat /\ steps[e] \in Nat /\ steps'[e] \in Nat /\ TestNum[e] \in Nat /\ Limit[e] \in Nat \ {0}
        /\ conn[e] \in {"none", "open", "closed"}
    <3>1. TypeOK'
      BY <1>1, NextType
    <3> QED
      BY <1>1, <3>1, ConstantsAssumption DEF TypeOK
  <2>4. Linked(e) /\ Asked(e)
    BY <1>1
  <2>5. Linked(e)'
    BY ONLY <2>1, <2>3, <2>4 DEF EvaluatorStep, Linked, Asked, After
  <2> QED
    BY <2>2, <2>5
<1>3. ASSUME NEW e \in Evaluators, Serve(e) \/ ServeFails(e) PROVE \A f \in Evaluators : Linked(f)'
  <2>1. Handled(e) /\ up' = up
    BY <1>1, <1>3, HandledOf DEF Serve, ServeFails
  <2>2. \A f \in Evaluators \ {e} : Linked(f)'
    BY <1>1, <2>1, KeptLinked DEF Handled
  <2>3. conn'[e] # "closed" => conn'[e] = conn[e] /\ (conn[e] = "open" => outbox'[e] # Nothing)
    <3>1. CASE Serve(e)
      <4>1. conn' = conn /\ (conn[e] = "open" => outbox'[e] = [ok |-> TRUE])
        BY <1>1, <3>1 DEF Serve, TypeOK
      <4>2. [ok |-> TRUE] # Nothing
        BY DEF Nothing
      <4> QED
        BY <4>1, <4>2
    <3>2. CASE ServeFails(e)
      BY <1>1, <3>2 DEF ServeFails, TypeOK
    <3> QED
      BY <1>3, <3>1, <3>2
  <2>4. Linked(e)'
    BY <1>1, <2>1, <2>3 DEF Handled, Linked, TypeOK, progress, countVars
  <2> QED
    BY <2>2, <2>4
<1>4. ASSUME Crash, NEW e \in Evaluators PROVE Linked(e)'
  BY <1>1, <1>4 DEF Crash, Linked, TypeOK, progress, countVars
<1>5. ASSUME Restart, NEW e \in Evaluators PROVE Linked(e)'
  BY <1>1, <1>5 DEF Restart, Linked, wireVars, progress, countVars
<1>6. ASSUME UNCHANGED vars, NEW e \in Evaluators PROVE Linked(e)'
  BY <1>1, <1>6 DEF vars, serverVars, Linked, wireVars, progress, countVars
<1> QED
  BY <1>2, <1>3, <1>4, <1>5, <1>6 DEF Next, Done

LEMMA LinkedInit == Init => LinkedInv
<1> SUFFICES ASSUME Init, NEW e \in Evaluators PROVE Linked(e)
  BY InitIInv DEF LinkedInv
<1> QED
  BY ConstantsAssumption DEF Init, Linked

LEMMA LinkedAlways == Spec => []LinkedInv
BY LinkedInit, LinkedNext, PTL DEF Spec

\* What one action of e does to what is left of e.
LEMMA EvaluatorProceeds ==
  ASSUME LinkedInv, NEW e \in Evaluators, Evaluate(e) \/ Kill(e)
  PROVE  LessLeft(e)
<1>1. EvaluatorStep(e) /\ Linked(e) /\ Asked(e)
  BY EvaluatorSteps DEF LinkedInv, IInv, Parts
<1>2. /\ started[e] \in Nat /\ steps[e] \in Nat /\ TestNum[e] \in Nat /\ Limit[e] \in Nat \ {0}
      /\ Seeds[e] \in Nat /\ seed[e] \in Nat \ {0} /\ pc[e] \in Place
  BY ConstantsAssumption DEF LinkedInv, IInv, TypeOK
<1>3. CASE pc[e] = "seed" /\ pc'[e] = "seed" /\ seed[e] \in 1 .. Seeds[e] /\ seed'[e] = seed[e] + 1 /\ started'[e] = started[e]
  BY ONLY <1>2, <1>3 DEF LessLeft, EpisodesLeft, SeedsLeft
<1>4. CASE started[e] < TestNum[e] /\ started'[e] = started[e] + 1 /\ seed'[e] = seed[e]
  BY ONLY <1>2, <1>4 DEF LessLeft, EpisodesLeft, SeedsLeft
<1>5. ASSUME started'[e] = started[e], seed'[e] = seed[e] \/ seed'[e] = seed[e] + 1, RequestsLeft(e)' < RequestsLeft(e)
      PROVE  LessLeft(e)
  BY ONLY <1>2, <1>5 DEF LessLeft, EpisodesLeft, SeedsLeft
<1>6. CASE /\ \/ pc[e] = "connect" /\ pc'[e] = "seed"
              \/ pc[e] = "seed" /\ pc'[e] = "done"
              \/ pc[e] \in {"closing", "saving", "writing"} /\ pc'[e] = After(pc[e])
           /\ UNCHANGED <<seed[e], started[e], inbox[e]>>
  <2>1. RequestsLeft(e)' < RequestsLeft(e)
    BY ONLY <1>6 DEF RequestsLeft, After
  <2> QED
    BY <1>5, <1>6, <2>1
<1>7. CASE pc[e] = "setup" /\ pc'[e] = "reset" /\ UNCHANGED <<seed[e], started[e]>>
  <2>1. inbox[e] = Nothing
    BY <1>1, <1>7 DEF Asked
  <2>2. RequestsLeft(e)' < RequestsLeft(e)
    BY ONLY <1>2, <1>7, <2>1 DEF RequestsLeft
  <2> QED
    BY <1>5, <1>7, <2>2
<1>8. CASE pc[e] = "reset" /\ outbox[e] # Nothing /\ pc'[e] = "step" /\ steps'[e] = 0 /\ UNCHANGED <<seed[e], started[e], inbox[e]>>
  <2>1. RequestsLeft(e)' < RequestsLeft(e)
    BY ONLY <1>2, <1>8 DEF RequestsLeft
  <2> QED
    BY <1>5, <1>8, <2>1
<1>9. CASE /\ pc[e] = "step" /\ pc'[e] = "infer" /\ steps[e] < Limit[e]
           /\ UNCHANGED <<seed[e], started[e], steps[e]>>
  <2>1. inbox[e] = Nothing
    BY <1>1, <1>9 DEF Asked
  <2>2. RequestsLeft(e)' < RequestsLeft(e)
    BY ONLY <1>2, <1>9, <2>1 DEF RequestsLeft
  <2> QED
    BY <1>5, <1>9, <2>2
<1>10. CASE /\ pc[e] = "infer" /\ outbox[e] # Nothing /\ pc'[e] \in {"solved", "step"} /\ steps'[e] = steps[e] + 1
            /\ UNCHANGED <<seed[e], started[e], inbox[e]>>
  <2>1. steps[e] < Limit[e]
    BY <1>1, <1>10 DEF Linked
  <2>2. RequestsLeft(e)' < RequestsLeft(e)
    BY ONLY <1>2, <1>10, <2>1 DEF RequestsLeft
  <2> QED
    BY <1>5, <1>10, <2>2
<1>11. CASE /\ pc[e] = "solved" \/ (pc[e] = "step" /\ steps[e] = Limit[e])
            /\ pc'[e] = "closing" /\ UNCHANGED <<seed[e], started[e], inbox[e]>>
  <2>1. RequestsLeft(e)' < RequestsLeft(e)
    BY ONLY <1>2, <1>11 DEF RequestsLeft
  <2> QED
    BY <1>5, <1>11, <2>1
<1>12. CASE pc[e] = "report" /\ pc'[e] = "seed" /\ seed'[e] = seed[e] + 1 /\ UNCHANGED <<started[e], inbox[e]>>
  <2>1. RequestsLeft(e)' < RequestsLeft(e)
    BY ONLY <1>12 DEF RequestsLeft
  <2> QED
    BY <1>5, <1>12, <2>1
<1>13. CASE pc[e] \notin {"done", "dead"} /\ pc'[e] = "dead" /\ UNCHANGED <<seed[e], started[e], inbox[e]>>
  <2>1. (pc[e] = "step" => steps[e] <= Limit[e]) /\ (pc[e] = "infer" => steps[e] < Limit[e])
    BY <1>1 DEF Linked
  <2>2. RequestsLeft(e)' < RequestsLeft(e)
    BY ONLY <1>2, <1>13, <2>1 DEF RequestsLeft, Place
  <2> QED
    BY <1>5, <1>13, <2>2
<1> QED
  BY ONLY <1>1, <1>3, <1>4, <1>6, <1>7, <1>8, <1>9, <1>10, <1>11, <1>12, <1>13 DEF EvaluatorStep

\* Another's steps, and the server's end and start, take nothing back.
LEMMA OthersProceed ==
  ASSUME TypeOK, NEW e \in Evaluators, Kept(e)
  PROVE  UNCHANGED <<EpisodesLeft(e), SeedsLeft(e), RequestsLeft(e)>>
BY DEF Kept, CountsKept, EpisodesLeft, SeedsLeft, RequestsLeft

LEMMA RequestsAreNumbers ==
  ASSUME LinkedInv, NEW e \in Evaluators PROVE RequestsLeft(e) \in Int
<1>1. steps[e] \in Nat /\ Limit[e] \in Nat
  BY ConstantsAssumption DEF LinkedInv, IInv, TypeOK
<1> QED
  BY <1>1 DEF RequestsLeft

\* A request that is received or lost is one less.
LEMMA ReceivedProceeds ==
  ASSUME LinkedInv, NEW e \in Evaluators, UNCHANGED <<pc, progress, steps>>, inbox'[e] = Nothing
  PROVE  /\ inbox[e] # Nothing => LessLeft(e)
         /\ inbox[e] = Nothing => UNCHANGED <<EpisodesLeft(e), SeedsLeft(e), RequestsLeft(e)>>
<1>1. started[e] \in Nat /\ seed[e] \in Nat /\ TestNum[e] \in Nat /\ Seeds[e] \in Nat /\ steps[e] \in Nat /\ Limit[e] \in Nat
  BY ConstantsAssumption DEF LinkedInv, IInv, TypeOK
<1>2. UNCHANGED <<EpisodesLeft(e), SeedsLeft(e)>> /\ EpisodesLeft(e) \in Int /\ SeedsLeft(e) \in Int
  BY <1>1 DEF EpisodesLeft, SeedsLeft, progress, countVars
<1>3. inbox[e] # Nothing => RequestsLeft(e)' < RequestsLeft(e)
  BY <1>1 DEF RequestsLeft
<1>4. inbox[e] = Nothing => UNCHANGED RequestsLeft(e)
  BY DEF RequestsLeft
<1> QED
  BY <1>2, <1>3, <1>4 DEF LessLeft

LEMMA EvaluationStep ==
  ASSUME LinkedInv, [Next]_vars, ~UNCHANGED vars
  PROVE  /\ \A e \in Evaluators : LessLeft(e) \/ UNCHANGED <<EpisodesLeft(e), SeedsLeft(e), RequestsLeft(e)>>
         /\ up' = up => \E e \in Evaluators : LessLeft(e)
<1>1. TypeOK
  BY DEF LinkedInv, IInv
<1>2. ASSUME NEW e \in Evaluators, Evaluate(e) \/ Kill(e) \/ Serve(e) \/ ServeFails(e)
      PROVE  LessLeft(e) /\ \A f \in Evaluators \ {e} : Kept(f)
  <2>1. CASE Evaluate(e) \/ Kill(e)
    BY <1>1, <2>1, EvaluatorProceeds, EvaluatorsApart
  <2>2. CASE Serve(e) \/ ServeFails(e)
    <3>1. Handled(e)
      BY <1>1, <2>2, HandledOf
    <3>2. inbox'[e] = Nothing
      BY <1>1, <3>1 DEF Handled, TypeOK
    <3> QED
      BY <3>1, <3>2, ReceivedProceeds DEF Handled
  <2> QED
    BY <1>2, <2>1, <2>2
<1>3. ASSUME NEW e \in Evaluators, LessLeft(e), \A f \in Evaluators \ {e} : Kept(f)
      PROVE  /\ \A f \in Evaluators : LessLeft(f) \/ UNCHANGED <<EpisodesLeft(f), SeedsLeft(f), RequestsLeft(f)>>
             /\ up' = up => \E f \in Evaluators : LessLeft(f)
  BY <1>1, <1>3, OthersProceed
<1>4. CASE Crash
  <2>1. up' # up /\ UNCHANGED <<pc, progress, steps>> /\ \A e \in Evaluators : inbox'[e] = Nothing
    BY <1>4 DEF Crash
  <2> QED
    BY <2>1, ReceivedProceeds
<1>5. CASE Restart
  <2>1. up' # up /\ \A e \in Evaluators : Kept(e)
    BY <1>5, ProgressKept DEF Restart, Kept, wireVars
  <2> QED
    BY <1>1, <2>1, OthersProceed
<1> QED
  BY <1>2, <1>3, <1>4, <1>5 DEF Next, Done

-----------------------------------------------------------------------------
(* Theorems *)

\* Every variable of evaluators, connections and policy keeps its type.
THEOREM TypeCorrect == Spec => []TypeOK
<1>1. IInv => TypeOK
  BY DEF IInv
<1>2. QED
  BY <1>1, Invariance, PTL

\* However evaluators share the policy, die with requests under way and the server
\* restarts, a policy has of the evaluator that reset it last each observation of its
\* episode once, in order, and of no other episode of it.
THEOREM EpisodesSeenWhole == Spec => []EpisodeSeenWhole
<1>1. IInv => EpisodeSeenWhole
  BY DEF IInv, Parts, Seen, Ordered, Closed, AllBefore, EpisodeSeenWhole
<1>2. QED
  BY <1>1, Invariance, PTL

\* Whatever the demonstrations do and whenever the evaluator dies, between any two of counting
\* a success, closing, counting the episode and writing: res.json is a true account of all
\* ended episodes or of all but the last, or is torn by a write that was under way.
THEOREM ResultsComplete == Spec => []ResultsAreComplete
<1>1. ASSUME NEW e \in Evaluators, NEW n, Accounts(e, n) PROVE result[e] # Torn
  BY <1>1 DEF Accounts, Metrics, NoFile, Torn
<1>2. ASSUME IInv, NEW e \in Evaluators
      PROVE  LET n == Len(ended[e])
             IN  /\ \A i, j \in 1..n : i < j => ended[e][i].seed < ended[e][j].seed
                 /\ IF result[e] = Torn
                      THEN pc[e] \in {"writing", "dead"}
                      ELSE \/ Accounts(e, n)
                           \/ n > 0 /\ Accounts(e, n - 1) /\ pc[e] \in {"closing", "saving", "dead"}
                 /\ pc[e] = "seed" => n = started[e]
                 /\ pc[e] = "done" => Accounts(e, TestNum[e])
  <2>1. Results(e) /\ pc[e] \in Place
    BY <1>2 DEF IInv, Parts, TypeOK
  <2>2. Len(ended[e]) \in Nat
    BY <1>2, LenProperties DEF IInv, TypeOK
  <2>3. Len(ended[e]) # 0 => Len(ended[e]) > 0
    BY <2>2
  <2>4. IF result[e] = Torn
          THEN pc[e] \in {"writing", "dead"}
          ELSE \/ Accounts(e, Len(ended[e]))
               \/ /\ Len(ended[e]) # 0 /\ Accounts(e, Len(ended[e]) - 1)
                  /\ pc[e] \in {"closing", "saving", "dead"}
    BY <1>1, <2>1 DEF Results, Counted, Written, UnderWay, Ending, Place
  <2>5. QED
    BY <2>1, <2>3, <2>4 DEF Results, Counted, Advanced, Written
<1>3. IInv => ResultsAreComplete
  BY <1>2 DEF ResultsAreComplete
<1>4. QED
  BY <1>3, Invariance, PTL

\* The instruction of an episode is of the objects in its scene, unless its demonstration's
\* set-up raised and the second one did not, and so is the prompt of a policy that the
\* evaluator was the last to reset.
THEOREM InstructionsFit == Spec => []InstructionIsOfScene
<1>1. IInv => InstructionIsOfScene
  BY DEF IInv, Parts, Described, Fits, InEpisode, UnderWay, InstructionIsOfScene
<1>2. QED
  BY <1>1, Invariance, PTL

\* A recorder is on the environment just while its own episode runs.
THEOREM VideosFit == Spec => []VideoIsOfEpisode
<1>1. IInv => VideoIsOfEpisode
  BY DEF IInv, Parts, Recorded, VideoIsOfEpisode
<1>2. QED
  BY <1>1, Invariance, PTL

\* However the server crashes and comes back, calls raise and others die: an evaluator that
\* has not ended can go on, or its request is with a handler that runs.
THEOREM NobodyWaits == Spec => []NobodyLeftWaiting
<1>1. ASSUME LinkedInv, NEW e \in Evaluators
      PROVE  /\ pc[e] \in {"done", "dead"} \/ CanGoOn(e)
             /\ started[e] <= TestNum[e] /\ (pc[e] = "step" => steps[e] <= Limit[e])
  <2>1. Linked(e) /\ pc[e] \in Place /\ up \in BOOLEAN
    BY <1>1 DEF LinkedInv, IInv, TypeOK
  <2> QED
    BY ONLY <2>1 DEF Linked, CanGoOn, Place
<1>2. LinkedInv => NobodyLeftWaiting
  BY <1>1 DEF NobodyLeftWaiting
<1> QED
  BY <1>2, LinkedAlways, PTL

\* Each step but a crash or restart of the server brings an evaluation nearer to its end,
\* and none sets one back, for any number of evaluators, seeds, steps and crashes.
THEOREM ProgressTheorem == Spec => EvaluationsProceed
<1>1. ASSUME LinkedInv, [Next]_vars
      PROVE  [/\ \A e \in Evaluators :
                   LessLeft(e) \/ UNCHANGED <<EpisodesLeft(e), SeedsLeft(e), RequestsLeft(e)>>
              /\ up' = up => \E e \in Evaluators : LessLeft(e)]_vars
  BY <1>1, EvaluationStep
<1> QED
  BY <1>1, LinkedAlways, PTL DEF Spec, EvaluationsProceed
=============================================================================
