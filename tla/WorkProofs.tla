------------------------------ MODULE WorkProofs ------------------------------
(***************************************************************************)
(* Theorems about SendWorkers for any leads, workers, jobs and phones and  *)
(* any number of retries, crashes and failed transactions.  They rest on   *)
(* what is proved of MatrixScheduler, whose steps the workers' loops take. *)
(***************************************************************************)
EXTENDS SendWorkers, QuotaProofs

LoopTypes ==
    /\ phase \in [Workers -> Phases]
    /\ looks \in [Workers -> 0..ObserveRetries]
    /\ verdict \in [Workers -> {"done", "failed"}]
    /\ leaving \in [Workers -> BOOLEAN]
    /\ cancel \in [Jobs -> {"no", "releasing", "released"} \cup FlagUp]
    /\ retries \in 0..MaxRetries /\ mishaps \in 0..MaxMishaps
    /\ dms \in [Leads -> Nat] /\ requeued \in [Leads -> Nat] /\ late \in [Workers -> Nat]

AtPhone == {"claimed", "observing", "ready", "acting", "ran"}
PhaseFits(p, c) ==
    /\ p \in {"top", "claiming"} => c = "idle"
    /\ p \in AtPhone => c = "holding"

WorkTypeInv ==
    /\ TypeOK /\ ClaimsConsistent /\ LoopTypes
    /\ \A w \in Workers : PhaseFits(phase[w], pc[w])

\* A worker leaves the loop before it has claimed.
Stops(w) ==
    /\ pc[w] = "idle" /\ pc' = [pc EXCEPT ![w] = "stopped"]
    /\ UNCHANGED <<rowVars, quotaVars, device, today, issued, claim, writing, releaseVars>>

\* Steps between workers and queue, by what they leave alone: a worker only
\* moves itself, and a request or a cancellation moves no worker.
OwnStep(w) ==
    /\ \A v \in Workers \ {w} :
         /\ phase'[v] = phase[v] /\ pc'[v] = pc[v] /\ claim'[v] = claim[v]
         /\ writing'[v] = writing[v] /\ late'[v] = late[v]
    /\ UNCHANGED <<cancel, requeued>>
QueueStep == UNCHANGED <<loopVars, workerVars, dms, late>>
------------------------------------------------------------------------------
LEMMA WorkConstants ==
    /\ Cancellable \subseteq Jobs
    /\ MaxRetries \in Nat /\ MaxMishaps \in Nat /\ ObserveRetries \in Nat
BY WorkerAssumption DEF WorkerAssumption

\* A cancellation takes rows back, at once or as a release that begins or ends,
\* and moves on.
Cancels(j) == CancelReleases(j) \/ CancelTimesOut(j) \/ CancelCommits(j)

LEMMA CancelsByRelease ==
    ASSUME NEW j \in Jobs, Cancels(j)
    PROVE  /\ \/ UNCHANGED vars
              \/ \E owned \in BOOLEAN : ReleaseClaimedTasksForJob(j, owned)
              \/ BeginRelease(j) \/ EndRelease(j)
           /\ \E s \in {"releasing", "released", "sweeping", "swept"} :
                cancel' = [cancel EXCEPT ![j] = s] /\ (s \in FlagUp \/ cancel[j] \notin FlagUp)
           /\ QueuedAgain /\ UNCHANGED <<loopVars, retries, mishaps, dms, late>>
<1> USE DEF FlagUp
<1>1. CASE CancelReleases(j)
  BY <1>1 DEF CancelReleases, TakeBackFor, TakeBack
<1>2. CASE CancelTimesOut(j)
  BY <1>2 DEF CancelTimesOut, TakeBackFor, TakeBack
<1>3. CASE CancelCommits(j)
  <2>1. cancel' = [cancel EXCEPT ![j] = IF cancel[j] = "releasing" THEN "released" ELSE "swept"]
    BY <1>3 DEF CancelCommits
  <2>2. \E s \in {"released", "swept"} :
          cancel' = [cancel EXCEPT ![j] = s] /\ (s \in FlagUp \/ cancel[j] \notin FlagUp)
    <3>1. CASE cancel[j] = "releasing"
      BY <2>1, <3>1
    <3>2. CASE cancel[j] # "releasing"
      BY <2>1, <3>2
    <3> QED
      BY <3>1, <3>2
  <2> QED
    BY <1>3, <2>2 DEF CancelCommits
<1> QED
  BY <1>1, <1>2, <1>3 DEF Cancels

LEMMA CancelSteps ==
    ASSUME NEW j \in Jobs, Cancels(j)
    PROVE  [Next]_vars /\ UNCHANGED workerVars
<1>1. [Next]_vars
  BY CancelsByRelease DEF Next
<1>2. UNCHANGED workerVars
  BY CancelsByRelease DEF vars, workerVars, ReleaseClaimedTasksForJob, BeginRelease, EndRelease
<1> QED
  BY <1>1, <1>2

\* Every step of the loops and of the requests is a step of the scheduler, or
\* a worker that stops before it claims.
LEMMA WorkImplementsScheduler ==
    ASSUME LoopTypes, \A w \in Workers : PhaseFits(phase[w], pc[w]), [WorkNext]_workVars
    PROVE  [Next]_vars \/ \E w \in Workers : Stops(w)
<1>1. ASSUME NEW w \in Workers, LoopTop(w)
      PROVE  UNCHANGED vars \/ Stops(w)
  BY <1>1 DEF LoopTop, PhaseFits, Stops, vars, rowVars, quotaVars, releaseVars
<1>2. ASSUME NEW w \in Workers, Claims(w)
      PROVE  Next
  BY <1>2 DEF Claims, Next
<1>3. ASSUME NEW w \in Workers, NEW screen,
             PrepareAgent(w) \/ Observe(w, screen) \/ StartGoal(w) \/ AgentRuns(w) \/ JudgeResult(w)
      PROVE  UNCHANGED vars
  BY <1>3 DEF PrepareAgent, Observe, StartGoal, AgentRuns, JudgeResult
<1>4. ASSUME NEW w \in Workers, Report(w)
      PROVE  Next
  <2>1. verdict[w] \in Verdicts
    BY DEF LoopTypes, Verdicts
  <2> QED
    BY <1>4, <2>1 DEF Report, Next
<1>5. ASSUME NEW w \in Workers, Mishap(w)
      PROVE  Next
  BY <1>5 DEF Mishap, Next
<1>6. ASSUME NEW j \in Jobs, Cancels(j) \/ CancelMarks(j)
      PROVE  [Next]_vars
  BY <1>6, CancelSteps DEF CancelMarks
<1>7. CASE Retry
  BY <1>7 DEF Retry, Next
<1>8. CASE UNCHANGED workVars
  BY <1>8 DEF workVars, vars
<1> QED
  BY <1>1, <1>2, <1>3, <1>4, <1>5, <1>6, <1>7, <1>8 DEF WorkNext, Cancels, LoopStep

LEMMA SchedulerInvariantsKept ==
    ASSUME WorkTypeInv, [WorkNext]_workVars
    PROVE  TypeOK' /\ ClaimsConsistent'
<1>1. CASE [Next]_vars
  BY <1>1, StepTypeOK, StepClaimsConsistent DEF WorkTypeInv
<1>2. ASSUME NEW w \in Workers, Stops(w)
      PROVE  TypeOK' /\ ClaimsConsistent'
  <2>1. UNCHANGED <<status, consumer_id, claim_token, issued, claim>>
    BY <1>2 DEF Stops, rowVars
  <2>2. TokensConsistent'
    BY <1>2, <2>1, LeavesQueue DEF Stops, WorkTypeInv
  <2>3. ReleasesConsistent'
    <3>1. \A v \in Workers : pc'[v] = "writing" => pc[v] = "writing" /\ claim'[v] = claim[v]
      BY <1>2 DEF Stops, WorkTypeInv, TypeOK
    <3> QED
      BY <1>2, <2>1, <3>1, ReleasesKept DEF Stops, WorkTypeInv, ClaimsConsistent, releaseVars
  <2> QED
    BY <1>2, <2>2, <2>3 DEF Stops, WorkTypeInv, TypeOK, ClaimsConsistent, rowVars, quotaVars, releaseVars
<1> QED
  BY <1>1, <1>2, WorkImplementsScheduler DEF WorkTypeInv

\* A step of a scheduler action for w leaves the other workers alone.
LEMMA SchedulerMovesOne ==
    ASSUME TypeOK, NEW w \in Workers, NEW v \in Workers \ {w}, NEW x,
           \/ ClaimForDevice(w) \/ RefuseClaim(w) \/ BeginCompletion(w, x)
           \/ WriteCompletion(w) \/ SettleQuota(w) \/ TransactionFails(w) \/ WorkerCrashes(w)
    PROVE  pc'[v] = pc[v] /\ claim'[v] = claim[v] /\ writing'[v] = writing[v]
<1> USE DEF TypeOK
<1>1. CASE ClaimForDevice(w)
  BY <1>1 DEF ClaimForDevice
<1>2. CASE RefuseClaim(w)
  BY <1>2 DEF RefuseClaim
<1>3. CASE BeginCompletion(w, x)
  BY <1>3 DEF BeginCompletion
<1>4. CASE WriteCompletion(w)
  BY <1>4 DEF WriteCompletion
<1>5. CASE SettleQuota(w)
  BY <1>5 DEF SettleQuota
<1>6. CASE TransactionFails(w)
  BY <1>6 DEF TransactionFails
<1>7. CASE WorkerCrashes(w)
  BY <1>7 DEF WorkerCrashes
<1> QED
  BY <1>1, <1>2, <1>3, <1>4, <1>5, <1>6, <1>7

LEMMA WorkerStepIsOwn ==
    ASSUME TypeOK, LoopTypes, NEW w \in Workers, LoopStep(w) \/ Mishap(w)
    PROVE  OwnStep(w)
<1> USE DEF LoopTypes, OwnStep, Goto, historyVars
<1>1. CASE LoopTop(w)
  BY <1>1 DEF LoopTop, TypeOK
<1>2. CASE Claims(w)
  BY <1>2, SchedulerMovesOne DEF Claims
<1>3. ASSUME NEW screen, PrepareAgent(w) \/ Observe(w, screen) \/ StartGoal(w) \/ JudgeResult(w)
      PROVE  OwnStep(w)
  BY <1>3 DEF PrepareAgent, Observe, StartGoal, JudgeResult, Fail, vars
<1>4. CASE AgentRuns(w)
  BY <1>4 DEF AgentRuns, vars
<1>5. CASE Report(w)
  BY <1>5, SchedulerMovesOne DEF Report, Reported
<1>6. CASE Mishap(w)
  BY <1>6, SchedulerMovesOne DEF Mishap, Reported
<1> QED
  BY <1>1, <1>2, <1>3, <1>4, <1>5, <1>6 DEF LoopStep

LEMMA QueueStepsMoveNoWorker ==
    ASSUME \/ \E j \in Jobs : Cancels(j) \/ CancelMarks(j)
           \/ Retry
    PROVE  QueueStep
<1>1. ASSUME NEW j \in Jobs, Cancels(j)
      PROVE  QueueStep
  BY <1>1, CancelSteps, CancelsByRelease DEF QueueStep
<1>2. ASSUME NEW j \in Jobs, CancelMarks(j)
      PROVE  QueueStep
  BY <1>2 DEF CancelMarks, QueueStep, vars, workerVars, historyVars
<1>3. CASE Retry
  BY <1>3 DEF Retry, RetryFailed, QueueStep
<1> QED
  BY <1>1, <1>2, <1>3
------------------------------------------------------------------------------
(* types, and where a worker stands *)

\* A worker keeps its types and its place in the loop fits its claim.
LEMMA WorkerStepTypes ==
    ASSUME WorkTypeInv, NEW w \in Workers, LoopStep(w) \/ Mishap(w)
    PROVE  LoopTypes' /\ PhaseFits(phase'[w], pc'[w])
<1> USE DEF WorkTypeInv, LoopTypes, Goto, Phases, AtPhone, PhaseFits, historyVars
<1>1. CASE LoopTop(w)
  BY <1>1 DEF LoopTop
<1>2. CASE Claims(w)
  <2>1. CASE ClaimForDevice(w) /\ Goto(w, "claimed")
    <3>1. pc'[w] = "holding"
      BY <2>1 DEF ClaimForDevice, TypeOK
    <3> QED
      BY <1>2, <2>1, <3>1 DEF Claims
  <2>2. CASE RefuseClaim(w) /\ Goto(w, "over")
    BY <1>2, <2>2 DEF Claims
  <2> QED
    BY <1>2, <2>1, <2>2 DEF Claims
<1>3. CASE PrepareAgent(w)
  <2>1. looks' \in [Workers -> 0..ObserveRetries] /\ pc' = pc
    BY <1>3, WorkConstants DEF PrepareAgent, vars
  <2>2. CASE Goto(w, "observing") /\ UNCHANGED <<verdict, leaving>>
    BY <1>3, <2>1, <2>2 DEF PrepareAgent
  <2>3. CASE Fail(w, TRUE)
    BY <1>3, <2>1, <2>3 DEF PrepareAgent, Fail
  <2> QED
    BY <1>3, <2>2, <2>3 DEF PrepareAgent
<1>4. ASSUME NEW screen, Observe(w, screen)
      PROVE  LoopTypes' /\ PhaseFits(phase'[w], pc'[w])
  <2>1. looks' \in [Workers -> 0..ObserveRetries]
    <3>1. CASE looks' = looks
      BY <3>1
    <3>2. CASE looks[w] < ObserveRetries /\ looks' = [looks EXCEPT ![w] = @ + 1]
      BY <3>2, WorkConstants
    <3> QED
      BY <1>4, <3>1, <3>2 DEF Observe
  <2> QED
    BY <1>4, <2>1 DEF Observe, Fail, vars
<1>5. CASE StartGoal(w)
  BY <1>5 DEF StartGoal, Fail, vars
<1>6. CASE AgentRuns(w)
  BY <1>6 DEF AgentRuns, vars
<1>7. CASE JudgeResult(w)
  BY <1>7 DEF JudgeResult, Fail, vars
<1>8. CASE Report(w)
  <2>1. pc'[w] \in {"idle", "writing", "settling"}
    BY <1>8 DEF Report, BeginCompletion, WriteCompletion, SettleQuota, TypeOK
  <2> QED
    BY <1>8, <2>1 DEF Report, Reported
<1>9. CASE Mishap(w)
  <2>1. mishaps' \in 0..MaxMishaps
    BY <1>9, WorkConstants DEF Mishap
  <2>2. CASE TransactionFails(w) /\ Reported(w)
    <3>1. pc'[w] = "idle" /\ phase[w] \notin AtPhone
      BY <2>2 DEF TransactionFails, TypeOK
    <3> QED
      BY <1>9, <2>1, <2>2, <3>1 DEF Mishap, Reported
  <2>3. CASE WorkerCrashes(w) /\ Goto(w, "over")
    BY <1>9, <2>1, <2>3 DEF Mishap
  <2> QED
    BY <1>9, <2>2, <2>3 DEF Mishap
<1> QED
  BY <1>1, <1>2, <1>3, <1>4, <1>5, <1>6, <1>7, <1>8, <1>9 DEF LoopStep

LEMMA QueueStepTypes ==
    ASSUME LoopTypes, (\E j \in Jobs : Cancels(j) \/ CancelMarks(j)) \/ Retry
    PROVE  LoopTypes'
<1>1. ASSUME NEW j \in Jobs, Cancels(j)
      PROVE  LoopTypes'
  <2>1. requeued' \in [Leads -> Nat]
    BY <1>1, CancelsByRelease DEF QueuedAgain, LoopTypes
  <2>2. cancel' \in [Jobs -> {"no", "releasing", "released"} \cup FlagUp]
    BY <1>1, CancelsByRelease DEF LoopTypes, FlagUp
  <2>3. UNCHANGED <<loopVars, retries, mishaps, dms, late>>
    BY <1>1, CancelsByRelease
  <2> QED
    BY <2>1, <2>2, <2>3 DEF LoopTypes, loopVars
<1>2. ASSUME NEW j \in Jobs, CancelMarks(j)
      PROVE  LoopTypes'
  BY <1>2 DEF CancelMarks, LoopTypes, loopVars, historyVars, FlagUp
<1>3. CASE Retry
  BY <1>3, WorkConstants DEF Retry, QueuedAgain, LoopTypes, loopVars
<1> QED
  BY <1>1, <1>2, <1>3

LEMMA StepWorkTypeInv == WorkTypeInv /\ [WorkNext]_workVars => WorkTypeInv'
<1> SUFFICES ASSUME WorkTypeInv, [WorkNext]_workVars
             PROVE  LoopTypes' /\ \A v \in Workers : PhaseFits(phase'[v], pc'[v])
  BY SchedulerInvariantsKept DEF WorkTypeInv, PhaseFits, AtPhone
<1>1. ASSUME NEW w \in Workers, LoopStep(w) \/ Mishap(w)
      PROVE  LoopTypes' /\ \A v \in Workers : PhaseFits(phase'[v], pc'[v])
  <2>1. LoopTypes' /\ PhaseFits(phase'[w], pc'[w])
    BY <1>1, WorkerStepTypes
  <2>2. OwnStep(w)
    BY <1>1, WorkerStepIsOwn DEF WorkTypeInv
  <2> QED
    BY <2>1, <2>2 DEF OwnStep, WorkTypeInv
<1>2. CASE (\E j \in Jobs : Cancels(j) \/ CancelMarks(j)) \/ Retry
  BY <1>2, QueueStepsMoveNoWorker, QueueStepTypes
     DEF QueueStep, loopVars, workerVars, WorkTypeInv
<1>3. CASE UNCHANGED workVars
  BY <1>3 DEF workVars, vars, loopVars, historyVars, WorkTypeInv, LoopTypes
<1> QED
  BY <1>1, <1>2, <1>3 DEF WorkNext, Cancels

LEMMA InitWorkTypeInv == WorkInit => WorkTypeInv
BY InitTypeOK, InitClaimsConsistent, WorkConstants
   DEF WorkInit, Init, WorkTypeInv, LoopTypes, Phases, PhaseFits, AtPhone

LEMMA WorkTypeInvariant == WorkSpec => []WorkTypeInv
BY InitWorkTypeInv, StepWorkTypeInv, PTL DEF WorkSpec

\* Rows, counters, the workers' memory and the flags keep their types, a worker
\* at the top of its loop has no claim, and one at its phone holds one.
THEOREM WorkTypeCorrect == WorkSpec => []WorkTypeOK
<1>1. WorkTypeInv => WorkTypeOK
  BY DEF WorkTypeInv, WorkTypeOK, LoopTypes, PhaseFits, AtPhone
<1> QED
  BY <1>1, WorkTypeInvariant, PTL
------------------------------------------------------------------------------
(* one message after the cancellation *)

\* A worker that has messaged somebody after its job's flag was set is past its
\* phone, and finds the flag up at the top of the loop.
LateFits(w) ==
    late[w] # 0 => late[w] = 1 /\ FlagRaised(w) /\ phase[w] \in {"ran", "reporting", "top", "over"}

LEMMA StepLateFits ==
    ASSUME WorkTypeInv, NEW v \in Workers, LateFits(v), [WorkNext]_workVars
    PROVE  LateFits(v)'
<1> USE DEF LateFits, FlagRaised
<1>0. LoopTypes /\ late[v] \in Nat /\ JobOf[v] \in Jobs /\ PhaseFits(phase[v], pc[v])
  BY ConstantTypes DEF WorkTypeInv, LoopTypes
<1>1. ASSUME NEW w \in Workers, LoopStep(w) \/ Mishap(w), w # v
      PROVE  LateFits(v)'
  BY <1>1, WorkerStepIsOwn DEF OwnStep, WorkTypeInv
<1>2. ASSUME LoopStep(v) \/ Mishap(v)
      PROVE  LateFits(v)'
  <2>0. UNCHANGED cancel
    BY <1>2, WorkerStepIsOwn DEF OwnStep, WorkTypeInv
  <2>1. CASE LoopTop(v)
    BY <1>0, <2>0, <2>1 DEF LoopTop, ShouldStop, Goto, LoopTypes, historyVars
  <2>2. CASE Claims(v)
    BY <1>0, <2>0, <2>2 DEF Claims, Goto, LoopTypes, historyVars
  <2>3. CASE PrepareAgent(v)
    BY <1>0, <2>0, <2>3 DEF PrepareAgent, historyVars
  <2>4. ASSUME NEW screen, Observe(v, screen)
        PROVE  LateFits(v)'
    BY <1>0, <2>0, <2>4 DEF Observe, historyVars
  <2>5. CASE StartGoal(v)
    BY <1>0, <2>0, <2>5 DEF StartGoal, historyVars
  <2>6. CASE AgentRuns(v)
    BY <1>0, <2>0, <2>6 DEF AgentRuns, Goto, LoopTypes
  <2>7. CASE JudgeResult(v)
    BY <1>0, <2>0, <2>7 DEF JudgeResult, Fail, Goto, LoopTypes, historyVars
  <2>8. CASE Report(v)
    BY <1>0, <2>0, <2>8 DEF Report, Reported, LoopTypes, historyVars
  <2>9. CASE Mishap(v)
    BY <1>0, <2>0, <2>9 DEF Mishap, Reported, Goto, LoopTypes, historyVars
  <2> QED
    BY <1>2, <2>1, <2>2, <2>3, <2>4, <2>5, <2>6, <2>7, <2>8, <2>9 DEF LoopStep
<1>3. ASSUME NEW j \in Jobs, Cancels(j) \/ CancelMarks(j)
      PROVE  LateFits(v)'
  <2>1. UNCHANGED <<phase, late>>
    BY <1>3, QueueStepsMoveNoWorker DEF QueueStep, loopVars
  <2>2. \E s : cancel' = [cancel EXCEPT ![j] = s] /\ (s \in FlagUp \/ cancel[j] \notin FlagUp)
    BY <1>3, CancelsByRelease DEF CancelMarks, FlagUp
  <2> QED
    BY <1>0, <2>1, <2>2 DEF LoopTypes
<1>4. CASE Retry
  BY <1>4 DEF Retry, loopVars
<1>5. CASE UNCHANGED workVars
  BY <1>5 DEF workVars, loopVars, historyVars
<1> QED
  BY <1>1, <1>2, <1>3, <1>4, <1>5 DEF WorkNext, Cancels

\* Once a job is marked cancelled each of its workers sends at most the message
\* its phone was working on, whatever is queued, claimed or fails meanwhile.
THEOREM OneLateMessage == WorkSpec => []OneMessageAfterCancel
<1> DEFINE Inv == \A v \in Workers : LateFits(v)
<1>1. WorkInit => Inv
  BY DEF WorkInit, LateFits
<1>2. WorkTypeInv /\ Inv /\ [WorkNext]_workVars => Inv'
  BY StepLateFits
<1>3. Inv => OneMessageAfterCancel
  BY DEF LateFits, OneMessageAfterCancel
<1> HIDE DEF Inv
<1> QED
  BY <1>1, <1>2, <1>3, WorkTypeInvariant, PTL DEF WorkSpec
------------------------------------------------------------------------------
(* messages and queueings *)

BeforeSend == {"claimed", "observing", "ready", "acting"}
\* The workers that may still message the user of lead l for their claim.
ToSend(l) == {w \in Workers : phase[w] \in BeforeSend /\ claim[w].lead = l}
Queued(l) == IF status[l] = "pending" THEN 1 ELSE 0

\* Messages sent, workers about to send one and the place in the queue are paid
\* for by the first queueing and the later ones.
Budget(l) == dms[l] + Cardinality(ToSend(l)) + Queued(l) <= 1 + requeued[l]
WriteFits(w) == pc[w] = "writing" => writing[w].verdict \in {"done", "failed"}
SendInv == (\A l \in Leads : Budget(l)) /\ \A w \in Workers : WriteFits(w)

LEMMA SendersAreFinite ==
    ASSUME NEW l \in Leads
    PROVE  /\ IsFiniteSet(ToSend(l)) /\ Cardinality(ToSend(l)) \in Nat
           /\ IsFiniteSet(ToSend(l)') /\ Cardinality(ToSend(l)') \in Nat
<1>1. ToSend(l) \in SUBSET Workers /\ ToSend(l)' \in SUBSET Workers
  BY DEF ToSend
<1> QED
  BY <1>1, FS_Subset, FS_CardinalityType, SchedulerAssumption DEF SchedulerAssumption

\* Nothing is sent or queued, and no worker gets as far as sending.
LEMMA NothingSpent ==
    ASSUME WorkTypeInv, NEW l \in Leads, Budget(l),
           ToSend(l)' \subseteq ToSend(l), UNCHANGED <<dms, requeued>>,
           status'[l] = "pending" => status[l] = "pending"
    PROVE  Budget(l)'
<1>1. Cardinality(ToSend(l)') <= Cardinality(ToSend(l))
  BY SendersAreFinite, FS_Subset
<1>2. dms[l] \in Nat /\ requeued[l] \in Nat /\ Queued(l) \in 0..1 /\ Queued(l)' <= Queued(l)
      /\ Queued(l)' \in 0..1
  BY DEF WorkTypeInv, LoopTypes, Queued
<1> QED
  BY <1>1, <1>2, SendersAreFinite DEF Budget

LEMMA ClaimSpendsQueueing ==
    ASSUME WorkTypeInv, NEW w \in Workers, phase[w] = "claiming",
           ClaimForDevice(w), Goto(w, "claimed"), UNCHANGED <<dms, requeued>>,
           NEW l \in Leads, Budget(l)
    PROVE  Budget(l)'
<1>1. PICK k \in Leads : /\ status[k] = "pending" /\ status' = [status EXCEPT ![k] = "claimed"]
                         /\ claim'[w].lead = k
  <2>1. PICK k \in ReadyCandidates :
          /\ status' = [status EXCEPT ![k] = "claimed"]
          /\ claim' = [claim EXCEPT ![w] = [lead |-> k, token |-> <<JobOf[w], issued + 1>>]]
    BY DEF ClaimForDevice
  <2> QED
    BY <2>1 DEF ReadyCandidates, Candidates, Pending, WorkTypeInv, TypeOK
<1>2. \A v \in Workers \ {w} : phase'[v] = phase[v] /\ claim'[v] = claim[v]
  BY SchedulerMovesOne DEF Goto, WorkTypeInv, LoopTypes
<1>3. CASE l = k
  <2>1. ToSend(l)' \in SUBSET (ToSend(l) \cup {w})
    BY <1>2 DEF ToSend
  <2>2. Cardinality(ToSend(l)') <= Cardinality(ToSend(l)) + 1
    BY <2>1, GainsAtMostOne, SendersAreFinite
  <2>3. Queued(l) = 1 /\ Queued(l)' = 0
    BY <1>1, <1>3 DEF Queued, WorkTypeInv, TypeOK
  <2>4. dms[l] \in Nat /\ requeued[l] \in Nat
    BY DEF WorkTypeInv, LoopTypes
  <2> QED
    BY <2>2, <2>3, <2>4, SendersAreFinite DEF Budget
<1>4. CASE l # k
  <2>1. ToSend(l)' \subseteq ToSend(l)
    BY <1>1, <1>2, <1>4 DEF ToSend
  <2> QED
    BY <1>1, <1>4, <2>1, NothingSpent DEF WorkTypeInv, TypeOK
<1> QED
  BY <1>3, <1>4

LEMMA MessageSpendsClaim ==
    ASSUME WorkTypeInv, NEW w \in Workers, AgentRuns(w), NEW l \in Leads, Budget(l)
    PROVE  Budget(l)'
<1>1. /\ phase[w] = "acting" /\ phase' = [phase EXCEPT ![w] = "ran"]
      /\ UNCHANGED <<requeued, claim, status>>
      /\ dms' = dms \/ dms' = [dms EXCEPT ![claim[w].lead] = @ + 1]
  BY DEF AgentRuns, Goto, vars
<1>2. ToSend(l)' \in SUBSET (ToSend(l) \ {w})
  BY <1>1 DEF ToSend, BeforeSend, WorkTypeInv, LoopTypes
<1>3. CASE dms'[l] = dms[l]
  <2>1. /\ Cardinality(ToSend(l)') <= Cardinality(ToSend(l))
        /\ Queued(l)' = Queued(l) /\ Queued(l) \in 0..1
        /\ dms[l] \in Nat /\ requeued[l] \in Nat
    BY <1>1, <1>2, SendersAreFinite, FS_Subset DEF Queued, WorkTypeInv, LoopTypes
  <2> QED
    BY <1>1, <1>3, <2>1, SendersAreFinite DEF Budget
<1>4. CASE dms'[l] # dms[l]
  <2>1. claim[w].lead = l /\ dms'[l] = dms[l] + 1 /\ dms[l] \in Nat /\ requeued[l] \in Nat
    BY <1>1, <1>4 DEF WorkTypeInv, LoopTypes
  <2>2. w \in ToSend(l)
    BY <1>1, <2>1 DEF ToSend, BeforeSend
  <2>3. Cardinality(ToSend(l)') + 1 <= Cardinality(ToSend(l))
    BY <1>2, <2>2, LosesOne, SendersAreFinite
  <2>4. Queued(l)' = Queued(l) /\ Queued(l) \in 0..1
    BY <1>1 DEF Queued
  <2> QED
    BY <1>1, <2>1, <2>3, <2>4, SendersAreFinite DEF Budget
<1> QED
  BY <1>3, <1>4

\* A lead that comes back to the queue is counted as queued again.
LEMMA QueueingPaid ==
    ASSUME WorkTypeInv, QueueStep, QueuedAgain, NEW l \in Leads, Budget(l)
    PROVE  Budget(l)'
<1>1. ToSend(l)' = ToSend(l) /\ dms' = dms
  BY DEF ToSend, QueueStep, loopVars, workerVars
<1>2. /\ requeued'[l] = IF status[l] # "pending" /\ status'[l] = "pending"
                        THEN requeued[l] + 1 ELSE requeued[l]
      /\ dms[l] \in Nat /\ requeued[l] \in Nat
  BY DEF QueuedAgain, WorkTypeInv, LoopTypes
<1> QED
  BY <1>1, <1>2, SendersAreFinite DEF Budget, Queued

LEMMA StepSendInv == WorkTypeInv /\ SendInv /\ [WorkNext]_workVars => SendInv'
<1> SUFFICES ASSUME WorkTypeInv, SendInv, [WorkNext]_workVars
             PROVE  SendInv'
  OBVIOUS
<1>1. ASSUME NEW w \in Workers, LoopStep(w) \/ Mishap(w)
      PROVE  (\A l \in Leads : Budget(l)') /\ WriteFits(w)'
  <2>0. OwnStep(w) /\ PhaseFits(phase[w], pc[w])
    BY <1>1, WorkerStepIsOwn DEF WorkTypeInv
  <2>1. ASSUME UNCHANGED <<dms, requeued>>, NEW l \in Leads,
               status'[l] = "pending" => status[l] = "pending",
               phase'[w] \in BeforeSend => phase[w] \in BeforeSend /\ claim'[w] = claim[w]
        PROVE  Budget(l)'
    <3>1. ToSend(l)' \subseteq ToSend(l)
      BY <2>0, <2>1 DEF ToSend, OwnStep
    <3> QED
      BY <2>1, <3>1, NothingSpent DEF SendInv
  <2>2. CASE LoopTop(w)
    BY <2>1, <2>2 DEF LoopTop, Goto, BeforeSend, WorkTypeInv, LoopTypes, rowVars, historyVars,
                      WriteFits, SendInv, TypeOK
  <2>3. CASE Claims(w)
    <3>1. CASE ClaimForDevice(w) /\ Goto(w, "claimed")
      <4>1. UNCHANGED <<dms, requeued>> /\ phase[w] = "claiming"
        BY <2>3 DEF Claims, historyVars
      <4>2. WriteFits(w)'
        BY <3>1 DEF ClaimForDevice, WriteFits, WorkTypeInv, TypeOK
      <4> QED
        BY <3>1, <4>1, <4>2, ClaimSpendsQueueing DEF SendInv
    <3>2. CASE RefuseClaim(w) /\ Goto(w, "over")
      <4>1. UNCHANGED <<dms, requeued, status>> /\ phase'[w] = "over" /\ pc'[w] = "stopped"
        BY <2>3, <3>2 DEF Claims, historyVars, Goto, RefuseClaim, rowVars, WorkTypeInv, LoopTypes, TypeOK
      <4> QED
        BY <2>1, <4>1 DEF BeforeSend, WriteFits
    <3> QED
      BY <2>3, <3>1, <3>2 DEF Claims
  <2>4. ASSUME NEW screen, PrepareAgent(w) \/ Observe(w, screen) \/ StartGoal(w)
        PROVE  (\A l \in Leads : Budget(l)') /\ WriteFits(w)'
    <3>1. UNCHANGED <<dms, requeued, status, claim, pc, writing>> /\ phase[w] \in BeforeSend
      BY <2>4 DEF PrepareAgent, Observe, StartGoal, vars, historyVars, BeforeSend
    <3> QED
      BY <2>1, <3>1 DEF SendInv, WriteFits
  <2>5. CASE AgentRuns(w)
    BY <2>5, MessageSpendsClaim DEF AgentRuns, vars, SendInv, WriteFits
  <2>6. CASE JudgeResult(w)
    <3>1. /\ UNCHANGED <<dms, requeued, status, claim, pc, writing>>
          /\ phase' = [phase EXCEPT ![w] = "reporting"]
      BY <2>6 DEF JudgeResult, Fail, Goto, vars, historyVars
    <3>2. phase'[w] \notin BeforeSend
      BY <3>1 DEF BeforeSend, WorkTypeInv, LoopTypes
    <3> QED
      BY <2>1, <3>1, <3>2 DEF SendInv, WriteFits
  <2>7. CASE Report(w)
    <3>1. UNCHANGED <<dms, requeued>> /\ phase'[w] \notin BeforeSend
      BY <2>7 DEF Report, Reported, historyVars, BeforeSend, WorkTypeInv, LoopTypes
    <3>2. CASE BeginCompletion(w, verdict[w])
      <4>1. status' = status /\ WriteFits(w)'
        BY <3>2 DEF BeginCompletion, rowVars, WriteFits, WorkTypeInv, LoopTypes, TypeOK
      <4> QED
        BY <2>1, <3>1, <4>1
    <3>3. CASE WriteCompletion(w)
      <4>1. writing[w].verdict \in {"done", "failed"}
        BY <3>3 DEF WriteCompletion, SendInv, WriteFits
      <4>2. status' = [status EXCEPT ![claim[w].lead] = writing[w].verdict]
        BY <3>3, <4>1 DEF WriteCompletion
      <4>3. \A l \in Leads : status'[l] = "pending" => status[l] = "pending"
        BY <4>1, <4>2 DEF WorkTypeInv, TypeOK
      <4>4. WriteFits(w)'
        BY <3>3 DEF WriteCompletion, WriteFits, WorkTypeInv, TypeOK
      <4> QED
        BY <2>1, <3>1, <4>3, <4>4
    <3>4. CASE SettleQuota(w)
      <4>1. status' = status /\ WriteFits(w)'
        BY <3>4 DEF SettleQuota, rowVars, WriteFits, WorkTypeInv, TypeOK
      <4> QED
        BY <2>1, <3>1, <4>1
    <3> QED
      BY <2>7, <3>2, <3>3, <3>4 DEF Report
  <2>8. CASE Mishap(w)
    <3>1. /\ UNCHANGED <<dms, requeued, status>> /\ pc'[w] \in {"idle", "dead"}
      BY <2>8 DEF Mishap, historyVars, TransactionFails, WorkerCrashes, rowVars, WorkTypeInv, TypeOK
    <3>2. phase'[w] \in {"over", "top"}
      <4>1. CASE TransactionFails(w) /\ Reported(w)
        <5>1. pc'[w] = "idle"
          BY <4>1 DEF TransactionFails, WorkTypeInv, TypeOK
        <5> QED
          BY <4>1, <5>1 DEF Reported, WorkTypeInv, LoopTypes
      <4>2. CASE WorkerCrashes(w) /\ Goto(w, "over")
        BY <4>2 DEF Goto, WorkTypeInv, LoopTypes
      <4> QED
        BY <2>8, <4>1, <4>2 DEF Mishap
    <3> QED
      BY <2>1, <3>1, <3>2 DEF BeforeSend, WriteFits
  <2> QED
    BY <1>1, <2>2, <2>3, <2>4, <2>5, <2>6, <2>7, <2>8 DEF LoopStep
<1>2. ASSUME NEW w \in Workers, LoopStep(w) \/ Mishap(w)
      PROVE  SendInv'
  BY <1>1, <1>2, WorkerStepIsOwn DEF OwnStep, SendInv, WriteFits, WorkTypeInv
<1>3. CASE Retry \/ \E j \in Jobs : Cancels(j)
  <2>1. QueueStep /\ QueuedAgain
    BY <1>3, QueueStepsMoveNoWorker, CancelsByRelease DEF Retry
  <2>2. \A l \in Leads : Budget(l)'
    BY <2>1, QueueingPaid DEF SendInv
  <2> QED
    BY <2>1, <2>2 DEF QueueStep, workerVars, SendInv, WriteFits
<1>4. ASSUME UNCHANGED <<phase, vars, dms, requeued>>
      PROVE  SendInv'
  BY <1>4 DEF SendInv, Budget, Queued, ToSend, WriteFits, vars
<1>5. ASSUME NEW j \in Jobs, CancelMarks(j)
      PROVE  SendInv'
  BY <1>4, <1>5 DEF CancelMarks, loopVars, historyVars
<1>6. CASE UNCHANGED workVars
  BY <1>4, <1>6 DEF workVars, loopVars, historyVars
<1> QED
  BY <1>2, <1>3, <1>5, <1>6 DEF WorkNext, Cancels

LEMMA InitSendInv == WorkInit => SendInv
<1> SUFFICES ASSUME WorkInit, NEW l \in Leads
             PROVE  Budget(l) /\ \A w \in Workers : WriteFits(w)
  BY DEF SendInv, WorkInit, Init, WriteFits
<1>1. ToSend(l) = {}
  BY DEF WorkInit, ToSend, BeforeSend
<1>2. Cardinality(ToSend(l)) = 0
  BY <1>1, FS_EmptySet
<1> QED
  BY <1>2 DEF WorkInit, Init, Budget, Queued, WriteFits

\* Every message beyond the first to the same lead goes back to a time the lead
\* was queued again: workers alone never message it twice, whatever crashes,
\* rolls back or is reported late.
THEOREM RepeatsPaidByQueueings == WorkSpec => []RepeatsAccountedFor
<1>1. WorkTypeInv /\ SendInv => RepeatsAccountedFor
  <2> SUFFICES ASSUME WorkTypeInv, SendInv, NEW l \in Leads
               PROVE  dms[l] <= 1 + requeued[l]
    BY DEF RepeatsAccountedFor
  <2> QED
    BY SendersAreFinite DEF SendInv, Budget, Queued, WorkTypeInv, LoopTypes
<1> QED
  BY <1>1, InitSendInv, StepSendInv, WorkTypeInvariant, PTL DEF WorkSpec
------------------------------------------------------------------------------
(* who may take a claim away *)

\* No phone is driven for two jobs at a time: what SessionsAlone of Dispatch says
\* of jobs that run one by one.
OwnPhones == \A v, w \in Workers : DeviceOf[v] = DeviceOf[w] => JobOf[v] = JobOf[w]

TokenFits(w) == pc[w] \in Busy => claim[w].token[1] = JobOf[w]
ClaimKept(w) == pc[w] = "holding" /\ cancel[JobOf[w]] = "no" => StillMine(w)
\* What an open release will put back was the job's own or on its phones.
ReleaseFits(j) ==
    LockedBy(j) # {} =>
      /\ cancel[j] # "no"
      /\ \A l \in LockedBy(j) : claim_token[l][1] = j \/ consumer_id[l] \in DevicesOfJob(j)
ClaimInv ==
    /\ \A w \in Workers : TokenFits(w) /\ ClaimKept(w)
    /\ \A j \in Jobs : ReleaseFits(j)

\* The row of a kept claim is left alone, so the claim is still the worker's.
LEMMA RowLeftAlone ==
    ASSUME NEW v \in Workers, StillMine(v), claim'[v] = claim[v],
           NEW l, l = claim[v].lead, status'[l] = status[l],
           consumer_id'[l] = consumer_id[l], claim_token'[l] = claim_token[l]
    PROVE  StillMine(v)'
BY DEF StillMine

\* Rows of an open release are not written until it ends.
LEMMA LockedRowsKept ==
    ASSUME TypeOK, ReleasesConsistent, NEW l \in Locked, NEW w \in Workers,
           ClaimForDevice(w) \/ WriteCompletion(w)
    PROVE  consumer_id'[l] = consumer_id[l] /\ claim_token'[l] = claim_token[l]
<1>1. l \in Leads /\ status[l] = "claimed"
  BY DEF ReleasesConsistent, Claimed
<1>2. CASE ClaimForDevice(w)
  <2>1. PICK k \in ReadyCandidates :
          /\ consumer_id' = [consumer_id EXCEPT ![k] = DeviceOf[w]]
          /\ claim_token' = [claim_token EXCEPT ![k] = <<JobOf[w], issued + 1>>]
    BY <1>2 DEF ClaimForDevice
  <2>2. l # k
    BY <1>1 DEF ReadyCandidates, Candidates, Pending
  <2> QED
    BY <1>1, <2>1, <2>2 DEF TypeOK
<1>3. CASE WriteCompletion(w)
  BY <1>1, <1>3 DEF WriteCompletion, TypeOK
<1> QED
  BY <1>2, <1>3

\* Open releases stay as they are, and so do their rows and the flags.
LEMMA ReleasesStillFit ==
    ASSUME ClaimInv, UNCHANGED <<freeing, cancel>>,
           \A l \in Locked : consumer_id'[l] = consumer_id[l] /\ claim_token'[l] = claim_token[l]
    PROVE  \A j \in Jobs : ReleaseFits(j)'
<1> SUFFICES ASSUME NEW j \in Jobs
             PROVE  ReleaseFits(j)'
  OBVIOUS
<1>1. LockedBy(j)' = LockedBy(j) /\ LockedBy(j) \subseteq Locked /\ ReleaseFits(j)
  BY DEF LockedBy, Locked, ClaimInv
<1> QED
  BY <1>1 DEF ReleaseFits, DevicesOfJob

\* A cancellation of another job takes no claim of this worker.
LEMMA OthersRowsTaken ==
    ASSUME OwnPhones, NEW v \in Workers, pc[v] = "holding", TokenFits(v),
           StillMine(v), NEW j \in Jobs, j # JobOf[v]
    PROVE  /\ claim[v].lead \notin RowsToRelease(j)
           /\ ReleaseFits(j) => claim[v].lead \notin LockedBy(j)
<1> DEFINE l == claim[v].lead
<1>1. claim_token[l] = claim[v].token /\ consumer_id[l] = DeviceOf[v] /\ claim[v].token[1] = JobOf[v]
  BY DEF StillMine, TokenFits, Busy
<1>2. l \notin RowsOfJob(j)
  BY <1>1 DEF RowsOfJob
<1>3. consumer_id[l] \notin DevicesOfJob(j)
  BY <1>1 DEF DevicesOfJob, OwnPhones
<1> QED
  BY <1>1, <1>2, <1>3 DEF RowsToRelease, ReleaseFits

LEMMA CancelsKeepClaims ==
    ASSUME OwnPhones, WorkTypeInv, ClaimInv, NEW j \in Jobs, Cancels(j)
    PROVE  \A v \in Workers : TokenFits(v)' /\ ClaimKept(v)'
<1>1. UNCHANGED workerVars
  BY CancelSteps
<1>0. PICK s \in {"releasing", "released", "sweeping", "swept"} : cancel' = [cancel EXCEPT ![j] = s]
  BY CancelsByRelease
<1> SUFFICES ASSUME NEW v \in Workers
             PROVE  TokenFits(v)' /\ ClaimKept(v)'
  OBVIOUS
<1>2. TokenFits(v)'
  BY <1>1 DEF workerVars, ClaimInv, TokenFits
<1>3. ASSUME pc'[v] = "holding", cancel'[JobOf[v]] = "no"
      PROVE  StillMine(v)'
  <2>1. JobOf[v] # j /\ cancel[JobOf[v]] = "no" /\ pc[v] = "holding"
    BY <1>0, <1>1, <1>3, ConstantTypes DEF WorkTypeInv, LoopTypes, workerVars
  <2>2. StillMine(v) /\ claim[v].lead \notin RowsToRelease(j) /\ claim[v].lead \notin LockedBy(j)
    BY <2>1, OthersRowsTaken DEF ClaimInv, ClaimKept
  <2>3. claim[v].lead \in Leads
    BY <2>2 DEF StillMine
  <2>4. \/ UNCHANGED <<status, consumer_id, claim_token>>
        \/ BackToQueue(RowsToRelease(j)) \/ BackToQueue(LockedBy(j))
    BY CancelsByRelease
       DEF vars, ReleaseClaimedTasksForJob, BeginRelease, EndRelease, rowVars, LockedBy
  <2>5. /\ status'[claim[v].lead] = status[claim[v].lead]
        /\ consumer_id'[claim[v].lead] = consumer_id[claim[v].lead]
        /\ claim_token'[claim[v].lead] = claim_token[claim[v].lead]
    BY <2>2, <2>3, <2>4 DEF BackToQueue
  <2> QED
    BY <1>1, <2>2, <2>5, RowLeftAlone DEF workerVars
<1> QED
  BY <1>2, <1>3 DEF ClaimKept

LEMMA CancelsKeepReleases ==
    ASSUME WorkTypeInv, ClaimInv, NEW j \in Jobs, Cancels(j)
    PROVE  \A i \in Jobs : ReleaseFits(i)'
<1>0. PICK s \in {"releasing", "released", "sweeping", "swept"} : cancel' = [cancel EXCEPT ![j] = s]
  BY CancelsByRelease
<1> SUFFICES ASSUME NEW i \in Jobs, LockedBy(i)' # {}
             PROVE  /\ cancel'[i] # "no"
                    /\ \A l \in LockedBy(i)' : claim_token'[l][1] = i
                                               \/ consumer_id'[l] \in DevicesOfJob(i)
  BY DEF ReleaseFits, DevicesOfJob
<1>1. cancel[i] # "no" => cancel'[i] # "no"
  BY <1>0 DEF WorkTypeInv, LoopTypes
<1>2. ReleaseFits(i) /\ LockedBy(i) \subseteq Locked /\ Locked \subseteq Leads
  BY DEF ClaimInv, Locked, WorkTypeInv, ClaimsConsistent, ReleasesConsistent, Claimed
<1>3. CASE LockedBy(i)' = LockedBy(i)
  <2>1. \/ UNCHANGED <<status, consumer_id, claim_token>>
        \/ \E rows : BackToQueue(rows) /\ rows \cap Locked = {}
        \/ BackToQueue(LockedBy(j)) /\ freeing' = [freeing EXCEPT ![j] = NoRelease]
    BY CancelsByRelease
       DEF vars, ReleaseClaimedTasksForJob, MayTakeBack, BeginRelease, EndRelease, rowVars, LockedBy
  <2>2. BackToQueue(LockedBy(j)) /\ freeing' = [freeing EXCEPT ![j] = NoRelease] => i # j
    BY <1>3 DEF LockedBy, NoRelease, WorkTypeInv, TypeOK
  <2>3. i # j => LockedBy(i) \cap LockedBy(j) = {}
    BY DEF WorkTypeInv, ClaimsConsistent, ReleasesConsistent
  <2>4. ASSUME NEW l \in LockedBy(i)
        PROVE  claim_token'[l] = claim_token[l] /\ consumer_id'[l] = consumer_id[l]
    <3>1. CASE UNCHANGED <<status, consumer_id, claim_token>>
      BY <3>1
    <3>2. ASSUME NEW rows, BackToQueue(rows), l \notin rows
          PROVE  claim_token'[l] = claim_token[l] /\ consumer_id'[l] = consumer_id[l]
      BY <1>2, <3>2 DEF BackToQueue
    <3> QED
      BY <1>2, <2>1, <2>2, <2>3, <3>1, <3>2
  <2> QED
    BY <1>1, <1>2, <1>3, <2>4 DEF ReleaseFits
<1>4. CASE LockedBy(i)' # LockedBy(i)
  <2>1. i = j /\ BeginRelease(j)
    BY <1>4, CancelsByRelease
       DEF vars, ReleaseClaimedTasksForJob, BeginRelease, EndRelease, releaseVars, LockedBy,
           NoRelease, WorkTypeInv, TypeOK
  <2>2. LockedBy(j)' = RowsToRelease(j) /\ UNCHANGED <<claim_token, consumer_id>>
    BY <2>1 DEF BeginRelease, LockedBy, rowVars, WorkTypeInv, TypeOK
  <2>3. cancel'[j] # "no"
    BY <1>0 DEF WorkTypeInv, LoopTypes
  <2> QED
    BY <2>1, <2>2, <2>3 DEF RowsToRelease, RowsOfJob
<1> QED
  BY <1>3, <1>4

LEMMA ClaimTakesNone ==
    ASSUME WorkTypeInv, ClaimInv, NEW w \in Workers, ClaimForDevice(w), UNCHANGED cancel
    PROVE  ClaimInv'
<1>0. \A j \in Jobs : ReleaseFits(j)'
  BY LockedRowsKept, ReleasesStillFit
     DEF ClaimForDevice, releaseVars, WorkTypeInv, ClaimsConsistent
<1>1. PICK l \in ReadyCandidates :
        /\ status' = [status EXCEPT ![l] = "claimed"]
        /\ consumer_id' = [consumer_id EXCEPT ![l] = DeviceOf[w]]
        /\ claim_token' = [claim_token EXCEPT ![l] = <<JobOf[w], issued + 1>>]
        /\ claim' = [claim EXCEPT ![w] = [lead |-> l, token |-> <<JobOf[w], issued + 1>>]]
  BY DEF ClaimForDevice
<1>2. l \in Leads /\ status[l] = "pending"
  BY DEF ReadyCandidates, Candidates, Pending
<1>3. pc' = [pc EXCEPT ![w] = "holding"]
  BY DEF ClaimForDevice
<1> SUFFICES ASSUME NEW v \in Workers
             PROVE  TokenFits(v)' /\ ClaimKept(v)'
  BY <1>0 DEF ClaimInv
<1>4. CASE v = w
  <2>1. claim'[w].lead = l /\ claim'[w].token = <<JobOf[w], issued + 1>>
    BY <1>1 DEF WorkTypeInv, TypeOK
  <2> QED
    BY <1>1, <1>2, <1>4, <2>1 DEF TokenFits, ClaimKept, StillMine, WorkTypeInv, TypeOK
<1>5. CASE v # w
  <2>1. pc'[v] = pc[v] /\ claim'[v] = claim[v]
    BY <1>1, <1>3, <1>5 DEF WorkTypeInv, TypeOK
  <2>2. StillMine(v) => StillMine(v)'
    BY <1>1, <1>2, <2>1 DEF StillMine, WorkTypeInv, TypeOK
  <2> QED
    BY <2>1, <2>2 DEF ClaimInv, TokenFits, ClaimKept
<1> QED
  BY <1>4, <1>5

LEMMA StepClaimInv ==
    ASSUME "torn" \notin Faults, OwnPhones, WorkTypeInv, ClaimInv, [WorkNext]_workVars
    PROVE  ClaimInv'
<1>1. ASSUME NEW w \in Workers, OwnStep(w), UNCHANGED <<status, consumer_id, claim_token, cancel>>,
             UNCHANGED freeing, TokenFits(w)', ClaimKept(w)'
      PROVE  ClaimInv'
  <2>1. \A v \in Workers : TokenFits(v)' /\ ClaimKept(v)'
    BY <1>1 DEF OwnStep, ClaimInv, TokenFits, ClaimKept, StillMine
  <2> QED
    BY <1>1, <2>1, ReleasesStillFit DEF ClaimInv
<1>2. ASSUME NEW w \in Workers, LoopStep(w) \/ Mishap(w)
      PROVE  ClaimInv'
  <2>0. OwnStep(w) /\ UNCHANGED <<cancel, freeing>>
    BY <1>2, WorkerStepIsOwn
       DEF WorkTypeInv, OwnStep, LoopStep, LoopTop, Claims, ClaimForDevice, RefuseClaim, PrepareAgent,
           Observe, StartGoal, AgentRuns, JudgeResult, Report, BeginCompletion, WriteCompletion,
           SettleQuota, Mishap, TransactionFails, WorkerCrashes, vars, releaseVars
  <2>1. CASE LoopTop(w)
    <3>1. /\ UNCHANGED <<status, consumer_id, claim_token, claim>>
          /\ pc'[w] = "stopped" \/ pc' = pc
      BY <2>1 DEF LoopTop, rowVars, WorkTypeInv, TypeOK
    <3> QED
      BY <1>1, <2>0, <3>1 DEF ClaimInv, TokenFits, ClaimKept, StillMine, Busy
  <2>2. CASE Claims(w)
    <3>1. CASE ClaimForDevice(w)
      BY <2>0, <3>1, ClaimTakesNone
    <3>2. CASE RefuseClaim(w)
      <4>1. UNCHANGED <<status, consumer_id, claim_token, claim>> /\ pc'[w] = "stopped"
        BY <3>2 DEF RefuseClaim, rowVars, WorkTypeInv, TypeOK
      <4> QED
        BY <1>1, <2>0, <4>1 DEF TokenFits, ClaimKept, Busy
    <3> QED
      BY <2>2, <3>1, <3>2 DEF Claims
  <2>3. ASSUME NEW screen, PrepareAgent(w) \/ Observe(w, screen) \/ StartGoal(w)
                           \/ AgentRuns(w) \/ JudgeResult(w)
        PROVE  ClaimInv'
    <3>1. UNCHANGED vars
      BY <2>3 DEF PrepareAgent, Observe, StartGoal, AgentRuns, JudgeResult
    <3>2. TokenFits(w)' /\ ClaimKept(w)'
      BY <2>0, <3>1 DEF vars, ClaimInv, TokenFits, ClaimKept, StillMine
    <3> QED
      BY <1>1, <2>0, <3>1, <3>2 DEF vars
  <2>4. CASE Report(w)
    <3>1. CASE BeginCompletion(w, verdict[w])
      <4>1. UNCHANGED <<status, consumer_id, claim_token>> /\ pc'[w] \in {"writing", "idle"}
            /\ (pc'[w] = "writing" => pc[w] = "holding" /\ claim' = claim)
        BY <3>1 DEF BeginCompletion, rowVars, WorkTypeInv, TypeOK
      <4> QED
        BY <1>1, <2>0, <4>1 DEF ClaimInv, TokenFits, ClaimKept, Busy
    <3>2. CASE WriteCompletion(w)
      <4> DEFINE k == claim[w].lead
      <4>1. /\ pc[w] = "writing" /\ pc' = [pc EXCEPT ![w] = "settling"] /\ claim' = claim
            /\ \A l \in Leads \ {k} :
                 /\ status'[l] = status[l] /\ consumer_id'[l] = consumer_id[l]
                 /\ claim_token'[l] = claim_token[l]
        BY <3>2 DEF WriteCompletion, WorkTypeInv, TypeOK
      <4>2. StillMine(w)
        BY <4>1 DEF WorkTypeInv, ClaimsConsistent, TokensConsistent
      <4>3. ASSUME NEW v \in Workers
            PROVE  TokenFits(v)' /\ ClaimKept(v)'
        <5>1. pc'[v] \in Busy => pc[v] \in Busy
          BY <4>1 DEF Busy, WorkTypeInv, TypeOK
        <5>2. ASSUME pc'[v] = "holding", cancel'[JobOf[v]] = "no"
              PROVE  StillMine(v)'
          <6>1. pc[v] = "holding" /\ v # w /\ StillMine(v)
            BY <2>0, <4>1, <5>2 DEF ClaimInv, ClaimKept, WorkTypeInv, TypeOK
          <6>2. claim[v].lead # k
            <7>1. claim[v].lead = k => claim[v].token = claim[w].token
              BY <4>2, <6>1 DEF StillMine
            <7> QED
              BY <4>1, <6>1, <7>1 DEF WorkTypeInv, ClaimsConsistent, TokensConsistent, Busy
          <6>3. claim[v].lead \in Leads
            BY <6>1 DEF StillMine
          <6> QED
            BY <4>1, <6>1, <6>2, <6>3, RowLeftAlone
        <5> QED
          BY <4>1, <5>1, <5>2 DEF ClaimInv, TokenFits, ClaimKept
      <4>4. \A j \in Jobs : ReleaseFits(j)'
        BY <2>0, <3>2, LockedRowsKept, ReleasesStillFit DEF WorkTypeInv, ClaimsConsistent
      <4> QED
        BY <4>3, <4>4 DEF ClaimInv
    <3>3. CASE SettleQuota(w)
      <4>1. UNCHANGED <<status, consumer_id, claim_token>> /\ pc'[w] = "idle"
        BY <3>3 DEF SettleQuota, rowVars, WorkTypeInv, TypeOK
      <4> QED
        BY <1>1, <2>0, <4>1 DEF TokenFits, ClaimKept, Busy
    <3> QED
      BY <2>4, <3>1, <3>2, <3>3 DEF Report
  <2>5. CASE Mishap(w)
    <3>1. UNCHANGED <<status, consumer_id, claim_token>> /\ pc'[w] \in {"idle", "dead"}
      BY <2>5 DEF Mishap, TransactionFails, WorkerCrashes, rowVars, WorkTypeInv, TypeOK
    <3> QED
      BY <1>1, <2>0, <3>1 DEF TokenFits, ClaimKept, Busy
  <2> QED
    BY <1>2, <2>1, <2>2, <2>3, <2>4, <2>5 DEF LoopStep
<1>3. ASSUME NEW j \in Jobs, Cancels(j)
      PROVE  ClaimInv'
  BY <1>3, CancelsKeepClaims, CancelsKeepReleases DEF ClaimInv
<1>4. ASSUME NEW j \in Jobs, CancelMarks(j)
      PROVE  ClaimInv'
  <2>1. UNCHANGED vars /\ cancel[j] # "no" /\ \A i \in Jobs : cancel'[i] = "no" => cancel[i] = "no"
    BY <1>4 DEF CancelMarks, WorkTypeInv, LoopTypes
  <2>2. \A i \in Jobs : ReleaseFits(i)'
    BY <1>4, <2>1 DEF CancelMarks, vars, ClaimInv, ReleaseFits, LockedBy, DevicesOfJob, WorkTypeInv,
                      LoopTypes
  <2> QED
    BY <2>1, <2>2, ConstantTypes DEF vars, ClaimInv, TokenFits, ClaimKept, StillMine
<1>5. CASE Retry
  <2>1. PICK rows \in SUBSET Leads : RetryFailed(rows)
    BY <1>5 DEF Retry
  <2>2. UNCHANGED <<pc, claim, cancel>>
    BY <1>5, <2>1 DEF Retry, RetryFailed, workerVars
  <2>3. ASSUME NEW v \in Workers, StillMine(v)
        PROVE  StillMine(v)'
    <3>1. claim[v].lead \in Leads \ rows
      BY <2>1, <2>3 DEF RetryFailed, StillMine
    <3> QED
      BY <2>1, <2>2, <2>3, <3>1, RowLeftAlone DEF RetryFailed, BackToQueue
  <2>4. rows \cap Locked = {} /\ Locked \subseteq Leads
    BY <2>1 DEF RetryFailed, WorkTypeInv, ClaimsConsistent, ReleasesConsistent, Claimed
  <2>5. \A j \in Jobs : ReleaseFits(j)'
    BY <2>1, <2>2, <2>4, ReleasesStillFit DEF RetryFailed, BackToQueue, releaseVars
  <2> QED
    BY <2>2, <2>3, <2>5 DEF ClaimInv, TokenFits, ClaimKept
<1>6. CASE UNCHANGED workVars
  <2>1. \A j \in Jobs : ReleaseFits(j)'
    BY <1>6, ReleasesStillFit DEF workVars, vars
  <2> QED
    BY <1>6, <2>1 DEF workVars, vars, ClaimInv, TokenFits, ClaimKept, StillMine
<1> QED
  BY <1>2, <1>3, <1>4, <1>5, <1>6 DEF WorkNext, Cancels

\* While a worker works on a lead nothing but the cancellation of its own job
\* takes its claim away, if no phone serves two jobs and no other session
\* writes a row between the SELECT and the UPDATE of a report.
THEOREM ClaimsKeptUntilCancelled ==
    ASSUME "torn" \notin Faults, OwnPhones
    PROVE  WorkSpec => []ClaimLostOnlyToCancellation
<1>1. WorkInit => ClaimInv
  BY DEF WorkInit, Init, ClaimInv, TokenFits, ClaimKept, Busy, ReleaseFits, LockedBy, NoRelease
<1>2. WorkTypeInv /\ ClaimInv /\ [WorkNext]_workVars => ClaimInv'
  BY StepClaimInv
<1>3. ClaimInv => ClaimLostOnlyToCancellation
  BY DEF ClaimInv, ClaimKept, ClaimLostOnlyToCancellation
<1> QED
  BY <1>1, <1>2, <1>3, WorkTypeInvariant, PTL DEF WorkSpec
------------------------------------------------------------------------------
(* what the scheduler promises, as the workers drive it *)

\* A worker that stops before it claims changes nothing in the queue.
LEMMA StopsChangeNothing ==
    ASSUME TypeOK, NEW w \in Workers, Stops(w)
    PROVE  /\ UNCHANGED <<rowVars, quotaVars, device, today, issued, claim, writing, releaseVars>>
           /\ \A v \in Workers : /\ pc'[v] \in Busy <=> pc[v] \in Busy
                                 /\ pc'[v] # pc[v] => pc[v] = "idle" /\ pc'[v] = "stopped"
           /\ Engaged' = Engaged
<1>1. \A v \in Workers : pc'[v] = IF v = w THEN "stopped" ELSE pc[v]
  BY DEF Stops, TypeOK
<1> QED
  BY <1>1 DEF Stops, Busy, Engaged

\* The loops, the cancellations and the retry requests keep the claim ledger.
THEOREM WorkersKeepLedger ==
    ASSUME "torn" \notin Faults
    PROVE  WorkSpec => KeepsLedger
<1>1. WorkInit => Ledger!LedgerInit
  BY LedgerStarts DEF WorkInit
<1>2. WorkTypeInv /\ [WorkNext]_workVars => [Ledger!LedgerNext]_Ledger!ledgerVars
  <2> SUFFICES ASSUME WorkTypeInv, [WorkNext]_workVars
               PROVE  [Ledger!LedgerNext]_Ledger!ledgerVars
    OBVIOUS
  <2>1. CASE [Next]_vars
    BY <2>1, LedgerSteps DEF WorkTypeInv
  <2>2. ASSUME NEW w \in Workers, Stops(w)
        PROVE  UNCHANGED Ledger!ledgerVars
    <3>1. Engaged' = Engaged /\ UNCHANGED <<status, claim_token, claim>>
      BY <2>2, StopsChangeNothing DEF WorkTypeInv, rowVars
    <3> QED
      BY <3>1, Stutter DEF Working
  <2> QED
    BY <2>1, <2>2, WorkImplementsScheduler DEF WorkTypeInv
<1> QED
  BY <1>1, <1>2, WorkTypeInvariant, PTL DEF WorkSpec, KeepsLedger, Ledger!LedgerSpec

\* No two workers can complete a lead, and what is sent and what is reserved
\* stays within the industry's daily limit, unless a release wrote an old count
\* back over that day's row.
THEOREM WorkersKeepClaimsAndQuota == WorkSpec => [](OneClaimant /\ QuotaWithinLimit)
<1>1. WorkInit => QuotaWithinLimit
  BY LimitsAreNatural DEF WorkInit, Init, QuotaWithinLimit
<1>2. WorkTypeInv /\ QuotaWithinLimit /\ [WorkNext]_workVars => QuotaWithinLimit'
  <2> SUFFICES ASSUME WorkTypeInv, QuotaWithinLimit, [WorkNext]_workVars
               PROVE  QuotaWithinLimit'
    OBVIOUS
  <2>1. CASE [Next]_vars
    BY <2>1, StepQuotaWithinLimit DEF WorkTypeInv
  <2>2. ASSUME NEW w \in Workers, Stops(w)
        PROVE  QuotaWithinLimit'
    BY <2>2 DEF Stops, quotaVars, releaseVars, QuotaWithinLimit, QuotaOn, EffectiveLimit, PositiveLimits
  <2> QED
    BY <2>1, <2>2, WorkImplementsScheduler DEF WorkTypeInv
<1>3. WorkTypeInv => OneClaimant
  BY ConsistentClaimsExclusive DEF WorkTypeInv
<1> QED
  BY <1>1, <1>2, <1>3, WorkTypeInvariant, PTL DEF WorkSpec

\* A worker that stops before it claims has nothing to settle or to write.
LEMMA StopsKeepLimits ==
    ASSUME TypeOK, NEW w \in Workers, Stops(w)
    PROVE  (QuotaInv => QuotaInv') /\ (DeviceInv => DeviceInv')
<1>1. /\ \A v \in Workers : pc'[v] \in Busy <=> pc[v] \in Busy
      /\ \A v \in Workers : pc'[v] # pc[v] => pc[v] = "idle" /\ pc'[v] = "stopped"
      /\ UNCHANGED <<status, consumer_id, stamp, sent, reserved, device, today, writing>>
      /\ UNCHANGED <<freeing, overwritten>>
  BY StopsChangeNothing DEF rowVars, quotaVars, releaseVars
<1>2. Refunding' = Refunding /\ Claimed' = Claimed /\ \A d \in Days : DoneOn(d)' = DoneOn(d)
  BY <1>1 DEF Refunding, Claimed, DoneOn, Busy
<1>3. QuotaInv => QuotaInv'
  <2>1. DaysCurrent => DaysCurrent'
    BY <1>1 DEF DaysCurrent, Busy
  <2>2. QuotaCovers => QuotaCovers'
    BY <1>1, <1>2 DEF QuotaCovers, Open
  <2> QED
    BY <2>1, <2>2 DEF QuotaInv, QuotaOn, EffectiveLimit, PositiveLimits
<1>4. ASSUME NEW d \in Devices, DeviceFits(d)
      PROVE  DeviceFits(d)'
  <2>1. \A n \in Days : DoneBy(d, n)' = DoneBy(d, n)
    BY <1>1, <1>2 DEF DoneBy
  <2>2. CountsFit(d)'
    BY <1>1, <1>4, <2>1 DEF DeviceFits, CountsFit
  <2>3. ASSUME NEW v \in Workers, DeviceOf[v] = d
        PROVE  RoomLeft(v)'
    BY <1>1, <1>4, <2>3 DEF DeviceFits, RoomLeft, Busy
  <2> QED
    BY <2>2, <2>3 DEF DeviceFits
<1>5. DeviceInv => DeviceInv'
  BY <1>4 DEF DeviceInv, Exclusive
<1> QED
  BY <1>3, <1>5

\* A phone driven by one worker stays within its daily and hourly limits, and no
\* more leads are messaged than the industry's daily limit allows, unless a
\* release wrote an old count back over that day's row.
THEOREM WorkersKeepLimits ==
    ASSUME "midnight" \notin Faults, "torn" \notin Faults
    PROVE  WorkSpec => [](SendsWithinLimit /\ DeviceWithinLimits)
<1>1. WorkInit => QuotaInv /\ DeviceInv
  BY InitQuotaInv, InitDeviceInv DEF WorkInit
<1>2. WorkTypeInv /\ QuotaInv /\ DeviceInv /\ [WorkNext]_workVars => QuotaInv' /\ DeviceInv'
  <2> SUFFICES ASSUME WorkTypeInv, QuotaInv, DeviceInv, [WorkNext]_workVars
               PROVE  QuotaInv' /\ DeviceInv'
    OBVIOUS
  <2>1. CASE [Next]_vars
    BY <2>1, StepQuotaInv, StepDeviceInv DEF WorkTypeInv
  <2>2. ASSUME NEW w \in Workers, Stops(w)
        PROVE  QuotaInv' /\ DeviceInv'
    BY <2>2, StopsKeepLimits DEF WorkTypeInv
  <2> QED
    BY <2>1, <2>2, WorkImplementsScheduler DEF WorkTypeInv
<1>3. WorkTypeInv /\ QuotaInv /\ DeviceInv /\ QuotaWithinLimit => SendsWithinLimit /\ DeviceWithinLimits
  BY CoveredWithinLimit, FittingWithinLimits DEF WorkTypeInv
<1> QED
  BY <1>1, <1>2, <1>3, WorkersKeepClaimsAndQuota, WorkTypeInvariant, PTL DEF WorkSpec
------------------------------------------------------------------------------
(* no claim left behind *)

\* A worker that has left its loop has no claim, and as long as nothing crashed
\* or failed every claimed lead is the claim of a worker that will report it.
OverFits(w) == phase[w] = "over" => pc[w] \notin Busy
Holds(w, l) == w \in Engaged /\ claim[w].lead = l /\ StillMine(w)
HeldInv ==
    /\ \A w \in Workers : OverFits(w) /\ TokenFits(w)
    /\ mishaps = 0 => \A l \in Claimed : \E w \in Workers : Holds(w, l)

\* A holder whose memory and whose row are left alone is a holder still.
LEMMA HolderKept ==
    ASSUME NEW v \in Workers, NEW l \in Leads, Holds(v, l),
           pc'[v] \in {"holding", "writing"}, claim'[v] = claim[v], status'[l] = status[l],
           consumer_id'[l] = consumer_id[l], claim_token'[l] = claim_token[l]
    PROVE  Holds(v, l)'
BY RowLeftAlone DEF Holds, Engaged, StillMine

\* What a worker does to its own place and the rows leaves the others' alone.
LEMMA OthersFit ==
    ASSUME NEW w \in Workers, OwnStep(w), HeldInv, OverFits(w)', TokenFits(w)'
    PROVE  \A v \in Workers : OverFits(v)' /\ TokenFits(v)'
BY DEF OwnStep, HeldInv, OverFits, TokenFits

LEMMA LoopStepFits ==
    ASSUME WorkTypeInv, HeldInv, NEW w \in Workers, LoopStep(w) \/ Mishap(w)
    PROVE  OverFits(w)' /\ TokenFits(w)'
<1> USE DEF Busy, WorkTypeInv
<1>0. OverFits(w) /\ TokenFits(w) /\ LoopTypes /\ PhaseFits(phase[w], pc[w])
  BY DEF HeldInv
<1>1. CASE LoopTop(w)
  BY <1>0, <1>1 DEF LoopTop, Goto, LoopTypes, TypeOK, OverFits, TokenFits, PhaseFits
<1>2. CASE Claims(w)
  <2>1. CASE ClaimForDevice(w) /\ Goto(w, "claimed")
    <3>1. \E l : claim' = [claim EXCEPT ![w] = [lead |-> l, token |-> <<JobOf[w], issued + 1>>]]
      BY <2>1 DEF ClaimForDevice
    <3>2. claim'[w].token = <<JobOf[w], issued + 1>>
      BY <3>1 DEF TypeOK
    <3> QED
      BY <2>1, <3>2 DEF Goto, LoopTypes, OverFits, TokenFits
  <2>2. CASE RefuseClaim(w)
    BY <2>2 DEF RefuseClaim, TypeOK, OverFits, TokenFits
  <2> QED
    BY <1>2, <2>1, <2>2 DEF Claims
<1>3. ASSUME NEW screen, PrepareAgent(w) \/ Observe(w, screen) \/ StartGoal(w)
                         \/ AgentRuns(w) \/ JudgeResult(w)
      PROVE  OverFits(w)' /\ TokenFits(w)'
  <2>1. UNCHANGED vars /\ phase'[w] # "over"
    BY <1>0, <1>3 DEF PrepareAgent, Observe, StartGoal, AgentRuns, JudgeResult, Fail, Goto,
                      LoopTypes
  <2> QED
    BY <1>0, <2>1 DEF vars, OverFits, TokenFits
<1>4. CASE Report(w)
  <2>1. pc'[w] \in {"idle", "writing", "settling"} /\ (pc'[w] # "idle" => claim'[w] = claim[w] /\ pc[w] \in Busy)
    BY <1>4 DEF Report, BeginCompletion, WriteCompletion, SettleQuota, TypeOK
  <2>2. pc'[w] # "idle" => phase'[w] = "reporting"
    BY <1>4 DEF Report, Reported, LoopTypes
  <2> QED
    BY <1>0, <2>1, <2>2 DEF OverFits, TokenFits
<1>5. CASE Mishap(w)
  <2>1. pc'[w] \in {"idle", "dead"}
    BY <1>5 DEF Mishap, TransactionFails, WorkerCrashes, TypeOK
  <2> QED
    BY <2>1 DEF OverFits, TokenFits
<1> QED
  BY <1>1, <1>2, <1>3, <1>4, <1>5 DEF LoopStep

LEMMA LoopStepHolds ==
    ASSUME WorkTypeInv, HeldInv, NEW w \in Workers, LoopStep(w), mishaps' = 0,
           NEW l \in Leads, (status[l] = "claimed")'
    PROVE  \E v \in Workers : Holds(v, l)'
<1>0. OwnStep(w) /\ mishaps = 0
  <2>1. mishaps' = mishaps
    BY DEF LoopStep, LoopTop, Claims, PrepareAgent, Observe, StartGoal, AgentRuns, JudgeResult, Report
  <2> QED
    BY <2>1, WorkerStepIsOwn DEF WorkTypeInv
<1>1. ASSUME status[l] = "claimed", status'[l] = status[l], consumer_id'[l] = consumer_id[l],
             claim_token'[l] = claim_token[l],
             Holds(w, l) => pc'[w] \in {"holding", "writing"} /\ claim'[w] = claim[w]
      PROVE  \E v \in Workers : Holds(v, l)'
  <2>1. PICK v \in Workers : Holds(v, l)
    BY <1>0, <1>1 DEF HeldInv, Claimed
  <2>2. pc'[v] \in {"holding", "writing"} /\ claim'[v] = claim[v]
    BY <1>0, <1>1, <2>1 DEF OwnStep, Holds, Engaged
  <2> QED
    BY <1>1, <2>1, <2>2, HolderKept
<1>2. CASE LoopTop(w)
  <2>1. pc[w] = "idle" /\ UNCHANGED <<status, consumer_id, claim_token, claim>>
    BY <1>2 DEF LoopTop, rowVars, WorkTypeInv, PhaseFits
  <2> QED
    BY <1>1, <2>1 DEF Holds, Engaged
<1>3. CASE Claims(w)
  <2>1. CASE ClaimForDevice(w)
    <3>1. PICK k \in ReadyCandidates :
            /\ status' = [status EXCEPT ![k] = "claimed"]
            /\ consumer_id' = [consumer_id EXCEPT ![k] = DeviceOf[w]]
            /\ claim_token' = [claim_token EXCEPT ![k] = <<JobOf[w], issued + 1>>]
            /\ claim' = [claim EXCEPT ![w] = [lead |-> k, token |-> <<JobOf[w], issued + 1>>]]
      BY <2>1 DEF ClaimForDevice
    <3>2. pc[w] = "idle" /\ pc' = [pc EXCEPT ![w] = "holding"] /\ k \in Leads
      BY <2>1 DEF ClaimForDevice, ReadyCandidates, Candidates, Pending
    <3>3. CASE l = k
      BY <3>1, <3>2, <3>3 DEF Holds, Engaged, StillMine, WorkTypeInv, TypeOK
    <3>4. CASE l # k
      BY <1>1, <3>1, <3>2, <3>4 DEF Holds, Engaged, WorkTypeInv, TypeOK
    <3> QED
      BY <3>3, <3>4
  <2>2. CASE RefuseClaim(w)
    <3>1. pc[w] = "idle" /\ UNCHANGED <<status, consumer_id, claim_token>>
      BY <2>2 DEF RefuseClaim, rowVars
    <3> QED
      BY <1>1, <3>1 DEF Holds, Engaged
  <2> QED
    BY <1>3, <2>1, <2>2 DEF Claims
<1>4. ASSUME NEW screen, PrepareAgent(w) \/ Observe(w, screen) \/ StartGoal(w)
                         \/ AgentRuns(w) \/ JudgeResult(w)
      PROVE  \E v \in Workers : Holds(v, l)'
  <2>1. UNCHANGED <<status, consumer_id, claim_token, pc, claim>>
    BY <1>4 DEF PrepareAgent, Observe, StartGoal, AgentRuns, JudgeResult, vars
  <2> QED
    BY <1>1, <2>1 DEF Holds, Engaged
<1>5. CASE Report(w)
  <2>1. CASE BeginCompletion(w, verdict[w])
    <3>1. UNCHANGED <<status, consumer_id, claim_token>>
      BY <2>1 DEF BeginCompletion, rowVars
    <3>2. StillMine(w) => pc'[w] = "writing" /\ claim' = claim
      BY <2>1 DEF BeginCompletion, WorkTypeInv, TypeOK
    <3> QED
      BY <1>1, <3>1, <3>2 DEF Holds
  <2>2. CASE WriteCompletion(w)
    <3> DEFINE k == claim[w].lead
    <3>1. /\ \A i \in Leads \ {k} :
               /\ status'[i] = status[i] /\ consumer_id'[i] = consumer_id[i]
               /\ claim_token'[i] = claim_token[i]
          /\ k \in Leads => status'[k] # "claimed"
      BY <2>2 DEF WriteCompletion, WorkTypeInv, TypeOK, Writes, Verdicts
    <3>2. l # k
      BY <3>1
    <3>3. ~Holds(w, l)
      BY <3>2 DEF Holds
    <3> QED
      BY <1>1, <3>1, <3>2, <3>3
  <2>3. CASE SettleQuota(w)
    <3>1. UNCHANGED <<status, consumer_id, claim_token>> /\ pc[w] = "settling"
      BY <2>3 DEF SettleQuota, rowVars
    <3> QED
      BY <1>1, <3>1 DEF Holds, Engaged
  <2> QED
    BY <1>5, <2>1, <2>2, <2>3 DEF Report
<1> QED
  BY <1>2, <1>3, <1>4, <1>5 DEF LoopStep

\* Taking claims back and queueing failed leads makes no new claim.
LEMMA QueueStepHolds ==
    ASSUME WorkTypeInv, HeldInv, QueueStep, UNCHANGED mishaps,
           \A l \in Leads : status'[l] = "claimed" =>
               /\ status[l] = "claimed" /\ consumer_id'[l] = consumer_id[l]
               /\ claim_token'[l] = claim_token[l]
    PROVE  HeldInv'
<1>1. \A v \in Workers : OverFits(v)' /\ TokenFits(v)'
  BY DEF QueueStep, loopVars, workerVars, HeldInv, OverFits, TokenFits
<1>2. ASSUME mishaps' = 0, NEW l \in Claimed'
      PROVE  \E v \in Workers : Holds(v, l)'
  <2>1. l \in Leads /\ status'[l] = "claimed" /\ status[l] = "claimed"
    BY <1>2 DEF Claimed
  <2>2. PICK v \in Workers : Holds(v, l)
    BY <1>2, <2>1 DEF HeldInv, Claimed
  <2>3. pc'[v] \in {"holding", "writing"} /\ claim'[v] = claim[v]
    BY <2>2 DEF QueueStep, workerVars, Holds, Engaged
  <2> QED
    BY <2>1, <2>2, <2>3, HolderKept
<1> QED
  BY <1>1, <1>2 DEF HeldInv

LEMMA StepHeldInv == WorkTypeInv /\ HeldInv /\ [WorkNext]_workVars => HeldInv'
<1> SUFFICES ASSUME WorkTypeInv, HeldInv, [WorkNext]_workVars
             PROVE  HeldInv'
  OBVIOUS
<1>1. ASSUME NEW w \in Workers, LoopStep(w)
      PROVE  HeldInv'
  <2>1. \A v \in Workers : OverFits(v)' /\ TokenFits(v)'
    BY <1>1, LoopStepFits, OthersFit, WorkerStepIsOwn DEF WorkTypeInv
  <2> QED
    BY <1>1, <2>1, LoopStepHolds DEF HeldInv, Claimed
<1>2. ASSUME NEW w \in Workers, Mishap(w)
      PROVE  HeldInv'
  <2>1. \A v \in Workers : OverFits(v)' /\ TokenFits(v)'
    BY <1>2, LoopStepFits, OthersFit, WorkerStepIsOwn DEF WorkTypeInv
  <2>2. mishaps' # 0
    BY <1>2, WorkConstants DEF Mishap, WorkTypeInv, LoopTypes
  <2> QED
    BY <2>1, <2>2 DEF HeldInv
<1>3. ASSUME NEW j \in Jobs, Cancels(j) \/ CancelMarks(j)
      PROVE  HeldInv'
  <2>1. QueueStep /\ UNCHANGED mishaps
    BY <1>3, QueueStepsMoveNoWorker, CancelsByRelease DEF CancelMarks
  <2>2. \A l \in Leads : status'[l] = "claimed" =>
          /\ status[l] = "claimed" /\ consumer_id'[l] = consumer_id[l]
          /\ claim_token'[l] = claim_token[l]
    BY <1>3, CancelsByRelease
       DEF CancelMarks, vars, ReleaseClaimedTasksForJob, BeginRelease, EndRelease, BackToQueue, rowVars
  <2> QED
    BY <2>1, <2>2, QueueStepHolds
<1>4. CASE Retry
  <2>1. QueueStep /\ UNCHANGED mishaps
    BY <1>4, QueueStepsMoveNoWorker DEF Retry
  <2>2. \A l \in Leads : status'[l] = "claimed" =>
          /\ status[l] = "claimed" /\ consumer_id'[l] = consumer_id[l]
          /\ claim_token'[l] = claim_token[l]
    BY <1>4 DEF Retry, RetryFailed, BackToQueue
  <2> QED
    BY <2>1, <2>2, QueueStepHolds
<1>5. CASE UNCHANGED workVars
  BY <1>5, QueueStepHolds
     DEF workVars, vars, QueueStep, loopVars, workerVars, historyVars
<1> QED
  BY <1>1, <1>2, <1>3, <1>4, <1>5 DEF WorkNext, Cancels

LEMMA InitHeldInv == WorkInit => HeldInv
BY DEF WorkInit, Init, HeldInv, OverFits, TokenFits, Busy, Claimed

\* Unless a worker crashed or lost a transaction every claimed lead is in the
\* hands of a worker still in its loop whose report will be accepted: no lead is
\* orphaned by a refused claim, a lost claim, a cancellation or a quarantine.
THEOREM EveryClaimHeld == WorkSpec => []NoClaimLeftBehind
<1>1. HeldInv => NoClaimLeftBehind
  BY DEF HeldInv, OverFits, Holds, NoClaimLeftBehind, Engaged, Busy
<1> QED
  BY <1>1, InitHeldInv, StepHeldInv, WorkTypeInvariant, PTL DEF WorkSpec

\* Where a job's workers have all left their loops nothing is left claimed by
\* it, unless something crashed or failed: the safety half of CancellationDrains.
OverMeansDrained ==
    \A j \in Jobs : (\A w \in Workers : JobOf[w] = j => phase[w] = "over") => Drained(j)
THEOREM WorkersOverDrained == WorkSpec => []OverMeansDrained
<1>1. HeldInv => OverMeansDrained
  <2> SUFFICES ASSUME HeldInv, NEW j \in Jobs, mishaps = 0, NEW l \in RowsOfJob(j),
                      \A w \in Workers : JobOf[w] = j => phase[w] = "over"
               PROVE  FALSE
    BY DEF OverMeansDrained, Drained
  <2>1. l \in Claimed /\ claim_token[l][1] = j
    BY DEF RowsOfJob
  <2>2. PICK w \in Workers : Holds(w, l)
    BY <2>1 DEF HeldInv
  <2>3. claim_token[l] = claim[w].token /\ pc[w] \in Busy
    BY <2>2 DEF Holds, StillMine, Engaged, Busy
  <2>4. JobOf[w] = j
    BY <2>1, <2>3 DEF HeldInv, TokenFits
  <2> QED
    BY <2>3, <2>4 DEF HeldInv, OverFits
<1> QED
  BY <1>1, InitHeldInv, StepHeldInv, WorkTypeInvariant, PTL DEF WorkSpec
------------------------------------------------------------------------------
(* a cancelled worker runs out of steps *)

\* StepsToOver of a worker in phase p with its claim in state c after k looks.
ReportFrom(c) == IF c = "holding" THEN 3 ELSE IF c = "writing" THEN 2
                 ELSE IF c = "settling" THEN 1 ELSE 0
StepsFrom(p, c, k) ==
    IF p = "over" THEN 0 ELSE IF p = "top" THEN 1
    ELSE IF p = "reporting" THEN 1 + ReportFrom(c) ELSE IF p = "ran" THEN 5
    ELSE IF p = "acting" THEN 6 ELSE IF p = "ready" THEN 7
    ELSE IF p = "observing" THEN 8 + (ObserveRetries - k)
    ELSE IF p = "claimed" THEN 9 + ObserveRetries ELSE 10 + ObserveRetries

LEMMA StepsByPlace ==
    /\ \A w \in Workers : phase[w] \in Phases =>
          StepsToOver(w) = StepsFrom(phase[w], pc[w], looks[w])
    /\ \A w \in Workers : phase'[w] \in Phases =>
          StepsToOver(w)' = StepsFrom(phase'[w], pc'[w], looks'[w])
<1>1. \A w : ReportSteps(w) = ReportFrom(pc[w]) /\ ReportSteps(w)' = ReportFrom(pc'[w])
  BY DEF ReportSteps, ReportFrom
<1>2. ASSUME NEW w \in Workers, phase[w] \in Phases
      PROVE  StepsToOver(w) = StepsFrom(phase[w], pc[w], looks[w])
  BY <1>1, <1>2 DEF StepsToOver, StepsFrom, Phases
<1>3. ASSUME NEW w \in Workers, phase'[w] \in Phases
      PROVE  StepsToOver(w)' = StepsFrom(phase'[w], pc'[w], looks'[w])
  BY <1>1, <1>3 DEF StepsToOver, StepsFrom, Phases
<1> QED
  BY <1>2, <1>3

\* The number is never negative and starts no higher than a whole turn.
LEMMA StepsAreBounded ==
    ASSUME WorkTypeInv, NEW w \in Workers
    PROVE  StepsToOver(w) \in 0..(ObserveRetries + 10)
<1>1. phase[w] \in Phases /\ looks[w] \in 0..ObserveRetries
  BY DEF WorkTypeInv, LoopTypes
<1>2. StepsFrom(phase[w], pc[w], looks[w]) \in 0..(ObserveRetries + 10)
  BY <1>1, WorkConstants DEF StepsFrom, ReportFrom
<1> QED
  BY <1>1, <1>2, StepsByPlace

\* A worker looks at its own screen only.
LEMMA OthersLooksKept ==
    ASSUME LoopTypes, NEW w \in Workers, LoopStep(w) \/ Mishap(w), NEW v \in Workers \ {w}
    PROVE  looks'[v] = looks[v]
BY DEF LoopTypes, LoopStep, LoopTop, Claims, PrepareAgent, Observe, StartGoal, AgentRuns,
       JudgeResult, Report, Mishap

\* With its flag up, every step of a worker takes it nearer to its end.
LEMMA OwnStepNearer ==
    ASSUME WorkTypeInv, HeldInv, NEW w \in Workers, FlagRaised(w), LoopStep(w) \/ Mishap(w)
    PROVE  StepsToOver(w)' < StepsToOver(w)
<1> DEFINE Nearer == StepsFrom(phase'[w], pc'[w], looks'[w]) < StepsFrom(phase[w], pc[w], looks[w])
<1>0. /\ LoopTypes /\ TypeOK /\ PhaseFits(phase[w], pc[w]) /\ OverFits(w)
      /\ ObserveRetries \in Nat /\ looks[w] \in 0..ObserveRetries
  BY WorkConstants DEF WorkTypeInv, LoopTypes, HeldInv
<1> SUFFICES Nearer
  <2>1. phase[w] \in Phases /\ phase'[w] \in Phases
    BY <1>0, WorkerStepTypes DEF LoopTypes
  <2> QED
    BY <2>1, StepsByPlace
<1> USE DEF StepsFrom, ReportFrom, Goto
<1>1. CASE LoopTop(w)
  <2>1. phase[w] = "top" /\ phase'[w] = "over"
    BY <1>0, <1>1 DEF LoopTop, ShouldStop, FlagRaised, LoopTypes
  <2> QED
    BY <2>1
<1>2. CASE Claims(w)
  <2>1. phase[w] = "claiming" /\ phase'[w] \in {"claimed", "over"}
    BY <1>0, <1>2 DEF Claims, LoopTypes
  <2> QED
    BY <1>0, <2>1
<1>3. CASE PrepareAgent(w)
  <2>1. phase[w] = "claimed" /\ looks'[w] = 0 /\ pc'[w] = "holding"
        /\ phase'[w] \in {"observing", "reporting"}
    BY <1>0, <1>3 DEF PrepareAgent, Fail, LoopTypes, vars, PhaseFits, AtPhone
  <2> QED
    BY <1>0, <2>1
<1>4. ASSUME NEW screen, Observe(w, screen)
      PROVE  Nearer
  <2>1. phase[w] = "observing" /\ pc'[w] = "holding"
    BY <1>0, <1>4 DEF Observe, vars, PhaseFits, AtPhone
  <2>2. \/ phase'[w] \in {"ready", "reporting"}
        \/ phase'[w] = "observing" /\ looks[w] < ObserveRetries /\ looks'[w] = looks[w] + 1
    BY <1>0, <1>4 DEF Observe, Fail, LoopTypes
  <2> QED
    BY <1>0, <2>1, <2>2
<1>5. CASE StartGoal(w)
  <2>1. phase[w] = "ready" /\ pc'[w] = "holding" /\ phase'[w] = "reporting"
    BY <1>0, <1>5 DEF StartGoal, ShouldStop, FlagRaised, Fail, LoopTypes, vars, PhaseFits, AtPhone
  <2> QED
    BY <2>1
<1>6. CASE AgentRuns(w)
  <2>1. phase[w] = "acting" /\ phase'[w] = "ran"
    BY <1>0, <1>6 DEF AgentRuns, LoopTypes
  <2> QED
    BY <2>1
<1>7. CASE JudgeResult(w)
  <2>1. phase[w] = "ran" /\ phase'[w] = "reporting" /\ pc'[w] = "holding"
    BY <1>0, <1>7 DEF JudgeResult, Fail, LoopTypes, vars, PhaseFits, AtPhone
  <2> QED
    BY <2>1
<1>8. ASSUME Reported(w), phase[w] = "reporting",
             \/ pc'[w] = "idle" /\ pc[w] \in Busy
             \/ pc[w] = "holding" /\ pc'[w] = "writing"
             \/ pc[w] = "writing" /\ pc'[w] = "settling"
      PROVE  Nearer
  <2>1. IF pc'[w] = "idle" THEN phase'[w] \in {"over", "top"} ELSE phase'[w] = "reporting"
    BY <1>0, <1>8 DEF Reported, LoopTypes
  <2> QED
    BY <1>8, <2>1 DEF Busy
<1>9. CASE Report(w)
  <2>1. \/ pc'[w] = "idle" /\ pc[w] \in Busy
        \/ pc[w] = "holding" /\ pc'[w] = "writing"
        \/ pc[w] = "writing" /\ pc'[w] = "settling"
    BY <1>0, <1>9 DEF Report, BeginCompletion, WriteCompletion, SettleQuota, TypeOK, Busy
  <2> QED
    BY <1>8, <1>9, <2>1 DEF Report
<1>10. CASE Mishap(w)
  <2>1. CASE TransactionFails(w) /\ Reported(w)
    <3>1. pc[w] \in {"writing", "settling"} /\ pc'[w] = "idle"
      BY <1>0, <2>1 DEF TransactionFails, TypeOK
    <3>2. phase[w] = "reporting"
      BY <1>0, <3>1 DEF PhaseFits, AtPhone, OverFits, Busy, LoopTypes, Phases
    <3> QED
      BY <1>8, <2>1, <3>1, <3>2 DEF Busy
  <2>2. CASE WorkerCrashes(w) /\ Goto(w, "over")
    <3>1. phase[w] # "over" /\ phase'[w] = "over"
      BY <1>0, <2>2 DEF WorkerCrashes, OverFits, Busy, LoopTypes
    <3> QED
      BY <1>0, <3>1
  <2> QED
    BY <1>10, <2>1, <2>2 DEF Mishap
<1> QED
  BY <1>1, <1>2, <1>3, <1>4, <1>5, <1>6, <1>7, <1>9, <1>10 DEF LoopStep

\* Once a job's flag is up each step of its workers takes them nearer to the end
\* of their loops and nobody else moves them: they can take at most
\* ObserveRetries + 10 more steps, whatever the others do meanwhile.
StepsBounded == \A w \in Workers : StepsToOver(w) \in 0..(ObserveRetries + 10)
THEOREM CancelledWorkersFinish ==
    WorkSpec => CancelledWorkersRunOut /\ []StepsBounded
<1>1. WorkTypeInv /\ HeldInv /\ [WorkNext]_workVars =>
        \A w \in Workers : FlagRaised(w) /\ PlaceOf(w)' # PlaceOf(w) =>
            StepsToOver(w)' < StepsToOver(w)
  <2> SUFFICES ASSUME WorkTypeInv, HeldInv, [WorkNext]_workVars, NEW w \in Workers,
                      FlagRaised(w), PlaceOf(w)' # PlaceOf(w)
               PROVE  StepsToOver(w)' < StepsToOver(w)
    OBVIOUS
  <2>1. ASSUME UNCHANGED <<phase, pc, looks>>
        PROVE  FALSE
    BY <2>1 DEF PlaceOf
  <2>2. ASSUME NEW v \in Workers, v # w, LoopStep(v) \/ Mishap(v)
        PROVE  FALSE
    <3>1. phase'[w] = phase[w] /\ pc'[w] = pc[w] /\ looks'[w] = looks[w]
      BY <2>2, WorkerStepIsOwn, OthersLooksKept DEF OwnStep, WorkTypeInv
    <3> QED
      BY <3>1 DEF PlaceOf
  <2>3. CASE (\E j \in Jobs : Cancels(j) \/ CancelMarks(j)) \/ Retry
    BY <2>1, <2>3, QueueStepsMoveNoWorker DEF QueueStep, loopVars, workerVars
  <2>4. CASE UNCHANGED workVars
    BY <2>1, <2>4 DEF workVars, vars, loopVars
  <2> QED
    BY <2>2, <2>3, <2>4, OwnStepNearer DEF WorkNext, Cancels
<1>2. WorkTypeInv => StepsBounded
  BY StepsAreBounded DEF StepsBounded
<1> QED
  BY <1>1, <1>2, InitHeldInv, StepHeldInv, WorkTypeInvariant, PTL
     DEF WorkSpec, CancelledWorkersRunOut
==============================================================================
