----------------------------- MODULE SendWorkers -----------------------------
(***************************************************************************)
(* The device workers of send jobs against the send queue: the loop of     *)
(* DeviceWorker.run (core/task/worker.py), one private message through     *)
(* TaskGraphRunner.run_douyin_dm (core/task/runner.py) and                 *)
(* PhoneAgentExecutor.execute_goal (core/agent/executor.py), and the       *)
(* cancellation of a job (server/workers.py) that takes its claims back    *)
(* before it tells the workers.  What the phone does cannot be taken back. *)
(*                                                                         *)
(* The limits by day and hour are MatrixScheduler's subject: here the day  *)
(* and the hour do not end.                                                *)
(***************************************************************************)
EXTENDS MatrixScheduler

CONSTANTS Cancellable,  \* the jobs a user may cancel
          MaxRetries,   \* bound: requests that queue failed leads again
          MaxMishaps,   \* bound: crashes and failed transactions of workers
          ObserveRetries  \* RecoveryPolicy.max_observe_retries

ASSUME WorkerAssumption ==
    /\ Cancellable \subseteq Jobs
    /\ MaxRetries \in Nat /\ MaxMishaps \in Nat /\ ObserveRetries \in Nat

VARIABLES
    phase,       \* where each worker is in its loop
    looks,       \* observations it has made of the current screen
    verdict,     \* what it will report of its claim
    leaving,     \* it breaks out of the loop after this report
    cancel,      \* of each job: "no", "releasing", "released", "set", then
                 \* "sweeping" and "swept"
    retries, mishaps,  \* retry requests and mishaps so far
    dms,         \* history: messages delivered to each lead's user
    requeued,    \* history: how often each lead was queued again
    late         \* history: messages of each worker after its job's flag was set

loopVars == <<phase, looks, verdict, leaving>>
historyVars == <<dms, requeued, late>>
workVars == <<vars, loopVars, cancel, retries, mishaps, historyVars>>
------------------------------------------------------------------------------
\* should_stop: the job's cancel flag.  Variants named after the slip they make
\* stand before the definition they vary.
ShouldStopOnceSwept(w) == cancel[JobOf[w]] = "swept"
FlagUp == {"set", "sweeping", "swept"}
ShouldStop(w) == cancel[JobOf[w]] \in FlagUp

WorkInit ==
    /\ Init
    /\ phase = [w \in Workers |-> "top"]
    /\ looks = [w \in Workers |-> 0]
    /\ verdict = [w \in Workers |-> "failed"]
    /\ leaving = [w \in Workers |-> FALSE]
    /\ cancel = [j \in Jobs |-> "no"]
    /\ retries = 0 /\ mishaps = 0
    /\ dms = [l \in Leads |-> 0]
    /\ requeued = [l \in Leads |-> 0]
    /\ late = [w \in Workers |-> 0]

Goto(w, p) == phase' = [phase EXCEPT ![w] = p]

\* The top of the loop.
LoopTop(w) ==
    /\ phase[w] = "top"
    /\ IF ShouldStop(w)
       THEN Goto(w, "over") /\ pc' = [pc EXCEPT ![w] = "stopped"]
       ELSE Goto(w, "claiming") /\ UNCHANGED pc
    /\ UNCHANGED <<rowVars, quotaVars, device, today, issued, claim, writing,
                   releaseVars, looks, verdict, leaving, cancel, retries, mishaps, historyVars>>

Claims(w) ==
    /\ phase[w] = "claiming"
    /\ \/ ClaimForDevice(w) /\ Goto(w, "claimed")
       \/ RefuseClaim(w) /\ Goto(w, "over")
    /\ UNCHANGED <<looks, verdict, leaving, cancel, retries, mishaps, historyVars>>

FailUnreportedIfLeaving(w, leave) ==
    /\ Goto(w, IF leave THEN "over" ELSE "reporting")
    /\ verdict' = [verdict EXCEPT ![w] = "failed"]
    /\ leaving' = [leaving EXCEPT ![w] = leave]
\* The claim ends without a message, or with one that was not confirmed.
\* The risk manager may quarantine the phone, which ends the loop.
Fail(w, leave) ==
    /\ Goto(w, "reporting")
    /\ verdict' = [verdict EXCEPT ![w] = "failed"]
    /\ leaving' = [leaving EXCEPT ![w] = leave]

\* The reply is generated and the agent of the phone started.
PrepareAgent(w) ==
    /\ phase[w] = "claimed"
    /\ \/ Goto(w, "observing") /\ UNCHANGED <<verdict, leaving>>
       \/ Fail(w, TRUE)
    /\ looks' = [looks EXCEPT ![w] = 0]
    /\ UNCHANGED <<vars, cancel, retries, mishaps, historyVars>>

\* _preflight_observe: an unknown screen is looked at again, a blocked one or
\* a failed observation ends the attempt.
Observe(w, screen) ==
    /\ phase[w] = "observing"
    /\ \/ /\ screen = "usable"
          /\ Goto(w, "ready")
          /\ UNCHANGED <<looks, verdict, leaving>>
       \/ /\ screen = "unknown" /\ looks[w] < ObserveRetries
          /\ looks' = [looks EXCEPT ![w] = @ + 1]
          /\ UNCHANGED <<phase, verdict, leaving>>
       \/ /\ screen = "blocked" \/ (screen = "unknown" /\ looks[w] >= ObserveRetries)
          /\ \E leave \in BOOLEAN : Fail(w, leave)
          /\ UNCHANGED looks
    /\ UNCHANGED <<vars, cancel, retries, mishaps, historyVars>>

\* execute_goal looks at the cancel flag before it hands the phone over.
StartGoal(w) ==
    /\ phase[w] = "ready"
    /\ IF ShouldStop(w) THEN \E leave \in BOOLEAN : Fail(w, leave)
       ELSE Goto(w, "acting") /\ UNCHANGED <<verdict, leaving>>
    /\ UNCHANGED <<vars, looks, cancel, retries, mishaps, historyVars>>

\* The agent works the phone, and the message goes out or does not.
AgentRuns(w) ==
    /\ phase[w] = "acting"
    /\ Goto(w, "ran")
    /\ \/ /\ dms' = [dms EXCEPT ![claim[w].lead] = @ + 1]
          /\ late' = [late EXCEPT ![w] = @ + IF cancel[JobOf[w]] \in FlagUp THEN 1 ELSE 0]
       \/ UNCHANGED <<dms, late>>
    /\ UNCHANGED <<vars, looks, verdict, leaving, cancel, retries, mishaps, requeued>>

\* It reports success only if the flag is still down, its answer says so and
\* verify_send finds evidence on the screen.
JudgeResult(w) ==
    /\ phase[w] = "ran"
    /\ \/ \E leave \in BOOLEAN : Fail(w, leave)
       \/ /\ ~ShouldStop(w)
          /\ Goto(w, "reporting")
          /\ verdict' = [verdict EXCEPT ![w] = "done"]
          /\ leaving' = [leaving EXCEPT ![w] = FALSE]
    /\ UNCHANGED <<vars, looks, cancel, retries, mishaps, historyVars>>

\* Where the worker is once its report is settled, refused or rolled back.
Reported(w) ==
    phase' = [phase EXCEPT ![w] =
                IF pc'[w] # "idle" THEN @ ELSE IF leaving[w] THEN "over" ELSE "top"]

\* commit_task.
Report(w) ==
    /\ phase[w] = "reporting"
    /\ BeginCompletion(w, verdict[w]) \/ WriteCompletion(w) \/ SettleQuota(w)
    /\ Reported(w)
    /\ UNCHANGED <<looks, verdict, leaving, cancel, retries, mishaps, historyVars>>

\* A transaction of the report fails, or the whole process does.
Mishap(w) ==
    /\ mishaps < MaxMishaps
    /\ mishaps' = mishaps + 1
    /\ \/ TransactionFails(w) /\ Reported(w)
       \/ WorkerCrashes(w) /\ Goto(w, "over")
    /\ UNCHANGED <<looks, verdict, leaving, cancel, retries, historyVars>>
------------------------------------------------------------------------------
QueuedAgain ==
    requeued' = [l \in Leads |-> IF status[l] # "pending" /\ status'[l] = "pending"
                                 THEN requeued[l] + 1 ELSE requeued[l]]

TakeBack(j, owned) ==
    IF RowsToRelease(j) = {} THEN UNCHANGED vars ELSE ReleaseClaimedTasksForJob(j, owned)

\* Claims are taken back in one step, or in two while others count on the quota
\* row; "during" and "after" are what the cancellation is meanwhile and then.
TakeBackFor(j, owned, during, after) ==
    /\ \/ TakeBack(j, owned) /\ cancel' = [cancel EXCEPT ![j] = after]
       \/ owned /\ BeginRelease(j) /\ cancel' = [cancel EXCEPT ![j] = during]
    /\ QueuedAgain
    /\ UNCHANGED <<loopVars, retries, mishaps, dms, late>>

\* cancel_job takes the claims back ...
CancelReleases(j) ==
    /\ j \in Cancellable /\ cancel[j] = "no"
    /\ TakeBackFor(j, TRUE, "releasing", "released")

\* ... and sets the flag afterwards.
CancelMarks(j) ==
    /\ cancel[j] = "released"
    /\ cancel' = [cancel EXCEPT ![j] = "set"]
    /\ UNCHANGED <<vars, loopVars, retries, mishaps, historyVars>>

\* A cancellation pending too long is settled by a sweep or a status request.
CancelTimesOut(j) ==
    /\ cancel[j] = "set"
    /\ \E owned \in BOOLEAN : TakeBackFor(j, owned, "sweeping", "swept")

CancelCommits(j) ==
    /\ EndRelease(j)
    /\ cancel' = [cancel EXCEPT ![j] = IF @ = "releasing" THEN "released" ELSE "swept"]
    /\ QueuedAgain
    /\ UNCHANGED <<loopVars, retries, mishaps, dms, late>>

Retry ==
    /\ retries < MaxRetries
    /\ retries' = retries + 1
    /\ \E rows \in SUBSET Leads : RetryFailed(rows)
    /\ QueuedAgain
    /\ UNCHANGED <<loopVars, cancel, mishaps, dms, late>>

LoopStep(w) ==
    \/ LoopTop(w) \/ Claims(w) \/ PrepareAgent(w)
    \/ \E screen \in {"usable", "unknown", "blocked"} : Observe(w, screen)
    \/ StartGoal(w) \/ AgentRuns(w) \/ JudgeResult(w) \/ Report(w)

WorkNext ==
    \/ \E w \in Workers : LoopStep(w) \/ Mishap(w)
    \/ \E j \in Jobs : CancelReleases(j) \/ CancelMarks(j) \/ CancelTimesOut(j) \/ CancelCommits(j)
    \/ Retry

WorkSpec == WorkInit /\ [][WorkNext]_workVars

\* A worker thread keeps going, and what takes claims back reaches its end.
WorkFairness ==
    /\ \A w \in Workers : WF_workVars(LoopStep(w))
    /\ \A j \in Jobs : WF_workVars(CancelMarks(j) \/ CancelCommits(j))
FairWorkSpec == WorkSpec /\ WorkFairness
------------------------------------------------------------------------------
Phases == {"top", "claiming", "claimed", "observing", "ready", "acting", "ran",
           "reporting", "over"}

WorkTypeOK ==
    /\ TypeOK
    /\ phase \in [Workers -> Phases]
    /\ looks \in [Workers -> 0..ObserveRetries]
    /\ verdict \in [Workers -> {"done", "failed"}]
    /\ leaving \in [Workers -> BOOLEAN]
    /\ cancel \in [Jobs -> {"no", "releasing", "released"} \cup FlagUp]
    /\ retries \in 0..MaxRetries /\ mishaps \in 0..MaxMishaps
    /\ dms \in [Leads -> Nat] /\ requeued \in [Leads -> Nat] /\ late \in [Workers -> Nat]
    /\ \A w \in Workers :
         /\ phase[w] \in {"top", "claiming"} => pc[w] = "idle"
         /\ phase[w] \in {"claimed", "observing", "ready", "acting", "ran"} => pc[w] = "holding"

\* Every message beyond the first to the same lead goes back to a time the
\* lead was queued again: by a cancellation, its time-out or a retry request.
\* Workers alone never message a lead twice, whatever crashes or fails.
RepeatsAccountedFor == \A l \in Leads : dms[l] <= 1 + requeued[l]

\* While a worker works on a lead, nothing takes its claim from it but the
\* cancellation of its own job: no other worker, no retry request and, each job
\* having its own phones, no cancellation of another job.
ClaimLostOnlyToCancellation ==
    \A w \in Workers : pc[w] = "holding" /\ ~StillMine(w) => cancel[JobOf[w]] # "no"

\* Cancelling a job stops its workers and, unless one of them crashed or lost a
\* transaction, leaves no lead claimed by it: also one claimed after the claims
\* were taken back and before the flag was set.
Drained(j) ==
    /\ \A w \in Workers : JobOf[w] = j => phase[w] = "over"
    /\ mishaps = 0 => RowsOfJob(j) = {}
CancellationDrains == \A j \in Jobs : cancel[j] = "set" ~> Drained(j)

\* Nor is any other lead left claimed by nobody: unless a worker crashed or lost
\* a transaction, every claimed lead is in the hands of a worker that has not
\* left its loop and whose report will be accepted (worker.py:252, 299, 338).
NoClaimLeftBehind ==
    mishaps = 0 =>
        \A l \in Claimed : \E w \in Engaged :
            phase[w] # "over" /\ claim[w].lead = l /\ StillMine(w)

\* The steps a worker may still take once its job's flag is up: the rest of its
\* loop and of its report, and no other turn.
ReportSteps(w) == CASE pc[w] = "holding" -> 3
                    [] pc[w] = "writing" -> 2
                    [] pc[w] = "settling" -> 1
                    [] OTHER -> 0
StepsToOver(w) ==
    CASE phase[w] = "over"      -> 0
      [] phase[w] = "top"       -> 1
      [] phase[w] = "reporting" -> 1 + ReportSteps(w)
      [] phase[w] = "ran"       -> 5
      [] phase[w] = "acting"    -> 6
      [] phase[w] = "ready"     -> 7
      [] phase[w] = "observing" -> 8 + (ObserveRetries - looks[w])
      [] phase[w] = "claimed"   -> 9 + ObserveRetries
      [] phase[w] = "claiming"  -> 10 + ObserveRetries

\* A cancelled worker comes nearer to its end with each of its steps, whatever
\* the others claim, cancel and retry meanwhile: no failed observation, lost
\* claim or rolled back report sends it around once more (worker.py:229).
FlagRaised(w) == cancel[JobOf[w]] \in FlagUp
PlaceOf(w) == <<phase[w], pc[w], looks[w]>>
CancelledWorkersRunOut ==
    [][\A w \in Workers : FlagRaised(w) /\ PlaceOf(w)' # PlaceOf(w) =>
           StepsToOver(w)' < StepsToOver(w)]_workVars

\* Once a job is marked cancelled, each of its workers sends at most the one
\* message its phone was already working on.
OneMessageAfterCancel == \A w \in Workers : late[w] <= 1

\* No lead is messaged twice.
ZeroDuplicateSends == \A l \in Leads : dms[l] <= 1
=============================================================================
