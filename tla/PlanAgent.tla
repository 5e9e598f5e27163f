------------------------------ MODULE PlanAgent ------------------------------
(***************************************************************************)
(* DirectGLMAgent (core/agent/direct_glm.py): a plan is a list of steps,   *)
(* and each step a loop of observe, ask the model, act, observe.  What the *)
(* model answers, whether the phone obeys and when the job is cancelled    *)
(* are arbitrary; the agent's report is made of the results it appended.   *)
(* Nothing in the repository calls it yet.                                 *)
(***************************************************************************)
EXTENDS Naturals, Sequences, SequencesExt

CONSTANTS PlanSteps,       \* number of steps of the plan
          MaxAttempts,     \* MAX_STEPS_PER_PLAN_STEP
          MaxTotalActions  \* MAX_TOTAL_ACTIONS

ASSUME PlanAssumption == {PlanSteps, MaxAttempts, MaxTotalActions} \subseteq Nat \ {0}

VARIABLES
    at,           \* the step the loop is in, "attempt" number within it
    attempt,
    totalActions,
    lastError,
    results,      \* step_results: index and verdict
    report,       \* status of the ExecutionResult
    stop,         \* should_stop
    howStepEnded  \* history: what ended each step

pvars == <<at, attempt, totalActions, lastError, results, report, stop, howStepEnded>>

PlanInit ==
    /\ at = 1 /\ attempt = 0 /\ totalActions = 0 /\ lastError = FALSE
    /\ results = <<>> /\ report = "none" /\ stop = FALSE
    /\ howStepEnded = [i \in 1..PlanSteps |-> "not_reached"]

\* Cancelled by another thread, at any time.
StopRequested == /\ ~stop /\ stop' = TRUE
                 /\ UNCHANGED <<at, attempt, totalActions, lastError, results, report, howStepEnded>>

\* The head of a step: a cancellation seen here is reported as such.
BeginStep ==
    /\ report = "none" /\ at <= PlanSteps /\ attempt = 0
    /\ IF stop THEN report' = "cancelled" /\ UNCHANGED attempt
               ELSE attempt' = 1 /\ UNCHANGED report
    /\ UNCHANGED <<at, totalActions, lastError, results, stop, howStepEnded>>

NextStep(how) ==
    /\ at' = at + 1 /\ attempt' = 0
    /\ howStepEnded' = [howStepEnded EXCEPT ![at] = how]
    /\ UNCHANGED <<report, stop>>
InStep == report = "none" /\ attempt > 0
Failed(error) == /\ results' = Append(results, [step |-> at, ok |-> FALSE])
                 /\ lastError' = error
                 /\ NextStep("failed")

\* A cancellation seen within a step only leaves the step.
AbandonStep ==
    /\ InStep /\ attempt <= MaxAttempts /\ stop
    /\ NextStep("abandoned")
    /\ UNCHANGED <<totalActions, lastError, results>>

\* The flag is looked at once, at the head of an attempt.
Attempting == InStep /\ attempt <= MaxAttempts /\ ~stop

\* No screenshot, no answer, or the model gives up (its reason may be empty).
NoAction(error) ==
    /\ Attempting
    /\ Failed(error)
    /\ UNCHANGED totalActions
ModelSaysDone ==
    /\ Attempting
    /\ results' = Append(results, [step |-> at, ok |-> TRUE])
    /\ lastError' = FALSE
    /\ NextStep("done")
    /\ UNCHANGED totalActions

\* An action on the phone: it is blocked or fails, exceeds the total, or the
\* loop goes on, the step running out of attempts in the end.
ActionFails ==
    /\ Attempting
    /\ totalActions' = totalActions + 1
    /\ Failed(TRUE)
ActionExceedsTotal ==
    /\ Attempting
    /\ totalActions' = totalActions + 1 /\ totalActions' >= MaxTotalActions
    /\ Failed(TRUE)
ActionOk ==
    /\ Attempting
    /\ totalActions' = totalActions + 1 /\ totalActions' < MaxTotalActions
    /\ attempt' = attempt + 1
    /\ UNCHANGED <<at, lastError, results, report, stop, howStepEnded>>
\* Only an error left over from an earlier step makes this a failed result.
OutOfAttempts ==
    /\ InStep /\ attempt > MaxAttempts
    /\ results' = IF lastError THEN Append(results, [step |-> at, ok |-> FALSE]) ELSE results
    /\ NextStep("out_of_attempts")
    /\ UNCHANGED <<totalActions, lastError>>

\* all_ok over the results there are; none at all is ok too.
AllOkOfLast == results = <<>> \/ Last(results).ok
AllOk == \A i \in DOMAIN results : results[i].ok
EndPlan ==
    /\ report = "none" /\ at > PlanSteps
    /\ report' = IF AllOk THEN "done" ELSE "failed"
    /\ UNCHANGED <<at, attempt, totalActions, lastError, results, stop, howStepEnded>>

AgentStep == \/ BeginStep \/ AbandonStep \/ ModelSaysDone
             \/ ActionFails \/ ActionExceedsTotal \/ ActionOk \/ OutOfAttempts \/ EndPlan
             \/ \E error \in BOOLEAN : NoAction(error)
PlanNext == StopRequested \/ AgentStep

PlanSpec == PlanInit /\ [][PlanNext]_pvars
------------------------------------------------------------------------------
PlanTypeOK ==
    /\ at \in 1..(PlanSteps + 1) /\ attempt \in 0..(MaxAttempts + 1)
    /\ totalActions \in 0..(MaxTotalActions + PlanSteps - 1)
    /\ lastError \in BOOLEAN /\ stop \in BOOLEAN
    /\ results \in Seq([step : 1..PlanSteps, ok : BOOLEAN]) /\ Len(results) <= PlanSteps
    /\ report \in {"none", "done", "failed", "cancelled"}
    /\ howStepEnded \in [1..PlanSteps -> {"not_reached", "done", "failed", "abandoned",
                                          "out_of_attempts"}]

\* A plan reported as done has no failed step, and each of its steps was
\* finished by the model or ran out of attempts with no error on record; only
\* its last step may have been abandoned by a cancellation the report does not
\* tell of.  A plan is reported as failed only if a step failed, or ran out of
\* attempts after another one that had.
PlanReportHonest ==
    /\ report = "done" =>
          \A i \in 1..PlanSteps :
             howStepEnded[i] \in {"done", "out_of_attempts"}
                                 \cup (IF i = PlanSteps THEN {"abandoned"} ELSE {})
    /\ report = "failed" => \E i \in 1..PlanSteps : howStepEnded[i] = "failed"
    /\ report = "cancelled" => stop
=============================================================================
