------------------------------- MODULE Dispatch -------------------------------
(***************************************************************************)
(* How a send job gets its phones to work: the two endpoints that start    *)
(* one, run_senders of core/task/worker.py with its Celery backend and its *)
(* threads, the cancellation with its grace period, and what jobs.py tells *)
(* of a job that has ended.  Claims and quotas are MatrixScheduler's, the  *)
(* worker's loop is SendWorkers' and the status a phone gets DeviceSes-    *)
(* sions': a session here claims, acts and counts, and its phone is idle,  *)
(* running, spent (out of leads or at a limit) or barred (offline).        *)
(* Lost writes of a job's row, restarts and the sweeps, which settle a     *)
(* cancellation two minutes after it while the threads of a live process   *)
(* are waited for 20 seconds, are JobRegistry's and not modelled again.    *)
(***************************************************************************)
EXTENDS Naturals, FiniteSets, Functions

CONSTANTS SendJobs, Phones,
          StartRequests,  \* requests of jobs/send/start in flight
          DeviceChoices,  \* device_ids they and industries/send may name
          PoolSize,       \* leads waiting at the start
          Outcomes        \* what an execution may be logged as

ASSUME DispatchAssumption == /\ IsFiniteSet(Phones) /\ PoolSize \in Nat
                             /\ DeviceChoices \subseteq SUBSET Phones
                             /\ Outcomes \subseteq {"ok", "unconfirmed", "blocked"}

VARIABLES
    jobs,       \* status and cancel flag of each send job, its reported summary
    pc,         \* where the thread of a job is in _send and run_senders
    targets,    \* the device_ids it was started with, then the available phones
    todo,       \* those not yet handed to Celery
    sessions,   \* where each session is: DeviceWorker.run
    claims,     \* of sessions on leads: whose, and its how manieth, from 0
    counts,     \* what a session's own summary counts
    latest,     \* the last execution logged for a job
    row,        \* runtime_status of each phone
    unshown,    \* history: sessions at work whose "running" is not in the row
    waiting,    \* pending leads
    checked,    \* what a start request has checked
    overlapping, cutOff   \* history: two jobs ran at once; jobs whose threads outlived them

jobVars == <<jobs, pc, targets, todo>>
sessionVars == <<sessions, claims, counts, latest, row, unshown, waiting>>
dvars == <<jobVars, sessionVars, checked, overlapping, cutOff>>
------------------------------------------------------------------------------
RowStatuses == {"idle", "running", "spent", "offline"}
SessionIds == [job : SendJobs, phone : Phones, via : {"celery", "thread"}]
SessionsOf(j, via) == {s \in SessionIds : s.job = j /\ s.via = via}
Active(status) == status \in {"running", "cancelling"}
Ended(status) == status \in {"done", "failed", "cancelled"}
OnThePhone(s) == sessions[s] = "acting"
AtWork(s) == sessions[s] \in {"working", "acting"}
Over(s) == sessions[s] \in {"ended", "died"}

Counted(s) == counts[s].sent + counts[s].failed
ClaimOf(s) == [session |-> s, number |-> Counted(s)]

NothingSent == [ok |-> TRUE, sent |-> 0, failed |-> 0]
NoPhones == [ok |-> FALSE, sent |-> 0, failed |-> 0]

DispatchInit ==
    /\ jobs = [j \in SendJobs |-> [status |-> "new", cancel |-> "no", summary |-> NothingSent]]
    /\ pc = [j \in SendJobs |-> "over"]
    /\ targets = [j \in SendJobs |-> {}]
    /\ todo = [j \in SendJobs |-> {}]
    /\ sessions = [s \in SessionIds |-> "none"]
    /\ claims = {}
    /\ counts = [s \in SessionIds |-> [sent |-> 0, failed |-> 0]]
    /\ latest = [j \in SendJobs |-> "none"]
    /\ row \in [Phones -> {"idle", "offline"}]
    /\ unshown = {}
    /\ waiting = PoolSize
    /\ checked = [r \in StartRequests |-> FALSE]
    /\ overlapping = FALSE /\ cutOff = {}

\* run_send_job: the row is written and the thread started.
RunSendJob(j, devices) ==
    /\ jobs[j].status = "new"
    /\ jobs' = [jobs EXCEPT ![j].status = "running"]
    /\ pc' = [pc EXCEPT ![j] = "start"]
    /\ targets' = [targets EXCEPT ![j] = devices]
    /\ overlapping' = (overlapping \/ \E other \in SendJobs : Active(jobs[other].status))
    /\ UNCHANGED <<todo, sessionVars, cutOff>>

\* jobs/send/start refuses without leads (as long as the query that counts them
\* does not fail), without an idle phone and while a send job is active ...
StartRefused(counted) ==
    \/ counted /\ waiting = 0
    \/ \A p \in Phones : row[p] # "idle"
    \/ \E j \in SendJobs : Active(jobs[j].status)
StartSendChecks(r, counted) ==
    /\ ~checked[r] /\ ~StartRefused(counted)
    /\ checked' = [checked EXCEPT ![r] = TRUE]
    /\ UNCHANGED <<jobVars, sessionVars, overlapping, cutOff>>
\* ... and creates the job afterwards.
StartSendCreates(r, j, devices) ==
    /\ checked[r]
    /\ RunSendJob(j, devices)
    /\ checked' = [checked EXCEPT ![r] = FALSE]

\* industries/{id}/send looks at the phones it is given and at no job.
TriggerSend(j, devices) ==
    /\ \A p \in devices : row[p] # "offline"
    /\ RunSendJob(j, devices)
    /\ UNCHANGED checked
------------------------------------------------------------------------------
CancelRequested(j) == jobs[j].cancel = "set"

\* load_active_devices with is_available.
AvailableIfRunning(j) == IF targets[j] = {} THEN Phones ELSE targets[j]
AvailablePhones(j) == {p \in IF targets[j] = {} THEN Phones ELSE targets[j] :
                          row[p] \notin {"running", "offline"}}

Returns(j, summary) ==
    /\ pc' = [pc EXCEPT ![j] = "returned"]
    /\ jobs' = [jobs EXCEPT ![j].summary = summary]

\* The policies are looked at once, and then the phones are.
RunSenders(j, allowed) ==
    /\ pc[j] = "start"
    /\ IF CancelRequested(j) \/ ~allowed
       THEN Returns(j, NothingSent) /\ UNCHANGED targets
       ELSE /\ targets' = [targets EXCEPT ![j] = AvailablePhones(j)]
            /\ IF AvailablePhones(j) = {} THEN Returns(j, NoPhones)
               ELSE pc' = [pc EXCEPT ![j] = "connect"] /\ UNCHANGED jobs
    /\ UNCHANGED <<todo, sessionVars, checked, overlapping, cutOff>>

StartThreads(j) ==
    /\ sessions' = [s \in SessionIds |-> IF s \in SessionsOf(j, "thread") /\ s.phone \in targets[j]
                                         THEN "queued" ELSE sessions[s]]
    /\ pc' = [pc EXCEPT ![j] = "join"]

\* The fallback starts a thread for every phone, those already handed to
\* Celery included.
Connect(j, broker) ==
    /\ pc[j] = "connect"
    /\ IF broker THEN /\ pc' = [pc EXCEPT ![j] = "celery"]
                      /\ todo' = [todo EXCEPT ![j] = targets[j]]
                      /\ UNCHANGED sessions
       ELSE StartThreads(j) /\ UNCHANGED todo
    /\ UNCHANGED <<jobs, targets, claims, counts, latest, row, unshown, waiting, checked,
                   overlapping, cutOff>>
DelaySession(j, p) ==
    /\ pc[j] = "celery" /\ p \in todo[j]
    /\ todo' = [todo EXCEPT ![j] = @ \ {p}]
    /\ sessions' = [sessions EXCEPT ![[job |-> j, phone |-> p, via |-> "celery"]] = "queued"]
    /\ UNCHANGED <<jobs, pc, targets, claims, counts, latest, row, unshown, waiting, checked,
                   overlapping, cutOff>>
AllDelayed(j) ==
    /\ pc[j] = "celery" /\ todo[j] = {}
    /\ Returns(j, NothingSent)
    /\ UNCHANGED <<targets, todo, sessionVars, checked, overlapping, cutOff>>
DelayFails(j) ==
    /\ pc[j] = "celery" /\ todo[j] # {}
    /\ StartThreads(j)
    /\ todo' = [todo EXCEPT ![j] = {}]
    /\ UNCHANGED <<jobs, targets, claims, counts, latest, row, unshown, waiting, checked,
                   overlapping, cutOff>>

Threads(j) == {s \in SessionsOf(j, "thread") : sessions[s] # "none"}
CountedOf(S, what) == FoldFunctionOnSet(+, 0, [s \in S |-> counts[s][what]], S)
JoinedFlawless(j, S) ==
    LET whole == {s \in S : sessions[s] = "ended" /\ counts[s].failed = 0}
    IN [ok |-> TRUE, sent |-> CountedOf(whole, "sent"), failed |-> 0]
\* The summaries of the threads add up; an exception that ends run() takes the
\* counts of its session with it (_run_device).
Joined(j, S) ==
    LET whole == {s \in S : sessions[s] = "ended"}
    IN [ok |-> TRUE, sent |-> CountedOf(whole, "sent"), failed |-> CountedOf(whole, "failed")]

AllJoined(j) ==
    /\ pc[j] = "join"
    /\ \A s \in Threads(j) : Over(s)
    /\ Returns(j, Joined(j, Threads(j)))
    /\ UNCHANGED <<targets, todo, sessionVars, checked, overlapping, cutOff>>
GraceOverOnceStopped(j) ==
    /\ pc[j] = "join" /\ CancelRequested(j)
    /\ \A s \in Threads(j) : sessions[s] \in {"working", "ended"}
    /\ Returns(j, Joined(j, {}))
    /\ cutOff' = cutOff \cup {j}
    /\ UNCHANGED <<targets, todo, sessionVars, checked, overlapping>>
\* After the grace period of a cancellation the phones still at work count as
\* having sent nothing.
GraceOver(j) ==
    LET over == {s \in Threads(j) : Over(s)} IN
    /\ pc[j] = "join" /\ CancelRequested(j) /\ over # Threads(j)
    /\ Returns(j, [Joined(j, over) EXCEPT !.ok = FALSE])
    /\ cutOff' = cutOff \cup {j}
    /\ UNCHANGED <<targets, todo, sessionVars, checked, overlapping>>

\* _send turns what run_senders returned into the status of the job: it looks
\* at the flag ...
EndStatuses == {"done", "failed", "cancelled"}
EndStatus(j) == CASE CancelRequested(j) -> "cancelled"
                  [] ~CancelRequested(j) /\ ~jobs[j].summary.ok -> "failed"
                  [] OTHER -> "done"
DecidesEnd(j) ==
    /\ pc[j] = "returned"
    /\ pc' = [pc EXCEPT ![j] = EndStatus(j)]
    /\ UNCHANGED <<jobs, targets, todo, sessionVars, checked, overlapping, cutOff>>
Reported(j) ==
    /\ pc' = [pc EXCEPT ![j] = "over"]
    /\ targets' = [targets EXCEPT ![j] = {}]
    /\ UNCHANGED <<todo, sessionVars, checked, overlapping, cutOff>>
\* ... and writes the status later.  A job that is being cancelled by then is
\* refused its "done"; the except clause writes "failed" and no summary.
DoneRefused(j) == pc[j] = "done" /\ jobs[j].status = "cancelling"
EndJob(j) ==
    /\ pc[j] \in EndStatuses /\ ~DoneRefused(j)
    /\ jobs' = [jobs EXCEPT ![j].status = pc[j]]
    /\ Reported(j)
EndJobRefused(j) ==
    /\ DoneRefused(j)
    /\ jobs' = [jobs EXCEPT ![j].status = "failed", ![j].summary = NothingSent]
    /\ Reported(j)
------------------------------------------------------------------------------
\* A session that runs in a thread polls the job's flag; one that Celery runs
\* polls the abort signal of its own task, which nothing gives.
ShouldStopDeaf(s) == FALSE
ShouldStop(s) == s.via = "thread" /\ CancelRequested(s.job)

\* send_dm_task reads compliance_mode once more; the preflight refuses a phone
\* that is cooling down and one that does not answer, which it marks.
SessionRefused(s, status) ==
    /\ sessions[s] = "queued"
    /\ status \in {row[s.phone], "offline"}
    /\ sessions' = [sessions EXCEPT ![s] = "ended"]
    /\ row' = [row EXCEPT ![s.phone] = status]
    /\ UNCHANGED <<jobVars, claims, counts, latest, unshown, waiting, checked, overlapping, cutOff>>
\* mark_started; the supervisor swallows a write that fails.
SessionStarts(s, written) ==
    /\ sessions[s] = "queued"
    /\ sessions' = [sessions EXCEPT ![s] = "working"]
    /\ IF written THEN row' = [row EXCEPT ![s.phone] = "running"] /\ UNCHANGED unshown
       ELSE unshown' = unshown \cup {s} /\ UNCHANGED row
    /\ UNCHANGED <<jobVars, claims, counts, latest, waiting, checked, overlapping, cutOff>>
ClaimsLead(s) ==
    /\ sessions[s] = "working" /\ ~ShouldStop(s) /\ waiting > 0
    /\ waiting' = waiting - 1
    /\ claims' = claims \cup {ClaimOf(s)}
    /\ sessions' = [sessions EXCEPT ![s] = "acting"]
    /\ UNCHANGED <<jobVars, counts, latest, row, unshown, checked, overlapping, cutOff>>
\* One message: verified, or failed in one of the ways the log tells apart.
\* The session counts it whether or not its claim still stands, and whether or
\* not the completion of the claim succeeds.
Acted(s, outcome, completed) ==
    /\ sessions[s] = "acting"
    /\ sessions' = [sessions EXCEPT ![s] = "working"]
    /\ claims' = IF completed THEN claims \ {ClaimOf(s)} ELSE claims
    /\ counts' = IF outcome = "ok" THEN [counts EXCEPT ![s].sent = @ + 1]
                 ELSE [counts EXCEPT ![s].failed = @ + 1]
    /\ latest' = [latest EXCEPT ![s.job] = outcome]
    /\ UNCHANGED <<jobVars, row, unshown, waiting, checked, overlapping, cutOff>>
\* run() ends: stopped, out of leads or at a limit; or a claim raises.  What
\* mark_finished leaves in the row depends on all that, on what it has read
\* there before, and on the write.
SessionEnds(s, how, status) ==
    /\ sessions[s] = "working"
    /\ status \in {row[s.phone], "idle", "spent", "offline"}
    /\ sessions' = [sessions EXCEPT ![s] = how]
    /\ row' = [row EXCEPT ![s.phone] = status]
    /\ unshown' = unshown \ {s}
    /\ UNCHANGED <<jobVars, claims, counts, latest, waiting, checked, overlapping, cutOff>>
\* A heartbeat, a health check, a keyboard check or a reset of the fuse writes
\* the row of a phone whoever is at work on it (devices.py).
DeviceRequest(p, status) ==
    /\ row[p] # status
    /\ row' = [row EXCEPT ![p] = status]
    /\ unshown' = unshown \cup {s \in SessionIds : s.phone = p /\ AtWork(s)}
    /\ UNCHANGED <<jobVars, sessions, claims, counts, latest, waiting, checked, overlapping, cutOff>>

\* cancel_job gives the job's claims back, then raises the flag.
CancelTakesBack(j) ==
    /\ jobs[j].status = "running" /\ jobs[j].cancel = "no"
    /\ jobs' = [jobs EXCEPT ![j].cancel = "released"]
    /\ waiting' = waiting + Cardinality({c \in claims : c.session.job = j})
    /\ claims' = {c \in claims : c.session.job # j}
    /\ UNCHANGED <<pc, targets, todo, sessions, counts, latest, row, unshown, checked,
                   overlapping, cutOff>>
CancelSetsFlag(j) ==
    /\ jobs[j].cancel = "released" /\ jobs[j].status = "running"
    /\ jobs' = [jobs EXCEPT ![j].cancel = "set", ![j].status = "cancelling"]
    /\ UNCHANGED <<pc, targets, todo, sessionVars, checked, overlapping, cutOff>>

JobStep(j) == \/ \E yes \in BOOLEAN : RunSenders(j, yes) \/ Connect(j, yes)
              \/ \E p \in Phones : DelaySession(j, p)
              \/ AllDelayed(j) \/ DelayFails(j) \/ AllJoined(j) \/ GraceOver(j)
              \/ DecidesEnd(j) \/ EndJob(j) \/ EndJobRefused(j)
SessionStep(s) == \/ \E status \in RowStatuses : SessionRefused(s, status)
                  \/ \E yes \in BOOLEAN : SessionStarts(s, yes)
                  \/ ClaimsLead(s)
                  \/ \E how \in {"ended", "died"}, status \in RowStatuses :
                        SessionEnds(s, how, status)
                  \/ \E outcome \in Outcomes, yes \in BOOLEAN : Acted(s, outcome, yes)
DispatchNext ==
    \/ \E r \in StartRequests, yes \in BOOLEAN : StartSendChecks(r, yes)
    \/ \E p \in Phones, status \in {"idle", "offline"} : DeviceRequest(p, status)
    \/ \E j \in SendJobs, devices \in DeviceChoices :
          TriggerSend(j, devices) \/ \E r \in StartRequests : StartSendCreates(r, j, devices)
    \/ \E j \in SendJobs : JobStep(j) \/ CancelTakesBack(j) \/ CancelSetsFlag(j)
    \/ \E s \in SessionIds : SessionStep(s)

DispatchSpec == DispatchInit /\ [][DispatchNext]_dvars
------------------------------------------------------------------------------
\* What jobs.py shows: _normalize_job_status for a send job, and its flags.
Normalized(j) ==
    LET status == jobs[j].status   sent == jobs[j].summary.sent IN
    CASE status \notin {"done", "failed"} -> status
      [] status = "done" /\ (sent > 0 \/ latest[j] = "ok") -> "sent"
      [] latest[j] = "blocked" /\ ~(status = "done" /\ (sent > 0 \/ latest[j] = "ok")) -> "restricted"
      [] latest[j] = "unconfirmed" /\ ~(status = "done" /\ sent > 0) -> "unconfirmed"
      [] status = "failed" /\ sent > 0 /\ jobs[j].summary.failed = 0 -> "sent"
      [] OTHER -> status
QuotaReleasedEarly(j) == jobs[j].status \notin {"new", "running"}
QuotaReleased(j) == Ended(jobs[j].status)

Retryable == {"failed", "cancelled", "restricted", "unconfirmed"}
\* The row has no summary before the job has ended.
Shown(j, count) == IF Ended(jobs[j].status) THEN count ELSE 0
JobPayload(j) ==
    [job_id |-> j, status |-> jobs[j].status, normalized_status |-> Normalized(j),
     sent_count |-> Shown(j, jobs[j].summary.sent),
     failed_count |-> Shown(j, jobs[j].summary.failed),
     can_cancel |-> Active(jobs[j].status), quota_released |-> QuotaReleased(j),
     can_retry |-> {jobs[j].status, Normalized(j)} \cap Retryable # {}]

\* The list of jobs: three filters select by the status shown, the others by
\* the status of the row.
AnyJob == "any"
ListJobs(filter) ==
    {JobPayload(j) : j \in {i \in SendJobs :
        /\ jobs[i].status # "new"
        /\ \/ filter = AnyJob
           \/ filter \in {"sent", "restricted", "unconfirmed"} /\ Normalized(i) = filter
           \/ filter \notin {"sent", "restricted", "unconfirmed"} /\ jobs[i].status = filter}}

\* dashboard/state: what the start page offers (less often, in fact: a running
\* collection withdraws the offer too).
DeviceMatrix == [available |-> {p \in Phones : row[p] = "idle"},
                 offline |-> {p \in Phones : row[p] = "offline"}]
DashboardState ==
    LET active == {JobPayload(j) : j \in {i \in SendJobs : Active(jobs[i].status)}}
    IN [device_matrix |-> DeviceMatrix, active_jobs |-> active,
        can_send |-> waiting > 0 /\ DeviceMatrix.available # {} /\ active = {}]

ByThreads(j) == \A s \in SessionsOf(j, "celery") : sessions[s] = "none"
MessagesOf(j) == CountedOf({s \in SessionIds : s.job = j}, "sent")

DispatchTypeOK ==
    /\ jobs \in [SendJobs -> [status : {"new", "running", "cancelling", "done", "failed", "cancelled"},
                              cancel : {"no", "released", "set"},
                              summary : [ok : BOOLEAN, sent : Nat, failed : Nat]]]
    /\ pc \in [SendJobs -> {"start", "connect", "celery", "join", "returned", "over"}
                          \cup EndStatuses]
    /\ targets \in [SendJobs -> SUBSET Phones]
    /\ \A j \in SendJobs : todo[j] \subseteq targets[j]
    /\ sessions \in [SessionIds -> {"none", "queued", "working", "acting", "ended", "died"}]
    /\ claims \subseteq [session : SessionIds, number : Nat]
    /\ \A c \in claims : c.number < Counted(c.session) \/ OnThePhone(c.session)
    /\ counts \in [SessionIds -> [sent : Nat, failed : Nat]]
    /\ latest \in [SendJobs -> {"none"} \cup Outcomes]
    /\ row \in [Phones -> RowStatuses]
    /\ unshown \subseteq {s \in SessionIds : AtWork(s)}
    /\ waiting \in 0..PoolSize
    /\ checked \in [StartRequests -> BOOLEAN]
    /\ overlapping \in BOOLEAN
    /\ cutOff \subseteq SendJobs

\* A job listed as sent has sent a message, and one that ran in threads to its
\* end reports exactly the messages of its phones: neither holds of the count
\* of a Celery job, which is always 0, nor of a job cut off by its grace period
\* or with a session that raised (core/task/worker.py:542, jobs.py:238).  A job
\* that is cancelled while it reports its "done" ends as failed and shows none
\* of its messages (server/workers.py:1119).
JobTellsItsMessages ==
    /\ \A shown \in ListJobs("sent") : MessagesOf(shown.job_id) > 0
    /\ \A shown \in ListJobs(AnyJob) :
          LET j == shown.job_id IN
          /\ Ended(shown.status) /\ ByThreads(j) /\ j \notin cutOff
          /\ \A s \in SessionIds : s.job = j => sessions[s] # "died"
          =>
            /\ \/ shown.sent_count = MessagesOf(j)
               \/ shown.status = "failed" /\ CancelRequested(j) /\ shown.sent_count = 0
            /\ shown.status = "done" /\ MessagesOf(j) > 0 => shown \in ListJobs("sent")

\* A job that jobs.py flags quota_released has nobody at work under a claim,
\* whatever was cancelled under which session: the only claims it still holds are
\* those of counted messages whose completion failed, which the worker does not
\* notice (scheduler.py:433, worker.py:338).  Celery sessions and threads that
\* outlive the grace period do hold claims under such a job (jobs.py:309).
ReleasedMeansNoClaim ==
    \A shown \in ListJobs(AnyJob) :
        LET j == shown.job_id IN
        shown.quota_released /\ ByThreads(j) /\ j \notin cutOff =>
            \A c \in claims : c.session.job = j => c.number < Counted(c.session)

\* Two sessions never work one phone at a time, and while the dashboard offers
\* to send nobody is at work on a phone it counts as available, as long as the
\* start check is not overtaken, Celery is not used and no more than one job
\* leaves threads behind: the phone of such a thread is still marked running,
\* and a later job leaves it alone (core/device/manager.py is_available).  That
\* is not so for a session whose mark was lost or overwritten by a request of
\* the device API while it was at work (devices.py:133, 300, 388).
SessionsAlone ==
    ~overlapping /\ Cardinality(cutOff) <= 1 /\ (\A j \in SendJobs : ByThreads(j)) =>
        /\ \A s, t \in SessionIds \ unshown :
              OnThePhone(s) /\ OnThePhone(t) /\ s.phone = t.phone => s = t
        /\ DashboardState.can_send =>
              \A s \in SessionIds \ unshown :
                  OnThePhone(s) => s.phone \notin DeviceMatrix.available

\* A cancelled job ends within the grace period even if its phones never
\* answer again (core/task/worker.py:538).
CancelledJobEnds ==
    \A j \in SendJobs : CancelRequested(j) ~> Ended(jobs[j].status)
=============================================================================
