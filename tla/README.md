# Verification of thunder-capture

thunder-capture collects comments of prospective customers ("leads"), queues
them, and has a matrix of Android phones send each of them one private message.
This directory holds TLA+ models of its sending and collecting sides and of the
services around them, the TLC runs that check them, and TLAPS proofs of every
invariant that a passing run checks. Paths such as `core/task/scheduler.py` are
relative to the repository.

## 1. The system

| Component | State | Operations | Talks to |
|---|---|---|---|
| Task scheduler, `core/task/scheduler.py` | `TaskQueue` rows (pending, claimed, done, failed; consumer, claim token), `IndustryDailyQuota` rows (sent, reserved), `ConsumerState` rows | `claim_for_device`, `commit_task`, `commit`, `release` | one instance per device worker, shared database |
| Device workers, `core/task/worker.py`, `runner.py`, `core/agent/executor.py` | a thread per phone: the claim, the session's summary | `run`: claim, reply, observe, execute, verify, report | scheduler, supervisor, the phone |
| Device supervisor, `core/device/supervisor.py`, `manager.py` | `Device` rows: runtime status, failures, cooldown | `preflight`, `mark_*`, `is_available` | workers, device API |
| Device API, `server/api/devices.py` | the same rows | heartbeat, health, prepare-keyboard, scan, reset-fuse | operator |
| Job registry, `server/workers.py`, `core/task/job_state.py` | `Job` rows and the process's `_jobs` cache | `_set_job`, `cancel_job`, `get_job_status`, the sweeps | API threads, workers, heartbeats, recovery loop |
| Claim release and retry, `server/workers.py`, `leads.py`, `industries.py` | the queue and the quota | `_release_claimed_tasks_for_job`, retry endpoints | cancel, sweeps, user |
| Risk manager and recovery policy, `core/strategy/risk.py`, `core/agent/recovery.py` | none | decide on a failure, on a screen | workers |
| Dispatch, `core/task/worker.py` (`run_senders`), `adapters/celery/send.py`, `server/api/jobs.py` | `Job` rows of send jobs, Celery's queue, the threads | start a job, hand its phones to Celery or to threads, join, time out, report | jobs API, device workers |
| Collection, `core/discover.py`, `adapters/mediacrawler/runner.py`, `core/classify.py`, `adapters/dify/client.py`, `run_collect_job` | the discovery's lists, JSONL files of the crawler's workspaces | crawl, retry, salvage, merge, classify, insert, push | crawler processes, language model, lead pool |
| Lead pool, `server/services/task_stats.py`, `analytics.py`, `server/api/leads.py`, `industries.py`, `stats.py` | `TaskQueue`, `Industry`, quota rows | enqueue, delete an industry, retry, mark, count, export, plan a replenishment | collection, scheduler, user |
| Reply variants, `server/services/abtest.py` | a JSON column of the industry | add, change, delete, choose, count results | device workers, user |
| Agent's step executor, `core/agent/direct_glm.py` | a plan's results | `execute_plan` | language model, phone |
| Rate limiter, `server/middleware.py` | times of requests, in memory or in Redis | `is_allowed` | every API request |
| Sending policies, `core/strategy/{policy,wave,throttle}.py` | none | send window, waves, throttle | `run_senders` |
| Proxies, agent memory, vision, phone driver, accounts, command line | see `PROJECT.json` | | |

What is hard here is that nothing is held across steps. A worker owns a lead
only through a token in a row which a cancellation, a sweep or a time-out may
take back at any time, while the phone carries on. Task and quota are written in
different transactions, on rows keyed by the current UTC day, and a cancellation
writes the reserved count as a number it read before. Every update of a
job goes cache, database, cache again without a lock held in between, from four
kinds of threads. The device row is written by sessions and by requests that read
it seconds earlier, and the supervisor swallows writes that fail. `PROJECT.json` lists these hazards line by line.

What makes each component correct:

* scheduler: one claimant per lead, no report on a lost claim takes effect, a
  done lead stays done, the quota is not exceeded;
* job registry: legal transitions only, a cancelled job is never "done",
  cancelling and orphaned jobs end;
* devices: a quarantined phone is not used, a phone is not left running, as long as
  the writes that say so are not lost;
* workers: a second message to a lead needs a requeue, cancelling drains a job;
* dispatch: one session per phone, a job reports the messages of its phones, a
  cancelled job ends even if a phone hangs;
* collection: what a crawl wrote and a parse read is not lost, each comment is
  credited to its source, judged as itself and queued once, the report adds up;
* lead pool: reservations match claims, figures computed by different queries
  agree, an export is whole, marks and timestamps agree;
* variants, plans, rate limits: every message counts for one variant, a plan
  that failed is not reported done, no client gets more than its limit.

## 2. Modules

| Module | Models | Checked by | Proved in |
|---|---|---|---|
| `ClaimLedger` | the abstract promise of a queue with claims | as `KeepsLedger` | `SchedulerProofs` |
| `MatrixScheduler` | `scheduler.py`, claim release, retry | `MCScheduler` | `SchedulerProofs`, `QuotaProofs` |
| `SendWorkers` (extends `MatrixScheduler`) | the worker loop, one message, cancellation | `MCWorkers` | `WorkProofs` |
| `JobRegistry` | `server/workers.py`, `job_state.py` | itself | `JobProofs` |
| `DeviceSessions` | supervisor, selection, device API | `MCDevices` | `DeviceProofs` |
| `Collection` | discovery and crawls | `MCCollect`, through `CollectJob` | `CollectProofs` |
| `CollectJob` (extends `Collection`) | the collect job: classification, insertion, report | `MCCollect` | `CollectProofs` |
| `Dispatch` | start of send jobs, `run_senders`, Celery, the list of jobs, the start page | `MCServices` | `ServiceProofs` |
| `LeadPool` | leads of an industry: deletion, statistics, export | `MCServices` | `ServiceProofs` |
| `LeadMarks` | replied / converted marks | `MCServices` | `ServiceProofs` |
| `ReplyVariants` | reply variants and their A/B results | `MCServices` | `ServiceProofs` |
| `PlanAgent` | the agent's step executor | `MCServices` | `ServiceProofs` |
| `RateLimiter` | the limiter of the middleware | `MCServices` | `ServiceProofs` |

### ClaimLedger and MatrixScheduler

The abstract ledger gives each lead a state and at most one holding claim. A
lead leaves a claim through the report of the claim's own worker or by being
revoked; claims are never reused.

In `MatrixScheduler` a lead is its queue position: `Candidates` keeps the
`ORDER BY id LIMIT`, with `CandidateLimit` for the 100. Columns that only
display something are left out; a token is the pair of the job and a counter
(the code draws a UUID), `stamp` is the day of `claimed_at`/`processed_at`,
`cooling` the leads whose `retry_after` is ahead, and the hourly window of a
phone is none, open or expired.

| Action | Code |
|---|---|
| `ClaimForDevice`, `RefuseClaim` | `claim_for_device`, one transaction: device limits, quota reservation, row; a refusal, or a rolled back claim, ends the worker's loop |
| `BeginCompletion`, `WriteCompletion`, `SettleQuota` | `commit_task` and the other completions: SELECT with the guard; UPDATE by id and commit; the second transaction of `commit()`/`release()` on today's quota row |
| `TransactionFails`, `WorkerCrashes` | a rolled back completion or settlement; the thread is gone |
| `ReleaseClaimedTasksForJob` | by token prefix, else by the job's phones, in one step; `owned = FALSE` is the sweep whose snapshot has no `user_id` |
| `BeginRelease`, `EndRelease` | the same as Postgres may run it: the rows are written and locked and the quota row is read; later the count that was read, less the rows, is written as a number and all of it committed |
| `RetryFailed`, `RetryAfterPasses`, `HourPasses`, `Midnight` | the retry endpoints and the clock |

`Faults` chooses what may happen: `crash`, `dberror`, `midnight` (the day may
end under a claim), `stale` (others may count on the quota row between a release's
SELECT of it and its UPDATE, `server/workers.py:97`-`112`; `overwritten` is the history
of the days on which they did) and `torn` (another session may commit between the
SELECT and the UPDATE of a completion). SQLite, the default database, runs a
write transaction at a time, which rules out `stale` and leaves `torn`, for the SELECT
of a completion is not part of it; `docker-compose.yml` runs Postgres, which allows
both. The runs take `stale` and check the rest of the scheduler without `torn`. With
`torn` in `Faults` TLC finds a release that commits inside a completion: `mark_task_done` checks status,
consumer and token in a SELECT, the UPDATE flushed at commit names the row by its
id alone, and the completion overwrites a lead that is pending or claimed by
another worker, against "Every completion/retry/release update must include the
same token and job guard" (the stabilization plan of `docs/superpowers`, line 459). Completions `retry` and `release` exist in the code without a
caller; they are modelled because they are part of the class. Since `mark_task_retry`
is the only code that sets `retry_after`, no lead is `cooling` today. Left out: a claim
made between the search by token that finds nothing and the fallback to the job's
phones, which is a transaction of its own; `mark_reply_variant`.

### SendWorkers

The phases of a worker follow `DeviceWorker.run`: `top`, `claiming`, `claimed`,
`observing`, `ready`, `acting`, `ran`, `reporting`, `over`. The screen a phone
shows and what the agent answers are arbitrary. `dms` counts the messages really
delivered to each lead: a message goes out, or not, in `AgentRuns`, and nothing
takes it back. `cancel_job` releases the claims (`CancelReleases`, at once or, with
`stale` in `Faults`, up to `CancelCommits`) and then raises the flag (`CancelMarks`),
in the order of the code. A cancellation that outlives its grace period is swept
(`CancelTimesOut`), which releases in the same ways. The day and the hour do not end here.

### JobRegistry

Every update is a `_set_job` call of a thread: `Merge` (copy the cached entry,
check), `Load` (read the row, check), `Persist` (write what differs from the row
as loaded) or `PersistFails` (logged and swallowed), `Publish` (put the snapshot
in the cache). The threads are the worker of each job, its heartbeat, clients
that ask for a status or cancel, and sweepers (recovery loop, `list_jobs`).
`Torn = FALSE` serialises `Load` to `Persist` per job; with `TRUE` TLC finds
`LegalTransitions` violated: a cancellation that commits between the check and
the UPDATE of `_persist_job` is overwritten by "done" (`server/workers.py:379`). `Restart` empties the
cache and ends all threads. Ages are `fresh`/`old` and `overdue`. Left out: the
pruning of the cache and a first write that fails, after which the job has no row.

### DeviceSessions

A session selects the phone, passes the cooldown gate and the health probe,
works, fails or succeeds, and cleans up in two steps, `FinishReads` and
`FinishWrites`. A request of the device API reads the row, asks the phone and
writes; like the UPDATE SQLAlchemy generates, it names the status only if it
changed it. `prepare-keyboard` and the scan share `_apply_keyboard_status`, which writes
idle or keyboard_error whoever is at work on the phone. With `WritesFail` any write of
the supervisor may be lost, for `_update_device` and the cooldown gate roll back and
swallow every exception (`Swallowed`, `Loses`), and the read of `mark_finished` may
raise out of `run()`; `lost` is the history of the lost writes somebody still relies on:
the quarantine of a phone until its fuse is reset, the last cleanup until another write
of the status. `barred` is a history variable: why nothing may be sent from this
phone now. An operator's request that changes the status, or the reset of the
fuse, lifts an isolation, for the operator has looked at the phone. `Overlap`
says whether a session may select a phone while another is on it. Both runs keep
it FALSE, as `/api/jobs/send/start` means to by refusing a second send job; where
two jobs do get through (the check and the creation of the job are two steps),
one session can isolate the phone another is sending from, and
`NoSendingWhileBarred` is not promised.

### Collection and CollectJob

`DiscoveryStep` walks over platforms, keyword batches and configured accounts in
the order of `run_discovery`. Each crawl is one process: `CrawlSucceeds`, `Retry`
(in a workspace of its own) or `CrawlFails`, which writes any part of what the
platform shows it. The comments of a batch come back through `Receive`;
`KeywordsDone` and `MergeSources` are the places where a cancellation decides what
is kept. A parse reads whatever files of the platform lie in the folder, those of
an earlier failed crawl included. `wrote` is a history of who wrote what and what
was read. `CollectJob` puts the job around it: `Classify` asks either backend chunk
by chunk, with any chunk failing, any answer for each position, and the index
arithmetic of `DirectLLMBackend` or `DifyClient`; `Enqueue` inserts, pushes and
sums up; `SetJob` is `_set_job` in one step (`JobRegistry` has its interleavings).
Texts, patterns and prompts are sets: which comments pass the prefilter, show
strong intent, have an address or a short id.

### Dispatch

The thread of a job (`JobStep`): look at the policies once, select idle phones,
then Celery (`DelaySession` for each phone; `DelayFails` falls back to threads
for all of them) or threads, which are joined until all are over or the grace
period of a cancellation ends (`GraceOver`). Sessions (`SessionStep`) claim, act
and count; a completion that fails leaves the claim with a session that has gone on
(`Acted` with `completed` FALSE), so a claim is a record of the session and the number
of its message. `_send` looks at the flag (`DecidesEnd`) and writes the status
later: `EndJob`, or `EndJobRefused` when a cancellation came in between and the row
refuses "done". The row of a phone is written by sessions, whose `mark_started` may be
lost, and by the device API whoever is at work (`DeviceRequest`); `unshown` is the
history of the sessions whose "running" is therefore not in the row. The two endpoints that start a job differ: `StartSendChecks` and
`StartSendCreates` are two steps, `TriggerSend` checks less. `JobPayload`,
`ListJobs` and `DashboardState` are what the API shows of it, and the properties
are stated over these. Lost writes of a job's row, restarts and the sweeps, which settle
a cancellation only after two minutes while threads are waited for 20 seconds, are
`JobRegistry`'s and not modelled again.

### LeadPool and LeadMarks

`LeadPool` has two owners with an industry of the same name. An industry is
deleted under its senders and collected again; the reports of the senders find
their row or not (`RowFound`). A report is two transactions, `Completes` on the row and
`Settles` on the quota of the day it runs in; either may be lost (`ClaimLost`,
`SettlementLost`), a crash between them included, and the day may end between them
(`NewDay`). `TakeBack` is a cancellation or a sweep, the latter perhaps without the
owner. Three histories name what the quota row then misses: `orphans` (claims of the day
deleted with their industry), `leaked` (a reservation that nobody will give back today)
and `crossed` (a claim of an earlier day settled on this day's row). A completion that
races a release, and a release with a stale count, are `MatrixScheduler`'s. `IndustryStats`, `IndustryFunnel`, `Effects`,
`EffectsOfDevice` count the same rows in the ways the queries do; `last` is the
row of the two that share the bucket "unknown" which the database returns last. The
pages show the largest 20 keywords, or as many as were asked for; the model, with at
most four, shows all.
The export is a count and a stream with a new query.

`LeadMarks` splits each mark endpoint into load and commit, and the commit writes
only the columns whose value differs from the loaded one, as SQLAlchemy does.

### ReplyVariants, PlanAgent, RateLimiter

`ReplyVariants`: requests load the list, make a new one and write it whole; a job
sends with the list it was started with. `PlanAgent`: one action per way through
the loop of `execute_plan`; `howStepEnded` is a history, because the code's
`step_results` miss the steps that were abandoned or ran out of attempts. Nothing
in the repository calls `DirectGLMAgent` yet. `RateLimiter`: one action per
backend, and a deque of times is the number of requests at each time; the limiters of the three kinds of route share nothing in memory and one
key per client in Redis. A request whose Redis call fails is neither admitted nor
counted, and is no step here. The clocks of API processes may be ahead of Redis's by
`MaxSkew`.

## 3. Runs

| Run | Instance | Result |
|---|---|---|
| `scheduler_claims` | 2 leads, 2 workers of 2 jobs sharing a phone, crash, failed transaction, stale release, day change at any time | passes |
| `scheduler_limits` | 3 leads, limits on industry, phone and hour, phones of their own, failed transaction, stale release | passes |
| `scheduler_midnight` | the day ends under a claim | `SendsWithinLimit` violated |
| `scheduler_release` | 3 leads, a limit of 2, a release that works on a stale count | `ZeroQuotaViolations` violated |
| `jobs_control` | heartbeats, clients, sweeper, one restart, one failed write | passes |
| `jobs_poisoned` | two running jobs, a restart, a failed write | `OrphansOfRestartEnd` violated |
| `devices_sessions` | two sessions, a request, a crash and lost writes at any point | passes |
| `devices_reopened` | one session and one request | `CleanupKeepsQuarantine` violated |
| `workers_send` | one lead, workers of two jobs, one retry, one mishap, stale releases | passes |
| `workers_duplicate` | the same without mishaps | `ZeroDuplicateSends` violated |
| `collect_job` | two platforms, two keyword batches and the accounts on the first, three comments, one retry, chunks of two, both backends | passes |
| `services` | six services, one at a time (`focus`): see below | passes |

The exact constants are in the `.cfg` files. The bounds and why they are enough:

* Two workers and two jobs are what a race needs: one has the claim, the other
  gets it. Two leads let both be busy while a release takes back both; the third
  of `scheduler_limits` is the one too many for the daily limit and is cut off by
  `LIMIT`.
* `MaxClaims` bounds the number of claims, and so how often a lead can go round;
  a lead can be claimed, released, claimed again by the same phone and
  completed late within it. The theorems hold without a bound.
* `LastDay = 2`: a settlement is at most one day late in any pattern that matters.
* `MaxRestarts`, `MaxErrors`, `MaxRetries`, `MaxMishaps`: one each (two jobs'
  worth of effects can follow from one). `scheduler_limits` has no crash: one leaves the
  rows as a failed transaction leaves them, and a worker less.
* `MaxFailures = 2` stands for the fuse of 5; the code only compares with it.
* `collect_job`: the second platform has no accounts and one comment; a comment
  seen by a keyword and by the accounts, one that an earlier collection queued,
  one without a short id and one without an address are among the three, and
  `CollectTarget = 2` lets the first batch end the keywords. Deadlock is checked.
* `services`: the six share no variable, so one at a time loses nothing. Dispatch
  has two jobs, two phones and one lead. With both phones online there is one job, Celery
  takes the session of the first phone only and no write is lost; with one phone
  there are two jobs without Celery, and while they do not overlap completions
  fail or marks get lost (one kind at a time) and the device API makes phones idle
  (`MCDispatchNext`): the races are between two sessions of one phone, and between
  a job and its own sessions. The pool has two leads of one owner and one of
  another who only fills the queue, limits of 2 sends and 1 exported row. One lead is
  marked replied or converted, the export is of the leads that are done or of all, a
  day is over when it leaves a claim or a settlement to the next and goes wrong in one
  of two ways (`leaked`, `crossed`), and then nothing else goes on than claims, reports,
  sweeps and deletions (`MCPoolNext`). Two
  requests mark two leads; three requests edit up to two variants; a plan has
  three steps of two attempts; two clients, one of them on both kinds of route,
  limits of 1 and 2 requests in 2 ticks, a cleanup after 3 and room for one client,
  so that the limiter forgets.
* Deadlock is not checked in the other runs: workers stop when there is nothing
  left to send, jobs end, and clocks reach their bound.

What the violations mean is in `PROJECT.json` under `findings`: a claim settled
on the wrong day, a release that writes an old reserved count over a newer claim, a
poisoned job that stops every later sweep from reaching the orphan of a restart, a
phone reopened by its own cleanup, and a message sent twice after a cancellation. In
each case a plan, a comment or a test of the repository promises otherwise.

The type invariants of the scheduler, the workers, the registry, the phones and the
collection are theorems (section 5), and the runs leave them out; `ServicesTypeOK` is
checked as well, as a safeguard for the composition.

Properties worth knowing about:

* `QuotaWithinLimit` holds even across midnight and crashes, for it speaks of the
  row. `SendsWithinLimit` counts the leads recorded as done on a day and holds
  only if no claim is settled on another day's row. Both excuse the days in
  `overwritten`, on which a release wrote the reserved count it had read back over what
  others had counted since; `scheduler_release` shows what then happens.
* `NoSendingWhileBarred` and `RunningHasSession` excuse a phone whose quarantine, or
  whose last cleanup, the database refused: the supervisor logs and goes on
  (`supervisor.py:302`), so the phone sends though it was to be isolated, or stays "running"
  for good. Every other way out of `run()` gives the phone back.
* `RepeatsAccountedFor`: messages beyond the first to a lead are at most as many
  as the times the lead was queued again. Workers alone never send twice.
* `ClaimLostOnlyToCancellation` needs phones of their own for the two jobs: by
  the fallback of `_release_claimed_tasks_for_job` cancelling a job releases the
  claims of others on its phones.
* `OneMessageAfterCancel` and `CancellationDrains` say what a cancellation does
  achieve: each worker sends at most the message it was busy with, then stops,
  and no lead stays claimed. `CancelledWorkersRunOut` says it without fairness: once
  the flag is up every step of a worker lowers `StepsToOver`, and no step of
  another raises it. `NoClaimLeftBehind` is the wider promise: without a crash or a
  failed transaction every claimed lead has a worker whose report will be accepted.
* `NoTaskMeansNoneReady`: the candidate query is cut off at 100 rows before those
  with a future `retry_after` are dropped (`scheduler.py:125`). So a worker may be
  told that there is no task while one is ready, but only if that many are waiting;
  finished and failed leads never hide one. Nothing sets `retry_after` today, so
  the property speaks of the class, not of what the program does with it.
* `PlanErrsByOthersLeads`: the plan on the funnel page counts the leads of every
  owner of the name (`industries.py:1114`). It may therefore withhold a collection,
  through another owner's waiting leads only, and never asks for one too many.
* `CollectionRunsOut`: every step of a collection lowers `StepsLeft`, the product of
  platforms, batches and attempts that are left. A retry that did not count, or a
  platform crawled anew after a failure, would raise it.
* `MisjudgedOnlyByDifyChunks` is what is left of "TARGET comments only"
  (`client.py:121`, `OnlyTargetsPass`): the direct backend adds the start of the chunk,
  and Dify is right with a single chunk. With more, its client applies the answers about
  later chunks to comments of the first (`client.py:283`); TLC finds `OnlyTargetsPass`
  violated in the instance of `collect_job` with Dify.
* `AccountsCreditedRightly` excuses collections with a failed crawl: the files it
  leaves are read, and credited to its own source, by the next crawl of the folder.
* `SessionsAlone` needs its premises: once jobs overlap, or Celery is used, TLC
  finds two sessions on one phone. So it does when the row of a phone does not show who
  is at work, because the mark was lost or a heartbeat, a keyboard check or the reset of
  the fuse wrote over it (`unshown`): the next job then takes the phone of a thread that
  outlived its job. Its second half is about the start page: while it offers
  to send, no phone it counts as available is in use.
* `JobTellsItsMessages` and `ReleasedMeansNoClaim` name what they excuse: Celery
  jobs, which are "done" with a count of 0 when their sessions have been queued,
  threads that outlive the grace period, and sessions that raised. A job that is
  cancelled just before it reports its "done" is refused it and ends as failed, with no
  message shown whatever it sent (`server/workers.py:1119`). And a claim stays
  under a released job if its completion failed, for the worker counts the message and
  goes on; the property says that these are the only ones.
* `ReservedAccountedFor`: the reservations of a day are those of the claims that stand,
  of the reports not settled yet and of the claims deleted with their industry. There are
  more of them after a settlement that failed or was cut off by a crash, or a sweep that
  did not know the owner, and fewer after a claim of an earlier day was settled or
  released on this one; the property names these causes, and says that there is no other.
* `FunnelAddsUp` excuses keyword tables in which creators and leads without a
  source overwrite each other (`task_stats.py:298`), and speaks of pages with room for
  all keywords.
* `WindowLimits` states what holds of each backend. In Redis the requests on all
  kinds of route count together, so a client with 20 general requests is refused a
  login; the docstring at `server/middleware.py:148` reads as separate limits.

Other disagreements of code and documents, or surprises, met while modelling and
kept in the models as they are: a failing Dify gives no leads and no fallback
(`core/classify.py:316`); the output of a successful retry of a crawl is never
parsed, since the parse reads the first workspace (`runner.py:382`, `660`);
`run_collect_job` with `skip_discover` finds nothing to classify; a cancelled
collection still queues what it was classifying; a deleted industry can still
collect and send, and its slug cannot be used again; the replenishment endpoints
count the leads of every owner of the name; the step executor reports "done" for
steps that ran out of attempts without an error. Not in the models: `commit()` and
`release()` leave a transaction open when the UPDATE hits no row
(`scheduler.py:376`), and on a chat screen the text of a message counts as evidence
even if it still stands in the input field (`send_verifier.py:48`).

## 4. Fairness

* `workers_send`: weak fairness of each worker's loop, of the commit of a release
  and of the second half of `cancel_job`. A worker is a thread that never blocks for ever: observations
  are retried a bounded number of times and the agent has a step limit and a
  watcher of the cancel flag.
* `jobs_control`, `jobs_poisoned`: threads inside a `_set_job` call finish it,
  heartbeats tick, ages grow, cancel requests get to their end, and the recovery
  loop keeps running. The fairness is strong where a step waits for the gap
  between two statements of another thread. A worker is not assumed to end.

* `collect_job`: weak fairness of the job's own steps. A crawl ends, for
  `asyncio.wait_for` kills it, calls to the classifier time out, and retries are
  counted. `CollectionEnds` holds without a cancellation or with one.
* `services`: weak fairness of each job's thread only; sessions, Celery and users
  owe nothing. `CancelledJobEnds` therefore covers phones that hang for ever: the
  loop of `run_senders` polls the threads and leaves after the grace period.

## 5. Proofs

Every theorem holds for any sets of leads, workers, jobs, phones, owners and
requests, any limits and any number of steps, from the named assumptions on the
constants of its module. What else a theorem assumes is in its statement and
below: it is always a case in which a run finds, or the code allows, a different
outcome. The candidates for inductive invariants were tried with TLC on the
instances of the runs before they were proved.

### The scheduler and its ledger

* `TypeCorrect`: `TypeOK` is inductive.
* `TokensNameOneClaim`: `ClaimsConsistent`, which is inductive with `TypeOK`: a
  token carries the number of its claim, numbers only grow, so two claimed rows
  or two busy workers never share one. It is the strengthening the others need;
  the conjunct that a worker about to write still holds its row is stated for
  runs without torn completions. `ReleasesConsistent`, its other half, says that what an
  open release will put back is still claimed, and locked by this release alone.
* `ClaimExclusive`: `OneClaimant` follows, because two workers whose token equals
  the token of the same row would share a token.
* `QuotaBound`: `QuotaWithinLimit` is inductive with `TypeOK`: only a claim adds
  to sent + reserved, under the guard of the conditional UPDATE; a settlement
  moves one from reserved to sent only when one is reserved; a release in two steps
  either finds the count it has read, and lowers it, or its day becomes one of those
  excused.
* `SendsBound`: `SendsWithinLimit` of the days that are not `overwritten`, assuming that the day does not end under a
  claim and no completion is torn (`scheduler_midnight` shows the former is
  needed). `QuotaWithinLimit` bounds the row, not the messages; the step from one to
  the other is `QuotaInv`: the row of a day covers the leads done on it and, today,
  the claimed leads and the settlements that will refund. Each completion turns
  a claimed lead into one of the other two; a cancellation takes back no more
  than the rows it releases had reserved; a failed or missing settlement only
  leaves the row too high.
* `DeviceBound`: `DeviceWithinLimits`, without torn completions. The counters of
  a phone bound the rows that carry their date (`CountsFit`), and a worker that
  holds a claim of an exclusively used phone has found room that nobody takes
  away (`RoomLeft`): counters only fall until its own completion, midnight included.
* `SchedulerKeepsLedger`: assuming no torn completion, every step of the
  scheduler is a step of the ledger or a stutter, one lemma per kind of action.
* `NoTaskHonest`: `NoTaskMeansNoneReady`. `OldestReady` is about the order of
  the queue: if the oldest pending leads include none that is ready, there are `CandidateLimit`
  waiting ones before any that is. `Sums` provides the least of a set of numbers.

### The workers' loops

`WorkProofs` builds on the above: `WorkImplementsScheduler` shows that a step of
the loops is a step of the scheduler or a worker that stops before it claims, so
the scheduler's invariants hold here. Their steps are lemmas of one action and one state
(`StepQuotaInv`, `StepDeviceInv`), which is why both specifications can use them.

* `WorkersKeepLedger`, `WorkersKeepClaimsAndQuota`, `WorkersKeepLimits`: the ledger, the
  claims, the quota and the limits of phones, now of the workers' loops with their
  cancellations and retries, under the conditions of the theorems above, with
  overwritten days excepted.
* `WorkTypeCorrect`: `WorkTypeOK`, with the fact that a worker at the top of its
  loop has no claim and one at its phone holds one.
* `OneLateMessage`: `OneMessageAfterCancel`. A worker that has sent after the flag
  was set is past its phone (`LateFits`), and looks at the flag before it claims again.
* `RepeatsPaidByQueueings`: `RepeatsAccountedFor`. The invariant is a budget
  (`Budget`): messages sent, workers that may still send one and the place in the
  queue never exceed the first queueing and the later ones.
* `ClaimsKeptUntilCancelled`: `ClaimLostOnlyToCancellation`, if no completion is
  torn and no phone works for two jobs (`OwnPhones`, the case of every run of
  `SendWorkers`). Both are needed: a release falls back to the job's phones, and a
  torn completion overwrites a row by its id. An open release holds rows of a job
  that is being cancelled, and of no other (`ReleaseFits`).
* `EveryClaimHeld`: `NoClaimLeftBehind`. A claimed lead carries the token of a worker
  that is engaged, not over, and holds it (`HeldInv`); a worker leaves its loop without
  a claim (`OverFits`). Nothing is assumed of torn completions or shared phones.
* `WorkersOverDrained` and `CancelledWorkersFinish` are what can be proved of
  `CancellationDrains`: where a job's workers are over nothing is left claimed by it,
  and once the flag is up a worker has at most `ObserveRetries` + 10 steps to get there,
  each of which brings it nearer. That it takes them is the fairness of the run.

### The job registry

* `JobTypes`: `TypeOK`, torn writes included.
* `RowsMoveLegally` and `CancelledStaysUndone`: `LegalTransitions` and
  `CancelledNeverDone`, when `Torn` is FALSE (section 2 has the
  counterexample with torn writes). The check and the write of `_persist_job`
  then see the same row, because what a call has loaded is still in the row
  (`LoadedFits`) and no other thread is between load and write of that row
  (`LoadedAlone`); the cache, which a restart empties and a failing write leaves
  behind, never holds a cancel request next to "running" or "done" (`CacheFits`).

### Phones

* `SessionTypes` and `RunningIsGivenBack`: `TypeOK` and `RunningHasSession`,
  overlapping sessions included: only the probe of a session marks a phone
  running, and a session that ends without a crash has written another status, or is the
  one whose cleanup was lost and not made good by a later write.
* `NothingSentWhileBarred`: `NoSendingWhileBarred`, when sessions on one phone
  follow one another (`Overlap` is FALSE). What bars a phone is visible in its row
  (`BarShows`), and a session that goes on has seen none of it (`BarFits`); either may
  fail once the write of a quarantine was lost, until the fuse is reset.

### The services

`MCServices` runs six services side by side. Each is proved about alone (`LeadMarksSpec`,
`PlanSpec`, `LeadPoolSpec`, `DispatchSpec`, `VariantsSpec`, `LimiterSpec`, with the whole
next-state relation instead of the ones bounded in `MCServices`), and then together:

* `EachServiceRuns`: `MCServicesSpec` implements each of the six specifications. A
  step of one leaves the variables of the others alone, and the bounds only remove steps.
* `ServicesTypes` and `ServicesSafe`: so `ServicesTypeOK` and all invariants below hold
  of the composition.
* `MarksAgree`: `MarksTellOneStory`. A request in flight has loaded the row as it
  still is unless another one handled the lead meanwhile (`MarkFits`); the
  columns it does not write are then those it reasons about, and the reply of a lead
  is never taken back.
* `ReportHonest`: `PlanReportHonest`. The results there are belong to steps that
  ended so, in order (`StepsInOrder`, `ResultsTell`).
* `FiguresHold`: `ReservedAccountedFor`. Per owner the reservations are compared with the
  claims of the day that stand, its unsettled reports and its deleted claims
  (`AccountedToday`), and the sends with the leads messaged today; each step moves both
  sides alike or adds the owner to `leaked` or `crossed` (`Accounts`). The type invariant
  bounds the row by the limit, across new days (`PoolTypes`).
* `PartsAddUp`: `FunnelAddsUp`. Every recent lead has one source type, one keyword and,
  once it was sent, one sender (`SentBySomeone`); the parts a key tells apart add up to
  the whole (`SumParts`).
* `PlanCautious`: `PlanErrsByOthersLeads`. The leads waiting for an owner are among those
  the page counts, and equal them if nobody else's are waiting; the advice only falls
  with their number.
* `ExportWhole`: `ExportComplete`. Between count and stream the filter only loses
  leads, unless one is seen to enter (`ExportFits`).
* `ReleasedHolds`: `ReleasedMeansNoClaim`. Where the thread of a job is tells
  whether its sessions are there (`JobFits`): none before the threads start, none
  alive after they were joined. A claim is that of the message a session is busy with, or
  of one it has counted before (`ClaimFits`), and only a session alive has the former.
* `PhonesNotShared`: `SessionsAlone`. The property is about jobs that run one by
  one, and so is the invariant: a phone on which an ended job has left a thread is
  still marked running, no other session is alive on it, and no job that is about
  to start has it among its phones (`PhoneFits`, for the sessions that are not `unshown`). It needs that the other leftover
  threads are the same job's, which is why the property allows one cut off job only.
* `DispatchTypes` and `JobsTell`: `DispatchTypeOK`, `JobTellsItsMessages`. A job that
  is over and whose sessions all ran in threads and were joined reports the sum of their
  messages, unless it was refused its "done" (`ReportLost`), and one whose last outcome
  or report is a success has sent one (`SummaryFits`); a job that Celery took has sessions there (`PlaceFits`); leads
  are waiting or claimed (`LeadsFit`).
* `OneRowEach`: `MessagesInOneRow`. What jobs work with and messages were written with
  is on the list, was taken off it, or an older list was written over it (`Accounted`).
  Every list in flight has each id once, and one about to be added is on none of them
  (`RequestFits`).
* `WindowsHold`: `WindowLimits`, for any limits, window and skew. A bucket in memory is
  what was let through at each time of the window, or less once the limiter has
  forgotten (`TellsRoute`). A bucket in Redis is no such thing, since processes write
  the times of their own clocks: what it holds since a time is at least what was let
  through since then, as far as every clock agrees that this is in the window, and at
  most what was let through since `MaxSkew` earlier (`TellsClient`). These two
  inequalities are what the slack in `WindowLimits` comes from. An expired key keeps
  them (`ExpiredTells`).

### The collection

`CollectProofs` is about `CollectJobSpec` with any comments, platforms, keyword
batches, accounts, chunk size and number of retries. One invariant, `CollectInv`, carries
all of it.

* `CollectTypes`: `CollectJobTypeOK`, with where `plat` points while a platform is in
  hand and that the accounts come last (`DiscoveryTypes`).
* `ReadStaysFound`: `ReadCommentsKept`. What was parsed is merged, or in one of the two
  lists in hand (`ReadKept`).
* `CreditHolds`: `AccountsCreditedRightly`. Until a crawl fails a workspace is empty
  between two crawls, so what is in hand was written by a crawl of its own source
  (`Credits`).
* `OnlyChunksMisjudge`: `MisjudgedOnlyByDifyChunks`. The positions of an answer are those
  of the candidates when there is one chunk, or when the backend adds the offset.
* `ReportHolds`: `ReportAddsUp`. `ReportFits` relates the report to what was added at
  every place of the job, the exception path included. The sums are over the comments:
  what is enqueued, a duplicate or without an address makes up what passed.
* `LeadsOnce` and `PushedAreQueued`: `OneLeadPerComment`, `ExportedAreQueued`.
* `CollectionFinishes`: `CollectionRunsOut`, and that `StepsLeft` is never negative.
  Together they bound the length of a collection; `CollectionEnds` adds that its steps
  are taken. The proof evaluates `StepsLeft` at each place of the discovery
  (`DiscoveryCases`) from the shares a platform and a batch have (`PlatformsLeft`,
  `BatchesLeft`), the only multiplications in it.

`Sums` has the lemmas on sums over finite sets: the library's fold takes elements in
an unspecified order, and the sum of integers does not depend on it (`SumRemove`).
The library's induction theorems cannot be instantiated by the provers here;
`SubsetInduction` states the induction over the subsets of a finite set with a set of good subsets
instead of a predicate, and every fact about a sum follows from it.

### Only model-checked

The five liveness properties, `CancellationEnds`, `OrphansEndIfWritesSucceed`,
`CancellationDrains`, `CollectionEnds` and `CancelledJobEnds`: a proof would need
ENABLED of the fair actions, which is out of the prover's reach. For
`CancellationDrains` and `CollectionEnds` the part without fairness is proved, a number
of steps left that falls to zero (`CancelledWorkersFinish`, `WorkersOverDrained`,
`CollectionFinishes`); for the other three there is no such number, because sweeps,
heartbeats and the polls of a job may take any number of steps in between. Every
invariant and every other action property of a passing run is proved.

## 6. Not modelled, and the plan

Not modelled because there is no state or no concurrency of interest, or because
it is an external service: vision and perception, the phone driver, the agent's
memory (a log), accounts, configuration, the vendored crawler, the execution
monitor, registration and remote control of phones, the task router (a pure
function). `core/checkpoint.py`, `ProxyRotator`, `SendPolicyGate`, waves and
throttle have no caller outside the tests, and `_maybe_auto_replenish` waits for a
flag nothing sets. Celery's redelivery of a session whose worker crashed is not
modelled: it would start `DeviceWorker.run` anew, whose claims are those of any
other session.

Next: the composition of `JobRegistry` and `SendWorkers`, with one cancel flag for
both and the cache that may lose it.
