--------------------------- MODULE MatrixScheduler ---------------------------
(***************************************************************************)
(* The send queue of one industry as core/task/scheduler.py drives it:     *)
(* device workers claim leads, reserve and settle the industry's daily     *)
(* quota and keep the per-device send counters, while the job control of   *)
(* server/workers.py takes claims back and the API queues failed leads     *)
(* again.  One step is one database transaction, or one read that a later  *)
(* transaction relies on.                                                  *)
(***************************************************************************)
EXTENDS Naturals, FiniteSets

CONSTANTS Leads,             \* TaskQueue.id of the industry's rows
          Workers,           \* device worker threads
          Jobs, JobOf,       \* the send job each worker belongs to
          Devices, DeviceOf, \* the device each worker drives
          GlobalDailyLimit, DailySendMax,  \* industry limits, 0 = unlimited
          DeviceDailyLimit, \* by device, 0 = unlimited
          HourlyLimit,       \* of every device of the industry, 0 = unlimited
          CandidateLimit,    \* the LIMIT of the candidate query (100)
          LastDay,           \* bound: days the model runs for
          MaxClaims,         \* bound: claims ever issued
          Faults             \* what may go wrong, see the ASSUME

ASSUME SchedulerAssumption ==
    /\ Leads \subseteq Nat \ {0} /\ IsFiniteSet(Leads)
    /\ IsFiniteSet(Workers)
    /\ JobOf \in [Workers -> Jobs]
    /\ DeviceOf \in [Workers -> Devices]
    /\ GlobalDailyLimit \in Nat /\ DailySendMax \in Nat
    /\ DeviceDailyLimit \in [Devices -> Nat] /\ HourlyLimit \in Nat
    /\ CandidateLimit \in Nat /\ LastDay \in Nat \ {0} /\ MaxClaims \in Nat
    \* midnight: the UTC day may change while claims are in flight
    \* torn: another session may write a row between the SELECT and the
    \*       UPDATE of a completion;  crash: a worker may die at any point
    \* dberror: a completion's transaction may fail and be rolled back
    \* stale: others may write the quota row between a release's SELECT of it
    \*        and its UPDATE (Postgres; SQLite has one writer at a time)
    /\ Faults \subseteq {"midnight", "torn", "crash", "dberror", "stale"}

VARIABLES
    status, consumer_id, claim_token, stamp, cooling,  \* TaskQueue columns
    sent, reserved,          \* IndustryDailyQuota, by day
    device,                  \* ConsumerState, by device
    today,                   \* the UTC day
    issued,                  \* claims issued so far
    pc,                      \* what each worker is doing
    claim,                   \* the ClaimedTask each worker holds in memory
    writing,                 \* what its open completion is about to write
    freeing,                 \* the release of each job that has not committed
    overwritten              \* history: days whose quota row such a release
                             \* wrote back over what was counted meanwhile

rowVars == <<status, consumer_id, claim_token, stamp, cooling>>
quotaVars == <<sent, reserved>>
workerVars == <<pc, claim, writing>>
releaseVars == <<freeing, overwritten>>
vars == <<status, consumer_id, claim_token, stamp, cooling, sent, reserved,
          device, today, issued, pc, claim, writing, freeing, overwritten>>
------------------------------------------------------------------------------
Days == 1..LastDay
Tokens == Jobs \X (1..MaxClaims)    \* job_id:uuid, the uuid as a serial number
NoToken == <<>>
NoDevice == "none"
NoClaim == [lead |-> 0, token |-> NoToken]
Verdicts == {"done", "failed", "retry", "release"}
NoWrite == [verdict |-> "failed", day |-> 1, daily |-> 0, wave |-> 0, opens |-> FALSE]
NoRelease == [rows |-> {}, day |-> 1, read |-> 0]

\* min of the positive limits, 0 when neither is set
PositiveLimits == {n \in {GlobalDailyLimit, DailySendMax} : n > 0}
EffectiveLimit ==
    IF PositiveLimits = {} THEN 0
    ELSE CHOOSE n \in PositiveLimits : \A m \in PositiveLimits : n <= m
QuotaOn == EffectiveLimit > 0

\* Variants named after the slip they make stand before the definition they
\* vary; the runs check that TLC notices each of them.
PendingOrClaimed == {l \in Leads : status[l] \in {"pending", "claimed"}}
Pending == {l \in Leads : status[l] = "pending"}
Claimed == {l \in Leads : status[l] = "claimed"}

\* Rows an open release has written and holds locked until it commits.
LockedBy(j) == freeing[j].rows
Locked == UNION {LockedBy(j) : j \in Jobs}

\* The rows the candidate query returns, and those of them past retry_after.
CandidatesAmongAll == {l \in Pending : Cardinality({k \in Leads : k < l}) < CandidateLimit}
Candidates == {l \in Pending : Cardinality({k \in Pending : k < l}) < CandidateLimit}
ReadyCandidates == Candidates \ cooling

DeviceDailyReachedLate(d) ==
    /\ DeviceDailyLimit[d] > 0
    /\ device[d].date = today
    /\ device[d].daily > DeviceDailyLimit[d]

DeviceDailyReached(d) ==
    /\ DeviceDailyLimit[d] > 0
    /\ device[d].date = today
    /\ device[d].daily >= DeviceDailyLimit[d]

DeviceHourlyReached(d) ==
    /\ HourlyLimit > 0
    /\ device[d].window = "open"
    /\ device[d].wave >= HourlyLimit

\* A window that has run out is reset and committed even if the claim fails;
\* one never started is reset only by a claim that goes through.
WindowReset(r) == [r EXCEPT !.wave = 0, !.window = "none"]
AfterRefusal(r) ==
    IF HourlyLimit > 0 /\ r.window = "expired" THEN WindowReset(r) ELSE r
AfterClaim(r) ==
    IF HourlyLimit > 0 /\ r.window # "open" THEN WindowReset(r) ELSE r

QuotaFreeOffByOne == QuotaOn => sent[today] + reserved[today] <= EffectiveLimit
QuotaFree == QuotaOn => sent[today] + reserved[today] < EffectiveLimit

\* The reason claim_for_device gives for refusing, in the order it checks, or "granted".
Refusal(w) ==
    CASE DeviceDailyReached(DeviceOf[w]) -> "device_daily_limit_reached"
      [] ~DeviceDailyReached(DeviceOf[w]) /\ DeviceHourlyReached(DeviceOf[w])
           -> "device_hourly_limit_reached"
      [] ~DeviceDailyReached(DeviceOf[w]) /\ ~DeviceHourlyReached(DeviceOf[w])
           /\ ~QuotaFree
           -> IF GlobalDailyLimit = EffectiveLimit THEN "global_daily_limit"
              ELSE "industry_daily_limit_reached"
      [] OTHER -> IF ReadyCandidates = {} THEN "no_task" ELSE "granted"

StillMineWithoutToken(w) ==
    LET l == claim[w].lead IN
    /\ l \in Leads /\ status[l] = "claimed"
    /\ consumer_id[l] = DeviceOf[w]

\* The row a completion updates is the one this worker claimed, and still is.
StillMine(w) ==
    LET l == claim[w].lead IN
    /\ l \in Leads /\ status[l] = "claimed"
    /\ consumer_id[l] = DeviceOf[w]
    /\ claim_token[l] = claim[w].token
------------------------------------------------------------------------------
Init ==
    /\ status = [l \in Leads |-> "pending"]
    /\ consumer_id = [l \in Leads |-> NoDevice]
    /\ claim_token = [l \in Leads |-> NoToken]
    /\ stamp = [l \in Leads |-> 0]
    /\ cooling = {}
    /\ sent = [d \in Days |-> 0]
    /\ reserved = [d \in Days |-> 0]
    /\ device = [d \in Devices |-> [date |-> 0, daily |-> 0, wave |-> 0, window |-> "none"]]
    /\ today = 1
    /\ issued = 0
    /\ pc = [w \in Workers |-> "idle"]
    /\ claim = [w \in Workers |-> NoClaim]
    /\ writing = [w \in Workers |-> NoWrite]
    /\ freeing = [j \in Jobs |-> NoRelease]
    /\ overwritten = {}

\* Quota reservation and row claim are one transaction: both or neither.
ClaimForDevice(w) ==
    /\ pc[w] = "idle"
    /\ Refusal(w) = "granted"
    /\ issued < MaxClaims
    /\ \E l \in ReadyCandidates :
         /\ \A k \in ReadyCandidates : l <= k
         /\ status' = [status EXCEPT ![l] = "claimed"]
         /\ consumer_id' = [consumer_id EXCEPT ![l] = DeviceOf[w]]
         /\ claim_token' = [claim_token EXCEPT ![l] = <<JobOf[w], issued + 1>>]
         /\ stamp' = [stamp EXCEPT ![l] = today]
         /\ claim' = [claim EXCEPT ![w] = [lead |-> l, token |-> <<JobOf[w], issued + 1>>]]
    /\ reserved' = IF QuotaOn THEN [reserved EXCEPT ![today] = @ + 1] ELSE reserved
    /\ device' = [device EXCEPT ![DeviceOf[w]] = AfterClaim(@)]
    /\ issued' = issued + 1
    /\ pc' = [pc EXCEPT ![w] = "holding"]
    /\ UNCHANGED <<cooling, sent, today, writing, releaseVars>>

\* Every refusal ends the worker's loop; so does an exception of the claim,
\* which comes back as a refusal too.
RefuseClaim(w) ==
    /\ pc[w] = "idle"
    /\ \/ Refusal(w) = "device_daily_limit_reached" /\ UNCHANGED device
       \/ /\ Refusal(w) \notin {"granted", "device_daily_limit_reached"}
          /\ device' = [device EXCEPT ![DeviceOf[w]] = AfterRefusal(@)]
       \/ /\ "dberror" \in Faults
          /\ device' \in {device, [device EXCEPT ![DeviceOf[w]] = AfterRefusal(@)]}
    /\ pc' = [pc EXCEPT ![w] = "stopped"]
    /\ UNCHANGED <<rowVars, quotaVars, today, issued, claim, writing, releaseVars>>

\* The SELECT of mark_task_done/failed/retry and release_task_claim.  For a
\* success the device counters are read here too and computed in memory.
BeginCompletion(w, v) ==
    /\ pc[w] = "holding"
    /\ "torn" \in Faults \/ claim[w].lead \notin Locked
    /\ IF StillMine(w)
       THEN LET r == device[DeviceOf[w]] IN
            /\ pc' = [pc EXCEPT ![w] = "writing"]
            /\ writing' = [writing EXCEPT ![w] =
                 [verdict |-> v,
                  day |-> today,
                  daily |-> (IF r.date = today THEN r.daily ELSE 0) + 1,
                  wave |-> (IF r.window = "open" THEN r.wave ELSE 0) + 1,
                  opens |-> r.window # "open"]]
            /\ UNCHANGED claim
       ELSE /\ pc' = [pc EXCEPT ![w] = "idle"]
            /\ claim' = [claim EXCEPT ![w] = NoClaim]
            /\ UNCHANGED writing
    /\ UNCHANGED <<rowVars, quotaVars, device, today, issued, releaseVars>>

Recorded(r, x) ==
    [date |-> x.day, daily |-> x.daily,
     wave |-> IF HourlyLimit > 0 THEN x.wave ELSE r.wave,
     window |-> IF HourlyLimit > 0 /\ x.opens THEN "open" ELSE r.window]

\* The UPDATE and commit of the completion: it names the row by its id alone.
WriteCompletion(w) ==
    /\ pc[w] = "writing"
    /\ claim[w].lead \notin Locked
    /\ LET l == claim[w].lead
           x == writing[w]
           back == x.verdict \in {"retry", "release"}
       IN
       /\ status' = [status EXCEPT ![l] = IF back THEN "pending" ELSE x.verdict]
       /\ consumer_id' = IF back THEN [consumer_id EXCEPT ![l] = NoDevice] ELSE consumer_id
       /\ claim_token' = IF back THEN [claim_token EXCEPT ![l] = NoToken] ELSE claim_token
       /\ stamp' = [stamp EXCEPT ![l] = IF back THEN 0 ELSE x.day]
       /\ cooling' = IF x.verdict = "retry" THEN cooling \cup {l} ELSE cooling
       /\ device' = IF x.verdict = "done"
                    THEN [device EXCEPT ![DeviceOf[w]] = Recorded(@, x)]
                    ELSE device
    /\ pc' = [pc EXCEPT ![w] = "settling"]
    /\ UNCHANGED <<quotaVars, today, issued, claim, writing, releaseVars>>

HasReservation == QuotaOn /\ reserved[today] > 0

SettledAsRelease(w) == FALSE
SettledAsSent(w) == writing[w].verdict = "done"

\* commit() or release(): a second transaction, on the quota row of the day
\* it runs in, and only if that row has something reserved.
SettleQuota(w) ==
    /\ pc[w] = "settling"
    /\ reserved' = IF HasReservation THEN [reserved EXCEPT ![today] = @ - 1] ELSE reserved
    /\ sent' = IF HasReservation /\ SettledAsSent(w)
               THEN [sent EXCEPT ![today] = @ + 1] ELSE sent
    /\ pc' = [pc EXCEPT ![w] = "idle"]
    /\ claim' = [claim EXCEPT ![w] = NoClaim]
    /\ writing' = [writing EXCEPT ![w] = NoWrite]
    /\ UNCHANGED <<rowVars, device, today, issued, releaseVars>>

\* A completion or a settlement raises, is rolled back and its caller goes on.
TransactionFails(w) ==
    /\ "dberror" \in Faults
    /\ pc[w] \in {"writing", "settling"}
    /\ pc' = [pc EXCEPT ![w] = "idle"]
    /\ claim' = [claim EXCEPT ![w] = NoClaim]
    /\ writing' = [writing EXCEPT ![w] = NoWrite]
    /\ UNCHANGED <<rowVars, quotaVars, device, today, issued, releaseVars>>

WorkerCrashes(w) ==
    /\ "crash" \in Faults
    /\ pc[w] \in {"holding", "writing", "settling"}
    /\ pc' = [pc EXCEPT ![w] = "dead"]
    /\ claim' = [claim EXCEPT ![w] = NoClaim]
    /\ writing' = [writing EXCEPT ![w] = NoWrite]
    /\ UNCHANGED <<rowVars, quotaVars, device, today, issued, releaseVars>>
------------------------------------------------------------------------------
\* Claims of a job are found by token prefix; when there is none, every claim
\* of the industry held on one of the job's devices is taken instead.
RowsOfJob(j) == {l \in Claimed : claim_token[l] # NoToken /\ claim_token[l][1] = j}
DevicesOfJob(j) == {DeviceOf[w] : w \in {v \in Workers : JobOf[v] = j}}
RowsToRelease(j) ==
    IF RowsOfJob(j) # {} THEN RowsOfJob(j)
    ELSE {l \in Claimed : consumer_id[l] \in DevicesOfJob(j)}

Monus(m, n) == IF m >= n THEN m - n ELSE 0

\* The UPDATE of the rows waits for an open release of any of them.
MayTakeBack(rows) ==
    /\ rows # {} /\ rows \cap Locked = {}
    /\ "torn" \in Faults \/ \A w \in Workers : pc[w] = "writing" => claim[w].lead \notin rows

BackToQueue(rows) ==
    /\ status' = [l \in Leads |-> IF l \in rows THEN "pending" ELSE status[l]]
    /\ consumer_id' = [l \in Leads |-> IF l \in rows THEN NoDevice ELSE consumer_id[l]]
    /\ claim_token' = [l \in Leads |-> IF l \in rows THEN NoToken ELSE claim_token[l]]
    /\ stamp' = [l \in Leads |-> IF l \in rows THEN 0 ELSE stamp[l]]

\* "owned" is FALSE on the path of reconcile_stale_cancellations, whose job
\* snapshot has no user_id: the quota row it looks for does not exist.
ReleaseClaimedTasksForJob(j, owned) ==
    LET rows == RowsToRelease(j) IN
    /\ MayTakeBack(rows)
    /\ BackToQueue(rows)
    /\ cooling' = cooling \ rows
    /\ reserved' = IF owned
                   THEN [reserved EXCEPT ![today] = Monus(@, Cardinality(rows))]
                   ELSE reserved
    /\ UNCHANGED <<sent, device, today, issued, workerVars, releaseVars>>

\* The same in two steps.  First the rows are written, still invisible to the
\* others, and the quota row is read ...
BeginRelease(j) ==
    LET rows == RowsToRelease(j) IN
    /\ "stale" \in Faults
    /\ freeing[j] = NoRelease
    /\ MayTakeBack(rows)
    /\ freeing' = [freeing EXCEPT ![j] = [rows |-> rows, day |-> today, read |-> reserved[today]]]
    /\ UNCHANGED <<rowVars, quotaVars, device, today, issued, workerVars, overwritten>>

\* ... then what was read, less the rows, is written as a number and all of it
\* is committed.  A count that was 0 stays 0 and is not written.
EndRelease(j) ==
    LET f == freeing[j] IN
    /\ f # NoRelease
    /\ BackToQueue(f.rows)
    /\ cooling' = cooling \ f.rows
    /\ reserved' = IF f.read > 0
                   THEN [reserved EXCEPT ![f.day] = Monus(f.read, Cardinality(f.rows))]
                   ELSE reserved
    /\ overwritten' = overwritten \cup
                       {d \in Days : d = f.day /\ f.read > 0 /\ reserved[d] # f.read}
    /\ freeing' = [freeing EXCEPT ![j] = NoRelease]
    /\ UNCHANGED <<sent, device, today, issued, workerVars>>

RetryUnfinished(rows) ==
    /\ rows # {} /\ rows \cap Locked = {} /\ \A l \in rows : status[l] \in {"claimed", "failed"}
    /\ BackToQueue(rows)
    /\ UNCHANGED <<cooling, quotaVars, device, today, issued, workerVars, releaseVars>>

\* One failed lead, or all of them, back to the queue.  Two of the three
\* endpoints clear retry_after, the one in leads.py keeps it.
RetryFailed(rows) ==
    /\ rows # {}
    /\ rows \subseteq {l \in Leads : status[l] = "failed"}
    /\ \/ Cardinality(rows) = 1
       \/ rows = {l \in Leads : status[l] = "failed"}
    /\ BackToQueue(rows)
    /\ cooling' \in {cooling, cooling \ rows}
    /\ UNCHANGED <<quotaVars, device, today, issued, workerVars, releaseVars>>

RetryAfterPasses(l) ==
    /\ l \in cooling
    /\ cooling' = cooling \ {l}
    /\ UNCHANGED <<status, consumer_id, claim_token, stamp, quotaVars, device,
                   today, issued, workerVars, releaseVars>>

HourPasses(d) ==
    /\ device[d].window = "open"
    /\ device' = [device EXCEPT ![d].window = "expired"]
    /\ UNCHANGED <<rowVars, quotaVars, today, issued, workerVars, releaseVars>>

Quiet == Claimed = {} /\ \A w \in Workers : pc[w] \notin {"writing", "settling"}

Midnight ==
    /\ today < LastDay
    /\ "midnight" \in Faults \/ Quiet
    /\ today' = today + 1
    /\ UNCHANGED <<rowVars, quotaVars, device, issued, workerVars, releaseVars>>

Next ==
    \/ \E w \in Workers :
         \/ ClaimForDevice(w) \/ RefuseClaim(w)
         \/ \E v \in Verdicts : BeginCompletion(w, v)
         \/ WriteCompletion(w) \/ SettleQuota(w)
         \/ TransactionFails(w) \/ WorkerCrashes(w)
    \/ \E j \in Jobs :
         \/ \E owned \in BOOLEAN : ReleaseClaimedTasksForJob(j, owned)
         \/ BeginRelease(j) \/ EndRelease(j)
    \/ \E rows \in SUBSET Leads : RetryFailed(rows)
    \/ \E l \in Leads : RetryAfterPasses(l)
    \/ \E d \in Devices : HourPasses(d)
    \/ Midnight

Spec == Init /\ [][Next]_vars
------------------------------------------------------------------------------
ConsumerStates ==
    [date : Nat, daily : Nat, wave : Nat, window : {"none", "open", "expired"}]
ClaimedTasks == [lead : Leads \cup {0}, token : Tokens \cup {NoToken}]
Releases == [rows : SUBSET Leads, day : Days, read : Nat]
Writes == [verdict : Verdicts, day : Days, daily : Nat, wave : Nat, opens : BOOLEAN]

TypeOK ==
    /\ status \in [Leads -> {"pending", "claimed", "done", "failed"}]
    /\ consumer_id \in [Leads -> Devices \cup {NoDevice}]
    /\ claim_token \in [Leads -> Tokens \cup {NoToken}]
    /\ stamp \in [Leads -> Nat]
    /\ cooling \subseteq Leads
    /\ sent \in [Days -> Nat] /\ reserved \in [Days -> Nat]
    /\ device \in [Devices -> ConsumerStates]
    /\ today \in Days
    /\ issued \in 0..MaxClaims
    /\ pc \in [Workers -> {"idle", "holding", "writing", "settling", "stopped", "dead"}]
    /\ claim \in [Workers -> ClaimedTasks]
    /\ writing \in [Workers -> Writes]
    /\ freeing \in [Jobs -> Releases]
    /\ overwritten \subseteq Days

\* The quota row never goes over the industry's limit, whatever the workers,
\* the cancellations, the crashes and the day changes do to it, unless a release
\* wrote the reserved count of that day back over what others had counted since
\* it read it (server/workers.py:112).
QuotaWithinLimit ==
    QuotaOn => \A d \in Days \ overwritten : sent[d] + reserved[d] <= EffectiveLimit

Busy == {"holding", "writing", "settling"}

\* The tokens of claimed rows and of workers are all different, and a row that is
\* about to be written carries its writer's token unless completions are torn.
TokensConsistent ==
    /\ \A l \in Claimed : claim_token[l] \in Tokens /\ claim_token[l][2] <= issued
    /\ \A k, l \in Claimed : claim_token[k] = claim_token[l] => k = l
    /\ \A w \in Workers : pc[w] \in Busy =>
         claim[w].lead \in Leads /\ claim[w].token \in Tokens /\ claim[w].token[2] <= issued
    /\ \A v, w \in Workers :
         pc[v] \in Busy /\ pc[w] \in Busy /\ claim[v].token = claim[w].token => v = w
    /\ "torn" \notin Faults => \A w \in Workers : pc[w] = "writing" => StillMine(w)

\* The rows of an open release stay claimed, by nobody who is about to write them
\* unless completions are torn, and no two releases have the same row.
ReleasesConsistent ==
    /\ Locked \subseteq Claimed
    /\ \A j \in Jobs : freeing[j] # NoRelease => LockedBy(j) # {}
    /\ \A i, j \in Jobs : i # j => LockedBy(i) \cap LockedBy(j) = {}
    /\ "torn" \notin Faults =>
         \A w \in Workers : pc[w] = "writing" => claim[w].lead \notin Locked

\* A claim token names one claim for good: no two claimed rows and no two
\* workers ever share one, and the row a worker is about to write carries its
\* token as long as nobody writes between the SELECT and the UPDATE.  What an
\* open release will put back is still claimed when it commits.
ClaimsConsistent == TokensConsistent /\ ReleasesConsistent

\* The workers whose completion of lead l would be accepted now.
Claimants(l) == {w \in Workers : pc[w] = "holding" /\ claim[w].lead = l /\ StillMine(w)}

\* At most one worker can complete a lead, also after its claim was taken back
\* and the lead was claimed again, be it by the same device.
OneClaimant == \A l \in Leads : \A v, w \in Claimants(l) : v = w

DoneOn(d) == {l \in Leads : status[l] = "done" /\ stamp[l] = d}

\* No more leads are messaged on a day than the industry's daily limit: a
\* cancellation, a crash or a failed transaction never frees quota twice, with
\* the same exception.
SendsWithinLimit ==
    QuotaOn => \A d \in Days \ overwritten : Cardinality(DoneOn(d)) <= EffectiveLimit

\* The acceptance of the repository's plan: no day sends more than its limit.
ZeroQuotaViolations == QuotaOn => \A d \in Days : Cardinality(DoneOn(d)) <= EffectiveLimit

\* A device driven by one worker stays within its own daily and hourly limits.
Exclusive(d) == Cardinality({w \in Workers : DeviceOf[w] = d}) = 1
DeviceWithinLimits ==
    \A d \in Devices : Exclusive(d) =>
      /\ DeviceDailyLimit[d] > 0 =>
           \A n \in Days :
             Cardinality({l \in DoneOn(n) : consumer_id[l] = d}) <= DeviceDailyLimit[d]
      /\ HourlyLimit > 0 => device[d].wave <= HourlyLimit

\* A worker is told that there is no task only if no pending lead is ready, or
\* if leads that wait for their retry_after fill the candidate query: so few of
\* them starve nobody, however many leads are done, failed or claimed
\* (scheduler.py:125, 128).
NoTaskMeansNoneReady ==
    \A w \in Workers : Refusal(w) = "no_task" =>
        Pending \subseteq cooling \/ Cardinality(Pending \cap cooling) >= CandidateLimit

\* The workers that still mean to report on their claim.
Engaged == {w \in Workers : pc[w] \in {"holding", "writing"}}

Ledger == INSTANCE ClaimLedger WITH
    Claims <- Tokens, NoClaim <- NoToken,
    lead <- status,
    holder <- [l \in Leads |-> IF status[l] = "claimed" THEN claim_token[l] ELSE NoToken],
    working <- {claim[w].token : w \in Engaged}

\* The scheduler keeps the promise of the claim ledger: a lead leaves a claim
\* through the report of that claim's own worker or by being taken back, a
\* late report of an older claim changes nothing, and a done lead stays done.
KeepsLedger == Ledger!LedgerSpec
=============================================================================
