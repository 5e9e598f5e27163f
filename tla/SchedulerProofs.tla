--------------------------- MODULE SchedulerProofs ---------------------------
(***************************************************************************)
(* Theorems about MatrixScheduler for any set of leads, workers, jobs and  *)
(* devices, any limits and any of the faults: its types, the daily quota,  *)
(* and that it keeps the claim ledger.                                     *)
(***************************************************************************)
EXTENDS MatrixScheduler, Sums

LEMMA LimitsAreNatural ==
    /\ EffectiveLimit \in Nat
    /\ \A m, n \in Nat : Monus(m, n) \in Nat /\ Monus(m, n) <= m
<1>1. CASE PositiveLimits = {}
  BY <1>1 DEF EffectiveLimit, Monus
<1>2. CASE PositiveLimits # {}
  <2>0. GlobalDailyLimit \in Nat /\ DailySendMax \in Nat
    BY SchedulerAssumption DEF SchedulerAssumption
  <2>1. \E n \in PositiveLimits : \A m \in PositiveLimits : n <= m
    BY <1>2, <2>0 DEF PositiveLimits
  <2>2. EffectiveLimit \in PositiveLimits
    BY <1>2, <2>1 DEF EffectiveLimit
  <2>3. EffectiveLimit \in Nat
    BY <2>0, <2>2 DEF PositiveLimits
  <2> QED
    BY <2>3 DEF Monus
<1> QED
  BY <1>1, <1>2

LEMMA ReleasedRowsAreFinite ==
    ASSUME NEW j
    PROVE  Cardinality(RowsToRelease(j)) \in Nat
<1>1. RowsToRelease(j) \in SUBSET Leads
  BY DEF RowsToRelease, RowsOfJob, Claimed
<1> QED
  BY <1>1, FS_Subset, FS_CardinalityType, SchedulerAssumption DEF SchedulerAssumption

\* The parts of the assumption the step proofs need.
LEMMA ConstantTypes ==
    /\ \A w \in Workers : JobOf[w] \in Jobs /\ DeviceOf[w] \in Devices
    /\ LastDay \in Nat /\ 1 \in Days /\ Days \subseteq Nat
    /\ MaxClaims \in Nat
BY SchedulerAssumption DEF SchedulerAssumption, Days

LEMMA EmptyMemoryTypes ==
    NoClaim \in ClaimedTasks /\ NoWrite \in Writes /\ NoRelease \in Releases
BY ConstantTypes DEF NoClaim, ClaimedTasks, NoWrite, Writes, Verdicts, NoRelease, Releases

LEMMA DeviceStateTypes ==
    ASSUME NEW r \in ConsumerStates
    PROVE  /\ AfterClaim(r) \in ConsumerStates
           /\ AfterRefusal(r) \in ConsumerStates
           /\ \A x \in Writes : Recorded(r, x) \in ConsumerStates
<1>1. WindowReset(r) \in ConsumerStates
  BY DEF WindowReset, ConsumerStates
<1>2. AfterClaim(r) \in ConsumerStates /\ AfterRefusal(r) \in ConsumerStates
  BY <1>1 DEF AfterClaim, AfterRefusal
<1>3. ASSUME NEW x \in Writes
      PROVE  Recorded(r, x) \in ConsumerStates
  <2>1. x.day \in Nat /\ x.daily \in Nat /\ x.wave \in Nat
    BY ConstantTypes DEF Writes
  <2> QED
    BY <2>1 DEF Recorded, ConsumerStates
<1> QED
  BY <1>2, <1>3
------------------------------------------------------------------------------
LEMMA InitTypeOK == Init => TypeOK
BY SchedulerAssumption
   DEF SchedulerAssumption, Init, TypeOK, ConsumerStates, ClaimedTasks, Writes,
       Verdicts, NoClaim, NoWrite, NoDevice, Days, NoRelease, Releases

LEMMA StepTypeOK == TypeOK /\ ClaimsConsistent /\ [Next]_vars => TypeOK'
<1> SUFFICES ASSUME TypeOK, ClaimsConsistent, [Next]_vars
             PROVE  TypeOK'
  OBVIOUS
<1> USE ConstantTypes
<1>1. ASSUME NEW w \in Workers, ClaimForDevice(w)
      PROVE  TypeOK'
  <2>1. /\ issued < MaxClaims /\ issued' = issued + 1
        /\ reserved' = IF QuotaOn THEN [reserved EXCEPT ![today] = @ + 1] ELSE reserved
        /\ device' = [device EXCEPT ![DeviceOf[w]] = AfterClaim(@)]
        /\ pc' = [pc EXCEPT ![w] = "holding"]
        /\ UNCHANGED <<cooling, sent, today, writing, releaseVars>>
    BY <1>1 DEF ClaimForDevice
  <2>2. PICK l \in ReadyCandidates :
          /\ status' = [status EXCEPT ![l] = "claimed"]
          /\ consumer_id' = [consumer_id EXCEPT ![l] = DeviceOf[w]]
          /\ claim_token' = [claim_token EXCEPT ![l] = <<JobOf[w], issued + 1>>]
          /\ stamp' = [stamp EXCEPT ![l] = today]
          /\ claim' = [claim EXCEPT ![w] = [lead |-> l, token |-> <<JobOf[w], issued + 1>>]]
    BY <1>1 DEF ClaimForDevice
  <2>3. l \in Leads
    BY DEF ReadyCandidates, Candidates, Pending
  <2>4. issued' \in 0..MaxClaims /\ <<JobOf[w], issued + 1>> \in Tokens
    BY <2>1 DEF TypeOK, releaseVars, Tokens
  <2>5. reserved' \in [Days -> Nat]
    BY <2>1 DEF TypeOK, releaseVars
  <2>6. device' \in [Devices -> ConsumerStates]
    BY <2>1, DeviceStateTypes DEF TypeOK, releaseVars
  <2>7. claim' \in [Workers -> ClaimedTasks]
    BY <2>2, <2>3, <2>4 DEF TypeOK, releaseVars, ClaimedTasks
  <2>8. status' \in [Leads -> {"pending", "claimed", "done", "failed"}]
    BY <2>2 DEF TypeOK, releaseVars
  <2>9. /\ consumer_id' \in [Leads -> Devices \cup {NoDevice}]
        /\ claim_token' \in [Leads -> Tokens \cup {NoToken}]
        /\ stamp' \in [Leads -> Nat]
    BY <2>2, <2>4 DEF TypeOK, releaseVars
  <2> QED
    BY <2>1, <2>4, <2>5, <2>6, <2>7, <2>8, <2>9 DEF TypeOK, releaseVars
<1>2. ASSUME NEW w \in Workers, RefuseClaim(w)
      PROVE  TypeOK'
  <2>1. device' \in {device, [device EXCEPT ![DeviceOf[w]] = AfterRefusal(@)]}
    BY <1>2 DEF RefuseClaim
  <2>2. device' \in [Devices -> ConsumerStates]
    BY <2>1, DeviceStateTypes DEF TypeOK, releaseVars
  <2>3. pc' = [pc EXCEPT ![w] = "stopped"]
        /\ UNCHANGED <<rowVars, quotaVars, today, issued, claim, writing, releaseVars>>
    BY <1>2 DEF RefuseClaim
  <2> QED
    BY <2>2, <2>3 DEF TypeOK, releaseVars, rowVars, quotaVars
<1>3. ASSUME NEW w \in Workers, NEW v \in Verdicts, BeginCompletion(w, v)
      PROVE  TypeOK'
  <2>1. PICK x \in Writes :
          \/ claim' = [claim EXCEPT ![w] = NoClaim] /\ pc' = [pc EXCEPT ![w] = "idle"]
             /\ UNCHANGED writing
          \/ UNCHANGED claim /\ pc' = [pc EXCEPT ![w] = "writing"]
             /\ writing' = [writing EXCEPT ![w] = x]
    <3> DEFINE r == device[DeviceOf[w]]
               x == [verdict |-> v, day |-> today,
                     daily |-> (IF r.date = today THEN r.daily ELSE 0) + 1,
                     wave |-> (IF r.window = "open" THEN r.wave ELSE 0) + 1,
                     opens |-> r.window # "open"]
    <3>1. r.daily \in Nat /\ r.wave \in Nat
      BY DEF TypeOK, releaseVars, ConsumerStates
    <3>2. x \in Writes
      BY <3>1 DEF TypeOK, releaseVars, Writes
    <3> QED
      BY <1>3, <3>2 DEF BeginCompletion
  <2>2. UNCHANGED <<rowVars, quotaVars, device, today, issued, releaseVars>>
    BY <1>3 DEF BeginCompletion
  <2> QED
    BY <2>1, <2>2, EmptyMemoryTypes DEF TypeOK, releaseVars, rowVars, quotaVars
<1>4. ASSUME NEW w \in Workers, WriteCompletion(w)
      PROVE  TypeOK'
  <2> DEFINE l == claim[w].lead
             x == writing[w]
             back == x.verdict \in {"retry", "release"}
  <2>1. /\ status' = [status EXCEPT ![l] = IF back THEN "pending" ELSE x.verdict]
        /\ consumer_id' = IF back THEN [consumer_id EXCEPT ![l] = NoDevice] ELSE consumer_id
        /\ claim_token' = IF back THEN [claim_token EXCEPT ![l] = NoToken] ELSE claim_token
        /\ stamp' = [stamp EXCEPT ![l] = IF back THEN 0 ELSE x.day]
        /\ device' = IF x.verdict = "done"
                     THEN [device EXCEPT ![DeviceOf[w]] = Recorded(@, x)] ELSE device
        /\ pc' = [pc EXCEPT ![w] = "settling"]
        /\ UNCHANGED <<quotaVars, today, issued, claim, writing, releaseVars>>
    BY <1>4 DEF WriteCompletion
  <2>2. (cooling' = cooling \/ cooling' = cooling \cup {l}) /\ l \in Leads
    BY <1>4 DEF WriteCompletion, ClaimsConsistent, TokensConsistent, Busy
  <2>3. x \in Writes /\ x.verdict \in Verdicts /\ x.day \in Nat
    BY DEF TypeOK, releaseVars, Writes
  <2>4. device' \in [Devices -> ConsumerStates]
    BY <2>1, <2>3, DeviceStateTypes DEF TypeOK, releaseVars
  <2>5. status' \in [Leads -> {"pending", "claimed", "done", "failed"}]
    BY <2>1, <2>3 DEF TypeOK, releaseVars, Verdicts
  <2>6. /\ consumer_id' \in [Leads -> Devices \cup {NoDevice}]
        /\ claim_token' \in [Leads -> Tokens \cup {NoToken}]
        /\ stamp' \in [Leads -> Nat]
    BY <2>1, <2>3 DEF TypeOK, releaseVars
  <2> QED
    BY <2>1, <2>2, <2>4, <2>5, <2>6 DEF TypeOK, releaseVars, quotaVars
<1>5. ASSUME NEW w \in Workers, SettleQuota(w)
      PROVE  TypeOK'
  <2>1. reserved' \in [Days -> Nat] /\ sent' \in [Days -> Nat]
    BY <1>5 DEF SettleQuota, HasReservation, TypeOK, releaseVars
  <2>2. /\ pc' = [pc EXCEPT ![w] = "idle"]
        /\ claim' = [claim EXCEPT ![w] = NoClaim]
        /\ writing' = [writing EXCEPT ![w] = NoWrite]
        /\ UNCHANGED <<rowVars, device, today, issued, releaseVars>>
    BY <1>5 DEF SettleQuota
  <2> QED
    BY <2>1, <2>2, EmptyMemoryTypes DEF TypeOK, releaseVars, rowVars
<1>6. ASSUME NEW w \in Workers, TransactionFails(w) \/ WorkerCrashes(w)
      PROVE  TypeOK'
  <2>1. /\ pc' = [pc EXCEPT ![w] = "idle"] \/ pc' = [pc EXCEPT ![w] = "dead"]
        /\ claim' = [claim EXCEPT ![w] = NoClaim]
        /\ writing' = [writing EXCEPT ![w] = NoWrite]
        /\ UNCHANGED <<rowVars, quotaVars, device, today, issued, releaseVars>>
    BY <1>6 DEF TransactionFails, WorkerCrashes
  <2> QED
    BY <2>1, EmptyMemoryTypes DEF TypeOK, releaseVars, rowVars, quotaVars
<1>7. ASSUME NEW j \in Jobs, NEW owned \in BOOLEAN, ReleaseClaimedTasksForJob(j, owned)
      PROVE  TypeOK'
  <2>1. reserved' \in [Days -> Nat]
    BY <1>7, ReleasedRowsAreFinite, LimitsAreNatural DEF ReleaseClaimedTasksForJob, TypeOK
  <2>2. BackToQueue(RowsToRelease(j)) /\ cooling' \subseteq cooling
        /\ UNCHANGED <<sent, device, today, issued, workerVars, releaseVars>>
    BY <1>7 DEF ReleaseClaimedTasksForJob
  <2> QED
    BY <2>1, <2>2 DEF BackToQueue, TypeOK, releaseVars, workerVars
<1>8. ASSUME NEW rows \in SUBSET Leads, RetryFailed(rows)
      PROVE  TypeOK'
  BY <1>8 DEF RetryFailed, BackToQueue, TypeOK, releaseVars, quotaVars, workerVars
<1>9. ASSUME NEW l \in Leads, RetryAfterPasses(l)
      PROVE  TypeOK'
  BY <1>9 DEF RetryAfterPasses, TypeOK, releaseVars, quotaVars, workerVars
<1>10. ASSUME NEW d \in Devices, HourPasses(d)
       PROVE  TypeOK'
  <2>1. device' \in [Devices -> ConsumerStates]
    BY <1>10 DEF HourPasses, TypeOK, releaseVars, ConsumerStates
  <2> QED
    BY <1>10, <2>1 DEF HourPasses, TypeOK, releaseVars, rowVars, quotaVars, workerVars
<1>11. CASE Midnight
  BY <1>11 DEF Midnight, TypeOK, releaseVars, Days, rowVars, quotaVars, workerVars
<1>12. CASE UNCHANGED vars
  BY <1>12 DEF vars, TypeOK
<1>13. ASSUME NEW j \in Jobs, BeginRelease(j)
       PROVE  TypeOK'
  <2> DEFINE f == [rows |-> RowsToRelease(j), day |-> today, read |-> reserved[today]]
  <2>1. RowsToRelease(j) \subseteq Leads
    BY DEF RowsToRelease, RowsOfJob, Claimed
  <2>2. f \in Releases
    BY <2>1 DEF Releases, TypeOK
  <2>3. freeing' = [freeing EXCEPT ![j] = f]
        /\ UNCHANGED <<rowVars, quotaVars, device, today, issued, workerVars, overwritten>>
    BY <1>13 DEF BeginRelease
  <2> HIDE DEF f
  <2> QED
    BY <2>2, <2>3 DEF TypeOK, rowVars, quotaVars, workerVars
<1>14. ASSUME NEW j \in Jobs, EndRelease(j)
       PROVE  TypeOK'
  <2> DEFINE f == freeing[j]
             n == Cardinality(f.rows)
  <2>1. f \in Releases /\ f.rows \in SUBSET Leads /\ f.day \in Days /\ f.read \in Nat
    BY DEF TypeOK, Releases
  <2>2. n \in Nat
    BY <2>1, FS_Subset, FS_CardinalityType, SchedulerAssumption DEF SchedulerAssumption
  <2>3. /\ BackToQueue(f.rows) /\ cooling' \subseteq cooling
        /\ reserved' = IF f.read > 0 THEN [reserved EXCEPT ![f.day] = Monus(f.read, n)]
                       ELSE reserved
        /\ overwritten' \subseteq overwritten \cup Days
        /\ freeing' = [freeing EXCEPT ![j] = NoRelease]
        /\ UNCHANGED <<sent, device, today, issued, workerVars>>
    BY <1>14 DEF EndRelease
  <2> HIDE DEF n
  <2>4. Monus(f.read, n) \in Nat
    BY <2>1, <2>2, LimitsAreNatural
  <2>5. reserved' \in [Days -> Nat]
    BY <2>1, <2>3, <2>4 DEF TypeOK
  <2>6. freeing' \in [Jobs -> Releases]
    BY <2>3, EmptyMemoryTypes DEF TypeOK
  <2> QED
    BY <2>3, <2>5, <2>6 DEF BackToQueue, TypeOK, workerVars
<1> QED
  BY <1>1, <1>2, <1>3, <1>4, <1>5, <1>6, <1>7, <1>8, <1>9, <1>10, <1>11, <1>12, <1>13, <1>14
     DEF Next

------------------------------------------------------------------------------
LEMMA InitClaimsConsistent == Init => ClaimsConsistent
BY DEF Init, ClaimsConsistent, TokensConsistent, ReleasesConsistent, Claimed, Busy, Locked,
       LockedBy, NoRelease

\* A worker that lets go of its claim without touching the queue.
LEMMA LeavesQueue ==
    ASSUME TypeOK, ClaimsConsistent, NEW w \in Workers,
           UNCHANGED <<status, consumer_id, claim_token, issued>>,
           NEW p \in {"idle", "stopped", "dead"}, pc' = [pc EXCEPT ![w] = p],
           claim' = claim \/ claim' = [claim EXCEPT ![w] = NoClaim]
    PROVE  TokensConsistent'
<1>1. \A v \in Workers : pc'[v] \in Busy =>
        v # w /\ pc'[v] = pc[v] /\ claim'[v] = claim[v]
  BY DEF TypeOK, Busy
<1>2. \A l \in Claimed' : claim_token'[l] \in Tokens /\ claim_token'[l][2] <= issued'
  BY DEF ClaimsConsistent, TokensConsistent, Claimed
<1>3. \A k, l \in Claimed' : claim_token'[k] = claim_token'[l] => k = l
  BY DEF ClaimsConsistent, TokensConsistent, Claimed
<1>4. \A v \in Workers : pc'[v] \in Busy =>
        claim'[v].lead \in Leads /\ claim'[v].token \in Tokens
        /\ claim'[v].token[2] <= issued'
  BY <1>1 DEF ClaimsConsistent, TokensConsistent
<1>5. \A u, v \in Workers :
        pc'[u] \in Busy /\ pc'[v] \in Busy /\ claim'[u].token = claim'[v].token => u = v
  BY <1>1 DEF ClaimsConsistent, TokensConsistent
<1>6. "torn" \notin Faults => \A v \in Workers : pc'[v] = "writing" => StillMine(v)'
  BY <1>1 DEF ClaimsConsistent, TokensConsistent, StillMine, Busy
<1> QED
  BY <1>2, <1>3, <1>4, <1>5, <1>6 DEF ClaimsConsistent, TokensConsistent

\* Rows go back to the queue, and no worker is about to write one of them.
LEMMA OtherRowsKept ==
    ASSUME TypeOK, ClaimsConsistent, NEW rows, UNCHANGED <<issued, pc, claim>>,
           "torn" \in Faults \/ \A w \in Workers : pc[w] = "writing" => claim[w].lead \notin rows,
           \A l \in Leads \ rows :
             /\ status'[l] = status[l] /\ consumer_id'[l] = consumer_id[l]
             /\ claim_token'[l] = claim_token[l],
           \A l \in Leads \cap rows : status'[l] = "pending"
    PROVE  TokensConsistent'
<1>1. \A l \in Claimed' : l \in Claimed /\ claim_token'[l] = claim_token[l]
  BY DEF Claimed
<1>2. \A l \in Claimed' : claim_token'[l] \in Tokens /\ claim_token'[l][2] <= issued'
  BY <1>1 DEF ClaimsConsistent, TokensConsistent
<1>3. \A k, l \in Claimed' : claim_token'[k] = claim_token'[l] => k = l
  BY <1>1 DEF ClaimsConsistent, TokensConsistent
<1>4. "torn" \notin Faults => \A v \in Workers : pc'[v] = "writing" => StillMine(v)'
  BY DEF ClaimsConsistent, TokensConsistent, StillMine
<1> QED
  BY <1>2, <1>3, <1>4 DEF ClaimsConsistent, TokensConsistent

LEMMA StepTokensConsistent == TypeOK /\ ClaimsConsistent /\ [Next]_vars => TokensConsistent'
<1> SUFFICES ASSUME TypeOK, ClaimsConsistent, [Next]_vars
             PROVE  TokensConsistent'
  OBVIOUS
<1> USE ConstantTypes DEF Busy
<1>1. ASSUME NEW w \in Workers, ClaimForDevice(w)
      PROVE  TokensConsistent'
  <2>1. /\ issued < MaxClaims /\ issued' = issued + 1
        /\ pc' = [pc EXCEPT ![w] = "holding"]
    BY <1>1 DEF ClaimForDevice
  <2>2. PICK l \in ReadyCandidates :
          /\ status' = [status EXCEPT ![l] = "claimed"]
          /\ consumer_id' = [consumer_id EXCEPT ![l] = DeviceOf[w]]
          /\ claim_token' = [claim_token EXCEPT ![l] = <<JobOf[w], issued + 1>>]
          /\ claim' = [claim EXCEPT ![w] = [lead |-> l, token |-> <<JobOf[w], issued + 1>>]]
    BY <1>1 DEF ClaimForDevice
  <2>3. l \in Leads /\ status[l] = "pending"
    BY DEF ReadyCandidates, Candidates, Pending
  <2>4. Claimed' = Claimed \cup {l} /\ l \notin Claimed
    BY <2>2, <2>3 DEF Claimed, TypeOK
  <2>5. /\ claim_token'[l] = <<JobOf[w], issued + 1>>
        /\ \A k \in Claimed : claim_token'[k] = claim_token[k]
    BY <2>2, <2>3, <2>4 DEF Claimed, TypeOK
  <2>6. /\ pc'[w] = "holding"
        /\ claim'[w].lead = l /\ claim'[w].token = <<JobOf[w], issued + 1>>
        /\ \A v \in Workers \ {w} : pc'[v] = pc[v] /\ claim'[v] = claim[v]
    BY <2>1, <2>2 DEF TypeOK
  <2>7. /\ issued \in Nat
        /\ <<JobOf[w], issued + 1>> \in Tokens /\ <<JobOf[w], issued + 1>>[2] = issued + 1
    BY <2>1 DEF Tokens, TypeOK
  <2>8. \A k \in Claimed : claim_token[k] \in Tokens /\ claim_token[k][2] \in Nat
                           /\ claim_token[k][2] <= issued
    BY DEF ClaimsConsistent, TokensConsistent, Tokens
  <2>9. \A v \in Workers : pc[v] \in Busy =>
          claim[v].lead \in Leads /\ claim[v].token \in Tokens
          /\ claim[v].token[2] \in Nat /\ claim[v].token[2] <= issued
    BY DEF ClaimsConsistent, TokensConsistent, Tokens
  <2>10. \A k \in Claimed' : claim_token'[k] \in Tokens /\ claim_token'[k][2] <= issued'
    BY <2>1, <2>4, <2>5, <2>7, <2>8
  <2>11. \A k, m \in Claimed' : claim_token'[k] = claim_token'[m] => k = m
    BY <2>1, <2>4, <2>5, <2>7, <2>8 DEF ClaimsConsistent, TokensConsistent
  <2>12. \A v \in Workers : pc'[v] \in Busy =>
           claim'[v].lead \in Leads /\ claim'[v].token \in Tokens
           /\ claim'[v].token[2] <= issued'
    BY <2>1, <2>3, <2>6, <2>7, <2>9
  <2>13. \A u, v \in Workers :
           pc'[u] \in Busy /\ pc'[v] \in Busy /\ claim'[u].token = claim'[v].token => u = v
    BY <2>1, <2>6, <2>7, <2>9 DEF ClaimsConsistent, TokensConsistent
  <2>14. ASSUME "torn" \notin Faults, NEW v \in Workers, pc'[v] = "writing"
         PROVE  StillMine(v)'
    <3>1. v # w /\ pc[v] = "writing" /\ claim'[v] = claim[v] /\ StillMine(v)
      BY <2>6, <2>14 DEF ClaimsConsistent, TokensConsistent
    <3>2. claim[v].lead \in Leads /\ claim[v].lead # l
      BY <2>3, <3>1 DEF StillMine
    <3> QED
      BY <2>2, <3>1, <3>2 DEF StillMine, TypeOK
  <2> QED
    BY <2>10, <2>11, <2>12, <2>13, <2>14 DEF ClaimsConsistent, TokensConsistent
<1>2. ASSUME NEW w \in Workers, RefuseClaim(w)
      PROVE  TokensConsistent'
  <2>1. UNCHANGED <<status, consumer_id, claim_token, issued, claim>>
    BY <1>2 DEF RefuseClaim, rowVars
  <2>2. pc' = [pc EXCEPT ![w] = "stopped"]
    BY <1>2 DEF RefuseClaim
  <2> QED
    BY <2>1, <2>2, LeavesQueue
<1>3. ASSUME NEW w \in Workers, NEW verdict \in Verdicts, BeginCompletion(w, verdict)
      PROVE  TokensConsistent'
  <2>1. UNCHANGED <<status, consumer_id, claim_token, issued>>
    BY <1>3 DEF BeginCompletion, rowVars
  <2>2. CASE StillMine(w)
    <3>1. pc' = [pc EXCEPT ![w] = "writing"] /\ UNCHANGED claim /\ pc[w] = "holding"
      BY <1>3, <2>2 DEF BeginCompletion
    <3>2. \A v \in Workers : (pc'[v] \in Busy => pc[v] \in Busy)
                             /\ (pc'[v] = "writing" => v = w \/ pc[v] = "writing")
      BY <3>1 DEF TypeOK
    <3>3. \A v \in Workers : pc'[v] \in Busy =>
            claim'[v].lead \in Leads /\ claim'[v].token \in Tokens
            /\ claim'[v].token[2] <= issued'
      BY <2>1, <3>1, <3>2 DEF ClaimsConsistent, TokensConsistent
    <3>4. \A u, v \in Workers :
            pc'[u] \in Busy /\ pc'[v] \in Busy /\ claim'[u].token = claim'[v].token => u = v
      BY <3>1, <3>2 DEF ClaimsConsistent, TokensConsistent
    <3>5. "torn" \notin Faults => \A v \in Workers : pc'[v] = "writing" => StillMine(v)'
      BY <2>1, <2>2, <3>1, <3>2 DEF ClaimsConsistent, TokensConsistent, StillMine
    <3> QED
      BY <2>1, <3>3, <3>4, <3>5 DEF ClaimsConsistent, TokensConsistent, Claimed
  <2>3. CASE ~StillMine(w)
    <3>1. pc' = [pc EXCEPT ![w] = "idle"] /\ claim' = [claim EXCEPT ![w] = NoClaim]
      BY <1>3, <2>3 DEF BeginCompletion
    <3> QED
      BY <2>1, <3>1, LeavesQueue
  <2> QED
    BY <2>2, <2>3
<1>4. ASSUME NEW w \in Workers, WriteCompletion(w)
      PROVE  TokensConsistent'
  <2> DEFINE l == claim[w].lead
             x == writing[w]
             back == x.verdict \in {"retry", "release"}
  <2>1. /\ pc[w] = "writing" /\ pc' = [pc EXCEPT ![w] = "settling"]
        /\ status' = [status EXCEPT ![l] = IF back THEN "pending" ELSE x.verdict]
        /\ consumer_id' = IF back THEN [consumer_id EXCEPT ![l] = NoDevice] ELSE consumer_id
        /\ claim_token' = IF back THEN [claim_token EXCEPT ![l] = NoToken] ELSE claim_token
        /\ UNCHANGED <<issued, claim>>
    BY <1>4 DEF WriteCompletion
  <2>2. x.verdict \in Verdicts
    BY DEF TypeOK, Writes
  <2>3. \A k \in Claimed' : k # l /\ k \in Claimed /\ claim_token'[k] = claim_token[k]
    BY <2>1, <2>2 DEF Claimed, TypeOK, Verdicts
  <2>4. \A v \in Workers : (pc'[v] \in Busy => pc[v] \in Busy)
                           /\ (pc'[v] = "writing" => v # w /\ pc[v] = "writing")
    BY <2>1 DEF TypeOK
  <2>5. \A v \in Workers : pc'[v] \in Busy =>
          claim'[v].lead \in Leads /\ claim'[v].token \in Tokens
          /\ claim'[v].token[2] <= issued'
    BY <2>1, <2>4 DEF ClaimsConsistent, TokensConsistent
  <2>6. \A u, v \in Workers :
          pc'[u] \in Busy /\ pc'[v] \in Busy /\ claim'[u].token = claim'[v].token => u = v
    BY <2>1, <2>4 DEF ClaimsConsistent, TokensConsistent
  <2>7. ASSUME "torn" \notin Faults, NEW v \in Workers, pc'[v] = "writing"
        PROVE  StillMine(v)'
    <3>1. v # w /\ pc[v] = "writing" /\ StillMine(v) /\ StillMine(w)
      BY <2>1, <2>4, <2>7 DEF ClaimsConsistent, TokensConsistent
    <3>2. claim[v].token # claim[w].token
      BY <2>1, <3>1 DEF ClaimsConsistent, TokensConsistent
    <3>3. claim[v].lead # l
      BY <3>1, <3>2 DEF StillMine
    <3>4. status'[claim[v].lead] = "claimed" /\ consumer_id'[claim[v].lead] = DeviceOf[v]
          /\ claim_token'[claim[v].lead] = claim[v].token
      BY <2>1, <3>1, <3>3 DEF StillMine, TypeOK
    <3> QED
      BY <2>1, <3>1, <3>4 DEF StillMine
  <2>8. \A k \in Claimed' : claim_token'[k] \in Tokens /\ claim_token'[k][2] <= issued'
    BY <2>1, <2>3 DEF ClaimsConsistent, TokensConsistent
  <2>9. \A k, m \in Claimed' : claim_token'[k] = claim_token'[m] => k = m
    BY <2>3 DEF ClaimsConsistent, TokensConsistent
  <2> QED
    BY <2>5, <2>6, <2>7, <2>8, <2>9 DEF ClaimsConsistent, TokensConsistent
<1>5. ASSUME NEW w \in Workers, SettleQuota(w) \/ TransactionFails(w) \/ WorkerCrashes(w)
      PROVE  TokensConsistent'
  <2>1. UNCHANGED <<status, consumer_id, claim_token, issued>>
    BY <1>5 DEF SettleQuota, TransactionFails, WorkerCrashes, rowVars
  <2>2. /\ pc' = [pc EXCEPT ![w] = "idle"] \/ pc' = [pc EXCEPT ![w] = "dead"]
        /\ claim' = [claim EXCEPT ![w] = NoClaim]
    BY <1>5 DEF SettleQuota, TransactionFails, WorkerCrashes
  <2> QED
    BY <2>1, <2>2, LeavesQueue
<1>6. ASSUME NEW rows, BackToQueue(rows), UNCHANGED <<issued, pc, claim>>,
             "torn" \in Faults \/ \A w \in Workers : pc[w] = "writing" => claim[w].lead \notin rows
      PROVE  TokensConsistent'
  <2>1. /\ \A l \in Leads \ rows :
             /\ status'[l] = status[l] /\ consumer_id'[l] = consumer_id[l]
             /\ claim_token'[l] = claim_token[l]
        /\ \A l \in Leads \cap rows : status'[l] = "pending"
    BY <1>6 DEF BackToQueue
  <2> QED
    BY <1>6, <2>1, OtherRowsKept
<1>7. ASSUME NEW rows \in SUBSET Leads, RetryFailed(rows)
      PROVE  TokensConsistent'
  <2>1. /\ UNCHANGED <<issued, pc, claim>> /\ BackToQueue(rows)
        /\ \A l \in rows : status[l] = "failed"
    BY <1>7 DEF RetryFailed, workerVars
  <2>2. "torn" \in Faults \/ \A w \in Workers : pc[w] = "writing" => claim[w].lead \notin rows
    BY <2>1 DEF ClaimsConsistent, TokensConsistent, StillMine
  <2> QED
    BY <1>6, <2>1, <2>2
<1>9. ASSUME NEW j \in Jobs, NEW owned \in BOOLEAN, ReleaseClaimedTasksForJob(j, owned)
      PROVE  TokensConsistent'
  BY <1>6, <1>9 DEF ReleaseClaimedTasksForJob, MayTakeBack, workerVars
<1>10. ASSUME NEW j \in Jobs, EndRelease(j)
       PROVE  TokensConsistent'
  <2>1. "torn" \in Faults \/ \A w \in Workers : pc[w] = "writing" => claim[w].lead \notin freeing[j].rows
    BY DEF ClaimsConsistent, ReleasesConsistent, Locked, LockedBy
  <2> QED
    BY <1>6, <1>10, <2>1 DEF EndRelease, workerVars
<1>8. ASSUME UNCHANGED <<status, consumer_id, claim_token, issued, pc, claim>>
      PROVE  TokensConsistent'
  BY <1>8 DEF ClaimsConsistent, TokensConsistent, Claimed, StillMine
<1> QED
  BY <1>1, <1>2, <1>3, <1>4, <1>5, <1>7, <1>8, <1>9, <1>10
     DEF Next, vars, BeginRelease, RetryAfterPasses, HourPasses, Midnight, rowVars, quotaVars,
         workerVars

\* Open releases stay as they are, and so do their rows; nobody begins to write one.
LEMMA ReleasesKept ==
    ASSUME ReleasesConsistent, UNCHANGED freeing,
           \A l \in Locked : status'[l] = status[l],
           \A w \in Workers : pc'[w] = "writing" =>
               (pc[w] = "writing" \/ "torn" \in Faults \/ claim[w].lead \notin Locked)
               /\ claim'[w] = claim[w]
    PROVE  ReleasesConsistent'
<1>1. Locked' = Locked /\ \A j \in Jobs : LockedBy(j)' = LockedBy(j)
  BY DEF Locked, LockedBy
<1>2. Locked' \subseteq Claimed'
  BY <1>1 DEF ReleasesConsistent, Claimed
<1>3. "torn" \notin Faults =>
        \A w \in Workers : pc'[w] = "writing" => claim'[w].lead \notin Locked'
  BY <1>1 DEF ReleasesConsistent
<1> QED
  BY <1>1, <1>2, <1>3 DEF ReleasesConsistent

LEMMA ReleaseBegins ==
    ASSUME TypeOK, ReleasesConsistent, NEW j \in Jobs, BeginRelease(j)
    PROVE  ReleasesConsistent'
<1>1. /\ freeing' = [freeing EXCEPT ![j] = [rows |-> RowsToRelease(j), day |-> today,
                                            read |-> reserved[today]]]
      /\ MayTakeBack(RowsToRelease(j)) /\ LockedBy(j) = {}
      /\ UNCHANGED <<status, pc, claim>>
  BY DEF BeginRelease, rowVars, workerVars, LockedBy, NoRelease
<1>2. /\ LockedBy(j)' = RowsToRelease(j)
      /\ \A i \in Jobs \ {j} : LockedBy(i)' = LockedBy(i) /\ freeing'[i] = freeing[i]
  BY <1>1 DEF LockedBy, TypeOK
<1>3. Locked' = Locked \cup RowsToRelease(j)
  BY <1>1, <1>2 DEF Locked
<1>4. RowsToRelease(j) \subseteq Claimed /\ RowsToRelease(j) # {} /\ RowsToRelease(j) \cap Locked = {}
  BY <1>1 DEF RowsToRelease, RowsOfJob, MayTakeBack
<1>5. Locked' \subseteq Claimed'
  BY <1>1, <1>3, <1>4 DEF ReleasesConsistent, Claimed
<1>6. \A i \in Jobs : freeing'[i] # NoRelease => LockedBy(i)' # {}
  BY <1>2, <1>4 DEF ReleasesConsistent
<1>7. \A i, k \in Jobs : i # k => LockedBy(i)' \cap LockedBy(k)' = {}
  <2>1. \A i \in Jobs : LockedBy(i) \subseteq Locked
    BY DEF Locked
  <2> QED
    BY <1>2, <1>4, <2>1 DEF ReleasesConsistent
<1>8. "torn" \notin Faults =>
        \A w \in Workers : pc'[w] = "writing" => claim'[w].lead \notin Locked'
  BY <1>1, <1>3 DEF ReleasesConsistent, MayTakeBack
<1> QED
  BY <1>5, <1>6, <1>7, <1>8 DEF ReleasesConsistent

LEMMA ReleaseEnds ==
    ASSUME TypeOK, ReleasesConsistent, NEW j \in Jobs, EndRelease(j)
    PROVE  ReleasesConsistent'
<1>1. /\ freeing' = [freeing EXCEPT ![j] = NoRelease] /\ BackToQueue(LockedBy(j))
      /\ UNCHANGED <<pc, claim>>
  BY DEF EndRelease, workerVars, LockedBy
<1>2. /\ LockedBy(j)' = {} /\ freeing'[j] = NoRelease
      /\ \A i \in Jobs \ {j} : LockedBy(i)' = LockedBy(i) /\ freeing'[i] = freeing[i]
  BY <1>1 DEF LockedBy, TypeOK, NoRelease
<1>3. Locked' \subseteq Locked \ LockedBy(j)
  BY <1>2 DEF Locked, ReleasesConsistent
<1>4. Locked' \subseteq Claimed'
  BY <1>1, <1>3 DEF ReleasesConsistent, BackToQueue, Claimed
<1>5. \A i \in Jobs : freeing'[i] # NoRelease => LockedBy(i)' # {}
  BY <1>2 DEF ReleasesConsistent
<1>6. \A i, k \in Jobs : i # k => LockedBy(i)' \cap LockedBy(k)' = {}
  BY <1>2 DEF ReleasesConsistent
<1>7. "torn" \notin Faults =>
        \A w \in Workers : pc'[w] = "writing" => claim'[w].lead \notin Locked'
  BY <1>1, <1>3 DEF ReleasesConsistent
<1> QED
  BY <1>4, <1>5, <1>6, <1>7 DEF ReleasesConsistent

LEMMA StepReleasesConsistent == TypeOK /\ ClaimsConsistent /\ [Next]_vars => ReleasesConsistent'
<1> SUFFICES ASSUME TypeOK, ReleasesConsistent, TokensConsistent, [Next]_vars
             PROVE  ReleasesConsistent'
  BY DEF ClaimsConsistent
<1>0. Locked \subseteq Leads /\ \A l \in Locked : status[l] = "claimed"
  BY DEF ReleasesConsistent, Claimed
<1>1. ASSUME NEW w \in Workers, ClaimForDevice(w)
      PROVE  ReleasesConsistent'
  <2>1. PICK l \in ReadyCandidates : status' = [status EXCEPT ![l] = "claimed"]
                                      /\ claim' = [claim EXCEPT ![w] = claim'[w]]
    BY <1>1 DEF ClaimForDevice, TypeOK
  <2>2. UNCHANGED freeing /\ pc' = [pc EXCEPT ![w] = "holding"]
    BY <1>1 DEF ClaimForDevice, releaseVars
  <2>3. \A k \in Locked : status'[k] = status[k]
    BY <1>0, <2>1 DEF TypeOK
  <2>4. \A v \in Workers : pc'[v] = "writing" => pc[v] = "writing" /\ claim'[v] = claim[v]
    BY <2>1, <2>2 DEF TypeOK
  <2> QED
    BY <2>2, <2>3, <2>4, ReleasesKept
<1>2. ASSUME NEW w \in Workers, NEW v \in Verdicts, BeginCompletion(w, v)
      PROVE  ReleasesConsistent'
  <2>1. UNCHANGED <<freeing, status>> /\ ("torn" \in Faults \/ claim[w].lead \notin Locked)
    BY <1>2 DEF BeginCompletion, releaseVars, rowVars
  <2>2. \/ pc' = [pc EXCEPT ![w] = "writing"] /\ UNCHANGED claim
        \/ pc' = [pc EXCEPT ![w] = "idle"] /\ claim' = [claim EXCEPT ![w] = NoClaim]
    BY <1>2 DEF BeginCompletion
  <2>3. \A u \in Workers : pc'[u] = "writing" =>
          (pc[u] = "writing" \/ "torn" \in Faults \/ claim[u].lead \notin Locked)
          /\ claim'[u] = claim[u]
    BY <2>1, <2>2 DEF TypeOK
  <2> QED
    BY <2>1, <2>3, ReleasesKept
<1>3. ASSUME NEW w \in Workers, WriteCompletion(w)
      PROVE  ReleasesConsistent'
  <2>1. /\ claim[w].lead \notin Locked /\ UNCHANGED <<freeing, claim>>
        /\ \A l \in Leads : l # claim[w].lead => status'[l] = status[l]
        /\ pc' = [pc EXCEPT ![w] = "settling"]
    BY <1>3 DEF WriteCompletion, releaseVars, TypeOK
  <2>2. \A v \in Workers : pc'[v] = "writing" => pc[v] = "writing"
    BY <2>1 DEF TypeOK
  <2>3. \A l \in Locked : status'[l] = status[l]
    BY <1>0, <2>1
  <2> QED
    BY <2>1, <2>2, <2>3, ReleasesKept
<1>4. ASSUME NEW w \in Workers,
             RefuseClaim(w) \/ SettleQuota(w) \/ TransactionFails(w) \/ WorkerCrashes(w)
      PROVE  ReleasesConsistent'
  <2>1. /\ UNCHANGED <<freeing, status>>
        /\ \E p \in {"idle", "stopped", "dead"} : pc' = [pc EXCEPT ![w] = p]
        /\ claim' = claim \/ claim' = [claim EXCEPT ![w] = NoClaim]
    BY <1>4 DEF RefuseClaim, SettleQuota, TransactionFails, WorkerCrashes, releaseVars, rowVars
  <2>2. \A v \in Workers : pc'[v] = "writing" => pc[v] = "writing" /\ claim'[v] = claim[v]
    BY <2>1 DEF TypeOK
  <2> QED
    BY <2>1, <2>2, ReleasesKept
<1>5. ASSUME NEW rows, rows \cap Locked = {}, BackToQueue(rows), UNCHANGED <<freeing, pc, claim>>
      PROVE  ReleasesConsistent'
  <2>1. \A l \in Locked : status'[l] = status[l]
    BY <1>0, <1>5 DEF BackToQueue
  <2> QED
    BY <1>5, <2>1, ReleasesKept
<1>6. ASSUME NEW j \in Jobs, NEW owned \in BOOLEAN, ReleaseClaimedTasksForJob(j, owned)
      PROVE  ReleasesConsistent'
  BY <1>5, <1>6 DEF ReleaseClaimedTasksForJob, MayTakeBack, workerVars, releaseVars
<1>7. ASSUME NEW rows \in SUBSET Leads, RetryFailed(rows)
      PROVE  ReleasesConsistent'
  <2>1. rows \cap Locked = {}
    BY <1>0, <1>7 DEF RetryFailed
  <2> QED
    BY <1>5, <1>7, <2>1 DEF RetryFailed, workerVars, releaseVars
<1>8. ASSUME UNCHANGED <<freeing, status, pc, claim>>
      PROVE  ReleasesConsistent'
  BY <1>8, ReleasesKept
<1> QED
  BY <1>1, <1>2, <1>3, <1>4, <1>6, <1>7, <1>8, ReleaseBegins, ReleaseEnds
     DEF Next, vars, RetryAfterPasses, HourPasses, Midnight, rowVars, workerVars, releaseVars

LEMMA StepClaimsConsistent == TypeOK /\ ClaimsConsistent /\ [Next]_vars => ClaimsConsistent'
BY StepTokensConsistent, StepReleasesConsistent DEF ClaimsConsistent
------------------------------------------------------------------------------
\* In every reachable state the rows, the quota rows, the device counters and
\* the workers' memory hold values of their types.
THEOREM TypeCorrect == Spec => []TypeOK
BY InitTypeOK, InitClaimsConsistent, StepTypeOK, StepClaimsConsistent, PTL DEF Spec

\* Tokens never clash, in the queue or in the workers' memory.
THEOREM TokensNameOneClaim == Spec => []ClaimsConsistent
BY InitTypeOK, InitClaimsConsistent, StepTypeOK, StepClaimsConsistent, PTL DEF Spec

LEMMA ConsistentClaimsExclusive == ClaimsConsistent => OneClaimant
<1> SUFFICES ASSUME ClaimsConsistent, NEW l \in Leads,
                    NEW v \in Claimants(l), NEW w \in Claimants(l)
             PROVE  v = w
  BY DEF OneClaimant
<1>1. claim[v].token = claim_token[l] /\ claim[w].token = claim_token[l]
  BY DEF Claimants, StillMine
<1> QED
  BY <1>1 DEF Claimants, ClaimsConsistent, TokensConsistent, Busy

\* At most one worker can complete a lead at any time, whatever was cancelled,
\* retried or claimed again in between and however the reads and writes mix.
THEOREM ClaimExclusive == Spec => []OneClaimant
BY ConsistentClaimsExclusive, TokensNameOneClaim, PTL
------------------------------------------------------------------------------
\* The oldest pending lead that does not wait is ready, unless enough older ones
\* that do wait stand before it.
LEMMA OldestReady ==
    ASSUME ReadyCandidates = {}, ~(Pending \subseteq cooling)
    PROVE  Cardinality(Pending \cap cooling) >= CandidateLimit
<1> DEFINE N == Pending \ cooling
<1>1. N \in SUBSET Nat /\ N # {} /\ Pending \subseteq Leads
  BY SchedulerAssumption DEF Pending, SchedulerAssumption
<1>2. PICK l \in N : \A m \in N : l <= m
  <2> HIDE DEF N
  <2> QED
    BY <1>1, LeastNumber
<1> DEFINE Older == {k \in Pending : k < l}
<1>3. Older \subseteq Pending \cap cooling
  <2> SUFFICES ASSUME NEW k \in Pending, k < l, k \notin cooling
               PROVE  FALSE
    OBVIOUS
  <2>1. k \in N /\ k \in Nat /\ l \in Nat
    BY <1>1
  <2> QED
    BY <1>2, <2>1
<1>4. ~(Cardinality(Older) < CandidateLimit)
  BY <1>1 DEF ReadyCandidates, Candidates
<1>5. IsFiniteSet(Pending \cap cooling)
  <2>1. (Pending \cap cooling) \in SUBSET Leads
    BY <1>1
  <2> QED
    BY <2>1, FS_Subset, SchedulerAssumption DEF SchedulerAssumption
<1>6. /\ Cardinality(Older) \in Nat /\ Cardinality(Pending \cap cooling) \in Nat
      /\ Cardinality(Older) <= Cardinality(Pending \cap cooling)
  <2> HIDE DEF Older
  <2> QED
    BY <1>3, <1>5, FS_Subset, FS_CardinalityType
<1> QED
  BY <1>4, <1>6, SchedulerAssumption DEF SchedulerAssumption

\* A worker is sent home for want of tasks only if no pending lead is ready or
\* the leads that wait for their retry_after fill the whole candidate query.
THEOREM NoTaskHonest == Spec => []NoTaskMeansNoneReady
<1>1. ASSUME NEW w \in Workers, Refusal(w) = "no_task"
      PROVE  ReadyCandidates = {}
  BY <1>1 DEF Refusal
<1>2. NoTaskMeansNoneReady
  BY <1>1, OldestReady DEF NoTaskMeansNoneReady
<1> QED
  BY <1>2, PTL
------------------------------------------------------------------------------
LEMMA StepQuotaWithinLimit ==
    TypeOK /\ QuotaWithinLimit /\ [Next]_vars => QuotaWithinLimit'
<1> SUFFICES ASSUME TypeOK, QuotaWithinLimit, [Next]_vars, QuotaOn,
                    NEW d \in Days, d \notin overwritten'
             PROVE  sent'[d] + reserved'[d] <= EffectiveLimit
  BY DEF QuotaWithinLimit, QuotaOn, EffectiveLimit, PositiveLimits
<1>0. d \notin overwritten
  BY DEF Next, vars, releaseVars, ClaimForDevice, RefuseClaim, BeginCompletion, WriteCompletion,
         SettleQuota, TransactionFails, WorkerCrashes, ReleaseClaimedTasksForJob, BeginRelease,
         EndRelease, RetryFailed, RetryAfterPasses, HourPasses, Midnight
<1>1. /\ sent \in [Days -> Nat] /\ reserved \in [Days -> Nat] /\ today \in Days
      /\ sent[d] \in Nat /\ reserved[d] \in Nat /\ EffectiveLimit \in Nat
      /\ sent[d] + reserved[d] <= EffectiveLimit
  BY <1>0, LimitsAreNatural DEF TypeOK, QuotaWithinLimit
<1>2. ASSUME NEW w \in Workers, ClaimForDevice(w)
      PROVE  sent'[d] + reserved'[d] <= EffectiveLimit
  <2>1. sent' = sent /\ reserved' = [reserved EXCEPT ![today] = @ + 1]
    BY <1>2 DEF ClaimForDevice
  <2>2. QuotaFree
    BY <1>2 DEF ClaimForDevice, Refusal
  <2>3. sent[today] + reserved[today] < EffectiveLimit
    BY <2>2 DEF QuotaFree
  <2> QED
    BY <1>1, <2>1, <2>3
<1>3. ASSUME NEW w \in Workers, SettleQuota(w)
      PROVE  sent'[d] + reserved'[d] <= EffectiveLimit
  <2>1. \/ sent' = sent /\ reserved' = reserved
        \/ /\ reserved[today] > 0 /\ reserved' = [reserved EXCEPT ![today] = @ - 1]
           /\ sent' = sent \/ sent' = [sent EXCEPT ![today] = @ + 1]
    BY <1>3 DEF SettleQuota, HasReservation
  <2> QED
    BY <1>1, <2>1
<1>4. ASSUME NEW j \in Jobs, NEW owned \in BOOLEAN, ReleaseClaimedTasksForJob(j, owned)
      PROVE  sent'[d] + reserved'[d] <= EffectiveLimit
  <2> DEFINE n == Cardinality(RowsToRelease(j))
  <2>1. sent' = sent /\ (reserved' = reserved
                         \/ reserved' = [reserved EXCEPT ![today] = Monus(@, n)])
    BY <1>4 DEF ReleaseClaimedTasksForJob
  <2>2. reserved[today] \in Nat /\ Monus(reserved[today], n) \in Nat
        /\ Monus(reserved[today], n) <= reserved[today]
    BY <1>1, ReleasedRowsAreFinite, LimitsAreNatural
  <2> QED
    BY <1>1, <2>1, <2>2
<1>5. ASSUME NEW j \in Jobs, EndRelease(j)
      PROVE  sent'[d] + reserved'[d] <= EffectiveLimit
  <2> DEFINE f == freeing[j]
             n == Cardinality(f.rows)
  <2>1. f.rows \in SUBSET Leads /\ f.day \in Days /\ f.read \in Nat
    BY DEF TypeOK, Releases
  <2>2. n \in Nat
    BY <2>1, FS_Subset, FS_CardinalityType, SchedulerAssumption DEF SchedulerAssumption
  <2>3. /\ sent' = sent
        /\ reserved' = IF f.read > 0 THEN [reserved EXCEPT ![f.day] = Monus(f.read, n)]
                       ELSE reserved
        /\ overwritten' = overwritten \cup
                           {e \in Days : e = f.day /\ f.read > 0 /\ reserved[e] # f.read}
    BY <1>5 DEF EndRelease
  <2> HIDE DEF n
  <2>4. Monus(f.read, n) \in Nat /\ Monus(f.read, n) <= f.read
    BY <2>1, <2>2, LimitsAreNatural
  <2>5. d = f.day /\ f.read > 0 => reserved[d] = f.read
    BY <2>3
  <2> QED
    BY <1>1, <2>1, <2>3, <2>4, <2>5
<1>6. CASE UNCHANGED quotaVars
  BY <1>1, <1>6 DEF quotaVars
<1> QED
  BY <1>2, <1>3, <1>4, <1>5, <1>6
     DEF Next, vars, quotaVars, RefuseClaim, BeginRelease, BeginCompletion, WriteCompletion,
         TransactionFails, WorkerCrashes, RetryFailed, RetryAfterPasses, HourPasses, Midnight

\* On every day, sends settled plus sends reserved never exceed the effective
\* daily limit, for any mix of claims, completions, cancellations and crashes,
\* unless a release wrote an old count back over that day's row.
THEOREM QuotaBound == Spec => []QuotaWithinLimit
<1>1. Init => QuotaWithinLimit
  BY LimitsAreNatural DEF Init, QuotaWithinLimit
<1> QED
  BY <1>1, StepQuotaWithinLimit, TypeCorrect, PTL DEF Spec
------------------------------------------------------------------------------
(* MatrixScheduler implements ClaimLedger, as long as no other session writes *)
(* a row between the SELECT and the UPDATE of a completion: the ledger has no *)
(* step for what that completion then does.                                   *)

\* The refinement mapping of the instance Ledger, under names of its own.
Holder == [l \in Leads |-> IF status[l] = "claimed" THEN claim_token[l] ELSE NoToken]
Working == {claim[w].token : w \in Engaged}

LEMMA LedgerStarts == Init => Ledger!LedgerInit
<1> SUFFICES ASSUME Init
             PROVE  Ledger!LedgerInit
  OBVIOUS
<1>1. Engaged = {}
  BY DEF Init, Engaged
<1>2. \A l \in Leads : status[l] = "pending"
  BY DEF Init
<1> QED
  BY <1>1, <1>2 DEF Init, Ledger!LedgerInit

\* Nothing the ledger sees has changed.
LEMMA Stutter ==
    ASSUME status' = status, \A l \in Leads : claim_token'[l] = claim_token[l],
           Working' = Working
    PROVE  UNCHANGED Ledger!ledgerVars
BY DEF Ledger!ledgerVars, Working, Holder

LEMMA NoTokenIsNoClaim == NoToken \notin Tokens
BY DEF NoToken, Tokens

\* A worker stops meaning to report, and the queue does not change.
LEMMA LedgerGiveUp ==
    ASSUME TypeOK, ClaimsConsistent, NEW w \in Workers, w \in Engaged,
           UNCHANGED <<status, claim_token>>,
           NEW p \in {"idle", "dead"}, pc' = [pc EXCEPT ![w] = p],
           claim' = [claim EXCEPT ![w] = NoClaim]
    PROVE  \E c \in Tokens : Ledger!GiveUp(c)
<1>1. PICK c \in Tokens : c = claim[w].token
  BY DEF Engaged, ClaimsConsistent, TokensConsistent, Busy
<1>2. Engaged' = Engaged \ {w} /\ \A v \in Engaged' : claim'[v] = claim[v]
  BY DEF Engaged, TypeOK
<1>3. \A v \in Engaged : v # w => claim[v].token # c
  BY <1>1 DEF Engaged, ClaimsConsistent, TokensConsistent, Busy
<1>4. Working' = Working \ {c} /\ c \in Working
  BY <1>1, <1>2, <1>3 DEF Working
<1> QED
  BY <1>4 DEF Ledger!GiveUp, Working

LEMMA LedgerTake ==
    ASSUME TypeOK, ClaimsConsistent, NEW w \in Workers, ClaimForDevice(w)
    PROVE  \E l \in Leads, c \in Tokens : Ledger!Take(l, c)
<1>1. issued < MaxClaims
  BY DEF ClaimForDevice
<1>2. <<JobOf[w], issued + 1>> \in Tokens
  BY <1>1, ConstantTypes DEF TypeOK, Tokens
<1>3. PICK c \in Tokens : c = <<JobOf[w], issued + 1>>
  BY <1>2
<1>4. PICK l \in ReadyCandidates :
        /\ status' = [status EXCEPT ![l] = "claimed"]
        /\ claim_token' = [claim_token EXCEPT ![l] = c]
        /\ claim' = [claim EXCEPT ![w] = [lead |-> l, token |-> c]]
  BY <1>3 DEF ClaimForDevice
<1>5. l \in Leads /\ status[l] = "pending"
  BY DEF ReadyCandidates, Candidates, Pending
<1>6. issued \in Nat /\ c[2] = issued + 1
  BY <1>3 DEF TypeOK
<1>7. \A k \in Leads : Holder[k] # c
  BY <1>6, NoTokenIsNoClaim DEF Holder, ClaimsConsistent, TokensConsistent, Claimed, Tokens
<1>8. Holder' = [Holder EXCEPT ![l] = c]
  BY <1>4, <1>5 DEF Holder, TypeOK
<1>9. pc[w] = "idle" /\ pc' = [pc EXCEPT ![w] = "holding"]
  BY DEF ClaimForDevice
<1>10. /\ Engaged' = Engaged \cup {w} /\ w \notin Engaged
      /\ claim'[w].token = c /\ \A v \in Engaged : claim'[v] = claim[v]
  BY <1>4, <1>9 DEF Engaged, TypeOK
<1>11. Working' = Working \cup {c}
  BY <1>10 DEF Working
<1>12. Ledger!Take(l, c)
  BY <1>4, <1>5, <1>7, <1>8, <1>11 DEF Ledger!Take, Holder, Working
<1> QED
  BY <1>5, <1>12

LEMMA LedgerReport ==
    ASSUME "torn" \notin Faults, TypeOK, ClaimsConsistent,
           NEW w \in Workers, WriteCompletion(w)
    PROVE  \E l \in Leads, c \in Tokens : Ledger!Report(l, c)
<1>1. PICK l \in Leads, c \in Tokens : l = claim[w].lead /\ c = claim[w].token
  BY DEF WriteCompletion, ClaimsConsistent, TokensConsistent, Busy
<1> DEFINE x == writing[w]
           back == x.verdict \in {"retry", "release"}
           r == IF back THEN "pending" ELSE x.verdict
<1>2. /\ pc[w] = "writing" /\ pc' = [pc EXCEPT ![w] = "settling"]
      /\ status' = [status EXCEPT ![l] = r]
      /\ claim_token' = IF back THEN [claim_token EXCEPT ![l] = NoToken] ELSE claim_token
      /\ claim' = claim
  BY <1>1 DEF WriteCompletion
<1>3. status[l] = "claimed" /\ Holder[l] = c
  BY <1>1, <1>2 DEF StillMine, Holder, ClaimsConsistent, TokensConsistent
<1>4. r \in {"done", "failed", "pending"}
  BY DEF TypeOK, Writes, Verdicts
<1>5. Holder' = [Holder EXCEPT ![l] = NoToken]
  BY <1>2, <1>4 DEF Holder, TypeOK
<1>6. Engaged' = Engaged \ {w} /\ w \in Engaged
  BY <1>2 DEF Engaged, TypeOK
<1>7. \A v \in Engaged : v # w => claim[v].token # c
  BY <1>1, <1>6 DEF Engaged, ClaimsConsistent, TokensConsistent, Busy
<1>8. Working' = Working \ {c} /\ c \in Working
  BY <1>1, <1>2, <1>6, <1>7 DEF Working
<1>9. Ledger!Report(l, c)
  BY <1>2, <1>3, <1>4, <1>5, <1>8 DEF Ledger!Report, Holder, Working
<1> QED
  BY <1>9

\* Rows that go back to the queue by hand.
LEMMA LedgerSetPending ==
    ASSUME NEW rows \in SUBSET Leads, rows # {},
           status' = [l \in Leads |-> IF l \in rows THEN "pending" ELSE status[l]],
           claim_token' = [l \in Leads |-> IF l \in rows THEN NoToken ELSE claim_token[l]],
           UNCHANGED <<pc, claim>>
    PROVE  /\ (\A l \in rows : status[l] = "claimed") => Ledger!Revoke(rows)
           /\ (\A l \in rows : status[l] = "failed") => Ledger!Requeue(rows)
<1>1. Working' = Working
  BY DEF Working, Engaged
<1>2. Holder' = [l \in Leads |-> IF l \in rows THEN NoToken ELSE Holder[l]]
  BY DEF Holder
<1>3. (\A l \in rows : status[l] = "failed") => Holder' = Holder
  BY <1>2 DEF Holder
<1> QED
  BY <1>1, <1>2, <1>3 DEF Ledger!Revoke, Ledger!Requeue, Holder, Working
------------------------------------------------------------------------------
LEMMA LedgerSteps ==
    ASSUME "torn" \notin Faults, TypeOK, ClaimsConsistent, [Next]_vars
    PROVE  [Ledger!LedgerNext]_Ledger!ledgerVars
<1>1. ASSUME NEW w \in Workers, ClaimForDevice(w)
      PROVE  Ledger!LedgerNext
  BY <1>1, LedgerTake DEF Ledger!LedgerNext
<1>2. ASSUME NEW w \in Workers, WriteCompletion(w)
      PROVE  Ledger!LedgerNext
  BY <1>2, LedgerReport DEF Ledger!LedgerNext
<1>3. ASSUME NEW w \in Workers, NEW v \in Verdicts, BeginCompletion(w, v)
      PROVE  Ledger!LedgerNext \/ UNCHANGED Ledger!ledgerVars
  <2>1. UNCHANGED <<status, claim_token>> /\ pc[w] = "holding"
    BY <1>3 DEF BeginCompletion, rowVars
  <2>2. CASE StillMine(w)
    <3>1. pc' = [pc EXCEPT ![w] = "writing"] /\ claim' = claim
      BY <1>3, <2>2 DEF BeginCompletion
    <3>2. Engaged' = Engaged
      BY <2>1, <3>1 DEF Engaged, TypeOK
    <3> QED
      BY <2>1, <3>1, <3>2, Stutter DEF Working
  <2>3. CASE ~StillMine(w)
    <3>1. pc' = [pc EXCEPT ![w] = "idle"] /\ claim' = [claim EXCEPT ![w] = NoClaim]
      BY <1>3, <2>3 DEF BeginCompletion
    <3>2. w \in Engaged
      BY <2>1 DEF Engaged
    <3> QED
      BY <2>1, <3>1, <3>2, LedgerGiveUp DEF Ledger!LedgerNext
  <2> QED
    BY <2>2, <2>3
<1>4. ASSUME NEW w \in Workers, SettleQuota(w) \/ TransactionFails(w) \/ WorkerCrashes(w)
      PROVE  Ledger!LedgerNext \/ UNCHANGED Ledger!ledgerVars
  <2>1. PICK p \in {"idle", "dead"} :
          /\ UNCHANGED <<status, claim_token>> /\ pc' = [pc EXCEPT ![w] = p]
          /\ claim' = [claim EXCEPT ![w] = NoClaim]
    BY <1>4 DEF SettleQuota, TransactionFails, WorkerCrashes, rowVars
  <2>2. CASE w \in Engaged
    BY <2>1, <2>2, LedgerGiveUp DEF Ledger!LedgerNext
  <2>3. CASE w \notin Engaged
    <3>1. Engaged' = Engaged /\ \A v \in Engaged : claim'[v] = claim[v]
      BY <2>1, <2>3 DEF Engaged, TypeOK
    <3> QED
      BY <2>1, <3>1, Stutter DEF Working
  <2> QED
    BY <2>2, <2>3
<1>5. ASSUME NEW rows \in SUBSET Claimed, rows # {}, BackToQueue(rows), UNCHANGED <<pc, claim>>
      PROVE  Ledger!LedgerNext
  <2>1. rows \in SUBSET Leads /\ \A l \in rows : status[l] = "claimed"
    BY DEF Claimed
  <2>2. Ledger!Revoke(rows)
    BY <1>5, <2>1, LedgerSetPending DEF BackToQueue
  <2> QED
    BY <2>1, <2>2 DEF Ledger!LedgerNext
<1>9. ASSUME NEW j \in Jobs, NEW owned \in BOOLEAN, ReleaseClaimedTasksForJob(j, owned)
      PROVE  Ledger!LedgerNext
  <2>1. RowsToRelease(j) \in SUBSET Claimed
    BY DEF RowsToRelease, RowsOfJob
  <2> QED
    BY <1>5, <1>9, <2>1 DEF ReleaseClaimedTasksForJob, MayTakeBack, workerVars
<1>10. ASSUME NEW j \in Jobs, EndRelease(j)
       PROVE  Ledger!LedgerNext
  <2>1. LockedBy(j) \in SUBSET Claimed /\ LockedBy(j) # {}
    BY <1>10 DEF EndRelease, ClaimsConsistent, ReleasesConsistent, Locked
  <2> QED
    BY <1>5, <1>10, <2>1 DEF EndRelease, LockedBy, workerVars
<1>6. ASSUME NEW rows \in SUBSET Leads, RetryFailed(rows)
      PROVE  Ledger!LedgerNext
  <2>1. \A l \in rows : status[l] = "failed"
    BY <1>6 DEF RetryFailed
  <2>2. /\ rows # {} /\ UNCHANGED <<pc, claim>>
        /\ status' = [l \in Leads |-> IF l \in rows THEN "pending" ELSE status[l]]
        /\ claim_token' = [l \in Leads |-> IF l \in rows THEN NoToken ELSE claim_token[l]]
    BY <1>6 DEF RetryFailed, BackToQueue, workerVars
  <2>3. Ledger!Requeue(rows)
    BY <2>1, <2>2, LedgerSetPending
  <2> QED
    BY <2>3 DEF Ledger!LedgerNext
<1>7. ASSUME NEW w \in Workers, RefuseClaim(w)
      PROVE  UNCHANGED Ledger!ledgerVars
  <2>1. UNCHANGED <<status, claim_token, claim>> /\ pc[w] = "idle"
        /\ pc' = [pc EXCEPT ![w] = "stopped"]
    BY <1>7 DEF RefuseClaim, rowVars
  <2>2. Engaged' = Engaged
    BY <2>1 DEF Engaged, TypeOK
  <2> QED
    BY <2>1, <2>2, Stutter DEF Working
<1>8. ASSUME UNCHANGED <<status, claim_token, pc, claim>>
      PROVE  UNCHANGED Ledger!ledgerVars
  BY <1>8, Stutter DEF Working, Engaged
<1> QED
  BY <1>1, <1>2, <1>3, <1>4, <1>6, <1>7, <1>8, <1>9, <1>10
     DEF Next, vars, BeginRelease, RetryAfterPasses, HourPasses, Midnight, rowVars, workerVars

\* The scheduler keeps the promise of the claim ledger: every change of a lead
\* is one the ledger allows, so a late report of an old claim changes nothing
\* and a done lead stays done.
THEOREM SchedulerKeepsLedger ==
    ASSUME "torn" \notin Faults
    PROVE  Spec => KeepsLedger
<1>1. Init => Ledger!LedgerInit
  BY LedgerStarts
<1>2. TypeOK /\ ClaimsConsistent /\ [Next]_vars => [Ledger!LedgerNext]_Ledger!ledgerVars
  BY LedgerSteps
<1> QED
  BY <1>1, <1>2, TypeCorrect, TokensNameOneClaim, PTL DEF Spec, KeepsLedger, Ledger!LedgerSpec
=============================================================================
