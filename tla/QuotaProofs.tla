----------------------------- MODULE QuotaProofs -----------------------------
(***************************************************************************)
(* The daily limit holds for the leads actually messaged, not only for the *)
(* quota row: as long as no claim crosses midnight and no completion is    *)
(* torn, what the row counts for a day covers the leads recorded as done   *)
(* on it, the claims in flight and the settlements still to come, unless a *)
(* release wrote an old count back over it.                                *)
(* The limits of a device count the rows themselves, and hold over midnight*)
(* too.                                                                    *)
(***************************************************************************)
EXTENDS SchedulerProofs

\* Completions written whose settlement will give the reservation back.
Refunding == {w \in Workers : pc[w] = "settling" /\ writing[w].verdict # "done"}

\* Done leads carry a day that has begun, and a completion is written and a
\* release committed on the day it was begun.
DaysCurrent ==
    /\ \A l \in Leads : status[l] = "done" => stamp[l] <= today
    /\ \A w \in Workers : pc[w] = "writing" => writing[w].day = today
    /\ \A j \in Jobs : freeing[j] # NoRelease => freeing[j].day = today

\* The quota row of a day covers everything that was or may still be sent.
Open == Cardinality(Claimed) + Cardinality(Refunding)
QuotaCovers ==
    \A d \in Days \ overwritten :
      Cardinality(DoneOn(d)) + (IF d = today THEN Open ELSE 0) <= sent[d] + reserved[d]

QuotaInv == DaysCurrent /\ (QuotaOn => QuotaCovers)
------------------------------------------------------------------------------
LEMMA CountsAreNatural ==
    /\ IsFiniteSet(Claimed) /\ Cardinality(Claimed) \in Nat
    /\ IsFiniteSet(Refunding) /\ Cardinality(Refunding) \in Nat
    /\ \A d \in Days : IsFiniteSet(DoneOn(d)) /\ Cardinality(DoneOn(d)) \in Nat
<1>1. Claimed \in SUBSET Leads /\ \A d \in Days : DoneOn(d) \in SUBSET Leads
  BY DEF Claimed, DoneOn
<1>2. Refunding \in SUBSET Workers
  BY DEF Refunding
<1> QED
  BY <1>1, <1>2, FS_Subset, FS_CardinalityType, SchedulerAssumption DEF SchedulerAssumption

LEMMA CountsAreNaturalNext ==
    /\ IsFiniteSet(Claimed') /\ Cardinality(Claimed') \in Nat
    /\ IsFiniteSet(Refunding') /\ Cardinality(Refunding') \in Nat
    /\ \A d \in Days : IsFiniteSet(DoneOn(d)') /\ Cardinality(DoneOn(d)') \in Nat
<1>1. Claimed' \in SUBSET Leads /\ \A d \in Days : DoneOn(d)' \in SUBSET Leads
  BY DEF Claimed, DoneOn
<1>2. Refunding' \in SUBSET Workers
  BY DEF Refunding
<1> QED
  BY <1>1, <1>2, FS_Subset, FS_CardinalityType, SchedulerAssumption DEF SchedulerAssumption

\* A set that gains at most one element grows by at most one.
LEMMA GainsAtMostOne ==
    ASSUME NEW S, IsFiniteSet(S), NEW x, NEW T \in SUBSET (S \cup {x})
    PROVE  Cardinality(T) <= Cardinality(S) + 1
<1>1. /\ IsFiniteSet(S \cup {x})
      /\ Cardinality(S \cup {x}) = IF x \in S THEN Cardinality(S) ELSE Cardinality(S) + 1
  BY FS_AddElement
<1>2. /\ Cardinality(T) <= Cardinality(S \cup {x}) /\ Cardinality(S) \in Nat
      /\ Cardinality(S \cup {x}) \in Nat /\ Cardinality(T) \in Nat
  BY <1>1, FS_Subset, FS_CardinalityType
<1> QED
  BY <1>1, <1>2

\* A set that loses an element shrinks by at least one.
LEMMA LosesOne ==
    ASSUME NEW S, IsFiniteSet(S), NEW x \in S, NEW T \in SUBSET (S \ {x})
    PROVE  Cardinality(T) + 1 <= Cardinality(S)
<1>1. IsFiniteSet(S \ {x}) /\ Cardinality(S \ {x}) = Cardinality(S) - 1
  BY FS_RemoveElement
<1>2. /\ Cardinality(T) <= Cardinality(S \ {x}) /\ Cardinality(S) \in Nat
      /\ Cardinality(S \ {x}) \in Nat /\ Cardinality(T) \in Nat
  BY <1>1, FS_Subset, FS_CardinalityType
<1> QED
  BY <1>1, <1>2
------------------------------------------------------------------------------
LEMMA StepDaysCurrent ==
    ASSUME "midnight" \notin Faults, TypeOK, ClaimsConsistent, DaysCurrent, [Next]_vars
    PROVE  DaysCurrent'
<1> USE ConstantTypes
<1>0. today \in Nat /\ (today' = today \/ (today' = today + 1 /\ Quiet /\ Midnight))
  <2>1. today \in Nat
    BY DEF TypeOK
  <2>2. today' = today \/ Midnight
    BY DEF Next, vars, ClaimForDevice, RefuseClaim, BeginCompletion, WriteCompletion,
           SettleQuota, TransactionFails, WorkerCrashes, ReleaseClaimedTasksForJob,
           BeginRelease, EndRelease, RetryFailed, RetryAfterPasses, HourPasses
  <2> QED
    BY <2>1, <2>2 DEF Midnight
<1>1. ASSUME NEW w \in Workers, ClaimForDevice(w)
      PROVE  DaysCurrent'
  <2>1. PICK l \in Leads : /\ status' = [status EXCEPT ![l] = "claimed"]
                           /\ stamp' = [stamp EXCEPT ![l] = today]
    BY <1>1 DEF ClaimForDevice, ReadyCandidates, Candidates, Pending
  <2>2. pc' = [pc EXCEPT ![w] = "holding"] /\ UNCHANGED <<today, writing, freeing>>
    BY <1>1 DEF ClaimForDevice, releaseVars
  <2> QED
    BY <2>1, <2>2 DEF DaysCurrent, TypeOK
<1>2. ASSUME NEW w \in Workers, NEW v \in Verdicts, BeginCompletion(w, v)
      PROVE  DaysCurrent'
  <2>1. UNCHANGED <<status, stamp, today, freeing>>
    BY <1>2 DEF BeginCompletion, rowVars, releaseVars
  <2>2. \A u \in Workers : pc'[u] = "writing" => writing'[u].day = today
    <3>1. CASE StillMine(w)
      <4>1. /\ pc' = [pc EXCEPT ![w] = "writing"]
            /\ \E n, m \in Nat : writing' = [writing EXCEPT ![w] =
                 [verdict |-> v, day |-> today, daily |-> n, wave |-> m,
                  opens |-> device[DeviceOf[w]].window # "open"]]
        BY <1>2, <3>1 DEF BeginCompletion, TypeOK, ConsumerStates
      <4> QED
        BY <4>1 DEF DaysCurrent, TypeOK
    <3>2. CASE ~StillMine(w)
      <4>1. pc' = [pc EXCEPT ![w] = "idle"] /\ UNCHANGED writing
        BY <1>2, <3>2 DEF BeginCompletion
      <4> QED
        BY <4>1 DEF DaysCurrent, TypeOK
    <3> QED
      BY <3>1, <3>2
  <2> QED
    BY <2>1, <2>2 DEF DaysCurrent
<1>3. ASSUME NEW w \in Workers, WriteCompletion(w)
      PROVE  DaysCurrent'
  <2> DEFINE l == claim[w].lead
             x == writing[w]
             back == x.verdict \in {"retry", "release"}
  <2>1. /\ status' = [status EXCEPT ![l] = IF back THEN "pending" ELSE x.verdict]
        /\ stamp' = [stamp EXCEPT ![l] = IF back THEN 0 ELSE x.day]
        /\ pc' = [pc EXCEPT ![w] = "settling"]
        /\ UNCHANGED <<today, writing, freeing>>
    BY <1>3 DEF WriteCompletion, releaseVars
  <2>2. x.day = today
    BY <1>3 DEF WriteCompletion, DaysCurrent
  <2> QED
    BY <1>0, <2>1, <2>2 DEF DaysCurrent, TypeOK
<1>4. ASSUME NEW w \in Workers, SettleQuota(w) \/ TransactionFails(w) \/ WorkerCrashes(w)
      PROVE  DaysCurrent'
  <2>1. /\ pc' = [pc EXCEPT ![w] = "idle"] \/ pc' = [pc EXCEPT ![w] = "dead"]
        /\ writing' = [writing EXCEPT ![w] = NoWrite]
        /\ UNCHANGED <<status, stamp, today, freeing>>
    BY <1>4 DEF SettleQuota, TransactionFails, WorkerCrashes, rowVars, releaseVars
  <2> QED
    BY <2>1 DEF DaysCurrent, TypeOK
<1>5. ASSUME NEW rows, BackToQueue(rows), UNCHANGED <<today, workerVars>>,
             \A j \in Jobs : freeing'[j] \in {freeing[j], NoRelease}
      PROVE  DaysCurrent'
  BY <1>5 DEF BackToQueue, DaysCurrent, TypeOK, workerVars
<1>6. ASSUME NEW j \in Jobs, NEW owned \in BOOLEAN, ReleaseClaimedTasksForJob(j, owned)
      PROVE  DaysCurrent'
  BY <1>5, <1>6 DEF ReleaseClaimedTasksForJob, releaseVars
<1>7. ASSUME NEW rows \in SUBSET Leads, RetryFailed(rows)
      PROVE  DaysCurrent'
  BY <1>5, <1>7 DEF RetryFailed, releaseVars
<1>11. ASSUME NEW j \in Jobs, EndRelease(j)
       PROVE  DaysCurrent'
  BY <1>5, <1>11 DEF EndRelease, TypeOK
<1>12. ASSUME NEW j \in Jobs, BeginRelease(j)
       PROVE  DaysCurrent'
  <2>1. /\ UNCHANGED <<status, stamp, today, pc, writing>>
        /\ freeing' = [freeing EXCEPT ![j] = [rows |-> RowsToRelease(j), day |-> today,
                                              read |-> reserved[today]]]
    BY <1>12 DEF BeginRelease, rowVars, workerVars
  <2> QED
    BY <2>1 DEF DaysCurrent, TypeOK
<1>8. ASSUME Midnight
      PROVE  DaysCurrent'
  <2>1. today' = today + 1 /\ UNCHANGED <<status, stamp, pc, writing, freeing>>
    BY <1>8 DEF Midnight, rowVars, workerVars, releaseVars
  <2>2. \A w \in Workers : pc[w] # "writing"
    BY <1>8 DEF Midnight, Quiet
  <2>3. \A j \in Jobs : freeing[j] = NoRelease
    BY <1>8 DEF Midnight, Quiet, ClaimsConsistent, ReleasesConsistent, Locked
  <2> QED
    BY <1>0, <2>1, <2>2, <2>3 DEF DaysCurrent, TypeOK
<1>9. ASSUME UNCHANGED <<status, stamp, today, writing, freeing>>,
             \A w \in Workers : pc'[w] = "writing" => pc[w] = "writing"
      PROVE  DaysCurrent'
  BY <1>9 DEF DaysCurrent
<1>10. ASSUME NEW w \in Workers, RefuseClaim(w)
       PROVE  DaysCurrent'
  BY <1>9, <1>10 DEF RefuseClaim, TypeOK, rowVars, releaseVars
<1> QED
  BY <1>1, <1>2, <1>3, <1>4, <1>6, <1>7, <1>8, <1>9, <1>10, <1>11, <1>12
     DEF Next, vars, RetryAfterPasses, HourPasses, rowVars, workerVars, releaseVars
------------------------------------------------------------------------------
\* One day's line of QuotaCovers, now and after a step.
Covered(d) ==
    Cardinality(DoneOn(d)) + (IF d = today THEN Open ELSE 0) <= sent[d] + reserved[d]

\* Nothing new to cover and nothing taken off the quota row.
LEMMA NothingNewToCover ==
    ASSUME TypeOK, NEW d \in Days, Covered(d),
           UNCHANGED <<sent, reserved, today>>,
           Claimed' \subseteq Claimed, Refunding' \subseteq Refunding,
           DoneOn(d)' \subseteq DoneOn(d)
    PROVE  Covered(d)'
<1>1. /\ Cardinality(Claimed') <= Cardinality(Claimed)
      /\ Cardinality(Refunding') <= Cardinality(Refunding)
      /\ Cardinality(DoneOn(d)') <= Cardinality(DoneOn(d))
  BY CountsAreNatural, FS_Subset
<1>2. Open' <= Open /\ Open \in Nat /\ Open' \in Nat
  BY <1>1, CountsAreNatural, CountsAreNaturalNext DEF Open
<1>3. sent[d] \in Nat /\ reserved[d] \in Nat /\ Covered(d)
  BY DEF TypeOK
<1> QED
  BY <1>1, <1>2, <1>3, CountsAreNatural, CountsAreNaturalNext DEF Covered

LEMMA ClaimCovered ==
    ASSUME TypeOK, QuotaOn, NEW d \in Days, Covered(d),
           NEW w \in Workers, ClaimForDevice(w)
    PROVE  Covered(d)'
<1>1. /\ sent' = sent /\ today' = today
      /\ reserved' = [reserved EXCEPT ![today] = @ + 1]
      /\ pc' = [pc EXCEPT ![w] = "holding"] /\ writing' = writing
  BY DEF ClaimForDevice
<1>2. PICK l \in Leads : /\ status[l] = "pending"
                         /\ status' = [status EXCEPT ![l] = "claimed"]
                         /\ stamp' = [stamp EXCEPT ![l] = today]
  BY DEF ClaimForDevice, ReadyCandidates, Candidates, Pending
<1>3. /\ Claimed' \in SUBSET (Claimed \cup {l})
      /\ Refunding' \in SUBSET Refunding /\ DoneOn(d)' \in SUBSET DoneOn(d)
  BY <1>1, <1>2 DEF Claimed, Refunding, DoneOn, TypeOK
<1>4. /\ Cardinality(Claimed') <= Cardinality(Claimed) + 1
      /\ Cardinality(Refunding') <= Cardinality(Refunding)
      /\ Cardinality(DoneOn(d)') <= Cardinality(DoneOn(d))
  BY <1>3, CountsAreNatural, GainsAtMostOne, FS_Subset
<1>5. Open' <= Open + 1 /\ Open \in Nat /\ Open' \in Nat
  BY <1>4, CountsAreNatural, CountsAreNaturalNext DEF Open
<1>6. /\ sent \in [Days -> Nat] /\ reserved \in [Days -> Nat] /\ today \in Days
      /\ sent[d] \in Nat /\ reserved[d] \in Nat /\ Covered(d)
  BY DEF TypeOK
<1>7. reserved'[d] = IF d = today THEN reserved[d] + 1 ELSE reserved[d]
  BY <1>1, <1>6
<1> QED
  BY <1>1, <1>4, <1>5, <1>6, <1>7, CountsAreNatural, CountsAreNaturalNext DEF Covered

\* A completion turns a claimed row into a done one or into a refund to come.
LEMMA CompletionCovered ==
    ASSUME "torn" \notin Faults, TypeOK, ClaimsConsistent, DaysCurrent,
           NEW d \in Days, Covered(d), NEW w \in Workers, WriteCompletion(w)
    PROVE  Covered(d)'
<1> DEFINE l == claim[w].lead
           x == writing[w]
           back == x.verdict \in {"retry", "release"}
<1>1. /\ status' = [status EXCEPT ![l] = IF back THEN "pending" ELSE x.verdict]
      /\ stamp' = [stamp EXCEPT ![l] = IF back THEN 0 ELSE x.day]
      /\ pc' = [pc EXCEPT ![w] = "settling"]
      /\ UNCHANGED <<sent, reserved, today, writing>>
  BY DEF WriteCompletion, quotaVars
<1>2. l \in Claimed /\ l \in Leads /\ status[l] = "claimed"
  BY DEF WriteCompletion, ClaimsConsistent, TokensConsistent, StillMine, Claimed
<1>3. x.verdict \in Verdicts /\ x.day = today
  BY DEF WriteCompletion, DaysCurrent, TypeOK, Writes
<1>4. Claimed' \in SUBSET (Claimed \ {l})
  BY <1>1, <1>2, <1>3 DEF Claimed, TypeOK, Verdicts
<1>5. \/ DoneOn(d)' \in SUBSET DoneOn(d) /\ Refunding' \in SUBSET (Refunding \cup {w})
      \/ d = today /\ DoneOn(d)' \in SUBSET (DoneOn(d) \cup {l})
         /\ Refunding' \in SUBSET Refunding
      \/ DoneOn(d)' \in SUBSET DoneOn(d) /\ Refunding' \in SUBSET Refunding
  <2>1. CASE x.verdict = "done"
    <3>1. Refunding' \in SUBSET Refunding
      BY <1>1, <2>1 DEF Refunding, TypeOK
    <3>2. CASE d = today
      BY <1>1, <3>1, <3>2 DEF DoneOn, TypeOK
    <3>3. CASE d # today
      BY <1>1, <1>3, <2>1, <3>1, <3>3 DEF DoneOn, TypeOK
    <3> QED
      BY <3>2, <3>3
  <2>2. CASE x.verdict # "done"
    BY <1>1, <1>2, <2>2 DEF DoneOn, Refunding, TypeOK
  <2> QED
    BY <2>1, <2>2
<1>6. Cardinality(Claimed') + 1 <= Cardinality(Claimed)
  BY <1>2, <1>4, CountsAreNatural, LosesOne
<1>7. \/ /\ Cardinality(DoneOn(d)') <= Cardinality(DoneOn(d))
         /\ Cardinality(Refunding') <= Cardinality(Refunding) + 1
      \/ /\ d = today /\ Cardinality(DoneOn(d)') <= Cardinality(DoneOn(d)) + 1
         /\ Cardinality(Refunding') <= Cardinality(Refunding)
  <2>1. /\ DoneOn(d)' \in SUBSET DoneOn(d)
             => Cardinality(DoneOn(d)') <= Cardinality(DoneOn(d))
        /\ DoneOn(d)' \in SUBSET (DoneOn(d) \cup {l})
             => Cardinality(DoneOn(d)') <= Cardinality(DoneOn(d)) + 1
        /\ Refunding' \in SUBSET Refunding
             => Cardinality(Refunding') <= Cardinality(Refunding)
        /\ Refunding' \in SUBSET (Refunding \cup {w})
             => Cardinality(Refunding') <= Cardinality(Refunding) + 1
    BY CountsAreNatural, GainsAtMostOne, FS_Subset
  <2> QED
    BY <1>5, <2>1, CountsAreNatural, CountsAreNaturalNext
<1>8. /\ sent[d] \in Nat /\ reserved[d] \in Nat /\ Covered(d)
      /\ Open = Cardinality(Claimed) + Cardinality(Refunding)
      /\ Open' = Cardinality(Claimed') + Cardinality(Refunding')
  BY DEF TypeOK, Covered, Open
<1>9. Covered(d)' <=> Cardinality(DoneOn(d)') + (IF d = today THEN Open' ELSE 0)
                        <= sent[d] + reserved[d]
  BY <1>1 DEF Covered
<1> HIDE DEF l, x, back
<1> QED
  BY <1>6, <1>7, <1>8, <1>9, CountsAreNatural, CountsAreNaturalNext DEF Covered

\* A send only moves from reserved to sent; a refund was covered beforehand.
LEMMA SettlementCovered ==
    ASSUME TypeOK, NEW d \in Days, Covered(d), NEW w \in Workers, SettleQuota(w)
    PROVE  Covered(d)'
<1>1. /\ pc' = [pc EXCEPT ![w] = "idle"] /\ pc[w] = "settling"
      /\ UNCHANGED <<status, stamp, today>>
      /\ \A u \in Workers : u # w => writing'[u] = writing[u]
  BY DEF SettleQuota, rowVars, TypeOK
<1>2. Claimed' = Claimed /\ DoneOn(d)' = DoneOn(d) /\ Refunding' \in SUBSET (Refunding \ {w})
  BY <1>1 DEF Claimed, DoneOn, Refunding, TypeOK
<1>3. /\ sent \in [Days -> Nat] /\ reserved \in [Days -> Nat] /\ today \in Days
      /\ sent[d] \in Nat /\ reserved[d] \in Nat /\ Covered(d)
  BY DEF TypeOK
<1>4. \/ sent'[d] + reserved'[d] = sent[d] + reserved[d]
      \/ /\ writing[w].verdict # "done"
         /\ sent'[d] + reserved'[d] + 1 = sent[d] + reserved[d] /\ d = today
  <2>1. \/ sent' = sent /\ reserved' = reserved
        \/ /\ reserved[today] > 0 /\ reserved' = [reserved EXCEPT ![today] = @ - 1]
           /\ \/ writing[w].verdict # "done" /\ sent' = sent
              \/ sent' = [sent EXCEPT ![today] = @ + 1]
    BY DEF SettleQuota, HasReservation, SettledAsSent
  <2>2. CASE d = today
    BY <1>3, <2>1, <2>2
  <2>3. CASE d # today
    BY <1>3, <2>1, <2>3
  <2> QED
    BY <2>2, <2>3
<1>5. /\ Cardinality(Refunding') <= Cardinality(Refunding)
      /\ writing[w].verdict # "done" => Cardinality(Refunding') + 1 <= Cardinality(Refunding)
  <2>1. writing[w].verdict # "done" => w \in Refunding
    BY <1>1 DEF Refunding
  <2>2. Refunding' \in SUBSET Refunding
    BY <1>2
  <2> QED
    BY <1>2, <2>1, <2>2, CountsAreNatural, LosesOne, FS_Subset
<1>6. /\ Open = Cardinality(Claimed) + Cardinality(Refunding)
      /\ Open' = Cardinality(Claimed) + Cardinality(Refunding')
  BY <1>2 DEF Open
<1>7. /\ sent'[d] \in Nat /\ reserved'[d] \in Nat
  BY <1>3 DEF SettleQuota, HasReservation, TypeOK
<1>8. Covered(d)' <=> Cardinality(DoneOn(d)) + (IF d = today THEN Open' ELSE 0)
                        <= sent'[d] + reserved'[d]
  BY <1>1, <1>2 DEF Covered
<1> QED
  BY <1>3, <1>4, <1>5, <1>6, <1>7, <1>8, CountsAreNatural, CountsAreNaturalNext DEF Covered

\* Taking rows back frees no more than they had reserved.
LEMMA ReleaseCovered ==
    ASSUME TypeOK, NEW d \in Days, Covered(d),
           NEW rows \in SUBSET Claimed, BackToQueue(rows), UNCHANGED <<sent, today, pc, writing>>,
           \/ reserved'[d] = reserved[d]
           \/ d = today /\ reserved'[d] = Monus(reserved[d], Cardinality(rows))
    PROVE  Covered(d)'
<1> DEFINE n == Cardinality(rows)
<1>1. /\ status' = [l \in Leads |-> IF l \in rows THEN "pending" ELSE status[l]]
      /\ stamp' = [l \in Leads |-> IF l \in rows THEN 0 ELSE stamp[l]]
      /\ UNCHANGED <<sent, today, pc, writing>>
      /\ reserved'[d] = reserved[d] \/ (d = today /\ reserved'[d] = Monus(reserved[d], n))
  BY DEF BackToQueue
<1>2. rows \in SUBSET Claimed
  OBVIOUS
<1>3. /\ Claimed' = Claimed \ rows /\ Refunding' = Refunding
      /\ DoneOn(d)' \in SUBSET DoneOn(d)
  BY <1>1, <1>2 DEF Claimed, Refunding, DoneOn
<1>4. Cardinality(Claimed') + n = Cardinality(Claimed) /\ n \in Nat
  <2>1. Cardinality(Claimed \ rows) = Cardinality(Claimed) - Cardinality(Claimed \cap rows)
    BY CountsAreNatural, FS_Difference
  <2>2. Claimed \cap rows = rows
    BY <1>2
  <2>3. Cardinality(Claimed') = Cardinality(Claimed) - n
    BY <1>3, <2>1, <2>2
  <2>4. n \in Nat
    BY CountsAreNatural, FS_Subset, FS_CardinalityType
  <2> HIDE DEF n
  <2> QED
    BY <2>3, <2>4, CountsAreNatural
<1>5. Cardinality(DoneOn(d)') <= Cardinality(DoneOn(d))
  BY <1>3, CountsAreNatural, FS_Subset
<1>6. /\ sent \in [Days -> Nat] /\ reserved \in [Days -> Nat] /\ today \in Days
      /\ sent[d] \in Nat /\ reserved[d] \in Nat /\ Covered(d)
  BY DEF TypeOK
<1> HIDE DEF n
<1>7. /\ reserved'[d] \in Nat
      /\ d = today => reserved[d] <= reserved'[d] + n
      /\ d # today => reserved'[d] = reserved[d]
  BY <1>1, <1>4, <1>6 DEF Monus
<1>8. /\ Open = Cardinality(Claimed) + Cardinality(Refunding)
      /\ Open' = Cardinality(Claimed') + Cardinality(Refunding)
  BY <1>3 DEF Open
<1>9. Covered(d)' <=> Cardinality(DoneOn(d)') + (IF d = today THEN Open' ELSE 0)
                        <= sent[d] + reserved'[d]
  BY <1>1 DEF Covered
<1> QED
  BY <1>4, <1>5, <1>6, <1>7, <1>8, <1>9, CountsAreNatural, CountsAreNaturalNext DEF Covered

\* The new day starts with nothing sent and nothing in flight.
LEMMA MidnightCovered ==
    ASSUME "midnight" \notin Faults, TypeOK, DaysCurrent, NEW d \in Days, Covered(d), Midnight
    PROVE  Covered(d)'
<1>1. today' = today + 1 /\ UNCHANGED <<status, stamp, sent, reserved, pc, writing>> /\ Quiet
  BY DEF Midnight, rowVars, quotaVars, workerVars
<1>2. Claimed' = {} /\ Refunding' = {} /\ Claimed = {} /\ Refunding = {}
  BY <1>1 DEF Quiet, Claimed, Refunding
<1>3. Open' = 0 /\ Open = 0
  BY <1>2, FS_EmptySet DEF Open
<1>4. DoneOn(d)' = DoneOn(d)
  BY <1>1 DEF DoneOn
<1>5. sent[d] \in Nat /\ reserved[d] \in Nat /\ Covered(d)
  BY DEF TypeOK
<1> QED
  BY <1>1, <1>3, <1>4, <1>5, CountsAreNatural DEF Covered
------------------------------------------------------------------------------
LEMMA StepQuotaCovers ==
    ASSUME "midnight" \notin Faults, "torn" \notin Faults, QuotaOn,
           TypeOK, ClaimsConsistent, DaysCurrent, QuotaCovers, [Next]_vars
    PROVE  QuotaCovers'
<1> SUFFICES ASSUME NEW d \in Days, d \notin overwritten'
             PROVE  Covered(d)'
  BY DEF QuotaCovers, Covered
<1>0. d \notin overwritten
  BY DEF Next, vars, releaseVars, ClaimForDevice, RefuseClaim, BeginCompletion, WriteCompletion,
         SettleQuota, TransactionFails, WorkerCrashes, ReleaseClaimedTasksForJob, BeginRelease,
         EndRelease, RetryFailed, RetryAfterPasses, HourPasses, Midnight
<1>5. Covered(d) /\ today \in Days /\ reserved \in [Days -> Nat]
  BY <1>0 DEF QuotaCovers, Covered, TypeOK
<1>1. ASSUME UNCHANGED <<status, stamp, sent, reserved, today>>, Refunding' \subseteq Refunding
      PROVE  Covered(d)'
  <2>1. Claimed' = Claimed /\ DoneOn(d)' = DoneOn(d)
    BY <1>1 DEF Claimed, DoneOn
  <2> QED
    BY <1>1, <1>5, <2>1, NothingNewToCover
<1>2. ASSUME NEW w \in Workers,
             RefuseClaim(w) \/ (\E v \in Verdicts : BeginCompletion(w, v))
             \/ TransactionFails(w) \/ WorkerCrashes(w)
      PROVE  Covered(d)'
  <2>1. /\ UNCHANGED <<status, stamp, sent, reserved, today>>
        /\ \E p \in {"stopped", "writing", "idle", "dead"} : pc' = [pc EXCEPT ![w] = p]
    BY <1>2 DEF RefuseClaim, BeginCompletion, TransactionFails, WorkerCrashes,
                rowVars, quotaVars
  <2>2. \A u \in Workers : u # w => writing'[u] = writing[u]
    BY <1>2 DEF RefuseClaim, BeginCompletion, TransactionFails, WorkerCrashes, TypeOK
  <2>3. Refunding' \subseteq Refunding
    BY <2>1, <2>2 DEF Refunding, TypeOK
  <2> QED
    BY <1>1, <2>1, <2>3
<1>3. ASSUME NEW rows \in SUBSET Leads, RetryFailed(rows)
      PROVE  Covered(d)'
  <2>1. /\ status' = [l \in Leads |-> IF l \in rows THEN "pending" ELSE status[l]]
        /\ stamp' = [l \in Leads |-> IF l \in rows THEN 0 ELSE stamp[l]]
        /\ UNCHANGED <<sent, reserved, today, pc, writing>>
    BY <1>3 DEF RetryFailed, BackToQueue, quotaVars, workerVars
  <2>2. /\ Claimed' \subseteq Claimed /\ DoneOn(d)' \subseteq DoneOn(d)
        /\ Refunding' \subseteq Refunding
    BY <2>1 DEF Claimed, DoneOn, Refunding
  <2> QED
    BY <1>5, <2>1, <2>2, NothingNewToCover
<1>4. ASSUME UNCHANGED <<status, stamp, sent, reserved, today, pc, writing>>
      PROVE  Covered(d)'
  BY <1>1, <1>4 DEF Refunding
<1>6. ASSUME NEW j \in Jobs, NEW owned \in BOOLEAN, ReleaseClaimedTasksForJob(j, owned)
      PROVE  Covered(d)'
  <2>1. RowsToRelease(j) \in SUBSET Claimed
    BY DEF RowsToRelease, RowsOfJob
  <2>2. /\ BackToQueue(RowsToRelease(j)) /\ UNCHANGED <<sent, today, pc, writing>>
        /\ \/ reserved'[d] = reserved[d]
           \/ d = today /\ reserved'[d] = Monus(reserved[d], Cardinality(RowsToRelease(j)))
    BY <1>5, <1>6 DEF ReleaseClaimedTasksForJob, workerVars
  <2> QED
    BY <1>5, <2>1, <2>2, ReleaseCovered
<1>7. ASSUME NEW j \in Jobs, EndRelease(j)
      PROVE  Covered(d)'
  <2>1. LockedBy(j) \in SUBSET Claimed
    BY DEF ClaimsConsistent, ReleasesConsistent, Locked
  <2>2. freeing[j].day = today /\ freeing[j].rows = LockedBy(j)
    BY <1>7 DEF EndRelease, DaysCurrent, LockedBy
  <2>3. d = today /\ freeing[j].read > 0 => reserved[d] = freeing[j].read
    BY <1>7, <2>2 DEF EndRelease
  <2>4. /\ BackToQueue(LockedBy(j)) /\ UNCHANGED <<sent, today, pc, writing>>
        /\ reserved' = IF freeing[j].read > 0
                       THEN [reserved EXCEPT ![today] = Monus(freeing[j].read, Cardinality(LockedBy(j)))]
                       ELSE reserved
    BY <1>7, <2>2 DEF EndRelease, workerVars
  <2>5. \/ reserved'[d] = reserved[d]
        \/ d = today /\ reserved'[d] = Monus(reserved[d], Cardinality(LockedBy(j)))
    BY <1>5, <2>3, <2>4
  <2> QED
    BY <1>5, <2>1, <2>4, <2>5, ReleaseCovered
<1> QED
  BY <1>2, <1>3, <1>4, <1>5, <1>6, <1>7, ClaimCovered, CompletionCovered, SettlementCovered,
     MidnightCovered
     DEF Next, vars, BeginRelease, RetryAfterPasses, HourPasses, rowVars, quotaVars, workerVars

LEMMA InitQuotaInv == Init => QuotaInv
<1> SUFFICES ASSUME Init
             PROVE  QuotaInv
  OBVIOUS
<1>1. DaysCurrent
  BY DEF Init, DaysCurrent
<1>2. ASSUME NEW d \in Days
      PROVE  Claimed = {} /\ Refunding = {} /\ DoneOn(d) = {}
  BY DEF Init, Claimed, Refunding, DoneOn
<1>3. ASSUME NEW d \in Days
      PROVE  Covered(d)
  <2>1. Cardinality(DoneOn(d)) = 0 /\ Cardinality(Claimed) = 0 /\ Cardinality(Refunding) = 0
    BY <1>2, FS_EmptySet
  <2>2. sent[d] = 0 /\ reserved[d] = 0
    BY DEF Init
  <2> QED
    BY <2>1, <2>2 DEF Covered, Open
<1>4. QuotaCovers
  BY <1>3 DEF QuotaCovers, Covered
<1> QED
  BY <1>1, <1>4 DEF QuotaInv

LEMMA StepQuotaInv ==
    ASSUME "midnight" \notin Faults, "torn" \notin Faults
    PROVE  TypeOK /\ ClaimsConsistent /\ QuotaInv /\ [Next]_vars => QuotaInv'
BY StepDaysCurrent, StepQuotaCovers DEF QuotaInv, QuotaOn, EffectiveLimit, PositiveLimits

LEMMA CoveredWithinLimit == QuotaInv /\ QuotaWithinLimit /\ TypeOK => SendsWithinLimit
<1> SUFFICES ASSUME QuotaInv, QuotaWithinLimit, TypeOK, QuotaOn, NEW d \in Days \ overwritten
             PROVE  Cardinality(DoneOn(d)) <= EffectiveLimit
  BY DEF SendsWithinLimit
<1>1. /\ Cardinality(DoneOn(d)) + (IF d = today THEN Open ELSE 0) <= sent[d] + reserved[d]
      /\ sent[d] + reserved[d] <= EffectiveLimit
      /\ sent[d] \in Nat /\ reserved[d] \in Nat
  BY DEF QuotaInv, QuotaCovers, QuotaWithinLimit, TypeOK
<1>2. Open \in Nat
  BY CountsAreNatural DEF Open
<1>3. Cardinality(DoneOn(d)) \in Nat /\ EffectiveLimit \in Nat
  BY CountsAreNatural, LimitsAreNatural
<1> QED
  BY <1>1, <1>2, <1>3

\* No more leads are recorded as messaged on a day than the daily limit of the
\* industry allows, whatever is cancelled, retried or fails, as long as no claim
\* is open over midnight, no row is taken inside a completion and no release
\* wrote an old count back over that day's row.
THEOREM SendsBound ==
    ASSUME "midnight" \notin Faults, "torn" \notin Faults
    PROVE  Spec => []SendsWithinLimit
BY StepQuotaInv, CoveredWithinLimit, InitQuotaInv, TypeCorrect, TokensNameOneClaim, QuotaBound,
   PTL DEF Spec
------------------------------------------------------------------------------
(* The limits of a device that only one worker drives.  Its daily counter   *)
(* counts the leads recorded as messaged from it, and what its worker has in*)
(* memory fits the limits: it claimed below them, nobody else counts on this*)
(* device, and what it is about to write was computed from the counters as  *)
(* they still are.                                                          *)
DoneBy(d, n) == {l \in DoneOn(n) : consumer_id[l] = d}

CountsFit(d) ==
    LET r == device[d] IN
    /\ r.date <= today
    /\ HourlyLimit > 0 => r.wave <= HourlyLimit
    /\ DeviceDailyLimit[d] > 0 =>
         /\ r.daily <= DeviceDailyLimit[d]
         /\ \A n \in Days : Cardinality(DoneBy(d, n)) <=
               IF n = r.date THEN r.daily ELSE IF n > r.date THEN 0 ELSE DeviceDailyLimit[d]
RoomLeft(w) ==
    LET d == DeviceOf[w]   r == device[d]   x == writing[w] IN
    /\ pc[w] = "holding" =>
         /\ HourlyLimit > 0 => r.wave < HourlyLimit
         /\ DeviceDailyLimit[d] > 0 /\ r.date = today => r.daily < DeviceDailyLimit[d]
    /\ pc[w] = "writing" =>
         /\ r.date <= x.day /\ x.day <= today
         /\ HourlyLimit > 0 => x.wave <= HourlyLimit
         /\ x.daily = (IF r.date = x.day THEN r.daily ELSE 0) + 1
         /\ DeviceDailyLimit[d] > 0 => x.daily <= DeviceDailyLimit[d]

DeviceFits(d) == CountsFit(d) /\ \A w \in Workers : DeviceOf[w] = d => RoomLeft(w)
DeviceInv == \A d \in Devices : Exclusive(d) => DeviceFits(d)

LEMMA SoleWorker ==
    ASSUME NEW d, Exclusive(d), NEW v \in Workers, NEW w \in Workers,
           DeviceOf[v] = d, DeviceOf[w] = d
    PROVE  v = w
<1> DEFINE S == {u \in Workers : DeviceOf[u] = d}
<1>1. IsFiniteSet(S)
  BY FS_Subset, SchedulerAssumption DEF SchedulerAssumption
<1>2. PICK x : S = {x}
  BY <1>1, FS_Singleton DEF Exclusive
<1> QED
  BY <1>2

LEMMA DeviceCountsAreFinite ==
    ASSUME NEW d, NEW n
    PROVE  /\ IsFiniteSet(DoneBy(d, n)) /\ Cardinality(DoneBy(d, n)) \in Nat
           /\ IsFiniteSet(DoneBy(d, n)') /\ Cardinality(DoneBy(d, n)') \in Nat
<1>1. DoneBy(d, n) \subseteq Leads /\ DoneBy(d, n)' \subseteq Leads
  BY DEF DoneBy, DoneOn
<1> QED
  BY <1>1, FS_Subset, FS_CardinalityType, SchedulerAssumption DEF SchedulerAssumption

\* A step that records no lead for the device and leaves its counters and the
\* memory of its worker alone, or only lowers the hourly counter.
LEMMA NothingCounted ==
    ASSUME TypeOK, NEW d \in Devices, CountsFit(d), today' = today \/ Midnight,
           \A n \in Days : DoneBy(d, n)' \subseteq DoneBy(d, n),
           device'[d].date = device[d].date, device'[d].daily = device[d].daily,
           device'[d].wave = device[d].wave \/ device'[d].wave = 0
    PROVE  CountsFit(d)'
<1>1. /\ device[d].date \in Nat /\ device[d].wave \in Nat
      /\ today \in Nat /\ today' \in Nat /\ today <= today'
      /\ HourlyLimit \in Nat
  BY SchedulerAssumption DEF TypeOK, ConsumerStates, Midnight, Days, SchedulerAssumption
<1>2. ASSUME NEW n \in Days
      PROVE  Cardinality(DoneBy(d, n)') <= Cardinality(DoneBy(d, n))
  BY FS_Subset, DeviceCountsAreFinite
<1>3. \A n \in Days : /\ Cardinality(DoneBy(d, n)') \in Nat
                      /\ Cardinality(DoneBy(d, n)) \in Nat
  BY DeviceCountsAreFinite
<1>4. /\ device[d].daily \in Nat /\ DeviceDailyLimit[d] \in Nat
      /\ \A n \in Days : n \in Nat
  BY SchedulerAssumption DEF TypeOK, ConsumerStates, Days, SchedulerAssumption
<1>5. device'[d].date <= today' /\ (HourlyLimit > 0 => device'[d].wave <= HourlyLimit)
  <2>1. device[d].date <= today /\ (HourlyLimit > 0 => device[d].wave <= HourlyLimit)
    BY DEF CountsFit
  <2>2. device[d].date <= today'
    BY <1>1, <2>1
  <2> QED
    BY <1>1, <2>1, <2>2
<1>6. ASSUME DeviceDailyLimit[d] > 0, NEW n \in Days
      PROVE  Cardinality(DoneBy(d, n)') <=
                 IF n = device'[d].date THEN device'[d].daily
                 ELSE IF n > device'[d].date THEN 0 ELSE DeviceDailyLimit[d]
  <2>1. Cardinality(DoneBy(d, n)) <=
            IF n = device[d].date THEN device[d].daily
            ELSE IF n > device[d].date THEN 0 ELSE DeviceDailyLimit[d]
    BY <1>6 DEF CountsFit
  <2> QED
    BY <1>1, <1>2, <1>3, <1>4, <2>1
<1>7. DeviceDailyLimit[d] > 0 => device'[d].daily <= DeviceDailyLimit[d]
  BY DEF CountsFit
<1> QED
  BY <1>5, <1>6, <1>7 DEF CountsFit

\* Done leads keep their day and their device, and become done only by the
\* completion of the worker that drives it.
LEMMA OnlyOwnDone ==
    ASSUME "torn" \notin Faults, TypeOK, ClaimsConsistent, [Next]_vars,
           NEW d \in Devices, NEW n \in Days,
           \A w \in Workers : WriteCompletion(w) /\ DeviceOf[w] = d =>
                                  writing[w].verdict # "done"
    PROVE  DoneBy(d, n)' \subseteq DoneBy(d, n)
<1> SUFFICES ASSUME NEW l \in Leads, (status[l] = "done" /\ stamp[l] = n /\ consumer_id[l] = d)'
             PROVE  status[l] = "done" /\ stamp[l] = n /\ consumer_id[l] = d
  BY DEF DoneBy, DoneOn
<1> USE DEF TypeOK
<1>1. ASSUME NEW w \in Workers, ClaimForDevice(w)
      PROVE  status[l] = "done" /\ stamp[l] = n /\ consumer_id[l] = d
  BY <1>1 DEF ClaimForDevice, ReadyCandidates, Candidates, Pending
<1>2. ASSUME NEW w \in Workers, WriteCompletion(w)
      PROVE  status[l] = "done" /\ stamp[l] = n /\ consumer_id[l] = d
  <2>1. StillMine(w)
    BY <1>2 DEF WriteCompletion, ClaimsConsistent, TokensConsistent
  <2>2. CASE l # claim[w].lead
    BY <1>2, <2>2 DEF WriteCompletion
  <2>3. CASE l = claim[w].lead
    <3>1. writing[w].verdict = "done" /\ consumer_id'[l] = consumer_id[l]
      BY <1>2, <2>3 DEF WriteCompletion, Verdicts
    <3>2. DeviceOf[w] = d
      BY <2>1, <2>3, <3>1 DEF StillMine
    <3> QED
      BY <1>2, <3>1, <3>2
  <2> QED
    BY <2>2, <2>3
<1>3. ASSUME NEW rows, BackToQueue(rows)
      PROVE  status[l] = "done" /\ stamp[l] = n /\ consumer_id[l] = d
  BY <1>3 DEF BackToQueue
<1>4. ASSUME \/ \E j \in Jobs, owned \in BOOLEAN : ReleaseClaimedTasksForJob(j, owned)
             \/ \E j \in Jobs : EndRelease(j)
             \/ \E rows \in SUBSET Leads : RetryFailed(rows)
      PROVE  status[l] = "done" /\ stamp[l] = n /\ consumer_id[l] = d
  BY <1>3, <1>4 DEF ReleaseClaimedTasksForJob, EndRelease, RetryFailed
<1>5. CASE UNCHANGED <<status, stamp, consumer_id>>
  BY <1>5
<1> QED
  BY <1>1, <1>2, <1>4, <1>5
     DEF Next, vars, BeginRelease, RefuseClaim, BeginCompletion, SettleQuota, TransactionFails,
         WorkerCrashes, RetryAfterPasses, HourPasses, Midnight, rowVars

\* The completion that records a lead for the device writes the counters that
\* go with it.
LEMMA OwnCompletionCounted ==
    ASSUME "torn" \notin Faults, TypeOK, ClaimsConsistent, NEW d \in Devices, CountsFit(d),
           NEW w \in Workers, DeviceOf[w] = d, RoomLeft(w), WriteCompletion(w),
           writing[w].verdict = "done"
    PROVE  CountsFit(d)'
<1> DEFINE x == writing[w]
           r == device[d]
           l == claim[w].lead
<1>1. /\ x.day \in Nat /\ x.day \in Days /\ x.daily \in Nat /\ x.wave \in Nat
      /\ r.date \in Nat /\ r.daily \in Nat /\ r.wave \in Nat /\ today \in Nat
      /\ HourlyLimit \in Nat /\ DeviceDailyLimit[d] \in Nat
  BY SchedulerAssumption DEF TypeOK, ConsumerStates, Writes, Days, SchedulerAssumption
<1>2. device'[d] = Recorded(r, x) /\ today' = today
  BY DEF WriteCompletion, TypeOK
<1>3. /\ r.date <= x.day /\ x.day <= today
      /\ HourlyLimit > 0 => x.wave <= HourlyLimit
      /\ x.daily = (IF r.date = x.day THEN r.daily ELSE 0) + 1
      /\ DeviceDailyLimit[d] > 0 => x.daily <= DeviceDailyLimit[d]
  BY DEF WriteCompletion, RoomLeft
<1>4. /\ device'[d].date = x.day /\ device'[d].daily = x.daily
      /\ HourlyLimit > 0 => device'[d].wave = x.wave
  BY <1>2 DEF Recorded
<1>5. l \in Leads /\ status[l] = "claimed"
  BY DEF WriteCompletion, ClaimsConsistent, TokensConsistent, StillMine
<1>6. ASSUME DeviceDailyLimit[d] > 0, NEW n \in Days
      PROVE  Cardinality(DoneBy(d, n)') <=
                 IF n = x.day THEN x.daily ELSE IF n > x.day THEN 0 ELSE DeviceDailyLimit[d]
  <2>1. /\ n \in Nat /\ Cardinality(DoneBy(d, n)) \in Nat
        /\ Cardinality(DoneBy(d, n)') \in Nat
        /\ IsFiniteSet(DoneBy(d, n)) /\ IsFiniteSet(DoneBy(d, n)')
    BY DeviceCountsAreFinite DEF Days
  <2>2. Cardinality(DoneBy(d, n)) <=
            IF n = r.date THEN r.daily ELSE IF n > r.date THEN 0 ELSE DeviceDailyLimit[d]
    BY <1>6 DEF CountsFit
  <2>3. r.daily <= DeviceDailyLimit[d]
    BY <1>6 DEF CountsFit
  <2>4. CASE n = x.day
    <3>1. DoneBy(d, n)' \in SUBSET (DoneBy(d, n) \cup {l})
      BY DEF WriteCompletion, DoneBy, DoneOn, TypeOK
    <3>2. Cardinality(DoneBy(d, n)') <= Cardinality(DoneBy(d, n)) + 1
      BY <2>1, <3>1, GainsAtMostOne
    <3> QED
      BY <1>1, <1>3, <2>1, <2>2, <2>4, <3>2
  <2>5. CASE n # x.day
    <3>1. DoneBy(d, n)' \subseteq DoneBy(d, n)
      BY <2>5 DEF WriteCompletion, DoneBy, DoneOn, TypeOK
    <3>2. Cardinality(DoneBy(d, n)') <= Cardinality(DoneBy(d, n))
      BY <2>1, <3>1, FS_Subset
    <3> QED
      BY <1>1, <1>3, <2>1, <2>2, <2>3, <2>5, <3>2
  <2> QED
    BY <2>4, <2>5
<1>7. /\ x.day <= today'
      /\ HourlyLimit > 0 => device'[d].wave <= HourlyLimit
      /\ DeviceDailyLimit[d] > 0 => device'[d].daily <= DeviceDailyLimit[d]
  BY <1>2, <1>3, <1>4
<1> QED
  BY <1>4, <1>6, <1>7 DEF CountsFit

\* No other step counts anything for a device; a claim or an hour that passes
\* may only reset its hourly counter.
LEMMA CountersKept ==
    ASSUME TypeOK, [Next]_vars, NEW d \in Devices,
           \A w \in Workers : WriteCompletion(w) /\ DeviceOf[w] = d =>
                                  writing[w].verdict # "done"
    PROVE  /\ device'[d].date = device[d].date /\ device'[d].daily = device[d].daily
           /\ device'[d].wave = device[d].wave \/ device'[d].wave = 0
<1> DEFINE Kept(r, s) == s.date = r.date /\ s.daily = r.daily /\ (s.wave = r.wave \/ s.wave = 0)
<1> SUFFICES Kept(device[d], device'[d])
  OBVIOUS
<1>1. \A r \in ConsumerStates : Kept(r, AfterClaim(r)) /\ Kept(r, AfterRefusal(r))
  BY DEF AfterClaim, AfterRefusal, WindowReset, ConsumerStates
<1>2. device \in [Devices -> ConsumerStates]
  BY DEF TypeOK
<1>3. ASSUME NEW w \in Workers, ClaimForDevice(w) \/ RefuseClaim(w)
      PROVE  Kept(device[d], device'[d])
  <2>1. device'[d] \in {device[d], AfterClaim(device[d]), AfterRefusal(device[d])}
    BY <1>2, <1>3 DEF ClaimForDevice, RefuseClaim
  <2> QED
    BY <1>1, <1>2, <2>1
<1>4. ASSUME NEW w \in Workers, WriteCompletion(w)
      PROVE  Kept(device[d], device'[d])
  <2>1. device'[d] = device[d]
    BY <1>2, <1>4 DEF WriteCompletion
  <2> QED
    BY <2>1
<1>5. ASSUME NEW e \in Devices, HourPasses(e)
      PROVE  Kept(device[d], device'[d])
  <2>1. device'[d] = device[d] \/ device'[d] = [device[d] EXCEPT !.window = "expired"]
    BY <1>2, <1>5 DEF HourPasses
  <2> QED
    BY <1>2, <2>1 DEF ConsumerStates
<1>6. CASE UNCHANGED device
  BY <1>6
<1> QED
  BY <1>3, <1>4, <1>5, <1>6
     DEF Next, vars, BeginCompletion, SettleQuota, TransactionFails, WorkerCrashes,
         ReleaseClaimedTasksForJob, BeginRelease, EndRelease, RetryFailed, RetryAfterPasses,
         Midnight

LEMMA StepCountsFit ==
    ASSUME "torn" \notin Faults, TypeOK, ClaimsConsistent, NEW d \in Devices,
           DeviceFits(d), [Next]_vars
    PROVE  CountsFit(d)'
<1>1. CASE \E w \in Workers : /\ WriteCompletion(w) /\ DeviceOf[w] = d
                             /\ writing[w].verdict = "done"
  BY <1>1, OwnCompletionCounted DEF DeviceFits
<1>2. CASE \A w \in Workers : WriteCompletion(w) /\ DeviceOf[w] = d =>
                                  writing[w].verdict # "done"
  <2>1. today' = today \/ Midnight
    BY DEF Next, vars, ClaimForDevice, RefuseClaim, BeginCompletion, WriteCompletion,
           SettleQuota, TransactionFails, WorkerCrashes, ReleaseClaimedTasksForJob,
           BeginRelease, EndRelease, RetryFailed, RetryAfterPasses, HourPasses
  <2> QED
    BY <1>2, <2>1, OnlyOwnDone, CountersKept, NothingCounted DEF DeviceFits
<1> QED
  BY <1>1, <1>2

\* What the worker of the device has in memory fits the limits.
LEMMA StepRoomLeft ==
    ASSUME TypeOK, NEW d \in Devices, Exclusive(d), DeviceFits(d), [Next]_vars,
           NEW w \in Workers, DeviceOf[w] = d
    PROVE  RoomLeft(w)'
<1> DEFINE r == device[d]
<1>1. /\ r \in ConsumerStates /\ r.date \in Nat /\ r.daily \in Nat /\ r.wave \in Nat
      /\ today \in Nat /\ today \in Days
      /\ HourlyLimit \in Nat /\ DeviceDailyLimit[d] \in Nat
      /\ writing[w].day \in Nat
  BY SchedulerAssumption DEF TypeOK, ConsumerStates, Days, Writes, SchedulerAssumption
<1>2. /\ RoomLeft(w) /\ r.date <= today
      /\ HourlyLimit > 0 => r.wave <= HourlyLimit
  BY DEF DeviceFits, CountsFit
<1>3. ASSUME UNCHANGED <<today, pc[w], writing[w]>>, device'[d].date = device[d].date,
             device'[d].daily = device[d].daily, device'[d].wave = device[d].wave
      PROVE  RoomLeft(w)'
  BY <1>2, <1>3 DEF RoomLeft
<1>4. ASSUME pc'[w] \notin {"holding", "writing"}
      PROVE  RoomLeft(w)'
  BY <1>4 DEF RoomLeft
<1>5. ASSUME NEW v \in Workers, v # w
      PROVE  DeviceOf[v] # d
  BY <1>5, SoleWorker
<1>6. ASSUME NEW v \in Workers, ClaimForDevice(v)
      PROVE  RoomLeft(w)'
  <2>1. CASE v = w
    <3>1. ~DeviceDailyReached(d) /\ ~DeviceHourlyReached(d)
      BY <1>6, <2>1 DEF ClaimForDevice, Refusal
    <3>2. device'[d] = AfterClaim(r) /\ today' = today /\ pc'[w] = "holding"
      BY <1>6, <2>1 DEF ClaimForDevice, TypeOK
    <3>3. /\ AfterClaim(r).date = r.date /\ AfterClaim(r).daily = r.daily
          /\ HourlyLimit > 0 => AfterClaim(r).wave = IF r.window = "open" THEN r.wave ELSE 0
      BY <1>1 DEF AfterClaim, WindowReset, ConsumerStates
    <3>4. HourlyLimit > 0 => AfterClaim(r).wave < HourlyLimit
      BY <1>1, <3>1, <3>3 DEF DeviceHourlyReached
    <3>5. DeviceDailyLimit[d] > 0 /\ r.date = today => r.daily < DeviceDailyLimit[d]
      BY <1>1, <3>1 DEF DeviceDailyReached
    <3> QED
      BY <3>2, <3>3, <3>4, <3>5 DEF RoomLeft
  <2>2. CASE v # w
    <3>1. UNCHANGED <<today, pc[w], writing[w], device[d]>>
      BY <1>5, <1>6, <2>2 DEF ClaimForDevice, TypeOK
    <3> QED
      BY <1>3, <3>1
  <2> QED
    BY <2>1, <2>2
<1>7. ASSUME NEW v \in Workers, RefuseClaim(v)
      PROVE  RoomLeft(w)'
  <2>1. CASE v = w
    BY <1>4, <1>7, <2>1 DEF RefuseClaim, TypeOK
  <2>2. CASE v # w
    <3>1. UNCHANGED <<today, pc[w], writing[w], device[d]>>
      BY <1>5, <1>7, <2>2 DEF RefuseClaim, TypeOK
    <3> QED
      BY <1>3, <3>1
  <2> QED
    BY <2>1, <2>2
<1>8. ASSUME NEW v \in Workers, NEW verdict \in Verdicts, BeginCompletion(v, verdict)
      PROVE  RoomLeft(w)'
  <2>1. CASE v = w /\ pc'[w] = "writing"
    <3>1. /\ pc[w] = "holding" /\ UNCHANGED <<device, today>>
          /\ writing'[w].day = today
          /\ writing'[w].daily = (IF r.date = today THEN r.daily ELSE 0) + 1
          /\ writing'[w].wave = (IF r.window = "open" THEN r.wave ELSE 0) + 1
      BY <1>8, <2>1 DEF BeginCompletion, TypeOK
    <3>2. /\ HourlyLimit > 0 => r.wave < HourlyLimit
          /\ DeviceDailyLimit[d] > 0 /\ r.date = today => r.daily < DeviceDailyLimit[d]
      BY <1>2, <3>1 DEF RoomLeft
    <3>3. HourlyLimit > 0 => writing'[w].wave <= HourlyLimit
      BY <1>1, <3>1, <3>2
    <3>4. DeviceDailyLimit[d] > 0 => writing'[w].daily <= DeviceDailyLimit[d]
      BY <1>1, <3>1, <3>2
    <3> QED
      BY <1>1, <1>2, <2>1, <3>1, <3>3, <3>4 DEF RoomLeft
  <2>2. CASE v = w /\ pc'[w] # "writing"
    BY <1>4, <1>8, <2>2 DEF BeginCompletion, TypeOK
  <2>3. CASE v # w
    <3>1. UNCHANGED <<today, pc[w], writing[w], device[d]>>
      BY <1>8, <2>3 DEF BeginCompletion, TypeOK
    <3> QED
      BY <1>3, <3>1
  <2> QED
    BY <2>1, <2>2, <2>3
<1>9. ASSUME NEW v \in Workers, WriteCompletion(v)
      PROVE  RoomLeft(w)'
  <2>1. CASE v = w
    BY <1>4, <1>9, <2>1 DEF WriteCompletion, TypeOK
  <2>2. CASE v # w
    <3>1. UNCHANGED <<today, pc[w], writing[w], device[d]>>
      BY <1>5, <1>9, <2>2 DEF WriteCompletion, TypeOK
    <3> QED
      BY <1>3, <3>1
  <2> QED
    BY <2>1, <2>2
<1>10. ASSUME NEW v \in Workers, SettleQuota(v) \/ TransactionFails(v) \/ WorkerCrashes(v)
       PROVE  RoomLeft(w)'
  <2>1. CASE v = w
    BY <1>4, <1>10, <2>1 DEF SettleQuota, TransactionFails, WorkerCrashes, TypeOK
  <2>2. CASE v # w
    <3>1. UNCHANGED <<today, pc[w], writing[w], device[d]>>
      BY <1>10, <2>2 DEF SettleQuota, TransactionFails, WorkerCrashes, TypeOK
    <3> QED
      BY <1>3, <3>1
  <2> QED
    BY <2>1, <2>2
<1>11. ASSUME NEW e \in Devices, HourPasses(e)
       PROVE  RoomLeft(w)'
  <2>1. device'[d] = r \/ device'[d] = [r EXCEPT !.window = "expired"]
    BY <1>11 DEF HourPasses, TypeOK
  <2>2. device'[d].date = r.date /\ device'[d].daily = r.daily /\ device'[d].wave = r.wave
    BY <1>1, <2>1 DEF ConsumerStates
  <2> QED
    BY <1>3, <1>11, <2>2 DEF HourPasses, workerVars
<1>12. CASE Midnight
  <2>1. /\ UNCHANGED <<device, pc, writing>> /\ today' = today + 1
    BY <1>12 DEF Midnight, workerVars
  <2>2. r.date # today'
    BY <1>1, <1>2, <2>1
  <2> QED
    BY <1>1, <1>2, <2>1, <2>2 DEF RoomLeft
<1>13. CASE UNCHANGED <<today, device, pc, writing>>
  BY <1>3, <1>13
<1> QED
  BY <1>6, <1>7, <1>8, <1>9, <1>10, <1>11, <1>12, <1>13
     DEF Next, vars, ReleaseClaimedTasksForJob, BeginRelease, EndRelease, RetryFailed,
         RetryAfterPasses, workerVars

LEMMA InitDeviceInv == Init => DeviceInv
<1> SUFFICES ASSUME Init, NEW d \in Devices
             PROVE  DeviceFits(d)
  BY DEF DeviceInv
<1>1. \A n \in Days : Cardinality(DoneBy(d, n)) = 0
  <2>1. \A n \in Days : DoneBy(d, n) = {}
    BY DEF Init, DoneBy, DoneOn
  <2> QED
    BY <2>1, FS_EmptySet
<1>2. HourlyLimit \in Nat /\ DeviceDailyLimit[d] \in Nat
  BY SchedulerAssumption DEF SchedulerAssumption
<1> QED
  BY <1>1, <1>2 DEF Init, DeviceFits, CountsFit, RoomLeft, Days

LEMMA StepDeviceInv ==
    ASSUME "torn" \notin Faults
    PROVE  TypeOK /\ ClaimsConsistent /\ DeviceInv /\ [Next]_vars => DeviceInv'
<1> SUFFICES ASSUME TypeOK, ClaimsConsistent, [Next]_vars, NEW d \in Devices, Exclusive(d),
                    DeviceFits(d)
             PROVE  DeviceFits(d)'
  BY DEF DeviceInv, Exclusive
<1> QED
  BY StepCountsFit, StepRoomLeft DEF DeviceFits

LEMMA FittingWithinLimits == TypeOK /\ DeviceInv => DeviceWithinLimits
<1> SUFFICES ASSUME TypeOK, DeviceInv, NEW d \in Devices, Exclusive(d)
             PROVE  /\ DeviceDailyLimit[d] > 0 =>
                         \A n \in Days : Cardinality(DoneBy(d, n)) <= DeviceDailyLimit[d]
                    /\ HourlyLimit > 0 => device[d].wave <= HourlyLimit
  BY DEF DeviceWithinLimits, DoneBy
<1>1. CountsFit(d)
  BY DEF DeviceInv, DeviceFits
<1>2. ASSUME DeviceDailyLimit[d] > 0, NEW n \in Days
      PROVE  Cardinality(DoneBy(d, n)) <= DeviceDailyLimit[d]
  <2>1. /\ device[d].daily <= DeviceDailyLimit[d]
        /\ Cardinality(DoneBy(d, n)) <=
              IF n = device[d].date THEN device[d].daily
              ELSE IF n > device[d].date THEN 0 ELSE DeviceDailyLimit[d]
    BY <1>1, <1>2 DEF CountsFit
  <2>2. /\ Cardinality(DoneBy(d, n)) \in Nat /\ DeviceDailyLimit[d] \in Nat
        /\ device[d].daily \in Nat
    BY DeviceCountsAreFinite, SchedulerAssumption
       DEF TypeOK, ConsumerStates, SchedulerAssumption
  <2> QED
    BY <2>1, <2>2
<1> QED
  BY <1>1, <1>2 DEF CountsFit

\* A device that one worker drives sends no more in a day and in an hour than
\* its own limits allow, whatever else is claimed, cancelled or retried, whoever
\* crashes and whether claims are open over midnight, as long as no row is taken
\* inside a completion.
THEOREM DeviceBound ==
    ASSUME "torn" \notin Faults
    PROVE  Spec => []DeviceWithinLimits
BY InitDeviceInv, StepDeviceInv, FittingWithinLimits, TypeCorrect, TokensNameOneClaim, PTL DEF Spec
=============================================================================
