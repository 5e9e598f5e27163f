------------------------------ MODULE JobProofs ------------------------------
(***************************************************************************)
(* Theorems about JobRegistry for any set of jobs, clients and sweepers,   *)
(* any number of restarts and of failed writes.  What depends on no other  *)
(* session writing a row between the load and the UPDATE of _persist_job   *)
(* assumes ~Torn.                                                          *)
(***************************************************************************)
EXTENDS JobRegistry, TLAPS

\* The values each kind of thread's program counter takes, and those it has
\* while the thread is inside a call.
PcOf(t) ==
    CASE t[1] = "worker" -> {"none", "begin", "working", "progress", "reporting",
                             "rescuing", "ended"}
      [] t[1] = "beat" -> {"on", "off"}
      [] t[1] = "client" -> {"idle", "released", "calling"}
      [] OTHER -> {"idle", "orphan", "stale"}
InCall(t) ==
    CASE t[1] = "worker" -> {"progress", "reporting", "rescuing"}
      [] t[1] = "beat" -> {"on"}
      [] t[1] = "client" -> {"calling"}
      [] OTHER -> {"orphan", "stale"}

Pcs == {"none", "begin", "working", "progress", "reporting", "rescuing", "ended",
        "on", "off", "idle", "released", "calling", "orphan", "stale"}

DbRows == [status : Statuses \cup {"none"}, cancel : BOOLEAN, age : {"fresh", "old"}]
CacheEntries == [status : Statuses \cup {"absent"}, cancel : {"unset", "yes", "no"}]
Calls == [step : {"none", "asked", "merged", "loaded", "persisted", "committed"},
          job : Jobs \cup {0}, status : Statuses \cup {"same", "absent"},
          cancel : {"unset", "yes", "no"}, row : DbRows]

StateTypes ==
    /\ db \in [Jobs -> DbRows]
    /\ overdue \in [Jobs -> BOOLEAN]
    /\ kind \in [Jobs -> {"none", "send", "collect"}]
    /\ pc \in [Threads -> Pcs]
    /\ call \in [Threads -> Calls]

\* A cancel request and the statuses "running" and "done" exclude each other,
\* in a row, in the cache and in a call on its way from one to the other.
Uncancelled == {"same", "running", "done"}

\* A thread t at p may be in the call c.
ThreadFits(t, p, c) ==
    /\ p \in PcOf(t)
    /\ c.step # "none" => p \in InCall(t)
    /\ c.step # "none" \/ p = "released" => c.job \in Jobs
    /\ c.cancel = "yes" => c.status \notin Uncancelled
    /\ c.step \in {"persisted", "committed"} => c.status \in Statuses

\* The status a call is about to write is a legal successor of the one it has
\* loaded, which is still in the row, like the flag, unless writes are torn.
LoadedFits(c, row) ==
    c.step = "loaded" =>
        /\ c.row.status # "none" /\ row.status # "none"
        /\ c.status \in Statuses
        /\ Legal(c.row.status, c.status)
        /\ ~Torn => c.row.status = row.status /\ c.row.cancel = row.cancel

Conflict(c, e) == c.step = "loaded" /\ e.step = "loaded" /\ c.job = e.job

ThreadsFit ==
    \A t \in Threads : /\ ThreadFits(t, pc[t], call[t])
                       /\ LoadedFits(call[t], db[call[t].job])
LoadedAlone == ~Torn => \A t, u \in Threads : t # u => ~Conflict(call[t], call[u])

EntryFits(e) ==
    /\ e.cancel = "yes" => e.status \notin Uncancelled
    /\ e.status = "absent" => e.cancel = "unset"
CacheFits(entries) ==
    entries \in [Jobs -> CacheEntries] /\ \A j \in Jobs : EntryFits(entries[j])
RowFits(j) ==
    /\ pc[Worker(j)] = "none" => db[j].status = "none"
    /\ ~Torn /\ db[j].cancel => db[j].status \notin Uncancelled

JobInv ==
    /\ StateTypes
    /\ ThreadsFit
    /\ LoadedAlone
    /\ CacheFits(cache)
    /\ \A j \in Jobs : RowFits(j)
------------------------------------------------------------------------------
LEMMA ThreadKinds ==
    /\ \A j \in Jobs : /\ Worker(j) \in Threads /\ Worker(j)[1] = "worker"
                       /\ Beat(j) \in Threads /\ Beat(j)[1] = "beat"
    /\ \A c \in Clients : Client(c) \in Threads /\ Client(c)[1] = "client"
    /\ \A s \in Sweepers : Sweeper(s) \in Threads /\ Sweeper(s)[1] = "sweep"
    /\ \A t \in Threads : t[1] \in {"worker", "beat", "client", "sweep"}
    /\ \A t \in Threads, j \in Jobs : t = Worker(j) => t[1] = "worker"
    /\ \A j, k \in Jobs : Worker(j) = Worker(k) => j = k
BY DEF Threads, Worker, Beat, Client, Sweeper

LEMMA StatusFacts ==
    /\ \A s, u \in Statuses \cup {"none", "absent", "same"} :
         Legal(s, u) => (s = u \/ (s \in Statuses /\ u \in Statuses))
    /\ \A u \in Statuses \cup {"absent", "same"} : ~Legal("none", u)
    /\ \A s \in Statuses \cup {"none", "absent"}, u \in Statuses :
         Legal(s, u) /\ u \in Uncancelled => s \in Uncancelled
    /\ Legal("cancelling", "cancelled")
BY DEF Legal, Allowed, Statuses, Uncancelled

\* Where a call may leave a thread when it returns.
LEMMA ReturnFits ==
    ASSUME NEW t \in Threads, NEW p \in PcOf(t), p \in InCall(t), p # "stale", NEW ok \in BOOLEAN
    PROVE  /\ AfterCall(p, ok) \in PcOf(t) /\ AfterCall(p, ok) \notin {"none", "released"}
           /\ AfterCall(p, ok) = "rescuing" => "rescuing" \in InCall(t)
BY ThreadKinds DEF AfterCall, PcOf, InCall

LEMMA CallTypes ==
    /\ NoCall \in Calls
    /\ \A j \in Jobs, s \in Statuses \cup {"same"}, c \in {"unset", "yes", "no"} :
         Asked(j, s, c) \in Calls
BY DEF NoCall, Asked, Calls, NoRow, DbRows, Statuses

\* A step that moves one thread and leaves the rows alone keeps the invariant
\* if the thread fits its new place, and the cache its entries.
LEMMA LocalStep ==
    ASSUME JobInv, NEW t \in Threads, NEW p \in PcOf(t), NEW c \in Calls,
           pc' = [pc EXCEPT ![t] = p], call' = [call EXCEPT ![t] = c],
           UNCHANGED <<db, kind>>, CacheFits(cache'), overdue' \in [Jobs -> BOOLEAN],
           ThreadFits(t, p, c), LoadedFits(c, db[c.job]), p = "none" => pc[t] = "none",
           ~Torn => \A u \in Threads \ {t} : ~Conflict(c, call[u])
    PROVE  JobInv'
<1>1. \A u \in Threads : PcOf(u) \subseteq Pcs
  BY ThreadKinds DEF PcOf, Pcs
<1>2. StateTypes'
  BY <1>1 DEF JobInv, StateTypes
<1>3. ThreadsFit'
  <2>1. ASSUME NEW u \in Threads
        PROVE  /\ pc'[u] = (IF u = t THEN p ELSE pc[u])
               /\ call'[u] = (IF u = t THEN c ELSE call[u])
    BY DEF JobInv, StateTypes
  <2>2. db' = db
    OBVIOUS
  <2> QED
    BY <2>1, <2>2 DEF JobInv, ThreadsFit
<1>4. LoadedAlone'
  BY DEF JobInv, StateTypes, LoadedAlone, Conflict
<1>5. ASSUME NEW j \in Jobs
      PROVE  RowFits(j)'
  BY ThreadKinds DEF JobInv, StateTypes, RowFits
<1> QED
  BY <1>2, <1>3, <1>4, <1>5 DEF JobInv

\* The UPDATE of a row that was loaded and that no other session has loaded.
LEMMA WriteStep ==
    ASSUME JobInv, NEW t \in Threads, call[t].step = "loaded",
           NEW s \in {"persisted", "committed"},
           db' = [db EXCEPT ![call[t].job] = Updated(@, call[t])],
           call' = [call EXCEPT ![t].step = s],
           UNCHANGED <<cache, overdue, kind, pc>>
    PROVE  JobInv' /\ \A j \in Jobs : Torn \/ Legal(db[j].status, db'[j].status)
<1> DEFINE c == call[t]
           row == db[c.job]
           new == Updated(row, c)
<1>1. /\ c \in Calls /\ c.job \in Jobs /\ row \in DbRows /\ row \in DbRows
      /\ ThreadFits(t, pc[t], c)
      /\ ~Torn => c.row.status = row.status /\ c.row.cancel = row.cancel
      /\ row.status # "none" /\ c.status \in Statuses /\ Legal(c.row.status, c.status)
  BY DEF JobInv, StateTypes, ThreadsFit, ThreadFits, LoadedFits
<1>2. new.status # "none" /\ new \in DbRows /\ (~Torn => new.status = c.status)
  BY <1>1 DEF Updated, DbRows, Calls, Statuses
<1>3. ~Torn /\ new.cancel => new.status \notin Uncancelled
  <2>1. CASE ~Torn /\ row.cancel
    <3>1. row.status \in Statuses /\ row.status \notin Uncancelled
      BY <1>1, <2>1 DEF JobInv, RowFits, DbRows
    <3> QED
      BY <1>1, <1>2, <3>1, StatusFacts
  <2>2. CASE ~Torn /\ ~row.cancel
    BY <1>1, <1>2, <2>2 DEF Updated, ThreadFits
  <2> QED
    BY <2>1, <2>2
<1>4. /\ db' = [db EXCEPT ![c.job] = new]
      /\ call' = [call EXCEPT ![t] = [c EXCEPT !.step = s]]
  OBVIOUS
<1>5. StateTypes'
  BY <1>1, <1>2, <1>4 DEF JobInv, StateTypes, Calls
<1>6. ASSUME NEW u \in Threads
      PROVE  ThreadFits(u, pc'[u], call'[u]) /\ LoadedFits(call'[u], db'[call'[u].job])
  <2>1. CASE u = t
    <3>1. call'[u] = [c EXCEPT !.step = s]
      BY <1>4, <2>1 DEF JobInv, StateTypes
    <3> QED
      BY <1>1, <2>1, <3>1 DEF ThreadFits, LoadedFits, Calls
  <2>2. CASE u # t
    <3>1. call'[u] = call[u] /\ (~Torn => ~Conflict(c, call[u]))
      BY <1>4, <2>2 DEF JobInv, StateTypes, LoadedAlone
    <3>2. ThreadFits(u, pc[u], call[u]) /\ LoadedFits(call[u], db[call[u].job])
      BY DEF JobInv, ThreadsFit
    <3>3. call[u].step = "loaded" =>
            /\ db'[call[u].job] \in {new, db[call[u].job]}
            /\ ~Torn => db'[call[u].job] = db[call[u].job]
      BY <1>1, <1>4, <3>1, <3>2 DEF Conflict, JobInv, StateTypes, ThreadFits
    <3> QED
      BY <1>2, <3>1, <3>2, <3>3 DEF LoadedFits
  <2> QED
    BY <2>1, <2>2
<1>7. LoadedAlone'
  BY <1>1, <1>4 DEF JobInv, StateTypes, LoadedAlone, Conflict, Calls
<1>8. ASSUME NEW j \in Jobs
      PROVE  RowFits(j)' /\ (Torn \/ Legal(db[j].status, db'[j].status))
  <2>1. db'[j] = IF j = c.job THEN new ELSE db[j]
    BY <1>4 DEF JobInv, StateTypes
  <2>2. CASE j = c.job
    <3>1. pc[Worker(j)] # "none"
      BY <1>1, <2>2 DEF JobInv, RowFits
    <3> QED
      BY <1>1, <1>2, <1>3, <2>1, <2>2, <3>1 DEF JobInv, RowFits
  <2>3. CASE j # c.job
    BY <2>1, <2>3 DEF JobInv, RowFits, Legal
  <2> QED
    BY <2>2, <2>3
<1> QED
  BY <1>5, <1>6, <1>7, <1>8 DEF JobInv, ThreadsFit

\* A thread enters a call.
LEMMA AskStep ==
    ASSUME JobInv, NEW t \in Threads, NEW p \in InCall(t), NEW j \in Jobs,
           NEW s \in Statuses \cup {"same"}, NEW f \in {"unset", "yes", "no"},
           f = "yes" => s \notin Uncancelled,
           pc' = [pc EXCEPT ![t] = p], call' = [call EXCEPT ![t] = Asked(j, s, f)],
           UNCHANGED <<db, cache, overdue, kind>>
    PROVE  JobInv'
<1>1. p \in PcOf(t) /\ p # "none"
  BY ThreadKinds DEF PcOf, InCall
<1>2. Asked(j, s, f) \in Calls
  BY CallTypes
<1>3. ThreadFits(t, p, Asked(j, s, f))
  BY <1>1 DEF ThreadFits, Asked
<1>4. /\ LoadedFits(Asked(j, s, f), db[Asked(j, s, f).job])
      /\ \A u \in Threads \ {t} : ~Conflict(Asked(j, s, f), call[u])
  BY DEF LoadedFits, Conflict, Asked
<1>5. overdue' \in [Jobs -> BOOLEAN] /\ CacheFits(cache')
  BY DEF JobInv, StateTypes
<1> QED
  BY <1>1, <1>2, <1>3, <1>4, <1>5, LocalStep

\* A thread is left without a call.
LEMMA RestStep ==
    ASSUME JobInv, NEW t \in Threads, NEW p \in PcOf(t),
           p # "released", p = "none" => pc[t] = "none",
           pc' = [pc EXCEPT ![t] = p], call' = [call EXCEPT ![t] = NoCall],
           UNCHANGED <<db, overdue, kind>>, CacheFits(cache')
    PROVE  JobInv'
<1>1. NoCall \in Calls
  BY CallTypes
<1>2. ThreadFits(t, p, NoCall)
  BY DEF ThreadFits, NoCall
<1>3. /\ LoadedFits(NoCall, db[NoCall.job])
      /\ \A u \in Threads \ {t} : ~Conflict(NoCall, call[u])
  BY DEF LoadedFits, Conflict, NoCall
<1>4. overdue' \in [Jobs -> BOOLEAN]
  BY DEF JobInv, StateTypes
<1> QED
  BY <1>1, <1>2, <1>3, <1>4, LocalStep

\* A call returns, or raises ValueError.
LEMMA ReturnStep ==
    ASSUME JobInv, NEW t \in Threads, InSetJob(t), call[t].step # "none",
           NEW ok \in BOOLEAN, Return(t, ok),
           UNCHANGED <<db, overdue, kind>>, CacheFits(cache'), ~ok => UNCHANGED cache
    PROVE  JobInv'
<1> DEFINE p == AfterCall(pc[t], ok)
<1>1. pc[t] \in PcOf(t) /\ pc[t] \in InCall(t) /\ pc[t] # "stale" /\ call[t].job \in Jobs
  BY DEF JobInv, ThreadsFit, ThreadFits, InSetJob
<1>2. /\ p \in PcOf(t) /\ p \notin {"none", "released"}
      /\ p = "rescuing" => "rescuing" \in InCall(t)
  BY <1>1, ReturnFits
<1>3. CASE p = "rescuing"
  <2>1. /\ pc' = [pc EXCEPT ![t] = "rescuing"]
        /\ call' = [call EXCEPT ![t] = Asked(call[t].job, "failed", "unset")]
    BY <1>3 DEF Return
  <2>2. ~ok
    BY <1>1, <1>3 DEF AfterCall
  <2> QED
    BY <1>1, <1>2, <1>3, <2>1, <2>2, AskStep DEF Statuses
<1>4. CASE p # "rescuing"
  <2>1. pc' = [pc EXCEPT ![t] = p] /\ call' = [call EXCEPT ![t] = NoCall]
    BY <1>4 DEF Return
  <2> HIDE DEF p
  <2> QED
    BY <1>2, <2>1, RestStep
<1> QED
  BY <1>3, <1>4
------------------------------------------------------------------------------
(* _set_job *)

LEMMA MergeStep ==
    ASSUME JobInv, NEW t \in Threads, InSetJob(t), Merge(t)
    PROVE  JobInv'
<1> DEFINE c == call[t]
           old == cache[c.job]
           new == [c EXCEPT !.step = "merged",
                            !.status = IF @ = "same" THEN old.status ELSE @,
                            !.cancel = IF @ = "unset" THEN old.cancel ELSE @]
<1>1. /\ c \in Calls /\ c.step = "asked" /\ c.job \in Jobs
      /\ ThreadFits(t, pc[t], c) /\ pc[t] \in PcOf(t)
      /\ old \in CacheEntries /\ EntryFits(old)
      /\ UNCHANGED <<db, cache, overdue, kind>>
  BY DEF Merge, JobInv, StateTypes, ThreadsFit, ThreadFits, CacheFits, others
<1>2. CASE Return(t, FALSE)
  BY <1>1, <1>2, ReturnStep DEF JobInv
<1>3. CASE /\ call' = [call EXCEPT ![t] = new] /\ pc' = pc
           /\ InMemory(c.job) /\ c.status # "same" => Legal(old.status, c.status)
  <2>1. new \in Calls
    BY <1>1 DEF Calls, CacheEntries
  <2>2. new.step = "merged" /\ new.job = c.job
    BY <1>1 DEF Calls
  <2>3. new.cancel = "yes" => new.status \notin Uncancelled
    <3>1. CASE c.cancel # "unset"
      BY <1>1, <3>1 DEF Calls, ThreadFits, Uncancelled
    <3>2. CASE c.cancel = "unset" /\ c.status = "same"
      BY <1>1, <3>2 DEF Calls, EntryFits
    <3>3. CASE c.cancel = "unset" /\ c.status # "same" /\ old.status # "absent"
      <4>1. Legal(old.status, c.status)
        BY <1>3, <3>3 DEF InMemory
      <4>2. c.status \in Uncancelled => old.status \in Uncancelled
        BY <1>1, <3>3, <4>1, StatusFacts DEF Calls, CacheEntries, Uncancelled
      <4> QED
        BY <1>1, <3>3, <4>2 DEF Calls, EntryFits
    <3>4. CASE c.cancel = "unset" /\ old.status = "absent"
      BY <1>1, <3>4 DEF Calls, EntryFits
    <3> QED
      BY <3>1, <3>2, <3>3, <3>4
  <2>4. ThreadFits(t, pc[t], new)
    BY <1>1, <2>2, <2>3 DEF ThreadFits
  <2>5. LoadedFits(new, db[new.job]) /\ \A u \in Threads \ {t} : ~Conflict(new, call[u])
    BY <2>2 DEF LoadedFits, Conflict
  <2>6. pc' = [pc EXCEPT ![t] = pc[t]]
    BY <1>3 DEF JobInv, StateTypes
  <2>7. overdue' \in [Jobs -> BOOLEAN] /\ CacheFits(cache')
    BY <1>1 DEF JobInv, StateTypes
  <2> HIDE DEF new
  <2> QED
    BY <1>1, <1>3, <2>1, <2>4, <2>5, <2>6, <2>7, LocalStep
<1> QED
  BY <1>2, <1>3 DEF Merge

LEMMA LoadStep ==
    ASSUME JobInv, NEW t \in Threads, InSetJob(t), Load(t)
    PROVE  JobInv'
<1> DEFINE c == call[t]
           row == db[c.job]
           new == [c EXCEPT !.step = "loaded", !.row = row]
<1>1. /\ c \in Calls /\ c.step = "merged" /\ c.job \in Jobs
      /\ ThreadFits(t, pc[t], c) /\ pc[t] \in PcOf(t) /\ row \in DbRows
      /\ UNCHANGED <<db, cache, overdue, kind>>
  BY DEF Load, JobInv, StateTypes, ThreadsFit, ThreadFits, others
<1>2. CASE Return(t, FALSE)
  BY <1>1, <1>2, ReturnStep DEF JobInv
<1>3. CASE /\ call' = [call EXCEPT ![t].step = "loaded", ![t].row = row] /\ pc' = pc
           /\ Legal(row.status, c.status)
  <2>1. call' = [call EXCEPT ![t] = new] /\ pc' = [pc EXCEPT ![t] = pc[t]]
    BY <1>3 DEF JobInv, StateTypes
  <2>2. /\ new \in Calls /\ new.step = "loaded" /\ new.job = c.job /\ new.row = row
        /\ new.status = c.status /\ new.cancel = c.cancel
    BY <1>1 DEF Calls
  <2>3. row.status # "none" /\ c.status \in Statuses
    BY <1>1, <1>3, StatusFacts DEF Calls, DbRows
  <2>4. ThreadFits(t, pc[t], new)
    BY <1>1, <2>2 DEF ThreadFits
  <2>5. LoadedFits(new, db[new.job])
    BY <1>3, <2>2, <2>3 DEF LoadedFits
  <2>6. ~Torn => \A u \in Threads \ {t} : ~Conflict(new, call[u])
    BY <2>2 DEF Load, RowFree, Conflict
  <2>7. overdue' \in [Jobs -> BOOLEAN] /\ CacheFits(cache')
    BY <1>1 DEF JobInv, StateTypes
  <2> HIDE DEF new
  <2> QED
    BY <1>1, <2>1, <2>2, <2>4, <2>5, <2>6, <2>7, LocalStep
<1> QED
  BY <1>2, <1>3 DEF Load

LEMMA PersistFailsStep ==
    ASSUME JobInv, NEW t \in Threads, InSetJob(t), PersistFails(t)
    PROVE  JobInv'
<1> DEFINE c == call[t]
           new == [c EXCEPT !.step = "persisted"]
<1>1. /\ c \in Calls /\ c.step = "loaded" /\ c.job \in Jobs /\ c.status \in Statuses
      /\ ThreadFits(t, pc[t], c) /\ pc[t] \in PcOf(t)
      /\ UNCHANGED <<db, cache, overdue, kind>>
  BY DEF PersistFails, JobInv, StateTypes, ThreadsFit, ThreadFits, LoadedFits
<1>2. /\ new \in Calls /\ new.step = "persisted" /\ new.job = c.job
      /\ new.status = c.status /\ new.cancel = c.cancel
  BY <1>1 DEF Calls
<1>3. call' = [call EXCEPT ![t] = new] /\ pc' = [pc EXCEPT ![t] = pc[t]]
  BY DEF PersistFails, JobInv, StateTypes
<1>4. ThreadFits(t, pc[t], new)
  BY <1>1, <1>2 DEF ThreadFits
<1>5. LoadedFits(new, db[new.job]) /\ \A u \in Threads \ {t} : ~Conflict(new, call[u])
  BY <1>2 DEF LoadedFits, Conflict
<1>6. overdue' \in [Jobs -> BOOLEAN] /\ CacheFits(cache')
  BY <1>1 DEF JobInv, StateTypes
<1> HIDE DEF new
<1> QED
  BY <1>1, <1>2, <1>3, <1>4, <1>5, <1>6, LocalStep

LEMMA PublishStep ==
    ASSUME JobInv, NEW t \in Threads, InSetJob(t), Publish(t)
    PROVE  JobInv'
<1> DEFINE c == call[t]
           entry == [status |-> c.status, cancel |-> c.cancel]
<1>1. /\ c \in Calls /\ c.step = "persisted" /\ c.job \in Jobs /\ c.status \in Statuses
      /\ c.cancel = "yes" => c.status \notin Uncancelled
      /\ UNCHANGED <<db, overdue, kind>> /\ Return(t, TRUE)
      /\ cache' = [cache EXCEPT ![c.job] = entry]
  BY DEF Publish, JobInv, StateTypes, ThreadsFit, ThreadFits, others
<1>2. entry \in CacheEntries /\ EntryFits(entry)
  BY <1>1 DEF CacheEntries, EntryFits, Calls, Statuses
<1>3. CacheFits(cache')
  BY <1>1, <1>2 DEF JobInv, CacheFits
<1> QED
  BY <1>1, <1>3, ReturnStep

LEMMA SetJobSteps ==
    ASSUME JobInv, NEW t \in Threads, InSetJob(t), SetJobStep(t)
    PROVE  JobInv' /\ \A j \in Jobs : Torn \/ Legal(db[j].status, db'[j].status)
<1>1. CASE Merge(t)
  BY <1>1, MergeStep DEF Merge, Legal
<1>2. CASE Load(t)
  BY <1>2, LoadStep DEF Load, Legal
<1>3. CASE Persist(t)
  BY <1>3, WriteStep DEF Persist, others
<1>4. CASE PersistFails(t)
  BY <1>4, PersistFailsStep DEF PersistFails, Legal
<1>5. CASE Publish(t)
  BY <1>5, PublishStep DEF Publish, Legal
<1> QED
  BY <1>1, <1>2, <1>3, <1>4, <1>5 DEF SetJobStep
------------------------------------------------------------------------------
(* the worker, its heartbeat, the requests and the sweeps *)

\* A worker that takes up its work keeps to the invariant.
LEMMA WorkerSteps ==
    ASSUME JobInv, NEW j \in Jobs, WorkerStep(j)
    PROVE  JobInv' /\ UNCHANGED db
<1> DEFINE t == Worker(j)
<1>1. t \in Threads /\ t[1] = "worker"
  BY ThreadKinds
<1>2. {"progress", "reporting", "rescuing"} \subseteq InCall(t) /\ "working" \in PcOf(t)
  BY <1>1 DEF InCall, PcOf
<1> HIDE DEF t
<1>3. ASSUME NEW s \in {"cancelled", "done", "failed"}, Report(j, s)
      PROVE  JobInv' /\ UNCHANGED db
  BY <1>1, <1>2, <1>3, AskStep DEF Report, others, Statuses, t
<1>4. CASE WorkerBegins(j)
  <2>1. CASE pc' = [pc EXCEPT ![t] = "working"] /\ UNCHANGED <<db, cache, overdue, call, kind>>
    <3>1. pc[t] = "begin" /\ call[t] \in Calls /\ ThreadFits(t, pc[t], call[t])
      BY <1>1, <1>4 DEF WorkerBegins, JobInv, StateTypes, ThreadsFit, t
    <3>2. call[t].step = "none" /\ call' = [call EXCEPT ![t] = call[t]]
      BY <1>1, <2>1, <3>1 DEF ThreadFits, InCall, JobInv, StateTypes
    <3>3. ThreadFits(t, "working", call[t])
      BY <1>2, <3>1, <3>2 DEF ThreadFits
    <3>4. /\ LoadedFits(call[t], db[call[t].job])
          /\ \A u \in Threads \ {t} : ~Conflict(call[t], call[u])
      BY <3>2 DEF LoadedFits, Conflict
    <3>5. overdue' \in [Jobs -> BOOLEAN] /\ CacheFits(cache')
      BY <2>1 DEF JobInv, StateTypes
    <3> QED
      BY <1>1, <1>2, <2>1, <3>1, <3>2, <3>3, <3>4, <3>5, LocalStep
  <2> QED
    BY <1>3, <1>4, <2>1 DEF WorkerBegins, others, t
<1>5. CASE CollectProgress(j)
  BY <1>1, <1>2, <1>5, AskStep DEF CollectProgress, others, Statuses, t
<1>6. CASE SeesCancel(j)
  BY <1>3, <1>6 DEF SeesCancel
<1>7. CASE WorkerRaises(j)
  BY <1>1, <1>2, <1>7, AskStep DEF WorkerRaises, others, Statuses, t
<1>8. ASSUME NEW s \in {"done", "failed"}, WorkerFinishes(j, s)
      PROVE  JobInv' /\ UNCHANGED db
  BY <1>3, <1>8 DEF WorkerFinishes
<1> QED
  BY <1>4, <1>5, <1>6, <1>7, <1>8 DEF WorkerStep

LEMMA HeartbeatStep ==
    ASSUME JobInv, NEW j \in Jobs, HeartbeatTicks(j)
    PROVE  JobInv' /\ UNCHANGED db
<1> DEFINE t == Beat(j)
<1>1. t \in Threads /\ t[1] = "beat"
  BY ThreadKinds
<1>2. "on" \in InCall(t) /\ "off" \in PcOf(t)
  BY <1>1 DEF InCall, PcOf
<1>3. /\ UNCHANGED <<db, cache, overdue, kind>> /\ pc[t] = "on" /\ call[t].step = "none"
      /\ \/ pc' = [pc EXCEPT ![t] = "off"] /\ UNCHANGED call
         \/ call' = [call EXCEPT ![t] = Asked(j, "same", "unset")] /\ UNCHANGED pc
  BY DEF HeartbeatTicks, others, Idle
<1> HIDE DEF t
<1>4. CASE pc' = [pc EXCEPT ![t] = "off"] /\ UNCHANGED call
  <2>1. /\ call[t] \in Calls /\ ThreadFits(t, "on", call[t])
        /\ call' = [call EXCEPT ![t] = call[t]]
    BY <1>1, <1>3, <1>4 DEF JobInv, StateTypes, ThreadsFit
  <2>2. ThreadFits(t, "off", call[t])
    BY <1>2, <1>3, <2>1 DEF ThreadFits
  <2>3. /\ LoadedFits(call[t], db[call[t].job])
        /\ \A u \in Threads \ {t} : ~Conflict(call[t], call[u])
    BY <1>3 DEF LoadedFits, Conflict
  <2>4. overdue' \in [Jobs -> BOOLEAN] /\ CacheFits(cache')
    BY <1>3 DEF JobInv, StateTypes
  <2> QED
    BY <1>1, <1>2, <1>3, <1>4, <2>1, <2>2, <2>3, <2>4, LocalStep
<1>5. CASE call' = [call EXCEPT ![t] = Asked(j, "same", "unset")] /\ UNCHANGED pc
  <2>1. pc' = [pc EXCEPT ![t] = "on"]
    BY <1>1, <1>3, <1>5 DEF JobInv, StateTypes
  <2> QED
    BY <1>1, <1>2, <1>3, <1>5, <2>1, AskStep
<1> QED
  BY <1>3, <1>4, <1>5

\* Requests of users: the cancellation and the status request that settles one.
LEMMA ClientSteps ==
    ASSUME JobInv, NEW c \in Clients,
           CancelMarks(c) \/ \E j \in Jobs : StatusRequest(c, j) \/ CancelRequest(c, j)
    PROVE  JobInv' /\ UNCHANGED db
<1> DEFINE t == Client(c)
<1>1. t \in Threads /\ t[1] = "client"
  BY ThreadKinds
<1>2. "calling" \in InCall(t) /\ "released" \in PcOf(t) /\ {"idle", "released"} \cap InCall(t) = {}
  BY <1>1 DEF InCall, PcOf
<1>3. call[t] \in Calls /\ ThreadFits(t, pc[t], call[t])
  BY <1>1 DEF JobInv, StateTypes, ThreadsFit
<1>4. "cancelled" \in Statuses /\ "cancelling" \in Statuses
      /\ "cancelled" \notin Uncancelled /\ "cancelling" \notin Uncancelled
  BY DEF Statuses, Uncancelled
<1>5. CASE CancelMarks(c)
  <2>1. call[t].job \in Jobs
    BY <1>3, <1>5 DEF CancelMarks, ThreadFits
  <2>2. CancelTarget(call[t].job) \in {"cancelled", "cancelling"}
    BY DEF CancelTarget
  <2> QED
    BY <1>1, <1>2, <1>4, <1>5, <2>1, <2>2, AskStep DEF CancelMarks, others
<1>6. ASSUME NEW j \in Jobs, StatusRequest(c, j)
      PROVE  JobInv' /\ UNCHANGED db
  BY <1>1, <1>2, <1>4, <1>6, AskStep DEF StatusRequest, others
<1>7. ASSUME NEW j \in Jobs, CancelRequest(c, j)
      PROVE  JobInv' /\ UNCHANGED db
  <2> DEFINE new == [call[t] EXCEPT !.job = j]
  <2>1. /\ pc[t] = "idle" /\ pc' = [pc EXCEPT ![t] = "released"]
        /\ call' = [call EXCEPT ![t] = new] /\ UNCHANGED <<db, cache, overdue, kind>>
    BY <1>7 DEF CancelRequest, others
  <2>2. call[t].step = "none"
    BY <1>2, <1>3, <2>1 DEF ThreadFits
  <2>3. /\ new \in Calls /\ new.step = "none" /\ new.job = j
        /\ new.status = call[t].status /\ new.cancel = call[t].cancel
    BY <1>3, <2>2 DEF Calls
  <2>4. ThreadFits(t, "released", new)
    BY <1>2, <1>3, <2>3 DEF ThreadFits
  <2>5. LoadedFits(new, db[new.job]) /\ \A u \in Threads \ {t} : ~Conflict(new, call[u])
    BY <2>3 DEF LoadedFits, Conflict
  <2>6. overdue' \in [Jobs -> BOOLEAN] /\ CacheFits(cache')
    BY <2>1 DEF JobInv, StateTypes
  <2> HIDE DEF new
  <2> QED
    BY <1>1, <1>2, <2>1, <2>3, <2>4, <2>5, <2>6, LocalStep
<1> QED
  BY <1>5, <1>6, <1>7

\* The recovery loop and list_jobs: the direct write and the orphan's failure.
LEMMA SweepSteps ==
    ASSUME JobInv, NEW s \in Sweepers, SweepStep(s)
    PROVE  JobInv' /\ \A j \in Jobs : Torn \/ Legal(db[j].status, db'[j].status)
<1> DEFINE t == Sweeper(s)
<1>1. t \in Threads /\ t[1] = "sweep"
  BY ThreadKinds
<1>2. {"orphan", "stale"} \subseteq InCall(t) /\ {"idle", "stale"} \subseteq PcOf(t)
  BY <1>1 DEF InCall, PcOf
<1>3. call[t] \in Calls /\ ThreadFits(t, pc[t], call[t]) /\ LoadedFits(call[t], db[call[t].job])
  BY <1>1 DEF JobInv, StateTypes, ThreadsFit
<1>4. ASSUME NEW j \in Jobs, SweepStale(s, j)
      PROVE  JobInv' /\ UNCHANGED db
  <2> DEFINE new == [NoCall EXCEPT !.step = "loaded", !.job = j,
                                   !.status = "cancelled", !.row = db[j]]
  <2>1. /\ pc' = [pc EXCEPT ![t] = "stale"] /\ call' = [call EXCEPT ![t] = new]
        /\ UNCHANGED <<db, cache, overdue, kind>>
        /\ db[j].status = "cancelling" /\ RowFree(t, j)
    BY <1>4 DEF SweepStale, SweptStale, others
  <2>2. db[j] \in DbRows
    BY DEF JobInv, StateTypes
  <2>3. /\ new \in Calls /\ new.step = "loaded" /\ new.job = j /\ new.row = db[j]
        /\ new.status = "cancelled" /\ new.cancel = "unset"
    BY <2>2 DEF Calls, NoCall, Statuses
  <2> HIDE DEF new
  <2>4. ThreadFits(t, "stale", new)
    BY <1>2, <2>3 DEF ThreadFits
  <2>5. LoadedFits(new, db[new.job])
    BY <2>1, <2>3, StatusFacts DEF LoadedFits, Statuses
  <2>6. ~Torn => \A u \in Threads \ {t} : ~Conflict(new, call[u])
    BY <2>1, <2>3 DEF RowFree, Conflict
  <2>7. overdue' \in [Jobs -> BOOLEAN] /\ CacheFits(cache')
    BY <2>1 DEF JobInv, StateTypes
  <2> QED
    BY <1>1, <1>2, <2>1, <2>3, <2>4, <2>5, <2>6, <2>7, LocalStep
<1>5. ASSUME NEW j \in Jobs, SweepOrphan(s, j)
      PROVE  JobInv' /\ UNCHANGED db
  <2>1. "failed" \in Statuses /\ "failed" \notin Uncancelled
    BY DEF Statuses, Uncancelled
  <2> QED
    BY <1>1, <1>2, <1>5, <2>1, AskStep DEF SweepOrphan, others
<1>6. CASE SweepStaleCommits(s)
  BY <1>1, <1>6, WriteStep DEF SweepStaleCommits, others
<1>7. CASE SweepStaleFails(s)
  <2>1. CacheFits(cache')
    BY <1>7 DEF SweepStaleFails, JobInv
  <2> QED
    BY <1>1, <1>2, <1>7, <2>1, RestStep DEF SweepStaleFails, Legal
<1>8. CASE SweepStaleCaches(s)
  <2>1. CacheFits(cache')
    BY <1>8 DEF SweepStaleCaches, JobInv, CacheFits, CacheEntries, EntryFits, Statuses, Uncancelled
  <2> QED
    BY <1>1, <1>2, <1>8, <2>1, RestStep DEF SweepStaleCaches, others, Legal
<1> QED
  BY <1>4, <1>5, <1>6, <1>7, <1>8 DEF SweepStep, Legal
------------------------------------------------------------------------------
(* new jobs, time, and the end of the process *)

LEMMA SubmitStep ==
    ASSUME JobInv, NEW j \in Jobs, NEW k \in {"send", "collect"}, Submit(j, k)
    PROVE  JobInv' /\ \A i \in Jobs : db[i].status # "none" => Legal(db[i].status, db'[i].status)
<1> DEFINE row == [NoRow EXCEPT !.status = "running"]
           entry == [status |-> "running", cancel |-> "unset"]
<1>1. /\ db' = [db EXCEPT ![j] = row] /\ cache' = [cache EXCEPT ![j] = entry]
      /\ kind' = [kind EXCEPT ![j] = k] /\ UNCHANGED <<overdue, call>>
      /\ pc' = [t \in Threads |-> IF t = Worker(j) THEN "begin"
                                  ELSE IF t = Beat(j) /\ k = "send" THEN "on" ELSE pc[t]]
      /\ pc[Worker(j)] = "none" /\ db[j].status = "none"
  BY DEF Submit, JobInv, RowFits
<1>2. row \in DbRows /\ row.status = "running" /\ ~row.cancel
  BY DEF NoRow, DbRows, Statuses
<1>3. entry \in CacheEntries /\ EntryFits(entry)
  BY DEF CacheEntries, EntryFits, Statuses
<1> HIDE DEF row, entry
<1>4. StateTypes'
  BY <1>1, <1>2 DEF JobInv, StateTypes, Pcs
<1>5. ASSUME NEW t \in Threads
      PROVE  ThreadFits(t, pc'[t], call'[t]) /\ LoadedFits(call'[t], db'[call'[t].job])
  <2>1. ThreadFits(t, pc[t], call[t]) /\ LoadedFits(call[t], db[call[t].job])
    BY DEF JobInv, ThreadsFit
  <2>2. call[t].step = "loaded" => db'[call[t].job] = db[call[t].job]
    BY <1>1, <2>1 DEF JobInv, StateTypes, ThreadFits, LoadedFits
  <2>3. CASE t = Worker(j)
    BY <1>1, <2>1, <2>2, <2>3, ThreadKinds DEF ThreadFits, LoadedFits, PcOf, InCall
  <2>4. CASE t = Beat(j) /\ t # Worker(j) /\ k = "send"
    BY <1>1, <2>1, <2>2, <2>4, ThreadKinds DEF ThreadFits, LoadedFits, PcOf, InCall
  <2>5. CASE t # Worker(j) /\ ~(t = Beat(j) /\ k = "send")
    BY <1>1, <2>1, <2>2, <2>5 DEF LoadedFits
  <2> QED
    BY <2>3, <2>4, <2>5
<1>6. LoadedAlone'
  BY <1>1 DEF JobInv, LoadedAlone
<1>7. CacheFits(cache')
  BY <1>1, <1>3 DEF JobInv, CacheFits
<1>8. ASSUME NEW i \in Jobs
      PROVE  /\ RowFits(i)'
             /\ db[i].status # "none" => Legal(db[i].status, db'[i].status)
  <2>1. db'[i] = IF i = j THEN row ELSE db[i]
    BY <1>1 DEF JobInv, StateTypes
  <2>2. Worker(i) \in Threads /\ (i # j => Worker(i) # Worker(j))
    BY ThreadKinds
  <2>3. pc'[Worker(i)] = "none" => i # j /\ pc[Worker(i)] = "none"
    BY <1>1, <2>2
  <2> QED
    BY <1>1, <1>2, <2>1, <2>3 DEF JobInv, RowFits, Legal
<1> QED
  BY <1>4, <1>5, <1>6, <1>7, <1>8 DEF JobInv, ThreadsFit

LEMMA AgeSteps ==
    ASSUME JobInv, NEW j \in Jobs, UpdateAges(j) \/ CancelAges(j)
    PROVE  JobInv' /\ \A i \in Jobs : Legal(db[i].status, db'[i].status)
<1>1. /\ UNCHANGED <<cache, kind, pc, call>> /\ overdue' \in [Jobs -> BOOLEAN]
      /\ db' = db \/ db' = [db EXCEPT ![j].age = "old"]
  <2>1. CASE UpdateAges(j)
    BY <2>1 DEF UpdateAges, JobInv, StateTypes, others
  <2>2. CASE CancelAges(j)
    BY <2>2 DEF CancelAges, JobInv, StateTypes, others
  <2> QED
    BY <2>1, <2>2
<1>2. /\ db' \in [Jobs -> DbRows]
      /\ \A i \in Jobs : db'[i].status = db[i].status /\ db'[i].cancel = db[i].cancel
  <2>1. db[j] \in DbRows /\ db \in [Jobs -> DbRows]
    BY DEF JobInv, StateTypes
  <2>2. /\ [db[j] EXCEPT !.age = "old"] \in DbRows
        /\ [db[j] EXCEPT !.age = "old"].status = db[j].status
        /\ [db[j] EXCEPT !.age = "old"].cancel = db[j].cancel
    BY <2>1 DEF DbRows
  <2>3. db' = db \/ db' = [db EXCEPT ![j] = [db[j] EXCEPT !.age = "old"]]
    BY <1>1
  <2> QED
    BY <2>1, <2>2, <2>3
<1>3. StateTypes' /\ LoadedAlone' /\ CacheFits(cache')
  BY <1>1, <1>2 DEF JobInv, StateTypes, LoadedAlone
<1>4. ThreadsFit'
  <2> SUFFICES ASSUME NEW t \in Threads
               PROVE  /\ ThreadFits(t, pc'[t], call'[t])
                      /\ LoadedFits(call'[t], db'[call'[t].job])
    BY DEF ThreadsFit
  <2>1. ThreadFits(t, pc[t], call[t]) /\ LoadedFits(call[t], db[call[t].job])
    BY DEF JobInv, ThreadsFit
  <2>2. call[t].step = "loaded" => call[t].job \in Jobs
    BY <2>1 DEF ThreadFits
  <2> QED
    BY <1>1, <1>2, <2>1, <2>2 DEF LoadedFits
<1>5. \A i \in Jobs : RowFits(i)' /\ Legal(db[i].status, db'[i].status)
  BY <1>1, <1>2 DEF JobInv, RowFits, Legal
<1> QED
  BY <1>3, <1>4, <1>5 DEF JobInv

LEMMA RestartStep ==
    ASSUME JobInv, Restart
    PROVE  JobInv' /\ UNCHANGED db
<1>1. /\ cache' = [j \in Jobs |-> Absent] /\ call' = [t \in Threads |-> NoCall]
      /\ UNCHANGED <<db, overdue, kind>>
  BY DEF Restart
<1>2. ASSUME NEW t \in Threads
      PROVE  /\ pc'[t] \in PcOf(t) /\ pc'[t] # "released"
             /\ pc'[t] = "none" => pc[t] = "none"
  BY ThreadKinds DEF Restart, PcOf
<1>3. \A t \in Threads : PcOf(t) \subseteq Pcs
  BY ThreadKinds DEF PcOf, Pcs
<1>4. \E f : pc' = [t \in Threads |-> f[t]]
  <2> DEFINE f == [t \in Threads |-> CASE t[1] = "worker" -> IF pc[t] = "none" THEN "none" ELSE "ended"
                                       [] t[1] = "beat" -> "off"
                                       [] OTHER -> "idle"]
  <2>1. pc' = [t \in Threads |-> f[t]]
    BY DEF Restart
  <2> HIDE DEF f
  <2> QED
    BY <2>1
<1>5. StateTypes'
  BY <1>1, <1>2, <1>3, <1>4, CallTypes DEF JobInv, StateTypes
<1>6. ThreadsFit' /\ LoadedAlone'
  BY <1>1, <1>2 DEF ThreadsFit, ThreadFits, LoadedFits, LoadedAlone, Conflict, NoCall
<1>7. CacheFits(cache')
  BY <1>1 DEF CacheFits, CacheEntries, EntryFits, Absent
<1>8. \A j \in Jobs : RowFits(j)'
  BY <1>1, <1>2, ThreadKinds DEF JobInv, RowFits
<1> QED
  BY <1>1, <1>5, <1>6, <1>7, <1>8 DEF JobInv
------------------------------------------------------------------------------
LEMMA InitJobInv == Init => JobInv
<1> SUFFICES ASSUME Init
             PROVE  JobInv
  OBVIOUS
<1>1. /\ db = [j \in Jobs |-> NoRow] /\ cache = [j \in Jobs |-> Absent]
      /\ overdue = [j \in Jobs |-> FALSE] /\ kind = [j \in Jobs |-> "none"]
      /\ call = [t \in Threads |-> NoCall]
  BY DEF Init
<1>2. ASSUME NEW t \in Threads
      PROVE  pc[t] \in PcOf(t) /\ pc[t] # "released"
  BY ThreadKinds DEF Init, PcOf
<1>3. pc \in [Threads -> Pcs]
  BY DEF Init, Pcs
<1>4. StateTypes
  BY <1>1, <1>3, CallTypes DEF StateTypes, NoRow, DbRows
<1>5. ThreadsFit /\ LoadedAlone
  BY <1>1, <1>2 DEF ThreadsFit, ThreadFits, LoadedFits, LoadedAlone, Conflict, NoCall
<1>6. CacheFits(cache)
  BY <1>1 DEF CacheFits, CacheEntries, EntryFits, Absent
<1>7. \A j \in Jobs : RowFits(j)
  BY <1>1 DEF RowFits, NoRow
<1> QED
  BY <1>4, <1>5, <1>6, <1>7 DEF JobInv

\* Every step keeps the invariant and moves the rows along ALLOWED_TRANSITIONS.
LEMMA NextJobInv ==
    ASSUME JobInv, [Next]_vars
    PROVE  /\ JobInv'
           /\ \A j \in Jobs : db[j].status # "none" => Torn \/ Legal(db[j].status, db'[j].status)
<1>1. ASSUME NEW t \in Threads, InSetJob(t), SetJobStep(t)
      PROVE  JobInv' /\ \A j \in Jobs : Torn \/ Legal(db[j].status, db'[j].status)
  BY <1>1, SetJobSteps
<1>2. ASSUME NEW j \in Jobs, NEW k \in {"send", "collect"}, Submit(j, k)
      PROVE  JobInv' /\ \A i \in Jobs : db[i].status # "none" => Legal(db[i].status, db'[i].status)
  BY <1>2, SubmitStep
<1>3. ASSUME NEW j \in Jobs, WorkerStep(j) \/ HeartbeatTicks(j)
      PROVE  JobInv' /\ UNCHANGED db
  BY <1>3, WorkerSteps, HeartbeatStep
<1>4. ASSUME NEW j \in Jobs, UpdateAges(j) \/ CancelAges(j)
      PROVE  JobInv' /\ \A i \in Jobs : Legal(db[i].status, db'[i].status)
  BY <1>4, AgeSteps
<1>5. ASSUME NEW c \in Clients,
             CancelMarks(c) \/ \E j \in Jobs : StatusRequest(c, j) \/ CancelRequest(c, j)
      PROVE  JobInv' /\ UNCHANGED db
  BY <1>5, ClientSteps
<1>6. ASSUME NEW s \in Sweepers, SweepStep(s)
      PROVE  JobInv' /\ \A j \in Jobs : Torn \/ Legal(db[j].status, db'[j].status)
  BY <1>6, SweepSteps
<1>7. CASE Restart
  BY <1>7, RestartStep DEF Legal
<1>8. CASE UNCHANGED vars
  <2>1. UNCHANGED <<db, cache, overdue, kind, pc, call>>
    BY <1>8 DEF vars
  <2> QED
    BY <2>1 DEF JobInv, StateTypes, ThreadsFit, LoadedAlone, RowFits, Legal
<1> QED
  BY <1>1, <1>2, <1>3, <1>4, <1>5, <1>6, <1>7, <1>8 DEF Next, Legal

LEMMA JobInvariant == Spec => []JobInv
<1>1. JobInv /\ [Next]_vars => JobInv'
  BY NextJobInv
<1> QED
  BY <1>1, InitJobInv, PTL DEF Spec

\* Rows, cached entries, threads and calls keep their types, torn writes or not:
\* in particular a status of the cache or of a call that the job table does not
\* know is never written to it.
THEOREM JobTypes == Spec => []TypeOK
<1>1. JobInv => TypeOK
  <2> SUFFICES ASSUME JobInv
               PROVE  TypeOK
    OBVIOUS
  <2>1. /\ \A j \in Jobs : pc[Worker(j)] \in {"none", "begin", "working", "progress",
                                              "reporting", "rescuing", "ended"}
        /\ \A j \in Jobs : pc[Beat(j)] \in {"on", "off"}
        /\ \A c \in Clients : pc[Client(c)] \in {"idle", "released", "calling"}
        /\ \A s \in Sweepers : pc[Sweeper(s)] \in {"idle", "orphan", "stale"}
    BY ThreadKinds DEF JobInv, ThreadsFit, ThreadFits, PcOf
  <2>2. \A t \in Threads : call[t].step \in
          {"none", "asked", "merged", "loaded", "persisted", "committed"}
    BY DEF JobInv, StateTypes, Calls
  <2> QED
    BY <2>1, <2>2 DEF TypeOK, JobInv, StateTypes, DbRows, CacheFits, CacheEntries
<1> QED
  BY <1>1, JobInvariant, PTL

\* A job whose cancellation the user was promised is never recorded as done.
THEOREM CancelledStaysUndone ==
    ASSUME ~Torn
    PROVE  Spec => []CancelledNeverDone
<1>1. JobInv => CancelledNeverDone
  BY DEF JobInv, RowFits, Uncancelled, CancelledNeverDone
<1> QED
  BY <1>1, JobInvariant, PTL

\* A job's row only moves along ALLOWED_TRANSITIONS.
THEOREM RowsMoveLegally ==
    ASSUME ~Torn
    PROVE  Spec => LegalTransitions
<1>1. JobInv /\ [Next]_vars =>
        [\A j \in Jobs : db[j].status # "none" => Legal(db[j].status, db'[j].status)]_db
  BY NextJobInv
<1> QED
  BY <1>1, JobInvariant, PTL DEF Spec, LegalTransitions
==============================================================================
