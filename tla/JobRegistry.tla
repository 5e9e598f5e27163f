----------------------------- MODULE JobRegistry -----------------------------
(***************************************************************************)
(* Background jobs as server/workers.py keeps them: one row per job in the *)
(* database, the source of truth, and a copy in the process's _jobs cache. *)
(* Every update goes through _set_job, which reads the cache under its     *)
(* lock, checks and writes the database, and puts its own snapshot back in *)
(* the cache.  The job's worker, its heartbeat thread, API requests and    *)
(* the recovery loop all do this at the same time.                         *)
(***************************************************************************)
EXTENDS Naturals

CONSTANTS Jobs,          \* job ids, in the order the recovery query lists them
          Clients,       \* threads serving cancel and status requests
          Sweepers,      \* threads reconciling: the recovery loop, list_jobs
          MaxRestarts,   \* bound: restarts of the server process
          MaxErrors,     \* bound: failed writes, which are logged and swallowed
          Torn           \* may another session write a row between the check
                         \* and the UPDATE of _persist_job?

ASSUME JobAssumption ==
    /\ Jobs \subseteq Nat
    /\ MaxRestarts \in Nat /\ MaxErrors \in Nat
    /\ Torn \in BOOLEAN

VARIABLES
    db,        \* the job's row: status, cancel_requested, age of updated_at
    cache,     \* _jobs: status and cancel_requested, or Absent
    overdue,   \* the cancel request is older than _CANCELLING_GRACE_SECONDS
    kind,      \* "send" or "collect", once the job exists
    pc,        \* what each thread is doing
    call,      \* the _set_job call each thread is in
    restarts, errors

vars == <<db, cache, overdue, kind, pc, call, restarts, errors>>
others == <<kind, restarts, errors>>
------------------------------------------------------------------------------
Statuses == {"running", "cancelling", "cancelled", "done", "failed"}
Terminal == {"cancelled", "done", "failed"}

\* Variants named after the slip they make stand before the definition they
\* vary; the runs check that TLC notices each of them.
AllowedWithoutGate(s) == Statuses
Allowed(s) ==
    CASE s = "running" -> {"cancelling", "cancelled", "done", "failed"}
      [] s = "cancelling" -> {"cancelled", "failed"}
      [] OTHER -> {}
Legal(s, t) == s = t \/ t \in Allowed(s)

Worker(j) == <<"worker", j>>
Beat(j) == <<"beat", j>>
Client(c) == <<"client", c>>
Sweeper(s) == <<"sweep", s>>
Threads == {Worker(j) : j \in Jobs} \cup {Beat(j) : j \in Jobs}
             \cup {Client(c) : c \in Clients} \cup {Sweeper(s) : s \in Sweepers}

NoRow == [status |-> "none", cancel |-> FALSE, age |-> "fresh"]
Absent == [status |-> "absent", cancel |-> "unset"]
InMemory(j) == cache[j].status # "absent"

\* A call: the job, the status it sets ("same": none given), the flag it sets
\* ("unset": none given), and the row it loaded.
NoCall == [step |-> "none", job |-> 0, status |-> "same", cancel |-> "unset", row |-> NoRow]
Asked(j, status, cancel) ==
    [step |-> "asked", job |-> j, status |-> status, cancel |-> cancel, row |-> NoRow]

Idle(t) == call[t].step = "none"

IsCancelRequested(j) == cache[j].cancel = "yes" \/ db[j].cancel

Init ==
    /\ db = [j \in Jobs |-> NoRow]
    /\ cache = [j \in Jobs |-> Absent]
    /\ overdue = [j \in Jobs |-> FALSE]
    /\ kind = [j \in Jobs |-> "none"]
    /\ pc = [t \in Threads |-> IF t[1] = "worker" THEN "none"
                               ELSE IF t[1] = "beat" THEN "off" ELSE "idle"]
    /\ call = [t \in Threads |-> NoCall]
    /\ restarts = 0 /\ errors = 0
------------------------------------------------------------------------------
(* _set_job *)

\* Where a thread goes when its call returns, or raises ValueError.  A worker
\* whose update is refused lands in its except clause and reports a failure;
\* a second refusal, like a heartbeat's, ends the thread.
AfterCall(p, ok) ==
    CASE p = "progress" -> IF ok THEN "working" ELSE "rescuing"
      [] p = "reporting" -> IF ok THEN "ended" ELSE "rescuing"
      [] p = "rescuing" -> "ended"
      [] p = "on" -> IF ok THEN "on" ELSE "off"
      [] OTHER -> "idle"

Return(t, ok) ==
    LET next == AfterCall(pc[t], ok) IN
    /\ pc' = [pc EXCEPT ![t] = next]
    /\ call' = [call EXCEPT ![t] = IF next = "rescuing"
                                   THEN Asked(@.job, "failed", "unset") ELSE NoCall]

\* The cached entry is copied under the lock and merged with the new fields.
Merge(t) ==
    LET c == call[t]
        old == cache[c.job]
    IN
    /\ c.step = "asked"
    /\ IF InMemory(c.job) /\ c.status # "same" /\ ~Legal(old.status, c.status)
       THEN Return(t, FALSE)
       ELSE /\ call' = [call EXCEPT ![t] =
                 [c EXCEPT !.step = "merged",
                           !.status = IF @ = "same" THEN old.status ELSE @,
                           !.cancel = IF @ = "unset" THEN old.cancel ELSE @]]
            /\ UNCHANGED pc
    /\ UNCHANGED <<db, cache, overdue, others>>

\* Only Torn lets a write fall between another thread's load and its write.
RowFree(t, j) ==
    Torn \/ \A u \in Threads \ {t} : ~(call[u].step = "loaded" /\ call[u].job = j)

\* _persist_job: load the row and check the transition.
Load(t) ==
    LET c == call[t] IN
    /\ c.step = "merged"
    /\ RowFree(t, c.job)
    /\ IF Legal(db[c.job].status, c.status)
       THEN /\ call' = [call EXCEPT ![t].step = "loaded", ![t].row = db[c.job]]
            /\ UNCHANGED pc
       ELSE Return(t, FALSE)
    /\ UNCHANGED <<db, cache, overdue, others>>

\* The UPDATE holds the attributes that differ from the row as loaded, and
\* updated_at.
Updated(row, c) ==
    [status |-> IF c.status # c.row.status THEN c.status ELSE row.status,
     cancel |-> IF c.cancel # "unset" /\ (c.cancel = "yes") # c.row.cancel
                THEN c.cancel = "yes" ELSE row.cancel,
     age |-> "fresh"]

Persist(t) ==
    LET c == call[t] IN
    /\ c.step = "loaded"
    /\ db' = [db EXCEPT ![c.job] = Updated(@, c)]
    /\ call' = [call EXCEPT ![t].step = "persisted"]
    /\ UNCHANGED <<cache, overdue, pc, others>>

PersistFails(t) ==
    /\ call[t].step = "loaded"
    /\ errors < MaxErrors
    /\ errors' = errors + 1
    /\ call' = [call EXCEPT ![t].step = "persisted"]
    /\ UNCHANGED <<db, cache, overdue, kind, pc, restarts>>

\* The snapshot replaces whatever the cache holds by now.
Publish(t) ==
    LET c == call[t] IN
    /\ c.step = "persisted"
    /\ cache' = [cache EXCEPT ![c.job] = [status |-> c.status, cancel |-> c.cancel]]
    /\ Return(t, TRUE)
    /\ UNCHANGED <<db, overdue, others>>

SetJobStep(t) == Merge(t) \/ Load(t) \/ Persist(t) \/ PersistFails(t) \/ Publish(t)
------------------------------------------------------------------------------
(* run_send_job and run_collect_job *)

\* Nobody knows the new id before both the row and the cache entry exist.
Submit(j, k) ==
    /\ pc[Worker(j)] = "none"
    /\ kind' = [kind EXCEPT ![j] = k]
    /\ db' = [db EXCEPT ![j] = [NoRow EXCEPT !.status = "running"]]
    /\ cache' = [cache EXCEPT ![j] = [status |-> "running", cancel |-> "unset"]]
    /\ pc' = [t \in Threads |-> IF t = Worker(j) THEN "begin"
                                ELSE IF t = Beat(j) /\ k = "send" THEN "on" ELSE pc[t]]
    /\ UNCHANGED <<overdue, call, restarts, errors>>

Report(j, status) ==
    /\ pc' = [pc EXCEPT ![Worker(j)] = "reporting"]
    /\ call' = [call EXCEPT ![Worker(j)] = Asked(j, status, "unset")]
    /\ UNCHANGED <<db, cache, overdue, others>>

WorkerBegins(j) ==
    /\ pc[Worker(j)] = "begin"
    /\ IF IsCancelRequested(j) THEN Report(j, "cancelled")
       ELSE /\ pc' = [pc EXCEPT ![Worker(j)] = "working"]
            /\ UNCHANGED <<db, cache, overdue, call, others>>

\* A collect job reports progress and beats from its own event loop.
CollectProgress(j) ==
    /\ kind[j] = "collect"
    /\ pc[Worker(j)] = "working"
    /\ pc' = [pc EXCEPT ![Worker(j)] = "progress"]
    /\ call' = [call EXCEPT ![Worker(j)] = Asked(j, "same", "unset")]
    /\ UNCHANGED <<db, cache, overdue, others>>

\* The last look at the cancel flag.
SeesCancel(j) ==
    /\ pc[Worker(j)] = "working"
    /\ IsCancelRequested(j)
    /\ Report(j, "cancelled")

\* The work is over.  A send job has just seen no cancel request and may also
\* have failed on every device; a collect job reports "done" unseen.
WorkerFinishes(j, status) ==
    /\ pc[Worker(j)] = "working"
    /\ IF kind[j] = "send" THEN ~IsCancelRequested(j) ELSE status = "done"
    /\ Report(j, status)

\* run_senders or run_discovery raises: the except clause reports the failure.
WorkerRaises(j) ==
    /\ pc[Worker(j)] = "working"
    /\ pc' = [pc EXCEPT ![Worker(j)] = "rescuing"]
    /\ call' = [call EXCEPT ![Worker(j)] = Asked(j, "failed", "unset")]
    /\ UNCHANGED <<db, cache, overdue, others>>

\* The heartbeat thread of a send job wakes up; the worker's end stops it.
HeartbeatTicks(j) ==
    /\ pc[Beat(j)] = "on" /\ Idle(Beat(j))
    /\ IF pc[Worker(j)] = "ended" \/ cache[j].status # "running"
       THEN pc' = [pc EXCEPT ![Beat(j)] = "off"] /\ UNCHANGED call
       ELSE call' = [call EXCEPT ![Beat(j)] = Asked(j, "same", "unset")] /\ UNCHANGED pc
    /\ UNCHANGED <<db, cache, overdue, others>>
------------------------------------------------------------------------------
(* cancel_job and get_job_status *)

Shown(j) == IF InMemory(j) THEN [status |-> cache[j].status, cancel |-> cache[j].cancel = "yes"]
            ELSE [status |-> db[j].status, cancel |-> db[j].cancel]

StaleCancelling(v, j) == v.status = "cancelling" /\ v.cancel /\ overdue[j]

\* Any status request settles a cancellation that has been pending too long.
StatusRequest(c, j) ==
    /\ pc[Client(c)] = "idle"
    /\ StaleCancelling(Shown(j), j)
    /\ pc' = [pc EXCEPT ![Client(c)] = "calling"]
    /\ call' = [call EXCEPT ![Client(c)] = Asked(j, "cancelled", "yes")]
    /\ UNCHANGED <<db, cache, overdue, others>>

\* The request reads a running job, then takes its claims back.
CancelRequest(c, j) ==
    /\ pc[Client(c)] = "idle"
    /\ Shown(j).status = "running"
    /\ pc' = [pc EXCEPT ![Client(c)] = "released"]
    /\ call' = [call EXCEPT ![Client(c)].job = j]
    /\ UNCHANGED <<db, cache, overdue, others>>

\* A job this process does not know is cancelled outright.
CancelTarget(j) == IF InMemory(j) THEN "cancelling" ELSE "cancelled"

CancelMarks(c) ==
    LET j == call[Client(c)].job IN
    /\ pc[Client(c)] = "released"
    /\ pc' = [pc EXCEPT ![Client(c)] = "calling"]
    /\ call' = [call EXCEPT ![Client(c)] = Asked(j, CancelTarget(j), "yes")]
    /\ UNCHANGED <<db, cache, overdue, others>>
------------------------------------------------------------------------------
(* reconcile_stale_cancellations and reconcile_orphaned_running_jobs *)

SweptStaleAnyStatus(j) == db[j].cancel /\ overdue[j]
SweptStaleInMemory(j) == cache[j].status = "cancelling" /\ overdue[j]
SweptStale(j) == db[j].status = "cancelling" /\ db[j].cancel /\ overdue[j]

\* The row is written directly, then the cached entry in place.
SweepStale(s, j) ==
    /\ pc[Sweeper(s)] = "idle"
    /\ SweptStale(j)
    /\ RowFree(Sweeper(s), j)
    /\ pc' = [pc EXCEPT ![Sweeper(s)] = "stale"]
    /\ call' = [call EXCEPT ![Sweeper(s)] =
                  [NoCall EXCEPT !.step = "loaded", !.job = j,
                                 !.status = "cancelled", !.row = db[j]]]
    /\ UNCHANGED <<db, cache, overdue, others>>

SweepStaleCommits(s) ==
    LET c == call[Sweeper(s)] IN
    /\ pc[Sweeper(s)] = "stale" /\ c.step = "loaded"
    /\ db' = [db EXCEPT ![c.job] = Updated(@, c)]
    /\ call' = [call EXCEPT ![Sweeper(s)].step = "committed"]
    /\ UNCHANGED <<cache, overdue, pc, others>>

\* The transaction fails and is rolled back; the next sweep starts afresh.
SweepStaleFails(s) ==
    /\ pc[Sweeper(s)] = "stale" /\ call[Sweeper(s)].step = "loaded"
    /\ errors < MaxErrors
    /\ errors' = errors + 1
    /\ pc' = [pc EXCEPT ![Sweeper(s)] = "idle"]
    /\ call' = [call EXCEPT ![Sweeper(s)] = NoCall]
    /\ UNCHANGED <<db, cache, overdue, kind, restarts>>

SweepStaleCaches(s) ==
    LET j == call[Sweeper(s)].job IN
    /\ pc[Sweeper(s)] = "stale" /\ call[Sweeper(s)].step = "committed"
    /\ cache' = IF InMemory(j) THEN [cache EXCEPT ![j].status = "cancelled"] ELSE cache
    /\ pc' = [pc EXCEPT ![Sweeper(s)] = "idle"]
    /\ call' = [call EXCEPT ![Sweeper(s)] = NoCall]
    /\ UNCHANGED <<db, overdue, others>>

OrphanedInMemory(j) == InMemory(j) /\ db[j].status = "running" /\ db[j].age = "old"
Orphaned(j) == db[j].status = "running" /\ db[j].age = "old"

\* Jobs are taken in query order, and an exception ends the sweep: a job that
\* raises keeps those behind it from being reached.
SweepOrphan(s, j) ==
    /\ pc[Sweeper(s)] = "idle"
    /\ Orphaned(j) /\ \A k \in Jobs : Orphaned(k) => j <= k
    /\ pc' = [pc EXCEPT ![Sweeper(s)] = "orphan"]
    /\ call' = [call EXCEPT ![Sweeper(s)] =
                  Asked(j, "failed", IF db[j].cancel THEN "yes" ELSE "no")]
    /\ UNCHANGED <<db, cache, overdue, others>>
------------------------------------------------------------------------------
(* time, and the end of the process *)

\* No update for _RUNNING_JOB_TIMEOUT_SECONDS.  The thread of a send job beats
\* ten times in that long; a collect job's event loop may be busy for longer.
UpdateAges(j) ==
    /\ db[j].status = "running" /\ db[j].age = "fresh"
    /\ kind[j] = "send" => pc[Beat(j)] = "off"
    /\ db' = [db EXCEPT ![j].age = "old"]
    /\ UNCHANGED <<cache, overdue, pc, call, others>>

CancelAges(j) ==
    /\ db[j].cancel /\ ~overdue[j]
    /\ overdue' = [overdue EXCEPT ![j] = TRUE]
    /\ UNCHANGED <<db, cache, pc, call, others>>

Restart ==
    /\ restarts < MaxRestarts
    /\ restarts' = restarts + 1
    /\ cache' = [j \in Jobs |-> Absent]
    /\ call' = [t \in Threads |-> NoCall]
    /\ pc' = [t \in Threads |-> CASE t[1] = "worker" -> IF pc[t] = "none" THEN "none" ELSE "ended"
                                  [] t[1] = "beat" -> "off"
                                  [] OTHER -> "idle"]
    /\ UNCHANGED <<db, overdue, kind, errors>>

\* A sweeper's direct write is not a _set_job call.
InSetJob(t) == pc[t] # "stale"

WorkerStep(j) ==
    \/ WorkerBegins(j) \/ CollectProgress(j) \/ SeesCancel(j) \/ WorkerRaises(j)
    \/ \E status \in {"done", "failed"} : WorkerFinishes(j, status)
SweepStep(s) ==
    \/ \E j \in Jobs : SweepStale(s, j) \/ SweepOrphan(s, j)
    \/ SweepStaleCommits(s) \/ SweepStaleFails(s) \/ SweepStaleCaches(s)

Next ==
    \/ \E t \in Threads : InSetJob(t) /\ SetJobStep(t)
    \/ \E j \in Jobs : \/ \E k \in {"send", "collect"} : Submit(j, k)
                       \/ WorkerStep(j) \/ HeartbeatTicks(j)
                       \/ UpdateAges(j) \/ CancelAges(j)
    \/ \E c \in Clients : CancelMarks(c) \/ \E j \in Jobs : StatusRequest(c, j) \/ CancelRequest(c, j)
    \/ \E s \in Sweepers : SweepStep(s)
    \/ Restart

\* Threads inside a call finish it, the recovery loop keeps running and time
\* passes.  Users need not do anything, and a worker may work for ever.  The
\* fairness is strong where a step waits for RowFree, a gap between two
\* statements of another thread that no thread falls into every time.
Fairness ==
    /\ \A t \in Threads : SF_vars(InSetJob(t) /\ SetJobStep(t))
    /\ \A j \in Jobs : WF_vars(HeartbeatTicks(j))
    /\ \A j \in Jobs : WF_vars(UpdateAges(j)) /\ WF_vars(CancelAges(j))
    /\ \A s \in Sweepers : SF_vars(SweepStep(s))
    /\ \A c \in Clients : WF_vars(CancelMarks(c))

Spec == Init /\ [][Next]_vars
FairSpec == Spec /\ Fairness
------------------------------------------------------------------------------
TypeOK ==
    /\ db \in [Jobs -> [status : Statuses \cup {"none"}, cancel : BOOLEAN, age : {"fresh", "old"}]]
    /\ cache \in [Jobs -> [status : Statuses \cup {"absent"}, cancel : {"unset", "yes", "no"}]]
    /\ overdue \in [Jobs -> BOOLEAN]
    /\ \A j \in Jobs : pc[Worker(j)] \in
         {"none", "begin", "working", "progress", "reporting", "rescuing", "ended"}
    /\ kind \in [Jobs -> {"none", "send", "collect"}]
    /\ \A j \in Jobs : pc[Beat(j)] \in {"on", "off"}
    /\ \A c \in Clients : pc[Client(c)] \in {"idle", "released", "calling"}
    /\ \A s \in Sweepers : pc[Sweeper(s)] \in {"idle", "orphan", "stale"}
    /\ \A t \in Threads : call[t].step \in
         {"none", "asked", "merged", "loaded", "persisted", "committed"}

\* The job row only ever moves along ALLOWED_TRANSITIONS; in particular a
\* terminal state is final, whichever threads report, cancel or reconcile.
LegalTransitions ==
    [][\A j \in Jobs : db[j].status # "none" => Legal(db[j].status, db'[j].status)]_db

\* A job whose cancellation the user was promised is never recorded as done,
\* however late the worker notices.
CancelledNeverDone == \A j \in Jobs : db[j].cancel => db[j].status # "done"

\* A cancelling job reaches an end even if its worker never answers.
CancellationEnds ==
    \A j \in Jobs : db[j].status = "cancelling" ~> db[j].status \in Terminal

\* A running job that lost its worker, to a restart or to an exception in its
\* except clause, is eventually marked failed or cancelled by the sweeps, as
\* long as every write to the job table succeeds.
LostWorker(j) == db[j].status = "running" /\ pc[Worker(j)] = "ended"
OrphansEndIfWritesSucceed ==
    \A j \in Jobs : LostWorker(j) ~> db[j].status \in Terminal \/ errors > 0

\* A job whose own write was lost: a sweep that comes to it raises.
Poisoned(j) == db[j].status = "running" /\ InMemory(j) /\ ~Legal(cache[j].status, "failed")

\* A job found running after a restart, which this process has not touched, is
\* eventually marked failed or cancelled, or else lost a write of its own.
OrphanOfRestart(j) == LostWorker(j) /\ ~InMemory(j)
OrphansOfRestartEnd ==
    \A j \in Jobs : OrphanOfRestart(j) ~> db[j].status \in Terminal \/ Poisoned(j)
=============================================================================
