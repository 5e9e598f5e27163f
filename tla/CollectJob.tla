----------------------------- MODULE CollectJob -----------------------------
(***************************************************************************)
(* A collection job, run_collect_job of server/workers.py: discovery, then *)
(* the prefilter and the classifier of core/classify.py (through Dify,     *)
(* adapters/dify/client.py, or straight to the language model), then the   *)
(* insertion of the leads, the push to the webhook and the report.  The    *)
(* user may cancel at any time; _set_job is one step here, JobRegistry has *)
(* its interleavings.                                                      *)
(***************************************************************************)
EXTENDS Collection

CONSTANTS Intent,        \* comments that pass prefilter_comments
          Strong,        \* those _STRONG_INTENT_RE matches
          Addressed,     \* those with a text and a user id
          Identified,    \* those with a short id; the others get a random comment_id
          Earlier,       \* identified comments an earlier collection queued
          Backends,      \* configured classifiers, "dify" or "direct"
          MinConfidence, \* THUNDER_CLASSIFY_MIN_CONFIDENCE
          Confidences,   \* bound: the confidences the classifier answers with
          ChunkSize      \* BATCH_SIZE, DIFY_BATCH_SIZE

ASSUME CollectJobAssumption ==
    /\ Intent \cup Strong \cup Addressed \cup Identified \subseteq Comments
    /\ Earlier \subseteq Identified
    /\ Backends \subseteq {"dify", "direct"}
    /\ Confidences \cup {MinConfidence} \subseteq {"low", "medium", "high"}
    /\ ChunkSize \in Nat \ {0}

VARIABLES job,       \* the job's status
          work,      \* where the job's coroutine is
          backend,   \* the classifier in use
          passed,    \* how often each comment is in classify_batch's result
          judged,    \* history: comments the classifier took for targets
          queue,     \* leads in the queue for each comment
          added,     \* history: those this job put there
          exported,  \* comments handed to the webhook's thread
          report,    \* collect_summary
          dbFailed   \* history: the insertion failed

jvars == <<job, work, backend, passed, judged, queue, added, exported, report, dbFailed>>

Total(f) == FoldFunction(+, 0, f)
Report(found_, passed_, enqueued, duplicates, invalid) ==
    [candidates |-> found_, passed |-> passed_, enqueued |-> enqueued,
     duplicates |-> duplicates, invalid |-> invalid]
NoReport == Report(0, 0, 0, 0, 0)
Nothing == [c \in Comments |-> 0]
Support(f) == {c \in Comments : f[c] > 0}

CollectJobInit ==
    /\ CollectionInit
    /\ job = "running" /\ work = "begin"
    /\ backend \in Backends
    /\ passed = Nothing /\ judged = {}
    /\ queue = [c \in Comments |-> IF c \in Earlier THEN 1 ELSE 0]
    /\ added = Nothing
    /\ exported = {} /\ report = NoReport /\ dbFailed = FALSE
------------------------------------------------------------------------------
(* _set_job, through the allowed transitions of a job *)

Moves(to) == \/ job = "running"
             \/ job = "cancelling" /\ to \in {"cancelled", "failed"}
             \/ job = to
\* An illegal transition raises: the except clause reports a failure, and when
\* that is illegal too the coroutine ends.
SetJob(to, summary) ==
    IF Moves(to)
    THEN job' = to /\ work' = "over" /\ report' = summary
    ELSE work' = (IF work = "rescue" THEN "over" ELSE "rescue") /\ UNCHANGED <<job, report>>

\* Before discovery, a cancelled job stops; whether or not there is a client of
\* the language model, the others go on.
JobBegins ==
    /\ work = "begin"
    /\ IF cancel
       THEN SetJob("cancelled", report) /\ UNCHANGED cvars
       ELSE \E skip \in BOOLEAN :
            /\ DiscoveryStarts(skip)
            /\ work' = "discover" /\ UNCHANGED <<job, report>>
    /\ UNCHANGED <<backend, passed, judged, queue, added, exported, dbFailed>>

Discovers == work = "discover" /\ DiscoveryStep /\ UNCHANGED jvars

Found == Cardinality(Collected)

DiscoveryOver ==
    /\ work = "discover" /\ step \in Over
    /\ IF step = "returned" /\ cancel
       THEN SetJob("cancelled", report)
       ELSE /\ work' = IF step = "raised" THEN "rescue"
                       ELSE IF Collected = {} THEN "report" ELSE "classify"
            /\ UNCHANGED <<job, report>>
    /\ DiscoveryLeaves
    /\ UNCHANGED <<backend, passed, judged, queue, added, exported, dbFailed>>
------------------------------------------------------------------------------
(* classify_batch *)

Candidates == SetToSeq(Collected \cap Intent)
Rank == [low |-> 0, medium |-> 1, high |-> 2]
PassesQualityGate(confidence, c) ==
    \/ Rank[confidence] >= Rank[MinConfidence]
    \/ confidence = "medium" /\ MinConfidence = "high" /\ c \in Strong

Chunks(total) == 1 .. (total + ChunkSize - 1) \div ChunkSize
Start(chunk) == (chunk - 1) * ChunkSize
ChunkLen(chunk, total) ==
    IF Start(chunk) + ChunkSize <= total THEN ChunkSize ELSE total - Start(chunk)
\* What comes back for every position of every chunk.  Each backend skips a
\* chunk that fails (Dify after its retries), and Dify as a whole gives nothing.
Answers(total) == [Chunks(total) \X (1 .. ChunkSize) -> Confidences \cup {"no"}]

\* The candidate an answer is attached to.  DirectLLMBackend drops an index
\* outside of the chunk and adds the chunk's start; DifyClient hands on the
\* index as it is, and only the length of all candidates bounds it.
WithinChunk(chunk, i, total) == IF i <= ChunkLen(chunk, total) THEN i ELSE 0
DirectIndex(chunk, i, total) ==
    IF i <= ChunkLen(chunk, total) THEN Start(chunk) + i ELSE 0
DifyIndex(chunk, i, total) == i
Index(chunk, i, total) ==
    IF backend = "direct" THEN DirectIndex(chunk, i, total) ELSE DifyIndex(chunk, i, total)

\* The answers attached to candidate n that pass the gate.
Passing(answer, candidates, n) ==
    {at \in DOMAIN answer : /\ answer[at] # "no"
                           /\ Index(at[1], at[2], Len(candidates)) = n
                           /\ PassesQualityGate(answer[at], candidates[n])}

Classify ==
    LET candidates == Candidates
        total == Len(candidates)
    IN
    /\ work = "classify"
    /\ \E answer \in Answers(total) :
        /\ passed' = [c \in Comments |->
                        Cardinality({at \in (1 .. total) \X DOMAIN answer :
                            /\ candidates[at[1]] = c
                            /\ at[2] \in Passing(answer, candidates, at[1])})]
        /\ judged' = {candidates[Start(at[1]) + at[2]] :
                        at \in {a \in DOMAIN answer : /\ a[2] <= ChunkLen(a[1], total)
                                                      /\ answer[a] # "no"}}
    /\ work' = "enqueue"
    /\ UNCHANGED <<cvars, job, backend, queue, added, exported, report, dbFailed>>
------------------------------------------------------------------------------
(* enqueue_tasks_batch_result and _trigger_auto_export *)

\* ON CONFLICT DO NOTHING: a random comment_id never conflicts.
InsertedEachTime(c) == IF c \in Addressed THEN passed[c] ELSE 0
InsertedIfIdentified(c) ==
    IF c \in Addressed \cap Identified /\ queue[c] = 0 /\ passed[c] > 0 THEN 1 ELSE 0
Inserted(c) ==
    IF c \notin Addressed THEN 0
    ELSE IF c \notin Identified THEN passed[c]
    ELSE IF queue[c] = 0 /\ passed[c] > 0 THEN 1 ELSE 0

\* The leads are pushed, if the industry asks for it, whatever the insertion did.
\* What the insertion returns, as the job sums it up.
Valid == Total([c \in Addressed |-> passed[c]])
SummaryOfValid(rows) ==
    Report(Found, Total(passed), Valid, 0, Total(passed) - Valid)
Summary(rows) ==
    Report(Found, Total(passed), Total(rows), Valid - Total(rows), Total(passed) - Valid)

Enqueue(ok) ==
    LET rows == [c \in Comments |-> IF ok THEN Inserted(c) ELSE 0] IN
    /\ work = "enqueue"
    /\ queue' = [c \in Comments |-> queue[c] + rows[c]]
    /\ added' = rows
    /\ dbFailed' = ~ok
    /\ exported' \in {{}, Support(passed)}
    /\ report' = Summary(rows)
    /\ work' = "report"
    /\ UNCHANGED <<cvars, job, backend, passed, judged>>

JobDone ==
    /\ work = "report"
    /\ SetJob("done", report)
    /\ UNCHANGED <<cvars, backend, passed, judged, queue, added, exported, dbFailed>>

\* The except clause.
JobFails ==
    /\ work = "rescue"
    /\ SetJob("failed", NoReport)
    /\ UNCHANGED <<cvars, backend, passed, judged, queue, added, exported, dbFailed>>
------------------------------------------------------------------------------
(* cancel_job and _finalize_stale_cancelling, as far as this job sees them *)

CancelRequest ==
    /\ job = "running"
    /\ job' = "cancelling" /\ cancel' = TRUE
    /\ UNCHANGED <<step, plat, batch, attempt, files, keyword, account, found, broken, wrote,
                   work, backend, passed, judged, queue, added, exported, report, dbFailed>>

GraceEnds ==
    /\ job = "cancelling"
    /\ job' = "cancelled"
    /\ UNCHANGED <<cvars, work, backend, passed, judged, queue, added, exported, report, dbFailed>>

JobWorks == JobBegins \/ Discovers \/ DiscoveryOver \/ Classify \/ JobDone \/ JobFails
            \/ \E ok \in BOOLEAN : Enqueue(ok)
JobOver == work = "over" /\ job \notin {"running", "cancelling"} /\ UNCHANGED <<cvars, jvars>>

CollectJobNext == JobWorks \/ CancelRequest \/ GraceEnds \/ JobOver

\* The job's thread runs on; a crawl ends because its process is killed after
\* a timeout (asyncio.wait_for), the calls to the models because they time out.
CollectJobSpec == CollectJobInit /\ [][CollectJobNext]_<<cvars, jvars>> /\ WF_<<cvars, jvars>>(JobWorks)
------------------------------------------------------------------------------
CollectJobTypeOK ==
    /\ CollectionTypeOK
    /\ job \in {"running", "cancelling", "cancelled", "done", "failed"}
    /\ work \in {"begin", "discover", "classify", "enqueue", "report", "rescue", "over"}
    /\ backend \in Backends
    /\ passed \in [Comments -> Nat] /\ judged \subseteq Comments
    /\ queue \in [Comments -> Nat] /\ added \in [Comments -> Nat]
    /\ exported \subseteq Comments /\ dbFailed \in BOOLEAN
    /\ report \in [DOMAIN NoReport -> Nat]

OnlyTargetsPass == Support(passed) \subseteq judged

\* Only comments the classifier took for targets reach the queue, as Dify's
\* client promises (client.py:121).  It holds of the direct backend, and of Dify
\* as long as one chunk holds all candidates: the client applies the indices of
\* later chunks to comments of the first (client.py:283).
MisjudgedOnlyByDifyChunks ==
    backend = "direct" \/ Len(Candidates) <= ChunkSize => OnlyTargetsPass

\* A job that is done reports what it put into the queue, and every comment
\* that passed is accounted for.  One that put leads there and is not reported
\* as done was cancelled after its last look at the flag: nothing else parts
\* what a job reports from what it queued.
ReportAddsUp ==
    /\ job = "done" => /\ report.enqueued = Total(added)
                       /\ report.passed = report.enqueued + report.duplicates + report.invalid
    /\ job \in {"failed", "cancelled"} /\ Total(added) > 0 => cancel

\* However often the classifier lists a comment and whoever queued it before,
\* a comment with a short id is one lead.
OneLeadPerComment == \A c \in Identified : queue[c] <= 1

\* A lead that was pushed to the webhook is in the queue, unless it has no
\* address or the insertion failed.
ExportedAreQueued == ~dbFailed => \A c \in exported \cap Addressed : queue[c] > 0

\* The steps a collection may still take: those of the discovery, those of the
\* job around it, and the cancellation.  Each crawl has MaxRetries + 1 attempts, and
\* a platform is looked at, crawled by batches and accounts, and merged.
CrawlSteps == MaxRetries + 1
PlatformSteps == (Len(Batches) + 1) * CrawlSteps + 3
LaterPlatforms == (Len(Platforms) - plat) * PlatformSteps + 1
DiscoverySteps ==
    CASE step = "idle"          -> Len(Platforms) * PlatformSteps + 2
      [] step = "platform"      -> LaterPlatforms + PlatformSteps
      [] step = "keyword_crawl" -> LaterPlatforms + (Len(Batches) - batch + 2) * CrawlSteps - attempt + 2
      [] step = "keywords_done" -> LaterPlatforms + CrawlSteps + 2
      [] step = "account_crawl" -> LaterPlatforms + CrawlSteps - attempt + 1
      [] step = "merge"         -> LaterPlatforms + 1
      [] OTHER                  -> 0
WorkSteps ==
    CASE work = "begin"    -> DiscoverySteps + 6
      [] work = "discover" -> DiscoverySteps + 5
      [] work = "classify" -> 4
      [] work = "enqueue"  -> 3
      [] work = "report"   -> 2
      [] work = "rescue"   -> 1
      [] OTHER             -> 0
StepsLeft == WorkSteps + CASE job = "running" -> 2 [] job = "cancelling" -> 1 [] OTHER -> 0

\* Every step of a collection brings its end nearer, whatever its crawls write,
\* how they fail, which of them are retried and when it is cancelled: neither the
\* retries of a crawl nor the way from a failure to the except clause and from there
\* to the report turns in a circle (discover.py:213, runner.py:382, workers.py:801).
CollectionRunsOut == [][StepsLeft' < StepsLeft]_<<cvars, jvars>>

\* A collection ends, whatever its crawls and retries do.
CollectionEnds == <>(job \in {"cancelled", "done", "failed"})
=============================================================================
