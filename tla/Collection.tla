----------------------------- MODULE Collection -----------------------------
(***************************************************************************)
(* Discovery as core/discover.py runs it: for every platform, keyword      *)
(* batches and then the configured accounts are handed to a MediaCrawler   *)
(* process (adapters/mediacrawler/runner.py), which writes JSONL files     *)
(* into its workspace; the files are parsed, labelled with their source    *)
(* and merged.  A crawl that fails is tried once more in a fresh           *)
(* workspace.  The crawler and the phone network decide what is written    *)
(* and how a process ends; the user may cancel at any time.                *)
(***************************************************************************)
EXTENDS Naturals, FiniteSets, Sequences, SequencesExt

CONSTANTS Comments,       \* comments, one for each _dedupe_key
          Platforms,      \* the industry's platforms, in order
          CreatorMode,    \* those whose accounts can be crawled: PLATFORM_MAP is "dy"
          Batches,        \* keyword batches of at most three keywords, in order
          Accounts,       \* is some configured account a valid identifier?
          Shows,          \* Shows[p][s]: what platform p lets a crawl of source s see
          CollectTarget,  \* collect_authors_per_run
          MaxRetries      \* max_retries of _run_mediacrawler_process_with_retry

AccountSource == "accounts"
Sources == ToSet(Batches) \cup {AccountSource}

ASSUME CollectionAssumption ==
    /\ IsFiniteSet(Comments)
    /\ Platforms \in Seq(ToSet(Platforms)) /\ Batches \in Seq(ToSet(Batches))
    /\ CreatorMode \subseteq ToSet(Platforms)
    /\ Accounts \in BOOLEAN
    /\ Shows \in [ToSet(Platforms) -> [Sources -> SUBSET Comments]]
    /\ CollectTarget \in Nat \ {0} /\ MaxRetries \in Nat

VARIABLES
    step,      \* where run_discovery is
    plat,      \* index of the platform
    batch,     \* index of the keyword batch
    attempt,   \* attempt of the running crawl
    files,     \* comments in the JSONL files of each workspace
    keyword,   \* keyword_normalized
    account,   \* target_normalized
    found,     \* all_comments: the label of every comment in it
    cancel,    \* the job's cancel flag, which should_stop reads
    broken,    \* history: a crawl attempt of this collection failed
    wrote      \* history: which crawls wrote a comment, and which parses read it

cvars == <<step, plat, batch, attempt, files, keyword, account, found, cancel, broken, wrote>>

Labels == {"none", "keyword", "target_account"}
Over == {"returned", "raised"}
\* The caller's workspace, and the copy a retry prepares for itself.
Workspaces == {"discover", "retry"}
NoFiles == [w \in Workspaces |-> {}]

NothingWritten == [keyword |-> {}, account |-> {}, read |-> {}]

CollectionInit ==
    /\ step = "idle" /\ plat = 1 /\ batch = 1 /\ attempt = 0
    /\ files = NoFiles
    /\ keyword = <<>> /\ account = {}
    /\ found = [c \in Comments |-> "none"]
    /\ cancel = FALSE /\ broken = FALSE
    /\ wrote = NothingWritten
------------------------------------------------------------------------------
(* run_discovery *)

\* skip_discover returns at once; a workspace or a browser that cannot be set
\* up raises.
DiscoveryStarts(skip) ==
    /\ step = "idle"
    /\ step' \in IF skip THEN {"returned"} ELSE {"platform", "raised"}
    /\ UNCHANGED <<plat, batch, attempt, files, keyword, account, found, cancel, broken, wrote>>

\* _append_deduped: the first entry of a comment stays, unless a later one
\* comes from a configured account.
AppendKeepsFirst(all, cs, label) ==
    [c \in Comments |-> IF c \in cs /\ all[c] = "none" THEN label ELSE all[c]]
AppendDeduped(all, cs, label) ==
    [c \in Comments |->
        IF c \in cs /\ (all[c] = "none" \/ label = "target_account") THEN label ELSE all[c]]

NextPlatform ==
    /\ step = "platform"
    /\ IF cancel \/ plat > Len(Platforms)
       THEN step' = "returned" /\ UNCHANGED <<batch, attempt, keyword, account>>
       ELSE /\ keyword' = <<>> /\ account' = {}
            /\ batch' = 1 /\ attempt' = 0
            /\ step' = IF Batches = <<>> THEN "keywords_done" ELSE "keyword_crawl"
    /\ UNCHANGED <<plat, files, found, cancel, broken, wrote>>

AfterBatch == IF batch < Len(Batches) THEN "keyword_crawl" ELSE "keywords_done"

\* The keyword crawls of a platform are over: a cancelled discovery keeps what
\* they found, any other goes on to the accounts.
KeywordsDoneForgetful ==
    /\ step = "keywords_done"
    /\ step' = IF cancel THEN "returned"
               ELSE IF Accounts /\ Platforms[plat] \in CreatorMode
                    THEN "account_crawl" ELSE "merge"
    /\ UNCHANGED <<plat, batch, attempt, files, keyword, account, found, cancel, broken, wrote>>
KeywordsDone ==
    /\ step = "keywords_done"
    /\ IF cancel
       THEN /\ found' = AppendDeduped(found, ToSet(keyword), "keyword")
            /\ step' = "returned"
       ELSE /\ step' = IF Accounts /\ Platforms[plat] \in CreatorMode
                       THEN "account_crawl" ELSE "merge"
            /\ UNCHANGED found
    /\ UNCHANGED <<plat, batch, attempt, files, keyword, account, cancel, broken, wrote>>

\* A cancellation drops what the accounts gave.
MergeSources ==
    /\ step = "merge"
    /\ LET kept == AppendDeduped(found, ToSet(keyword), "keyword") IN
       IF cancel
       THEN found' = kept /\ step' = "returned" /\ UNCHANGED plat
       ELSE /\ found' = AppendDeduped(kept, account, "target_account")
            /\ step' = "platform" /\ plat' = plat + 1
    /\ UNCHANGED <<batch, attempt, files, keyword, account, cancel, broken, wrote>>
------------------------------------------------------------------------------
(* run_platform, run_target_accounts *)

Crawling == step \in {"keyword_crawl", "account_crawl"}
Source == IF step = "keyword_crawl" THEN Batches[batch] ELSE AccountSource
Workspace == IF attempt = 0 THEN "discover" ELSE "retry"

\* The parsed comments of a crawl reach the discovery.
Receive(cs) ==
    IF step = "keyword_crawl"
    THEN /\ keyword' = keyword \o SetToSeq(cs)
         /\ UNCHANGED account
         /\ step' = IF Len(keyword') >= CollectTarget \/ cancel
                    THEN "keywords_done" ELSE AfterBatch
         /\ batch' = batch + 1
    ELSE /\ account' = cs
         /\ step' = "merge"
         /\ UNCHANGED <<keyword, batch>>

\* Nothing could be salvaged.  Only a keyword batch that timed out is skipped.
CrawlRaises(how) ==
    /\ IF step = "keyword_crawl" /\ how = "timeout"
       THEN step' = AfterBatch /\ batch' = batch + 1
       ELSE step' = "raised" /\ UNCHANGED batch
    /\ UNCHANGED <<keyword, account>>

Note(out) ==
    IF step = "keyword_crawl" THEN [wrote EXCEPT !.keyword = @ \cup out]
                              ELSE [wrote EXCEPT !.account = @ \cup out]

\* _parse_jsonl_comments reads the folder of the platform, RESULT_FOLDER_MAP.
Folder == UNION {Shows[Platforms[plat]][s] : s \in Sources}

\* The process exits with status 0.  Whichever workspace it ran in, the files
\* of the discovery's own workspace are parsed, and deleted.
CrawlSucceeds(out) ==
    LET written == [files EXCEPT ![Workspace] = @ \cup out]
        parsed == written["discover"] \cap Folder
    IN
    /\ Crawling
    /\ files' = [written EXCEPT !["discover"] = @ \ parsed]
    /\ wrote' = [Note(out) EXCEPT !.read = @ \cup parsed]
    /\ Receive(parsed)
    /\ attempt' = 0
    /\ UNCHANGED <<plat, found, cancel, broken>>

\* The process fails or is killed after its timeout, and the crawl is tried
\* again if a fresh workspace can be prepared.
RetryForEver(out) ==
    /\ Crawling
    /\ files' = [files EXCEPT ![Workspace] = @ \cup out, !["retry"] = {}]
    /\ attempt' = IF attempt < MaxRetries THEN attempt + 1 ELSE 0
    /\ broken' = TRUE /\ wrote' = Note(out)
    /\ UNCHANGED <<step, plat, batch, keyword, account, found, cancel>>
Retry(out) ==
    /\ Crawling /\ attempt < MaxRetries
    /\ files' = [files EXCEPT ![Workspace] = @ \cup out, !["retry"] = {}]
    /\ attempt' = attempt + 1 /\ broken' = TRUE
    /\ wrote' = Note(out)
    /\ UNCHANGED <<step, plat, batch, keyword, account, found, cancel>>

\* No attempt is left, or no workspace: what the last one wrote is salvaged and
\* its files stay.
CrawlFails(out, how) ==
    LET salvaged == (files[Workspace] \cap Folder) \cup out IN
    /\ Crawling
    /\ files' = [files EXCEPT ![Workspace] = @ \cup out]
    /\ wrote' = [Note(out) EXCEPT !.read = @ \cup salvaged]
    /\ IF salvaged # {} THEN Receive(salvaged) ELSE CrawlRaises(how)
    /\ attempt' = 0 /\ broken' = TRUE
    /\ UNCHANGED <<plat, found, cancel>>

CrawlEnds ==
    \E out \in SUBSET Shows[Platforms[plat]][Source] :
        \/ CrawlSucceeds(out) \/ Retry(out)
        \/ \E how \in {"error", "timeout"} : CrawlFails(out, how)
------------------------------------------------------------------------------
\* The workspaces are removed, or set aside, and the rest was local: its result
\* is all that is left of a discovery.
DiscoveryLeaves ==
    /\ step' = "gone" /\ plat' = 1 /\ batch' = 1
    /\ files' = NoFiles /\ keyword' = <<>> /\ account' = {}
    /\ broken' = FALSE /\ wrote' = NothingWritten
    /\ UNCHANGED <<attempt, found, cancel>>

DiscoveryStep == NextPlatform \/ KeywordsDone \/ MergeSources \/ (Crawling /\ CrawlEnds)

CollectionTypeOK ==
    /\ step \in {"idle", "platform", "keyword_crawl", "keywords_done", "account_crawl",
                 "merge", "gone"} \cup Over
    /\ plat \in 1 .. Len(Platforms) + 1 /\ batch \in 1 .. Len(Batches) + 1
    /\ step = "keyword_crawl" => batch <= Len(Batches)
    /\ attempt \in 0 .. MaxRetries
    /\ files \in [Workspaces -> SUBSET Comments]
    /\ keyword \in Seq(Comments) /\ account \subseteq Comments
    /\ found \in [Comments -> Labels]
    /\ cancel \in BOOLEAN /\ broken \in BOOLEAN

Collected == {c \in Comments : found[c] # "none"}

\* What the parses of a discovery that returns have read is in its result,
\* whatever was cancelled, retried or skipped on the way; only a cancellation
\* may drop what the accounts gave.
ReadCommentsKept ==
    step = "returned" =>
        wrote.read \subseteq Collected \cup (IF cancel THEN account ELSE {})

\* A comment is credited to a configured account exactly if a crawl of the
\* accounts wrote it, also when a keyword found it first - as long as no crawl
\* failed: the leftovers of a failed keyword crawl are read, and credited to its
\* own source, by whichever crawl of the platform comes next.
AccountsCreditedRightly ==
    step = "returned" /\ ~cancel /\ ~broken =>
        \A c \in Comments : /\ found[c] = "target_account" <=> c \in wrote.account
                            /\ found[c] = "keyword" => c \in wrote.keyword
=============================================================================
