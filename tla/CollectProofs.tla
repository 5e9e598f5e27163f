----------------------------- MODULE CollectProofs -----------------------------
(***************************************************************************)
(* Theorems about Collection and CollectJob for any comments, platforms,   *)
(* keyword batches, accounts, retries and classifier.                      *)
(***************************************************************************)
EXTENDS CollectJob, Sums

\* Where run_discovery has a platform in hand, and where its accounts have not
\* been crawled.
InPlatform == {"keyword_crawl", "keywords_done", "account_crawl", "merge"}
BeforeAccounts == {"keyword_crawl", "keywords_done", "account_crawl"}
Credited == {c \in Comments : found[c] = "target_account"}

DiscoveryTypes ==
    /\ CollectionTypeOK
    /\ wrote \in [keyword : SUBSET Comments, account : SUBSET Comments, read : SUBSET Comments]
    /\ step \in InPlatform => plat <= Len(Platforms)
    /\ step \in BeforeAccounts => account = {}

NotBegun ==
    step = "idle" => /\ wrote = NothingWritten /\ files = NoFiles /\ attempt = 0
                     /\ keyword = <<>> /\ account = {}
                     /\ found = [c \in Comments |-> "none"]

\* What has been parsed is merged, or in hand.
ReadKept ==
    /\ step \in InPlatform => wrote.read \subseteq Collected \cup ToSet(keyword) \cup account
    /\ step = "platform" => wrote.read \subseteq Collected
    /\ ReadCommentsKept

\* Until a crawl fails, a workspace is empty between two crawls, and what is in
\* hand or merged was written by a crawl of its own source.
Credits ==
    ~broken /\ step # "gone" =>
        /\ files["discover"] = {} /\ attempt = 0
        /\ ToSet(keyword) \subseteq wrote.keyword /\ account \subseteq wrote.account
        /\ \A c \in Comments : /\ found[c] = "keyword" => c \in wrote.keyword
                               /\ found[c] = "target_account" => c \in wrote.account
        /\ step \in InPlatform => wrote.account \subseteq Credited \cup account
        /\ step = "platform" \/ (step = "returned" /\ ~cancel) => wrote.account \subseteq Credited

DiscoveryInv == DiscoveryTypes /\ NotBegun /\ ReadKept /\ Credits
------------------------------------------------------------------------------
(* Sequences and sets *)

LEMMA SequenceOfSet ==
    ASSUME NEW S, IsFiniteSet(S)
    PROVE  /\ SetToSeq(S) \in Seq(S) /\ Len(SetToSeq(S)) = Cardinality(S)
           /\ ToSet(SetToSeq(S)) = S /\ Cardinality(S) \in Nat
<1> DEFINE n == Cardinality(S)
           f == SetToSeq(S)
<1>1. n \in Nat /\ ExistsBijection(1 .. n, S)
    BY FS_CardinalityType
<1>2. \E g \in [1 .. n -> S] : IsInjective(g)
    BY <1>1, Zenon DEF ExistsBijection, Bijection, Injection
<1>3. f \in [1 .. n -> S] /\ IsInjective(f)
    BY <1>2, Zenon DEF SetToSeq
<1>4. f \in Injection(1 .. n, S)
    BY <1>3, Zenon DEF Injection
<1>5. Cardinality(1 .. n) = n
    BY <1>1, FS_Interval
<1> HIDE DEF f
<1>6. f \in Surjection(1 .. n, S)
    BY <1>4, <1>5, FS_Injection
<1>7. ToSet(f) = S
    BY <1>3, <1>6 DEF ToSet, Surjection
<1>8. f \in Seq(S) /\ Len(f) = n
    BY <1>1, <1>3
<1> QED
    BY <1>1, <1>7, <1>8 DEF f

LEMMA ConcatenatedSets ==
    ASSUME NEW S, NEW s \in Seq(S), NEW t \in Seq(S)
    PROVE  s \o t \in Seq(S) /\ ToSet(s \o t) = ToSet(s) \cup ToSet(t)
<1>1. s \o t \in Seq(S) /\ Len(s \o t) = Len(s) + Len(t)
    OBVIOUS
<1>2. \A i \in 1 .. Len(s) : (s \o t)[i] = s[i]
    OBVIOUS
<1>3. \A i \in 1 .. Len(t) : (s \o t)[Len(s) + i] = t[i]
    OBVIOUS
<1>4. ASSUME NEW i \in 1 .. Len(s) + Len(t)
      PROVE  (s \o t)[i] \in ToSet(s) \cup ToSet(t)
    <2>1. CASE i <= Len(s)
        BY <2>1, <1>2 DEF ToSet
    <2>2. CASE i > Len(s)
        <3>1. i - Len(s) \in 1 .. Len(t) /\ i = Len(s) + (i - Len(s))
            BY <2>2
        <3> QED
            BY <3>1, <1>3 DEF ToSet
    <2> QED
        BY <2>1, <2>2
<1>5. ToSet(s) \subseteq ToSet(s \o t)
    BY <1>1, <1>2 DEF ToSet
<1>6. ToSet(t) \subseteq ToSet(s \o t)
    <2> SUFFICES ASSUME NEW i \in 1 .. Len(t) PROVE t[i] \in ToSet(s \o t)
        BY DEF ToSet
    <2>1. Len(s) + i \in DOMAIN (s \o t)
        BY <1>1
    <2> QED
        BY <2>1, <1>3 DEF ToSet
<1>7. ToSet(s \o t) \subseteq ToSet(s) \cup ToSet(t)
    BY <1>1, <1>4 DEF ToSet
<1> QED
    BY <1>1, <1>5, <1>6, <1>7

LEMMA ElementsOfSequence ==
    ASSUME NEW S, NEW s \in Seq(S)
    PROVE  ToSet(s) \subseteq S /\ \A i \in 1 .. Len(s) : s[i] \in ToSet(s)
BY DEF ToSet

\* The labels after a merge.
LEMMA Merged ==
    ASSUME NEW all \in [Comments -> Labels], NEW cs \in SUBSET Comments,
           NEW label \in {"keyword", "target_account"}
    PROVE  /\ AppendDeduped(all, cs, label) \in [Comments -> Labels]
           /\ \A c \in Comments :
                AppendDeduped(all, cs, label)[c] =
                    IF c \in cs /\ (all[c] = "none" \/ label = "target_account")
                    THEN label ELSE all[c]
BY DEF AppendDeduped, Labels
------------------------------------------------------------------------------
(* run_discovery *)

LEMMA Blank ==
    /\ NoFiles \in [Workspaces -> SUBSET Comments] /\ <<>> \in Seq(Comments)
    /\ NothingWritten \in [keyword : SUBSET Comments, account : SUBSET Comments,
                           read : SUBSET Comments]
    /\ 1 \in 1 .. Len(Platforms) + 1 /\ 1 \in 1 .. Len(Batches) + 1 /\ 0 \in 0 .. MaxRetries
<1>1. NoFiles \in [Workspaces -> SUBSET Comments]
    BY DEF NoFiles
<1>2. NothingWritten \in [keyword : SUBSET Comments, account : SUBSET Comments,
                          read : SUBSET Comments]
    BY DEF NothingWritten
<1>3. Len(Platforms) \in Nat /\ Len(Batches) \in Nat /\ MaxRetries \in Nat
    BY CollectionAssumption DEF CollectionAssumption
<1> QED
    BY <1>1, <1>2, <1>3

LEMMA InitDiscovery == CollectionInit => DiscoveryInv
<1> SUFFICES ASSUME CollectionInit PROVE DiscoveryInv
    OBVIOUS
<1> USE CollectionAssumption
<1>1. DiscoveryTypes
    <2>1. found \in [Comments -> Labels]
        BY DEF CollectionInit, Labels
    <2>2. CollectionTypeOK
        BY <2>1, Blank DEF CollectionInit, CollectionTypeOK
    <2> QED
        BY <2>2, Blank DEF CollectionInit, DiscoveryTypes, InPlatform, BeforeAccounts
<1>2. NotBegun /\ ReadKept
    BY DEF CollectionInit, NotBegun, ReadKept, ReadCommentsKept, InPlatform
<1>3. Credits
    <2>1. ToSet(<<>>) = {} /\ files["discover"] = {}
        BY DEF ToSet, CollectionInit, NoFiles, Workspaces
    <2> QED
        BY <2>1 DEF CollectionInit, Credits, InPlatform
<1> QED
    BY <1>1, <1>2, <1>3 DEF DiscoveryInv

LEMMA StartKeeps ==
    ASSUME DiscoveryInv, NEW skip \in BOOLEAN, DiscoveryStarts(skip)
    PROVE  DiscoveryInv'
<1>1. step = "idle" /\ step' \in {"returned", "platform", "raised"}
    BY DEF DiscoveryStarts
<1>2. DiscoveryTypes'
    BY <1>1 DEF DiscoveryInv, DiscoveryTypes, DiscoveryStarts, CollectionTypeOK, InPlatform,
                BeforeAccounts, Over
<1>3. NotBegun' /\ ReadKept'
    BY <1>1 DEF DiscoveryInv, NotBegun, ReadKept, ReadCommentsKept, DiscoveryStarts,
                NothingWritten, InPlatform
<1>4. Credits'
    BY <1>1 DEF DiscoveryInv, NotBegun, Credits, Credited, DiscoveryStarts, NothingWritten,
                InPlatform
<1> QED
    BY <1>2, <1>3, <1>4 DEF DiscoveryInv

LEMMA NextPlatformKeeps ==
    ASSUME DiscoveryInv, NextPlatform
    PROVE  DiscoveryInv'
<1> USE CollectionAssumption DEF DiscoveryInv
<1>1. CASE cancel \/ plat > Len(Platforms)
    <2>1. step = "platform" /\ step' = "returned" /\ UNCHANGED <<plat, batch, attempt, files,
              keyword, account, found, cancel, broken, wrote>>
        BY <1>1 DEF NextPlatform
    <2>2. DiscoveryTypes'
        BY <2>1 DEF DiscoveryTypes, CollectionTypeOK, InPlatform, BeforeAccounts, Over
    <2>3. NotBegun' /\ ReadKept'
        BY <2>1 DEF NotBegun, ReadKept, ReadCommentsKept, Collected, InPlatform
    <2>4. Credits'
        BY <2>1 DEF Credits, Credited, InPlatform
    <2> QED
        BY <2>2, <2>3, <2>4
<1>2. CASE ~(cancel \/ plat > Len(Platforms))
    <2>1. /\ step = "platform" /\ step' \in {"keyword_crawl", "keywords_done"}
          /\ step' = "keyword_crawl" => Batches # <<>>
          /\ keyword' = <<>> /\ account' = {} /\ batch' = 1 /\ attempt' = 0
          /\ UNCHANGED <<plat, files, found, cancel, broken, wrote>>
        BY <1>2 DEF NextPlatform
    <2>2. Len(Platforms) \in Nat /\ Len(Batches) \in Nat /\ (Batches # <<>> => Len(Batches) > 0)
        BY DEF CollectionAssumption
    <2>3. CollectionTypeOK'
        BY <2>1, <2>2 DEF DiscoveryTypes, CollectionTypeOK, CollectionAssumption
    <2>4. DiscoveryTypes'
        BY <1>2, <2>1, <2>2, <2>3 DEF DiscoveryTypes, CollectionTypeOK, InPlatform, BeforeAccounts
    <2>5. NotBegun' /\ ReadKept'
        BY <2>1 DEF NotBegun, ReadKept, ReadCommentsKept, Collected, InPlatform
    <2>6. Credits'
        BY <2>1 DEF Credits, Credited, InPlatform, ToSet
    <2> QED
        BY <2>4, <2>5, <2>6
<1> QED
    BY <1>1, <1>2

\* The merged comments are those that were merged before, and the new ones.
LEMMA KeywordsMerged ==
    ASSUME DiscoveryInv
    PROVE  LET kept == AppendDeduped(found, ToSet(keyword), "keyword") IN
           /\ ToSet(keyword) \subseteq Comments /\ kept \in [Comments -> Labels]
           /\ \A c \in Comments : kept[c] = IF c \in ToSet(keyword) /\ found[c] = "none"
                                            THEN "keyword" ELSE found[c]
<1>1. keyword \in Seq(Comments) /\ found \in [Comments -> Labels]
    BY DEF DiscoveryInv, DiscoveryTypes, CollectionTypeOK
<1> QED
    BY <1>1, ElementsOfSequence, Merged

LEMMA KeywordsDoneKeeps ==
    ASSUME DiscoveryInv, KeywordsDone
    PROVE  DiscoveryInv'
<1> DEFINE kept == AppendDeduped(found, ToSet(keyword), "keyword")
<1> USE DEF DiscoveryInv
<1>1. step = "keywords_done" /\ UNCHANGED <<plat, batch, attempt, files, keyword, account,
                                            cancel, broken, wrote>>
    BY DEF KeywordsDone
<1>2. kept \in [Comments -> Labels] /\ ToSet(keyword) \subseteq Comments
      /\ \A c \in Comments : kept[c] = IF c \in ToSet(keyword) /\ found[c] = "none"
                                       THEN "keyword" ELSE found[c]
    BY KeywordsMerged
<1> HIDE DEF kept
<1>3. CASE cancel
    <2>1. found' = kept /\ step' = "returned"
        BY <1>3 DEF KeywordsDone, kept
    <2>2. DiscoveryTypes'
        BY <1>1, <1>2, <2>1 DEF DiscoveryTypes, CollectionTypeOK, InPlatform, BeforeAccounts, Over
    <2>3. NotBegun' /\ ReadKept'
        BY <1>1, <1>2, <1>3, <2>1 DEF NotBegun, ReadKept, ReadCommentsKept, Collected, InPlatform
    <2>4. Credits'
        BY <1>1, <1>2, <1>3, <2>1 DEF Credits, Credited, InPlatform
    <2> QED
        BY <2>2, <2>3, <2>4
<1>4. CASE ~cancel
    <2>1. found' = found /\ step' \in {"account_crawl", "merge"}
        BY <1>4 DEF KeywordsDone
    <2>2. DiscoveryTypes'
        BY <1>1, <2>1 DEF DiscoveryTypes, CollectionTypeOK, InPlatform, BeforeAccounts
    <2>3. NotBegun' /\ ReadKept'
        BY <1>1, <2>1 DEF NotBegun, ReadKept, ReadCommentsKept, Collected, InPlatform
    <2>4. Credits'
        BY <1>1, <2>1 DEF Credits, Credited, InPlatform
    <2> QED
        BY <2>2, <2>3, <2>4
<1> QED
    BY <1>3, <1>4

LEMMA MergeKeeps ==
    ASSUME DiscoveryInv, MergeSources
    PROVE  DiscoveryInv'
<1> DEFINE kept == AppendDeduped(found, ToSet(keyword), "keyword")
<1> USE DEF DiscoveryInv
<1>1. step = "merge" /\ UNCHANGED <<batch, attempt, files, keyword, account, cancel, broken, wrote>>
    BY DEF MergeSources
<1>2. kept \in [Comments -> Labels] /\ ToSet(keyword) \subseteq Comments
      /\ \A c \in Comments : kept[c] = IF c \in ToSet(keyword) /\ found[c] = "none"
                                       THEN "keyword" ELSE found[c]
    BY KeywordsMerged
<1>3. account \subseteq Comments
    BY DEF DiscoveryTypes, CollectionTypeOK
<1>4. CASE cancel
    <2> HIDE DEF kept
    <2>1. found' = kept /\ step' = "returned" /\ plat' = plat
        BY <1>4 DEF MergeSources, kept
    <2>2. DiscoveryTypes'
        BY <1>1, <1>2, <2>1 DEF DiscoveryTypes, CollectionTypeOK, InPlatform, BeforeAccounts, Over
    <2>3. NotBegun' /\ ReadKept'
        BY <1>1, <1>2, <1>4, <2>1 DEF NotBegun, ReadKept, ReadCommentsKept, Collected, InPlatform
    <2>4. Credits'
        BY <1>1, <1>2, <1>4, <2>1 DEF Credits, Credited, InPlatform
    <2> QED
        BY <2>2, <2>3, <2>4
<1>5. CASE ~cancel
    <2> DEFINE all == AppendDeduped(kept, account, "target_account")
    <2>1. found' = all /\ step' = "platform" /\ plat' = plat + 1
        BY <1>5 DEF MergeSources
    <2> HIDE DEF kept
    <2>2. all \in [Comments -> Labels]
          /\ \A c \in Comments : all[c] = IF c \in account THEN "target_account" ELSE kept[c]
        BY <1>2, <1>3, Merged
    <2> HIDE DEF all
    <2>3. DiscoveryTypes'
        BY <1>1, <2>1, <2>2, CollectionAssumption
           DEF DiscoveryTypes, CollectionTypeOK, InPlatform, BeforeAccounts, CollectionAssumption
    <2>4. NotBegun' /\ ReadKept'
        BY <1>1, <1>2, <1>3, <2>1, <2>2
           DEF NotBegun, ReadKept, ReadCommentsKept, Collected, InPlatform, DiscoveryTypes
    <2>5. Credits'
        BY <1>1, <1>2, <1>3, <2>1, <2>2 DEF Credits, Credited, InPlatform, DiscoveryTypes
    <2> QED
        BY <2>3, <2>4, <2>5
<1> QED
    BY <1>4, <1>5
------------------------------------------------------------------------------
(* run_platform, run_target_accounts *)

\* What Receive does with the comments of a crawl.
LEMMA Received ==
    ASSUME DiscoveryTypes, Crawling, NEW cs \in SUBSET Comments, Receive(cs)
    PROVE  /\ keyword' \in Seq(Comments) /\ account' \subseteq Comments
           /\ batch' \in 1 .. Len(Batches) + 1
           /\ step' = "keyword_crawl" => batch' <= Len(Batches)
           /\ \/ /\ step = "keyword_crawl" /\ step' \in {"keyword_crawl", "keywords_done"}
                 /\ ToSet(keyword') = ToSet(keyword) \cup cs /\ account' = account
              \/ /\ step = "account_crawl" /\ step' = "merge"
                 /\ keyword' = keyword /\ account' = cs
<1>1. Len(Batches) \in Nat
    BY CollectionAssumption DEF CollectionAssumption
<1>2. CASE step = "keyword_crawl"
    <2>1. IsFiniteSet(cs)
        BY CollectionAssumption, FS_Subset DEF CollectionAssumption
    <2>2. SetToSeq(cs) \in Seq(Comments) /\ ToSet(SetToSeq(cs)) = cs
        BY <2>1, SequenceOfSet
    <2>3. keyword \in Seq(Comments) /\ batch \in 1 .. Len(Batches) /\ account \subseteq Comments
        BY <1>1, <1>2 DEF DiscoveryTypes, CollectionTypeOK
    <2>4. keyword' = keyword \o SetToSeq(cs) /\ account' = account /\ batch' = batch + 1
          /\ step' \in {"keywords_done", AfterBatch}
        BY <1>2 DEF Receive
    <2>5. step' \in {"keyword_crawl", "keywords_done"}
          /\ (step' = "keyword_crawl" => batch < Len(Batches))
        BY <2>4 DEF AfterBatch
    <2>6. keyword' \in Seq(Comments) /\ ToSet(keyword') = ToSet(keyword) \cup cs
        BY <2>2, <2>3, <2>4, ConcatenatedSets
    <2> QED
        BY <1>1, <1>2, <2>3, <2>4, <2>5, <2>6
<1>3. CASE step = "account_crawl"
    BY <1>3 DEF Receive, DiscoveryTypes, CollectionTypeOK
<1> QED
    BY <1>2, <1>3 DEF Crawling

\* What a crawl writes is noted for its source, and lies in the platform's
\* folder.
LEMMA CrawlOutput ==
    ASSUME DiscoveryTypes, Crawling, NEW out \in SUBSET Shows[Platforms[plat]][Source]
    PROVE  /\ out \subseteq Comments /\ out \subseteq Folder /\ Folder \subseteq Comments
           /\ Workspace \in Workspaces
           /\ Note(out) = [keyword |-> IF step = "keyword_crawl" THEN wrote.keyword \cup out
                                       ELSE wrote.keyword,
                           account |-> IF step = "keyword_crawl" THEN wrote.account
                                       ELSE wrote.account \cup out,
                           read |-> wrote.read]
<1>1. plat \in 1 .. Len(Platforms)
    BY CollectionAssumption DEF CollectionAssumption, DiscoveryTypes, CollectionTypeOK, Crawling,
           InPlatform
<1>2. Platforms[plat] \in ToSet(Platforms)
    BY <1>1, CollectionAssumption, ElementsOfSequence DEF CollectionAssumption
<1>3. Source \in Sources
    <2>1. CASE step = "keyword_crawl"
        <3>1. batch \in 1 .. Len(Batches)
            BY <2>1, CollectionAssumption DEF CollectionAssumption, DiscoveryTypes, CollectionTypeOK
        <3>2. Batches[batch] \in ToSet(Batches)
            BY <3>1, CollectionAssumption, ElementsOfSequence DEF CollectionAssumption
        <3> QED
            BY <2>1, <3>2 DEF Source, Sources
    <2>2. CASE step # "keyword_crawl"
        BY <2>2 DEF Source, Sources
    <2> QED
        BY <2>1, <2>2
<1>4. \A s \in Sources : Shows[Platforms[plat]][s] \subseteq Comments
    BY <1>2, CollectionAssumption DEF CollectionAssumption
<1>5. Note(out) = [keyword |-> IF step = "keyword_crawl" THEN wrote.keyword \cup out
                               ELSE wrote.keyword,
                   account |-> IF step = "keyword_crawl" THEN wrote.account
                               ELSE wrote.account \cup out,
                   read |-> wrote.read]
    BY DEF Note, DiscoveryTypes
<1> QED
    BY <1>3, <1>4, <1>5 DEF Folder, Workspace, Workspaces

\* A crawl whose comments are received, and that read those of the folder.
LEMMA ReceivedKeeps ==
    ASSUME DiscoveryInv, Crawling, NEW out \in SUBSET Shows[Platforms[plat]][Source],
           NEW cs \in SUBSET Comments, Receive(cs),
           wrote' = [Note(out) EXCEPT !.read = @ \cup cs],
           files' \in [Workspaces -> SUBSET Comments], attempt' = 0,
           UNCHANGED <<plat, found, cancel>>, broken' \in BOOLEAN,
           ~broken' => ~broken /\ cs = out /\ files'["discover"] = {}
    PROVE  DiscoveryInv'
<1> USE DEF DiscoveryInv
<1>1. /\ out \subseteq Comments
      /\ Note(out) = [keyword |-> IF step = "keyword_crawl" THEN wrote.keyword \cup out
                                  ELSE wrote.keyword,
                      account |-> IF step = "keyword_crawl" THEN wrote.account
                                  ELSE wrote.account \cup out,
                      read |-> wrote.read]
    BY CrawlOutput
<1>2. /\ keyword' \in Seq(Comments) /\ account' \subseteq Comments
      /\ batch' \in 1 .. Len(Batches) + 1
      /\ step' = "keyword_crawl" => batch' <= Len(Batches)
      /\ \/ /\ step = "keyword_crawl" /\ step' \in {"keyword_crawl", "keywords_done"}
            /\ ToSet(keyword') = ToSet(keyword) \cup cs /\ account' = account
         \/ /\ step = "account_crawl" /\ step' = "merge"
            /\ keyword' = keyword /\ account' = cs
    BY Received
<1>3. /\ wrote'.keyword = IF step = "keyword_crawl" THEN wrote.keyword \cup out ELSE wrote.keyword
      /\ wrote'.account = IF step = "keyword_crawl" THEN wrote.account ELSE wrote.account \cup out
      /\ wrote'.read = wrote.read \cup cs
      /\ wrote' \in [keyword : SUBSET Comments, account : SUBSET Comments, read : SUBSET Comments]
    BY <1>1 DEF DiscoveryTypes
<1>4. CollectionTypeOK'
    BY <1>2, CollectionAssumption DEF DiscoveryTypes, CollectionTypeOK, CollectionAssumption
<1>5. DiscoveryTypes'
    BY <1>2, <1>3, <1>4 DEF DiscoveryTypes, InPlatform, BeforeAccounts
<1>6. NotBegun'
    BY <1>2 DEF NotBegun
<1>7. ReadKept'
    <2>1. wrote.read \subseteq Collected \cup ToSet(keyword)
        BY <1>2 DEF ReadKept, DiscoveryTypes, BeforeAccounts, InPlatform
    <2>2. wrote'.read \subseteq Collected' \cup ToSet(keyword') \cup account'
        BY <1>2, <1>3, <2>1 DEF Collected
    <2> QED
        BY <1>2, <2>2 DEF ReadKept, ReadCommentsKept
<1>8. Credits'
    <2> SUFFICES ASSUME ~broken' PROVE Credits'
        BY DEF Credits
    <2>1. /\ ToSet(keyword) \subseteq wrote.keyword /\ account = {}
          /\ wrote.account \subseteq Credited
          /\ \A c \in Comments : /\ found[c] = "keyword" => c \in wrote.keyword
                                 /\ found[c] = "target_account" => c \in wrote.account
        BY <1>2 DEF Credits, DiscoveryTypes, BeforeAccounts, InPlatform
    <2>2. Credited' = Credited
        BY DEF Credited
    <2>3. CASE step = "keyword_crawl"
        BY <1>2, <1>3, <2>1, <2>2, <2>3 DEF Credits, InPlatform
    <2>4. CASE step = "account_crawl"
        BY <1>2, <1>3, <2>1, <2>2, <2>4 DEF Credits, InPlatform
    <2> QED
        BY <1>2, <2>3, <2>4
<1> QED
    BY <1>5, <1>6, <1>7, <1>8

LEMMA CrawlSucceedsKeeps ==
    ASSUME DiscoveryInv, Crawling, NEW out \in SUBSET Shows[Platforms[plat]][Source],
           CrawlSucceeds(out)
    PROVE  DiscoveryInv'
<1> DEFINE written == [files EXCEPT ![Workspace] = @ \cup out]
           parsed == written["discover"] \cap Folder
<1>1. /\ out \subseteq Comments /\ out \subseteq Folder /\ Folder \subseteq Comments
      /\ Workspace \in Workspaces
    BY CrawlOutput DEF DiscoveryInv
<1>2. files \in [Workspaces -> SUBSET Comments] /\ broken \in BOOLEAN
    BY DEF DiscoveryInv, DiscoveryTypes, CollectionTypeOK
<1>3. /\ files' = [written EXCEPT !["discover"] = @ \ parsed]
      /\ wrote' = [Note(out) EXCEPT !.read = @ \cup parsed]
      /\ Receive(parsed) /\ attempt' = 0 /\ UNCHANGED <<plat, found, cancel, broken>>
    BY DEF CrawlSucceeds
<1>4. written \in [Workspaces -> SUBSET Comments]
    BY <1>1, <1>2
<1>5. ~broken => written["discover"] = out
    <2>1. ~broken => Workspace = "discover" /\ files["discover"] = {}
        BY DEF DiscoveryInv, Credits, Crawling, Workspace
    <2> QED
        BY <1>1, <1>2, <2>1
<1> HIDE DEF written
<1>6. files' \in [Workspaces -> SUBSET Comments] /\ files'["discover"] = written["discover"] \ parsed
    BY <1>3, <1>4 DEF Workspaces
<1>7. ~broken => parsed = out /\ files'["discover"] = {}
    BY <1>1, <1>5, <1>6
<1>8. parsed \in SUBSET Comments
    BY <1>1
<1> HIDE DEF parsed
<1> QED
    BY <1>2, <1>3, <1>6, <1>7, <1>8, ReceivedKeeps

\* A crawl after which nothing is received.
LEMMA NothingReceivedKeeps ==
    ASSUME DiscoveryInv, Crawling, NEW out \in SUBSET Shows[Platforms[plat]][Source],
           wrote' = Note(out), files' \in [Workspaces -> SUBSET Comments],
           attempt' \in 0 .. MaxRetries, broken' = TRUE,
           UNCHANGED <<plat, keyword, account, found, cancel>>,
           \/ step' = step /\ batch' = batch
           \/ step = "keyword_crawl" /\ step' = AfterBatch /\ batch' = batch + 1
           \/ step' = "raised" /\ batch' = batch
    PROVE  DiscoveryInv'
<1> USE DEF DiscoveryInv
<1>1. /\ wrote' \in [keyword : SUBSET Comments, account : SUBSET Comments, read : SUBSET Comments]
      /\ wrote'.read = wrote.read
    BY CrawlOutput DEF DiscoveryTypes
<1>2. step \in BeforeAccounts /\ step' \in BeforeAccounts \cup {"raised"}
    BY DEF Crawling, AfterBatch, BeforeAccounts
<1>3. CollectionTypeOK'
    BY CollectionAssumption
       DEF DiscoveryTypes, CollectionTypeOK, CollectionAssumption, AfterBatch, Crawling, Over
<1>4. DiscoveryTypes'
    BY <1>1, <1>2, <1>3 DEF DiscoveryTypes, InPlatform, BeforeAccounts
<1>5. NotBegun' /\ Credits'
    BY <1>2 DEF NotBegun, Credits, BeforeAccounts
<1>6. ReadKept'
    BY <1>1, <1>2 DEF ReadKept, ReadCommentsKept, Collected, InPlatform, BeforeAccounts
<1> QED
    BY <1>4, <1>5, <1>6

LEMMA RetryKeeps ==
    ASSUME DiscoveryInv, Crawling, NEW out \in SUBSET Shows[Platforms[plat]][Source], Retry(out)
    PROVE  DiscoveryInv'
<1>1. out \subseteq Comments
    BY CrawlOutput DEF DiscoveryInv
<1>2. files' \in [Workspaces -> SUBSET Comments]
    BY <1>1 DEF Retry, DiscoveryInv, DiscoveryTypes, CollectionTypeOK
<1>3. attempt' \in 0 .. MaxRetries
    BY CollectionAssumption
       DEF Retry, DiscoveryInv, DiscoveryTypes, CollectionTypeOK, CollectionAssumption
<1> QED
    BY <1>2, <1>3, NothingReceivedKeeps DEF Retry

LEMMA CrawlFailsKeeps ==
    ASSUME DiscoveryInv, Crawling, NEW out \in SUBSET Shows[Platforms[plat]][Source],
           NEW how \in {"error", "timeout"}, CrawlFails(out, how)
    PROVE  DiscoveryInv'
<1> DEFINE salvaged == (files[Workspace] \cap Folder) \cup out
<1>1. out \subseteq Comments /\ Folder \subseteq Comments
    BY CrawlOutput DEF DiscoveryInv
<1>2. /\ files' = [files EXCEPT ![Workspace] = @ \cup out]
      /\ wrote' = [Note(out) EXCEPT !.read = @ \cup salvaged]
      /\ attempt' = 0 /\ broken' = TRUE /\ UNCHANGED <<plat, found, cancel>>
    BY DEF CrawlFails
<1>3. files' \in [Workspaces -> SUBSET Comments] /\ salvaged \in SUBSET Comments
    BY <1>1, <1>2 DEF DiscoveryInv, DiscoveryTypes, CollectionTypeOK
<1>4. CASE salvaged # {}
    <2>1. Receive(salvaged)
        BY <1>4 DEF CrawlFails
    <2> HIDE DEF salvaged
    <2> QED
        BY <1>2, <1>3, <2>1, ReceivedKeeps
<1>5. CASE salvaged = {}
    <2>1. CrawlRaises(how)
        BY <1>5 DEF CrawlFails
    <2>2. wrote' = Note(out)
        <3>1. Note(out) = [Note(out) EXCEPT !.read = @]
            BY CrawlOutput DEF DiscoveryInv
        <3> HIDE DEF salvaged
        <3> QED
            BY <1>2, <1>5, <3>1, CrawlOutput DEF DiscoveryInv
    <2>3. attempt' \in 0 .. MaxRetries
        BY <1>2, CollectionAssumption DEF CollectionAssumption
    <2>4. /\ UNCHANGED <<keyword, account>>
          /\ \/ step = "keyword_crawl" /\ step' = AfterBatch /\ batch' = batch + 1
             \/ step' = "raised" /\ batch' = batch
        BY <2>1 DEF CrawlRaises
    <2> QED
        BY <1>2, <1>3, <2>2, <2>3, <2>4, NothingReceivedKeeps
<1> QED
    BY <1>4, <1>5

LEMMA DiscoveryKeeps ==
    ASSUME DiscoveryInv, DiscoveryStep
    PROVE  DiscoveryInv'
<1>1. ASSUME Crawling, CrawlEnds PROVE DiscoveryInv'
    <2>1. PICK out \in SUBSET Shows[Platforms[plat]][Source] :
              \/ CrawlSucceeds(out) \/ Retry(out)
              \/ \E how \in {"error", "timeout"} : CrawlFails(out, how)
        BY <1>1 DEF CrawlEnds
    <2> QED
        BY <1>1, <2>1, CrawlSucceedsKeeps, RetryKeeps, CrawlFailsKeeps
<1> QED
    BY <1>1, NextPlatformKeeps, KeywordsDoneKeeps, MergeKeeps DEF DiscoveryStep

\* The discovery leaves, or only the cancel flag is set, or nothing changes.
LEMMA DiscoveryLeavesKeeps ==
    ASSUME DiscoveryInv, DiscoveryLeaves
    PROVE  DiscoveryInv'
<1> USE DEF DiscoveryInv, DiscoveryLeaves
<1>1. CollectionTypeOK'
    BY Blank DEF DiscoveryTypes, CollectionTypeOK
<1>2. DiscoveryTypes'
    BY <1>1, Blank DEF DiscoveryTypes, InPlatform, BeforeAccounts
<1> QED
    BY <1>2 DEF NotBegun, ReadKept, ReadCommentsKept, Credits, InPlatform

LEMMA CancelKeeps ==
    ASSUME DiscoveryInv, cancel' \in BOOLEAN, cancel => cancel',
           UNCHANGED <<step, plat, batch, attempt, files, keyword, account, found, broken, wrote>>
    PROVE  DiscoveryInv'
<1> USE DEF DiscoveryInv
<1>1. DiscoveryTypes'
    BY DEF DiscoveryTypes, CollectionTypeOK
<1>2. NotBegun' /\ ReadKept'
    BY DEF NotBegun, ReadKept, ReadCommentsKept, Collected
<1>3. Credits'
    BY DEF Credits, Credited
<1> QED
    BY <1>1, <1>2, <1>3
------------------------------------------------------------------------------
(* The job *)

Reports == [DOMAIN NoReport -> Nat]

JobShape ==
    /\ job \in {"running", "cancelling", "cancelled", "done", "failed"}
    /\ work \in {"begin", "discover", "classify", "enqueue", "report", "rescue", "over"}
    /\ backend \in Backends
    /\ passed \in [Comments -> Nat] /\ judged \subseteq Comments
    /\ queue \in [Comments -> Nat] /\ added \in [Comments -> Nat]
    /\ exported \subseteq Comments /\ dbFailed \in BOOLEAN
    /\ report \in Reports

\* What the job has not come to yet.
NotYet ==
    /\ work \in {"begin", "discover", "classify"} => passed = Nothing
    /\ work \in {"begin", "discover", "classify", "enqueue"} => added = Nothing /\ report = NoReport

\* A report that says what became of every comment that passed.
Sound(r, rows) ==
    r.enqueued = Total(rows) /\ r.passed = r.enqueued + r.duplicates + r.invalid
ReportFits ==
    /\ work \notin {"rescue", "over"} \/ job = "done" => Sound(report, added)
    /\ job \in {"done", "failed"} => work = "over"
    /\ job \in {"cancelling", "cancelled"} => cancel
    /\ (work = "rescue" \/ job = "failed") /\ added # Nothing => cancel

CollectInv ==
    /\ DiscoveryInv /\ JobShape /\ NotYet /\ ReportFits
    /\ MisjudgedOnlyByDifyChunks /\ OneLeadPerComment /\ ExportedAreQueued

LEMMA Subsets ==
    /\ Addressed \subseteq Comments /\ Identified \subseteq Comments /\ Earlier \subseteq Identified
    /\ IsFiniteSet(Comments) /\ IsFiniteSet(Addressed) /\ ChunkSize \in Nat \ {0}
BY CollectJobAssumption, CollectionAssumption, FS_Subset DEF CollectJobAssumption, CollectionAssumption

LEMMA TotalIsSum == ASSUME NEW f PROVE Total(f) = Sum(f, DOMAIN f)
BY DEF Total, FoldFunction, Sum

LEMMA NothingTotals == Total(Nothing) = 0 /\ Nothing \in [Comments -> Nat]
<1>1. DOMAIN Nothing = Comments /\ \A c \in Comments : Nothing[c] = 0
    BY DEF Nothing
<1>2. Sum(Nothing, Comments) = 0
    BY <1>1, Subsets, SumZero
<1> QED
    BY <1>1, <1>2, TotalIsSum DEF Nothing

LEMMA ReportFields ==
    ASSUME NEW a \in Nat, NEW b \in Nat, NEW c \in Nat, NEW d \in Nat, NEW e \in Nat
    PROVE  /\ Report(a, b, c, d, e) \in Reports
           /\ Report(a, b, c, d, e).passed = b /\ Report(a, b, c, d, e).enqueued = c
           /\ Report(a, b, c, d, e).duplicates = d /\ Report(a, b, c, d, e).invalid = e
BY DEF Report, Reports, NoReport

LEMMA NoReportIsSound == NoReport \in Reports /\ Sound(NoReport, Nothing)
BY NothingTotals, ReportFields DEF NoReport, Sound

LEMMA InitJob == CollectJobInit => CollectInv
<1> SUFFICES ASSUME CollectJobInit PROVE CollectInv
    OBVIOUS
<1>1. DiscoveryInv
    BY InitDiscovery DEF CollectJobInit
<1>2. queue = [c \in Comments |-> IF c \in Earlier THEN 1 ELSE 0]
    BY DEF CollectJobInit
<1>3. JobShape
    <2>1. queue \in [Comments -> Nat]
        BY <1>2
    <2> QED
        BY <2>1, NothingTotals, NoReportIsSound DEF CollectJobInit, JobShape
<1>4. NotYet /\ ReportFits
    BY NoReportIsSound DEF CollectJobInit, NotYet, ReportFits
<1>5. MisjudgedOnlyByDifyChunks
    BY DEF CollectJobInit, MisjudgedOnlyByDifyChunks, OnlyTargetsPass, Support, Nothing
<1>6. OneLeadPerComment /\ ExportedAreQueued
    BY <1>2, Subsets DEF CollectJobInit, OneLeadPerComment, ExportedAreQueued
<1> QED
    BY <1>1, <1>3, <1>4, <1>5, <1>6 DEF CollectInv

\* The steps that leave the queue and what the classifier found alone.
LEMMA QueueKept ==
    ASSUME CollectInv, UNCHANGED <<queue, added, exported, dbFailed, passed, judged, backend>>,
           work \in {"begin", "discover"} \/ found' = found
    PROVE  MisjudgedOnlyByDifyChunks' /\ OneLeadPerComment' /\ ExportedAreQueued'
<1> USE DEF CollectInv
<1>1. OneLeadPerComment' /\ ExportedAreQueued'
    BY DEF OneLeadPerComment, ExportedAreQueued
<1>2. Support(passed)' = Support(passed)
    BY DEF Support
<1>3. MisjudgedOnlyByDifyChunks'
    <2>1. CASE found' = found
        <3>1. Collected' = Collected
            BY <2>1 DEF Collected
        <3>2. Candidates' = Candidates
            BY <3>1 DEF Candidates
        <3> QED
            BY <1>2, <3>2 DEF MisjudgedOnlyByDifyChunks, OnlyTargetsPass
    <2>2. CASE work \in {"begin", "discover"}
        <3>1. passed = Nothing
            BY <2>2 DEF NotYet
        <3>2. Support(passed) = {}
            BY <3>1 DEF Support, Nothing
        <3> QED
            BY <1>2, <3>2 DEF MisjudgedOnlyByDifyChunks, OnlyTargetsPass
    <2> QED
        BY <2>1, <2>2
<1> QED
    BY <1>1, <1>3

\* A job set to a final status, or to the except clause.
LEMMA SetJobKeeps ==
    ASSUME CollectInv, NEW to \in {"cancelled", "done", "failed"}, NEW summary \in Reports,
           SetJob(to, summary), cancel' = cancel,
           UNCHANGED <<queue, added, exported, dbFailed, passed, judged, backend>>,
           to = "cancelled" => work \in {"begin", "discover"} /\ cancel,
           to = "done" => work = "report" /\ summary = report,
           to = "failed" => work = "rescue"
    PROVE  JobShape' /\ NotYet' /\ ReportFits'
<1> USE DEF CollectInv
<1>1. CASE Moves(to)
    <2>1. job' = to /\ work' = "over" /\ report' = summary
        BY <1>1 DEF SetJob
    <2>2. JobShape' /\ NotYet'
        BY <2>1 DEF JobShape, NotYet
    <2>3. CASE to = "done"
        BY <2>1, <2>2, <2>3 DEF ReportFits
    <2>4. CASE to # "done"
        BY <2>1, <2>2, <2>4 DEF ReportFits, NotYet
    <2> QED
        BY <2>2, <2>3, <2>4
<1>2. CASE ~Moves(to)
    <2>1. /\ work' = (IF work = "rescue" THEN "over" ELSE "rescue")
          /\ UNCHANGED <<job, report>>
        BY <1>2 DEF SetJob
    <2>2. JobShape' /\ NotYet'
        BY <2>1 DEF JobShape, NotYet
    <2>3. to = "done" => cancel
        BY <1>2 DEF Moves, ReportFits, JobShape
    <2>4. ReportFits'
        BY <2>1, <2>3 DEF ReportFits, NotYet, JobShape
    <2> QED
        BY <2>2, <2>4
<1> QED
    BY <1>1, <1>2

LEMMA JobBeginsKeeps == ASSUME CollectInv, JobBegins PROVE CollectInv'
<1> USE DEF CollectInv
<1>1. work = "begin" /\ UNCHANGED <<backend, passed, judged, queue, added, exported, dbFailed>>
    BY DEF JobBegins
<1>2. MisjudgedOnlyByDifyChunks' /\ OneLeadPerComment' /\ ExportedAreQueued'
    BY <1>1, QueueKept
<1>3. CASE cancel
    <2>1. SetJob("cancelled", report) /\ UNCHANGED cvars
        BY <1>3 DEF JobBegins
    <2>2. DiscoveryInv'
        BY <2>1, CancelKeeps DEF cvars, DiscoveryInv, DiscoveryTypes, CollectionTypeOK
    <2>3. JobShape' /\ NotYet' /\ ReportFits'
        BY <1>1, <1>3, <2>1, SetJobKeeps DEF cvars, JobShape
    <2> QED
        BY <1>2, <2>2, <2>3
<1>4. CASE ~cancel
    <2>1. PICK skip \in BOOLEAN : DiscoveryStarts(skip)
        BY <1>4 DEF JobBegins
    <2>2. work' = "discover" /\ UNCHANGED <<job, report>>
        BY <1>4 DEF JobBegins
    <2>3. DiscoveryInv' /\ cancel' = cancel
        BY <2>1, StartKeeps DEF DiscoveryStarts
    <2>4. JobShape' /\ NotYet' /\ ReportFits'
        BY <1>1, <2>2, <2>3 DEF JobShape, NotYet, ReportFits
    <2> QED
        BY <1>2, <2>3, <2>4
<1> QED
    BY <1>3, <1>4

LEMMA DiscoversKeeps == ASSUME CollectInv, Discovers PROVE CollectInv'
<1> USE DEF CollectInv
<1>1. work = "discover" /\ DiscoveryStep /\ UNCHANGED jvars
    BY DEF Discovers
<1>2. MisjudgedOnlyByDifyChunks' /\ OneLeadPerComment' /\ ExportedAreQueued'
    BY <1>1, QueueKept DEF jvars
<1>3. DiscoveryInv'
    BY <1>1, DiscoveryKeeps
<1>4. cancel' = cancel
    BY <1>1 DEF DiscoveryStep, NextPlatform, KeywordsDone, MergeSources, CrawlEnds, CrawlSucceeds,
                Retry, CrawlFails
<1>5. JobShape' /\ NotYet' /\ ReportFits'
    BY <1>1, <1>4 DEF jvars, JobShape, NotYet, ReportFits
<1> QED
    BY <1>2, <1>3, <1>5

LEMMA DiscoveryOverKeeps == ASSUME CollectInv, DiscoveryOver PROVE CollectInv'
<1> USE DEF CollectInv
<1>1. /\ work = "discover" /\ DiscoveryLeaves /\ cancel' = cancel
      /\ UNCHANGED <<backend, passed, judged, queue, added, exported, dbFailed>>
    BY DEF DiscoveryOver, DiscoveryLeaves
<1>2. MisjudgedOnlyByDifyChunks' /\ OneLeadPerComment' /\ ExportedAreQueued'
    BY <1>1, QueueKept
<1>3. DiscoveryInv'
    BY <1>1, DiscoveryLeavesKeeps
<1>4. CASE step = "returned" /\ cancel
    <2>1. SetJob("cancelled", report)
        BY <1>4 DEF DiscoveryOver
    <2>2. JobShape' /\ NotYet' /\ ReportFits'
        BY <1>1, <1>4, <2>1, SetJobKeeps DEF JobShape
    <2> QED
        BY <1>2, <1>3, <2>2
<1>5. CASE ~(step = "returned" /\ cancel)
    <2>1. work' \in {"rescue", "report", "classify"} /\ UNCHANGED <<job, report>>
        BY <1>5 DEF DiscoveryOver
    <2>2. JobShape' /\ NotYet' /\ ReportFits'
        BY <1>1, <2>1 DEF JobShape, NotYet, ReportFits
    <2> QED
        BY <1>2, <1>3, <2>2
<1> QED
    BY <1>4, <1>5

LEMMA JobDoneKeeps == ASSUME CollectInv, JobDone PROVE CollectInv'
<1> USE DEF CollectInv
<1>1. /\ work = "report" /\ SetJob("done", report) /\ UNCHANGED cvars
      /\ UNCHANGED <<backend, passed, judged, queue, added, exported, dbFailed>>
    BY DEF JobDone
<1>2. DiscoveryInv' /\ cancel' = cancel /\ found' = found
    BY <1>1, CancelKeeps DEF cvars, DiscoveryInv, DiscoveryTypes, CollectionTypeOK
<1>3. JobShape' /\ NotYet' /\ ReportFits'
    BY <1>1, <1>2, SetJobKeeps DEF JobShape
<1> QED
    BY <1>1, <1>2, <1>3, QueueKept

LEMMA JobFailsKeeps == ASSUME CollectInv, JobFails PROVE CollectInv'
<1> USE DEF CollectInv
<1>1. /\ work = "rescue" /\ SetJob("failed", NoReport) /\ UNCHANGED cvars
      /\ UNCHANGED <<backend, passed, judged, queue, added, exported, dbFailed>>
    BY DEF JobFails
<1>2. DiscoveryInv' /\ cancel' = cancel /\ found' = found
    BY <1>1, CancelKeeps DEF cvars, DiscoveryInv, DiscoveryTypes, CollectionTypeOK
<1>3. JobShape' /\ NotYet' /\ ReportFits'
    BY <1>1, <1>2, SetJobKeeps, NoReportIsSound
<1> QED
    BY <1>1, <1>2, <1>3, QueueKept

LEMMA CancelsKeep == ASSUME CollectInv, CancelRequest \/ GraceEnds PROVE CollectInv'
<1> USE DEF CollectInv
<1>1. /\ UNCHANGED <<step, plat, batch, attempt, files, keyword, account, found, broken, wrote>>
      /\ UNCHANGED <<work, backend, passed, judged, queue, added, exported, report, dbFailed>>
      /\ cancel' \in BOOLEAN /\ (cancel => cancel')
      /\ job' \in {"cancelling", "cancelled"} /\ cancel'
    BY DEF CancelRequest, GraceEnds, cvars, ReportFits, DiscoveryInv, DiscoveryTypes,
           CollectionTypeOK
<1>2. DiscoveryInv'
    BY <1>1, CancelKeeps
<1>3. JobShape' /\ NotYet' /\ ReportFits'
    BY <1>1 DEF JobShape, NotYet, ReportFits, CancelRequest, GraceEnds
<1> QED
    BY <1>1, <1>2, <1>3, QueueKept
------------------------------------------------------------------------------
(* classify_batch *)

\* Chunks of a list begin inside of it, and the first is the only one of a list
\* that fits into it.
LEMMA ChunkPlaces ==
    ASSUME NEW total \in Nat, NEW chunk \in Chunks(total)
    PROVE  /\ Start(chunk) \in Nat /\ Start(chunk) < total
           /\ ChunkLen(chunk, total) \in Nat /\ Start(chunk) + ChunkLen(chunk, total) <= total
           /\ total <= ChunkSize => Start(chunk) = 0 /\ ChunkLen(chunk, total) = total
<1> DEFINE top == total + ChunkSize - 1
           q == top \div ChunkSize
<1>1. ChunkSize \in Nat /\ ChunkSize > 0
    BY Subsets
<1>2. q \in Nat /\ q * ChunkSize <= top
    BY <1>1
<1> HIDE DEF q
<1>3. chunk \in Nat /\ 1 <= chunk /\ chunk <= q
    BY <1>2 DEF Chunks, q
<1>4. chunk * ChunkSize <= q * ChunkSize
    BY <1>1, <1>2, <1>3
<1>5. (chunk - 1) * ChunkSize = chunk * ChunkSize - ChunkSize /\ chunk * ChunkSize \in Nat
    BY <1>1, <1>3
<1>6. (chunk - 1) * ChunkSize \in Nat
    BY <1>1, <1>3
<1>7. Start(chunk) \in Nat /\ Start(chunk) < total
    BY <1>1, <1>2, <1>4, <1>5, <1>6 DEF Start
<1>8. ChunkLen(chunk, total) \in Nat /\ Start(chunk) + ChunkLen(chunk, total) <= total
    BY <1>1, <1>7 DEF ChunkLen
<1>9. ASSUME total <= ChunkSize PROVE Start(chunk) = 0 /\ ChunkLen(chunk, total) = total
    <2>1. chunk = 1 \/ chunk >= 2
        BY <1>3
    <2>2. chunk >= 2 => (chunk - 1) * ChunkSize >= ChunkSize
        BY <1>1, <1>3
    <2>3. chunk = 1
        BY <1>1, <1>7, <1>9, <2>1, <2>2 DEF Start
    <2>4. Start(chunk) = 0
        BY <1>1, <2>3 DEF Start
    <2> QED
        BY <1>1, <1>9, <2>4 DEF ChunkLen
<1> QED
    BY <1>7, <1>8, <1>9

LEMMA ClassifyKeeps == ASSUME CollectInv, Classify PROVE CollectInv'
<1> USE DEF CollectInv
<1> DEFINE candidates == Candidates
           total == Len(candidates)
<1>1. IsFiniteSet(Collected \cap Intent) /\ Collected \cap Intent \subseteq Comments
    BY Subsets, FS_Subset DEF Collected
<1>2. candidates \in Seq(Comments) /\ total \in Nat
    BY <1>1, SequenceOfSet DEF Candidates
<1>3. /\ work = "classify" /\ work' = "enqueue"
      /\ UNCHANGED <<cvars, job, backend, queue, added, exported, report, dbFailed>>
    BY DEF Classify
<1>4. Candidates' = Candidates
    <2>1. found' = found
        BY <1>3 DEF cvars
    <2>2. Collected' = Collected
        BY <2>1 DEF Collected
    <2> QED
        BY <2>2 DEF Candidates
<1> HIDE DEF candidates
<1>5. PICK answer \in Answers(total) :
        /\ passed' = [c \in Comments |->
                        Cardinality({at \in (1 .. total) \X DOMAIN answer :
                            /\ candidates[at[1]] = c
                            /\ at[2] \in Passing(answer, candidates, at[1])})]
        /\ judged' = {candidates[Start(at[1]) + at[2]] :
                        at \in {a \in DOMAIN answer : /\ a[2] <= ChunkLen(a[1], total)
                                                      /\ answer[a] # "no"}}
    BY DEF Classify, candidates
<1> DEFINE D == Chunks(total) \X (1 .. ChunkSize)
           Hits(c) == {at \in (1 .. total) \X DOMAIN answer :
                            /\ candidates[at[1]] = c
                            /\ at[2] \in Passing(answer, candidates, at[1])}
           Judged == {a \in DOMAIN answer : /\ a[2] <= ChunkLen(a[1], total)
                                            /\ answer[a] # "no"}
<1>6. DOMAIN answer = D
    BY <1>5 DEF Answers
<1>7. IsFiniteSet(D)
    <2>1. (total + ChunkSize - 1) \div ChunkSize \in Int /\ ChunkSize \in Int
        BY <1>2, Subsets
    <2>2. IsFiniteSet(Chunks(total)) /\ IsFiniteSet(1 .. ChunkSize)
        BY <2>1, FS_Interval DEF Chunks
    <2> QED
        BY <2>2, FS_Product
<1>8. \A c \in Comments : Cardinality(Hits(c)) \in Nat /\ (Hits(c) = {} => Cardinality(Hits(c)) = 0)
    <2>1. IsFiniteSet((1 .. total) \X D)
        <3>1. IsFiniteSet(1 .. total)
            BY <1>2, FS_Interval
        <3> HIDE DEF D
        <3> QED
            BY <1>7, <3>1, FS_Product
    <2>2. \A c \in Comments : IsFiniteSet(Hits(c))
        BY <1>6, <2>1, FS_Subset
    <2> HIDE DEF Hits
    <2> QED
        BY <2>2, FS_CardinalityType, FS_EmptySet
<1>9. passed' = [c \in Comments |-> Cardinality(Hits(c))]
    BY <1>5
<1>10. \A a \in Judged : Start(a[1]) + a[2] \in 1 .. total
    <2> SUFFICES ASSUME NEW a \in Judged PROVE Start(a[1]) + a[2] \in 1 .. total
        OBVIOUS
    <2>1. a[1] \in Chunks(total) /\ a[2] \in 1 .. ChunkSize /\ a[2] <= ChunkLen(a[1], total)
        BY <1>6
    <2>2. /\ Start(a[1]) \in Nat /\ ChunkLen(a[1], total) \in Nat
          /\ Start(a[1]) + ChunkLen(a[1], total) <= total
        BY <1>2, <2>1, ChunkPlaces
    <2> QED
        BY <1>2, <2>1, <2>2, Subsets
<1>11. judged' \subseteq Comments
    BY <1>2, <1>5, <1>10
<1>12. passed' \in [Comments -> Nat]
    BY <1>8, <1>9
<1>13. ASSUME backend = "direct" \/ total <= ChunkSize, NEW c \in Comments, passed'[c] > 0
       PROVE  c \in judged'
    <2>1. Hits(c) # {}
        BY <1>8, <1>9, <1>13
    <2>2. PICK at \in (1 .. total) \X DOMAIN answer :
            candidates[at[1]] = c /\ at[2] \in Passing(answer, candidates, at[1])
        BY <2>1
    <2> DEFINE n == at[1]
               a == at[2]
    <2>3. /\ n \in 1 .. total /\ a \in DOMAIN answer /\ answer[a] # "no"
          /\ Index(a[1], a[2], total) = n /\ candidates[n] = c
        BY <2>2 DEF Passing
    <2>4. a[1] \in Chunks(total) /\ a[2] \in 1 .. ChunkSize
        BY <1>6, <2>3
    <2> HIDE DEF n, a
    <2>5. /\ ChunkLen(a[1], total) \in Nat
          /\ total <= ChunkSize => Start(a[1]) = 0 /\ ChunkLen(a[1], total) = total
        BY <1>2, <2>4, ChunkPlaces
    <2>6. a[2] <= ChunkLen(a[1], total) /\ Start(a[1]) + a[2] = n
        <3>1. CASE backend = "direct"
            BY <1>2, <2>3, <3>1 DEF Index, DirectIndex
        <3>2. CASE backend # "direct"
            BY <1>2, <1>13, <2>3, <2>4, <2>5, <3>2 DEF Index, DifyIndex
        <3> QED
            BY <3>1, <3>2
    <2>7. a \in Judged
        BY <2>3, <2>6
    <2> QED
        BY <1>5, <2>3, <2>6, <2>7
<1>14. MisjudgedOnlyByDifyChunks'
    BY <1>3, <1>4, <1>13 DEF MisjudgedOnlyByDifyChunks, OnlyTargetsPass, Support, candidates
<1>15. OneLeadPerComment' /\ ExportedAreQueued'
    BY <1>3 DEF OneLeadPerComment, ExportedAreQueued
<1>16. DiscoveryInv' /\ cancel' = cancel
    BY <1>3, CancelKeeps DEF cvars, DiscoveryInv, DiscoveryTypes, CollectionTypeOK
<1>17. JobShape' /\ NotYet' /\ ReportFits'
    BY <1>3, <1>11, <1>12, <1>16 DEF JobShape, NotYet, ReportFits
<1> QED
    BY <1>14, <1>15, <1>16, <1>17
------------------------------------------------------------------------------
(* enqueue_tasks_batch_result *)

LEMMA EnqueueKeeps == ASSUME CollectInv, NEW ok \in BOOLEAN, Enqueue(ok) PROVE CollectInv'
<1> USE DEF CollectInv
<1> DEFINE rows == [c \in Comments |-> IF ok THEN Inserted(c) ELSE 0]
           valid == [c \in Addressed |-> passed[c]]
<1>1. /\ work = "enqueue" /\ work' = "report" /\ added' = rows /\ dbFailed' = ~ok
      /\ queue' = [c \in Comments |-> queue[c] + rows[c]]
      /\ exported' \in {{}, Support(passed)} /\ report' = Summary(rows)
      /\ UNCHANGED <<cvars, job, backend, passed, judged>>
    BY DEF Enqueue
<1>2. passed \in [Comments -> Nat] /\ queue \in [Comments -> Nat]
    BY DEF JobShape
<1>3. \A c \in Comments :
        /\ Inserted(c) \in Nat /\ Inserted(c) <= passed[c]
        /\ c \notin Addressed => Inserted(c) = 0
        /\ c \in Identified => queue[c] + Inserted(c) <= 1
        /\ c \in Addressed /\ passed[c] > 0 => queue[c] + Inserted(c) > 0
    BY <1>2 DEF Inserted, OneLeadPerComment
<1>4. rows \in [Comments -> Nat] /\ queue' \in [Comments -> Nat]
      /\ \A c \in Comments : rows[c] = IF ok THEN Inserted(c) ELSE 0
    BY <1>1, <1>2, <1>3
<1>5. Sum(rows, Comments) \in Nat /\ Sum(valid, Addressed) \in Nat /\ Sum(passed, Comments) \in Nat
    BY <1>2, <1>4, Subsets, SumNatural
<1>6. Sum(rows, Comments) <= Sum(valid, Addressed)
    <2>1. \A c \in Comments : rows[c] \in Int
        BY <1>4
    <2>2. \A c \in Addressed : valid[c] \in Int
        BY <1>2, Subsets
    <2>3. \A c \in Comments \cup Addressed :
            (IF c \in Comments THEN rows[c] ELSE 0) <= (IF c \in Addressed THEN valid[c] ELSE 0)
        BY <1>2, <1>3, <1>4, Subsets
    <2> HIDE DEF rows, valid
    <2> QED
        BY <2>1, <2>2, <2>3, Subsets, SumCompare
<1>7. Sum(valid, Addressed) <= Sum(passed, Comments)
    <2>1. \A c \in Addressed : valid[c] \in Int
        BY <1>2, Subsets
    <2>2. \A c \in Comments : passed[c] \in Int
        BY <1>2
    <2>3. \A c \in Addressed \cup Comments :
            (IF c \in Addressed THEN valid[c] ELSE 0) <= (IF c \in Comments THEN passed[c] ELSE 0)
        BY <1>2, Subsets
    <2> HIDE DEF valid
    <2> QED
        BY <2>1, <2>2, <2>3, Subsets, SumCompare
<1>8. /\ Total(rows) = Sum(rows, Comments) /\ Valid = Sum(valid, Addressed)
      /\ Total(passed) = Sum(passed, Comments)
    <2>1. DOMAIN rows = Comments /\ DOMAIN valid = Addressed /\ DOMAIN passed = Comments
        BY <1>2
    <2> QED
        BY <2>1, TotalIsSum DEF Valid
<1>9. Found \in Nat
    BY Subsets, FS_Subset, FS_CardinalityType DEF Found, Collected
<1> HIDE DEF rows, valid
<1>10. report' \in Reports /\ Sound(report', rows)
    <2> DEFINE r == Total(rows)
               v == Valid
               p == Total(passed)
    <2>1. r \in Nat /\ v \in Nat /\ p \in Nat /\ r <= v /\ v <= p
        BY <1>5, <1>6, <1>7, <1>8
    <2>2. report' = Report(Found, p, r, v - r, p - v)
        BY <1>1 DEF Summary
    <2> DEFINE d == v - r
               e == p - v
    <2> HIDE DEF r, v, p
    <2>3. d \in Nat /\ e \in Nat /\ p = r + d + e
        BY <2>1
    <2> HIDE DEF d, e
    <2>4. /\ Report(Found, p, r, d, e) \in Reports
          /\ Report(Found, p, r, d, e).passed = p /\ Report(Found, p, r, d, e).enqueued = r
          /\ Report(Found, p, r, d, e).duplicates = d /\ Report(Found, p, r, d, e).invalid = e
        BY <1>9, <2>1, <2>3 DEF Report, Reports, NoReport
    <2>5. report' = Report(Found, p, r, d, e)
        BY <2>2 DEF d, e
    <2> QED
        BY <2>3, <2>4, <2>5 DEF Sound, r
<1>11. DiscoveryInv' /\ cancel' = cancel /\ found' = found
    BY <1>1, CancelKeeps DEF cvars, DiscoveryInv, DiscoveryTypes, CollectionTypeOK
<1>12. JobShape'
    BY <1>1, <1>4, <1>10 DEF JobShape, Support
<1>13. NotYet'
    BY <1>1 DEF NotYet
<1>14. ReportFits'
    <2>1. Sound(report, added)'
        BY <1>1, <1>10 DEF Sound
    <2> QED
        BY <1>1, <1>11, <2>1 DEF ReportFits
<1>15. OneLeadPerComment' /\ ExportedAreQueued'
    <2>1. \A c \in Comments : queue'[c] = queue[c] + rows[c]
        BY <1>1
    <2>2. OneLeadPerComment'
        BY <1>2, <1>3, <1>4, <2>1, Subsets DEF OneLeadPerComment
    <2>3. ASSUME ok, NEW c \in Support(passed) \cap Addressed PROVE queue'[c] > 0
        BY <1>2, <1>3, <1>4, <2>1, <2>3, Subsets DEF Support
    <2> QED
        BY <1>1, <2>2, <2>3 DEF ExportedAreQueued
<1>16. MisjudgedOnlyByDifyChunks'
    <2>1. Collected' = Collected
        BY <1>11 DEF Collected
    <2>2. Candidates' = Candidates
        BY <2>1 DEF Candidates
    <2> QED
        BY <1>1, <2>2 DEF MisjudgedOnlyByDifyChunks, OnlyTargetsPass, Support
<1> QED
    BY <1>11, <1>12, <1>13, <1>14, <1>15, <1>16
------------------------------------------------------------------------------
LEMMA StepJob == CollectInv /\ [CollectJobNext]_<<cvars, jvars>> => CollectInv'
<1> SUFFICES ASSUME CollectInv, [CollectJobNext]_<<cvars, jvars>> PROVE CollectInv'
    OBVIOUS
<1>1. ASSUME UNCHANGED <<cvars, jvars>> PROVE CollectInv'
    <2> USE DEF CollectInv
    <2>1. DiscoveryInv' /\ cancel' = cancel /\ found' = found
        BY <1>1, CancelKeeps DEF cvars, DiscoveryInv, DiscoveryTypes, CollectionTypeOK
    <2>2. JobShape' /\ NotYet' /\ ReportFits'
        BY <1>1, <2>1 DEF jvars, JobShape, NotYet, ReportFits
    <2> QED
        BY <1>1, <2>1, <2>2, QueueKept DEF jvars
<1> QED
    BY <1>1, JobBeginsKeeps, DiscoversKeeps, DiscoveryOverKeeps, ClassifyKeeps, EnqueueKeeps,
       JobDoneKeeps, JobFailsKeeps, CancelsKeep DEF CollectJobNext, JobWorks, JobOver

LEMMA CollectInvHolds == CollectJobSpec => []CollectInv
BY InitJob, StepJob, PTL DEF CollectJobSpec

\* The variables of a collection job keep their types.
THEOREM CollectTypes == CollectJobSpec => []CollectJobTypeOK
<1>1. CollectInv => CollectJobTypeOK
    BY DEF CollectInv, DiscoveryInv, DiscoveryTypes, JobShape, Reports, CollectJobTypeOK
<1> QED
    BY <1>1, CollectInvHolds, PTL

\* However its crawls end and whenever it is cancelled, a discovery that returns
\* hands on every comment it has read, but for those of the accounts when the
\* user has cancelled it.
THEOREM ReadStaysFound == CollectJobSpec => []ReadCommentsKept
<1>1. CollectInv => ReadCommentsKept
    BY DEF CollectInv, DiscoveryInv, ReadKept
<1> QED
    BY <1>1, CollectInvHolds, PTL

\* Unless a crawl failed, a comment is credited to the configured accounts
\* exactly if they wrote it.
THEOREM CreditHolds == CollectJobSpec => []AccountsCreditedRightly
<1>1. CollectInv => AccountsCreditedRightly
    BY DEF CollectInv, DiscoveryInv, Credits, Credited, AccountsCreditedRightly
<1> QED
    BY <1>1, CollectInvHolds, PTL

\* With the direct backend, and with Dify as long as one chunk holds all
\* candidates, only comments the classifier took for targets pass.
THEOREM OnlyChunksMisjudge == CollectJobSpec => []MisjudgedOnlyByDifyChunks
<1>1. CollectInv => MisjudgedOnlyByDifyChunks
    BY DEF CollectInv
<1> QED
    BY <1>1, CollectInvHolds, PTL

\* What a job that is done reports adds up to what it queued, and one that
\* queued leads and ends otherwise was cancelled.
THEOREM ReportHolds == CollectJobSpec => []ReportAddsUp
<1>1. CollectInv => ReportAddsUp
    <2> SUFFICES ASSUME CollectInv PROVE ReportAddsUp
        OBVIOUS
    <2>1. Total(added) > 0 => added # Nothing
        BY NothingTotals
    <2> QED
        BY <2>1 DEF CollectInv, ReportFits, Sound, ReportAddsUp
<1> QED
    BY <1>1, CollectInvHolds, PTL

\* However often it is listed and whoever queued it before, a comment with a
\* short id is one lead.
THEOREM LeadsOnce == CollectJobSpec => []OneLeadPerComment
<1>1. CollectInv => OneLeadPerComment
    BY DEF CollectInv
<1> QED
    BY <1>1, CollectInvHolds, PTL

\* A lead that was pushed to the webhook is in the queue, unless it has no
\* address or the insertion failed.
THEOREM PushedAreQueued == CollectJobSpec => []ExportedAreQueued
<1>1. CollectInv => ExportedAreQueued
    BY DEF CollectInv
<1> QED
    BY <1>1, CollectInvHolds, PTL
------------------------------------------------------------------------------
(* the steps a collection has left *)

AllSteps == Len(Platforms) * PlatformSteps
Later(p) == (Len(Platforms) - p) * PlatformSteps + 1
BatchSteps(n) == n * CrawlSteps
\* StepsLeft as a function of where the job, its coroutine and its discovery are.
DiscoveryFrom(s, p, b, a) ==
    IF s = "idle" THEN AllSteps + 2
    ELSE IF s = "platform" THEN Later(p) + PlatformSteps
    ELSE IF s = "keyword_crawl" THEN Later(p) + BatchSteps(Len(Batches) - b + 2) - a + 2
    ELSE IF s = "keywords_done" THEN Later(p) + CrawlSteps + 2
    ELSE IF s = "account_crawl" THEN Later(p) + CrawlSteps - a + 1
    ELSE IF s = "merge" THEN Later(p) + 1 ELSE 0
WorkFrom(k, d) ==
    IF k = "begin" THEN d + 6 ELSE IF k = "discover" THEN d + 5 ELSE IF k = "classify" THEN 4
    ELSE IF k = "enqueue" THEN 3 ELSE IF k = "report" THEN 2 ELSE IF k = "rescue" THEN 1 ELSE 0
JobFrom(j) == IF j = "running" THEN 2 ELSE IF j = "cancelling" THEN 1 ELSE 0

LEMMA StepsByPlace ==
    /\ StepsLeft = WorkFrom(work, DiscoveryFrom(step, plat, batch, attempt)) + JobFrom(job)
    /\ StepsLeft' = WorkFrom(work', DiscoveryFrom(step', plat', batch', attempt')) + JobFrom(job')
<1>1. /\ DiscoverySteps = DiscoveryFrom(step, plat, batch, attempt)
      /\ DiscoverySteps' = DiscoveryFrom(step', plat', batch', attempt')
    BY DEF DiscoverySteps, DiscoveryFrom, LaterPlatforms, Later, BatchSteps, AllSteps
<1>2. /\ WorkSteps = WorkFrom(work, DiscoverySteps)
      /\ WorkSteps' = WorkFrom(work', DiscoverySteps')
    BY DEF WorkSteps, WorkFrom
<1>3. /\ StepsLeft = WorkSteps + JobFrom(job)
      /\ StepsLeft' = WorkSteps' + JobFrom(job')
    BY DEF StepsLeft, JobFrom
<1> QED
    BY <1>1, <1>2, <1>3

\* A crawl, a batch and a platform have their shares.
LEMMA Products ==
    ASSUME NEW k \in Nat
    PROVE  \A n \in Nat : n * k \in Nat /\ (n + 1) * k = n * k + k /\ 0 * k = 0
OBVIOUS

LEMMA Shares ==
    /\ MaxRetries \in Nat /\ Len(Batches) \in Nat /\ Len(Platforms) \in Nat
    /\ CrawlSteps = MaxRetries + 1
    /\ \A n \in Nat : BatchSteps(n) \in Nat /\ BatchSteps(n + 1) = BatchSteps(n) + CrawlSteps
    /\ PlatformSteps = BatchSteps(Len(Batches) + 1) + 3 /\ PlatformSteps \in Nat
<1>1. MaxRetries \in Nat /\ Len(Batches) \in Nat /\ Len(Platforms) \in Nat
    BY CollectionAssumption DEF CollectionAssumption
<1>2. CrawlSteps = MaxRetries + 1 /\ CrawlSteps \in Nat
    BY <1>1 DEF CrawlSteps
<1>3. \A n \in Nat : BatchSteps(n) \in Nat /\ BatchSteps(n + 1) = BatchSteps(n) + CrawlSteps
    BY <1>2, Products DEF BatchSteps
<1>4. PlatformSteps = BatchSteps(Len(Batches) + 1) + 3
    BY DEF PlatformSteps, BatchSteps
<1>5. BatchSteps(Len(Batches) + 1) \in Nat
    <2>1. Len(Batches) + 1 \in Nat
        BY <1>1
    <2> QED
        BY <2>1, <1>3
<1>6. PlatformSteps \in Nat
    BY <1>4, <1>5
<1> QED
    BY <1>1, <1>2, <1>3, <1>4, <1>6

LEMMA PlatformsLeft ==
    ASSUME NEW p \in 1 .. Len(Platforms) + 1
    PROVE  /\ Later(p) \in Int /\ Later(p) + PlatformSteps >= 1
           /\ Later(p) + PlatformSteps <= AllSteps + 1 /\ AllSteps \in Nat
           /\ p <= Len(Platforms) => Later(p) >= 1 /\ Later(p + 1) + PlatformSteps = Later(p)
<1> DEFINE L == Len(Platforms)
           K == PlatformSteps
<1>1. L \in Nat /\ K \in Nat
    BY Shares
<1> HIDE DEF K, L
<1>2. p \in Nat /\ p >= 1 /\ p <= L + 1
    BY <1>1 DEF L
<1>3. PICK m \in Nat : p = m + 1
    <2>1. p - 1 \in Nat /\ p = (p - 1) + 1
        BY <1>2
    <2> QED
        BY <2>1
<1>4. PICK n \in Nat : L = m + n
    <2>1. L - m \in Nat /\ L = m + (L - m)
        BY <1>1, <1>2, <1>3
    <2> QED
        BY <2>1
<1>5. (L - p) * K + K = n * K
    BY <1>1, <1>3, <1>4
<1>6. L * K = m * K + n * K /\ m * K \in Nat /\ n * K \in Nat /\ (L - p) * K \in Int
    BY <1>1, <1>3, <1>4
<1>7. ASSUME p <= L
      PROVE  (L - p) * K \in Nat /\ (L - (p + 1)) * K + K = (L - p) * K
    <2>1. PICK i \in Nat : n = i + 1 /\ L - p = i /\ L - (p + 1) = i - 1
        <3>1. n - 1 \in Nat /\ n = (n - 1) + 1 /\ L - p = n - 1 /\ L - (p + 1) = (n - 1) - 1
            BY <1>3, <1>4, <1>7
        <3> QED
            BY <3>1
    <2>2. i * K \in Nat /\ (i - 1) * K + K = i * K
        BY <1>1
    <2> QED
        BY <2>1, <2>2
<1> QED
    BY <1>1, <1>5, <1>6, <1>7 DEF Later, AllSteps, K, L

\* The share of the batches from batch b on, and a crawl's.
LEMMA BatchesLeft ==
    ASSUME NEW b \in 1 .. Len(Batches) + 1
    PROVE  /\ BatchSteps(Len(Batches) - b + 2) \in Nat
           /\ BatchSteps(Len(Batches) - b + 2) >= CrawlSteps
           /\ b <= Len(Batches) =>
                  /\ BatchSteps(Len(Batches) - b + 2) =
                         BatchSteps(Len(Batches) - (b + 1) + 2) + CrawlSteps
                  /\ BatchSteps(Len(Batches) - (b + 1) + 2) \in Nat
                  /\ BatchSteps(Len(Batches) - (b + 1) + 2) >= CrawlSteps
<1> DEFINE L == Len(Batches)
           C == CrawlSteps
<1>1. L \in Nat /\ C \in Nat
    BY Shares
<1>2. \A n \in Nat : BatchSteps(n) \in Nat /\ BatchSteps(n + 1) = BatchSteps(n) + C
    BY Shares
<1> HIDE DEF L, C
<1>3. PICK m \in Nat : L - b + 1 = m /\ L - b + 2 = m + 1
    <2>1. b \in Nat /\ b <= L + 1
        BY <1>1 DEF L
    <2>2. L - b + 1 \in Nat /\ L - b + 2 = (L - b + 1) + 1
        BY <1>1, <2>1
    <2> QED
        BY <2>2
<1>4. BatchSteps(m + 1) = BatchSteps(m) + C /\ BatchSteps(m) \in Nat /\ BatchSteps(m + 1) \in Nat
    <2>1. m + 1 \in Nat
        OBVIOUS
    <2> QED
        BY <1>2, <2>1
<1>5. BatchSteps(m + 1) >= C
    BY <1>1, <1>4
<1>6. ASSUME b <= L
      PROVE  /\ L - (b + 1) + 2 = m /\ BatchSteps(m) \in Nat /\ BatchSteps(m) >= C
    <2>1. b \in Nat
        BY <1>1 DEF L
    <2>2. L - (b + 1) + 2 = m /\ m - 1 \in Nat /\ m = (m - 1) + 1
        BY <1>1, <1>3, <1>6, <2>1
    <2>3. BatchSteps(m) = BatchSteps(m - 1) + C /\ BatchSteps(m - 1) \in Nat
        BY <1>2, <2>2
    <2> QED
        BY <1>1, <2>2, <2>3, <1>4
<1> QED
    BY <1>3, <1>4, <1>5, <1>6 DEF L, C

\* Where a discovery is, with the shares it has left there.
DiscoveryAt(p, b, a) ==
    /\ AllSteps \in Nat /\ CrawlSteps \in Nat /\ PlatformSteps \in Nat
    /\ Later(p) \in Int /\ Later(p) + PlatformSteps >= 1
    /\ Later(p) + PlatformSteps <= AllSteps + 1
    /\ p <= Len(Platforms) => Later(p) >= 1 /\ Later(p + 1) + PlatformSteps = Later(p)
    /\ BatchSteps(Len(Batches) - b + 2) \in Nat
    /\ BatchSteps(Len(Batches) - b + 2) >= CrawlSteps
    /\ a \in Nat /\ a < CrawlSteps
\* The steps left at each place.
DiscoveryCases(s, p, b, a, d) ==
    \/ s = "idle" /\ d = AllSteps + 2
    \/ s = "platform" /\ d = Later(p) + PlatformSteps
    \/ s = "keyword_crawl" /\ d = Later(p) + BatchSteps(Len(Batches) - b + 2) - a + 2
    \/ s = "keywords_done" /\ d = Later(p) + CrawlSteps + 2
    \/ s = "account_crawl" /\ d = Later(p) + CrawlSteps - a + 1
    \/ s = "merge" /\ d = Later(p) + 1
    \/ s \notin InPlatform \cup {"platform", "idle"} /\ d = 0
LEMMA ByCases ==
    ASSUME NEW s, NEW p, NEW b, NEW a
    PROVE  DiscoveryCases(s, p, b, a, DiscoveryFrom(s, p, b, a))
BY DEF DiscoveryCases, DiscoveryFrom, InPlatform

LEMMA CasesCount ==
    ASSUME NEW s, NEW p, NEW b, NEW a, NEW d, DiscoveryCases(s, p, b, a, d),
           DiscoveryAt(p, b, a)
    PROVE  /\ d \in Int
           /\ (s \in InPlatform => p <= Len(Platforms)) => d \in Nat
           /\ s \in InPlatform \cup {"platform", "idle"} /\ (s \in InPlatform => p <= Len(Platforms))
                  => d > 0
<1> DEFINE l == Later(p)
           n == BatchSteps(Len(Batches) - b + 2)
<1>1. /\ AllSteps \in Nat /\ CrawlSteps \in Nat /\ PlatformSteps \in Nat
      /\ l \in Int /\ l + PlatformSteps >= 1 /\ n \in Nat /\ n >= CrawlSteps
      /\ a \in Nat /\ a < CrawlSteps
    BY DEF DiscoveryAt
<1>2. p <= Len(Platforms) => l >= 1
    BY DEF DiscoveryAt
<1>3. \/ s = "idle" /\ d = AllSteps + 2
      \/ s = "platform" /\ d = l + PlatformSteps
      \/ s \in InPlatform /\ d \in {l + n - a + 2, l + CrawlSteps + 2, l + CrawlSteps - a + 1, l + 1}
      \/ s \notin InPlatform \cup {"platform", "idle"} /\ d = 0
    BY DEF DiscoveryCases, InPlatform
<1> HIDE DEF l, n
<1>4. CASE s = "idle" /\ d = AllSteps + 2
    BY <1>1, <1>4 DEF InPlatform
<1>5. CASE s = "platform" /\ d = l + PlatformSteps
    BY <1>1, <1>5 DEF InPlatform
<1>6. CASE s \in InPlatform /\ d \in {l + n - a + 2, l + CrawlSteps + 2, l + CrawlSteps - a + 1, l + 1}
    <2>1. d \in Int /\ (l >= 1 => d > 0)
        BY <1>1, <1>6
    <2> QED
        BY <1>2, <1>6, <2>1
<1>7. CASE s \notin InPlatform \cup {"platform", "idle"} /\ d = 0
    BY <1>7
<1> QED
    BY <1>3, <1>4, <1>5, <1>6, <1>7

LEMMA WhereItIs ==
    ASSUME NEW p \in 1 .. Len(Platforms) + 1, NEW b \in 1 .. Len(Batches) + 1,
           NEW a \in 0 .. MaxRetries
    PROVE  DiscoveryAt(p, b, a)
<1>1. /\ AllSteps \in Nat
      /\ Later(p) \in Int /\ Later(p) + PlatformSteps >= 1
      /\ Later(p) + PlatformSteps <= AllSteps + 1
      /\ p <= Len(Platforms) => Later(p) >= 1 /\ Later(p + 1) + PlatformSteps = Later(p)
    BY PlatformsLeft
<1>2. /\ BatchSteps(Len(Batches) - b + 2) \in Nat
      /\ BatchSteps(Len(Batches) - b + 2) >= CrawlSteps
    BY BatchesLeft
<1>3. MaxRetries \in Nat /\ CrawlSteps = MaxRetries + 1 /\ PlatformSteps \in Nat
    BY Shares
<1>4. a \in Nat /\ a < CrawlSteps /\ CrawlSteps \in Nat
    BY <1>3
<1> QED
    BY <1>1, <1>2, <1>3, <1>4 DEF DiscoveryAt

LEMMA DiscoveryIs ==
    ASSUME DiscoveryInv
    PROVE  /\ DiscoveryAt(plat, batch, attempt) /\ plat \in Nat /\ batch \in 1 .. Len(Batches) + 1
           /\ step \in InPlatform => plat <= Len(Platforms)
           /\ step = "keyword_crawl" => batch <= Len(Batches)
<1>1. /\ plat \in 1 .. Len(Platforms) + 1 /\ batch \in 1 .. Len(Batches) + 1
      /\ attempt \in 0 .. MaxRetries
      /\ step \in InPlatform => plat <= Len(Platforms)
      /\ step = "keyword_crawl" => batch <= Len(Batches)
    BY DEF DiscoveryInv, DiscoveryTypes, CollectionTypeOK
<1>2. DiscoveryAt(plat, batch, attempt)
    BY <1>1, WhereItIs
<1>3. plat \in Nat
    BY <1>1, Shares
<1> QED
    BY <1>1, <1>2, <1>3

LEMMA DiscoveryLeft ==
    ASSUME DiscoveryInv
    PROVE  /\ DiscoveryFrom(step, plat, batch, attempt) \in Nat
           /\ step \in InPlatform \cup {"platform", "idle"} =>
                  DiscoveryFrom(step, plat, batch, attempt) > 0
<1>1. /\ DiscoveryAt(plat, batch, attempt)
      /\ step \in InPlatform => plat <= Len(Platforms)
    BY DiscoveryIs
<1> QED
    BY <1>1, ByCases, CasesCount

\* A discovery starts with fewer steps than it had, and comes nearer to its end
\* with each of them.
LEMMA StartNearer ==
    ASSUME DiscoveryInv, NEW skip \in BOOLEAN, DiscoveryStarts(skip)
    PROVE  DiscoveryFrom(step', plat', batch', attempt') < DiscoveryFrom(step, plat, batch, attempt)
<1>1. DiscoveryAt(plat, batch, attempt)
    BY DiscoveryIs
<1>2. step = "idle" /\ step' \in {"returned", "platform", "raised"} /\ plat' = plat
    BY DEF DiscoveryStarts
<1>3. step' \in {"returned", "raised"} =>
          DiscoveryFrom(step', plat', batch', attempt') = 0
    BY DEF DiscoveryFrom
<1>4. step' = "platform" =>
          DiscoveryFrom(step', plat', batch', attempt') = Later(plat) + PlatformSteps
    BY <1>2 DEF DiscoveryFrom
<1>5. DiscoveryFrom(step, plat, batch, attempt) = AllSteps + 2
    BY <1>2 DEF DiscoveryFrom
<1> QED
    BY <1>1, <1>2, <1>3, <1>4, <1>5 DEF DiscoveryAt

\* A crawl is tried again, gives way to the next batch or the next source, or
\* ends the discovery.
LEMMA CrawlMoves ==
    ASSUME DiscoveryInv, Crawling, CrawlEnds
    PROVE  /\ plat' = plat
           /\ \/ step' = step /\ batch' = batch /\ attempt' = attempt + 1
              \/ /\ step = "keyword_crawl" /\ attempt' = 0 /\ batch' = batch + 1
                 /\ step' = "keywords_done" \/ (step' = "keyword_crawl" /\ batch < Len(Batches))
              \/ step = "account_crawl" /\ step' = "merge"
              \/ step' = "raised"
<1>1. ASSUME NEW cs, Receive(cs)
      PROVE  \/ /\ step = "keyword_crawl" /\ batch' = batch + 1
                /\ step' = "keywords_done" \/ (step' = "keyword_crawl" /\ batch < Len(Batches))
             \/ step = "account_crawl" /\ step' = "merge"
    BY <1>1 DEF Receive, AfterBatch, Crawling
<1>2. ASSUME NEW how, CrawlRaises(how)
      PROVE  \/ /\ step = "keyword_crawl" /\ batch' = batch + 1
                /\ step' = "keywords_done" \/ (step' = "keyword_crawl" /\ batch < Len(Batches))
             \/ step' = "raised"
    BY <1>2 DEF CrawlRaises, AfterBatch
<1>3. ASSUME NEW out, CrawlSucceeds(out)
      PROVE  plat' = plat /\ attempt' = 0 /\ \E cs : Receive(cs)
    BY <1>3 DEF CrawlSucceeds
<1>4. ASSUME NEW out, Retry(out)
      PROVE  plat' = plat /\ step' = step /\ batch' = batch /\ attempt' = attempt + 1
    BY <1>4 DEF Retry
<1>5. ASSUME NEW out, NEW how, CrawlFails(out, how)
      PROVE  plat' = plat /\ attempt' = 0 /\ ((\E cs : Receive(cs)) \/ CrawlRaises(how))
    BY <1>5 DEF CrawlFails
<1>6. PICK out : CrawlSucceeds(out) \/ Retry(out) \/ \E how : CrawlFails(out, how)
    BY DEF CrawlEnds
<1> QED
    BY <1>1, <1>2, <1>3, <1>4, <1>5, <1>6

LEMMA DiscoveryNearer ==
    ASSUME DiscoveryInv, DiscoveryStep
    PROVE  DiscoveryFrom(step', plat', batch', attempt') < DiscoveryFrom(step, plat, batch, attempt)
<1> DEFINE d == DiscoveryFrom(step, plat, batch, attempt)
           e == DiscoveryFrom(step', plat', batch', attempt')
<1>1. DiscoveryAt(plat, batch, attempt) /\ plat \in Nat /\ batch \in 1 .. Len(Batches) + 1
    BY DiscoveryIs
<1>2. ASSUME step' \in {"returned", "raised"}
      PROVE  e < d
    <2>1. step \in InPlatform \cup {"platform"}
        BY DEF DiscoveryStep, NextPlatform, KeywordsDone, MergeSources, Crawling, InPlatform
    <2>2. e = 0
        BY <1>2 DEF DiscoveryFrom
    <2>3. d > 0
        BY <2>1, DiscoveryLeft
    <2> QED
        BY <2>2, <2>3
<1>3. ASSUME NextPlatform, step' \notin {"returned", "raised"}
      PROVE  e < d
    <2>1. /\ step = "platform" /\ plat' = plat /\ batch' = 1 /\ attempt' = 0
          /\ step' \in {"keyword_crawl", "keywords_done"}
        BY <1>3 DEF NextPlatform
    <2>2. /\ Len(Batches) \in Nat /\ Len(Batches) - 1 + 2 = Len(Batches) + 1
          /\ PlatformSteps = BatchSteps(Len(Batches) + 1) + 3
        BY Shares
    <2>3. BatchSteps(Len(Batches) + 1) \in Nat /\ BatchSteps(Len(Batches) + 1) >= CrawlSteps
        <3>1. 1 \in 1 .. Len(Batches) + 1
            BY <2>2
        <3> QED
            BY <3>1, <2>2, BatchesLeft
    <2>4. d = Later(plat) + PlatformSteps
        BY <2>1 DEF DiscoveryFrom
    <2>5. \/ e = Later(plat) + BatchSteps(Len(Batches) + 1) - 0 + 2
          \/ e = Later(plat) + CrawlSteps + 2
        BY <2>1, <2>2 DEF DiscoveryFrom
    <2>6. Later(plat) \in Int /\ CrawlSteps \in Nat /\ PlatformSteps \in Nat
        BY <1>1 DEF DiscoveryAt
    <2> DEFINE n == BatchSteps(Len(Batches) + 1)
    <2>7. n \in Nat /\ n >= CrawlSteps /\ PlatformSteps = n + 3
        BY <2>2, <2>3
    <2>8. e = Later(plat) + n - 0 + 2 \/ e = Later(plat) + CrawlSteps + 2
        BY <2>5
    <2> HIDE DEF d, e, n
    <2> QED
        BY <2>4, <2>6, <2>7, <2>8
<1>4. ASSUME KeywordsDone, step' \notin {"returned", "raised"}
      PROVE  e < d
    <2>1. /\ step = "keywords_done" /\ plat' = plat /\ attempt' = attempt
          /\ step' \in {"account_crawl", "merge"}
        BY <1>4 DEF KeywordsDone
    <2>2. d = Later(plat) + CrawlSteps + 2
        BY <2>1 DEF DiscoveryFrom
    <2>3. e = Later(plat) + CrawlSteps - attempt + 1 \/ e = Later(plat) + 1
        BY <2>1 DEF DiscoveryFrom
    <2>4. Later(plat) \in Int /\ CrawlSteps \in Nat /\ attempt \in Nat
        BY <1>1 DEF DiscoveryAt
    <2> HIDE DEF d, e
    <2> QED
        BY <2>2, <2>3, <2>4
<1>5. ASSUME MergeSources, step' \notin {"returned", "raised"}
      PROVE  e < d
    <2>1. step = "merge" /\ step' = "platform" /\ plat' = plat + 1
        BY <1>5 DEF MergeSources
    <2>2. plat <= Len(Platforms)
        BY <2>1, DiscoveryIs DEF InPlatform
    <2>3. d = Later(plat) + 1 /\ e = Later(plat + 1) + PlatformSteps
        BY <2>1 DEF DiscoveryFrom
    <2>4. Later(plat) \in Int /\ Later(plat + 1) + PlatformSteps = Later(plat)
        BY <1>1, <2>2 DEF DiscoveryAt
    <2> HIDE DEF d, e
    <2> QED
        BY <2>3, <2>4
<1>6. ASSUME Crawling, CrawlEnds, step' \notin {"returned", "raised"}
      PROVE  e < d
    <2>1. /\ plat' = plat
          /\ \/ step' = step /\ batch' = batch /\ attempt' = attempt + 1
             \/ /\ step = "keyword_crawl" /\ attempt' = 0 /\ batch' = batch + 1
                /\ step' = "keywords_done" \/ (step' = "keyword_crawl" /\ batch < Len(Batches))
             \/ step = "account_crawl" /\ step' = "merge"
        BY <1>6, CrawlMoves
    <2> DEFINE n == BatchSteps(Len(Batches) - batch + 2)
               m == BatchSteps(Len(Batches) - (batch + 1) + 2)
    <2>2. CASE step = "keyword_crawl"
        <3>1. batch <= Len(Batches)
            BY <2>2, DiscoveryIs
        <3>2. n = m + CrawlSteps /\ n \in Nat /\ m \in Nat /\ m >= CrawlSteps
            BY <1>1, <3>1, BatchesLeft
        <3>3. d = Later(plat) + n - attempt + 2
            BY <2>2 DEF DiscoveryFrom
        <3>4. \/ e = Later(plat) + n - (attempt + 1) + 2
              \/ e = Later(plat) + m - 0 + 2
              \/ e = Later(plat) + CrawlSteps + 2
            BY <2>1, <2>2 DEF DiscoveryFrom
        <3>5. Later(plat) \in Int /\ CrawlSteps \in Nat /\ attempt \in Nat /\ attempt < CrawlSteps
            BY <1>1 DEF DiscoveryAt
        <3> HIDE DEF d, e, m, n
        <3> QED
            BY <3>2, <3>3, <3>4, <3>5
    <2>3. CASE step = "account_crawl"
        <3>1. d = Later(plat) + CrawlSteps - attempt + 1
            BY <2>3 DEF DiscoveryFrom
        <3>2. \/ e = Later(plat) + CrawlSteps - (attempt + 1) + 1
              \/ e = Later(plat) + 1
            BY <2>1, <2>3 DEF DiscoveryFrom
        <3>3. Later(plat) \in Int /\ CrawlSteps \in Nat /\ attempt \in Nat /\ attempt < CrawlSteps
            BY <1>1 DEF DiscoveryAt
        <3> HIDE DEF d, e, m, n
        <3> QED
            BY <3>1, <3>2, <3>3
    <2> QED
        BY <1>6, <2>2, <2>3 DEF Crawling
<1> QED
    BY <1>2, <1>3, <1>4, <1>5, <1>6 DEF DiscoveryStep

\* Setting the job's status ends its coroutine, or hands it to the except clause.
LEMMA SetJobNearer ==
    ASSUME CollectInv, NEW to \in {"cancelled", "done", "failed"}, NEW summary, SetJob(to, summary)
    PROVE  /\ JobFrom(job') <= JobFrom(job) /\ JobFrom(job) \in Nat /\ JobFrom(job') \in Nat
           /\ \A d : WorkFrom(work', d) = IF work' = "rescue" THEN 1 ELSE 0
           /\ work' \in {"rescue", "over"} /\ (work = "rescue" => work' = "over")
BY DEF SetJob, Moves, JobFrom, WorkFrom

LEMMA DiscoveryCounts ==
    ASSUME NEW st, NEW p \in 1 .. Len(Platforms) + 1, NEW b \in 1 .. Len(Batches) + 1,
           NEW a \in 0 .. MaxRetries
    PROVE  DiscoveryFrom(st, p, b, a) \in Int
<1>1. DiscoveryAt(p, b, a)
    BY WhereItIs
<1> QED
    BY <1>1, ByCases, CasesCount

LEMMA JobStepNearer ==
    ASSUME CollectInv, CollectInv', CollectJobNext, ~UNCHANGED <<cvars, jvars>>
    PROVE  WorkFrom(work', DiscoveryFrom(step', plat', batch', attempt')) + JobFrom(job')
           < WorkFrom(work, DiscoveryFrom(step, plat, batch, attempt)) + JobFrom(job)
<1> DEFINE d == DiscoveryFrom(step, plat, batch, attempt)
           e == DiscoveryFrom(step', plat', batch', attempt')
<1> SUFFICES WorkFrom(work', e) + JobFrom(job') < WorkFrom(work, d) + JobFrom(job)
    OBVIOUS
<1>0. DiscoveryInv /\ d \in Nat /\ e \in Int /\ JobFrom(job) \in Nat /\ JobFrom(job') \in Nat
    BY DiscoveryLeft, DiscoveryCounts
       DEF CollectInv, DiscoveryInv, DiscoveryTypes, CollectionTypeOK, JobFrom
<1>w. /\ work = "begin" => WorkFrom(work, d) = d + 6
      /\ work = "discover" => WorkFrom(work, d) = d + 5
      /\ work = "classify" => WorkFrom(work, d) = 4
      /\ work = "enqueue" => WorkFrom(work, d) = 3
      /\ work = "report" => WorkFrom(work, d) = 2
      /\ work = "rescue" => WorkFrom(work, d) = 1
      /\ work = "over" => WorkFrom(work, d) = 0
    BY DEF WorkFrom
<1>v. /\ work' = "discover" => WorkFrom(work', e) = e + 5
      /\ work' = "classify" => WorkFrom(work', e) = 4
      /\ work' = "enqueue" => WorkFrom(work', e) = 3
      /\ work' = "report" => WorkFrom(work', e) = 2
      /\ work' = "rescue" => WorkFrom(work', e) = 1
    BY DEF WorkFrom
<1>1. ASSUME NEW to \in {"cancelled", "done", "failed"}, NEW summary, SetJob(to, summary),
             work # "over", work \in {"begin", "discover", "report", "rescue"}, d = 0 \/ work # "discover"
      PROVE  WorkFrom(work', e) + JobFrom(job') < WorkFrom(work, d) + JobFrom(job)
    <2> HIDE DEF d, e
    <2>1. /\ JobFrom(job') <= JobFrom(job)
          /\ WorkFrom(work', e) = IF work' = "rescue" THEN 1 ELSE 0
          /\ work = "rescue" => work' = "over"
        BY <1>1, SetJobNearer
    <2>2. WorkFrom(work, d) \in Nat /\ WorkFrom(work, d) >= (IF work = "rescue" THEN 1 ELSE 2)
        BY <1>0, <1>1 DEF WorkFrom
    <2> QED
        BY <1>0, <2>1, <2>2
<1>2. CASE JobBegins
    <2>1. CASE cancel
        <3>1. work = "begin" /\ SetJob("cancelled", report)
            BY <1>2, <2>1 DEF JobBegins
        <3> QED
            BY <1>1, <3>1
    <2>2. CASE ~cancel
        <3>1. PICK skip \in BOOLEAN : /\ DiscoveryStarts(skip) /\ work = "begin"
                                      /\ work' = "discover" /\ job' = job
            BY <1>2, <2>2 DEF JobBegins
        <3>2. e < d
            BY <1>0, <3>1, StartNearer
        <3> HIDE DEF d, e
        <3> QED
            BY <1>0, <1>w, <1>v, <3>1, <3>2
    <2> QED
        BY <2>1, <2>2
<1>3. CASE Discovers
    <2>1. work = "discover" /\ work' = work /\ job' = job /\ DiscoveryStep
        BY <1>3 DEF Discovers, jvars
    <2>2. e < d
        BY <1>0, <2>1, DiscoveryNearer
    <2> HIDE DEF d, e
    <2> QED
        BY <1>0, <1>w, <1>v, <2>1, <2>2
<1>4. CASE DiscoveryOver
    <2>1. work = "discover" /\ d = 0
        BY <1>4 DEF DiscoveryOver, DiscoveryFrom, Over
    <2>2. \/ SetJob("cancelled", report)
          \/ work' \in {"rescue", "report", "classify"} /\ job' = job
        BY <1>4 DEF DiscoveryOver
    <2>3. CASE SetJob("cancelled", report)
        BY <1>1, <2>1, <2>3
    <2> HIDE DEF d, e
    <2>4. CASE work' \in {"rescue", "report", "classify"} /\ job' = job
        BY <1>0, <1>w, <1>v, <2>1, <2>4
    <2> QED
        BY <2>2, <2>3, <2>4
<1>5. CASE Classify \/ \E ok \in BOOLEAN : Enqueue(ok)
    <2>1. /\ job' = job
          /\ \/ work = "classify" /\ work' = "enqueue"
             \/ work = "enqueue" /\ work' = "report"
        BY <1>5 DEF Classify, Enqueue
    <2> HIDE DEF d, e
    <2> QED
        BY <1>0, <2>1 DEF WorkFrom
<1>6. CASE JobDone
    <2>1. work = "report" /\ SetJob("done", report)
        BY <1>6 DEF JobDone
    <2> QED
        BY <1>1, <2>1
<1>7. CASE JobFails
    <2>1. work = "rescue" /\ SetJob("failed", NoReport)
        BY <1>7 DEF JobFails
    <2> QED
        BY <1>1, <2>1
<1>8. CASE CancelRequest \/ GraceEnds
    <2>1. /\ work' = work /\ UNCHANGED <<step, plat, batch, attempt>>
          /\ \/ job = "running" /\ job' = "cancelling"
             \/ job = "cancelling" /\ job' = "cancelled"
        BY <1>8 DEF CancelRequest, GraceEnds, cvars
    <2>2. e = d
        BY <2>1
    <2>3. WorkFrom(work, d) \in Nat
        <3> HIDE DEF d
        <3> QED
            BY <1>0 DEF WorkFrom
    <2> HIDE DEF d, e
    <2>4. WorkFrom(work', e) = WorkFrom(work, d)
        BY <2>1, <2>2
    <2>5. JobFrom(job') < JobFrom(job)
        BY <2>1 DEF JobFrom
    <2> QED
        BY <1>0, <2>3, <2>4, <2>5
<1> QED
    BY <1>2, <1>3, <1>4, <1>5, <1>6, <1>7, <1>8 DEF CollectJobNext, JobWorks, JobOver

\* Every step of a collection brings its end nearer, and the steps it has left
\* are a number that is never negative: it cannot go round in its retries, nor
\* between a failure, the except clause and the report.
StepsLeftIsNat == StepsLeft \in Nat
THEOREM CollectionFinishes == CollectJobSpec => CollectionRunsOut /\ []StepsLeftIsNat
<1>1. CollectInv => StepsLeftIsNat
    <2> SUFFICES ASSUME CollectInv PROVE StepsLeftIsNat
        OBVIOUS
    <2> DEFINE d == DiscoveryFrom(step, plat, batch, attempt)
    <2>1. d \in Nat
        BY DiscoveryLeft DEF CollectInv
    <2>2. StepsLeft = WorkFrom(work, d) + JobFrom(job)
        BY StepsByPlace
    <2> HIDE DEF d
    <2> QED
        BY <2>1, <2>2 DEF StepsLeftIsNat, WorkFrom, JobFrom
<1>2. CollectInv /\ CollectInv' /\ [CollectJobNext]_<<cvars, jvars>> =>
          [StepsLeft' < StepsLeft]_<<cvars, jvars>>
    BY JobStepNearer, StepsByPlace
<1> QED
    BY <1>1, <1>2, CollectInvHolds, PTL DEF CollectJobSpec, CollectionRunsOut
=============================================================================
