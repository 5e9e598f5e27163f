------------------------------ MODULE LeadPool ------------------------------
(***************************************************************************)
(* The leads of one industry name as the API sees them: two owners may use *)
(* the same name, an industry can be deleted under the workers that send   *)
(* for it and be collected again, and the figures of the funnel, of the    *)
(* effects page and of the export are counted from the same rows by        *)
(* different queries.  The claims are those of MatrixScheduler, reduced to *)
(* who holds which lead; the limit of the day is in force.  A report is    *)
(* written in two transactions, either of which may fail or be cut off by  *)
(* a crash or by midnight.  A completion that races a release and a        *)
(* release that works on a stale count are those of MatrixScheduler and    *)
(* not modelled again.                                                     *)
(***************************************************************************)
EXTENDS Naturals, FiniteSets, Functions

CONSTANTS PoolLeads, Owners,
          Users,                 \* the owners who are at work
          Senders, Nobody, NoLeadHeld,
          OwnerOf, SourceOf,     \* owner of leads and senders; raw source key of leads
          SendLimit,             \* global_daily_limit
          DailyCapacity, InventoryDays, ThresholdDays,
          ExportLimit

ASSUME LeadPoolAssumption ==
    /\ IsFiniteSet(PoolLeads) /\ IsFiniteSet(Senders) /\ Users \subseteq Owners
    /\ Nobody \notin Senders /\ NoLeadHeld \notin PoolLeads
    /\ OwnerOf \in [PoolLeads \cup Senders -> Owners]
    /\ SourceOf \in [PoolLeads -> {"none", "creator", "keyword", "target"}]
    /\ {SendLimit, DailyCapacity, InventoryDays, ThresholdDays, ExportLimit} \subseteq Nat \ {0}

VARIABLES
    lead,        \* status of each lead, absent without a row
    consumer,    \* consumer_id and claim token: who claimed it last
    aged,        \* leads fetched before the window of the statistics
    held,        \* the lead each sender has on the phone
    settling,    \* of each sender: the report written to the row, not to the quota yet
    earlier,     \* claimed_at: the claims of an earlier day
    late,        \* senders settling a claim of an earlier day
    messaged,    \* processed_at: the leads messaged today
    industry,    \* of each owner
    collecting,  \* owners with a collection running
    quota,       \* row of the day of each owner
    orphans,     \* history: claims of today deleted with their industry
    leaked,      \* history: owners with a reservation left over today
    crossed,     \* history: owners with a claim of an earlier day settled on today's row
    export       \* the export request in progress

reports == <<settling, earlier, late, messaged>>
history == <<orphans, leaked, crossed>>
poolVars == <<lead, consumer, aged, held, industry, collecting, quota, export, reports, history>>

Statuses == {"absent", "pending", "claimed", "done", "failed", "replied", "converted"}
InPool(o) == {l \in PoolLeads : OwnerOf[l] = o /\ lead[l] # "absent"}
Recent(o) == InPool(o) \ aged
SlugOfRecent == UNION {Recent(o) : o \in Owners}
Slug == UNION {InPool(o) : o \in Owners}
AnyStatus == "any"
NoExport(o) == [stage |-> "none", owner |-> o, status |-> AnyStatus, whole |-> TRUE, entered |-> FALSE]

LeadPoolInit ==
    /\ lead \in [PoolLeads -> {"absent", "pending"}]
    /\ aged \in SUBSET {l \in PoolLeads : lead[l] = "pending"}
    /\ consumer = [l \in PoolLeads |-> Nobody]
    /\ held = [s \in Senders |-> NoLeadHeld]
    /\ settling = [s \in Senders |-> "no"]
    /\ earlier = {} /\ late = {} /\ messaged = {}
    /\ industry = [o \in Owners |-> IF \E l \in PoolLeads : OwnerOf[l] = o /\ lead[l] = "pending"
                                    THEN "active" ELSE "none"]
    /\ collecting = {}
    /\ quota = [o \in Owners |-> [sent |-> 0, reserved |-> 0]]
    /\ orphans = [o \in Owners |-> 0]
    /\ leaked = {} /\ crossed = {}
    /\ \E o \in Users : export = NoExport(o)
------------------------------------------------------------------------------
(* What the queries count. *)
With(L, S) == Cardinality({l \in L : lead[l] \in S})

QueueStats(L) == [total |-> Cardinality(L), pending |-> With(L, {"pending"}),
                  claimed |-> With(L, {"claimed"}), done |-> With(L, {"done"}),
                  failed |-> With(L, {"failed"})]

InventoryStats(L) ==
    LET available == With(L, {"pending", "claimed"})
    IN [available |-> available, deficit |-> DailyCapacity * InventoryDays > available]

ReplenishmentPlan(L) ==
    LET low == InventoryStats(L).available < DailyCapacity * ThresholdDays
    IN [should_replenish |-> low \/ InventoryStats(L).deficit, skip_discover |-> ~low]

\* source_type_funnel_stats.
TypeOf(l) == CASE SourceOf[l] = "target" -> "target"
               [] SourceOf[l] = "none" -> "unknown"
               [] OTHER -> "keyword"
SourceTypesQueued(o) ==
    [type \in {"target", "keyword", "unknown"} |->
        LET L == {l \in Recent(o) : TypeOf(l) = type}
        IN [QueueStats(L) EXCEPT !.total = With(L, {"pending", "claimed", "done", "failed"})]]
SourceTypes(o) == [type \in {"target", "keyword", "unknown"} |->
                      QueueStats({l \in Recent(o) : TypeOf(l) = type})]

\* keyword_funnel_stats and source_performance_stats: one row per raw key, of
\* which the creators and the leads without a source share the key "unknown".
\* Each overwrites the one before, in the order the database returns them.
\* Both then show the largest 20 of them, or as many as the page asks for; here
\* they show all, and there are at most four.
Unlabelled == {"none", "creator"}
RawKeys(o) == {SourceOf[l] : l \in Recent(o)}
KeywordFunnel(o, last) ==
    [key \in (RawKeys(o) \ Unlabelled) \cup (IF RawKeys(o) \cap Unlabelled = {} THEN {} ELSE {"unknown"})
        |-> QueueStats({l \in Recent(o) : SourceOf[l] = IF key = "unknown" THEN last ELSE key})]

\* The stats and the funnel pages of an industry; the plan on the latter counts
\* the leads of every owner of the name.
QuotaState(o) == quota[o]
IndustryStats(o) ==
    LET counted == QueueStats(InPool(o))
    IN [total_tasks |-> counted.total, pending |-> counted.pending, done |-> counted.done,
        failed |-> counted.failed, global_sent_today |-> QuotaState(o).sent,
        global_reserved |-> QuotaState(o).reserved]
IndustryFunnel(o, last) ==
    [inventory |-> InventoryStats(InPool(o)), quota |-> QuotaState(o),
     replenishment |-> ReplenishmentPlan(Slug), source_types |-> SourceTypes(o),
     keywords |-> KeywordFunnel(o, last)]

\* stats/effects; aggregate_by_device over the same rows.
Effects(L) == [sent |-> With(L, {"done", "replied", "converted"}),
               replied |-> With(L, {"replied", "converted"}), converted |-> With(L, {"converted"})]
EffectsOfDevice(o, s) == Effects({l \in Recent(o) : consumer[l] = s})
------------------------------------------------------------------------------
(* The export: count, refuse beyond the limit, then stream. *)
Matching(o, status) == {l \in InPool(o) : status = AnyStatus \/ lead[l] = status}
CountAcceptsOneMore(n) == n <= ExportLimit + 1
CountAccepts(n) == n <= ExportLimit

ExportCounts(o, status) ==
    /\ export.stage = "none"
    /\ CountAccepts(Cardinality(Matching(o, status)))
    /\ export' = [NoExport(o) EXCEPT !.stage = "counted", !.status = status]
    /\ UNCHANGED <<lead, consumer, aged, held, industry, collecting, quota, reports, history>>
\* The newest ExportLimit rows, whatever was counted before.
ExportStreams ==
    /\ export.stage = "counted"
    /\ export' = [export EXCEPT !.stage = "streamed",
                      !.whole = Cardinality(Matching(export.owner, export.status)) <= ExportLimit]
    /\ UNCHANGED <<lead, consumer, aged, held, industry, collecting, quota, reports, history>>
ExportEnds ==
    /\ export.stage = "streamed"
    /\ export' = NoExport(export.owner)
    /\ UNCHANGED <<lead, consumer, aged, held, industry, collecting, quota, reports, history>>

\* Every write of a lead may bring it into the filter of the export.
Enters(l, status) ==
    /\ export.stage = "counted" /\ export.owner = OwnerOf[l]
    /\ IF export.status = AnyStatus THEN lead[l] = "absent"
       ELSE export.status = status /\ lead[l] # status
Become(rows, status) ==
    /\ lead' = [l \in PoolLeads |-> IF l \in rows THEN status ELSE lead[l]]
    /\ export' = IF \E l \in rows : Enters(l, status) THEN [export EXCEPT !.entered = TRUE]
                 ELSE export
------------------------------------------------------------------------------
(* Industries and collections. *)
CreateIndustry(o) ==
    /\ industry[o] = "none"        \* a deleted slug is not free either
    /\ industry' = [industry EXCEPT ![o] = "active"]
    /\ UNCHANGED <<lead, consumer, aged, held, collecting, quota, export, reports, history>>

\* The rows of the leads go first; when that fails the industry still goes.
\* Quota rows, jobs and workers stay.
DeleteIndustry(o, cleaned) ==
    /\ industry[o] = "active"
    /\ industry' = [industry EXCEPT ![o] = "deleted"]
    /\ IF cleaned
       THEN /\ lead' = [l \in PoolLeads |-> IF OwnerOf[l] = o THEN "absent" ELSE lead[l]]
            /\ consumer' = [l \in PoolLeads |-> IF OwnerOf[l] = o THEN Nobody ELSE consumer[l]]
            /\ aged' = aged \ InPool(o)
            /\ earlier' = earlier \ InPool(o)
            /\ messaged' = messaged \ InPool(o)
            /\ orphans' = [orphans EXCEPT ![o] = @ + With(InPool(o) \ earlier, {"claimed"})]
       ELSE UNCHANGED <<lead, consumer, aged, earlier, messaged, orphans>>
    /\ UNCHANGED <<held, settling, late, collecting, quota, export, leaked, crossed>>

\* _get_owned_industry finds deleted industries too.
TriggerCollect(o) ==
    /\ industry[o] # "none"
    /\ collecting' = collecting \cup {o}
    /\ UNCHANGED <<lead, consumer, aged, held, industry, quota, export, reports, history>>
\* The plan is made of the leads of every owner of the name.
Replenish(o, force) ==
    /\ industry[o] # "none"
    /\ force \/ ReplenishmentPlan(Slug).should_replenish
    /\ collecting' = collecting \cup {o}
    /\ UNCHANGED <<lead, consumer, aged, held, industry, quota, export, reports, history>>
Collected(l) ==
    /\ OwnerOf[l] \in collecting /\ lead[l] = "absent"
    /\ Become({l}, "pending")
    /\ UNCHANGED <<consumer, aged, held, industry, collecting, quota, reports, history>>
CollectEnds(o) ==
    /\ o \in collecting
    /\ collecting' = collecting \ {o}
    /\ UNCHANGED <<lead, consumer, aged, held, industry, quota, export, reports, history>>
------------------------------------------------------------------------------
(* Senders. *)
QuotaLeftAtLimit(o) == quota[o].sent + quota[o].reserved <= SendLimit
QuotaLeft(o) == quota[o].sent + quota[o].reserved < SendLimit

Free(s) == held[s] = NoLeadHeld /\ settling[s] = "no"
ClaimForDevice(s, l) ==
    LET o == OwnerOf[l] IN
    /\ Free(s) /\ lead[l] = "pending" /\ o = OwnerOf[s]
    /\ QuotaLeft(o)
    /\ quota' = [quota EXCEPT ![o].reserved = @ + 1]
    /\ Become({l}, "claimed")
    /\ consumer' = [consumer EXCEPT ![l] = s]
    /\ held' = [held EXCEPT ![s] = l]
    /\ UNCHANGED <<aged, industry, collecting, reports, history>>

\* The row found by mark_task_done and mark_task_failed.
RowFoundAnyway(s) == held[s] # NoLeadHeld
RowFound(s) == held[s] # NoLeadHeld /\ lead[held[s]] = "claimed" /\ consumer[held[s]] = s

\* The first transaction of a report.  On a row that was deleted, taken back or
\* collected anew it changes nothing.
Completes(s, status) ==
    /\ held[s] # NoLeadHeld
    /\ held' = [held EXCEPT ![s] = NoLeadHeld]
    /\ IF RowFound(s)
       THEN /\ Become({held[s]}, status)
            /\ settling' = [settling EXCEPT ![s] = status]
            /\ earlier' = earlier \ {held[s]}
            /\ late' = IF held[s] \in earlier THEN late \cup {s} ELSE late
            /\ messaged' = IF status = "done" THEN messaged \cup {held[s]} ELSE messaged
       ELSE UNCHANGED <<lead, export, reports>>
    /\ UNCHANGED <<consumer, aged, industry, collecting, quota, history>>
\* It fails, or the process stops before it: the row stays claimed.
ClaimLost(s) ==
    /\ held[s] # NoLeadHeld
    /\ held' = [held EXCEPT ![s] = NoLeadHeld]
    /\ UNCHANGED <<lead, consumer, aged, industry, collecting, quota, export, reports, history>>

\* commit and release, on the row of the day on which they run.
Settles(s) ==
    LET o == OwnerOf[s] IN
    /\ settling[s] # "no"
    /\ settling' = [settling EXCEPT ![s] = "no"]
    /\ late' = late \ {s}
    /\ quota' = [quota EXCEPT ![o] =
                    IF @.reserved = 0 THEN @
                    ELSE [sent |-> IF settling[s] = "done" THEN @.sent + 1 ELSE @.sent,
                          reserved |-> @.reserved - 1]]
    /\ crossed' = IF s \in late THEN crossed \cup {o} ELSE crossed
    /\ UNCHANGED <<lead, consumer, aged, held, industry, collecting, export,
                   earlier, messaged, orphans, leaked>>
\* They swallow a failure; or the process stops before them.
SettlementLost(s) ==
    /\ settling[s] # "no"
    /\ settling' = [settling EXCEPT ![s] = "no"]
    /\ late' = late \ {s}
    /\ leaked' = leaked \cup {OwnerOf[s]}
    /\ UNCHANGED <<lead, consumer, aged, held, industry, collecting, quota, export,
                   earlier, messaged, orphans, crossed>>

\* Cancellations and sweeps release the claims of a job.  The snapshot of
\* reconcile_stale_cancellations has no user_id, so no quota row is found.
TakeBack(o, rows, owned) ==
    /\ \A l \in rows : OwnerOf[l] = o /\ lead[l] = "claimed"
    /\ Become(rows, "pending")
    /\ consumer' = [l \in PoolLeads |-> IF l \in rows THEN Nobody ELSE consumer[l]]
    /\ earlier' = earlier \ rows
    /\ IF owned
       THEN /\ quota' = [quota EXCEPT ![o].reserved =
                            IF @ < Cardinality(rows) THEN 0 ELSE @ - Cardinality(rows)]
            /\ crossed' = IF rows \cap earlier = {} THEN crossed ELSE crossed \cup {o}
            /\ UNCHANGED leaked
       ELSE /\ leaked' = IF rows \subseteq earlier THEN leaked ELSE leaked \cup {o}
            /\ UNCHANGED <<quota, crossed>>
    /\ UNCHANGED <<aged, held, industry, collecting, settling, late, messaged, orphans>>

\* Every query of a quota asks for the row of its day.
NewDay ==
    /\ quota' = [o \in Owners |-> [sent |-> 0, reserved |-> 0]]
    /\ earlier' = {l \in PoolLeads : lead[l] = "claimed"}
    /\ late' = {s \in Senders : settling[s] # "no"}
    /\ messaged' = {} /\ orphans' = [o \in Owners |-> 0] /\ leaked' = {} /\ crossed' = {}
    /\ UNCHANGED <<lead, consumer, aged, held, industry, collecting, settling, export>>
------------------------------------------------------------------------------
(* Retries and marks. *)

\* The three retry endpoints, over one lead or all that failed.
RetryFailedLead(l) ==
    /\ lead[l] = "failed"
    /\ Become({l}, "pending")
    /\ consumer' = [consumer EXCEPT ![l] = Nobody]
    /\ UNCHANGED <<aged, held, industry, collecting, quota, reports, history>>
\* The marks of LeadMarks.
MarkLead(l, status) ==
    /\ \/ status = "replied" /\ lead[l] \in {"done", "replied", "converted"}
       \/ status = "converted" /\ lead[l] \in {"done", "replied"}
       \/ status = "done" /\ lead[l] = "converted"
    /\ Become({l}, status)
    /\ UNCHANGED <<consumer, aged, held, industry, collecting, quota, reports, history>>

LeadPoolNext ==
    \/ \E o \in Users :
        \/ CreateIndustry(o) \/ TriggerCollect(o) \/ CollectEnds(o)
        \/ \E yes \in BOOLEAN : DeleteIndustry(o, yes) \/ Replenish(o, yes)
        \/ \E status \in {AnyStatus, "pending", "done"} : ExportCounts(o, status)
        \/ \E rows \in (SUBSET PoolLeads) \ {{}}, owned \in BOOLEAN : TakeBack(o, rows, owned)
    \/ \E l \in PoolLeads :
        \/ Collected(l) \/ RetryFailedLead(l)
        \/ \E s \in Senders : ClaimForDevice(s, l)
        \/ \E status \in {"replied", "converted", "done"} : MarkLead(l, status)
    \/ \E s \in Senders :
        \/ Settles(s) \/ SettlementLost(s) \/ ClaimLost(s)
        \/ \E status \in {"done", "failed"} : Completes(s, status)
    \/ ExportStreams \/ ExportEnds \/ NewDay

LeadPoolSpec == LeadPoolInit /\ [][LeadPoolNext]_poolVars
------------------------------------------------------------------------------
LeadPoolTypeOK ==
    /\ lead \in [PoolLeads -> Statuses]
    /\ consumer \in [PoolLeads -> Senders \cup {Nobody}]
    /\ aged \subseteq {l \in PoolLeads : lead[l] # "absent"}
    /\ held \in [Senders -> PoolLeads \cup {NoLeadHeld}]
    /\ settling \in [Senders -> {"no", "done", "failed"}]
    /\ \A s \in Senders : held[s] # NoLeadHeld => settling[s] = "no" /\ OwnerOf[held[s]] = OwnerOf[s]
    /\ earlier \subseteq {l \in PoolLeads : lead[l] = "claimed"}
    /\ late \subseteq {s \in Senders : settling[s] # "no"}
    /\ messaged \subseteq {l \in PoolLeads : lead[l] \in {"done", "replied", "converted"}}
    /\ industry \in [Owners -> {"none", "active", "deleted"}]
    /\ collecting \subseteq {o \in Owners : industry[o] # "none"}
    /\ quota \in [Owners -> [sent : 0..SendLimit, reserved : 0..SendLimit]]
    /\ \A o \in Owners : quota[o].sent + quota[o].reserved <= SendLimit
    /\ orphans \in [Owners -> Nat] /\ leaked \subseteq Owners /\ crossed \subseteq Owners
    /\ export \in [stage : {"none", "counted", "streamed"}, owner : Owners,
                   status : Statuses \cup {AnyStatus}, whole : BOOLEAN, entered : BOOLEAN]

\* The reservations of a day that the stats page shows are those of its claims
\* that stand, of its reports that are not settled yet and of its claims whose
\* rows a deletion took away.  There are fewer only if a claim of an earlier day
\* was settled or released on the row of this one, and more only if a settlement
\* was lost or a sweep did not know the owner of the claims it took back; nothing
\* else makes the sends it shows miss a lead messaged today that is still there
\* (industries.py delete_industry, scheduler.py mark_task_done and commit,
\* workers.py release_quota_reservations).
Settling(o, how) == {s \in Senders : OwnerOf[s] = o /\ settling[s] \in how}
ReservedAccountedFor ==
    \A o \in Owners :
        LET shown == IndustryStats(o)
            accounted == QueueStats(InPool(o) \ earlier).claimed
                         + Cardinality(Settling(o, {"done", "failed"}) \ late) + orphans[o]
        IN /\ shown.global_reserved < accounted => o \in crossed
           /\ shown.global_reserved > accounted => o \in leaked
           /\ shown.global_sent_today + Cardinality(Settling(o, {"done"}))
                  < Effects(InPool(o) \cap messaged).sent => o \in crossed \cup leaked

\* What the figures of a table add up to.
SumOf(figures) == FoldFunction(+, 0, figures)

\* The parts of the funnel are counted by queries of their own and still add up
\* to the recent leads: the source types always, the keywords, where the page
\* has room for all, unless creators and leads without a source overwrite each
\* other, the devices for all that was sent, whatever was retried, deleted and
\* collected again.
FunnelAddsUp ==
    \A o \in Owners : InPool(o) # {} => \A last \in Unlabelled :
        LET n == IndustryStats(o).total_tasks - Cardinality(aged \cap InPool(o))
            page == IndustryFunnel(o, last)
        IN /\ SumOf([t \in DOMAIN page.source_types |-> page.source_types[t].total]) = n
           /\ RawKeys(o) \cap Unlabelled \subseteq {last} =>
                 SumOf([k \in DOMAIN page.keywords |-> page.keywords[k].total]) = n
           /\ \A what \in {"sent", "replied", "converted"} :
                 SumOf([s \in Senders |-> EffectsOfDevice(o, s)[what]])
                 = Effects(Recent(o))[what]

\* What the funnel page advises may be wrong in one way only: it asks for no
\* collection the owner's leads do not call for, and withholds one they call for
\* only while another owner of the name has leads waiting (industries.py:1114).
PlanErrsByOthersLeads ==
    \A o \in Owners :
        LET page == IndustryFunnel(o, "none").replenishment
            own == ReplenishmentPlan(InPool(o))
        IN /\ page.should_replenish => own.should_replenish
           /\ own.should_replenish /\ ~page.should_replenish =>
                 \E l \in PoolLeads : OwnerOf[l] # o /\ lead[l] \in {"pending", "claimed"}

\* An export that was not refused misses a lead only if one entered its filter
\* between the count and the stream (leads.py export_leads).
ExportComplete == export.stage = "streamed" /\ ~export.whole => export.entered
=============================================================================
