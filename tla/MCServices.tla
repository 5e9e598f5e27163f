----------------------------- MODULE MCServices -----------------------------
(***************************************************************************)
(* Six services that share no state are checked in one run: focus says    *)
(* which of them moves, the others stay in one initial state.              *)
(***************************************************************************)
EXTENDS Dispatch, LeadPool, LeadMarks, ReplyVariants, PlanAgent, RateLimiter, TLC

CONSTANTS Focuses, lead1, lead2, lead3, ann, bob, send1, send2, job1, job2, phone1, phone2

VARIABLE focus

vars == <<focus, dvars, poolVars, mvars, vvars, pvars, lvars>>

\* Two owners with the same industry name; ann's leads are one found through a
\* creator and one without a source.
MCOwnerOf == lead1 :> ann @@ lead2 :> ann @@ lead3 :> bob @@ send1 :> ann @@ send2 :> ann
MCSourceOf == lead1 :> "creator" @@ lead2 :> "none" @@ lead3 :> "target"
MCSendJobs == {job1, job2}
MCLimitOf == [r \in {"auth", "general"} |-> IF r = "auth" THEN 1 ELSE 2]

MCInit ==
    /\ focus \in Focuses
    /\ DispatchInit /\ LeadPoolInit /\ LeadMarksInit /\ VariantsInit /\ PlanInit /\ LimiterInit
    /\ row[phone1] = "idle" /\ (focus # "dispatch" => row[phone2] = "idle")
    /\ lead[lead1] = "absent" /\ lead3 \notin aged /\ (focus # "pool" => \A l \in PoolLeads : lead[l] = "absent")
    /\ focus # "variants" => variants = <<>>
    /\ focus # "limiter" => backend = "memory"

\* Bounds: with two phones online there is one job, and Celery takes the session
\* of the first phone only.  With one phone online there are two jobs, named in
\* the order they start and without Celery.  As long as these do not overlap
\* writes fail, of one kind at a time, phones are spent, and requests of the
\* device API make them idle.  Nothing is started or asked for without a job to come.
TwoPhones == row[phone2] # "offline"
Flawless ==
    /\ unshown = {}
    /\ \A c \in claims : c = ClaimOf(c.session)
    /\ \A p \in Phones : row[p] \in {"idle", "running"} \/ (p = phone2 /\ ~TwoPhones)
MCDispatchNext ==
    /\ DispatchNext
    /\ TwoPhones' = TwoPhones
    /\ jobs[job1].status = "new" => jobs'[job2].status = "new"
    /\ IF TwoPhones
       THEN /\ jobs'[job2].status = "new" /\ checked' = checked /\ Flawless'
            /\ \A s \in SessionIds : s.via = "celery" /\ s.phone = phone2 => sessions'[s] = "none"
            /\ sessions' = sessions => row' = row
       ELSE /\ \A j \in SendJobs : pc'[j] # "celery"
            /\ (\E r \in StartRequests : checked'[r]) => jobs'[job2].status = "new"
            /\ overlapping' => Flawless'
            /\ unshown' # {} => \A c \in claims' : c = ClaimOf(c.session)'
            /\ sessions' = sessions /\ row' # row => row'[phone1] = "idle"
            /\ \A s \in SessionIds : s.job = job2 => sessions'[s] # "died" /\ counts'[s].failed = 0

\* Bounds: one lead is marked replied or converted, and the export is of the
\* leads that are done or of all.  A day goes wrong in one of
\* two ways, and is over when it leaves something to the next.  Such a day and
\* the next have no old leads and none of the other owner; they, and the time
\* until a report is settled, have no collection, export or marks.
MCPoolNext ==
    /\ LeadPoolNext
    /\ leaked' = {} \/ crossed' = {}
    /\ lead'[lead2] \notin {"replied", "converted"} /\ export'.status # "pending"
    /\ NewDay => earlier' \cup late' # {}
    /\ leaked' \cup crossed' \cup earlier' \cup late' # {} => aged' = {} /\ lead'[lead3] = "absent"
    /\ \/ leaked' \cup crossed' \cup earlier' \cup late' = {} /\ \A s \in Senders : settling'[s] = "no"
       \/ /\ export'.stage = "none" /\ collecting' = {}
          /\ \A l \in PoolLeads : lead'[l] \notin {"replied", "converted"}

\* Bounds: two clients meet on one kind of route, one of them uses both.
MCLimiterNext ==
    /\ LimiterNext
    /\ \A k \in DOMAIN buckets' : k # <<"general", bob>> /\ k # <<"window", bob>>

MCNext ==
    \/ focus = "dispatch" /\ MCDispatchNext /\ UNCHANGED <<focus, poolVars, mvars, vvars, pvars, lvars>>
    \/ focus = "pool" /\ MCPoolNext /\ UNCHANGED <<focus, dvars, mvars, vvars, pvars, lvars>>
    \/ focus = "marks" /\ LeadMarksNext /\ UNCHANGED <<focus, dvars, poolVars, vvars, pvars, lvars>>
    \/ focus = "variants" /\ VariantsNext /\ UNCHANGED <<focus, dvars, poolVars, mvars, pvars, lvars>>
    \/ focus = "plan" /\ PlanNext /\ UNCHANGED <<focus, dvars, poolVars, mvars, vvars, lvars>>
    \/ focus = "limiter" /\ MCLimiterNext /\ UNCHANGED <<focus, dvars, poolVars, mvars, vvars, pvars>>

\* The thread of a job goes on by itself; phones, brokers and users need not.
MCServicesSpec ==
    /\ MCInit /\ [][MCNext]_vars
    /\ \A j \in SendJobs : WF_dvars(JobStep(j))

\* Every service is type correct.
ServicesTypeOK ==
    /\ DispatchTypeOK /\ LeadPoolTypeOK /\ LeadMarksTypeOK
    /\ VariantsTypeOK /\ PlanTypeOK /\ LimiterTypeOK
=============================================================================
