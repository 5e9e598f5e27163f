----------------------------- MODULE ClaimLedger -----------------------------
(***************************************************************************)
(* What the send queue promises its callers, without quotas, devices or    *)
(* transactions: a lead is held by at most one claim at a time, and while  *)
(* it is held only the holder of that very claim decides how it ends.  An  *)
(* operator may take claims back (cancelled or orphaned jobs) and may put  *)
(* failed leads back in the queue; a lead that is done stays done.         *)
(***************************************************************************)
CONSTANTS Leads,      \* rows of the send queue
          Claims,     \* identities of claims (claim tokens)
          NoClaim     \* the token of a row nobody holds

VARIABLES lead,       \* lead[l]: "pending", "claimed", "done" or "failed"
          holder,     \* holder[l]: the claim that holds l, or NoClaim
          working     \* claims whose owner still intends to report a result

ledgerVars == <<lead, holder, working>>

LedgerInit ==
    /\ lead = [l \in Leads |-> "pending"]
    /\ holder = [l \in Leads |-> NoClaim]
    /\ working = {}

Take(l, c) ==
    /\ lead[l] = "pending"
    /\ \A k \in Leads : holder[k] # c
    /\ lead' = [lead EXCEPT ![l] = "claimed"]
    /\ holder' = [holder EXCEPT ![l] = c]
    /\ working' = working \cup {c}

\* The holder reports: the lead is finished, or goes back to the queue.
Report(l, c) ==
    /\ c \in working
    /\ lead[l] = "claimed" /\ holder[l] = c
    /\ \E r \in {"done", "failed", "pending"} : lead' = [lead EXCEPT ![l] = r]
    /\ holder' = [holder EXCEPT ![l] = NoClaim]
    /\ working' = working \ {c}

\* A claim's owner crashes, or learns that its claim was taken back.
GiveUp(c) ==
    /\ c \in working
    /\ working' = working \ {c}
    /\ UNCHANGED <<lead, holder>>

\* Some held leads are taken back from their claims.
Revoke(S) ==
    /\ S # {} /\ \A l \in S : lead[l] = "claimed"
    /\ lead' = [l \in Leads |-> IF l \in S THEN "pending" ELSE lead[l]]
    /\ holder' = [l \in Leads |-> IF l \in S THEN NoClaim ELSE holder[l]]
    /\ UNCHANGED working

\* Some failed leads are queued again.
Requeue(S) ==
    /\ S # {} /\ \A l \in S : lead[l] = "failed"
    /\ lead' = [l \in Leads |-> IF l \in S THEN "pending" ELSE lead[l]]
    /\ UNCHANGED <<holder, working>>

LedgerNext ==
    \/ \E l \in Leads, c \in Claims : Take(l, c) \/ Report(l, c)
    \/ \E c \in Claims : GiveUp(c)
    \/ \E S \in SUBSET Leads : Revoke(S) \/ Requeue(S)

LedgerSpec == LedgerInit /\ [][LedgerNext]_ledgerVars
=============================================================================
