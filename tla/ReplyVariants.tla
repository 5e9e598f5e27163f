---------------------------- MODULE ReplyVariants ----------------------------
(***************************************************************************)
(* The reply variants of an industry and their A/B results.  The list is   *)
(* one JSON column: every request loads it, builds a new list and writes   *)
(* the whole back (server/api/industries.py).  A send job works from the   *)
(* list as it was when the job was started, and each message records the   *)
(* variant it was written with.                                            *)
(***************************************************************************)
EXTENDS Naturals, Sequences, FiniteSets, SequencesExt

CONSTANTS VariantIds,       \* the random ids, in no order
          VariantRequests,  \* requests, each sent once
          SendRuns, Messages, NoVariant

ASSUME VariantsAssumption == {NoVariant, "default", "unsent"} \cap VariantIds = {}

VARIABLES variants,   \* the column: [id, enabled, weight] in order
          inFlight,   \* request: operation, variant it is about, list it loaded
          snapshot,   \* the list each job was started with
          variantOf,  \* variant recorded for each message sent, or default
          usedIds, removed, overtaken   \* history: ids handed out, ids taken off the
                                        \* list, a list written over a newer one

vvars == <<variants, inFlight, snapshot, variantOf, usedIds, removed, overtaken>>

Variant(id) == [id |-> id, enabled |-> TRUE, weight |-> 1]   \* normalize_variant
AllVariants == [id : VariantIds, enabled : BOOLEAN, weight : {0, 1}]
IdsOf(list) == {list[i].id : i \in DOMAIN list}
Request(op, id, list) == [op |-> op, about |-> id, loaded |-> list]
NotSent == Request("not sent", NoVariant, <<>>)
Answered == Request("answered", NoVariant, <<>>)
NotStarted == <<NoVariant>>

VariantsInit ==
    /\ variants \in {<<>>} \cup {<<Variant(id)>> : id \in VariantIds}
    /\ inFlight = [r \in VariantRequests |-> NotSent]
    /\ snapshot = [j \in SendRuns |-> NotStarted]
    /\ variantOf = [m \in Messages |-> "unsent"]
    /\ usedIds = IdsOf(variants) /\ removed = {} /\ overtaken = FALSE

\* Adding draws a fresh id; the others name a variant of some list a user saw.
LoadVariants(r, op, id) ==
    /\ inFlight[r] = NotSent
    /\ IF op = "add" THEN id \notin usedIds ELSE id \in usedIds
    /\ op \in {"toggle", "reweigh"} => id \in IdsOf(variants)     \* else 404
    /\ inFlight' = [inFlight EXCEPT ![r] = Request(op, id, variants)]
    /\ usedIds' = usedIds \cup {id}
    /\ UNCHANGED <<variants, snapshot, variantOf, removed, overtaken>>

\* The other variants, in order; an id stands in a list once.
Without(list, id) ==
    IF id \in IdsOf(list) THEN RemoveAt(list, CHOOSE i \in DOMAIN list : list[i].id = id) ELSE list

\* The list a request makes of the one it loaded; "replace" is the update of
\* the whole industry with the list of the client's form.
NewList(op, id, list) ==
    CASE op = "add" -> Append(list, Variant(id))
      [] op \in {"delete", "replace"} -> Without(list, id)
      [] op = "toggle" -> [i \in DOMAIN list |-> IF list[i].id = id
                               THEN [list[i] EXCEPT !.enabled = ~@] ELSE list[i]]
      [] op = "reweigh" -> [i \in DOMAIN list |-> IF list[i].id = id
                               THEN [list[i] EXCEPT !.weight = 1 - @] ELSE list[i]]

\* A list equal to the loaded one is not written.
CommitVariants(r) ==
    LET q == inFlight[r]   list == NewList(q.op, q.about, q.loaded) IN
    /\ q \notin {NotSent, Answered}
    /\ inFlight' = [inFlight EXCEPT ![r] = Answered]
    /\ variants' = IF list = q.loaded THEN variants ELSE list
    /\ removed' = IF q.op \in {"delete", "replace"} THEN removed \cup {q.about} ELSE removed
    /\ overtaken' = (overtaken \/ q.loaded # variants)
    /\ UNCHANGED <<snapshot, variantOf, usedIds>>
------------------------------------------------------------------------------
StartRun(j) ==
    /\ snapshot[j] = NotStarted
    /\ snapshot' = [snapshot EXCEPT ![j] = variants]
    /\ UNCHANGED <<variants, inFlight, variantOf, usedIds, removed, overtaken>>

\* select_reply_variant: by weight among the enabled; the first of them when no
\* weight is positive, or when the random number is 0.
SelectReplyVariant(list) ==
    LET enabled == {i \in DOMAIN list : list[i].enabled}
        First(i) == \A k \in enabled : i <= k
    IN IF enabled = {} THEN {"default"}
       ELSE {list[i].id : i \in {k \in enabled : First(k) \/ list[k].weight > 0}}
SendMessage(j, m) ==
    /\ snapshot[j] # NotStarted /\ variantOf[m] = "unsent"
    /\ \E id \in SelectReplyVariant(snapshot[j]) : variantOf' = [variantOf EXCEPT ![m] = id]
    /\ UNCHANGED <<variants, inFlight, snapshot, usedIds, removed, overtaken>>

VariantsNext ==
    \/ \E r \in VariantRequests :
        \/ CommitVariants(r)
        \/ \E op \in {"add", "delete", "replace", "toggle", "reweigh"}, id \in VariantIds :
              LoadVariants(r, op, id)
    \/ \E j \in SendRuns : StartRun(j) \/ \E m \in Messages : SendMessage(j, m)

VariantsSpec == VariantsInit /\ [][VariantsNext]_vvars
------------------------------------------------------------------------------
\* get_abtest_results: a row for each variant of the list, one for the rest.
ResultOf(id) == {m \in Messages : variantOf[m] = id}
ResultRowsOfList == [i \in DOMAIN variants |-> ResultOf(variants[i].id)]
ResultRows == Append([i \in DOMAIN variants |-> ResultOf(variants[i].id)], ResultOf("default"))

VariantsTypeOK ==
    /\ variants \in Seq(AllVariants) /\ Len(variants) = Cardinality(IdsOf(variants))
    /\ inFlight \in [VariantRequests ->
          [op : {"not sent", "answered", "add", "delete", "replace", "toggle", "reweigh"},
           about : VariantIds \cup {NoVariant}, loaded : Seq(AllVariants)]]
    /\ \A j \in SendRuns : snapshot[j] = NotStarted \/ snapshot[j] \in Seq(AllVariants)
    /\ variantOf \in [Messages -> VariantIds \cup {"unsent", "default"}]
    /\ IdsOf(variants) \cup removed \subseteq usedIds /\ usedIds \subseteq VariantIds
    /\ overtaken \in BOOLEAN

\* Every message sent stands in exactly one row of the results, although the
\* list changes under the jobs that use an older one.  A message is in no row
\* only if its variant was taken off the list, or if requests that overlapped
\* lost the variant.
MessagesInOneRow ==
    \A m \in Messages : variantOf[m] # "unsent" =>
        \/ Cardinality({i \in DOMAIN ResultRows : m \in ResultRows[i]}) = 1
        \/ variantOf[m] \in removed \/ overtaken
=============================================================================
