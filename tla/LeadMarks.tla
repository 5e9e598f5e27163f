------------------------------ MODULE LeadMarks ------------------------------
(***************************************************************************)
(* The marks a user sets on leads that were messaged (server/api/leads.py):*)
(* replied, converted, and the withdrawal of the latter.  A request loads  *)
(* the lead, checks its status and commits later; SQLAlchemy then writes   *)
(* the columns whose value differs from the loaded one, whatever the row   *)
(* holds by now.  Requests of several browser tabs overlap.  The webhook   *)
(* each endpoint calls after its commit changes nothing here.              *)
(***************************************************************************)
EXTENDS Naturals

CONSTANTS MarkedLeads,   \* leads of one user
          Requests,      \* requests in flight at a time
          NoLead

ASSUME LeadMarksAssumption == NoLead \notin MarkedLeads

VARIABLES mark,      \* status, replied_at and converted_at of each lead
          marking,   \* what each request does, with the row it has loaded
          overlapped \* history: leads that two requests handled at a time

mvars == <<mark, marking, overlapped>>

Marks == {"mark-replied", "mark-converted", "unmark-converted"}
Rows == [status : {"claimed", "done", "replied", "converted"},
         replied : BOOLEAN, converted : BOOLEAN]
Unsent == [status |-> "claimed", replied |-> FALSE, converted |-> FALSE]
Idle == [op |-> "idle", lead |-> NoLead, row |-> Unsent]

LeadMarksInit ==
    /\ mark = [l \in MarkedLeads |-> Unsent]
    /\ marking = [r \in Requests |-> Idle]
    /\ overlapped = {}

\* A worker records the message as sent.
MessageSent(l) ==
    /\ mark[l].status = "claimed"
    /\ mark' = [mark EXCEPT ![l].status = "done"]
    /\ UNCHANGED <<marking, overlapped>>

\* The statuses each endpoint accepts.
AcceptedFrom(op) == CASE op = "mark-replied" -> {"done", "replied", "converted"}
                      [] op = "mark-converted" -> {"done", "replied"}
                      [] op = "unmark-converted" -> {"converted"}

LoadLead(r, op, l) ==
    /\ marking[r] = Idle
    /\ mark[l].status \in AcceptedFrom(op)
    /\ marking' = [marking EXCEPT ![r] = [op |-> op, lead |-> l, row |-> mark[l]]]
    /\ overlapped' = IF \E other \in Requests \ {r} : marking[other].lead = l
                     THEN overlapped \cup {l} ELSE overlapped
    /\ UNCHANGED mark

UnmarkedIsDone(row) == "done"
Unmarked(row) == IF row.replied THEN "replied" ELSE "done"

\* The row as the endpoint leaves it in its session.
AfterMark(op, row) ==
    CASE op = "mark-replied" -> [row EXCEPT !.status = "replied", !.replied = TRUE]
      [] op = "mark-converted" -> [row EXCEPT !.status = "converted", !.converted = TRUE]
      [] op = "unmark-converted" -> [row EXCEPT !.status = Unmarked(row), !.converted = FALSE]

\* The flush writes the columns that changed: the time a request stamps always
\* does, the status only if it is not the loaded one.
Stamps(op) == CASE op = "mark-replied" -> {"replied"}
                [] op = "mark-converted" -> {"converted"}
                [] op = "unmark-converted" -> {}
WriteStatusOnly(op, row, loaded, new) == [row EXCEPT !.status = new.status]
WriteChanged(op, row, loaded, new) ==
    [field \in DOMAIN row |-> IF field \in Stamps(op) \/ new[field] # loaded[field]
                              THEN new[field] ELSE row[field]]

CommitMark(r) ==
    LET q == marking[r] IN
    /\ q # Idle
    /\ mark' = [mark EXCEPT ![q.lead] = WriteChanged(q.op, @, q.row, AfterMark(q.op, q.row))]
    /\ marking' = [marking EXCEPT ![r] = Idle]
    /\ UNCHANGED overlapped

LeadMarksNext ==
    \/ \E l \in MarkedLeads : MessageSent(l)
    \/ \E r \in Requests, op \in Marks, l \in MarkedLeads : LoadLead(r, op, l)
    \/ \E r \in Requests : CommitMark(r)

LeadMarksSpec == LeadMarksInit /\ [][LeadMarksNext]_mvars
------------------------------------------------------------------------------
LeadMarksTypeOK ==
    /\ mark \in [MarkedLeads -> Rows]
    /\ marking \in [Requests -> [op : Marks \cup {"idle"}, lead : MarkedLeads \cup {NoLead},
                                 row : Rows]]
    /\ overlapped \subseteq MarkedLeads

\* The marks tell one story, although requests overlap and write only what they
\* changed: a lead shown as converted has the time of its conversion and one
\* shown as replied that of its reply, and a reply is never uncounted.  The
\* statistics count by status, so withdrawing a conversion must bring a lead
\* back to replied if it had answered; only two requests at a time lose that.
MarksTellOneStory ==
    \A l \in MarkedLeads :
        /\ mark[l].status = "converted" => mark[l].converted
        /\ mark[l].status = "replied" => mark[l].replied
        /\ mark[l].status = "claimed" => ~mark[l].replied
        /\ mark[l].replied /\ l \notin overlapped => mark[l].status \in {"replied", "converted"}
=============================================================================
