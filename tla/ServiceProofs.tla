---------------------------- MODULE ServiceProofs ----------------------------
(***************************************************************************)
(* What is proved of the services around the send queue, each for every    *)
(* number of leads, owners, requests, jobs and phones: the marks of a lead,*)
(* the figures of the lead pool and its export, the report of the agent,   *)
(* the phones, claims and counts of the dispatch, the reply variants, the  *)
(* windows of the rate limiter.                                            *)
(***************************************************************************)
EXTENDS MCServices, Sums, SequenceTheorems

------------------------------------------------------------------------------
(* LeadMarks *)

\* A row that tells one story, as far as the row alone can.
StoryOf(r) ==
    /\ r.status = "converted" => r.converted
    /\ r.status = "replied" => r.replied
    /\ r.status = "claimed" => ~r.replied

\* What a request has loaded is still in the row unless another one handled the
\* lead at the same time; a reply that it saw is not taken back by anybody.
MarkFits(r) ==
    marking[r] = Idle \/
    LET q == marking[r]   now == mark[q.lead] IN
        /\ q.op \in Marks /\ q.lead \in MarkedLeads
        /\ q.row.status \in AcceptedFrom(q.op) /\ StoryOf(q.row)
        /\ now.status # "claimed"
        /\ q.row.replied => now.replied
        /\ q.lead \notin overlapped =>
              /\ now = q.row
              /\ \A other \in Requests \ {r} : marking[other].lead # q.lead

MarksInv == /\ LeadMarksTypeOK
            /\ MarksTellOneStory
            /\ \A r \in Requests : MarkFits(r)

\* A commit leaves a row that tells one story whatever the row holds by now: a
\* reply stays, and is shown if the row is still the loaded one.
LEMMA CommittedRow ==
    ASSUME NEW op \in Marks, NEW loaded \in Rows, NEW now \in Rows,
           loaded.status \in AcceptedFrom(op), StoryOf(loaded), StoryOf(now),
           now.status # "claimed", loaded.replied => now.replied
    PROVE  LET new == WriteChanged(op, now, loaded, AfterMark(op, loaded)) IN
           /\ new \in Rows /\ StoryOf(new)
           /\ new.status # "claimed" /\ (now.replied => new.replied)
           /\ loaded = now /\ (now.replied => now.status \in {"replied", "converted"}) =>
                 (new.replied => new.status \in {"replied", "converted"})
  <1> DEFINE after == AfterMark(op, loaded)
             new == WriteChanged(op, now, loaded, after)
  <1>1. /\ DOMAIN now = {"status", "replied", "converted"}
        /\ now.status \in {"claimed", "done", "replied", "converted"}
        /\ now.replied \in BOOLEAN /\ now.converted \in BOOLEAN
        /\ loaded.status \in {"claimed", "done", "replied", "converted"}
        /\ loaded.replied \in BOOLEAN /\ loaded.converted \in BOOLEAN
    BY DEF Rows
  <1>2. /\ new = [field \in {"status", "replied", "converted"} |->
                     IF field \in Stamps(op) \/ after[field] # loaded[field]
                     THEN after[field] ELSE now[field]]
        /\ new.status = IF after.status # loaded.status THEN after.status ELSE now.status
        /\ new.replied = IF op = "mark-replied" \/ after.replied # loaded.replied
                         THEN after.replied ELSE now.replied
        /\ new.converted = IF op = "mark-converted" \/ after.converted # loaded.converted
                           THEN after.converted ELSE now.converted
    BY <1>1 DEF WriteChanged, Stamps, Marks
  <1>3. /\ after.status = CASE op = "mark-replied" -> "replied"
                            [] op = "mark-converted" -> "converted"
                            [] op = "unmark-converted" -> Unmarked(loaded)
        /\ after.replied = (op = "mark-replied" \/ loaded.replied)
        /\ after.converted = (op = "mark-converted" \/ (op = "mark-replied" /\ loaded.converted))
    BY <1>1 DEF AfterMark, Marks, Rows
  <1>4. new \in Rows
    <2>1. new.status \in {"claimed", "done", "replied", "converted"}
      BY <1>1, <1>2, <1>3 DEF Marks, Unmarked
    <2>2. new.replied \in BOOLEAN /\ new.converted \in BOOLEAN
      BY <1>1, <1>2, <1>3
    <2> HIDE DEF new
    <2> QED BY <1>2, <2>1, <2>2 DEF Rows
  <1>5. CASE op = "mark-replied"
    BY <1>1, <1>2, <1>3, <1>4, <1>5 DEF AcceptedFrom, StoryOf
  <1>6. CASE op = "mark-converted"
    BY <1>1, <1>2, <1>3, <1>4, <1>6 DEF AcceptedFrom, StoryOf
  <1>7. CASE op = "unmark-converted"
    BY <1>1, <1>2, <1>3, <1>4, <1>7 DEF AcceptedFrom, StoryOf, Unmarked
  <1> QED BY <1>5, <1>6, <1>7 DEF Marks

LEMMA MarksStep ==
    ASSUME MarksInv, [LeadMarksNext]_mvars
    PROVE  MarksInv'
  <1> USE DEF MarksInv, LeadMarksTypeOK
  <1>1. ASSUME NEW l \in MarkedLeads, MessageSent(l) PROVE MarksInv'
    <2>1. /\ mark' = [mark EXCEPT ![l] = [mark[l] EXCEPT !.status = "done"]]
          /\ mark[l].status = "claimed" /\ UNCHANGED <<marking, overlapped>>
      BY <1>1 DEF MessageSent
    <2>2. [mark[l] EXCEPT !.status = "done"] \in Rows
      BY DEF Rows
    <2>3. LeadMarksTypeOK'
      BY <2>1, <2>2
    <2>4. MarksTellOneStory'
      BY <2>1 DEF MarksTellOneStory, Rows
    <2>5. ASSUME NEW r \in Requests PROVE MarkFits(r)'
      BY <2>1 DEF MarkFits
    <2> QED BY <2>3, <2>4, <2>5
  <1>2. ASSUME NEW r \in Requests, NEW op \in Marks, NEW l \in MarkedLeads, LoadLead(r, op, l)
        PROVE  MarksInv'
    <2>1. /\ marking[r] = Idle /\ mark[l].status \in AcceptedFrom(op)
          /\ marking' = [marking EXCEPT ![r] = [op |-> op, lead |-> l, row |-> mark[l]]]
          /\ overlapped' = IF \E other \in Requests \ {r} : marking[other].lead = l
                           THEN overlapped \cup {l} ELSE overlapped
          /\ UNCHANGED mark
      BY <1>2 DEF LoadLead
    <2>2. LeadMarksTypeOK'
      BY <2>1
    <2>3. MarksTellOneStory'
      BY <2>1 DEF MarksTellOneStory
    <2>4. StoryOf(mark[l]) /\ mark[l].status # "claimed"
      BY <2>1 DEF MarksTellOneStory, StoryOf, AcceptedFrom, Marks
    <2>5. MarkFits(r)'
      <3>1. marking'[r] = [op |-> op, lead |-> l, row |-> mark[l]]
        BY <2>1
      <3>2. l \notin overlapped' => \A other \in Requests \ {r} : marking'[other].lead # l
        BY <2>1
      <3> QED BY <2>1, <2>4, <3>1, <3>2 DEF MarkFits
    <2>6. ASSUME NEW i \in Requests, i # r PROVE MarkFits(i)'
      <3>1. marking'[i] = marking[i] /\ MarkFits(i) /\ overlapped \subseteq overlapped'
        BY <2>1, <2>6
      <3>2. marking[i].lead = l => l \in overlapped'
        BY <2>1, <2>6
      <3>3. marking[i].lead \notin overlapped' =>
                \A other \in Requests \ {i} : marking[other].lead # marking[i].lead =>
                    marking'[other].lead # marking[i].lead
        BY <2>1, <3>2
      <3> QED BY <2>1, <3>1, <3>2, <3>3 DEF MarkFits
    <2> QED BY <2>2, <2>3, <2>5, <2>6
  <1>3. ASSUME NEW r \in Requests, CommitMark(r) PROVE MarksInv'
    <2> DEFINE q == marking[r]
               now == mark[q.lead]
               new == WriteChanged(q.op, now, q.row, AfterMark(q.op, q.row))
    <2>1. /\ q # Idle /\ mark' = [mark EXCEPT ![q.lead] = new]
          /\ marking' = [marking EXCEPT ![r] = Idle] /\ UNCHANGED overlapped
      BY <1>3 DEF CommitMark
    <2>2. /\ q.op \in Marks /\ q.lead \in MarkedLeads
          /\ q.row.status \in AcceptedFrom(q.op) /\ StoryOf(q.row) /\ now.status # "claimed"
          /\ q.row.replied => now.replied
          /\ q.lead \notin overlapped =>
                 now = q.row /\ \A other \in Requests \ {r} : marking[other].lead # q.lead
          /\ q.row \in Rows /\ now \in Rows
      BY <2>1 DEF MarkFits
    <2>3. /\ StoryOf(now)
          /\ q.lead \notin overlapped => (now.replied => now.status \in {"replied", "converted"})
      BY <2>2 DEF MarksTellOneStory, StoryOf
    <2>4. /\ new \in Rows /\ StoryOf(new) /\ new.status # "claimed"
          /\ now.replied => new.replied
          /\ q.lead \notin overlapped => (new.replied => new.status \in {"replied", "converted"})
      BY <2>2, <2>3, CommittedRow
    <2> HIDE DEF new
    <2>5. LeadMarksTypeOK'
      <3>1. Idle \in [op : Marks \cup {"idle"}, lead : MarkedLeads \cup {NoLead}, row : Rows]
        BY DEF Idle, Unsent, Rows
      <3> QED BY <2>1, <2>4, <3>1
    <2>6. MarksTellOneStory'
      BY <2>1, <2>4 DEF MarksTellOneStory, StoryOf
    <2>7. ASSUME NEW i \in Requests, i # r PROVE MarkFits(i)'
      <3>1. marking'[i] = marking[i] /\ MarkFits(i)
        BY <2>1, <2>7
      <3>2. marking[i].lead \notin overlapped =>
                \A other \in Requests \ {i} : marking[other].lead # marking[i].lead =>
                    marking'[other].lead # marking[i].lead \/ marking[i] = Idle
        BY <2>1, LeadMarksAssumption DEF Idle, MarkFits
      <3>3. CASE marking[i] = Idle
        BY <3>1, <3>3 DEF MarkFits
      <3>4. CASE marking[i] # Idle /\ marking[i].lead = q.lead
        BY <2>1, <2>2, <2>4, <2>7, <3>1, <3>4 DEF MarkFits
      <3>5. CASE marking[i] # Idle /\ marking[i].lead # q.lead
        BY <2>1, <3>1, <3>2, <3>5 DEF MarkFits
      <3> QED BY <3>3, <3>4, <3>5
    <2>8. MarkFits(r)'
      BY <2>1 DEF MarkFits
    <2> QED BY <2>5, <2>6, <2>7, <2>8
  <1>4. ASSUME UNCHANGED mvars PROVE MarksInv'
    BY <1>4 DEF mvars, MarksTellOneStory, MarkFits
  <1> QED BY <1>1, <1>2, <1>3, <1>4 DEF LeadMarksNext

LEMMA MarksInvariant == LeadMarksSpec => []MarksInv
  <1>1. LeadMarksInit => MarksInv
    <2>1. Unsent \in Rows /\ StoryOf(Unsent)
      BY DEF Unsent, Rows, StoryOf
    <2>2. Idle \in [op : Marks \cup {"idle"}, lead : MarkedLeads \cup {NoLead}, row : Rows]
      BY <2>1 DEF Idle
    <2> QED
      BY <2>1, <2>2
      DEF LeadMarksInit, MarksInv, LeadMarksTypeOK, MarksTellOneStory, StoryOf, Unsent, MarkFits
  <1> QED BY <1>1, MarksStep, PTL DEF LeadMarksSpec

\* The rows of the leads and what the requests have loaded keep their types.
THEOREM MarkTypes == LeadMarksSpec => []LeadMarksTypeOK
  BY MarksInvariant, PTL DEF MarksInv

\* The marks of a lead tell one story for any number of overlapping requests:
\* each writes only the columns it changed, and only two that handle a lead at
\* the same time can lose that it had answered.
THEOREM MarksAgree == LeadMarksSpec => []MarksTellOneStory
  BY MarksInvariant, PTL DEF MarksInv
------------------------------------------------------------------------------
(* PlanAgent *)

\* The steps behind the loop have ended and those before it have not begun; an
\* abandoned step is the one just left, and stopping ends the plan at the next.
StepsInOrder ==
    /\ attempt > 0 => at <= PlanSteps
    /\ totalActions <= MaxTotalActions + at - 2
    /\ Len(results) < at
    /\ \A i \in 1..PlanSteps :
          /\ howStepEnded[i] = "not_reached" <=> i >= at
          /\ howStepEnded[i] = "abandoned" => stop /\ i = at - 1 /\ attempt = 0

\* A step that failed has left a failed result, and every failed result and the
\* error on record go back to a step that failed.
SomeStepFailed == \E i \in 1..PlanSteps : howStepEnded[i] = "failed"
ResultsTell ==
    /\ SomeStepFailed => ~AllOk
    /\ ~AllOk => SomeStepFailed
    /\ lastError => SomeStepFailed

PlanInv == PlanTypeOK /\ StepsInOrder /\ ResultsTell /\ PlanReportHonest

StepResults == [step : 1..PlanSteps, ok : BOOLEAN]

LEMMA AppendedResult ==
    ASSUME NEW r \in Seq(StepResults), NEW v \in StepResults
    PROVE  /\ Append(r, v) \in Seq(StepResults)
           /\ Len(r) \in Nat /\ Len(Append(r, v)) = Len(r) + 1
           /\ (\A i \in DOMAIN Append(r, v) : Append(r, v)[i].ok)
                 <=> ((\A i \in DOMAIN r : r[i].ok) /\ v.ok)
  <1>1. /\ Append(r, v) \in Seq(StepResults) /\ Len(r) \in Nat
        /\ DOMAIN r = 1..Len(r) /\ DOMAIN Append(r, v) = 1..(Len(r) + 1)
        /\ \A i \in 1..Len(r) : Append(r, v)[i] = r[i]
        /\ Append(r, v)[Len(r) + 1] = v
    OBVIOUS
  <1>2. \A i \in 1..(Len(r) + 1) : i \in 1..Len(r) \/ i = Len(r) + 1
    BY <1>1
  <1> QED BY <1>1, <1>2

\* Leaving a step the way it ended, with what that leaves in the results.
LEMMA LeftStep ==
    ASSUME PlanInv, report = "none", attempt > 0,
           NEW how \in {"done", "failed", "abandoned", "out_of_attempts"}, NextStep(how),
           how = "abandoned" => stop,
           totalActions' \in {totalActions, totalActions + 1},
           totalActions' # totalActions => how = "failed",
           totalActions' # totalActions => attempt <= MaxAttempts,
           lastError' \in BOOLEAN,
           lastError' => lastError \/ how = "failed",
           \/ how # "failed" /\ results' = results
           \/ \E ok \in BOOLEAN :
                 /\ results' = Append(results, [step |-> at, ok |-> ok])
                 /\ how = "failed" => ~ok
                 /\ ~ok => how = "failed" \/ lastError
    PROVE  PlanInv'
  <1> USE DEF PlanInv
  <1>1. /\ at \in 1..(PlanSteps + 1) /\ PlanSteps \in Nat \ {0} /\ MaxAttempts \in Nat \ {0}
        /\ MaxTotalActions \in Nat \ {0} /\ totalActions \in Nat
        /\ attempt \in Nat /\ lastError \in BOOLEAN
        /\ results \in Seq(StepResults)
        /\ howStepEnded \in [1..PlanSteps -> {"not_reached", "done", "failed", "abandoned",
                                             "out_of_attempts"}]
    <2>1. PlanSteps \in Nat \ {0} /\ MaxAttempts \in Nat \ {0} /\ MaxTotalActions \in Nat \ {0}
      BY PlanAssumption DEF PlanAssumption
    <2> QED BY <2>1 DEF PlanTypeOK, StepResults
  <1>2. at \in 1..PlanSteps
    BY <1>1 DEF StepsInOrder
  <1>3. /\ at' = at + 1 /\ attempt' = 0 /\ UNCHANGED <<report, stop>>
        /\ howStepEnded' = [howStepEnded EXCEPT ![at] = how]
    BY DEF NextStep
  <1> DEFINE Told ==
                 /\ results' \in Seq(StepResults) /\ Len(results') \in Nat
                 /\ Len(results') \in {Len(results), Len(results) + 1} /\ Len(results) \in Nat
                 /\ AllOk' => AllOk /\ how # "failed"
                 /\ ~AllOk' => ~AllOk \/ how = "failed" \/ lastError
  <1>4. Told
    <2>1. CASE how # "failed" /\ results' = results
      BY <1>1, <2>1 DEF AllOk
    <2>2. ASSUME NEW ok \in BOOLEAN, results' = Append(results, [step |-> at, ok |-> ok]),
                 how = "failed" => ~ok, ~ok => how = "failed" \/ lastError
          PROVE  Told
      <3>1. [step |-> at, ok |-> ok] \in StepResults /\ [step |-> at, ok |-> ok].ok = ok
        BY <1>2 DEF StepResults
      <3> QED BY <1>1, <2>2, <3>1, AppendedResult DEF AllOk
    <2> QED BY <2>1, <2>2
  <1>5. StepsInOrder'
    <2>1. /\ totalActions <= MaxTotalActions + at - 2 /\ Len(results) < at
      BY DEF StepsInOrder
    <2>2. ASSUME NEW i \in 1..PlanSteps
          PROVE  /\ howStepEnded'[i] = "not_reached" <=> i >= at'
                 /\ howStepEnded'[i] = "abandoned" => stop' /\ i = at' - 1 /\ attempt' = 0
      <3>1. CASE i = at
        BY <1>1, <1>2, <1>3, <3>1
      <3>2. CASE i # at
        BY <1>1, <1>2, <1>3, <3>2 DEF StepsInOrder
      <3> QED BY <3>1, <3>2
    <2> QED BY <1>1, <1>2, <1>3, <1>4, <2>1, <2>2 DEF StepsInOrder
  <1>6. PlanTypeOK'
    <2>1. totalActions' \in 0..(MaxTotalActions + PlanSteps - 1)
      BY <1>1, <1>2 DEF StepsInOrder
    <2>2. Len(results') <= PlanSteps
      BY <1>1, <1>2, <1>4 DEF StepsInOrder
    <2>3. howStepEnded' \in [1..PlanSteps -> {"not_reached", "done", "failed", "abandoned",
                                              "out_of_attempts"}]
      BY <1>1, <1>3
    <2> QED BY <1>1, <1>2, <1>3, <1>4, <2>1, <2>2, <2>3 DEF PlanTypeOK, StepResults
  <1>7. ResultsTell'
    <2>1. SomeStepFailed' <=> SomeStepFailed \/ how = "failed"
      <3>1. howStepEnded[at] # "failed"
        BY <1>1, <1>2 DEF StepsInOrder
      <3> QED BY <1>1, <1>2, <1>3, <3>1 DEF SomeStepFailed
    <2> QED BY <1>4, <2>1 DEF ResultsTell
  <1> QED BY <1>3, <1>5, <1>6, <1>7 DEF PlanReportHonest

LEMMA PlanStep ==
    ASSUME PlanInv, [PlanNext]_pvars
    PROVE  PlanInv'
  <1> USE DEF PlanInv
  <1>1. ASSUME UNCHANGED <<at, attempt, totalActions, lastError, results, howStepEnded>>,
               stop' \in BOOLEAN, stop => stop', UNCHANGED report
        PROVE  PlanInv'
    BY <1>1 DEF PlanTypeOK, StepsInOrder, ResultsTell, SomeStepFailed, AllOk, PlanReportHonest
  <1>2. CASE StopRequested
    BY <1>1, <1>2 DEF StopRequested, PlanTypeOK
  <1>3. CASE UNCHANGED pvars
    BY <1>1, <1>3 DEF pvars, PlanTypeOK
  <1>4. CASE BeginStep
    <2>1. PlanTypeOK'
      BY <1>4, PlanAssumption DEF BeginStep, PlanTypeOK
    <2>2. StepsInOrder'
      <3>1. CASE stop
        BY <1>4, <3>1 DEF BeginStep, StepsInOrder
      <3>2. CASE ~stop
        <4>1. \A i \in 1..PlanSteps : howStepEnded[i] # "abandoned"
          BY <3>2 DEF StepsInOrder
        <4> QED BY <1>4, <3>2, <4>1 DEF BeginStep, StepsInOrder
      <3> QED BY <3>1, <3>2
    <2>3. ResultsTell'
      BY <1>4 DEF BeginStep, ResultsTell, SomeStepFailed, AllOk
    <2>4. PlanReportHonest'
      BY <1>4 DEF BeginStep, PlanReportHonest
    <2> QED BY <2>1, <2>2, <2>3, <2>4
  <1>5. CASE AbandonStep
    BY <1>5, LeftStep DEF AbandonStep, InStep, PlanTypeOK
  <1>6. ASSUME NEW error \in BOOLEAN, NoAction(error) PROVE PlanInv'
    BY <1>6, LeftStep DEF NoAction, Failed, Attempting, InStep
  <1>7. CASE ModelSaysDone
    BY <1>7, LeftStep DEF ModelSaysDone, Attempting, InStep
  <1>8. CASE ActionFails
    BY <1>8, LeftStep DEF ActionFails, Failed, Attempting, InStep
  <1>9. CASE ActionExceedsTotal
    BY <1>9, LeftStep DEF ActionExceedsTotal, Failed, Attempting, InStep
  <1>10. CASE OutOfAttempts
    <2>1. lastError \in BOOLEAN
      BY DEF PlanTypeOK
    <2>2. CASE lastError
      <3>1. /\ results' = Append(results, [step |-> at, ok |-> FALSE])
            /\ report = "none" /\ attempt > 0 /\ NextStep("out_of_attempts")
            /\ UNCHANGED <<totalActions, lastError>>
        BY <1>10, <2>2 DEF OutOfAttempts, InStep
      <3> QED BY <2>1, <2>2, <3>1, LeftStep
    <2>3. CASE ~lastError
      BY <1>10, <2>1, <2>3, LeftStep DEF OutOfAttempts, InStep
    <2> QED BY <2>2, <2>3
  <1>11. CASE ActionOk
    <2>1. /\ totalActions' = totalActions + 1 /\ totalActions' < MaxTotalActions
          /\ attempt' = attempt + 1 /\ attempt > 0 /\ attempt <= MaxAttempts
          /\ UNCHANGED <<at, lastError, results, report, stop, howStepEnded>>
          /\ ~stop
      BY <1>11 DEF ActionOk, Attempting, InStep
    <2>2. /\ {PlanSteps, MaxAttempts, MaxTotalActions} \subseteq Nat \ {0}
          /\ at \in 1..(PlanSteps + 1) /\ attempt \in Nat /\ totalActions \in Nat
      BY PlanAssumption DEF PlanTypeOK, PlanAssumption
    <2>3. PlanTypeOK'
      BY <2>1, <2>2 DEF PlanTypeOK
    <2>4. StepsInOrder'
      BY <2>1, <2>2 DEF StepsInOrder
    <2>5. ResultsTell' /\ PlanReportHonest'
      BY <2>1 DEF ResultsTell, SomeStepFailed, AllOk, PlanReportHonest
    <2> QED BY <2>3, <2>4, <2>5
  <1>12. CASE EndPlan
    <2>1. /\ report = "none" /\ at > PlanSteps
          /\ report' = IF AllOk THEN "done" ELSE "failed"
          /\ UNCHANGED <<at, attempt, totalActions, lastError, results, stop, howStepEnded>>
      BY <1>12 DEF EndPlan
    <2>2. PlanTypeOK' /\ StepsInOrder' /\ ResultsTell'
      BY <2>1 DEF PlanTypeOK, StepsInOrder, ResultsTell, SomeStepFailed, AllOk
    <2>3. /\ PlanSteps \in Nat \ {0} /\ at = PlanSteps + 1
          /\ howStepEnded \in [1..PlanSteps -> {"not_reached", "done", "failed", "abandoned",
                                               "out_of_attempts"}]
      BY <2>1, PlanAssumption DEF PlanTypeOK, PlanAssumption
    <2>4. ASSUME AllOk, NEW i \in 1..PlanSteps
          PROVE  howStepEnded[i] \in {"done", "out_of_attempts"}
                                     \cup (IF i = PlanSteps THEN {"abandoned"} ELSE {})
      <3>1. howStepEnded[i] # "failed"
        BY <2>4 DEF ResultsTell, SomeStepFailed
      <3>2. howStepEnded[i] # "not_reached"
        BY <2>3 DEF StepsInOrder
      <3>3. howStepEnded[i] = "abandoned" => i = PlanSteps
        BY <2>3 DEF StepsInOrder
      <3> QED BY <2>3, <3>1, <3>2, <3>3
    <2>5. ~AllOk => \E i \in 1..PlanSteps : howStepEnded[i] = "failed"
      BY DEF ResultsTell, SomeStepFailed
    <2>6. PlanReportHonest'
      BY <2>1, <2>4, <2>5 DEF PlanReportHonest
    <2> QED BY <2>2, <2>6
  <1> QED BY <1>2, <1>3, <1>4, <1>5, <1>6, <1>7, <1>8, <1>9, <1>10, <1>11, <1>12
          DEF PlanNext, AgentStep

LEMMA PlanInvariant == PlanSpec => []PlanInv
  <1>1. PlanInit => PlanInv
    <2> SUFFICES ASSUME PlanInit PROVE PlanInv
      OBVIOUS
    <2>1. {PlanSteps, MaxAttempts, MaxTotalActions} \subseteq Nat \ {0}
      BY PlanAssumption DEF PlanAssumption
    <2>2. /\ results = <<>> /\ <<>> \in Seq([step : 1..PlanSteps, ok : BOOLEAN])
          /\ Len(<<>>) = 0 /\ AllOk
      BY DEF PlanInit, AllOk
    <2>3. Len(results) = 0
      BY <2>2
    <2>4. PlanTypeOK
      <3>1. results \in Seq([step : 1..PlanSteps, ok : BOOLEAN])
        BY <2>2
      <3>2. Len(results) <= PlanSteps
        BY <2>1, <2>3
      <3>3. howStepEnded \in [1..PlanSteps -> {"not_reached", "done", "failed", "abandoned",
                                              "out_of_attempts"}]
        BY DEF PlanInit
      <3>4. /\ 1 \in 1..(PlanSteps + 1) /\ 0 \in 0..(MaxAttempts + 1)
            /\ 0 \in 0..(MaxTotalActions + PlanSteps - 1)
        BY <2>1
      <3> QED BY <3>1, <3>2, <3>3, <3>4 DEF PlanInit, PlanTypeOK
    <2>5. StepsInOrder
      BY <2>1, <2>3 DEF PlanInit, StepsInOrder
    <2>6. ResultsTell /\ PlanReportHonest
      BY <2>2 DEF PlanInit, ResultsTell, SomeStepFailed, PlanReportHonest
    <2> QED BY <2>4, <2>5, <2>6 DEF PlanInv
  <1> QED BY <1>1, PlanStep, PTL DEF PlanSpec

\* The counters of the agent stay within their bounds: the actions exceed
\* MAX_TOTAL_ACTIONS by less than one for each step of the plan.
THEOREM PlanTypes == PlanSpec => []PlanTypeOK
  BY PlanInvariant, PTL DEF PlanInv

\* For a plan of any length the report tells how its steps ended: done means no
\* failed step, failed means there was one, and a step that was abandoned is
\* missing from a report of done only if it was the last.
THEOREM ReportHonest == PlanSpec => []PlanReportHonest
  BY PlanInvariant, PTL DEF PlanInv
------------------------------------------------------------------------------
(* LeadPool *)

ClaimedToday(o) == {l \in PoolLeads : OwnerOf[l] = o /\ lead[l] = "claimed" /\ l \notin earlier}
MessagedToday(o) == {l \in PoolLeads : OwnerOf[l] = o /\ l \in messaged}
SettlingToday(o) == {s \in Senders : OwnerOf[s] = o /\ settling[s] # "no" /\ s \notin late}
SettlingDone(o) == {s \in Senders : OwnerOf[s] = o /\ settling[s] = "done"}
AccountedToday(o) == Cardinality(ClaimedToday(o)) + Cardinality(SettlingToday(o)) + orphans[o]

\* The row of the day covers what is claimed, settled and messaged.
Accounts(o) ==
    /\ quota[o].reserved < AccountedToday(o) => o \in crossed
    /\ quota[o].reserved > AccountedToday(o) => o \in leaked
    /\ quota[o].sent + Cardinality(SettlingDone(o)) < Cardinality(MessagedToday(o))
           => o \in crossed \cup leaked

\* Between the count and the stream of an export its filter only loses leads,
\* unless one is seen to enter.
ExportFits ==
    /\ export.stage = "counted" /\ ~export.entered =>
          Cardinality(Matching(export.owner, export.status)) <= ExportLimit
    /\ ExportComplete

\* What was sent was sent by one of the senders.
SentBySomeone ==
    \A l \in PoolLeads : lead[l] \in {"done", "replied", "converted"} => consumer[l] \in Senders

PoolInv == LeadPoolTypeOK /\ (\A o \in Owners : Accounts(o)) /\ ExportFits /\ SentBySomeone

ExportRows == [stage : {"none", "counted", "streamed"}, owner : Owners,
               status : Statuses \cup {AnyStatus}, whole : BOOLEAN, entered : BOOLEAN]
QuotaRows == [sent : 0..SendLimit, reserved : 0..SendLimit]

LEMMA PoolConstants ==
    /\ IsFiniteSet(PoolLeads) /\ IsFiniteSet(Senders) /\ Users \subseteq Owners
    /\ Nobody \notin Senders /\ NoLeadHeld \notin PoolLeads
    /\ \A l \in PoolLeads : OwnerOf[l] \in Owners
    /\ \A s \in Senders : OwnerOf[s] \in Owners
    /\ SendLimit \in Nat /\ ExportLimit \in Nat
  BY LeadPoolAssumption DEF LeadPoolAssumption

LEMMA PoolCounts ==
    ASSUME NEW o
    PROVE  /\ IsFiniteSet(ClaimedToday(o)) /\ Cardinality(ClaimedToday(o)) \in Nat
           /\ IsFiniteSet(MessagedToday(o)) /\ Cardinality(MessagedToday(o)) \in Nat
           /\ IsFiniteSet(SettlingToday(o)) /\ Cardinality(SettlingToday(o)) \in Nat
           /\ IsFiniteSet(SettlingDone(o)) /\ Cardinality(SettlingDone(o)) \in Nat
           /\ IsFiniteSet(ClaimedToday(o)') /\ Cardinality(ClaimedToday(o)') \in Nat
           /\ IsFiniteSet(MessagedToday(o)') /\ Cardinality(MessagedToday(o)') \in Nat
           /\ IsFiniteSet(SettlingToday(o)') /\ Cardinality(SettlingToday(o)') \in Nat
           /\ IsFiniteSet(SettlingDone(o)') /\ Cardinality(SettlingDone(o)') \in Nat
  <1>1. \A S : S \subseteq PoolLeads \/ S \subseteq Senders
               => IsFiniteSet(S) /\ Cardinality(S) \in Nat
    BY PoolConstants, FS_Subset, FS_CardinalityType
  <1>2. /\ ClaimedToday(o) \subseteq PoolLeads /\ MessagedToday(o) \subseteq PoolLeads
        /\ ClaimedToday(o)' \subseteq PoolLeads /\ MessagedToday(o)' \subseteq PoolLeads
        /\ SettlingToday(o) \subseteq Senders /\ SettlingDone(o) \subseteq Senders
        /\ SettlingToday(o)' \subseteq Senders /\ SettlingDone(o)' \subseteq Senders
    BY DEF ClaimedToday, MessagedToday, SettlingToday, SettlingDone
  <1> QED BY <1>1, <1>2

LEMMA QuotaTypes ==
    ASSUME LeadPoolTypeOK, NEW o \in Owners
    PROVE  /\ quota[o].sent \in Nat /\ quota[o].reserved \in Nat /\ orphans[o] \in Nat
           /\ quota[o].sent + quota[o].reserved <= SendLimit
           /\ quota[o] \in QuotaRows
  BY PoolConstants DEF LeadPoolTypeOK, QuotaRows

\* A step that settles nothing of an owner and messages none of his leads.
LEMMA AccountsKept ==
    ASSUME NEW o \in Owners, Accounts(o), quota'[o] = quota[o], orphans'[o] = orphans[o],
           ClaimedToday(o)' = ClaimedToday(o), MessagedToday(o)' \subseteq MessagedToday(o),
           SettlingToday(o)' = SettlingToday(o), SettlingDone(o)' = SettlingDone(o),
           crossed \subseteq crossed', leaked \subseteq leaked',
           quota[o].sent \in Nat
    PROVE  Accounts(o)'
  <1>1. Cardinality(MessagedToday(o)') <= Cardinality(MessagedToday(o))
    BY PoolCounts, FS_Subset
  <1>2. AccountedToday(o)' = AccountedToday(o)
    BY DEF AccountedToday
  <1>3. /\ quota'[o].sent + Cardinality(SettlingDone(o)') < Cardinality(MessagedToday(o)')
             => quota[o].sent + Cardinality(SettlingDone(o)) < Cardinality(MessagedToday(o))
    BY <1>1, PoolCounts
  <1> QED BY <1>2, <1>3 DEF Accounts

\* The balance of an owner after a step, from the changes of its parts.
LEMMA Balance ==
    ASSUME NEW o \in Owners, Accounts(o), LeadPoolTypeOK,
           orphans'[o] \in Nat, quota'[o].reserved \in Nat, quota'[o].sent \in Nat,
           crossed \subseteq crossed', leaked \subseteq leaked',
           \/ o \in crossed'
           \/ quota'[o].reserved + AccountedToday(o) >= quota[o].reserved + AccountedToday(o)',
           \/ o \in leaked' \/ quota'[o].reserved = 0
           \/ quota'[o].reserved + AccountedToday(o) <= quota[o].reserved + AccountedToday(o)',
           \/ o \in crossed' \cup leaked'
           \/ quota'[o].sent + Cardinality(SettlingDone(o)') + Cardinality(MessagedToday(o))
                  >= quota[o].sent + Cardinality(SettlingDone(o)) + Cardinality(MessagedToday(o)')
    PROVE  Accounts(o)'
  <1> DEFINE old == AccountedToday(o)
             new == AccountedToday(o)'
             d == Cardinality(SettlingDone(o))
             m == Cardinality(MessagedToday(o))
             e == Cardinality(SettlingDone(o)')
             k == Cardinality(MessagedToday(o)')
             r == quota[o].reserved
             n == quota[o].sent
             s == quota'[o].reserved
             w == quota'[o].sent
  <1>1. /\ old \in Nat /\ new \in Nat /\ d \in Nat /\ m \in Nat /\ e \in Nat /\ k \in Nat
        /\ r \in Nat /\ n \in Nat /\ s \in Nat /\ w \in Nat
    BY PoolCounts, QuotaTypes DEF AccountedToday
  <1>2. /\ r < old => o \in crossed
        /\ r > old => o \in leaked
        /\ n + d < m => o \in crossed \cup leaked
    BY DEF Accounts
  <1>3. /\ s < new => o \in crossed'
        /\ s > new => o \in leaked'
        /\ w + e < k => o \in crossed' \cup leaked'
    <2>1. /\ o \in crossed' \/ s + old >= r + new
          /\ o \in leaked' \/ s = 0 \/ s + old <= r + new
          /\ o \in crossed' \cup leaked' \/ w + e + m >= n + d + k
          /\ o \in crossed => o \in crossed'
          /\ o \in leaked => o \in leaked'
      OBVIOUS
    <2> HIDE DEF old, new, d, m, e, k, r, n, s, w
    <2> QED BY <1>1, <1>2, <2>1
  <1> QED BY <1>3 DEF Accounts

\* The rows that a write leaves.
LEMMA Written ==
    ASSUME LeadPoolTypeOK, NEW rows \in SUBSET PoolLeads, NEW status \in Statuses \ {"absent"},
           Become(rows, status)
    PROVE  /\ lead' \in [PoolLeads -> Statuses]
           /\ \A l \in PoolLeads : lead'[l] = IF l \in rows THEN status ELSE lead[l]
           /\ \A l \in rows : lead'[l] = status
           /\ export' \in ExportRows
  <1>1. /\ lead' \in [PoolLeads -> Statuses]
        /\ \A l \in PoolLeads : lead'[l] = IF l \in rows THEN status ELSE lead[l]
    BY DEF Become, LeadPoolTypeOK
  <1>2. export \in ExportRows /\ (export' = export \/ export' = [export EXCEPT !.entered = TRUE])
    BY DEF Become, LeadPoolTypeOK, ExportRows
  <1>3. export' \in ExportRows
    BY <1>2 DEF ExportRows
  <1> QED BY <1>1, <1>3

\* The parts of the balance of one owner, untouched.
PartsKept(o) ==
    /\ quota'[o] = quota[o] /\ orphans'[o] = orphans[o]
    /\ ClaimedToday(o)' = ClaimedToday(o) /\ MessagedToday(o)' = MessagedToday(o)
    /\ SettlingToday(o)' = SettlingToday(o) /\ SettlingDone(o)' = SettlingDone(o)
    /\ crossed \subseteq crossed' /\ leaked \subseteq leaked'

LEMMA PartsKeptAccounts ==
    ASSUME PoolInv, NEW o \in Owners, PartsKept(o) PROVE Accounts(o)'
  BY QuotaTypes, AccountsKept DEF PartsKept, PoolInv

\* A claim is reserved on the row of the day.
LEMMA ClaimAccounts ==
    ASSUME PoolInv, NEW s \in Senders, NEW l \in PoolLeads, ClaimForDevice(s, l)
    PROVE  /\ quota' \in [Owners -> QuotaRows]
           /\ \A o \in Owners : Accounts(o)' /\ quota'[o].sent + quota'[o].reserved <= SendLimit
  <1> DEFINE me == OwnerOf[l]
  <1>1. /\ lead[l] = "pending" /\ QuotaLeft(me) /\ Become({l}, "claimed") /\ me \in Owners
        /\ quota' = [quota EXCEPT ![me].reserved = @ + 1]
        /\ UNCHANGED <<settling, earlier, late, messaged, orphans, leaked, crossed>>
        /\ LeadPoolTypeOK
    BY PoolConstants DEF ClaimForDevice, PoolInv, reports, history
  <1>2. /\ quota \in [Owners -> QuotaRows] /\ SendLimit \in Nat
        /\ \A p \in Owners : /\ quota[p].sent \in Nat /\ quota[p].reserved \in Nat
                             /\ quota[p] \in QuotaRows
                             /\ quota[p].sent + quota[p].reserved <= SendLimit
    BY <1>1, PoolConstants, QuotaTypes DEF LeadPoolTypeOK, QuotaRows
  <1>3. quota[me].sent + quota[me].reserved < SendLimit
    BY <1>1 DEF QuotaLeft
  <1>4. /\ quota'[me].reserved = quota[me].reserved + 1 /\ quota'[me].sent = quota[me].sent
        /\ \A p \in Owners \ {me} : quota'[p] = quota[p]
    BY <1>1, <1>2 DEF QuotaRows
  <1>5. quota' \in [Owners -> QuotaRows]
    <2>1. quota[me].reserved + 1 \in 0..SendLimit
      BY <1>1, <1>2, <1>3
    <2>2. [quota[me] EXCEPT !.reserved = @ + 1] \in QuotaRows
      BY <1>1, <1>2, <2>1 DEF QuotaRows
    <2> QED BY <1>1, <1>2, <2>2
  <1>6. \A x \in PoolLeads : lead'[x] = IF x = l THEN "claimed" ELSE lead[x]
    <2>1. {l} \in SUBSET PoolLeads /\ "claimed" \in Statuses \ {"absent"}
      BY DEF Statuses
    <2>2. \A x \in PoolLeads : lead'[x] = IF x \in {l} THEN "claimed" ELSE lead[x]
      BY <1>1, <2>1, Written
    <2> QED BY <2>2
  <1>7. ASSUME NEW o \in Owners PROVE Accounts(o)'
    <2>1. CASE o = me
      <3>1. ClaimedToday(o)' = ClaimedToday(o) \cup {l} /\ l \notin ClaimedToday(o)
        BY <1>1, <1>6, <2>1 DEF ClaimedToday, LeadPoolTypeOK
      <3>2. Cardinality(ClaimedToday(o)') = Cardinality(ClaimedToday(o)) + 1
        BY <3>1, PoolCounts, FS_AddElement
      <3>3. /\ SettlingToday(o)' = SettlingToday(o) /\ SettlingDone(o)' = SettlingDone(o)
            /\ MessagedToday(o)' = MessagedToday(o)
        BY <1>1 DEF SettlingToday, SettlingDone, MessagedToday
      <3>4. AccountedToday(o)' = AccountedToday(o) + 1 /\ AccountedToday(o) \in Nat
        BY <1>1, <3>2, <3>3, PoolCounts, QuotaTypes DEF AccountedToday
      <3>5. /\ quota'[o].reserved = quota[o].reserved + 1 /\ quota'[o].sent = quota[o].sent
            /\ quota[o].reserved \in Nat /\ quota[o].sent \in Nat
            /\ orphans'[o] \in Nat /\ crossed' = crossed /\ leaked' = leaked
        BY <1>1, <1>2, <1>4, <2>1, QuotaTypes
      <3>6. /\ quota'[o].reserved + AccountedToday(o) = quota[o].reserved + AccountedToday(o)'
            /\ quota'[o].reserved \in Nat /\ quota'[o].sent \in Nat
        BY <3>4, <3>5
      <3>7. quota'[o].sent + Cardinality(SettlingDone(o)') + Cardinality(MessagedToday(o))
                >= quota[o].sent + Cardinality(SettlingDone(o)) + Cardinality(MessagedToday(o)')
        BY <3>3, <3>5, PoolCounts
      <3>8. AccountedToday(o)' \in Nat
        BY <3>4
      <3> QED BY <1>1, <3>4, <3>5, <3>6, <3>7, <3>8, Balance DEF PoolInv
    <2>2. CASE o # me
      <3>1. PartsKept(o)
        BY <1>1, <1>4, <1>6, <2>2
           DEF PartsKept, ClaimedToday, SettlingToday, SettlingDone, MessagedToday
      <3> QED BY <3>1, PartsKeptAccounts
    <2> QED BY <2>1, <2>2
  <1>8. \A o \in Owners : quota'[o].sent + quota'[o].reserved <= SendLimit
    BY <1>1, <1>2, <1>3, <1>4
  <1> QED BY <1>5, <1>7, <1>8

\* A report moves its claim from the row to the settlement, and counts its lead
\* as messaged as long as the settlement is to come.
LEMMA ReportAccounts ==
    ASSUME PoolInv, NEW s \in Senders, NEW status \in {"done", "failed"}, Completes(s, status),
           RowFound(s)
    PROVE  \A o \in Owners : Accounts(o)'
  <1> DEFINE l == held[s]
             me == OwnerOf[s]
  <1>1. /\ LeadPoolTypeOK /\ l \in PoolLeads /\ lead[l] = "claimed" /\ OwnerOf[l] = me
        /\ me \in Owners /\ settling[s] = "no" /\ s \notin late /\ l \notin messaged
    BY PoolConstants DEF RowFound, PoolInv, LeadPoolTypeOK
  <1>2. /\ Become({l}, status) /\ UNCHANGED <<quota, orphans, leaked, crossed>>
        /\ settling' = [settling EXCEPT ![s] = status] /\ earlier' = earlier \ {l}
        /\ late' = IF l \in earlier THEN late \cup {s} ELSE late
        /\ messaged' = IF status = "done" THEN messaged \cup {l} ELSE messaged
    BY DEF Completes, history
  <1>3. \A x \in PoolLeads : lead'[x] = IF x = l THEN status ELSE lead[x]
    <2>1. {l} \in SUBSET PoolLeads /\ status \in Statuses \ {"absent"}
      BY <1>1 DEF Statuses
    <2>2. \A x \in PoolLeads : lead'[x] = IF x \in {l} THEN status ELSE lead[x]
      BY <1>1, <1>2, <2>1, Written
    <2> QED BY <2>2
  <1>4. /\ settling'[s] = status /\ status # "no"
        /\ \A t \in Senders \ {s} : settling'[t] = settling[t]
    BY <1>1, <1>2 DEF LeadPoolTypeOK
  <1> HIDE DEF l, me
  <1>5. ASSUME NEW o \in Owners, o # me PROVE Accounts(o)'
    <2>1. s \notin SettlingToday(o) /\ s \notin SettlingDone(o)
          /\ s \notin SettlingToday(o)' /\ s \notin SettlingDone(o)'
      BY <1>5 DEF SettlingToday, SettlingDone, me
    <2>2. PartsKept(o)
      BY <1>1, <1>2, <1>3, <1>4, <1>5, <2>1
         DEF PartsKept, ClaimedToday, SettlingToday, SettlingDone, MessagedToday, me
    <2> QED BY <2>2, PartsKeptAccounts
  <1>6. Accounts(me)'
    <2>1. AccountedToday(me)' = AccountedToday(me)
      <3>1. CASE l \in earlier
        <4>1. /\ ClaimedToday(me)' = ClaimedToday(me)
              /\ SettlingToday(me)' = SettlingToday(me)
          BY <1>1, <1>2, <1>3, <1>4, <3>1 DEF ClaimedToday, SettlingToday
        <4> QED BY <1>2, <4>1 DEF AccountedToday
      <3>2. CASE l \notin earlier
        <4>1. ClaimedToday(me)' = ClaimedToday(me) \ {l} /\ l \in ClaimedToday(me)
          BY <1>1, <1>2, <1>3, <3>2 DEF ClaimedToday
        <4>2. SettlingToday(me)' = SettlingToday(me) \cup {s} /\ s \notin SettlingToday(me)
          BY <1>1, <1>2, <1>4, <3>2 DEF SettlingToday, me
        <4>3. Cardinality(ClaimedToday(me)') = Cardinality(ClaimedToday(me)) - 1
          BY <4>1, PoolCounts, FS_RemoveElement
        <4>4. Cardinality(SettlingToday(me)') = Cardinality(SettlingToday(me)) + 1
          BY <4>2, PoolCounts, FS_AddElement
        <4>5. orphans'[me] = orphans[me] /\ orphans[me] \in Nat
          BY <1>1, <1>2, QuotaTypes
        <4> QED BY <4>3, <4>4, <4>5, PoolCounts DEF AccountedToday
      <3> QED BY <3>1, <3>2
    <2>2. Cardinality(SettlingDone(me)') + Cardinality(MessagedToday(me))
              = Cardinality(SettlingDone(me)) + Cardinality(MessagedToday(me)')
      <3>1. CASE status = "done"
        <4>1. SettlingDone(me)' = SettlingDone(me) \cup {s} /\ s \notin SettlingDone(me)
          BY <1>1, <1>4, <3>1 DEF SettlingDone, me
        <4>2. MessagedToday(me)' = MessagedToday(me) \cup {l} /\ l \notin MessagedToday(me)
          BY <1>1, <1>2, <3>1 DEF MessagedToday
        <4>3. /\ Cardinality(SettlingDone(me)') = Cardinality(SettlingDone(me)) + 1
              /\ Cardinality(MessagedToday(me)') = Cardinality(MessagedToday(me)) + 1
          BY <4>1, <4>2, PoolCounts, FS_AddElement
        <4> QED BY <4>3, PoolCounts
      <3>2. CASE status # "done"
        <4>1. SettlingDone(me)' = SettlingDone(me) /\ MessagedToday(me)' = MessagedToday(me)
          BY <1>1, <1>2, <1>4, <3>2 DEF SettlingDone, MessagedToday
        <4> QED BY <4>1
      <3> QED BY <3>1, <3>2
    <2>3. /\ quota'[me] = quota[me] /\ orphans'[me] \in Nat
          /\ quota[me].reserved \in Nat /\ quota[me].sent \in Nat
          /\ crossed' = crossed /\ leaked' = leaked
      BY <1>1, <1>2, QuotaTypes
    <2>4. AccountedToday(me) \in Nat
      BY <1>1, PoolCounts, QuotaTypes DEF AccountedToday
    <2>5. quota'[me].reserved + AccountedToday(me) = quota[me].reserved + AccountedToday(me)'
      BY <2>1, <2>3
    <2>6. quota'[me].sent + Cardinality(SettlingDone(me)') + Cardinality(MessagedToday(me))
              >= quota[me].sent + Cardinality(SettlingDone(me)) + Cardinality(MessagedToday(me)')
      BY <2>2, <2>3, PoolCounts
    <2>7. /\ quota'[me].reserved + AccountedToday(me) >= quota[me].reserved + AccountedToday(me)'
          /\ quota'[me].reserved + AccountedToday(me) <= quota[me].reserved + AccountedToday(me)'
      BY <2>1, <2>3, <2>4, <2>5
    <2> QED BY <1>1, <2>3, <2>6, <2>7, Balance DEF PoolInv
  <1> QED BY <1>5, <1>6

\* What a settlement or its loss takes off what is to be settled.
LEMMA SettlementAccounts ==
    ASSUME PoolInv, NEW s \in Senders, settling[s] # "no",
           settling' = [settling EXCEPT ![s] = "no"], late' = late \ {s},
           UNCHANGED <<lead, earlier, messaged, orphans>>
    PROVE  /\ \A o \in Owners : /\ ClaimedToday(o)' = ClaimedToday(o)
                                /\ MessagedToday(o)' = MessagedToday(o)
                                /\ orphans'[o] = orphans[o]
           /\ \A o \in Owners \ {OwnerOf[s]} : /\ SettlingToday(o)' = SettlingToday(o)
                                               /\ SettlingDone(o)' = SettlingDone(o)
           /\ IF s \in late THEN AccountedToday(OwnerOf[s])' = AccountedToday(OwnerOf[s])
              ELSE AccountedToday(OwnerOf[s])' = AccountedToday(OwnerOf[s]) - 1
           /\ IF settling[s] = "done"
              THEN Cardinality(SettlingDone(OwnerOf[s])') = Cardinality(SettlingDone(OwnerOf[s])) - 1
              ELSE SettlingDone(OwnerOf[s])' = SettlingDone(OwnerOf[s])
  <1> DEFINE me == OwnerOf[s]
  <1>1. /\ LeadPoolTypeOK /\ me \in Owners /\ settling'[s] = "no"
        /\ \A t \in Senders \ {s} : settling'[t] = settling[t]
    BY PoolConstants DEF PoolInv, LeadPoolTypeOK
  <1>2. \A o \in Owners : /\ ClaimedToday(o)' = ClaimedToday(o)
                          /\ MessagedToday(o)' = MessagedToday(o)
                          /\ orphans'[o] = orphans[o]
    BY DEF ClaimedToday, MessagedToday
  <1>3. \A o \in Owners \ {me} : /\ SettlingToday(o)' = SettlingToday(o)
                                 /\ SettlingDone(o)' = SettlingDone(o)
    BY <1>1 DEF SettlingToday, SettlingDone
  <1>4. orphans[me] \in Nat
    BY <1>1, QuotaTypes
  <1>5. IF s \in late THEN AccountedToday(me)' = AccountedToday(me)
        ELSE AccountedToday(me)' = AccountedToday(me) - 1
    <2>1. CASE s \in late
      <3>1. SettlingToday(me)' = SettlingToday(me)
        BY <1>1, <2>1 DEF SettlingToday
      <3> QED BY <1>1, <1>2, <2>1, <3>1 DEF AccountedToday
    <2>2. CASE s \notin late
      <3>1. SettlingToday(me)' = SettlingToday(me) \ {s} /\ s \in SettlingToday(me)
        BY <1>1, <2>2 DEF SettlingToday
      <3>2. Cardinality(SettlingToday(me)') = Cardinality(SettlingToday(me)) - 1
        BY <3>1, PoolCounts, FS_RemoveElement
      <3> QED BY <1>1, <1>2, <1>4, <2>2, <3>2, PoolCounts DEF AccountedToday
    <2> QED BY <2>1, <2>2
  <1>6. IF settling[s] = "done"
        THEN Cardinality(SettlingDone(me)') = Cardinality(SettlingDone(me)) - 1
        ELSE SettlingDone(me)' = SettlingDone(me)
    <2>1. CASE settling[s] = "done"
      <3>1. SettlingDone(me)' = SettlingDone(me) \ {s} /\ s \in SettlingDone(me)
        BY <1>1, <2>1 DEF SettlingDone
      <3> QED BY <2>1, <3>1, PoolCounts, FS_RemoveElement
    <2>2. CASE settling[s] # "done"
      BY <1>1, <2>2 DEF SettlingDone
    <2> QED BY <2>1, <2>2
  <1> QED BY <1>2, <1>3, <1>5, <1>6

LEMMA SettleAccounts ==
    ASSUME PoolInv, NEW s \in Senders, Settles(s)
    PROVE  /\ quota' \in [Owners -> QuotaRows]
           /\ \A o \in Owners : Accounts(o)' /\ quota'[o].sent + quota'[o].reserved <= SendLimit
  <1> DEFINE me == OwnerOf[s]
             settled == [sent |-> IF settling[s] = "done" THEN quota[me].sent + 1
                                  ELSE quota[me].sent,
                         reserved |-> quota[me].reserved - 1]
             written == IF quota[me].reserved = 0 THEN quota[me] ELSE settled
  <1>1. /\ LeadPoolTypeOK /\ me \in Owners /\ settling[s] # "no"
        /\ settling' = [settling EXCEPT ![s] = "no"] /\ late' = late \ {s}
        /\ UNCHANGED <<lead, earlier, messaged, orphans, leaked>>
        /\ crossed' = IF s \in late THEN crossed \cup {me} ELSE crossed
        /\ quota' = [quota EXCEPT ![me] = written]
    BY PoolConstants DEF PoolInv, Settles
  <1>2. /\ quota \in [Owners -> QuotaRows] /\ SendLimit \in Nat
        /\ \A p \in Owners : /\ quota[p].sent \in Nat /\ quota[p].reserved \in Nat
                             /\ quota[p] \in QuotaRows
                             /\ quota[p].sent + quota[p].reserved <= SendLimit
    BY <1>1, PoolConstants, QuotaTypes DEF LeadPoolTypeOK, QuotaRows
  <1>3. written \in QuotaRows /\ written.sent + written.reserved <= SendLimit
    <2>1. CASE quota[me].reserved = 0
      BY <1>1, <1>2, <2>1
    <2>2. CASE quota[me].reserved # 0
      <3>1. /\ settled.reserved \in 0..SendLimit /\ settled.sent \in 0..SendLimit
            /\ settled.sent + settled.reserved <= SendLimit
        BY <1>1, <1>2, <2>2
      <3>2. settled \in QuotaRows
        BY <3>1 DEF QuotaRows
      <3> QED BY <2>2, <3>1, <3>2
    <2> QED BY <2>1, <2>2
  <1>4. quota'[me] = written /\ \A p \in Owners \ {me} : quota'[p] = quota[p]
    BY <1>1, <1>2
  <1>5. quota' \in [Owners -> QuotaRows]
    <2> HIDE DEF written, me
    <2> QED BY <1>1, <1>2, <1>3
  <1>6. /\ \A o \in Owners : /\ ClaimedToday(o)' = ClaimedToday(o)
                             /\ MessagedToday(o)' = MessagedToday(o)
                             /\ orphans'[o] = orphans[o]
        /\ \A o \in Owners \ {me} : /\ SettlingToday(o)' = SettlingToday(o)
                                    /\ SettlingDone(o)' = SettlingDone(o)
        /\ IF s \in late THEN AccountedToday(me)' = AccountedToday(me)
           ELSE AccountedToday(me)' = AccountedToday(me) - 1
        /\ IF settling[s] = "done"
           THEN Cardinality(SettlingDone(me)') = Cardinality(SettlingDone(me)) - 1
           ELSE SettlingDone(me)' = SettlingDone(me)
    BY <1>1, SettlementAccounts
  <1>7. ASSUME NEW o \in Owners, o # me PROVE Accounts(o)'
    <2>1. PartsKept(o)
      BY <1>1, <1>4, <1>6, <1>7 DEF PartsKept
    <2> QED BY <2>1, PartsKeptAccounts
  <1>8. Accounts(me)'
    <2> DEFINE r == quota[me].reserved
               n == quota[me].sent
               d == Cardinality(SettlingDone(me))
               m == Cardinality(MessagedToday(me))
               a == AccountedToday(me)
    <2>1. /\ r \in Nat /\ n \in Nat /\ d \in Nat /\ m \in Nat /\ a \in Nat
          /\ Cardinality(SettlingDone(me)') \in Nat /\ AccountedToday(me)' \in Nat
          /\ orphans'[me] \in Nat /\ quota'[me].reserved \in Nat /\ quota'[me].sent \in Nat
      BY <1>1, <1>2, <1>3, <1>4, <1>6, PoolCounts, QuotaTypes DEF AccountedToday, QuotaRows
    <2>2. Cardinality(MessagedToday(me)') = m /\ crossed \subseteq crossed' /\ leaked' = leaked
      BY <1>1, <1>6
    <2>3. me \in crossed' \/ quota'[me].reserved + a >= r + AccountedToday(me)'
      <3>1. CASE s \in late
        BY <1>1, <3>1
      <3>2. CASE s \notin late
        <4>1. AccountedToday(me)' = a - 1
          BY <1>6, <3>2
        <4>2. quota'[me].reserved >= r - 1
          <5>1. CASE r = 0
            BY <2>1, <5>1
          <5>2. CASE r # 0
            BY <1>4, <2>1, <5>2
          <5> QED BY <5>1, <5>2
        <4> HIDE DEF r, a
        <4> QED BY <2>1, <4>1, <4>2
      <3> QED BY <3>1, <3>2
    <2>4. quota'[me].reserved = 0 \/ quota'[me].reserved + a <= r + AccountedToday(me)'
      <3>1. CASE r = 0
        BY <1>4, <3>1
      <3>2. CASE r # 0
        <4>1. quota'[me].reserved = r - 1
          BY <1>4, <3>2
        <4>2. AccountedToday(me)' = a \/ AccountedToday(me)' = a - 1
          BY <1>6
        <4> HIDE DEF r, a
        <4> QED BY <2>1, <4>1, <4>2
      <3> QED BY <3>1, <3>2
    <2>5. me \in crossed'
          \/ quota'[me].sent + Cardinality(SettlingDone(me)') + m >= n + d + m
      <3>1. CASE settling[s] # "done"
        <4>1. quota'[me].sent = n
          BY <1>4, <3>1
        <4>2. Cardinality(SettlingDone(me)') = d
          BY <1>6, <3>1
        <4> HIDE DEF n, d, m
        <4> QED BY <2>1, <4>1, <4>2
      <3>2. CASE settling[s] = "done" /\ r # 0
        <4>1. quota'[me].sent = n + 1
          BY <1>4, <3>2
        <4>2. Cardinality(SettlingDone(me)') = d - 1
          BY <1>6, <3>2
        <4> HIDE DEF n, d, m
        <4> QED BY <2>1, <4>1, <4>2
      <3>3. CASE s \in late
        BY <1>1, <3>3
      <3>4. CASE r = 0 /\ s \notin late
        <4>1. a >= 1
          <5>1. AccountedToday(me)' = a - 1
            BY <1>6, <3>4
          <5> HIDE DEF a
          <5> QED BY <2>1, <5>1
        <4>2. me \in crossed
          <5>1. r < a => me \in crossed
            BY <1>1 DEF PoolInv, Accounts
          <5> HIDE DEF r, a
          <5> QED BY <2>1, <3>4, <4>1, <5>1
        <4> QED BY <2>2, <4>2
      <3> QED BY <3>1, <3>2, <3>3, <3>4
    <2> QED BY <1>1, <2>1, <2>2, <2>3, <2>4, <2>5, Balance DEF PoolInv
  <1>9. \A o \in Owners : quota'[o].sent + quota'[o].reserved <= SendLimit
    BY <1>2, <1>3, <1>4
  <1> QED BY <1>5, <1>7, <1>8, <1>9

\* A settlement that is lost leaves its reservation behind.
LEMMA LossAccounts ==
    ASSUME PoolInv, NEW s \in Senders, SettlementLost(s)
    PROVE  \A o \in Owners : Accounts(o)'
  <1> DEFINE me == OwnerOf[s]
  <1>1. /\ LeadPoolTypeOK /\ me \in Owners /\ settling[s] # "no"
        /\ settling' = [settling EXCEPT ![s] = "no"] /\ late' = late \ {s}
        /\ UNCHANGED <<lead, earlier, messaged, orphans, crossed, quota>>
        /\ leaked' = leaked \cup {me}
    BY PoolConstants DEF PoolInv, SettlementLost
  <1>2. /\ \A o \in Owners : /\ ClaimedToday(o)' = ClaimedToday(o)
                             /\ MessagedToday(o)' = MessagedToday(o)
                             /\ orphans'[o] = orphans[o]
        /\ \A o \in Owners \ {me} : /\ SettlingToday(o)' = SettlingToday(o)
                                    /\ SettlingDone(o)' = SettlingDone(o)
        /\ IF s \in late THEN AccountedToday(me)' = AccountedToday(me)
           ELSE AccountedToday(me)' = AccountedToday(me) - 1
    BY <1>1, SettlementAccounts
  <1>3. ASSUME NEW o \in Owners, o # me PROVE Accounts(o)'
    <2>1. PartsKept(o)
      BY <1>1, <1>2, <1>3 DEF PartsKept
    <2> QED BY <2>1, PartsKeptAccounts
  <1>4. Accounts(me)'
    <2> DEFINE r == quota[me].reserved
               a == AccountedToday(me)
    <2>1. /\ r \in Nat /\ quota[me].sent \in Nat /\ a \in Nat /\ orphans'[me] \in Nat
          /\ quota'[me] = quota[me]
      BY <1>1, PoolCounts, QuotaTypes DEF AccountedToday
    <2>2. r + a >= r + AccountedToday(me)'
      <3>1. AccountedToday(me)' = a \/ AccountedToday(me)' = a - 1
        BY <1>2
      <3> HIDE DEF r, a
      <3> QED BY <2>1, <3>1
    <2>3. quota'[me].reserved \in Nat /\ quota'[me].sent \in Nat
          /\ quota'[me].reserved + a >= r + AccountedToday(me)'
      BY <2>1, <2>2
    <2> QED BY <1>1, <2>1, <2>3, Balance DEF PoolInv
  <1> QED BY <1>3, <1>4

\* What a release takes back leaves the claims of the owner.
LEMMA ReleaseAccounts ==
    ASSUME PoolInv, NEW me \in Owners, NEW rows \in SUBSET PoolLeads, NEW owned \in BOOLEAN,
           TakeBack(me, rows, owned)
    PROVE  /\ quota' \in [Owners -> QuotaRows]
           /\ \A o \in Owners : Accounts(o)' /\ quota'[o].sent + quota'[o].reserved <= SendLimit
  <1> DEFINE n == Cardinality(rows)
             r == quota[me].reserved
             given == ClaimedToday(me) \cap rows
             g == Cardinality(given)
             left == IF ~owned THEN r ELSE IF r < n THEN 0 ELSE r - n
  <1>1. /\ LeadPoolTypeOK /\ Become(rows, "pending")
        /\ \A l \in rows : OwnerOf[l] = me /\ lead[l] = "claimed"
        /\ earlier' = earlier \ rows /\ UNCHANGED <<settling, late, messaged, orphans>>
        /\ owned => /\ quota' = [quota EXCEPT ![me].reserved =
                                    IF @ < Cardinality(rows) THEN 0 ELSE @ - Cardinality(rows)]
                    /\ crossed' = IF rows \cap earlier = {} THEN crossed ELSE crossed \cup {me}
                    /\ leaked' = leaked
        /\ ~owned => /\ leaked' = IF rows \subseteq earlier THEN leaked ELSE leaked \cup {me}
                     /\ UNCHANGED <<quota, crossed>>
    BY DEF PoolInv, TakeBack
  <1>2. /\ quota \in [Owners -> QuotaRows] /\ SendLimit \in Nat
        /\ \A p \in Owners : /\ quota[p].sent \in Nat /\ quota[p].reserved \in Nat
                             /\ quota[p] \in QuotaRows
                             /\ quota[p].sent + quota[p].reserved <= SendLimit
    BY <1>1, PoolConstants, QuotaTypes DEF LeadPoolTypeOK, QuotaRows
  <1>3. \A l \in PoolLeads : lead'[l] = IF l \in rows THEN "pending" ELSE lead[l]
    <2>1. "pending" \in Statuses \ {"absent"}
      BY DEF Statuses
    <2> QED BY <1>1, <2>1, Written
  <1>4. IsFiniteSet(rows) /\ n \in Nat /\ IsFiniteSet(given) /\ g \in Nat /\ g <= n
    BY PoolConstants, FS_Subset, FS_CardinalityType
  <1>5. /\ quota'[me].reserved = left /\ quota'[me].sent = quota[me].sent
        /\ \A p \in Owners \ {me} : quota'[p] = quota[p]
    <2>1. CASE ~owned
      BY <1>1, <2>1
    <2>2. CASE owned /\ r < n
      BY <1>1, <1>2, <2>2 DEF QuotaRows
    <2>3. CASE owned /\ ~(r < n)
      BY <1>1, <1>2, <2>3 DEF QuotaRows
    <2> QED BY <2>1, <2>2, <2>3
  <1>6. left \in Nat /\ left <= r /\ r \in Nat
    <2>1. r \in Nat
      BY <1>2
    <2> HIDE DEF r, n
    <2> QED BY <1>4, <2>1
  <1>7. quota' \in [Owners -> QuotaRows]
    <2>1. CASE ~owned
      BY <1>1, <1>2, <2>1
    <2>2. CASE owned
      <3>1. [sent |-> quota[me].sent, reserved |-> left] \in QuotaRows
        <4>1. left \in 0..SendLimit /\ quota[me].sent \in 0..SendLimit
          <5>1. r \in 0..SendLimit /\ quota[me].sent \in 0..SendLimit
            BY <1>2 DEF QuotaRows
          <5> HIDE DEF left, r
          <5> QED BY <1>2, <1>6, <5>1
        <4> HIDE DEF left
        <4> QED BY <4>1 DEF QuotaRows
      <3>2. quota' = [p \in Owners |-> quota'[p]]
        BY <1>1, <1>2, <2>2
      <3>3. quota'[me] = [sent |-> quota'[me].sent, reserved |-> quota'[me].reserved]
        BY <1>1, <1>2, <2>2 DEF QuotaRows
      <3>4. \A p \in Owners : quota'[p] \in QuotaRows
        <4> HIDE DEF left
        <4> QED BY <1>2, <1>5, <3>1, <3>3
      <3> QED BY <3>2, <3>4
    <2> QED BY <2>1, <2>2
  <1>8. \A o \in Owners : quota'[o].sent + quota'[o].reserved <= SendLimit
    <2> HIDE DEF left
    <2> QED BY <1>2, <1>5, <1>6
  <1>9. \A o \in Owners : /\ SettlingToday(o)' = SettlingToday(o) /\ orphans'[o] = orphans[o]
                          /\ SettlingDone(o)' = SettlingDone(o)
                          /\ MessagedToday(o)' = MessagedToday(o)
    BY <1>1 DEF SettlingToday, SettlingDone, MessagedToday
  <1>10. crossed \subseteq crossed' /\ leaked \subseteq leaked'
    BY <1>1
  <1>11. ASSUME NEW o \in Owners, o # me PROVE Accounts(o)'
    <2>1. ClaimedToday(o)' = ClaimedToday(o)
      BY <1>1, <1>3, <1>11 DEF ClaimedToday
    <2>2. PartsKept(o)
      BY <1>5, <1>9, <1>10, <1>11, <2>1 DEF PartsKept
    <2> QED BY <2>2, PartsKeptAccounts
  <1>12. Accounts(me)'
    <2> DEFINE a == AccountedToday(me)
    <2>1. ClaimedToday(me)' = ClaimedToday(me) \ rows
      BY <1>1, <1>3 DEF ClaimedToday
    <2>2. Cardinality(ClaimedToday(me)') = Cardinality(ClaimedToday(me)) - g
      BY <2>1, PoolCounts, FS_Difference
    <2>3. orphans[me] \in Nat /\ orphans'[me] \in Nat /\ quota[me].sent \in Nat
      BY <1>1, <1>2, <1>9, QuotaTypes
    <2>4. AccountedToday(me)' = a - g /\ a \in Nat /\ AccountedToday(me)' \in Nat
      <3> HIDE DEF g
      <3> QED BY <1>4, <1>9, <2>2, <2>3, PoolCounts DEF AccountedToday
    <2>5. me \in crossed' \/ left + a >= r + AccountedToday(me)'
      <3>1. CASE ~owned
        <4>1. left = r
          BY <3>1
        <4> HIDE DEF left, r, a, g
        <4> QED BY <1>4, <1>6, <2>4, <4>1
      <3>2. CASE owned /\ rows \cap earlier # {}
        BY <1>1, <3>2
      <3>3. CASE owned /\ rows \cap earlier = {}
        <4>1. given = rows
          BY <1>1, <3>3 DEF ClaimedToday
        <4>2. left >= r - n /\ g = n
          <5>1. owned
            BY <3>3
          <5>2. g = n
            BY <4>1
          <5>3. left = IF r < n THEN 0 ELSE r - n
            BY <5>1
          <5> HIDE DEF left, r, n, g
          <5> QED BY <1>4, <1>6, <5>2, <5>3
        <4> HIDE DEF left, r, n, g, a
        <4> QED BY <1>4, <1>6, <2>4, <4>2
      <3> QED BY <3>1, <3>2, <3>3
    <2>6. me \in leaked' \/ left = 0 \/ left + a <= r + AccountedToday(me)'
      <3>1. CASE ~owned /\ ~(rows \subseteq earlier)
        BY <1>1, <3>1
      <3>2. CASE ~owned /\ rows \subseteq earlier
        <4>1. given = {}
          BY <3>2 DEF ClaimedToday
        <4>2. g = 0 /\ left = r
          BY <3>2, <4>1, FS_EmptySet
        <4> HIDE DEF left, r, g, a
        <4> QED BY <1>6, <2>4, <4>2
      <3>3. CASE owned
        <4>1. left = IF r < n THEN 0 ELSE r - n
          BY <3>3
        <4> HIDE DEF left, r, n, g, a
        <4> QED BY <1>4, <1>6, <2>4, <4>1
      <3> QED BY <3>1, <3>2, <3>3
    <2>7. quota'[me].sent + Cardinality(SettlingDone(me)') + Cardinality(MessagedToday(me))
              >= quota[me].sent + Cardinality(SettlingDone(me)) + Cardinality(MessagedToday(me)')
      BY <1>5, <1>9, <2>3, PoolCounts
    <2>8. /\ quota'[me].reserved \in Nat /\ quota'[me].sent \in Nat
          /\ me \in crossed' \/ quota'[me].reserved + AccountedToday(me) >= r + AccountedToday(me)'
          /\ \/ me \in leaked' \/ quota'[me].reserved = 0
             \/ quota'[me].reserved + AccountedToday(me) <= r + AccountedToday(me)'
      <3> HIDE DEF left, r
      <3> QED BY <1>5, <1>6, <2>3, <2>5, <2>6
    <2> QED BY <1>1, <1>10, <2>3, <2>4, <2>7, <2>8, Balance DEF PoolInv
  <1> QED BY <1>7, <1>8, <1>11, <1>12

\* A deletion turns the claims of the owner into orphans.
LEMMA DeletionAccounts ==
    ASSUME PoolInv, NEW d \in Owners, NEW cleaned \in BOOLEAN, DeleteIndustry(d, cleaned)
    PROVE  /\ orphans' \in [Owners -> Nat]
           /\ \A o \in Owners : Accounts(o)'
  <1>1. /\ LeadPoolTypeOK /\ orphans \in [Owners -> Nat]
        /\ UNCHANGED <<quota, settling, late, leaked, crossed>>
    BY DEF PoolInv, LeadPoolTypeOK, DeleteIndustry
  <1>2. \A o \in Owners : SettlingToday(o)' = SettlingToday(o) /\ SettlingDone(o)' = SettlingDone(o)
    BY <1>1 DEF SettlingToday, SettlingDone
  <1>3. CASE ~cleaned
    <2>1. UNCHANGED <<lead, earlier, messaged, orphans>>
      BY <1>3 DEF DeleteIndustry
    <2>2. \A o \in Owners : PartsKept(o)
      BY <1>1, <1>2, <2>1 DEF PartsKept, ClaimedToday, MessagedToday
    <2> QED BY <1>1, <2>1, <2>2, PartsKeptAccounts
  <1>4. CASE cleaned
    <2>1. /\ lead' = [l \in PoolLeads |-> IF OwnerOf[l] = d THEN "absent" ELSE lead[l]]
          /\ earlier' = earlier \ InPool(d) /\ messaged' = messaged \ InPool(d)
          /\ orphans' = [orphans EXCEPT ![d] = @ + With(InPool(d) \ earlier, {"claimed"})]
      BY <1>4 DEF DeleteIndustry
    <2>2. With(InPool(d) \ earlier, {"claimed"}) = Cardinality(ClaimedToday(d))
      <3>1. {l \in InPool(d) \ earlier : lead[l] \in {"claimed"}} = ClaimedToday(d)
        BY DEF InPool, ClaimedToday
      <3> QED BY <3>1 DEF With
    <2>3. orphans' \in [Owners -> Nat]
      BY <1>1, <2>1, <2>2, PoolCounts
    <2>4. Accounts(d)'
      <3>1. ClaimedToday(d)' = {} /\ MessagedToday(d)' = {}
        BY <1>1, <2>1 DEF ClaimedToday, MessagedToday, InPool, LeadPoolTypeOK
      <3>2. Cardinality(ClaimedToday(d)') = 0 /\ Cardinality(MessagedToday(d)') = 0
        BY <3>1, FS_EmptySet
      <3>3. orphans'[d] = orphans[d] + Cardinality(ClaimedToday(d)) /\ orphans[d] \in Nat
        BY <1>1, <2>1, <2>2
      <3>4. AccountedToday(d)' = AccountedToday(d) /\ AccountedToday(d) \in Nat
        BY <1>2, <3>2, <3>3, PoolCounts DEF AccountedToday
      <3>5. /\ quota'[d] = quota[d] /\ quota[d].reserved \in Nat /\ quota[d].sent \in Nat
            /\ orphans'[d] \in Nat
        BY <1>1, <2>3, QuotaTypes
      <3>6. /\ quota'[d].reserved \in Nat /\ quota'[d].sent \in Nat
            /\ quota'[d].reserved + AccountedToday(d) >= quota[d].reserved + AccountedToday(d)'
            /\ quota'[d].reserved + AccountedToday(d) <= quota[d].reserved + AccountedToday(d)'
        BY <3>4, <3>5
      <3>7. quota'[d].sent + Cardinality(SettlingDone(d)') + Cardinality(MessagedToday(d))
              >= quota[d].sent + Cardinality(SettlingDone(d)) + Cardinality(MessagedToday(d)')
        BY <1>2, <3>2, <3>5, PoolCounts
      <3> QED BY <1>1, <3>5, <3>6, <3>7, Balance DEF PoolInv
    <2>5. ASSUME NEW o \in Owners, o # d PROVE Accounts(o)'
      <3>1. /\ ClaimedToday(o)' = ClaimedToday(o) /\ MessagedToday(o)' = MessagedToday(o)
            /\ orphans'[o] = orphans[o]
        BY <1>1, <2>1, <2>5 DEF ClaimedToday, MessagedToday, InPool
      <3>2. PartsKept(o)
        BY <1>1, <1>2, <3>1 DEF PartsKept
      <3> QED BY <3>2, PartsKeptAccounts
    <2> QED BY <2>3, <2>4, <2>5
  <1> QED BY <1>3, <1>4

\* A row of which nothing is claimed, settled or messaged today.
LEMMA AccountsOfNothing ==
    ASSUME LeadPoolTypeOK, NEW o \in Owners, ClaimedToday(o) = {}, SettlingToday(o) = {},
           MessagedToday(o) = {}, orphans[o] = 0, quota[o].reserved = 0
    PROVE  Accounts(o)
  <1>1. AccountedToday(o) = 0 /\ Cardinality(MessagedToday(o)) = 0
    BY FS_EmptySet DEF AccountedToday
  <1>2. quota[o].sent + Cardinality(SettlingDone(o)) \in Nat
    BY QuotaTypes, PoolCounts
  <1> QED BY <1>1, <1>2 DEF Accounts

\* The new day begins with nothing.
LEMMA NewDayAccounts ==
    ASSUME NewDay, LeadPoolTypeOK', NEW o \in Owners PROVE Accounts(o)'
  <1>1. /\ ClaimedToday(o)' = {} /\ MessagedToday(o)' = {} /\ SettlingToday(o)' = {}
        /\ orphans'[o] = 0 /\ quota'[o].reserved = 0
    BY DEF NewDay, ClaimedToday, MessagedToday, SettlingToday
  <1>2. AccountedToday(o)' = 0 /\ Cardinality(MessagedToday(o)') = 0
    BY <1>1, FS_EmptySet DEF AccountedToday
  <1>3. quota'[o].sent = 0 /\ Cardinality(SettlingDone(o)') \in Nat
    BY PoolCounts DEF NewDay
  <1> QED BY <1>1, <1>2, <1>3 DEF Accounts

\* A write of a row that is not claimed, and that does not make it messaged.
LEMMA WrittenAccounts ==
    ASSUME PoolInv, NEW l \in PoolLeads, NEW status \in Statuses \ {"absent", "claimed"},
           Become({l}, status), UNCHANGED <<quota, reports, history>>, lead[l] # "claimed",
           NEW o \in Owners
    PROVE  Accounts(o)'
  <1>1. /\ LeadPoolTypeOK /\ {l} \in SUBSET PoolLeads /\ status \in Statuses \ {"absent"}
        /\ UNCHANGED <<quota, settling, earlier, late, messaged, orphans, leaked, crossed>>
    BY DEF PoolInv, reports, history
  <1>2. \A x \in PoolLeads : lead'[x] = IF x \in {l} THEN status ELSE lead[x]
    BY <1>1, Written
  <1>3. PartsKept(o)
    BY <1>1, <1>2
       DEF PartsKept, ClaimedToday, MessagedToday, SettlingToday, SettlingDone
  <1> QED BY <1>3, PartsKeptAccounts

LEMMA MatchingFinite ==
    ASSUME NEW o, NEW status
    PROVE  /\ IsFiniteSet(Matching(o, status)) /\ Cardinality(Matching(o, status)) \in Nat
           /\ IsFiniteSet(Matching(o, status)') /\ Cardinality(Matching(o, status)') \in Nat
  <1>1. Matching(o, status) \subseteq PoolLeads /\ Matching(o, status)' \subseteq PoolLeads
    BY DEF Matching, InPool
  <1> QED BY <1>1, PoolConstants, FS_Subset, FS_CardinalityType

\* A step after which the export is as before and its filter holds no new lead.
LEMMA ExportKept ==
    ASSUME ExportFits, export' = export,
           \A o, status : export.stage = "counted" /\ o = export.owner /\ status = export.status
                              => Matching(o, status)' \subseteq Matching(o, status)
    PROVE  ExportFits'
  <1>1. ExportComplete'
    BY DEF ExportFits, ExportComplete
  <1>2. ASSUME export'.stage = "counted", ~export'.entered
        PROVE  Cardinality(Matching(export.owner, export.status))' <= ExportLimit
    <2>1. PICK o, status : o = export.owner /\ status = export.status
      OBVIOUS
    <2>2. Cardinality(Matching(o, status)) <= ExportLimit
      BY <1>2, <2>1 DEF ExportFits
    <2>3. Cardinality(Matching(o, status)') <= Cardinality(Matching(o, status))
      BY <1>2, <2>1, MatchingFinite, FS_Subset
    <2>4. Cardinality(Matching(o, status)') <= ExportLimit
      BY <2>2, <2>3, MatchingFinite, PoolConstants
    <2> QED BY <2>1, <2>4 DEF Matching, InPool
  <1> QED BY <1>1, <1>2 DEF ExportFits

LEMMA WrittenExport ==
    ASSUME PoolInv, NEW rows \in SUBSET PoolLeads, NEW status \in Statuses \ {"absent"},
           Become(rows, status)
    PROVE  ExportFits'
  <1> DEFINE Entered == \E l \in rows : Enters(l, status)
  <1>1. /\ LeadPoolTypeOK /\ ExportFits
        /\ export' = IF Entered THEN [export EXCEPT !.entered = TRUE] ELSE export
        /\ export \in ExportRows
    BY DEF PoolInv, LeadPoolTypeOK, Become, ExportRows
  <1>2. \A l \in PoolLeads : lead'[l] = IF l \in rows THEN status ELSE lead[l]
    BY <1>1, Written
  <1>3. CASE Entered
    <2>1. export.stage = "counted"
      BY <1>3 DEF Enters
    <2>2. export' = [export EXCEPT !.entered = TRUE]
      BY <1>1, <1>3
    <2>3. export'.entered /\ export'.stage = "counted"
      BY <1>1, <2>1, <2>2 DEF ExportRows
    <2> QED BY <2>3 DEF ExportFits, ExportComplete
  <1>4. CASE ~Entered
    <2>1. export' = export
      BY <1>1, <1>4
    <2>2. ASSUME NEW o, NEW shown, export.stage = "counted", o = export.owner,
                 shown = export.status, NEW x \in Matching(o, shown)'
          PROVE  x \in Matching(o, shown)
      <3>1. /\ x \in PoolLeads /\ OwnerOf[x] = o /\ lead'[x] # "absent"
            /\ shown = AnyStatus \/ lead'[x] = shown
        BY <2>2 DEF Matching, InPool
      <3>2. CASE x \notin rows
        BY <1>2, <2>2, <3>1, <3>2 DEF Matching, InPool
      <3>3. CASE x \in rows
        <4>1. lead'[x] = status /\ ~Enters(x, status)
          BY <1>2, <1>4, <3>1, <3>3
        <4>2. lead[x] # "absent" /\ (shown = AnyStatus \/ lead[x] = shown)
          <5>1. ~ IF export.status = AnyStatus THEN lead[x] = "absent"
                  ELSE export.status = status /\ lead[x] # status
            BY <2>2, <3>1, <4>1 DEF Enters
          <5>2. CASE shown = AnyStatus
            BY <2>2, <5>1, <5>2
          <5>3. CASE shown # AnyStatus
            BY <2>2, <3>1, <4>1, <5>1, <5>3
          <5> QED BY <5>2, <5>3
        <4> QED BY <3>1, <3>3, <4>2 DEF Matching, InPool
      <3> QED BY <3>2, <3>3
    <2> QED BY <1>1, <2>1, <2>2, ExportKept
  <1> QED BY <1>3, <1>4

\* A write of a lead that leaves quotas and deleted claims alone.
LEMMA WrittenKept ==
    ASSUME PoolInv, NEW l \in PoolLeads, NEW status \in Statuses \ {"absent", "claimed"},
           Become({l}, status), UNCHANGED <<quota, held, industry, collecting, aged, reports, history>>,
           consumer' \in [PoolLeads -> Senders \cup {Nobody}], lead[l] # "claimed",
           \A x \in PoolLeads : x # l => consumer'[x] = consumer[x],
           lead[l] \in {"done", "replied", "converted"} \/ status = "pending",
           status = "pending" => lead[l] \notin {"done", "replied", "converted"},
           status # "pending" =>
               consumer' = consumer /\ status \in {"done", "replied", "converted"}
    PROVE  PoolInv'
  <1>1. \A o \in Owners : Accounts(o)'
    BY WrittenAccounts
  <1>2. /\ {l} \in SUBSET PoolLeads /\ status \in Statuses \ {"absent"} /\ LeadPoolTypeOK
        /\ UNCHANGED <<settling, earlier, late, messaged, orphans, leaked, crossed>>
    BY DEF PoolInv, reports, history
  <1>3. ExportFits'
    BY <1>2, WrittenExport
  <1>4. /\ export' \in ExportRows /\ lead' \in [PoolLeads -> Statuses]
        /\ \A x \in PoolLeads : lead'[x] = IF x \in {l} THEN status ELSE lead[x]
    BY <1>2, Written
  <1>5. LeadPoolTypeOK'
    <2>1. aged' \subseteq {x \in PoolLeads : lead'[x] # "absent"}
      BY <1>2, <1>4 DEF LeadPoolTypeOK
    <2>2. earlier' \subseteq {x \in PoolLeads : lead'[x] = "claimed"}
      BY <1>2, <1>4 DEF LeadPoolTypeOK
    <2>3. messaged' \subseteq {x \in PoolLeads : lead'[x] \in {"done", "replied", "converted"}}
      BY <1>2, <1>4 DEF LeadPoolTypeOK
    <2> QED BY <1>2, <1>4, <2>1, <2>2, <2>3 DEF LeadPoolTypeOK, ExportRows
  <1>6. SentBySomeone'
    BY <1>2, <1>4 DEF PoolInv, SentBySomeone
  <1> QED BY <1>1, <1>3, <1>5, <1>6 DEF PoolInv

\* A step that writes no lead and no quota.
LEMMA PoolUntouched ==
    ASSUME PoolInv, UNCHANGED <<lead, consumer, aged, quota, reports, history>>,
           held' \in [Senders -> PoolLeads \cup {NoLeadHeld}],
           \A s \in Senders : held'[s] = held[s] \/ held'[s] = NoLeadHeld,
           industry' \in [Owners -> {"none", "active", "deleted"}],
           collecting' \subseteq {o \in Owners : industry'[o] # "none"},
           export' \in ExportRows, export' = export \/ ExportFits'
    PROVE  PoolInv'
  <1>1. /\ UNCHANGED <<settling, earlier, late, messaged, orphans, leaked, crossed>>
        /\ LeadPoolTypeOK
    BY DEF PoolInv, reports, history
  <1>2. ASSUME NEW o \in Owners PROVE Accounts(o)'
    <2>1. PartsKept(o)
      BY <1>1 DEF PartsKept, ClaimedToday, MessagedToday, SettlingToday, SettlingDone
    <2> QED BY <2>1, PartsKeptAccounts
  <1>3. ASSUME export' = export PROVE ExportFits'
    <2>1. \A o, status : Matching(o, status)' = Matching(o, status)
      BY DEF Matching, InPool
    <2> QED BY <1>3, <2>1, ExportKept DEF PoolInv
  <1>4. LeadPoolTypeOK'
    BY <1>1 DEF LeadPoolTypeOK, ExportRows
  <1>5. SentBySomeone'
    BY DEF PoolInv, SentBySomeone
  <1> QED BY <1>2, <1>3, <1>4, <1>5 DEF PoolInv

\* Where a step leaves quotas, histories and settlements in their types.
LEMMA RowsTyped ==
    ASSUME quota' \in [Owners -> QuotaRows],
           \A o \in Owners : quota'[o].sent + quota'[o].reserved <= SendLimit
    PROVE  /\ quota' \in [Owners -> [sent : 0..SendLimit, reserved : 0..SendLimit]]
           /\ \A o \in Owners : quota'[o].sent + quota'[o].reserved <= SendLimit
  BY DEF QuotaRows

LEMMA ClaimKeeps ==
    ASSUME PoolInv, NEW l \in PoolLeads, NEW s \in Senders, ClaimForDevice(s, l)
    PROVE  PoolInv'
  <1>1. /\ LeadPoolTypeOK /\ Become({l}, "claimed") /\ lead[l] = "pending"
        /\ {l} \in SUBSET PoolLeads /\ "claimed" \in Statuses \ {"absent"}
        /\ UNCHANGED <<aged, industry, collecting>>
        /\ UNCHANGED <<settling, earlier, late, messaged, orphans, leaked, crossed>>
        /\ consumer' = [consumer EXCEPT ![l] = s] /\ held' = [held EXCEPT ![s] = l]
        /\ Free(s) /\ OwnerOf[l] = OwnerOf[s]
    BY DEF PoolInv, ClaimForDevice, Statuses, reports, history
  <1>2. /\ quota' \in [Owners -> [sent : 0..SendLimit, reserved : 0..SendLimit]]
        /\ \A o \in Owners : quota'[o].sent + quota'[o].reserved <= SendLimit
        /\ \A o \in Owners : Accounts(o)'
    BY ClaimAccounts, RowsTyped
  <1>3. ExportFits'
    BY <1>1, WrittenExport
  <1>4. /\ export' \in ExportRows /\ lead' \in [PoolLeads -> Statuses]
        /\ \A x \in PoolLeads : lead'[x] = IF x \in {l} THEN "claimed" ELSE lead[x]
    BY <1>1, Written
  <1>5. LeadPoolTypeOK'
    <2>1. aged' \subseteq {x \in PoolLeads : lead'[x] # "absent"}
      BY <1>1, <1>4 DEF LeadPoolTypeOK
    <2>2. earlier' \subseteq {x \in PoolLeads : lead'[x] = "claimed"}
      BY <1>1, <1>4 DEF LeadPoolTypeOK
    <2>3. messaged' \subseteq {x \in PoolLeads : lead'[x] \in {"done", "replied", "converted"}}
      BY <1>1, <1>4 DEF LeadPoolTypeOK
    <2>4. /\ held' \in [Senders -> PoolLeads \cup {NoLeadHeld}]
          /\ \A t \in Senders : held'[t] # NoLeadHeld
                 => settling'[t] = "no" /\ OwnerOf[held'[t]] = OwnerOf[t]
      BY <1>1 DEF LeadPoolTypeOK, Free
    <2>5. consumer' \in [PoolLeads -> Senders \cup {Nobody}]
      BY <1>1 DEF LeadPoolTypeOK
    <2> QED BY <1>1, <1>2, <1>4, <2>1, <2>2, <2>3, <2>4, <2>5 DEF LeadPoolTypeOK, ExportRows
  <1>6. SentBySomeone'
    BY <1>1, <1>4 DEF PoolInv, SentBySomeone, LeadPoolTypeOK
  <1> QED BY <1>2, <1>3, <1>5, <1>6 DEF PoolInv

LEMMA ReportKeeps ==
    ASSUME PoolInv, NEW s \in Senders, NEW status \in {"done", "failed"}, Completes(s, status)
    PROVE  PoolInv'
  <1>1. /\ LeadPoolTypeOK /\ held[s] \in PoolLeads /\ held' = [held EXCEPT ![s] = NoLeadHeld]
        /\ UNCHANGED <<consumer, aged, industry, collecting, quota, orphans, leaked, crossed>>
    BY DEF PoolInv, Completes, LeadPoolTypeOK, history
  <1>2. /\ held' \in [Senders -> PoolLeads \cup {NoLeadHeld}] /\ held'[s] = NoLeadHeld
        /\ \A t \in Senders : t # s => held'[t] = held[t]
    BY <1>1 DEF LeadPoolTypeOK
  <1>3. CASE ~RowFound(s)
    <2>1. UNCHANGED <<lead, export, reports, history>>
      BY <1>3 DEF Completes
    <2>2. export' \in ExportRows
      BY <1>1, <2>1 DEF LeadPoolTypeOK, ExportRows
    <2>3. /\ industry' \in [Owners -> {"none", "active", "deleted"}]
          /\ collecting' \subseteq {o \in Owners : industry'[o] # "none"}
      BY <1>1 DEF LeadPoolTypeOK
    <2> QED BY <1>1, <1>2, <2>1, <2>2, <2>3, PoolUntouched
  <1>4. CASE RowFound(s)
    <2> DEFINE l == held[s]
    <2>1. /\ Become({l}, status) /\ {l} \in SUBSET PoolLeads /\ status \in Statuses \ {"absent"}
          /\ lead[l] = "claimed" /\ consumer[l] = s
          /\ settling' = [settling EXCEPT ![s] = status] /\ earlier' = earlier \ {l}
          /\ late' = IF l \in earlier THEN late \cup {s} ELSE late
          /\ messaged' = IF status = "done" THEN messaged \cup {l} ELSE messaged
      BY <1>1, <1>4 DEF Completes, RowFound, Statuses
    <2>2. \A o \in Owners : Accounts(o)'
      BY <1>4, ReportAccounts
    <2>3. ExportFits'
      BY <2>1, WrittenExport
    <2>4. /\ export' \in ExportRows /\ lead' \in [PoolLeads -> Statuses]
          /\ \A x \in PoolLeads : lead'[x] = IF x \in {l} THEN status ELSE lead[x]
      BY <1>1, <2>1, Written
    <2>5. LeadPoolTypeOK'
      <3>1. aged' \subseteq {x \in PoolLeads : lead'[x] # "absent"}
        BY <1>1, <2>4 DEF LeadPoolTypeOK
      <3>2. earlier' \subseteq {x \in PoolLeads : lead'[x] = "claimed"}
        BY <1>1, <2>1, <2>4 DEF LeadPoolTypeOK
      <3>3. messaged' \subseteq {x \in PoolLeads : lead'[x] \in {"done", "replied", "converted"}}
        BY <1>1, <2>1, <2>4 DEF LeadPoolTypeOK
      <3>4. /\ settling' \in [Senders -> {"no", "done", "failed"}] /\ settling'[s] # "no"
            /\ \A t \in Senders \ {s} : settling'[t] = settling[t]
        BY <1>1, <2>1 DEF LeadPoolTypeOK
      <3>5. late' \subseteq {t \in Senders : settling'[t] # "no"}
        BY <1>1, <2>1, <3>4 DEF LeadPoolTypeOK
      <3>6. \A t \in Senders : held'[t] # NoLeadHeld
                 => settling'[t] = "no" /\ OwnerOf[held'[t]] = OwnerOf[t]
        BY <1>1, <1>2, <3>4 DEF LeadPoolTypeOK
      <3> QED BY <1>1, <1>2, <2>4, <3>1, <3>2, <3>3, <3>4, <3>5, <3>6
              DEF LeadPoolTypeOK, ExportRows
    <2>6. SentBySomeone'
      BY <1>1, <2>1, <2>4 DEF PoolInv, SentBySomeone
    <2> QED BY <2>2, <2>3, <2>5, <2>6 DEF PoolInv
  <1> QED BY <1>3, <1>4

LEMMA SettlementKeeps ==
    ASSUME PoolInv, NEW s \in Senders, Settles(s) \/ SettlementLost(s)
    PROVE  PoolInv'
  <1>1. /\ LeadPoolTypeOK /\ settling[s] # "no"
        /\ UNCHANGED <<lead, consumer, aged, held, industry, collecting, export,
                       earlier, messaged, orphans>>
        /\ settling' = [settling EXCEPT ![s] = "no"] /\ late' = late \ {s}
        /\ OwnerOf[s] \in Owners
    BY PoolConstants DEF PoolInv, Settles, SettlementLost
  <1>2. \A o \in Owners : Accounts(o)'
    BY SettleAccounts, LossAccounts
  <1>3. /\ quota' \in [Owners -> [sent : 0..SendLimit, reserved : 0..SendLimit]]
        /\ \A o \in Owners : quota'[o].sent + quota'[o].reserved <= SendLimit
    <2>1. CASE Settles(s)
      BY <2>1, SettleAccounts, RowsTyped
    <2>2. CASE SettlementLost(s)
      <3>1. quota' = quota
        BY <2>2 DEF SettlementLost
      <3> QED BY <1>1, <3>1 DEF LeadPoolTypeOK
    <2> QED BY <2>1, <2>2
  <1>4. leaked' \subseteq Owners /\ crossed' \subseteq Owners
    BY <1>1 DEF LeadPoolTypeOK, Settles, SettlementLost
  <1>5. /\ settling' \in [Senders -> {"no", "done", "failed"}]
        /\ late' \subseteq {t \in Senders : settling'[t] # "no"}
        /\ \A t \in Senders : settling[t] = "no" => settling'[t] = "no"
    BY <1>1 DEF LeadPoolTypeOK
  <1>6. LeadPoolTypeOK'
    BY <1>1, <1>3, <1>4, <1>5 DEF LeadPoolTypeOK
  <1>7. \A o, status : Matching(o, status)' = Matching(o, status)
    BY <1>1 DEF Matching, InPool
  <1>8. ExportFits' /\ SentBySomeone'
    BY <1>1, <1>7, ExportKept DEF PoolInv, SentBySomeone
  <1> QED BY <1>2, <1>6, <1>8 DEF PoolInv

LEMMA ReleaseKeeps ==
    ASSUME PoolInv, NEW o \in Owners, NEW rows \in SUBSET PoolLeads, NEW owned \in BOOLEAN,
           TakeBack(o, rows, owned)
    PROVE  PoolInv'
  <1>1. /\ LeadPoolTypeOK /\ Become(rows, "pending") /\ "pending" \in Statuses \ {"absent"}
        /\ \A l \in rows : lead[l] = "claimed"
        /\ consumer' = [l \in PoolLeads |-> IF l \in rows THEN Nobody ELSE consumer[l]]
        /\ earlier' = earlier \ rows
        /\ UNCHANGED <<aged, held, industry, collecting, settling, late, messaged, orphans>>
        /\ leaked' \subseteq Owners /\ crossed' \subseteq Owners
    BY DEF PoolInv, TakeBack, Statuses, LeadPoolTypeOK
  <1>2. /\ quota' \in [Owners -> [sent : 0..SendLimit, reserved : 0..SendLimit]]
        /\ \A p \in Owners : quota'[p].sent + quota'[p].reserved <= SendLimit
        /\ \A p \in Owners : Accounts(p)'
    BY ReleaseAccounts, RowsTyped
  <1>3. ExportFits'
    BY <1>1, WrittenExport
  <1>4. /\ export' \in ExportRows /\ lead' \in [PoolLeads -> Statuses]
        /\ \A x \in PoolLeads : lead'[x] = IF x \in rows THEN "pending" ELSE lead[x]
    BY <1>1, Written
  <1>5. LeadPoolTypeOK'
    <2>1. aged' \subseteq {x \in PoolLeads : lead'[x] # "absent"}
      BY <1>1, <1>4 DEF LeadPoolTypeOK
    <2>2. earlier' \subseteq {x \in PoolLeads : lead'[x] = "claimed"}
      BY <1>1, <1>4 DEF LeadPoolTypeOK
    <2>3. messaged' \subseteq {x \in PoolLeads : lead'[x] \in {"done", "replied", "converted"}}
      BY <1>1, <1>4 DEF LeadPoolTypeOK
    <2>4. consumer' \in [PoolLeads -> Senders \cup {Nobody}]
      BY <1>1 DEF LeadPoolTypeOK
    <2> QED BY <1>1, <1>2, <1>4, <2>1, <2>2, <2>3, <2>4 DEF LeadPoolTypeOK, ExportRows
  <1>6. SentBySomeone'
    BY <1>1, <1>4 DEF PoolInv, SentBySomeone
  <1> QED BY <1>2, <1>3, <1>5, <1>6 DEF PoolInv

LEMMA DayKeeps ==
    ASSUME PoolInv, NewDay
    PROVE  PoolInv'
  <1>1. /\ LeadPoolTypeOK
        /\ UNCHANGED <<lead, consumer, aged, held, industry, collecting, settling, export>>
    BY DEF PoolInv, NewDay
  <1>2. /\ quota' \in [Owners -> [sent : 0..SendLimit, reserved : 0..SendLimit]]
        /\ \A o \in Owners : quota'[o].sent + quota'[o].reserved <= SendLimit
    BY PoolConstants DEF NewDay
  <1>3. /\ orphans' \in [Owners -> Nat] /\ leaked' = {} /\ crossed' = {} /\ messaged' = {}
        /\ earlier' = {l \in PoolLeads : lead'[l] = "claimed"}
        /\ late' = {s \in Senders : settling'[s] # "no"}
    BY <1>1 DEF NewDay
  <1>4. LeadPoolTypeOK'
    BY <1>1, <1>2, <1>3 DEF LeadPoolTypeOK
  <1>5. \A o \in Owners : Accounts(o)'
    BY <1>4, NewDayAccounts
  <1>6. \A o, status : Matching(o, status)' = Matching(o, status)
    BY <1>1 DEF Matching, InPool
  <1>7. ExportFits' /\ SentBySomeone'
    BY <1>1, <1>6, ExportKept DEF PoolInv, SentBySomeone
  <1> QED BY <1>4, <1>5, <1>7 DEF PoolInv

LEMMA DeletionKeeps ==
    ASSUME PoolInv, NEW o \in Owners, NEW cleaned \in BOOLEAN, DeleteIndustry(o, cleaned)
    PROVE  PoolInv'
  <1>1. /\ LeadPoolTypeOK /\ industry[o] = "active"
        /\ industry' = [industry EXCEPT ![o] = "deleted"]
        /\ UNCHANGED <<held, settling, late, collecting, quota, export, leaked, crossed>>
    BY DEF PoolInv, DeleteIndustry
  <1>2. orphans' \in [Owners -> Nat] /\ \A p \in Owners : Accounts(p)'
    BY DeletionAccounts
  <1>3. CASE ~cleaned
    <2>1. UNCHANGED <<lead, consumer, aged, earlier, messaged, orphans>>
      BY <1>3 DEF DeleteIndustry
    <2>2. LeadPoolTypeOK'
      BY <1>1, <2>1 DEF LeadPoolTypeOK
    <2>3. \A p, status : Matching(p, status)' = Matching(p, status)
      BY <2>1 DEF Matching, InPool
    <2>4. ExportFits' /\ SentBySomeone'
      BY <1>1, <2>1, <2>3, ExportKept DEF PoolInv, SentBySomeone
    <2> QED BY <1>2, <2>2, <2>4 DEF PoolInv
  <1>4. CASE cleaned
    <2>1. /\ lead' = [l \in PoolLeads |-> IF OwnerOf[l] = o THEN "absent" ELSE lead[l]]
          /\ consumer' = [l \in PoolLeads |-> IF OwnerOf[l] = o THEN Nobody ELSE consumer[l]]
          /\ aged' = aged \ InPool(o) /\ earlier' = earlier \ InPool(o)
          /\ messaged' = messaged \ InPool(o)
      BY <1>4 DEF DeleteIndustry
    <2>2. /\ lead' \in [PoolLeads -> Statuses]
          /\ consumer' \in [PoolLeads -> Senders \cup {Nobody}]
      BY <1>1, <2>1 DEF LeadPoolTypeOK, Statuses
    <2>3. /\ industry' \in [Owners -> {"none", "active", "deleted"}]
          /\ collecting' \subseteq {p \in Owners : industry'[p] # "none"}
      BY <1>1 DEF LeadPoolTypeOK
    <2>4. /\ aged' \subseteq {l \in PoolLeads : lead'[l] # "absent"}
          /\ earlier' \subseteq {l \in PoolLeads : lead'[l] = "claimed"}
          /\ messaged' \subseteq {l \in PoolLeads : lead'[l] \in {"done", "replied", "converted"}}
      BY <1>1, <2>1 DEF LeadPoolTypeOK, InPool
    <2>5. LeadPoolTypeOK'
      BY <1>1, <1>2, <2>2, <2>3, <2>4 DEF LeadPoolTypeOK
    <2>6. \A p, status : Matching(p, status)' \subseteq Matching(p, status)
      BY <2>1 DEF Matching, InPool
    <2>7. ExportFits'
      BY <1>1, <2>6, ExportKept DEF PoolInv
    <2>8. SentBySomeone'
      BY <2>1 DEF PoolInv, SentBySomeone
    <2> QED BY <1>2, <2>5, <2>7, <2>8 DEF PoolInv
  <1> QED BY <1>3, <1>4

LEMMA PoolStep == PoolInv /\ [LeadPoolNext]_poolVars => PoolInv'
  <1> SUFFICES ASSUME PoolInv, [LeadPoolNext]_poolVars PROVE PoolInv'
    OBVIOUS
  <1>1. /\ LeadPoolTypeOK /\ ExportFits /\ Users \subseteq Owners /\ export \in ExportRows
        /\ held \in [Senders -> PoolLeads \cup {NoLeadHeld}]
    BY PoolConstants DEF PoolInv, LeadPoolTypeOK, ExportRows
  <1>2. CASE UNCHANGED poolVars
    <2>1. UNCHANGED <<lead, consumer, aged, held, industry, collecting, quota, export, reports, history>>
      BY <1>2 DEF poolVars
    <2>2. /\ industry' \in [Owners -> {"none", "active", "deleted"}]
          /\ collecting' \subseteq {p \in Owners : industry'[p] # "none"}
      BY <1>1, <2>1 DEF LeadPoolTypeOK
    <2> QED BY <1>1, <2>1, <2>2, PoolUntouched
  <1>3. ASSUME NEW o \in Users, CreateIndustry(o) \/ TriggerCollect(o) \/ CollectEnds(o)
        PROVE  PoolInv'
    <2>1. UNCHANGED <<lead, consumer, aged, held, quota, export, reports, history>>
      BY <1>3 DEF CreateIndustry, TriggerCollect, CollectEnds
    <2>2. /\ industry' \in [Owners -> {"none", "active", "deleted"}]
          /\ collecting' \subseteq {p \in Owners : industry'[p] # "none"}
      BY <1>1, <1>3 DEF CreateIndustry, TriggerCollect, CollectEnds, LeadPoolTypeOK
    <2> QED BY <1>1, <2>1, <2>2, PoolUntouched
  <1>4. ASSUME NEW o \in Users, NEW yes \in BOOLEAN, Replenish(o, yes) PROVE PoolInv'
    <2>1. UNCHANGED <<lead, consumer, aged, held, industry, quota, export, reports, history>>
      BY <1>4 DEF Replenish
    <2>2. /\ industry' \in [Owners -> {"none", "active", "deleted"}]
          /\ collecting' \subseteq {p \in Owners : industry'[p] # "none"}
      BY <1>1, <1>4, <2>1 DEF Replenish, LeadPoolTypeOK
    <2> QED BY <1>1, <2>1, <2>2, PoolUntouched
  <1>5. ASSUME NEW o \in Users, NEW yes \in BOOLEAN, DeleteIndustry(o, yes) PROVE PoolInv'
    BY <1>1, <1>5, DeletionKeeps
  <1>6. ASSUME NEW o \in Users, NEW status \in {AnyStatus, "pending", "done"},
               ExportCounts(o, status)
        PROVE  PoolInv'
    <2>1. /\ UNCHANGED <<lead, consumer, aged, held, industry, collecting, quota, reports, history>>
          /\ export' = [stage |-> "counted", owner |-> o, status |-> status, whole |-> TRUE,
                        entered |-> FALSE]
          /\ Cardinality(Matching(o, status)) <= ExportLimit
      BY <1>6 DEF ExportCounts, NoExport, CountAccepts
    <2>2. /\ export'.stage = "counted" /\ export'.owner = o /\ export'.status = status
          /\ export' \in ExportRows
      BY <1>1, <2>1 DEF Statuses, ExportRows
    <2>3. Matching(o, status)' = Matching(o, status)
      BY <2>1 DEF Matching, InPool
    <2>4. Cardinality(Matching(export.owner, export.status))' <= ExportLimit
      BY <2>1, <2>2, <2>3 DEF Matching, InPool
    <2>5. ExportFits'
      BY <2>2, <2>4 DEF ExportFits, ExportComplete
    <2> QED BY <1>1, <2>1, <2>2, <2>5, PoolUntouched DEF LeadPoolTypeOK
  <1>7. CASE ExportStreams
    <2>1. /\ UNCHANGED <<lead, consumer, aged, held, industry, collecting, quota, reports, history>>
          /\ export.stage = "counted"
          /\ export' = [export EXCEPT !.stage = "streamed",
                            !.whole = Cardinality(Matching(export.owner, export.status))
                                          <= ExportLimit]
      BY <1>7 DEF ExportStreams
    <2>2. PICK fits \in BOOLEAN :
              fits = (Cardinality(Matching(export.owner, export.status)) <= ExportLimit)
      BY (Cardinality(Matching(export.owner, export.status)) <= ExportLimit) \in BOOLEAN, Zenon
    <2>3. export' = [export EXCEPT !.stage = "streamed", !.whole = fits]
      BY <2>1, <2>2, Zenon
    <2>4. /\ export' \in ExportRows
          /\ export'.stage = "streamed" /\ export'.entered = export.entered
          /\ export'.whole = fits
      BY <1>1, <2>3 DEF LeadPoolTypeOK, ExportRows
    <2>5. ExportFits'
      BY <1>1, <2>1, <2>2, <2>4 DEF ExportFits, ExportComplete
    <2> QED BY <1>1, <2>1, <2>4, <2>5, PoolUntouched DEF LeadPoolTypeOK
  <1>8. CASE ExportEnds
    <2>1. /\ UNCHANGED <<lead, consumer, aged, held, industry, collecting, quota, reports, history>>
          /\ export' = [stage |-> "none", owner |-> export.owner, status |-> AnyStatus,
                        whole |-> TRUE, entered |-> FALSE]
      BY <1>8 DEF ExportEnds, NoExport
    <2>2. /\ export' \in ExportRows
          /\ export'.stage = "none"
      BY <1>1, <2>1 DEF LeadPoolTypeOK, ExportRows
    <2>3. ExportFits'
      BY <2>2 DEF ExportFits, ExportComplete
    <2> QED BY <1>1, <2>1, <2>2, <2>3, PoolUntouched DEF LeadPoolTypeOK
  <1>9. ASSUME NEW l \in PoolLeads, Collected(l) PROVE PoolInv'
    <2>1. /\ Become({l}, "pending") /\ lead[l] = "absent"
          /\ UNCHANGED <<quota, held, industry, collecting, aged, consumer, reports, history>>
          /\ "pending" \in Statuses \ {"absent", "claimed"}
          /\ consumer' \in [PoolLeads -> Senders \cup {Nobody}]
      BY <1>1, <1>9 DEF Collected, Statuses, LeadPoolTypeOK
    <2> QED BY <2>1, WrittenKept
  <1>10. ASSUME NEW l \in PoolLeads, RetryFailedLead(l) PROVE PoolInv'
    <2>1. /\ Become({l}, "pending") /\ lead[l] = "failed"
          /\ UNCHANGED <<quota, held, industry, collecting, aged, reports, history>>
          /\ consumer' \in [PoolLeads -> Senders \cup {Nobody}]
          /\ \A x \in PoolLeads : x # l => consumer'[x] = consumer[x]
          /\ "pending" \in Statuses \ {"absent", "claimed"}
      BY <1>1, <1>10 DEF RetryFailedLead, Statuses, LeadPoolTypeOK
    <2> QED BY <2>1, WrittenKept
  <1>11. ASSUME NEW l \in PoolLeads, NEW status \in {"replied", "converted", "done"},
                MarkLead(l, status)
         PROVE  PoolInv'
    <2>1. /\ Become({l}, status) /\ lead[l] \in {"done", "replied", "converted"}
          /\ UNCHANGED <<quota, held, industry, collecting, aged, consumer, reports, history>>
          /\ status \in Statuses \ {"absent", "claimed"} /\ status # "pending"
          /\ consumer' \in [PoolLeads -> Senders \cup {Nobody}]
      BY <1>1, <1>11 DEF MarkLead, Statuses, LeadPoolTypeOK
    <2> QED BY <2>1, WrittenKept
  <1>12. ASSUME NEW l \in PoolLeads, NEW s \in Senders, ClaimForDevice(s, l) PROVE PoolInv'
    BY <1>12, ClaimKeeps
  <1>13. ASSUME NEW s \in Senders, NEW status \in {"done", "failed"}, Completes(s, status)
         PROVE  PoolInv'
    BY <1>13, ReportKeeps
  <1>14. ASSUME NEW s \in Senders, Settles(s) \/ SettlementLost(s) PROVE PoolInv'
    BY <1>14, SettlementKeeps
  <1>15. ASSUME NEW s \in Senders, ClaimLost(s) PROVE PoolInv'
    <2>1. /\ held' = [held EXCEPT ![s] = NoLeadHeld]
          /\ UNCHANGED <<lead, consumer, aged, industry, collecting, quota, export, reports, history>>
      BY <1>15 DEF ClaimLost
    <2>2. /\ held' \in [Senders -> PoolLeads \cup {NoLeadHeld}]
          /\ \A t \in Senders : held'[t] = held[t] \/ held'[t] = NoLeadHeld
          /\ industry' \in [Owners -> {"none", "active", "deleted"}]
          /\ collecting' \subseteq {p \in Owners : industry'[p] # "none"}
      BY <1>1, <2>1 DEF LeadPoolTypeOK
    <2> QED BY <1>1, <2>1, <2>2, PoolUntouched
  <1>16. ASSUME NEW o \in Users, NEW rows \in (SUBSET PoolLeads) \ {{}}, NEW owned \in BOOLEAN,
                TakeBack(o, rows, owned)
         PROVE  PoolInv'
    BY <1>1, <1>16, ReleaseKeeps
  <1>17. CASE NewDay
    BY <1>17, DayKeeps
  <1> QED BY <1>2, <1>3, <1>4, <1>5, <1>6, <1>7, <1>8, <1>9, <1>10, <1>11, <1>12, <1>13, <1>14,
             <1>15, <1>16, <1>17 DEF LeadPoolNext

LEMMA PoolInvariant == LeadPoolSpec => []PoolInv
  <1>1. LeadPoolInit => PoolInv
    <2> SUFFICES ASSUME LeadPoolInit PROVE PoolInv
      OBVIOUS
    <2>1. /\ lead \in [PoolLeads -> {"absent", "pending"}]
          /\ quota = [o \in Owners |-> [sent |-> 0, reserved |-> 0]]
          /\ orphans = [o \in Owners |-> 0] /\ SendLimit \in Nat
          /\ settling = [s \in Senders |-> "no"] /\ messaged = {}
          /\ held = [s \in Senders |-> NoLeadHeld]
      BY PoolConstants DEF LeadPoolInit
    <2>2. PICK o \in Users : export = [stage |-> "none", owner |-> o, status |-> AnyStatus,
                                       whole |-> TRUE, entered |-> FALSE]
      BY DEF LeadPoolInit, NoExport
    <2>3. ExportFits
      BY <2>2 DEF ExportFits, ExportComplete
    <2>4. export \in [stage : {"none", "counted", "streamed"}, owner : Owners,
                      status : Statuses \cup {AnyStatus}, whole : BOOLEAN, entered : BOOLEAN]
      BY <2>2, PoolConstants
    <2>5. LeadPoolTypeOK
      BY <2>1, <2>4 DEF LeadPoolInit, LeadPoolTypeOK, Statuses
    <2>6. ASSUME NEW p \in Owners PROVE Accounts(p)
      <3>1. /\ ClaimedToday(p) = {} /\ MessagedToday(p) = {} /\ SettlingToday(p) = {}
            /\ orphans[p] = 0 /\ quota[p].reserved = 0
        BY <2>1 DEF ClaimedToday, MessagedToday, SettlingToday
      <3> QED BY <2>5, <3>1, AccountsOfNothing
    <2>7. SentBySomeone
      BY <2>1 DEF SentBySomeone
    <2> QED BY <2>3, <2>5, <2>6, <2>7 DEF PoolInv
  <1> QED BY <1>1, PoolStep, PTL DEF LeadPoolSpec

\* The reservations and sends of a day fit its limit, an old claim is a claimed
\* row, and a sender settles one report at a time, before it claims again.
THEOREM PoolTypes == LeadPoolSpec => []LeadPoolTypeOK
  BY PoolInvariant, PTL DEF PoolInv

\* For any number of owners, leads and senders the stats page accounts for every
\* reservation and every message of the day, unless one of the failures it names
\* has happened: whatever was deleted, taken back, retried and collected again.
THEOREM FiguresHold == LeadPoolSpec => []ReservedAccountedFor
  <1>1. PoolInv => ReservedAccountedFor
    <2> SUFFICES ASSUME PoolInv, NEW o \in Owners
                 PROVE  LET shown == IndustryStats(o)
                            accounted == QueueStats(InPool(o) \ earlier).claimed
                                + Cardinality(Settling(o, {"done", "failed"}) \ late) + orphans[o]
                        IN /\ shown.global_reserved < accounted => o \in crossed
                           /\ shown.global_reserved > accounted => o \in leaked
                           /\ shown.global_sent_today + Cardinality(Settling(o, {"done"}))
                                  < Effects(InPool(o) \cap messaged).sent => o \in crossed \cup leaked
      BY DEF ReservedAccountedFor
    <2>1. LeadPoolTypeOK
      BY DEF PoolInv
    <2>2. {l \in InPool(o) \ earlier : lead[l] \in {"claimed"}} = ClaimedToday(o)
      BY DEF InPool, ClaimedToday
    <2>3. {l \in InPool(o) \cap messaged : lead[l] \in {"done", "replied", "converted"}}
              = MessagedToday(o)
      BY <2>1 DEF InPool, MessagedToday, LeadPoolTypeOK
    <2>4. /\ Settling(o, {"done", "failed"}) \ late = SettlingToday(o)
          /\ Settling(o, {"done"}) = SettlingDone(o)
      BY <2>1 DEF Settling, SettlingToday, SettlingDone, LeadPoolTypeOK
    <2>5. /\ QueueStats(InPool(o) \ earlier).claimed = Cardinality(ClaimedToday(o))
          /\ Effects(InPool(o) \cap messaged).sent = Cardinality(MessagedToday(o))
      BY <2>2, <2>3 DEF QueueStats, Effects, With
    <2>6. /\ IndustryStats(o).global_reserved = quota[o].reserved
          /\ IndustryStats(o).global_sent_today = quota[o].sent
      BY DEF IndustryStats, QuotaState
    <2>7. Accounts(o)
      BY DEF PoolInv
    <2> QED BY <2>4, <2>5, <2>6, <2>7 DEF Accounts, AccountedToday
  <1> QED BY <1>1, PoolInvariant, PTL

\* The figures of a table whose rows are the parts of a set by a key.
LEMMA TableAddsUp ==
    ASSUME NEW L \in SUBSET PoolLeads, NEW K, IsFiniteSet(K), NEW key \in [L -> K], NEW f,
           f = [k \in K |-> f[k]], \A k \in K : f[k] = Cardinality({l \in L : key[l] = k})
    PROVE  SumOf(f) = Cardinality(L)
  <1>1. IsFiniteSet(L) /\ DOMAIN f = K
    BY PoolConstants, FS_Subset
  <1>2. SumOf(f) = Sum(f, K)
    BY <1>1 DEF SumOf, FoldFunction, Sum
  <1> QED BY <1>1, <1>2, SumParts

LEMMA SourceTypesAddUp ==
    ASSUME NEW o
    PROVE  SumOf([type \in DOMAIN SourceTypes(o) |-> SourceTypes(o)[type].total])
           = Cardinality(Recent(o))
  <1> DEFINE K == {"target", "keyword", "unknown"}
             L == Recent(o)
             key == [l \in L |-> TypeOf(l)]
             f == [type \in DOMAIN SourceTypes(o) |-> SourceTypes(o)[type].total]
  <1>1. DOMAIN SourceTypes(o) = K
    BY DEF SourceTypes
  <1>2. IsFiniteSet(K)
    <2>1. IsFiniteSet({"target"} \cup {"keyword"} \cup {"unknown"})
      BY FS_Singleton, FS_Union
    <2>2. K = {"target"} \cup {"keyword"} \cup {"unknown"}
      OBVIOUS
    <2> QED BY <2>1, <2>2
  <1>3. key \in [L -> K]
    BY DEF TypeOf
  <1>4. ASSUME NEW k \in K PROVE f[k] = Cardinality({l \in L : key[l] = k})
    <2>1. {l \in L : key[l] = k} = {l \in Recent(o) : TypeOf(l) = k}
      OBVIOUS
    <2>2. f[k] = Cardinality({l \in Recent(o) : TypeOf(l) = k})
      BY <1>1 DEF SourceTypes, QueueStats
    <2> QED BY <2>1, <2>2
  <1>5. L \subseteq PoolLeads /\ f = [k \in K |-> f[k]]
    BY <1>1 DEF Recent, InPool
  <1> HIDE DEF K, L, key, f
  <1>6. SumOf(f) = Cardinality(L)
    BY <1>2, <1>3, <1>4, <1>5, TableAddsUp
  <1> QED BY <1>6 DEF f, L

\* Unless creators and leads without a source overwrite each other.
LEMMA KeywordsAddUp ==
    ASSUME NEW o, NEW last \in Unlabelled, RawKeys(o) \cap Unlabelled \subseteq {last}
    PROVE  SumOf([k \in DOMAIN KeywordFunnel(o, last) |-> KeywordFunnel(o, last)[k].total])
           = Cardinality(Recent(o))
  <1> DEFINE K == DOMAIN KeywordFunnel(o, last)
             L == Recent(o)
             key == [l \in L |-> IF SourceOf[l] \in Unlabelled THEN "unknown" ELSE SourceOf[l]]
             f == [k \in DOMAIN KeywordFunnel(o, last) |-> KeywordFunnel(o, last)[k].total]
  <1>1. K = (RawKeys(o) \ Unlabelled)
            \cup (IF RawKeys(o) \cap Unlabelled = {} THEN {} ELSE {"unknown"})
    BY DEF KeywordFunnel
  <1>2. L \subseteq PoolLeads /\ f = [k \in K |-> f[k]]
    BY DEF Recent, InPool
  <1>3. \A l \in L : SourceOf[l] \in {"none", "creator", "keyword", "target"}
                     /\ SourceOf[l] \in RawKeys(o)
    BY <1>2, LeadPoolAssumption DEF LeadPoolAssumption, RawKeys
  <1>4. RawKeys(o) \subseteq {"none", "creator", "keyword", "target"}
    BY <1>3 DEF RawKeys
  <1>5. IsFiniteSet(K)
    <2>1. IsFiniteSet({"keyword"} \cup {"target"} \cup {"unknown"})
      BY FS_Singleton, FS_Union
    <2>2. K \subseteq {"keyword"} \cup {"target"} \cup {"unknown"}
      BY <1>1, <1>4 DEF Unlabelled
    <2> QED BY <2>1, <2>2, FS_Subset
  <1>6. key \in [L -> K]
    BY <1>1, <1>3
  <1>7. ASSUME NEW k \in K PROVE f[k] = Cardinality({l \in L : key[l] = k})
    <2> DEFINE raw == IF k = "unknown" THEN last ELSE k
    <2>1. ASSUME NEW l \in L PROVE key[l] = k <=> SourceOf[l] = raw
      <3>1. key[l] = IF SourceOf[l] \in Unlabelled THEN "unknown" ELSE SourceOf[l]
        OBVIOUS
      <3>2. SourceOf[l] \in Unlabelled => SourceOf[l] = last
        BY <1>3
      <3>3. k # "unknown" => k \notin Unlabelled
        BY <1>1
      <3>4. SourceOf[l] # "unknown" /\ last \in Unlabelled
        BY <1>3
      <3> HIDE DEF key, K
      <3> QED BY <3>1, <3>2, <3>3, <3>4
    <2>2. {l \in L : key[l] = k} = {l \in L : SourceOf[l] = raw}
      BY <2>1
    <2>3. KeywordFunnel(o, last)[k] = QueueStats({l \in Recent(o) : SourceOf[l] = raw})
      BY <1>1 DEF KeywordFunnel
    <2>4. f[k] = Cardinality({l \in L : SourceOf[l] = raw})
      BY <2>3 DEF QueueStats
    <2> QED BY <2>2, <2>4
  <1> HIDE DEF K, L, key, f
  <1>8. SumOf(f) = Cardinality(L)
    BY <1>2, <1>5, <1>6, <1>7, TableAddsUp
  <1> QED BY <1>8 DEF f, L

\* What was sent is split by who sent it.
LEMMA DevicesAddUp ==
    ASSUME PoolInv, NEW o, NEW what \in {"sent", "replied", "converted"}
    PROVE  SumOf([s \in Senders |-> EffectsOfDevice(o, s)[what]]) = Effects(Recent(o))[what]
  <1> DEFINE shown == CASE what = "sent" -> {"done", "replied", "converted"}
                        [] what = "replied" -> {"replied", "converted"}
                        [] what = "converted" -> {"converted"}
             L == {l \in Recent(o) : lead[l] \in shown}
             key == [l \in L |-> consumer[l]]
             f == [s \in Senders |-> EffectsOfDevice(o, s)[what]]
  <1>1. \A M : Effects(M)[what] = Cardinality({l \in M : lead[l] \in shown})
    BY DEF Effects, With
  <1>2. shown \subseteq {"done", "replied", "converted"}
    OBVIOUS
  <1>3. L \subseteq PoolLeads
    BY DEF Recent, InPool
  <1>4. key \in [L -> Senders]
    BY <1>2, <1>3 DEF PoolInv, SentBySomeone
  <1>5. ASSUME NEW s \in Senders PROVE f[s] = Cardinality({l \in L : key[l] = s})
    <2> DEFINE M == {l \in Recent(o) : consumer[l] = s}
    <2>1. {l \in M : lead[l] \in shown} = {l \in L : key[l] = s}
      OBVIOUS
    <2>2. f[s] = Effects(M)[what]
      BY DEF EffectsOfDevice
    <2> QED BY <1>1, <2>1, <2>2
  <1>6. IsFiniteSet(Senders) /\ f = [s \in Senders |-> f[s]]
    BY LeadPoolAssumption DEF LeadPoolAssumption
  <1>7. Effects(Recent(o))[what] = Cardinality(L)
    BY <1>1
  <1> HIDE DEF L, key, f
  <1>8. SumOf(f) = Cardinality(L)
    BY <1>3, <1>4, <1>5, <1>6, TableAddsUp
  <1> QED BY <1>7, <1>8 DEF f

\* The source types, the keywords and the devices of the funnel add up, for any
\* number of leads, owners and senders, whatever was deleted and collected again.
THEOREM PartsAddUp == LeadPoolSpec => []FunnelAddsUp
  <1>1. PoolInv => FunnelAddsUp
    <2> SUFFICES ASSUME PoolInv, NEW o \in Owners, NEW last \in Unlabelled
                 PROVE  LET n == IndustryStats(o).total_tasks - Cardinality(aged \cap InPool(o))
                            page == IndustryFunnel(o, last)
                        IN /\ SumOf([type \in DOMAIN page.source_types |->
                                        page.source_types[type].total]) = n
                           /\ RawKeys(o) \cap Unlabelled \subseteq {last} =>
                                 SumOf([k \in DOMAIN page.keywords |-> page.keywords[k].total]) = n
                           /\ \A what \in {"sent", "replied", "converted"} :
                                 SumOf([s \in Senders |-> EffectsOfDevice(o, s)[what]])
                                 = Effects(Recent(o))[what]
      BY DEF FunnelAddsUp
    <2>1. IndustryStats(o).total_tasks - Cardinality(aged \cap InPool(o)) = Cardinality(Recent(o))
      <3>1. IsFiniteSet(InPool(o))
        BY PoolConstants, FS_Subset DEF InPool
      <3>2. Cardinality(Recent(o)) = Cardinality(InPool(o)) - Cardinality(InPool(o) \cap aged)
        BY <3>1, FS_Difference DEF Recent
      <3>3. InPool(o) \cap aged = aged \cap InPool(o)
        OBVIOUS
      <3>4. IndustryStats(o).total_tasks = Cardinality(InPool(o))
        BY DEF IndustryStats, QueueStats
      <3> QED BY <3>2, <3>3, <3>4
    <2>2. /\ IndustryFunnel(o, last).source_types = SourceTypes(o)
          /\ IndustryFunnel(o, last).keywords = KeywordFunnel(o, last)
      BY DEF IndustryFunnel
    <2> QED BY <2>1, <2>2, SourceTypesAddUp, KeywordsAddUp, DevicesAddUp
  <1> QED BY <1>1, PoolInvariant, PTL

\* The plan of the funnel page counts the owner's leads and those of the other
\* owners of the name, however many there are: it advises less, for that reason alone.
THEOREM PlanCautious == LeadPoolSpec => []PlanErrsByOthersLeads
  <1> DEFINE Awaited == {"pending", "claimed"}
             low(n) == n < DailyCapacity * ThresholdDays
             deficit(n) == DailyCapacity * InventoryDays > n
  <1>1. ASSUME NEW L
        PROVE  ReplenishmentPlan(L).should_replenish
               <=> low(With(L, Awaited)) \/ deficit(With(L, Awaited))
    BY DEF ReplenishmentPlan, InventoryStats
  <1>2. DailyCapacity * ThresholdDays \in Nat /\ DailyCapacity * InventoryDays \in Nat
    <2>1. DailyCapacity \in Nat /\ ThresholdDays \in Nat /\ InventoryDays \in Nat
      BY LeadPoolAssumption DEF LeadPoolAssumption
    <2> QED BY <2>1
  <1>3. ASSUME NEW o \in Owners
        PROVE  /\ ReplenishmentPlan(Slug).should_replenish
                      => ReplenishmentPlan(InPool(o)).should_replenish
               /\ ReplenishmentPlan(InPool(o)).should_replenish
                  /\ ~ReplenishmentPlan(Slug).should_replenish =>
                      \E l \in PoolLeads : OwnerOf[l] # o /\ lead[l] \in Awaited
    <2> DEFINE own == {l \in InPool(o) : lead[l] \in Awaited}
               all == {l \in Slug : lead[l] \in Awaited}
    <2>1. own \subseteq all /\ all \subseteq PoolLeads
      BY DEF InPool, Slug
    <2>2. /\ Cardinality(own) \in Nat /\ Cardinality(all) \in Nat
          /\ Cardinality(own) <= Cardinality(all)
      <3> HIDE DEF own, all
      <3> QED BY <2>1, PoolConstants, FS_Subset, FS_CardinalityType
    <2>3. With(InPool(o), Awaited) = Cardinality(own) /\ With(Slug, Awaited) = Cardinality(all)
      BY DEF With
    <2>4. ASSUME \A l \in PoolLeads : lead[l] \in Awaited => OwnerOf[l] = o
          PROVE  all = own
      BY <2>4 DEF InPool, Slug
    <2> HIDE DEF own, all, Awaited
    <2>5. low(Cardinality(all)) \/ deficit(Cardinality(all))
            => low(Cardinality(own)) \/ deficit(Cardinality(own))
      BY <1>2, <2>2
    <2> HIDE DEF low, deficit
    <2>6. ReplenishmentPlan(Slug).should_replenish => ReplenishmentPlan(InPool(o)).should_replenish
      BY <1>1, <2>3, <2>5
    <2>7. ASSUME all = own
          PROVE  ReplenishmentPlan(InPool(o)).should_replenish
                 => ReplenishmentPlan(Slug).should_replenish
      BY <1>1, <2>3, <2>7
    <2> QED BY <2>4, <2>6, <2>7
  <1>4. ASSUME NEW o \in Owners
        PROVE  IndustryFunnel(o, "none").replenishment = ReplenishmentPlan(Slug)
    BY DEF IndustryFunnel
  <1>5. PlanErrsByOthersLeads
    BY <1>3, <1>4 DEF PlanErrsByOthersLeads
  <1> QED BY <1>5, PTL

\* An export of any size misses a lead only if one entered its filter after the
\* count.
THEOREM ExportWhole == LeadPoolSpec => []ExportComplete
  BY PoolInvariant, PTL DEF PoolInv, ExportFits
------------------------------------------------------------------------------
(* Dispatch *)

SessionStates == {"none", "queued", "working", "acting", "ended", "died"}
JobStatuses == {"new", "running", "cancelling", "done", "failed", "cancelled"}
Places == {"start", "connect", "celery", "join", "returned", "over"} \cup EndStatuses
AtTheEnd(j) == pc[j] = "returned" \/ pc[j] \in EndStatuses
Alive(s) == sessions[s] \in {"queued", "working", "acting"}

\* The shape of the state, all but what the summaries and counters hold.
DispatchShape ==
    /\ jobs = [j \in SendJobs |-> [status |-> jobs[j].status, cancel |-> jobs[j].cancel,
                                   summary |-> jobs[j].summary]]
    /\ \A j \in SendJobs : jobs[j].status \in JobStatuses
    /\ pc \in [SendJobs -> Places]
    /\ targets \in [SendJobs -> SUBSET Phones] /\ todo \in [SendJobs -> SUBSET Phones]
    /\ sessions \in [SessionIds -> SessionStates]
    /\ row \in [Phones -> RowStatuses]
    /\ IsFiniteSet(cutOff) /\ cutOff \subseteq SendJobs

\* Where the thread of a job is tells whether its sessions are there.
JobFits(j) ==
    /\ jobs[j].status = "new" =>
          pc[j] = "over" /\ \A s \in SessionIds : s.job = j => sessions[s] = "none"
    /\ Ended(jobs[j].status) => pc[j] = "over"
    /\ pc[j] \in {"start", "connect", "celery"} =>
          \A s \in SessionIds :
              /\ s.job = j
              /\ s.via = "thread" \/ pc[j] # "celery" \/ s.phone \in todo[j]
              => sessions[s] = "none"
    /\ (AtTheEnd(j) \/ Ended(jobs[j].status)) /\ j \notin cutOff =>
          \A s \in SessionIds : s.job = j /\ s.via = "thread" => ~Alive(s)
    /\ j \in cutOff => CancelRequested(j)

OneActiveJob ==
    ~overlapping => \A i, j \in SendJobs : Active(jobs[i].status) /\ Active(jobs[j].status) => i = j

\* What SessionsAlone is about.
OneByOne == ~overlapping /\ Cardinality(cutOff) <= 1 /\ (\A j \in SendJobs : ByThreads(j))

\* The phone of a session of the active job is marked running while no earlier
\* job has left threads behind, and that of a thread left on the phone still is,
\* unless that mark was lost or overwritten: no other session is there, and no job
\* that is about to start has it among its phones.
PhoneFits(s) ==
    /\ Active(jobs[s.job].status) /\ AtWork(s) /\ s \notin unshown
       /\ cutOff \subseteq {s.job} => row[s.phone] = "running"
    /\ OnThePhone(s) /\ Ended(jobs[s.job].status) /\ s \notin unshown =>
          /\ row[s.phone] = "running"
          /\ \A t \in SessionIds \ {s} : t.phone = s.phone => ~Alive(t)
          /\ \A j \in SendJobs \ {s.job} :
                pc[j] \in {"connect", "celery"} => s.phone \notin targets[j]

DispatchInv ==
    /\ DispatchShape
    /\ \A j \in SendJobs : JobFits(j)
    /\ OneActiveJob
    /\ OneByOne => \A s \in SessionIds : PhoneFits(s)

LEMMA SessionFields ==
    /\ \A s \in SessionIds : /\ s.job \in SendJobs /\ s.phone \in Phones
                             /\ s.via \in {"celery", "thread"}
    /\ \A s, t \in SessionIds : s.job = t.job /\ s.phone = t.phone /\ s.via = t.via => s = t
    /\ \A j \in SendJobs, p \in Phones :
          /\ [job |-> j, phone |-> p, via |-> "celery"] \in SessionIds
          /\ [job |-> j, phone |-> p, via |-> "celery"].via = "celery"
          /\ [job |-> j, phone |-> p, via |-> "celery"].job = j
  BY DEF SessionIds

LEMMA OneCutOff ==
    ASSUME IsFiniteSet(cutOff), Cardinality(cutOff) <= 1, NEW i \in cutOff, NEW j \in cutOff
    PROVE  i = j
  <1> SUFFICES ASSUME i # j PROVE FALSE
    OBVIOUS
  <1>1. /\ Cardinality({i}) = 1 /\ IsFiniteSet({i})
    BY FS_Singleton
  <1>2. Cardinality({i} \cup {j}) = 2
    <2>1. j \notin {i}
      OBVIOUS
    <2>2. Cardinality({i} \cup {j}) = Cardinality({i}) + 1
      BY <1>1, <2>1, FS_AddElement
    <2> QED BY <1>1, <2>2
  <1>3. {i} \cup {j} \subseteq cutOff
    OBVIOUS
  <1>4. Cardinality({i} \cup {j}) <= Cardinality(cutOff) /\ Cardinality(cutOff) \in Nat
    BY <1>3, FS_Subset, FS_CardinalityType
  <1> QED BY <1>2, <1>4

\* Sessions that ran through Celery, jobs that overlapped and threads left behind
\* are history: a step never makes the jobs one by one again.
LEMMA OneByOneBefore ==
    ASSUME DispatchShape, overlapping => overlapping', cutOff \subseteq cutOff',
           IsFiniteSet(cutOff'), \A s \in SessionIds : sessions'[s] = "none" => sessions[s] = "none",
           OneByOne'
    PROVE  OneByOne
  <1>1. Cardinality(cutOff) <= Cardinality(cutOff')
    BY FS_Subset
  <1>2. Cardinality(cutOff) \in Nat /\ Cardinality(cutOff') \in Nat
    BY FS_CardinalityType DEF DispatchShape
  <1>3. Cardinality(cutOff) <= 1
    BY <1>1, <1>2 DEF OneByOne
  <1> QED BY <1>3 DEF OneByOne, ByThreads, SessionsOf

\* A status, a cancel flag or a summary is written.
LEMMA StatusWritten ==
    ASSUME DispatchShape, NEW j \in SendJobs, NEW status \in JobStatuses,
           jobs' = [jobs EXCEPT ![j].status = status]
    PROVE  /\ jobs' = [i \in SendJobs |-> [status |-> jobs'[i].status, cancel |-> jobs'[i].cancel,
                                           summary |-> jobs'[i].summary]]
           /\ jobs'[j].status = status /\ jobs'[j].cancel = jobs[j].cancel
           /\ \A i \in SendJobs \ {j} : jobs'[i] = jobs[i]
           /\ \A i \in SendJobs : jobs'[i].status \in JobStatuses
  BY DEF DispatchShape

LEMMA CancelWritten ==
    ASSUME DispatchShape, NEW j \in SendJobs, NEW flag, NEW status \in JobStatuses,
           \/ jobs' = [jobs EXCEPT ![j].cancel = flag] /\ status = jobs[j].status
           \/ jobs' = [jobs EXCEPT ![j].cancel = flag, ![j].status = status]
    PROVE  /\ jobs' = [i \in SendJobs |-> [status |-> jobs'[i].status, cancel |-> jobs'[i].cancel,
                                           summary |-> jobs'[i].summary]]
           /\ jobs'[j].status = status /\ jobs'[j].cancel = flag
           /\ \A i \in SendJobs \ {j} : jobs'[i] = jobs[i]
           /\ \A i \in SendJobs : jobs'[i].status \in JobStatuses
  <1> DEFINE written == [status |-> status, cancel |-> flag, summary |-> jobs[j].summary]
  <1>1. jobs[j] = [status |-> jobs[j].status, cancel |-> jobs[j].cancel,
                   summary |-> jobs[j].summary]
    BY DEF DispatchShape
  <1>2. jobs = [i \in SendJobs |-> jobs[i]]
    BY DEF DispatchShape
  <1>3. /\ jobs'[j] = written /\ jobs' = [i \in SendJobs |-> jobs'[i]]
        /\ \A i \in SendJobs \ {j} : jobs'[i] = jobs[i]
    <2>1. CASE jobs' = [jobs EXCEPT ![j].cancel = flag] /\ status = jobs[j].status
      BY <1>1, <1>2, <2>1
    <2>2. CASE jobs' = [jobs EXCEPT ![j].cancel = flag, ![j].status = status]
      BY <1>1, <1>2, <2>2
    <2> QED BY <2>1, <2>2
  <1>4. \A i \in SendJobs :
            jobs'[i] = [status |-> jobs'[i].status, cancel |-> jobs'[i].cancel,
                        summary |-> jobs'[i].summary]
    <2> SUFFICES ASSUME NEW i \in SendJobs
                 PROVE  jobs'[i] = [status |-> jobs'[i].status, cancel |-> jobs'[i].cancel,
                                    summary |-> jobs'[i].summary]
      OBVIOUS
    <2>1. jobs[i] = [status |-> jobs[i].status, cancel |-> jobs[i].cancel,
                     summary |-> jobs[i].summary]
      BY DEF DispatchShape
    <2> QED BY <1>3, <2>1
  <1>5. \A i \in SendJobs : jobs'[i].status \in JobStatuses
    BY <1>3 DEF DispatchShape
  <1> QED BY <1>3, <1>4, <1>5

LEMMA SummaryWritten ==
    ASSUME DispatchShape, NEW j \in SendJobs, NEW summary, Returns(j, summary)
    PROVE  /\ jobs' = [i \in SendJobs |-> [status |-> jobs'[i].status, cancel |-> jobs'[i].cancel,
                                           summary |-> jobs'[i].summary]]
           /\ \A i \in SendJobs : /\ jobs'[i].status = jobs[i].status
                                  /\ jobs'[i].cancel = jobs[i].cancel
           /\ pc' = [pc EXCEPT ![j] = "returned"]
  <1> DEFINE written == [status |-> jobs[j].status, cancel |-> jobs[j].cancel,
                         summary |-> summary]
  <1>1. /\ jobs' = [jobs EXCEPT ![j].summary = summary] /\ pc' = [pc EXCEPT ![j] = "returned"]
        /\ jobs = [i \in SendJobs |-> jobs[i]]
        /\ \A i \in SendJobs : jobs[i] = [status |-> jobs[i].status, cancel |-> jobs[i].cancel,
                                         summary |-> jobs[i].summary]
    BY DEF DispatchShape, Returns
  <1>2. /\ jobs'[j] = written /\ jobs' = [i \in SendJobs |-> jobs'[i]]
        /\ \A i \in SendJobs \ {j} : jobs'[i] = jobs[i]
    BY <1>1
  <1>3. ASSUME NEW i \in SendJobs
        PROVE  /\ jobs'[i] = [status |-> jobs'[i].status, cancel |-> jobs'[i].cancel,
                              summary |-> jobs'[i].summary]
               /\ jobs'[i].status = jobs[i].status /\ jobs'[i].cancel = jobs[i].cancel
    <2>1. CASE i = j
      BY <1>2, <2>1
    <2>2. CASE i # j
      BY <1>1, <1>2, <2>2
    <2> QED BY <2>1, <2>2
  <1> QED BY <1>1, <1>2, <1>3

\* A session that is alive goes on: the jobs do not notice.
LEMMA SessionMoved ==
    ASSUME DispatchInv, NEW s \in SessionIds, NEW now \in SessionStates \ {"none"}, Alive(s),
           sessions' = [sessions EXCEPT ![s] = now],
           UNCHANGED <<jobs, pc, targets, todo, overlapping, cutOff>>,
           row' \in [Phones -> RowStatuses]
    PROVE  /\ DispatchShape' /\ OneActiveJob' /\ \A j \in SendJobs : JobFits(j)'
           /\ OneByOne' => OneByOne
           /\ sessions'[s] = now /\ \A t \in SessionIds \ {s} : sessions'[t] = sessions[t]
  <1>1. DispatchShape /\ OneActiveJob /\ \A j \in SendJobs : JobFits(j)
    BY DEF DispatchInv
  <1>2. /\ sessions'[s] = now /\ \A t \in SessionIds \ {s} : sessions'[t] = sessions[t]
        /\ sessions' \in [SessionIds -> SessionStates]
    BY <1>1 DEF DispatchShape
  <1>3. DispatchShape'
    BY <1>1, <1>2 DEF DispatchShape
  <1>4. OneActiveJob'
    BY <1>1 DEF OneActiveJob
  <1>5. ASSUME NEW j \in SendJobs PROVE JobFits(j)'
    <2>1. JobFits(j)
      BY <1>1
    <2>2. (jobs[j].status = "new" =>
              pc[j] = "over" /\ \A t \in SessionIds : t.job = j => sessions[t] = "none")'
      BY <1>2, <2>1 DEF JobFits, Alive
    <2>3. (pc[j] \in {"start", "connect", "celery"} =>
              \A t \in SessionIds :
                  t.job = j /\ (t.via = "thread" \/ pc[j] # "celery" \/ t.phone \in todo[j])
                  => sessions[t] = "none")'
      BY <1>2, <2>1 DEF JobFits, Alive
    <2>4. ((AtTheEnd(j) \/ Ended(jobs[j].status)) /\ j \notin cutOff =>
              \A t \in SessionIds : t.job = j /\ t.via = "thread" => ~Alive(t))'
      BY <1>2, <2>1 DEF JobFits, Alive, AtTheEnd
    <2>5. (Ended(jobs[j].status) => pc[j] = "over")' /\ (j \in cutOff => CancelRequested(j))'
      BY <2>1 DEF JobFits, CancelRequested
    <2> QED BY <2>2, <2>3, <2>4, <2>5 DEF JobFits
  <1>6. OneByOne' => OneByOne
    BY <1>1, <1>2, OneByOneBefore DEF DispatchShape
  <1> QED BY <1>2, <1>3, <1>4, <1>5, <1>6

\* A step of a job that touches no session and no phone.
LEMMA JobMoved ==
    ASSUME DispatchInv, NEW j \in SendJobs,
           jobs' = [i \in SendJobs |-> [status |-> jobs'[i].status, cancel |-> jobs'[i].cancel,
                                        summary |-> jobs'[i].summary]],
           \A i \in SendJobs : jobs'[i].status \in JobStatuses,
           \A i \in SendJobs \ {j} : /\ jobs'[i].status = jobs[i].status
                                     /\ jobs'[i].cancel = jobs[i].cancel
                                     /\ pc'[i] = pc[i] /\ todo'[i] = todo[i],
           Active(jobs'[j].status) => Active(jobs[j].status),
           pc' \in [SendJobs -> Places],
           targets' \in [SendJobs -> SUBSET Phones], todo' \in [SendJobs -> SUBSET Phones],
           UNCHANGED <<sessions, row, unshown, overlapping>>,
           cutOff' = cutOff \/ cutOff' = cutOff \cup {j},
           JobFits(j)'
    PROVE  /\ DispatchShape' /\ OneActiveJob' /\ \A i \in SendJobs : JobFits(i)'
           /\ OneByOne' => OneByOne
  <1>1. DispatchShape /\ OneActiveJob /\ \A i \in SendJobs : JobFits(i)
    BY DEF DispatchInv
  <1>2. IsFiniteSet(cutOff') /\ cutOff' \subseteq SendJobs
    <2>1. IsFiniteSet(cutOff \cup {j})
      BY <1>1, FS_AddElement DEF DispatchShape
    <2> QED BY <1>1, <2>1 DEF DispatchShape
  <1>3. DispatchShape'
    BY <1>1, <1>2 DEF DispatchShape
  <1>4. OneActiveJob'
    BY <1>1 DEF OneActiveJob
  <1>5. ASSUME NEW i \in SendJobs \ {j} PROVE JobFits(i)'
    <2>1. JobFits(i) /\ (i \in cutOff' <=> i \in cutOff)
      BY <1>1
    <2> QED BY <2>1 DEF JobFits, Alive, AtTheEnd, CancelRequested
  <1>6. OneByOne' => OneByOne
    BY <1>1, <1>2, OneByOneBefore DEF DispatchShape
  <1> QED BY <1>3, <1>4, <1>5, <1>6

\* Two sessions that both matter to PhoneFits are not on one phone.
LEMMA PhoneShared ==
    ASSUME DispatchInv, OneByOne, NEW s \in SessionIds, NEW t \in SessionIds \ {s},
           t.phone = s.phone, Alive(s), Alive(t),
           \/ OnThePhone(t) /\ Ended(jobs[t.job].status) /\ t \notin unshown
           \/ Active(jobs[t.job].status) /\ cutOff \subseteq {t.job}
    PROVE  FALSE
  <1>1. /\ PhoneFits(t) /\ JobFits(s.job) /\ OneActiveJob
        /\ s.job \in SendJobs /\ t.job \in SendJobs /\ jobs[s.job].status \in JobStatuses
    BY SessionFields DEF DispatchInv, DispatchShape
  <1>2. Active(jobs[t.job].status) /\ cutOff \subseteq {t.job}
    BY <1>1 DEF PhoneFits
  <1>3. s.via = "thread" /\ t.via = "thread"
    BY <1>1, SessionFields DEF OneByOne, ByThreads, SessionsOf, Alive
  <1>4. s.job # t.job
    BY <1>3, SessionFields
  <1>5. ~Active(jobs[s.job].status)
    BY <1>1, <1>2, <1>4 DEF OneActiveJob, OneByOne
  <1>6. jobs[s.job].status # "new"
    BY <1>1 DEF JobFits, Alive
  <1>7. Ended(jobs[s.job].status)
    BY <1>1, <1>5, <1>6 DEF JobStatuses, Active, Ended
  <1>8. s.job \in cutOff
    BY <1>1, <1>3, <1>7 DEF JobFits
  <1> QED BY <1>2, <1>4, <1>8

LEMMA SessionKeeps ==
    ASSUME DispatchInv, NEW s \in SessionIds, NEW now \in SessionStates \ {"none"}, Alive(s),
           sessions' = [sessions EXCEPT ![s] = now],
           UNCHANGED <<jobs, pc, targets, todo, overlapping, cutOff>>,
           row' = row \/ \E mode \in RowStatuses : row' = [row EXCEPT ![s.phone] = mode],
           unshown \ {s} \subseteq unshown',
           now \in {"working", "acting"} =>
               \/ row'[s.phone] = "running" /\ unshown' = unshown
               \/ s \in unshown'
               \/ row' = row /\ unshown' = unshown /\ AtWork(s),
           now = "acting" => ~ShouldStop(s)
    PROVE  DispatchInv'
  <1>1. /\ DispatchShape /\ OneActiveJob /\ \A j \in SendJobs : JobFits(j)
        /\ s.job \in SendJobs /\ s.phone \in Phones
    BY SessionFields DEF DispatchInv
  <1>2. /\ row' \in [Phones -> RowStatuses]
        /\ \A p \in Phones \ {s.phone} : row'[p] = row[p]
    BY <1>1 DEF DispatchShape
  <1>3. /\ DispatchShape' /\ OneActiveJob' /\ \A j \in SendJobs : JobFits(j)'
        /\ OneByOne' => OneByOne
        /\ sessions'[s] = now /\ \A t \in SessionIds \ {s} : sessions'[t] = sessions[t]
    BY <1>2, SessionMoved
  <1>4. ASSUME OneByOne', NEW t \in SessionIds PROVE PhoneFits(t)'
    <2>1. /\ OneByOne /\ PhoneFits(t) /\ t.job \in SendJobs /\ t.phone \in Phones
      BY <1>3, <1>4, SessionFields DEF DispatchInv
    <2>2. CASE t = s
      <3>1. now = "acting" => ~Ended(jobs[s.job].status)
        <4>1. SUFFICES ASSUME now = "acting", Ended(jobs[s.job].status) PROVE FALSE
          OBVIOUS
        <4>2. s.via = "thread"
          BY <1>1, <2>1, SessionFields DEF OneByOne, ByThreads, SessionsOf, Alive
        <4>3. s.job \in cutOff
          BY <1>1, <4>1, <4>2 DEF JobFits
        <4>4. CancelRequested(s.job)
          BY <1>1, <4>3 DEF JobFits
        <4> QED BY <4>1, <4>2, <4>4 DEF ShouldStop
      <3> QED BY <1>3, <2>1, <2>2, <3>1 DEF PhoneFits, OnThePhone, AtWork
    <2>3. CASE t # s
      <3>1. sessions'[t] = sessions[t]
        BY <1>3, <2>3
      <3>2. ASSUME Active(jobs[t.job].status), AtWork(t), t \notin unshown,
                   cutOff \subseteq {t.job}
            PROVE  row'[t.phone] = "running"
        <4>1. row[t.phone] = "running"
          BY <2>1, <3>2 DEF PhoneFits
        <4>2. t.phone # s.phone
          BY <2>1, <2>3, <3>2, PhoneShared DEF Alive, AtWork
        <4> QED BY <1>2, <2>1, <4>1, <4>2
      <3>3. ASSUME OnThePhone(t), Ended(jobs[t.job].status), t \notin unshown
            PROVE  /\ row'[t.phone] = "running"
                   /\ \A u \in SessionIds \ {t} : u.phone = t.phone => ~Alive(u)'
                   /\ \A j \in SendJobs \ {t.job} :
                         pc[j] \in {"connect", "celery"} => t.phone \notin targets[j]
        <4>1. t.phone # s.phone
          BY <2>1, <2>3, <3>3, PhoneShared DEF Alive, OnThePhone
        <4> QED BY <1>2, <1>3, <2>1, <3>3, <4>1 DEF PhoneFits, Alive
      <3>4. t \notin unshown' => t \notin unshown
        BY <2>3
      <3> QED BY <3>1, <3>2, <3>3, <3>4 DEF PhoneFits, OnThePhone, AtWork
    <2> QED BY <2>2, <2>3
  <1> QED BY <1>3, <1>4 DEF DispatchInv

LEMMA SessionKeepsDispatch ==
    ASSUME DispatchInv, NEW s \in SessionIds, SessionStep(s)
    PROVE  DispatchInv'
  <1>1. s.phone \in Phones /\ row \in [Phones -> RowStatuses] /\ "running" \in RowStatuses
    BY SessionFields DEF DispatchInv, DispatchShape, RowStatuses
  <1>2. ASSUME NEW status \in RowStatuses, SessionRefused(s, status) PROVE DispatchInv'
    <2>1. /\ Alive(s) /\ UNCHANGED <<jobs, pc, targets, todo, overlapping, cutOff, unshown>>
          /\ sessions' = [sessions EXCEPT ![s] = "ended"]
          /\ row' = [row EXCEPT ![s.phone] = status]
      BY <1>2 DEF SessionRefused, Alive, jobVars
    <2> QED BY <2>1, SessionKeeps DEF SessionStates
  <1>3. ASSUME NEW yes \in BOOLEAN, SessionStarts(s, yes) PROVE DispatchInv'
    <2>1. /\ Alive(s) /\ UNCHANGED <<jobs, pc, targets, todo, overlapping, cutOff>>
          /\ sessions' = [sessions EXCEPT ![s] = "working"]
      BY <1>3 DEF SessionStarts, Alive, jobVars
    <2>2. CASE yes
      <3>1. /\ row' = [row EXCEPT ![s.phone] = "running"] /\ row'[s.phone] = "running"
            /\ unshown' = unshown
        BY <1>1, <1>3, <2>2 DEF SessionStarts
      <3> QED BY <1>1, <2>1, <3>1, SessionKeeps DEF SessionStates
    <2>3. CASE ~yes
      <3>1. row' = row /\ unshown' = unshown \cup {s}
        BY <1>3, <2>3 DEF SessionStarts
      <3> QED BY <2>1, <3>1, SessionKeeps DEF SessionStates
    <2> QED BY <2>2, <2>3
  <1>4. CASE ClaimsLead(s)
    <2>1. /\ Alive(s) /\ UNCHANGED <<jobs, pc, targets, todo, overlapping, cutOff, row, unshown>>
          /\ AtWork(s) /\ ~ShouldStop(s) /\ sessions' = [sessions EXCEPT ![s] = "acting"]
      BY <1>4 DEF ClaimsLead, Alive, AtWork, jobVars
    <2> QED BY <2>1, SessionKeeps DEF SessionStates
  <1>5. ASSUME NEW outcome \in Outcomes, NEW yes \in BOOLEAN, Acted(s, outcome, yes)
        PROVE  DispatchInv'
    <2>1. /\ Alive(s) /\ UNCHANGED <<jobs, pc, targets, todo, overlapping, cutOff, row, unshown>>
          /\ AtWork(s) /\ sessions' = [sessions EXCEPT ![s] = "working"]
      BY <1>5 DEF Acted, Alive, AtWork, jobVars
    <2> QED BY <2>1, SessionKeeps DEF SessionStates
  <1>6. ASSUME NEW how \in {"ended", "died"}, NEW status \in RowStatuses,
               SessionEnds(s, how, status)
        PROVE  DispatchInv'
    <2>1. /\ Alive(s) /\ UNCHANGED <<jobs, pc, targets, todo, overlapping, cutOff>>
          /\ sessions' = [sessions EXCEPT ![s] = how] /\ unshown' = unshown \ {s}
          /\ row' = [row EXCEPT ![s.phone] = status]
      BY <1>6 DEF SessionEnds, Alive, jobVars
    <2> QED BY <2>1, SessionKeeps DEF SessionStates
  <1> QED BY <1>2, <1>3, <1>4, <1>5, <1>6 DEF SessionStep

\* A request of the device API: the sessions at work on the phone are unshown.
LEMMA RequestKeeps ==
    ASSUME DispatchInv, NEW p \in Phones, NEW status \in {"idle", "offline"},
           DeviceRequest(p, status)
    PROVE  DispatchInv'
  <1>1. /\ DispatchShape /\ OneActiveJob /\ \A j \in SendJobs : JobFits(j)
        /\ UNCHANGED <<jobs, pc, targets, todo, sessions, overlapping, cutOff>>
        /\ row' = [row EXCEPT ![p] = status] /\ unshown \subseteq unshown'
        /\ \A s \in SessionIds : s.phone = p /\ AtWork(s) => s \in unshown'
    BY DEF DispatchInv, DeviceRequest, jobVars
  <1>2. row' \in [Phones -> RowStatuses] /\ \A q \in Phones \ {p} : row'[q] = row[q]
    BY <1>1 DEF DispatchShape, RowStatuses
  <1>3. DispatchShape' /\ OneActiveJob' /\ (OneByOne' => OneByOne) /\ \A j \in SendJobs : JobFits(j)'
    BY <1>1, <1>2 DEF DispatchShape, OneActiveJob, OneByOne, ByThreads, SessionsOf, JobFits, AtTheEnd,
                      Alive, CancelRequested
  <1>4. ASSUME OneByOne', NEW s \in SessionIds PROVE PhoneFits(s)'
    <2>1. PhoneFits(s) /\ s.phone \in Phones
      BY <1>3, <1>4, SessionFields DEF DispatchInv
    <2>2. OnThePhone(s) => AtWork(s)
      BY DEF OnThePhone, AtWork
    <2> QED BY <1>1, <1>2, <2>1, <2>2 DEF PhoneFits, OnThePhone, AtWork, Alive
  <1> QED BY <1>3, <1>4 DEF DispatchInv

\* A step of a job that leaves sessions and phones alone and does not end it.
LEMMA JobKeeps ==
    ASSUME DispatchInv, NEW j \in SendJobs,
           jobs' = [i \in SendJobs |-> [status |-> jobs'[i].status, cancel |-> jobs'[i].cancel,
                                        summary |-> jobs'[i].summary]],
           \A i \in SendJobs : jobs'[i].status \in JobStatuses,
           \A i \in SendJobs \ {j} : /\ jobs'[i].status = jobs[i].status
                                     /\ jobs'[i].cancel = jobs[i].cancel
                                     /\ pc'[i] = pc[i] /\ todo'[i] = todo[i]
                                     /\ targets'[i] = targets[i],
           Active(jobs'[j].status) <=> Active(jobs[j].status),
           Ended(jobs'[j].status) <=> Ended(jobs[j].status),
           pc' \in [SendJobs -> Places],
           targets' \in [SendJobs -> SUBSET Phones], todo' \in [SendJobs -> SUBSET Phones],
           UNCHANGED <<sessions, row, unshown, overlapping>>,
           cutOff' = cutOff \/ cutOff' = cutOff \cup {j},
           pc'[j] \in {"connect", "celery"} =>
               \/ pc[j] \in {"connect", "celery"} /\ targets'[j] = targets[j]
               \/ \A p \in targets'[j] : row[p] # "running",
           JobFits(j)'
    PROVE  DispatchInv'
  <1>1. /\ DispatchShape' /\ OneActiveJob' /\ \A i \in SendJobs : JobFits(i)'
        /\ OneByOne' => OneByOne
    BY JobMoved
  <1>2. ASSUME OneByOne', NEW s \in SessionIds PROVE PhoneFits(s)'
    <2>1. PhoneFits(s) /\ s.job \in SendJobs
      BY <1>1, <1>2, SessionFields DEF DispatchInv
    <2>2. /\ Active(jobs'[s.job].status) <=> Active(jobs[s.job].status)
          /\ Ended(jobs'[s.job].status) <=> Ended(jobs[s.job].status)
      BY <2>1
    <2>3. Active(jobs[s.job].status) /\ AtWork(s) /\ s \notin unshown
          /\ cutOff' \subseteq {s.job} => row[s.phone] = "running"
      BY <2>1 DEF PhoneFits
    <2>4. ASSUME OnThePhone(s), Ended(jobs[s.job].status), s \notin unshown,
                 NEW i \in SendJobs \ {s.job},
                 pc'[i] \in {"connect", "celery"}
          PROVE  s.phone \notin targets'[i]
      <3>1. row[s.phone] = "running"
        BY <2>1, <2>4 DEF PhoneFits
      <3>2. pc[i] \in {"connect", "celery"} => s.phone \notin targets[i]
        BY <2>1, <2>4 DEF PhoneFits
      <3> QED BY <2>4, <3>1, <3>2
    <2> QED BY <2>1, <2>2, <2>3, <2>4 DEF PhoneFits, OnThePhone, AtWork, Alive
  <1> QED BY <1>1, <1>2 DEF DispatchInv

\* _send writes the status of a job, one way or the other.
LEMMA EndWritten ==
    ASSUME DispatchShape, NEW j \in SendJobs, EndJob(j) \/ EndJobRefused(j)
    PROVE  /\ jobs' = [i \in SendJobs |-> [status |-> jobs'[i].status, cancel |-> jobs'[i].cancel,
                                           summary |-> jobs'[i].summary]]
           /\ Ended(jobs'[j].status) /\ jobs'[j].cancel = jobs[j].cancel
           /\ \A i \in SendJobs \ {j} : jobs'[i] = jobs[i]
           /\ \A i \in SendJobs : jobs'[i].status \in JobStatuses
           /\ \/ jobs'[j].summary = jobs[j].summary
              \/ /\ jobs[j].status = "cancelling" /\ jobs'[j].status = "failed"
                 /\ jobs'[j].summary = NothingSent
           /\ pc[j] \in EndStatuses /\ Reported(j)
  <1>1. CASE EndJob(j)
    <2>1. jobs' = [jobs EXCEPT ![j].status = pc[j]] /\ pc[j] \in EndStatuses /\ Reported(j)
      BY <1>1 DEF EndJob
    <2>2. pc[j] \in JobStatuses /\ Ended(pc[j])
      BY <2>1 DEF EndStatuses, Ended, JobStatuses
    <2>3. jobs'[j].status = pc[j] /\ jobs'[j].summary = jobs[j].summary
      BY <2>1 DEF DispatchShape
    <2> QED BY <2>1, <2>2, <2>3, StatusWritten
  <1>2. CASE EndJobRefused(j)
    <2> DEFINE written == [status |-> "failed", cancel |-> jobs[j].cancel, summary |-> NothingSent]
    <2>1. /\ jobs' = [jobs EXCEPT ![j].status = "failed", ![j].summary = NothingSent]
          /\ pc[j] \in EndStatuses /\ Reported(j) /\ jobs[j].status = "cancelling"
      BY <1>2 DEF EndJobRefused, DoneRefused, EndStatuses
    <2>2. /\ jobs[j] = [status |-> jobs[j].status, cancel |-> jobs[j].cancel,
                        summary |-> jobs[j].summary]
          /\ jobs = [i \in SendJobs |-> jobs[i]]
      BY DEF DispatchShape
    <2>3. /\ jobs'[j] = written /\ jobs' = [i \in SendJobs |-> jobs'[i]]
          /\ \A i \in SendJobs \ {j} : jobs'[i] = jobs[i]
      BY <2>1, <2>2
    <2>4. ASSUME NEW i \in SendJobs
          PROVE  /\ jobs'[i] = [status |-> jobs'[i].status, cancel |-> jobs'[i].cancel,
                                summary |-> jobs'[i].summary]
                 /\ jobs'[i].status \in JobStatuses
      <3>1. CASE i = j
        BY <2>3, <3>1 DEF JobStatuses
      <3>2. CASE i # j
        BY <2>3, <3>2 DEF DispatchShape
      <3> QED BY <3>1, <3>2
    <2>5. /\ jobs'[j].status = "failed" /\ jobs'[j].cancel = jobs[j].cancel
          /\ jobs'[j].summary = NothingSent /\ Ended(jobs'[j].status)
      BY <2>3 DEF Ended
    <2> QED BY <2>1, <2>3, <2>4, <2>5
  <1> QED BY <1>1, <1>2

LEMMA EndKeeps ==
    ASSUME DispatchInv, NEW j \in SendJobs, EndJob(j) \/ EndJobRefused(j)
    PROVE  DispatchInv'
  <1>1. /\ DispatchShape /\ OneActiveJob /\ \A i \in SendJobs : JobFits(i)
        /\ pc[j] \in EndStatuses /\ UNCHANGED <<todo, sessions, row, unshown, overlapping, cutOff>>
        /\ pc' = [pc EXCEPT ![j] = "over"] /\ targets' = [targets EXCEPT ![j] = {}]
    <2>1. DispatchShape /\ OneActiveJob /\ \A i \in SendJobs : JobFits(i)
      BY DEF DispatchInv
    <2>2. pc[j] \in EndStatuses /\ Reported(j)
      BY <2>1, EndWritten
    <2> QED BY <2>1, <2>2 DEF Reported, sessionVars
  <1>2. /\ Ended(jobs'[j].status) /\ pc[j] # "over"
    BY <1>1, EndWritten DEF EndStatuses
  <1>3. /\ jobs' = [i \in SendJobs |-> [status |-> jobs'[i].status, cancel |-> jobs'[i].cancel,
                                        summary |-> jobs'[i].summary]]
        /\ jobs'[j].cancel = jobs[j].cancel
        /\ \A i \in SendJobs \ {j} : jobs'[i] = jobs[i]
        /\ \A i \in SendJobs : jobs'[i].status \in JobStatuses
    BY <1>1, EndWritten
  <1>4. Active(jobs[j].status)
    BY <1>1, <1>2 DEF JobFits, DispatchShape, JobStatuses, Active, Ended
  <1>5. /\ pc' \in [SendJobs -> Places] /\ targets' \in [SendJobs -> SUBSET Phones]
        /\ todo' \in [SendJobs -> SUBSET Phones] /\ pc'[j] = "over"
        /\ \A i \in SendJobs \ {j} : pc'[i] = pc[i] /\ targets'[i] = targets[i]
    BY <1>1 DEF DispatchShape, Places
  <1>6. JobFits(j)'
    BY <1>1, <1>2, <1>3, <1>5 DEF JobFits, Ended, Alive, AtTheEnd, EndStatuses, CancelRequested
  <1>7. /\ DispatchShape' /\ OneActiveJob' /\ \A i \in SendJobs : JobFits(i)'
        /\ OneByOne' => OneByOne
    BY <1>1, <1>3, <1>4, <1>5, <1>6, JobMoved
  <1>8. ASSUME OneByOne', NEW s \in SessionIds PROVE PhoneFits(s)'
    <2>1. OneByOne /\ PhoneFits(s) /\ s.job \in SendJobs
      BY <1>7, <1>8, SessionFields DEF DispatchInv
    <2>2. CASE s.job # j
      BY <1>1, <1>3, <1>5, <2>1, <2>2 DEF PhoneFits, OnThePhone, AtWork, Alive, EndStatuses
    <2>3. ASSUME s.job = j, OnThePhone(s), s \notin unshown
          PROVE  /\ row[s.phone] = "running"
                 /\ \A t \in SessionIds \ {s} : t.phone = s.phone => ~Alive(t)
                 /\ \A i \in SendJobs \ {j} : pc[i] \notin {"connect", "celery"}
      <3>1. s.via = "thread"
        BY <2>1, <2>3, SessionFields DEF OneByOne, ByThreads, SessionsOf, OnThePhone
      <3>2. j \in cutOff
        BY <1>1, <2>3, <3>1 DEF JobFits, OnThePhone, AtTheEnd, Alive
      <3>3. cutOff \subseteq {j}
        BY <1>1, <2>1, <3>2, OneCutOff DEF OneByOne, DispatchShape
      <3>4. row[s.phone] = "running"
        BY <1>4, <2>1, <2>3, <3>3 DEF PhoneFits, OnThePhone, AtWork
      <3>5. ASSUME NEW t \in SessionIds \ {s}, t.phone = s.phone PROVE ~Alive(t)
        BY <1>4, <2>1, <2>3, <3>3, <3>5, PhoneShared DEF OnThePhone, Alive
      <3>6. ASSUME NEW i \in SendJobs \ {j}, pc[i] \in {"connect", "celery"} PROVE FALSE
        <4>1. Active(jobs[i].status)
          BY <1>1, <3>6 DEF JobFits, DispatchShape, JobStatuses, Active, Ended
        <4> QED BY <1>1, <1>4, <2>1, <3>6, <4>1 DEF OneActiveJob, OneByOne
      <3> QED BY <3>4, <3>5, <3>6
    <2>4. CASE s.job = j
      BY <1>1, <1>2, <1>3, <1>5, <2>3, <2>4 DEF PhoneFits, OnThePhone, Alive, Active, Ended
    <2> QED BY <2>2, <2>4
  <1> QED BY <1>7, <1>8 DEF DispatchInv

\* The threads of a job start, those of the phones it found available.
LEMMA ThreadsKeep ==
    ASSUME DispatchInv, NEW j \in SendJobs, pc[j] \in {"connect", "celery"}, StartThreads(j),
           todo' \in [SendJobs -> SUBSET Phones], \A i \in SendJobs \ {j} : todo'[i] = todo[i],
           UNCHANGED <<jobs, targets, row, unshown, overlapping, cutOff>>
    PROVE  DispatchInv'
  <1>1. /\ DispatchShape /\ OneActiveJob /\ \A i \in SendJobs : JobFits(i)
        /\ pc' = [pc EXCEPT ![j] = "join"]
        /\ sessions' = [s \in SessionIds |->
                           IF s.job = j /\ s.via = "thread" /\ s.phone \in targets[j]
                           THEN "queued" ELSE sessions[s]]
    BY DEF DispatchInv, StartThreads, SessionsOf
  <1>2. /\ pc' \in [SendJobs -> Places] /\ pc'[j] = "join"
        /\ \A i \in SendJobs \ {j} : pc'[i] = pc[i]
    BY <1>1 DEF DispatchShape, Places
  <1>3. /\ sessions' \in [SessionIds -> SessionStates]
        /\ \A s \in SessionIds : s.job # j \/ s.via # "thread" => sessions'[s] = sessions[s]
        /\ \A s \in SessionIds : sessions[s] # "none" => sessions'[s] = sessions[s]
        /\ \A s \in SessionIds : sessions'[s] = "none" => sessions[s] = "none"
        /\ \A s \in SessionIds : sessions'[s] # sessions[s] =>
              s.job = j /\ s.phone \in targets[j] /\ sessions'[s] = "queued"
    <2>1. \A s \in SessionIds : s.job = j /\ s.via = "thread" => sessions[s] = "none"
      BY <1>1 DEF JobFits
    <2> QED BY <1>1, <2>1 DEF DispatchShape, SessionStates
  <1>4. Active(jobs[j].status)
    BY <1>1 DEF JobFits, DispatchShape, JobStatuses, Active, Ended
  <1>5. DispatchShape'
    BY <1>1, <1>2, <1>3 DEF DispatchShape
  <1>6. OneActiveJob'
    BY <1>1 DEF OneActiveJob
  <1>7. ASSUME NEW i \in SendJobs PROVE JobFits(i)'
    <2>1. JobFits(i)
      BY <1>1
    <2>2. CASE i = j
      <3>1. pc'[j] = "join" /\ ~AtTheEnd(j)' /\ jobs' = jobs
        BY <1>2 DEF AtTheEnd, EndStatuses
      <3>2. jobs[j].status # "new" /\ ~Ended(jobs[j].status)
        BY <1>4 DEF Active, Ended
      <3> QED BY <2>1, <2>2, <3>1, <3>2 DEF JobFits, CancelRequested
    <2>3. CASE i # j
      BY <1>2, <1>3, <2>1, <2>3 DEF JobFits, AtTheEnd, CancelRequested, Alive
    <2> QED BY <2>2, <2>3
  <1>8. OneByOne' => OneByOne
    BY <1>1, <1>3, OneByOneBefore DEF DispatchShape
  <1>9. ASSUME OneByOne', NEW s \in SessionIds PROVE PhoneFits(s)'
    <2>1. PhoneFits(s)
      BY <1>8, <1>9 DEF DispatchInv
    <2>2. sessions'[s] \in {"working", "acting"} => sessions'[s] = sessions[s]
      BY <1>3
    <2>3. ASSUME OnThePhone(s), Ended(jobs[s.job].status), s \notin unshown
          PROVE  /\ \A t \in SessionIds \ {s} : t.phone = s.phone => ~Alive(t)'
                 /\ \A i \in SendJobs \ {s.job} :
                       pc'[i] \in {"connect", "celery"} => s.phone \notin targets[i]
      <3>1. s.job # j
        BY <1>4, <2>3 DEF Active, Ended
      <3>2. s.phone \notin targets[j]
        BY <2>1, <2>3, <3>1 DEF PhoneFits
      <3>3. \A t \in SessionIds \ {s} : t.phone = s.phone => ~Alive(t)
        BY <2>1, <2>3 DEF PhoneFits
      <3> QED BY <1>2, <1>3, <2>1, <2>3, <3>2, <3>3 DEF PhoneFits, Alive
    <2> QED BY <2>1, <2>2, <2>3 DEF PhoneFits, OnThePhone, AtWork
  <1> QED BY <1>5, <1>6, <1>7, <1>9 DEF DispatchInv

\* A phone of a job goes to Celery: the jobs are no longer one by one.
LEMMA DelayKeeps ==
    ASSUME DispatchInv, NEW j \in SendJobs, NEW p \in Phones, DelaySession(j, p)
    PROVE  DispatchInv'
  <1> DEFINE d == [job |-> j, phone |-> p, via |-> "celery"]
  <1>1. /\ DispatchShape /\ OneActiveJob /\ \A i \in SendJobs : JobFits(i)
        /\ pc[j] = "celery" /\ p \in todo[j] /\ todo' = [todo EXCEPT ![j] = @ \ {p}]
        /\ sessions' = [sessions EXCEPT ![d] = "queued"]
        /\ UNCHANGED <<jobs, pc, targets, row, unshown, overlapping, cutOff>>
    BY DEF DispatchInv, DelaySession
  <1>2. d \in SessionIds /\ d.via = "celery" /\ d.job = j /\ d.phone = p
    BY DEF SessionIds
  <1>3. sessions[d] = "none"
    BY <1>1, <1>2 DEF JobFits
  <1> HIDE DEF d
  <1>4. /\ sessions' \in [SessionIds -> SessionStates] /\ sessions'[d] = "queued"
        /\ \A s \in SessionIds \ {d} : sessions'[s] = sessions[s]
        /\ todo' \in [SendJobs -> SUBSET Phones] /\ todo'[j] = todo[j] \ {p}
        /\ \A i \in SendJobs \ {j} : todo'[i] = todo[i]
    BY <1>1, <1>2 DEF DispatchShape, SessionStates
  <1>5. DispatchShape'
    BY <1>1, <1>4 DEF DispatchShape
  <1>6. OneActiveJob'
    BY <1>1 DEF OneActiveJob
  <1>7. ASSUME NEW i \in SendJobs PROVE JobFits(i)'
    <2>1. JobFits(i)
      BY <1>1
    <2>2. CASE i = j
      <3>1. jobs[j].status # "new" /\ ~Ended(jobs[j].status)
        BY <1>1, <2>1, <2>2 DEF JobFits
      <3>2. \A s \in SessionIds : s.job = j /\ (s.via = "thread" \/ s.phone \in todo'[j])
                                      => sessions'[s] = "none"
        BY <1>1, <1>2, <1>4, <2>1, <2>2 DEF JobFits
      <3>3. ~AtTheEnd(j)'
        BY <1>1 DEF AtTheEnd, EndStatuses
      <3> QED BY <1>1, <2>1, <2>2, <3>1, <3>2, <3>3 DEF JobFits, CancelRequested
    <2>3. CASE i # j
      BY <1>1, <1>2, <1>4, <2>1, <2>3 DEF JobFits, AtTheEnd, CancelRequested, Alive
    <2> QED BY <2>2, <2>3
  <1>8. ~OneByOne'
    BY <1>2, <1>4 DEF OneByOne, ByThreads, SessionsOf
  <1> QED BY <1>5, <1>6, <1>7, <1>8 DEF DispatchInv

\* run_senders returns, with the summary of whatever the job has come to.
LEMMA ReturnKeeps ==
    ASSUME DispatchInv, NEW j \in SendJobs, NEW summary, Returns(j, summary), pc[j] # "over",
           targets' \in [SendJobs -> SUBSET Phones],
           \A i \in SendJobs \ {j} : targets'[i] = targets[i],
           UNCHANGED <<todo, sessions, row, unshown, overlapping>>,
           \/ cutOff' = cutOff \cup {j} /\ CancelRequested(j)
           \/ /\ cutOff' = cutOff
              /\ \A s \in SessionIds : s.job = j /\ s.via = "thread" => ~Alive(s)
    PROVE  DispatchInv'
  <1>1. DispatchShape /\ JobFits(j)
    BY DEF DispatchInv
  <1>2. /\ jobs' = [i \in SendJobs |-> [status |-> jobs'[i].status, cancel |-> jobs'[i].cancel,
                                        summary |-> jobs'[i].summary]]
        /\ \A i \in SendJobs : /\ jobs'[i].status = jobs[i].status
                               /\ jobs'[i].cancel = jobs[i].cancel
        /\ pc' = [pc EXCEPT ![j] = "returned"]
    BY <1>1, SummaryWritten
  <1>3. /\ pc' \in [SendJobs -> Places] /\ pc'[j] = "returned"
        /\ \A i \in SendJobs \ {j} : pc'[i] = pc[i]
        /\ todo' \in [SendJobs -> SUBSET Phones]
        /\ \A i \in SendJobs : jobs'[i].status \in JobStatuses
    BY <1>1, <1>2 DEF DispatchShape, Places
  <1>4. jobs[j].status # "new" /\ ~Ended(jobs[j].status)
    BY <1>1 DEF JobFits
  <1>5. JobFits(j)'
    BY <1>1, <1>2, <1>3, <1>4 DEF JobFits, Ended, Alive, AtTheEnd, CancelRequested
  <1>6. /\ Active(jobs'[j].status) <=> Active(jobs[j].status)
        /\ Ended(jobs'[j].status) <=> Ended(jobs[j].status)
    BY <1>2
  <1> QED BY <1>2, <1>3, <1>5, <1>6, JobKeeps

LEMMA JobStepKeeps ==
    ASSUME DispatchInv, NEW j \in SendJobs, JobStep(j)
    PROVE  DispatchInv'
  <1>1. DispatchShape /\ JobFits(j)
    BY DEF DispatchInv
  \* Before the threads start none of them is alive.
  <1>2. pc[j] \in {"start", "connect", "celery"} =>
            \A s \in SessionIds : s.job = j /\ s.via = "thread" => ~Alive(s)
    BY <1>1 DEF JobFits, Alive
  <1>3. ASSUME NEW yes \in BOOLEAN, RunSenders(j, yes) PROVE DispatchInv'
    <2>1. /\ pc[j] = "start" /\ UNCHANGED <<todo, sessions, row, unshown, overlapping, cutOff>>
      BY <1>3 DEF RunSenders, sessionVars
    <2>2. CASE CancelRequested(j) \/ ~yes
      <3>1. Returns(j, NothingSent) /\ targets' = targets
        BY <1>3, <2>2 DEF RunSenders
      <3> QED BY <1>1, <1>2, <2>1, <3>1, ReturnKeeps DEF DispatchShape
    <2>3. CASE ~(CancelRequested(j) \/ ~yes)
      <3>1. targets' = [targets EXCEPT ![j] = AvailablePhones(j)]
        BY <1>3, <2>3 DEF RunSenders
      <3>2. /\ AvailablePhones(j) \subseteq Phones
            /\ \A p \in AvailablePhones(j) : row[p] # "running"
        BY <1>1 DEF AvailablePhones, DispatchShape
      <3>3. /\ targets' \in [SendJobs -> SUBSET Phones] /\ targets'[j] = AvailablePhones(j)
            /\ \A i \in SendJobs \ {j} : targets'[i] = targets[i]
        BY <1>1, <3>1, <3>2 DEF DispatchShape
      <3>4. CASE AvailablePhones(j) = {}
        <4>1. Returns(j, NoPhones)
          BY <1>3, <2>3, <3>4 DEF RunSenders
        <4> QED BY <1>2, <2>1, <3>3, <4>1, ReturnKeeps
      <3>5. CASE AvailablePhones(j) # {}
        <4>1. pc' = [pc EXCEPT ![j] = "connect"] /\ jobs' = jobs
          BY <1>3, <2>3, <3>5 DEF RunSenders
        <4>2. /\ pc' \in [SendJobs -> Places] /\ pc'[j] = "connect"
              /\ \A i \in SendJobs \ {j} : pc'[i] = pc[i]
          BY <1>1, <4>1 DEF DispatchShape, Places
        <4>3. JobFits(j)'
          <5>1. ~AtTheEnd(j)' /\ jobs[j].status # "new" /\ ~Ended(jobs[j].status)
            BY <1>1, <2>1, <4>2 DEF AtTheEnd, EndStatuses, JobFits
          <5> QED BY <1>1, <2>1, <4>1, <4>2, <5>1 DEF JobFits, CancelRequested
        <4> QED BY <1>1, <2>1, <3>2, <3>3, <4>1, <4>2, <4>3, JobKeeps DEF DispatchShape
      <3> QED BY <3>4, <3>5
    <2> QED BY <2>2, <2>3
  <1>4. ASSUME NEW yes \in BOOLEAN, Connect(j, yes) PROVE DispatchInv'
    <2>1. pc[j] = "connect" /\ UNCHANGED <<jobs, targets, row, unshown, overlapping, cutOff>>
      BY <1>4 DEF Connect
    <2>2. CASE yes
      <3>1. /\ pc' = [pc EXCEPT ![j] = "celery"] /\ todo' = [todo EXCEPT ![j] = targets[j]]
            /\ sessions' = sessions
        BY <1>4, <2>2 DEF Connect
      <3>2. /\ pc' \in [SendJobs -> Places] /\ pc'[j] = "celery"
            /\ todo' \in [SendJobs -> SUBSET Phones]
            /\ \A i \in SendJobs \ {j} : pc'[i] = pc[i] /\ todo'[i] = todo[i]
        BY <1>1, <3>1 DEF DispatchShape, Places
      <3>3. JobFits(j)'
        <4>1. ~AtTheEnd(j)' /\ jobs[j].status # "new" /\ ~Ended(jobs[j].status)
          BY <1>1, <2>1, <3>2 DEF AtTheEnd, EndStatuses, JobFits
        <4> QED BY <1>1, <2>1, <3>1, <3>2, <4>1 DEF JobFits, CancelRequested
      <3> QED BY <1>1, <2>1, <3>1, <3>2, <3>3, JobKeeps DEF DispatchShape
    <2>3. CASE ~yes
      <3>1. StartThreads(j) /\ todo' = todo
        BY <1>4, <2>3 DEF Connect
      <3> QED BY <1>1, <2>1, <3>1, ThreadsKeep DEF DispatchShape
    <2> QED BY <2>2, <2>3
  <1>5. ASSUME NEW p \in Phones, DelaySession(j, p) PROVE DispatchInv'
    BY <1>5, DelayKeeps
  <1>6. CASE AllDelayed(j)
    <2>1. /\ pc[j] = "celery" /\ Returns(j, NothingSent)
          /\ UNCHANGED <<targets, todo, sessions, row, unshown, overlapping, cutOff>>
      BY <1>6 DEF AllDelayed, sessionVars
    <2> QED BY <1>1, <1>2, <2>1, ReturnKeeps DEF DispatchShape
  <1>7. CASE DelayFails(j)
    <2>1. /\ pc[j] = "celery" /\ StartThreads(j) /\ todo' = [todo EXCEPT ![j] = {}]
          /\ UNCHANGED <<jobs, targets, row, unshown, overlapping, cutOff>>
      BY <1>7 DEF DelayFails
    <2>2. /\ todo' \in [SendJobs -> SUBSET Phones]
          /\ \A i \in SendJobs \ {j} : todo'[i] = todo[i]
      BY <1>1, <2>1 DEF DispatchShape
    <2> QED BY <2>1, <2>2, ThreadsKeep
  <1>8. CASE AllJoined(j)
    <2>1. /\ pc[j] = "join" /\ Returns(j, Joined(j, Threads(j)))
          /\ \A s \in Threads(j) : Over(s)
          /\ UNCHANGED <<targets, todo, sessions, row, unshown, overlapping, cutOff>>
      BY <1>8 DEF AllJoined, sessionVars
    <2>2. \A s \in SessionIds : s.job = j /\ s.via = "thread" => ~Alive(s)
      BY <2>1 DEF Threads, SessionsOf, Over, Alive
    <2> QED BY <1>1, <2>1, <2>2, ReturnKeeps DEF DispatchShape
  <1>9. CASE GraceOver(j)
    <2>1. PICK summary : Returns(j, summary)
      BY <1>9 DEF GraceOver
    <2>2. /\ pc[j] = "join" /\ CancelRequested(j) /\ cutOff' = cutOff \cup {j}
          /\ UNCHANGED <<targets, todo, sessions, row, unshown, overlapping>>
      BY <1>9 DEF GraceOver, sessionVars
    <2> QED BY <1>1, <2>1, <2>2, ReturnKeeps DEF DispatchShape
  <1>10. CASE DecidesEnd(j)
    <2>1. /\ pc[j] = "returned" /\ pc' = [pc EXCEPT ![j] = EndStatus(j)]
          /\ UNCHANGED <<jobs, targets, todo, sessions, row, unshown, overlapping, cutOff>>
      BY <1>10 DEF DecidesEnd, sessionVars
    <2>2. EndStatus(j) \in EndStatuses
      BY DEF EndStatus, EndStatuses
    <2>3. /\ pc' \in [SendJobs -> Places] /\ pc'[j] \in EndStatuses
          /\ \A i \in SendJobs \ {j} : pc'[i] = pc[i]
      <3>1. EndStatus(j) \in Places
        BY <2>2 DEF Places
      <3> HIDE DEF EndStatus
      <3> QED BY <1>1, <2>1, <2>2, <3>1 DEF DispatchShape
    <2>4. JobFits(j)'
      <3>1. /\ jobs[j].status # "new" /\ ~Ended(jobs[j].status) /\ AtTheEnd(j)
            /\ pc'[j] \notin {"start", "connect", "celery"}
        BY <1>1, <2>1, <2>3 DEF AtTheEnd, EndStatuses, JobFits
      <3> QED BY <1>1, <2>1, <3>1 DEF JobFits, Alive, CancelRequested
    <2> QED BY <1>1, <2>1, <2>3, <2>4, JobKeeps DEF DispatchShape, EndStatuses
  <1>11. CASE EndJob(j) \/ EndJobRefused(j)
    BY <1>11, EndKeeps
  <1> QED BY <1>3, <1>4, <1>5, <1>6, <1>7, <1>8, <1>9, <1>10, <1>11 DEF JobStep

\* A job is started by either endpoint; it has no sessions yet.
LEMMA RunKeeps ==
    ASSUME DispatchInv, NEW j \in SendJobs, NEW devices \in DeviceChoices, RunSendJob(j, devices)
    PROVE  DispatchInv'
  <1>1. /\ DispatchShape /\ OneActiveJob /\ \A i \in SendJobs : JobFits(i)
        /\ devices \subseteq Phones
    BY DispatchAssumption DEF DispatchInv, DispatchAssumption
  <1>2. /\ jobs[j].status = "new" /\ jobs' = [jobs EXCEPT ![j].status = "running"]
        /\ pc' = [pc EXCEPT ![j] = "start"] /\ targets' = [targets EXCEPT ![j] = devices]
        /\ overlapping' = (overlapping \/ \E i \in SendJobs : Active(jobs[i].status))
        /\ UNCHANGED <<todo, sessions, row, unshown, cutOff>>
    BY DEF RunSendJob, sessionVars
  <1>3. /\ jobs' = [i \in SendJobs |-> [status |-> jobs'[i].status, cancel |-> jobs'[i].cancel,
                                        summary |-> jobs'[i].summary]]
        /\ jobs'[j].status = "running" /\ jobs'[j].cancel = jobs[j].cancel
        /\ \A i \in SendJobs \ {j} : jobs'[i] = jobs[i]
        /\ \A i \in SendJobs : jobs'[i].status \in JobStatuses
    BY <1>1, <1>2, StatusWritten DEF JobStatuses
  <1>4. /\ pc' \in [SendJobs -> Places] /\ targets' \in [SendJobs -> SUBSET Phones]
        /\ pc'[j] = "start"
        /\ \A i \in SendJobs \ {j} : pc'[i] = pc[i] /\ targets'[i] = targets[i]
    BY <1>1, <1>2 DEF DispatchShape, Places
  <1>5. DispatchShape'
    BY <1>1, <1>2, <1>3, <1>4 DEF DispatchShape
  <1>6. \A s \in SessionIds : s.job = j => sessions[s] = "none"
    BY <1>1, <1>2 DEF JobFits
  <1>7. ASSUME NEW i \in SendJobs PROVE JobFits(i)'
    <2>1. JobFits(i)
      BY <1>1
    <2>2. CASE i = j
      <3>1. ~AtTheEnd(j)' /\ ~Ended(jobs'[j].status)
        BY <1>3, <1>4 DEF AtTheEnd, EndStatuses, Ended
      <3> QED BY <1>2, <1>3, <1>4, <1>6, <2>1, <2>2, <3>1 DEF JobFits, CancelRequested
    <2>3. CASE i # j
      BY <1>2, <1>3, <1>4, <2>1, <2>3 DEF JobFits, AtTheEnd, CancelRequested, Alive
    <2> QED BY <2>2, <2>3
  <1>8. OneActiveJob'
    <2> SUFFICES ASSUME ~overlapping', NEW i \in SendJobs, NEW k \in SendJobs,
                        Active(jobs'[i].status), Active(jobs'[k].status)
                 PROVE  i = k
      BY DEF OneActiveJob
    <2>1. \A x \in SendJobs : ~Active(jobs[x].status)
      BY <1>2
    <2> QED BY <1>3, <2>1
  <1>9. OneByOne' => OneByOne
    BY <1>1, <1>2, OneByOneBefore DEF DispatchShape
  <1>10. ASSUME OneByOne', NEW s \in SessionIds PROVE PhoneFits(s)'
    <2>1. PhoneFits(s) /\ s.job \in SendJobs
      BY <1>9, <1>10, SessionFields DEF DispatchInv
    <2>2. CASE s.job = j
      BY <1>2, <1>6, <2>2 DEF PhoneFits, OnThePhone, AtWork
    <2>3. CASE s.job # j
      BY <1>2, <1>3, <1>4, <2>1, <2>3 DEF PhoneFits, OnThePhone, AtWork, Alive
    <2> QED BY <2>2, <2>3
  <1> QED BY <1>5, <1>7, <1>8, <1>10 DEF DispatchInv

LEMMA CancelKeeps ==
    ASSUME DispatchInv, NEW j \in SendJobs, CancelTakesBack(j) \/ CancelSetsFlag(j)
    PROVE  DispatchInv'
  <1>1. /\ DispatchShape /\ JobFits(j) /\ UNCHANGED <<pc, targets, todo, sessions, row, unshown,
                                                      overlapping, cutOff>>
        /\ jobs[j].status = "running"
    BY DEF DispatchInv, CancelTakesBack, CancelSetsFlag, sessionVars
  <1>2. PICK flag \in {"released", "set"}, status \in JobStatuses :
            /\ \/ jobs' = [jobs EXCEPT ![j].cancel = flag] /\ status = jobs[j].status
               \/ jobs' = [jobs EXCEPT ![j].cancel = flag, ![j].status = status]
            /\ Active(status) /\ (jobs[j].cancel = "set" => flag = "set")
    <2>1. CASE CancelTakesBack(j)
      BY <1>1, <2>1 DEF CancelTakesBack, JobStatuses, Active
    <2>2. CASE CancelSetsFlag(j)
      BY <1>1, <2>2 DEF CancelSetsFlag, JobStatuses, Active
    <2> QED BY <2>1, <2>2
  <1>3. /\ jobs' = [i \in SendJobs |-> [status |-> jobs'[i].status, cancel |-> jobs'[i].cancel,
                                        summary |-> jobs'[i].summary]]
        /\ jobs'[j].status = status /\ jobs'[j].cancel = flag
        /\ \A i \in SendJobs \ {j} : jobs'[i] = jobs[i]
        /\ \A i \in SendJobs : jobs'[i].status \in JobStatuses
    BY <1>1, <1>2, CancelWritten
  <1>4. Active(jobs[j].status) /\ Active(jobs'[j].status)
    BY <1>1, <1>2, <1>3 DEF Active
  <1>5. JobFits(j)'
    BY <1>1, <1>2, <1>3, <1>4 DEF JobFits, Active, Ended, Alive, AtTheEnd, CancelRequested
  <1>6. ~Ended(jobs[j].status) /\ ~Ended(jobs'[j].status)
    BY <1>4 DEF Active, Ended
  <1> QED BY <1>1, <1>3, <1>4, <1>5, <1>6, JobKeeps DEF DispatchShape

LEMMA DispatchStep == DispatchInv /\ [DispatchNext]_dvars => DispatchInv'
  <1> SUFFICES ASSUME DispatchInv, [DispatchNext]_dvars PROVE DispatchInv'
    OBVIOUS
  <1>1. ASSUME UNCHANGED <<jobVars, sessionVars, overlapping, cutOff>> PROVE DispatchInv'
    <2>1. UNCHANGED <<jobs, pc, targets, todo, sessions, row, unshown, overlapping, cutOff>>
      BY <1>1 DEF jobVars, sessionVars
    <2> QED BY <2>1 DEF DispatchInv, DispatchShape, JobFits, OneActiveJob, OneByOne, PhoneFits,
                        ByThreads, SessionsOf, OnThePhone, AtWork, Alive, AtTheEnd,
                        CancelRequested, Ended, Active
  <1>2. CASE UNCHANGED dvars
    BY <1>1, <1>2 DEF dvars
  <1>3. ASSUME NEW r \in StartRequests, NEW yes \in BOOLEAN, StartSendChecks(r, yes)
        PROVE  DispatchInv'
    BY <1>1, <1>3 DEF StartSendChecks
  <1>4. ASSUME NEW j \in SendJobs, NEW devices \in DeviceChoices,
               TriggerSend(j, devices) \/ \E r \in StartRequests : StartSendCreates(r, j, devices)
        PROVE  DispatchInv'
    <2>1. RunSendJob(j, devices)
      BY <1>4 DEF TriggerSend, StartSendCreates
    <2> QED BY <2>1, RunKeeps
  <1>5. ASSUME NEW j \in SendJobs, JobStep(j) \/ CancelTakesBack(j) \/ CancelSetsFlag(j)
        PROVE  DispatchInv'
    BY <1>5, JobStepKeeps, CancelKeeps
  <1>6. ASSUME NEW s \in SessionIds, SessionStep(s) PROVE DispatchInv'
    BY <1>6, SessionKeepsDispatch
  <1>7. ASSUME NEW p \in Phones, NEW status \in {"idle", "offline"}, DeviceRequest(p, status)
        PROVE  DispatchInv'
    BY <1>7, RequestKeeps
  <1> QED BY <1>2, <1>3, <1>4, <1>5, <1>6, <1>7 DEF DispatchNext

LEMMA DispatchInvariant == DispatchSpec => []DispatchInv
  <1>1. DispatchInit => DispatchInv
    <2> SUFFICES ASSUME DispatchInit PROVE DispatchInv
      OBVIOUS
    <2>1. DispatchShape
      BY FS_EmptySet DEF DispatchInit, DispatchShape, JobStatuses, Places, SessionStates, RowStatuses
    <2>2. ASSUME NEW j \in SendJobs PROVE JobFits(j)
      <3>1. pc[j] = "over" /\ jobs[j].status = "new" /\ cutOff = {}
        BY DEF DispatchInit
      <3>2. ~AtTheEnd(j) /\ ~Ended(jobs[j].status)
        BY <3>1 DEF AtTheEnd, EndStatuses, Ended
      <3> QED BY <3>1, <3>2 DEF JobFits, DispatchInit
    <2>3. OneActiveJob
      BY DEF DispatchInit, OneActiveJob, Active
    <2>4. ASSUME NEW s \in SessionIds PROVE PhoneFits(s)
      BY DEF DispatchInit, PhoneFits, OnThePhone, AtWork
    <2> QED BY <2>1, <2>2, <2>3, <2>4 DEF DispatchInv
  <1> QED BY <1>1, DispatchStep, PTL DEF DispatchSpec

\* For any number of jobs, phones and requests no phone is worked by two sessions
\* and none that the dashboard offers is in use, as long as jobs run one by one.
THEOREM PhonesNotShared == DispatchSpec => []SessionsAlone
  <1>1. DispatchInv => SessionsAlone
    <2> SUFFICES ASSUME DispatchInv, OneByOne PROVE SessionsAlone
      BY DEF SessionsAlone, OneByOne
    <2>1. ASSUME NEW s \in SessionIds \ unshown, OnThePhone(s)
          PROVE  /\ Alive(s) /\ s.job \in SendJobs
                 /\ Active(jobs[s.job].status) \/ Ended(jobs[s.job].status)
                 /\ s.via = "thread" /\ PhoneFits(s)
      <3>1. /\ s.job \in SendJobs /\ JobFits(s.job) /\ PhoneFits(s) /\ Alive(s)
            /\ jobs[s.job].status \in JobStatuses
        BY <2>1, SessionFields DEF DispatchInv, DispatchShape, OnThePhone, Alive
      <3>2. jobs[s.job].status # "new"
        BY <2>1, <3>1 DEF JobFits, OnThePhone
      <3>3. s.via = "thread"
        BY <2>1, <3>1, SessionFields DEF OneByOne, ByThreads, SessionsOf, OnThePhone
      <3> QED BY <3>1, <3>2, <3>3 DEF JobStatuses, Active, Ended
    <2>2. ASSUME NEW s \in SessionIds \ unshown, NEW t \in SessionIds \ unshown, OnThePhone(s), OnThePhone(t),
                 s.phone = t.phone, s # t
          PROVE  FALSE
      <3>1. s.job # t.job
        BY <2>1, <2>2, SessionFields
      <3>2. ~Active(jobs[s.job].status) \/ ~Active(jobs[t.job].status)
        BY <2>1, <2>2, <3>1 DEF DispatchInv, OneActiveJob, OneByOne
      <3>3. Ended(jobs[s.job].status) => ~Alive(t)
        BY <2>1, <2>2 DEF PhoneFits
      <3>4. Ended(jobs[t.job].status) => ~Alive(s)
        BY <2>1, <2>2 DEF PhoneFits
      <3> QED BY <2>1, <2>2, <3>2, <3>3, <3>4
    <2>3. ASSUME DashboardState.can_send, NEW s \in SessionIds \ unshown, OnThePhone(s)
          PROVE  s.phone \notin DeviceMatrix.available
      <3>1. \A j \in SendJobs : ~Active(jobs[j].status)
        BY <2>3 DEF DashboardState
      <3>2. row[s.phone] = "running"
        BY <2>1, <2>3, <3>1 DEF PhoneFits
      <3> QED BY <3>2 DEF DeviceMatrix
    <2> QED BY <2>2, <2>3 DEF SessionsAlone
  <1> QED BY <1>1, DispatchInvariant, PTL
------------------------------------------------------------------------------
(* What jobs report *)

Mine(j) == {s \in SessionIds : s.job = j}
HasSent(j) == \E s \in Mine(j) : counts[s].sent > 0
Settled(j) == /\ AtTheEnd(j) \/ Ended(jobs[j].status)
              /\ ByThreads(j) /\ j \notin cutOff
              /\ \A s \in Mine(j) : sessions[s] # "died"
\* A job that was cancelled while it reported its end shows nothing.
ReportLost(j) == jobs[j].status = "failed" /\ CancelRequested(j) /\ jobs[j].summary.sent = 0
Summaries == [ok : BOOLEAN, sent : Nat, failed : Nat]
JobRows == {r \in [status : JobStatuses, cancel : {"no", "released", "set"}, summary : Summaries] :
               r.status = "cancelling" => r.cancel = "set"}

\* What DispatchShape leaves open.
CountTypes ==
    /\ jobs \in [SendJobs -> JobRows]
    /\ \A j \in SendJobs : todo[j] \subseteq targets[j]
    /\ counts \in [SessionIds -> [sent : Nat, failed : Nat]]
    /\ latest \in [SendJobs -> {"none"} \cup Outcomes]
    /\ checked \in [StartRequests -> BOOLEAN] /\ overlapping \in BOOLEAN

\* Leads are waiting or claimed.
LeadsFit == IsFiniteSet(claims) /\ waiting \in Nat /\ waiting + Cardinality(claims) <= PoolSize

\* The claims of a session are those of messages it has counted and, while it is
\* on the phone, that of the next one.
ClaimFits(c) ==
    /\ c \in [session : SessionIds, number : Nat]
    /\ \/ c.number < Counted(c.session)
       \/ OnThePhone(c.session) /\ c.number = Counted(c.session)
ClaimsFit == (\A c \in claims : ClaimFits(c)) /\ unshown \subseteq {s \in SessionIds : AtWork(s)}

\* A job that comes back from Celery has sessions there.
PlaceFits(j) ==
    /\ pc[j] # "celery" => todo[j] = {}
    /\ pc[j] \in {"connect", "celery"} => targets[j] # {}
    /\ pc[j] = "celery" /\ ByThreads(j) => todo[j] # {}

SummaryFits(j) ==
    /\ jobs[j].summary.sent > 0 \/ latest[j] = "ok" => HasSent(j)
    /\ Settled(j) => jobs[j].summary.sent = MessagesOf(j) \/ ReportLost(j)

CountInv ==
    /\ CountTypes /\ LeadsFit /\ ClaimsFit
    /\ \A s \in SessionIds : sessions[s] = "none" => counts[s].sent = 0
    /\ \A j \in SendJobs : PlaceFits(j) /\ SummaryFits(j)

LEMMA MineFinite ==
    ASSUME NEW j \in SendJobs
    PROVE  IsFiniteSet(Mine(j))
  <1> DEFINE T == Phones \X {"celery", "thread"}
             f == [s \in Mine(j) |-> <<s.phone, s.via>>]
  <1>1. f \in [Mine(j) -> T]
    BY SessionFields DEF Mine
  <1>2. \A s, t \in Mine(j) : f[s] = f[t] => s = t
    BY SessionFields DEF Mine
  <1>3. IsFiniteSet({"celery"} \cup {"thread"})
    BY FS_Singleton, FS_Union
  <1>4. {"celery"} \cup {"thread"} = {"celery", "thread"}
    OBVIOUS
  <1>5. IsFiniteSet(T)
    BY <1>3, <1>4, FS_Product, DispatchAssumption DEF DispatchAssumption
  <1> HIDE DEF f, T
  <1>6. f \in Injection(Mine(j), T)
    BY <1>1, <1>2 DEF Injection, IsInjective
  <1> QED BY <1>5, <1>6, FS_Injection

LEMMA MessagesAre ==
    ASSUME NEW j
    PROVE  /\ MessagesOf(j) = Sum([s \in Mine(j) |-> counts[s].sent], Mine(j))
           /\ MessagesOf(j)' = Sum([s \in Mine(j) |-> counts'[s].sent], Mine(j))
  <1>1. MessagesOf(j) = Sum([s \in Mine(j) |-> counts[s].sent], Mine(j))
    BY DEF MessagesOf, CountedOf, Mine, Sum
  <1>2. MessagesOf(j)' = Sum([s \in Mine(j) |-> counts'[s].sent], Mine(j))
    BY DEF MessagesOf, CountedOf, Mine, Sum, FoldFunctionOnSet, MapThenFoldSet
  <1> QED BY <1>1, <1>2

LEMMA MessagesKept ==
    ASSUME NEW j, \A s \in Mine(j) : counts'[s] = counts[s]
    PROVE  MessagesOf(j)' = MessagesOf(j)
  <1>1. [s \in Mine(j) |-> counts'[s].sent] = [s \in Mine(j) |-> counts[s].sent]
    OBVIOUS
  <1> QED BY <1>1, MessagesAre, Zenon

LEMMA MessagesSent ==
    ASSUME CountTypes, NEW j \in SendJobs
    PROVE  /\ MessagesOf(j) \in Nat
           /\ HasSent(j) => MessagesOf(j) > 0
           /\ ~HasSent(j) => MessagesOf(j) = 0
  <1> DEFINE f == [s \in Mine(j) |-> counts[s].sent]
  <1>1. \A s \in Mine(j) : f[s] \in Nat
    BY DEF CountTypes, Mine
  <1>2. IsFiniteSet(Mine(j)) /\ MessagesOf(j) = Sum(f, Mine(j))
    BY MineFinite, MessagesAre
  <1>3. HasSent(j) => \E s \in Mine(j) : f[s] > 0
    BY DEF HasSent
  <1>4. ~HasSent(j) => \A s \in Mine(j) : f[s] = 0
    BY <1>1 DEF HasSent
  <1> HIDE DEF f
  <1> QED BY <1>1, <1>2, <1>3, <1>4, SumNatural, SumPositive, SumZero

\* The summaries of threads that were joined.
LEMMA JoinedIs ==
    ASSUME CountTypes, NEW j \in SendJobs, NEW T \in SUBSET Mine(j)
    PROVE  /\ Joined(j, T) \in Summaries
           /\ Joined(j, T).sent > 0 => HasSent(j)
  <1> DEFINE whole == {s \in T : sessions[s] = "ended"}
             f == [s \in whole |-> counts[s].sent]
             g == [s \in whole |-> counts[s].failed]
  <1>1. Joined(j, T) = [ok |-> TRUE, sent |-> Sum(f, whole), failed |-> Sum(g, whole)]
    BY DEF Joined, CountedOf, Sum
  <1>2. IsFiniteSet(whole) /\ whole \subseteq Mine(j)
    BY MineFinite, FS_Subset
  <1>3. \A s \in whole : f[s] \in Nat /\ g[s] \in Nat
    BY <1>2 DEF CountTypes, Mine
  <1>4. ~HasSent(j) => \A s \in whole : f[s] = 0
    <2> SUFFICES ASSUME NEW s \in whole, f[s] # 0 PROVE HasSent(j)
      OBVIOUS
    <2>1. s \in Mine(j) /\ f[s] = counts[s].sent /\ f[s] \in Nat
      BY <1>2, <1>3
    <2> HIDE DEF f, whole
    <2>2. counts[s].sent > 0
      BY <2>1
    <2> QED BY <2>1, <2>2 DEF HasSent
  <1> HIDE DEF whole, f, g
  <1>5. /\ Sum(f, whole) \in Nat /\ Sum(g, whole) \in Nat
        /\ ~HasSent(j) => Sum(f, whole) = 0
    BY <1>2, <1>3, <1>4, SumNatural, SumZero
  <1> QED BY <1>1, <1>5 DEF Summaries

\* Once all threads of a job are over and none has raised, they have sent all.
LEMMA JoinedAll ==
    ASSUME CountInv, NEW j \in SendJobs, ByThreads(j), \A s \in Threads(j) : Over(s),
           \A s \in Mine(j) : sessions[s] # "died"
    PROVE  Joined(j, Threads(j)).sent = MessagesOf(j)
  <1> DEFINE whole == {s \in Threads(j) : sessions[s] = "ended"}
             f == [s \in whole |-> counts[s].sent]
             all == [s \in Mine(j) |-> counts[s].sent]
  <1>1. Joined(j, Threads(j)).sent = Sum(f, whole)
    BY DEF Joined, CountedOf, Sum
  <1>2. MessagesOf(j) = Sum(all, Mine(j)) /\ IsFiniteSet(Mine(j))
    BY MineFinite, MessagesAre
  <1>3. whole \subseteq Mine(j) /\ \A s \in whole : f[s] = all[s]
    BY DEF Threads, SessionsOf, Mine
  <1>4. \A s \in Mine(j) : all[s] \in Int
    BY DEF CountInv, CountTypes, Mine
  <1>5. ASSUME NEW s \in Mine(j) \ whole PROVE all[s] = 0
    <2>1. s.via = "celery" => sessions[s] = "none"
      BY DEF ByThreads, SessionsOf, Mine
    <2>2. s.via = "thread" => sessions[s] = "none"
      BY DEF Threads, SessionsOf, Mine, Over
    <2>3. sessions[s] = "none"
      BY <2>1, <2>2, SessionFields DEF Mine
    <2> QED BY <2>3 DEF CountInv, Mine
  <1> HIDE DEF whole, f, all
  <1> QED BY <1>1, <1>2, <1>3, <1>4, <1>5, SumSupport

LEMMA ClaimsKept ==
    ASSUME ClaimsFit, UNCHANGED <<counts, unshown>>, claims' \subseteq claims,
           \A s \in SessionIds : AtWork(s) => sessions'[s] = sessions[s]
    PROVE  ClaimsFit'
  <1>1. ASSUME NEW c \in claims' PROVE ClaimFits(c)'
    <2>1. ClaimFits(c) /\ c.session \in SessionIds
      BY DEF ClaimsFit, ClaimFits
    <2>2. OnThePhone(c.session) => OnThePhone(c.session)'
      BY <2>1 DEF OnThePhone, AtWork
    <2> QED BY <2>1, <2>2 DEF ClaimFits, Counted
  <1> QED BY <1>1 DEF ClaimsFit, AtWork

\* A step that sends nothing and ends no run_senders.
LEMMA QuietKeeps ==
    ASSUME CountInv, CountTypes', LeadsFit', ClaimsFit', UNCHANGED <<counts, latest>>,
           \A s \in SessionIds : /\ sessions'[s] = "none" => sessions[s] = "none"
                                 /\ sessions[s] = "died" => sessions'[s] = "died",
           cutOff \subseteq cutOff',
           \A j \in SendJobs :
              /\ jobs'[j].summary = jobs[j].summary
              /\ Ended(jobs[j].status) => jobs'[j] = jobs[j]
              /\ AtTheEnd(j)' \/ Ended(jobs'[j].status) => AtTheEnd(j) \/ Ended(jobs[j].status)
              /\ PlaceFits(j)'
    PROVE  CountInv'
  <1>1. ASSUME NEW j \in SendJobs PROVE SummaryFits(j)'
    <2>1. SummaryFits(j)
      BY DEF CountInv
    <2>2. HasSent(j)' = HasSent(j) /\ MessagesOf(j)' = MessagesOf(j)
      BY MessagesKept DEF HasSent, Mine
    <2>3. Settled(j)' => Settled(j)
      BY DEF Settled, ByThreads, SessionsOf, Mine
    <2>4. ReportLost(j) => ReportLost(j)'
      BY DEF ReportLost, Ended, CancelRequested
    <2> QED BY <2>1, <2>2, <2>3, <2>4 DEF SummaryFits
  <1> QED BY <1>1 DEF CountInv

\* run_senders returns with a summary of what the sessions have counted.
LEMMA ReturnCounts ==
    ASSUME DispatchInv, CountInv, NEW j \in SendJobs, NEW summary \in Summaries,
           Returns(j, summary), todo[j] = {},
           UNCHANGED <<todo, sessions, claims, counts, latest, unshown, waiting, checked,
                       overlapping>>,
           \A i \in SendJobs \ {j} : targets'[i] = targets[i],
           cutOff' = cutOff \/ cutOff' = cutOff \cup {j},
           summary.sent > 0 => HasSent(j),
           Settled(j)' => summary.sent = MessagesOf(j)
    PROVE  CountInv'
  <1>1. /\ jobs' = [jobs EXCEPT ![j].summary = summary] /\ pc' = [pc EXCEPT ![j] = "returned"]
        /\ jobs \in [SendJobs -> JobRows] /\ pc \in [SendJobs -> Places]
    BY DEF Returns, CountInv, CountTypes, DispatchInv, DispatchShape
  <1>2. /\ jobs' \in [SendJobs -> JobRows] /\ jobs'[j].summary = summary
        /\ \A i \in SendJobs \ {j} : jobs'[i] = jobs[i] /\ pc'[i] = pc[i]
        /\ pc'[j] = "returned"
    BY <1>1 DEF JobRows
  <1>3. CountTypes' /\ LeadsFit' /\ ClaimsFit'
    BY <1>2, ClaimsKept DEF CountInv, CountTypes, LeadsFit
  <1>4. ASSUME NEW i \in SendJobs PROVE PlaceFits(i)' /\ SummaryFits(i)'
    <2>1. PlaceFits(i) /\ SummaryFits(i)
      BY DEF CountInv
    <2>2. HasSent(i)' = HasSent(i) /\ MessagesOf(i)' = MessagesOf(i)
      BY MessagesKept DEF HasSent, Mine
    <2>3. CASE i = j
      BY <1>2, <2>1, <2>2, <2>3 DEF PlaceFits, SummaryFits
    <2>4. CASE i # j
      <3>1. (Settled(i)' => Settled(i)) /\ (ReportLost(i) => ReportLost(i)')
        BY <1>2, <2>4 DEF Settled, ReportLost, AtTheEnd, ByThreads, CancelRequested
      <3>2. PlaceFits(i)'
        BY <1>2, <2>1, <2>4 DEF PlaceFits, ByThreads
      <3> QED BY <1>2, <2>1, <2>2, <2>4, <3>1, <3>2 DEF SummaryFits
    <2> QED BY <2>3, <2>4
  <1> QED BY <1>3, <1>4 DEF CountInv

\* A job that has no sessions has sent nothing.
LEMMA NoSessions ==
    ASSUME CountInv, NEW j \in SendJobs, \A s \in SessionIds : s.job = j => sessions[s] = "none"
    PROVE  MessagesOf(j) = 0 /\ ~HasSent(j)
  <1>1. ~HasSent(j)
    BY DEF HasSent, Mine, CountInv
  <1> QED BY <1>1, MessagesSent DEF CountInv

LEMMA RunSendersCounts ==
    ASSUME DispatchInv, CountInv, NEW j \in SendJobs, NEW yes \in BOOLEAN, RunSenders(j, yes)
    PROVE  CountInv'
  <1>1. /\ pc[j] = "start" /\ DispatchShape /\ JobFits(j)
        /\ UNCHANGED <<todo, sessions, claims, counts, latest, row, unshown, waiting, checked,
                       overlapping, cutOff>>
    BY DEF RunSenders, sessionVars, DispatchInv
  <1>2. todo[j] = {} /\ MessagesOf(j) = 0 /\ NothingSent \in Summaries /\ NoPhones \in Summaries
    <2>1. \A s \in SessionIds : s.job = j => sessions[s] = "none"
      BY <1>1 DEF JobFits
    <2> QED BY <1>1, <2>1, NoSessions DEF CountInv, PlaceFits, NothingSent, NoPhones, Summaries
  <1>3. \A i \in SendJobs \ {j} : targets'[i] = targets[i]
    BY <1>1 DEF RunSenders, DispatchShape
  <1>4. ASSUME NEW summary \in {NothingSent, NoPhones}, Returns(j, summary) PROVE CountInv'
    <2>1. summary \in Summaries
      BY <1>2
    <2>2. NothingSent.sent = 0 /\ NoPhones.sent = 0
      BY DEF NothingSent, NoPhones
    <2>3. summary.sent = 0
      BY <2>2
    <2> QED BY <1>1, <1>2, <1>3, <1>4, <2>1, <2>3, ReturnCounts
  <1>5. ASSUME pc' = [pc EXCEPT ![j] = "connect"], jobs' = jobs, targets'[j] # {}
        PROVE  CountInv'
    <2>1. pc'[j] = "connect" /\ \A i \in SendJobs \ {j} : pc'[i] = pc[i]
      BY <1>1, <1>5 DEF DispatchShape
    <2>2. CountTypes' /\ LeadsFit' /\ ClaimsFit'
      BY <1>1, <1>2, <1>3, <1>5, ClaimsKept DEF CountInv, CountTypes, LeadsFit
    <2>3. ASSUME NEW i \in SendJobs PROVE PlaceFits(i)'
      <3>1. PlaceFits(i)
        BY DEF CountInv
      <3>2. CASE i = j
        BY <1>1, <1>2, <1>5, <2>1, <3>2 DEF PlaceFits
      <3>3. CASE i # j
        BY <1>1, <1>3, <2>1, <3>1, <3>3 DEF PlaceFits, ByThreads
      <3> QED BY <3>2, <3>3
    <2>4. \A i \in SendJobs : AtTheEnd(i)' => AtTheEnd(i)
      BY <2>1 DEF AtTheEnd, EndStatuses
    <2> QED BY <1>1, <1>5, <2>2, <2>3, <2>4, QuietKeeps
  <1>6. CASE CancelRequested(j) \/ ~yes
    BY <1>4, <1>6 DEF RunSenders
  <1>7. CASE ~(CancelRequested(j) \/ ~yes) /\ AvailablePhones(j) = {}
    BY <1>4, <1>7 DEF RunSenders
  <1>8. CASE ~(CancelRequested(j) \/ ~yes) /\ AvailablePhones(j) # {}
    <2>1. /\ targets' = [targets EXCEPT ![j] = AvailablePhones(j)]
          /\ pc' = [pc EXCEPT ![j] = "connect"] /\ jobs' = jobs
      BY <1>8 DEF RunSenders
    <2>2. targets'[j] # {}
      BY <1>1, <1>8, <2>1 DEF DispatchShape
    <2> QED BY <1>5, <2>1, <2>2
  <1> QED BY <1>6, <1>7, <1>8

\* A step from one place of a job to another, with or without new sessions.
LEMMA PlaceCounts ==
    ASSUME DispatchInv, CountInv, NEW j \in SendJobs,
           pc' \in [SendJobs -> Places], pc'[j] \in {"celery", "join"} \/ AtTheEnd(j),
           \A i \in SendJobs \ {j} : pc'[i] = pc[i] /\ todo'[i] = todo[i],
           UNCHANGED <<jobs, targets, claims, counts, latest, unshown, waiting, checked,
                       overlapping, cutOff>>,
           \A s \in SessionIds : sessions[s] # "none" => sessions'[s] = sessions[s],
           todo'[j] \subseteq targets[j], PlaceFits(j)'
    PROVE  CountInv'
  <1>1. ClaimsFit'
    BY ClaimsKept DEF CountInv, AtWork
  <1>2. CountTypes' /\ LeadsFit'
    BY DEF CountInv, CountTypes, LeadsFit
  <1>3. ASSUME NEW i \in SendJobs PROVE PlaceFits(i)' /\ (AtTheEnd(i)' => AtTheEnd(i))
    <2>1. PlaceFits(i)
      BY DEF CountInv
    <2>2. PlaceFits(i)'
      BY <2>1 DEF PlaceFits, ByThreads, SessionsOf
    <2> QED BY <2>2 DEF AtTheEnd, EndStatuses
  <1>4. \A s \in SessionIds : sessions'[s] = "none" => sessions[s] = "none"
    OBVIOUS
  <1> QED BY <1>1, <1>2, <1>3, <1>4, QuietKeeps

LEMMA ThreadCounts ==
    ASSUME DispatchInv, CountInv, NEW j \in SendJobs, pc[j] \in {"connect", "celery"},
           StartThreads(j), todo'[j] = {}, \A i \in SendJobs \ {j} : todo'[i] = todo[i],
           UNCHANGED <<jobs, targets, claims, counts, latest, unshown, waiting, checked,
                       overlapping, cutOff>>
    PROVE  CountInv'
  <1>1. DispatchShape /\ JobFits(j) /\ pc' = [pc EXCEPT ![j] = "join"]
        /\ sessions' = [s \in SessionIds |->
                           IF s.job = j /\ s.via = "thread" /\ s.phone \in targets[j]
                           THEN "queued" ELSE sessions[s]]
    BY DEF DispatchInv, StartThreads, SessionsOf
  <1>2. /\ pc' \in [SendJobs -> Places] /\ pc'[j] = "join"
        /\ \A i \in SendJobs \ {j} : pc'[i] = pc[i]
    BY <1>1 DEF DispatchShape, Places
  <1>3. ASSUME NEW s \in SessionIds, sessions[s] # "none" PROVE sessions'[s] = sessions[s]
    <2>1. s.job = j /\ s.via = "thread" => sessions[s] = "none"
      BY <1>1 DEF JobFits
    <2> QED BY <1>1, <1>3, <2>1
  <1>4. PlaceFits(j)'
    BY <1>2 DEF PlaceFits
  <1> QED BY <1>2, <1>3, <1>4, PlaceCounts

\* The end is written, or "failed" is.
LEMMA EndCounts ==
    ASSUME DispatchInv, CountInv, NEW j \in SendJobs, EndJob(j) \/ EndJobRefused(j)
    PROVE  CountInv'
  <1>1. /\ DispatchShape /\ JobFits(j) /\ CountTypes /\ PlaceFits(j) /\ SummaryFits(j)
        /\ LeadsFit /\ ClaimsFit
    BY DEF DispatchInv, CountInv
  <1>2. /\ \A i \in SendJobs \ {j} : jobs'[i] = jobs[i]
        /\ jobs' = [i \in SendJobs |-> [status |-> jobs'[i].status, cancel |-> jobs'[i].cancel,
                                        summary |-> jobs'[i].summary]]
        /\ jobs'[j].cancel = jobs[j].cancel /\ jobs'[j].status \in JobStatuses
        /\ Ended(jobs'[j].status) /\ pc[j] \in EndStatuses
    BY <1>1, EndWritten
  <1>3. \/ jobs'[j].summary = jobs[j].summary
        \/ /\ jobs[j].status = "cancelling" /\ jobs'[j].status = "failed"
           /\ jobs'[j].summary = NothingSent
    BY <1>1, EndWritten
  <1>4. /\ pc' = [pc EXCEPT ![j] = "over"] /\ targets' = [targets EXCEPT ![j] = {}]
        /\ UNCHANGED <<todo, sessions, claims, counts, latest, unshown, waiting, checked,
                       overlapping, cutOff>>
    <2>1. Reported(j)
      BY <1>1, EndWritten
    <2> QED BY <2>1 DEF Reported, sessionVars
  <1>5. /\ pc'[j] = "over" /\ targets'[j] = {} /\ todo[j] = {} /\ AtTheEnd(j)
        /\ \A i \in SendJobs \ {j} : pc'[i] = pc[i] /\ targets'[i] = targets[i]
    <2>1. pc[j] # "celery" /\ AtTheEnd(j)
      BY <1>2 DEF AtTheEnd, EndStatuses
    <2> QED BY <1>1, <1>4, <2>1 DEF PlaceFits, DispatchShape
  <1>6. jobs' \in [SendJobs -> JobRows]
    <2>1. NothingSent \in Summaries /\ jobs[j] \in JobRows
      BY <1>1 DEF NothingSent, Summaries, CountTypes
    <2>2. jobs'[j].summary \in Summaries /\ jobs'[j].cancel \in {"no", "released", "set"}
      BY <1>2, <1>3, <2>1 DEF JobRows
    <2>3. ASSUME NEW i \in SendJobs PROVE jobs'[i] \in JobRows
      <3>1. CASE i = j
        BY <1>2, <2>2, <3>1 DEF JobRows, Ended
      <3>2. CASE i # j
        BY <1>1, <1>2, <3>2 DEF CountTypes
      <3> QED BY <3>1, <3>2
    <2> QED BY <1>2, <2>3
  <1>7. CountTypes' /\ LeadsFit' /\ ClaimsFit'
    <2>1. \A i \in SendJobs : todo'[i] \subseteq targets'[i]
      BY <1>1, <1>4, <1>5 DEF CountTypes
    <2>2. ClaimsFit'
      BY <1>1, <1>4, ClaimsKept
    <2> QED BY <1>1, <1>4, <1>6, <2>1, <2>2 DEF CountTypes, LeadsFit
  <1>8. ASSUME NEW i \in SendJobs PROVE PlaceFits(i)' /\ SummaryFits(i)'
    <2>1. PlaceFits(i) /\ SummaryFits(i)
      BY DEF CountInv
    <2>2. HasSent(i)' = HasSent(i) /\ MessagesOf(i)' = MessagesOf(i)
      BY <1>4, MessagesKept DEF HasSent, Mine
    <2>3. CASE i # j
      <3>1. (Settled(i)' => Settled(i)) /\ (ReportLost(i) => ReportLost(i)')
        BY <1>2, <1>4, <1>5, <2>3 DEF Settled, ReportLost, AtTheEnd, ByThreads, CancelRequested
      <3>2. PlaceFits(i)'
        BY <1>4, <1>5, <2>1, <2>3 DEF PlaceFits, ByThreads
      <3> QED BY <1>2, <1>4, <2>1, <2>2, <2>3, <3>1, <3>2 DEF SummaryFits
    <2>4. CASE i = j /\ jobs'[j].summary = jobs[j].summary
      <3>1. Settled(j)' => Settled(j) /\ ~ReportLost(j)
        <4>1. ~Ended(jobs[j].status)
          BY <1>1, <1>2 DEF JobFits, EndStatuses
        <4>2. ~ReportLost(j)
          BY <4>1 DEF ReportLost, Ended
        <4> QED BY <1>4, <1>5, <4>2 DEF Settled, ByThreads
      <3> QED BY <1>4, <1>5, <2>1, <2>2, <2>4, <3>1 DEF PlaceFits, SummaryFits
    <2>5. CASE i = j /\ jobs[j].status = "cancelling" /\ jobs'[j].status = "failed"
               /\ jobs'[j].summary = NothingSent
      <3>1. jobs'[j].summary.sent = 0 /\ (latest[j] = "ok" => HasSent(j))
        BY <2>1, <2>5 DEF NothingSent, SummaryFits
      <3>2. ReportLost(j)'
        BY <1>1, <1>2, <2>5, <3>1 DEF ReportLost, CancelRequested, CountTypes, JobRows
      <3> QED BY <1>4, <1>5, <2>2, <2>5, <3>1, <3>2 DEF PlaceFits, SummaryFits
    <2> QED BY <1>3, <2>3, <2>4, <2>5
  <1> QED BY <1>4, <1>7, <1>8 DEF CountInv

LEMMA JobStepCounts ==
    ASSUME DispatchInv, CountInv, NEW j \in SendJobs, JobStep(j)
    PROVE  CountInv'
  <1>1. /\ DispatchShape /\ JobFits(j) /\ CountTypes /\ PlaceFits(j) /\ LeadsFit
        /\ pc \in [SendJobs -> Places] /\ todo \in [SendJobs -> SUBSET Phones]
        /\ targets \in [SendJobs -> SUBSET Phones]
    BY DEF DispatchInv, DispatchShape, CountInv
  <1>2. ASSUME NEW yes \in BOOLEAN, RunSenders(j, yes) PROVE CountInv'
    BY <1>2, RunSendersCounts
  <1>3. ASSUME NEW yes \in BOOLEAN, Connect(j, yes) PROVE CountInv'
    <2>1. /\ pc[j] = "connect" /\ todo[j] = {}
          /\ UNCHANGED <<jobs, targets, claims, counts, latest, unshown, waiting, checked,
                         overlapping, cutOff>>
      BY <1>1, <1>3 DEF Connect, PlaceFits
    <2>2. CASE yes
      <3>1. /\ pc' = [pc EXCEPT ![j] = "celery"] /\ todo' = [todo EXCEPT ![j] = targets[j]]
            /\ sessions' = sessions
        BY <1>3, <2>2 DEF Connect
      <3>2. /\ pc' \in [SendJobs -> Places] /\ pc'[j] = "celery" /\ todo'[j] = targets[j]
            /\ \A i \in SendJobs \ {j} : pc'[i] = pc[i] /\ todo'[i] = todo[i]
        BY <1>1, <3>1 DEF Places
      <3>3. PlaceFits(j)'
        BY <1>1, <2>1, <3>2 DEF PlaceFits
      <3> QED BY <2>1, <3>1, <3>2, <3>3, PlaceCounts
    <2>3. CASE ~yes
      <3>1. StartThreads(j) /\ todo' = todo
        BY <1>3, <2>3 DEF Connect
      <3> QED BY <2>1, <3>1, ThreadCounts
    <2> QED BY <2>2, <2>3
  <1>4. ASSUME NEW p \in Phones, DelaySession(j, p) PROVE CountInv'
    <2> DEFINE d == [job |-> j, phone |-> p, via |-> "celery"]
    <2>1. /\ pc[j] = "celery" /\ p \in todo[j] /\ todo' = [todo EXCEPT ![j] = @ \ {p}]
          /\ sessions' = [sessions EXCEPT ![d] = "queued"] /\ pc' = pc
          /\ UNCHANGED <<jobs, targets, claims, counts, latest, unshown, waiting, checked,
                         overlapping, cutOff>>
      BY <1>4 DEF DelaySession
    <2>2. d \in SessionIds /\ d.via = "celery" /\ d.job = j /\ d.phone = p
      BY DEF SessionIds
    <2>3. sessions[d] = "none"
      BY <1>1, <2>1, <2>2 DEF JobFits
    <2> HIDE DEF d
    <2>4. /\ todo'[j] = todo[j] \ {p} /\ \A i \in SendJobs \ {j} : todo'[i] = todo[i]
          /\ sessions'[d] = "queued"
          /\ \A s \in SessionIds : sessions[s] # "none" => sessions'[s] = sessions[s]
      BY <1>1, <2>1, <2>2, <2>3 DEF DispatchShape
    <2>5. PlaceFits(j)'
      <3>1. ~ByThreads(j)'
        BY <2>2, <2>4 DEF ByThreads, SessionsOf
      <3> QED BY <1>1, <2>1, <3>1 DEF PlaceFits
    <2>6. todo'[j] \subseteq targets[j]
      BY <1>1, <2>4 DEF CountTypes
    <2>7. pc'[j] \in {"celery", "join"}
      BY <2>1
    <2> QED BY <1>1, <2>1, <2>4, <2>5, <2>6, <2>7, PlaceCounts
  <1>5. CASE AllDelayed(j)
    <2>1. /\ pc[j] = "celery" /\ todo[j] = {} /\ Returns(j, NothingSent)
          /\ UNCHANGED <<targets, todo, sessions, claims, counts, latest, unshown, waiting,
                         checked, overlapping, cutOff>>
      BY <1>5 DEF AllDelayed, sessionVars
    <2>2. NothingSent \in Summaries /\ NothingSent.sent = 0
      BY DEF NothingSent, Summaries
    <2>3. ~ByThreads(j) /\ ~Settled(j)'
      BY <1>1, <2>1 DEF PlaceFits, Settled, ByThreads
    <2> QED BY <2>1, <2>2, <2>3, ReturnCounts
  <1>6. CASE DelayFails(j)
    <2>1. /\ pc[j] = "celery" /\ StartThreads(j) /\ todo' = [todo EXCEPT ![j] = {}]
          /\ UNCHANGED <<jobs, targets, claims, counts, latest, unshown, waiting, checked,
                         overlapping, cutOff>>
      BY <1>6 DEF DelayFails
    <2>2. todo'[j] = {} /\ \A i \in SendJobs \ {j} : todo'[i] = todo[i]
      BY <1>1, <2>1
    <2> QED BY <2>1, <2>2, ThreadCounts
  <1>7. Threads(j) \subseteq Mine(j)
    BY DEF Threads, SessionsOf, Mine
  <1>8. CASE AllJoined(j)
    <2>1. /\ pc[j] = "join" /\ Returns(j, Joined(j, Threads(j)))
          /\ \A s \in Threads(j) : Over(s)
          /\ UNCHANGED <<targets, todo, sessions, claims, counts, latest, unshown, waiting,
                         checked, overlapping, cutOff>>
      BY <1>8 DEF AllJoined, sessionVars
    <2>2. /\ Joined(j, Threads(j)) \in Summaries
          /\ Joined(j, Threads(j)).sent > 0 => HasSent(j)
      BY <1>1, <1>7, JoinedIs
    <2>3. Settled(j)' => Joined(j, Threads(j)).sent = MessagesOf(j)
      BY <2>1, JoinedAll DEF Settled, ByThreads
    <2>4. todo[j] = {}
      BY <1>1, <2>1 DEF PlaceFits
    <2> QED BY <2>1, <2>2, <2>3, <2>4, ReturnCounts
  <1>9. CASE GraceOver(j)
    <2> DEFINE over == {s \in Threads(j) : Over(s)}
               summary == [Joined(j, over) EXCEPT !.ok = FALSE]
    <2>1. /\ pc[j] = "join" /\ Returns(j, summary) /\ cutOff' = cutOff \cup {j}
          /\ UNCHANGED <<targets, todo, sessions, claims, counts, latest, unshown, waiting,
                         checked, overlapping>>
      BY <1>9 DEF GraceOver, sessionVars
    <2>2. Joined(j, over) \in Summaries /\ (Joined(j, over).sent > 0 => HasSent(j))
      BY <1>1, <1>7, JoinedIs
    <2>3. summary \in Summaries /\ summary.sent = Joined(j, over).sent
      <3> HIDE DEF over
      <3> QED BY <2>2 DEF Summaries
    <2>4. todo[j] = {} /\ ~Settled(j)'
      BY <1>1, <2>1 DEF PlaceFits, Settled
    <2> HIDE DEF summary, over
    <2> QED BY <2>1, <2>2, <2>3, <2>4, ReturnCounts
  <1>10. CASE DecidesEnd(j)
    <2>1. /\ pc[j] = "returned" /\ pc' = [pc EXCEPT ![j] = EndStatus(j)]
          /\ UNCHANGED <<jobs, targets, todo, sessions, claims, counts, latest, unshown, waiting,
                         checked, overlapping, cutOff>>
      BY <1>10 DEF DecidesEnd, sessionVars
    <2>2. EndStatus(j) \in EndStatuses
      BY DEF EndStatus, EndStatuses
    <2> HIDE DEF EndStatus
    <2>3. /\ pc' \in [SendJobs -> Places] /\ pc'[j] \in EndStatuses
          /\ \A i \in SendJobs \ {j} : pc'[i] = pc[i]
      BY <1>1, <2>1, <2>2 DEF Places
    <2>4. AtTheEnd(j) /\ todo[j] = {} /\ todo'[j] \subseteq targets[j]
      BY <1>1, <2>1 DEF AtTheEnd, PlaceFits
    <2>5. PlaceFits(j)'
      BY <2>1, <2>3, <2>4 DEF PlaceFits, EndStatuses
    <2> QED BY <2>1, <2>3, <2>4, <2>5, PlaceCounts
  <1>11. CASE EndJob(j) \/ EndJobRefused(j)
    BY <1>11, EndCounts
  <1> QED BY <1>2, <1>3, <1>4, <1>5, <1>6, <1>8, <1>9, <1>10, <1>11 DEF JobStep

LEMMA RunCounts ==
    ASSUME DispatchInv, CountInv, NEW j \in SendJobs, NEW devices \in DeviceChoices,
           RunSendJob(j, devices), checked' \in [StartRequests -> BOOLEAN]
    PROVE  CountInv'
  <1>1. /\ DispatchShape /\ JobFits(j) /\ CountTypes /\ LeadsFit /\ PlaceFits(j)
    BY DEF DispatchInv, CountInv
  <1>2. /\ jobs[j].status = "new" /\ jobs' = [jobs EXCEPT ![j].status = "running"]
        /\ pc' = [pc EXCEPT ![j] = "start"] /\ targets' = [targets EXCEPT ![j] = devices]
        /\ overlapping' = (overlapping \/ \E i \in SendJobs : Active(jobs[i].status))
        /\ UNCHANGED <<todo, sessions, claims, counts, latest, unshown, waiting, cutOff>>
    BY DEF RunSendJob, sessionVars
  <1>3. /\ jobs' \in [SendJobs -> JobRows] /\ jobs'[j].status = "running"
        /\ \A i \in SendJobs : jobs'[i].summary = jobs[i].summary
        /\ \A i \in SendJobs \ {j} : jobs'[i] = jobs[i]
    BY <1>1, <1>2 DEF CountTypes, JobRows, JobStatuses
  <1>4. /\ pc'[j] = "start" /\ todo[j] = {}
        /\ \A i \in SendJobs \ {j} : pc'[i] = pc[i] /\ targets'[i] = targets[i]
    BY <1>1, <1>2 DEF DispatchShape, JobFits, PlaceFits
  <1>5. overlapping' \in BOOLEAN
    BY <1>1, <1>2 DEF CountTypes
  <1>6. CountTypes' /\ LeadsFit' /\ ClaimsFit'
    <2>1. ClaimsFit'
      BY <1>2, ClaimsKept DEF CountInv
    <2> QED BY <1>1, <1>2, <1>3, <1>4, <1>5, <2>1 DEF CountTypes, LeadsFit
  <1>7. ASSUME NEW i \in SendJobs
        PROVE  /\ PlaceFits(i)' /\ (Ended(jobs[i].status) => jobs'[i] = jobs[i])
               /\ AtTheEnd(i)' \/ Ended(jobs'[i].status) => AtTheEnd(i) \/ Ended(jobs[i].status)
    <2>1. PlaceFits(i)
      BY DEF CountInv
    <2>2. CASE i = j
      BY <1>2, <1>3, <1>4, <2>2 DEF PlaceFits, Ended, AtTheEnd, EndStatuses
    <2>3. CASE i # j
      BY <1>2, <1>3, <1>4, <2>1, <2>3 DEF PlaceFits, ByThreads, AtTheEnd
    <2> QED BY <2>2, <2>3
  <1> QED BY <1>2, <1>3, <1>6, <1>7, QuietKeeps

\* The claims a cancellation gives back are waiting again.
LEMMA CancelCounts ==
    ASSUME DispatchInv, CountInv, NEW j \in SendJobs, CancelTakesBack(j) \/ CancelSetsFlag(j)
    PROVE  CountInv'
  <1>1. /\ DispatchShape /\ CountTypes /\ LeadsFit /\ ClaimsFit /\ jobs \in [SendJobs -> JobRows]
    BY DEF DispatchInv, CountInv, CountTypes
  <1>2. /\ UNCHANGED <<pc, targets, todo, sessions, counts, latest, unshown, checked,
                       overlapping, cutOff>>
        /\ jobs[j].status = "running"
    BY DEF CancelTakesBack, CancelSetsFlag, sessionVars
  <1>3. /\ jobs' \in [SendJobs -> JobRows]
        /\ \A i \in SendJobs : jobs'[i].summary = jobs[i].summary
        /\ \A i \in SendJobs : Ended(jobs'[i].status) => Ended(jobs[i].status)
        /\ \A i \in SendJobs \ {j} : jobs'[i] = jobs[i]
    <2>1. CASE CancelTakesBack(j)
      <3>1. jobs' = [jobs EXCEPT ![j].cancel = "released"]
        BY <2>1 DEF CancelTakesBack
      <3>2. /\ \A i \in SendJobs \ {j} : jobs'[i] = jobs[i]
            /\ jobs'[j] = [status |-> "running", cancel |-> "released", summary |-> jobs[j].summary]
            /\ jobs' = [i \in SendJobs |-> jobs'[i]]
        BY <1>1, <1>2, <3>1 DEF JobRows
      <3> QED BY <1>1, <3>2 DEF JobRows, JobStatuses, Ended
    <2>2. CASE CancelSetsFlag(j)
      <3>1. jobs' = [jobs EXCEPT ![j].cancel = "set", ![j].status = "cancelling"]
        BY <2>2 DEF CancelSetsFlag
      <3>2. /\ \A i \in SendJobs \ {j} : jobs'[i] = jobs[i]
            /\ jobs'[j] = [status |-> "cancelling", cancel |-> "set", summary |-> jobs[j].summary]
            /\ jobs' = [i \in SendJobs |-> jobs'[i]]
        BY <1>1, <3>1 DEF JobRows
      <3> QED BY <1>1, <3>2 DEF JobRows, JobStatuses, Ended
    <2> QED BY <2>1, <2>2
  <1>4. LeadsFit'
    <2>1. CASE CancelTakesBack(j)
      <3> DEFINE own == {c \in claims : c.session.job = j}
                 rest == {c \in claims : c.session.job # j}
      <3>1. waiting' = waiting + Cardinality(own) /\ claims' = rest
        BY <2>1 DEF CancelTakesBack
      <3>2. /\ IsFiniteSet(own) /\ Cardinality(own) \in Nat
            /\ IsFiniteSet(rest) /\ Cardinality(rest) \in Nat
        BY <1>1, FS_Subset, FS_CardinalityType DEF LeadsFit
      <3>3. claims = own \cup rest /\ own \cap rest = {}
        OBVIOUS
      <3> HIDE DEF own, rest
      <3>4. Cardinality(own \cup rest) = Cardinality(own) + Cardinality(rest)
                                         - Cardinality(own \cap rest)
        BY <3>2, FS_Union
      <3>5. Cardinality(own \cap rest) = 0 /\ Cardinality(claims) = Cardinality(own \cup rest)
        BY <3>3, FS_EmptySet, Zenon
      <3> QED BY <1>1, <3>1, <3>2, <3>4, <3>5 DEF LeadsFit
    <2>2. CASE CancelSetsFlag(j)
      BY <1>1, <2>2 DEF CancelSetsFlag, sessionVars, LeadsFit
    <2> QED BY <2>1, <2>2
  <1>5. CountTypes'
    BY <1>1, <1>2, <1>3 DEF CountTypes
  <1>6. \A i \in SendJobs : PlaceFits(i)'
    BY <1>2 DEF CountInv, PlaceFits, ByThreads
  <1>7. ClaimsFit'
    <2>1. claims' \subseteq claims
      BY DEF CancelTakesBack, CancelSetsFlag, sessionVars
    <2> QED BY <1>1, <1>2, <2>1, ClaimsKept
  <1>8. \A i \in SendJobs : /\ Ended(jobs[i].status) => jobs'[i] = jobs[i]
                            /\ AtTheEnd(i)' => AtTheEnd(i)
    BY <1>2, <1>3 DEF Ended, AtTheEnd
  <1> QED BY <1>2, <1>3, <1>4, <1>5, <1>6, <1>7, <1>8, QuietKeeps

\* A session counts a message.
LEMMA ActedCounts ==
    ASSUME DispatchInv, CountInv, NEW s \in SessionIds, NEW outcome \in Outcomes,
           NEW completed \in BOOLEAN, Acted(s, outcome, completed)
    PROVE  CountInv'
  <1>1. /\ DispatchShape /\ CountTypes /\ LeadsFit /\ ClaimsFit /\ s.job \in SendJobs
        /\ JobFits(s.job)
        /\ s.via \in {"celery", "thread"}
    BY SessionFields DEF DispatchInv, CountInv
  <1>2. /\ sessions[s] = "acting" /\ sessions' = [sessions EXCEPT ![s] = "working"]
        /\ claims' \subseteq claims /\ latest' = [latest EXCEPT ![s.job] = outcome]
        /\ UNCHANGED <<jobs, pc, targets, todo, unshown, waiting, checked, overlapping, cutOff>>
    BY DEF Acted, jobVars
  <1>3. /\ counts' \in [SessionIds -> [sent : Nat, failed : Nat]]
        /\ \A t \in SessionIds \ {s} : counts'[t] = counts[t]
        /\ counts'[s].sent >= counts[s].sent /\ Counted(s)' = Counted(s) + 1
        /\ outcome = "ok" => counts'[s].sent > 0
    <2>1. PICK old \in [sent : Nat, failed : Nat] : old = counts[s]
      BY <1>1 DEF CountTypes
    <2>2. CASE outcome = "ok"
      <3>1. counts' = [counts EXCEPT ![s] = [old EXCEPT !.sent = old.sent + 1]]
        BY <2>1, <2>2 DEF Acted
      <3>2. /\ [old EXCEPT !.sent = old.sent + 1] \in [sent : Nat, failed : Nat]
            /\ [old EXCEPT !.sent = old.sent + 1].sent = old.sent + 1 /\ old.sent \in Nat
            /\ [old EXCEPT !.sent = old.sent + 1].failed = old.failed /\ old.failed \in Nat
        OBVIOUS
      <3> QED BY <1>1, <2>1, <3>1, <3>2 DEF CountTypes, Counted
    <2>3. CASE outcome # "ok"
      <3>1. counts' = [counts EXCEPT ![s] = [old EXCEPT !.failed = old.failed + 1]]
        BY <2>1, <2>3 DEF Acted
      <3>2. /\ [old EXCEPT !.failed = old.failed + 1] \in [sent : Nat, failed : Nat]
            /\ [old EXCEPT !.failed = old.failed + 1].sent = old.sent /\ old.sent \in Nat
            /\ [old EXCEPT !.failed = old.failed + 1].failed = old.failed + 1 /\ old.failed \in Nat
        OBVIOUS
      <3> QED BY <1>1, <2>1, <2>3, <3>1, <3>2 DEF CountTypes, Counted
    <2> QED BY <2>2, <2>3
  <1>4. /\ sessions'[s] = "working" /\ \A t \in SessionIds \ {s} : sessions'[t] = sessions[t]
        /\ latest' \in [SendJobs -> {"none"} \cup Outcomes] /\ latest'[s.job] = outcome
        /\ \A i \in SendJobs \ {s.job} : latest'[i] = latest[i]
    BY <1>1, <1>2 DEF DispatchShape, CountTypes
  <1>5. CountTypes'
    BY <1>1, <1>2, <1>3, <1>4 DEF CountTypes
  <1>6. LeadsFit'
    <2>1. IsFiniteSet(claims') /\ Cardinality(claims') <= Cardinality(claims)
      BY <1>1, <1>2, FS_Subset DEF LeadsFit
    <2>2. Cardinality(claims) \in Nat /\ Cardinality(claims') \in Nat /\ PoolSize \in Nat
      BY <1>1, <2>1, FS_CardinalityType, DispatchAssumption DEF LeadsFit, DispatchAssumption
    <2> QED BY <1>1, <1>2, <2>1, <2>2 DEF LeadsFit
  <1>7. \A t \in SessionIds : sessions'[t] = "none" => counts'[t].sent = 0
    BY <1>3, <1>4 DEF CountInv
  <1>8. ASSUME NEW i \in SendJobs PROVE PlaceFits(i)' /\ SummaryFits(i)'
    <2>1. PlaceFits(i) /\ SummaryFits(i)
      BY DEF CountInv
    <2>2. ByThreads(i)' => ByThreads(i)
      BY <1>2, <1>4 DEF ByThreads, SessionsOf
    <2>3. PlaceFits(i)'
      BY <1>2, <2>1, <2>2 DEF PlaceFits
    <2>4. HasSent(i) => HasSent(i)'
      <3> SUFFICES ASSUME NEW t \in Mine(i), counts[t].sent > 0 PROVE HasSent(i)'
        BY DEF HasSent
      <3>1. t \in SessionIds /\ counts[t].sent \in Nat /\ counts'[t].sent \in Nat
        BY <1>1, <1>3 DEF Mine, CountTypes
      <3>2. counts'[t].sent >= counts[t].sent
        BY <1>3, <3>1
      <3>3. counts'[t].sent > 0
        BY <3>1, <3>2
      <3> QED BY <3>3 DEF HasSent, Mine
    <2>5. CASE i = s.job
      <3>1. outcome = "ok" => HasSent(i)'
        BY <1>3, <2>5 DEF HasSent, Mine
      <3>2. ~Settled(i)'
        <4> SUFFICES ASSUME Settled(i)' PROVE FALSE
          OBVIOUS
        <4>1. s.via = "thread"
          BY <1>1, <1>4, <2>5 DEF Settled, ByThreads, SessionsOf
        <4>2. AtTheEnd(i) \/ Ended(jobs[i].status)
          BY <1>2 DEF Settled, AtTheEnd
        <4>3. i \notin cutOff
          BY <1>2 DEF Settled
        <4> QED BY <1>1, <1>2, <2>5, <4>1, <4>2, <4>3 DEF JobFits, Alive
      <3> QED BY <1>2, <1>4, <2>1, <2>3, <2>4, <2>5, <3>1, <3>2 DEF SummaryFits
    <2>6. CASE i # s.job
      <3>1. \A t \in Mine(i) : counts'[t] = counts[t] /\ sessions'[t] = sessions[t]
        BY <1>3, <1>4, <2>6 DEF Mine
      <3>2. MessagesOf(i)' = MessagesOf(i)
        BY <3>1, MessagesKept
      <3>3. Settled(i)' => Settled(i)
        BY <1>2, <2>2, <3>1 DEF Settled, Mine, AtTheEnd
      <3>4. ReportLost(i) => ReportLost(i)'
        BY <1>2 DEF ReportLost, CancelRequested
      <3> QED BY <1>2, <1>4, <2>1, <2>3, <2>4, <2>6, <3>2, <3>3, <3>4 DEF SummaryFits
    <2> QED BY <2>5, <2>6
  <1>9. ClaimsFit'
    <2>1. ASSUME NEW c \in claims' PROVE ClaimFits(c)'
      <3>1. ClaimFits(c) /\ c.session \in SessionIds /\ c.number \in Nat
        BY <1>1, <1>2 DEF ClaimsFit, ClaimFits
      <3>2. CASE c.session = s
        <4>1. c.number <= Counted(s) /\ Counted(s) \in Nat
          BY <1>1, <3>1, <3>2 DEF ClaimFits, CountTypes, Counted
        <4>2. c.number < Counted(s)'
          BY <1>3, <3>1, <4>1
        <4> QED BY <3>1, <3>2, <4>2 DEF ClaimFits
      <3>3. CASE c.session # s
        <4>1. Counted(c.session)' = Counted(c.session)
              /\ OnThePhone(c.session)' = OnThePhone(c.session)
          BY <1>3, <1>4, <3>1, <3>3 DEF Counted, OnThePhone
        <4> QED BY <3>1, <4>1 DEF ClaimFits
      <3> QED BY <3>2, <3>3
    <2>2. unshown' \subseteq {t \in SessionIds : AtWork(t)'}
      BY <1>1, <1>2, <1>4 DEF ClaimsFit, AtWork
    <2> QED BY <2>1, <2>2 DEF ClaimsFit
  <1> QED BY <1>5, <1>6, <1>7, <1>8, <1>9 DEF CountInv

LEMMA SessionCounts ==
    ASSUME DispatchInv, CountInv, NEW s \in SessionIds, SessionStep(s)
    PROVE  CountInv'
  <1>1. /\ DispatchShape /\ CountTypes /\ LeadsFit /\ ClaimsFit
    BY DEF DispatchInv, CountInv
  <1>2. ASSUME NEW now \in SessionStates \ {"none"}, sessions[s] \notin {"none", "died"},
               sessions' = [sessions EXCEPT ![s] = now],
               UNCHANGED <<jobs, pc, targets, todo, counts, latest, checked, overlapping, cutOff>>,
               LeadsFit', \A c \in claims' : ClaimFits(c)',
               unshown' \subseteq {t \in SessionIds : AtWork(t)'}
        PROVE  CountInv'
    <2>1. \A t \in SessionIds : /\ sessions'[t] = "none" => sessions[t] = "none"
                                /\ sessions[t] = "died" => sessions'[t] = "died"
      BY <1>1, <1>2 DEF DispatchShape
    <2>2. CountTypes' /\ ClaimsFit'
      BY <1>1, <1>2 DEF CountTypes, ClaimsFit
    <2>3. \A i \in SendJobs : PlaceFits(i)' /\ (AtTheEnd(i)' => AtTheEnd(i))
      BY <1>2, <2>1 DEF CountInv, PlaceFits, ByThreads, SessionsOf, AtTheEnd
    <2> QED BY <1>2, <2>1, <2>2, <2>3, QuietKeeps
  \* A session that is not on the phone has a claim on counted messages only.
  <1>3. ASSUME NEW now \in SessionStates \ {"none", "acting"},
               sessions[s] \in {"queued", "working"}, sessions' = [sessions EXCEPT ![s] = now],
               UNCHANGED <<jobs, pc, targets, todo, claims, counts, latest, waiting, checked,
                           overlapping, cutOff>>,
               \/ unshown' \subseteq unshown /\ (s \in unshown' => now = "working")
               \/ unshown' = unshown \cup {s} /\ now = "working"
        PROVE  CountInv'
    <2>1. /\ sessions'[s] = now /\ \A t \in SessionIds \ {s} : sessions'[t] = sessions[t]
      BY <1>1, <1>3 DEF DispatchShape
    <2>2. ASSUME NEW c \in claims' PROVE ClaimFits(c)'
      <3>1. ClaimFits(c) /\ c.session \in SessionIds
        BY <1>1, <1>3 DEF ClaimsFit, ClaimFits
      <3>2. OnThePhone(c.session) => OnThePhone(c.session)'
        BY <1>3, <2>1, <3>1 DEF OnThePhone
      <3> QED BY <1>3, <3>1, <3>2 DEF ClaimFits, Counted
    <2>3. unshown' \subseteq {t \in SessionIds : AtWork(t)'}
      BY <1>1, <1>3, <2>1 DEF ClaimsFit, AtWork
    <2>4. LeadsFit'
      BY <1>1, <1>3 DEF LeadsFit
    <2> QED BY <1>2, <1>3, <2>2, <2>3, <2>4
  <1>4. s \in unshown => AtWork(s)
    BY <1>1 DEF ClaimsFit
  <1>5. ASSUME NEW status \in RowStatuses, SessionRefused(s, status) PROVE CountInv'
    <2>1. /\ sessions[s] = "queued" /\ sessions' = [sessions EXCEPT ![s] = "ended"]
          /\ UNCHANGED <<jobs, pc, targets, todo, claims, counts, latest, unshown, waiting,
                         checked, overlapping, cutOff>>
      BY <1>5 DEF SessionRefused, jobVars
    <2>2. s \notin unshown'
      BY <1>4, <2>1 DEF AtWork
    <2> QED BY <1>3, <2>1, <2>2 DEF SessionStates
  <1>6. ASSUME NEW yes \in BOOLEAN, SessionStarts(s, yes) PROVE CountInv'
    <2>1. /\ sessions[s] = "queued" /\ sessions' = [sessions EXCEPT ![s] = "working"]
          /\ UNCHANGED <<jobs, pc, targets, todo, claims, counts, latest, waiting, checked,
                         overlapping, cutOff>>
          /\ unshown' = unshown \/ unshown' = unshown \cup {s}
      BY <1>6 DEF SessionStarts, jobVars
    <2> QED BY <1>3, <2>1 DEF SessionStates
  <1>7. CASE ClaimsLead(s)
    <2>1. /\ sessions[s] = "working" /\ waiting > 0 /\ waiting' = waiting - 1
          /\ claims' = claims \cup {ClaimOf(s)} /\ sessions' = [sessions EXCEPT ![s] = "acting"]
          /\ UNCHANGED <<jobs, pc, targets, todo, counts, latest, unshown, checked, overlapping,
                         cutOff>>
      BY <1>7 DEF ClaimsLead, jobVars
    <2>2. Counted(s) \in Nat /\ ClaimOf(s).session = s /\ ClaimOf(s).number = Counted(s)
          /\ ClaimOf(s) \in [session : SessionIds, number : Nat]
      BY <1>1 DEF CountTypes, Counted, ClaimOf
    <2>3. ClaimOf(s) \notin claims
      <3> SUFFICES ASSUME ClaimOf(s) \in claims PROVE FALSE
        OBVIOUS
      <3>1. ClaimFits(ClaimOf(s))
        BY <1>1 DEF ClaimsFit
      <3> HIDE DEF ClaimOf
      <3>2. Counted(s) < Counted(s) \/ OnThePhone(s)
        BY <2>2, <3>1 DEF ClaimFits
      <3> QED BY <2>1, <2>2, <3>2 DEF OnThePhone
    <2> HIDE DEF ClaimOf
    <2>4. IsFiniteSet(claims') /\ Cardinality(claims') = Cardinality(claims) + 1
      BY <1>1, <2>1, <2>3, FS_AddElement DEF LeadsFit
    <2>5. Cardinality(claims) \in Nat
      BY <1>1, FS_CardinalityType DEF LeadsFit
    <2>6. LeadsFit'
      BY <1>1, <2>1, <2>4, <2>5 DEF LeadsFit
    <2>7. /\ sessions'[s] = "acting" /\ \A t \in SessionIds \ {s} : sessions'[t] = sessions[t]
          /\ \A t \in SessionIds : Counted(t)' = Counted(t)
      BY <1>1, <2>1 DEF DispatchShape, Counted
    <2>8. ASSUME NEW c \in claims' PROVE ClaimFits(c)'
      <3>1. CASE c = ClaimOf(s)
        BY <2>2, <2>7, <3>1 DEF ClaimFits, OnThePhone
      <3>2. CASE c \in claims
        <4>1. ClaimFits(c) /\ c.session \in SessionIds
          BY <1>1, <3>2 DEF ClaimsFit, ClaimFits
        <4>2. OnThePhone(c.session) => OnThePhone(c.session)'
          BY <2>7, <4>1 DEF OnThePhone
        <4> QED BY <2>7, <4>1, <4>2 DEF ClaimFits
      <3> QED BY <2>1, <3>1, <3>2
    <2>9. unshown' \subseteq {t \in SessionIds : AtWork(t)'}
      BY <1>1, <2>1, <2>7 DEF ClaimsFit, AtWork
    <2> QED BY <1>2, <2>1, <2>6, <2>8, <2>9 DEF SessionStates
  <1>8. ASSUME NEW how \in {"ended", "died"}, NEW status \in RowStatuses,
               SessionEnds(s, how, status)
        PROVE  CountInv'
    <2>1. /\ sessions[s] = "working" /\ sessions' = [sessions EXCEPT ![s] = how]
          /\ unshown' = unshown \ {s}
          /\ UNCHANGED <<jobs, pc, targets, todo, claims, counts, latest, waiting, checked,
                         overlapping, cutOff>>
      BY <1>8 DEF SessionEnds, jobVars
    <2> QED BY <1>3, <2>1 DEF SessionStates
  <1> QED BY <1>5, <1>6, <1>7, <1>8, ActedCounts DEF SessionStep

LEMMA CountStep == DispatchInv /\ CountInv /\ [DispatchNext]_dvars => CountInv'
  <1> SUFFICES ASSUME DispatchInv, CountInv, [DispatchNext]_dvars PROVE CountInv'
    OBVIOUS
  <1>1. ASSUME UNCHANGED <<jobVars, sessionVars, overlapping, cutOff>>,
               checked' \in [StartRequests -> BOOLEAN]
        PROVE  CountInv'
    <2>1. UNCHANGED <<jobs, pc, targets, todo, sessions, claims, counts, latest, waiting,
                      overlapping, cutOff>>
      BY <1>1 DEF jobVars, sessionVars
    <2>2. CountTypes' /\ LeadsFit' /\ \A j \in SendJobs : PlaceFits(j)'
      BY <1>1, <2>1 DEF CountInv, CountTypes, LeadsFit, PlaceFits, ByThreads
    <2>3. ClaimsFit'
      BY <1>1, <2>1, ClaimsKept DEF CountInv, sessionVars
    <2> QED BY <2>1, <2>2, <2>3, QuietKeeps DEF AtTheEnd
  <1>2. checked \in [StartRequests -> BOOLEAN]
    BY DEF CountInv, CountTypes
  <1>3. CASE UNCHANGED dvars
    BY <1>1, <1>2, <1>3 DEF dvars
  <1>4. ASSUME NEW r \in StartRequests, NEW yes \in BOOLEAN, StartSendChecks(r, yes)
        PROVE  CountInv'
    BY <1>1, <1>2, <1>4 DEF StartSendChecks
  <1>5. ASSUME NEW j \in SendJobs, NEW devices \in DeviceChoices,
               TriggerSend(j, devices) \/ \E r \in StartRequests : StartSendCreates(r, j, devices)
        PROVE  CountInv'
    <2>1. RunSendJob(j, devices) /\ checked' \in [StartRequests -> BOOLEAN]
      BY <1>2, <1>5 DEF TriggerSend, StartSendCreates
    <2> QED BY <2>1, RunCounts
  <1>6. ASSUME NEW j \in SendJobs, JobStep(j) \/ CancelTakesBack(j) \/ CancelSetsFlag(j)
        PROVE  CountInv'
    BY <1>6, JobStepCounts, CancelCounts
  <1>7. ASSUME NEW s \in SessionIds, SessionStep(s) PROVE CountInv'
    BY <1>7, SessionCounts
  <1>8. ASSUME NEW p \in Phones, NEW status \in {"idle", "offline"}, DeviceRequest(p, status)
        PROVE  CountInv'
    <2>1. /\ UNCHANGED <<jobs, pc, targets, todo, sessions, claims, counts, latest, waiting,
                         checked, overlapping, cutOff>>
          /\ unshown' \subseteq unshown \cup {s \in SessionIds : AtWork(s)}
      BY <1>8 DEF DeviceRequest, jobVars
    <2>2. CountTypes' /\ LeadsFit' /\ \A j \in SendJobs : PlaceFits(j)'
      BY <2>1 DEF CountInv, CountTypes, LeadsFit, PlaceFits, ByThreads
    <2>3. ClaimsFit'
      BY <2>1 DEF CountInv, ClaimsFit, ClaimFits, Counted, OnThePhone, AtWork
    <2> QED BY <2>1, <2>2, <2>3, QuietKeeps DEF AtTheEnd
  <1> QED BY <1>3, <1>4, <1>5, <1>6, <1>7, <1>8 DEF DispatchNext

LEMMA CountInvariant == DispatchSpec => [](DispatchInv /\ CountInv)
  <1>1. DispatchInit => CountInv
    <2> SUFFICES ASSUME DispatchInit PROVE CountInv
      OBVIOUS
    <2>1. CountTypes
      BY DEF DispatchInit, CountTypes, JobRows, JobStatuses, Summaries, NothingSent
    <2>2. LeadsFit
      BY FS_EmptySet, DispatchAssumption DEF DispatchInit, LeadsFit, DispatchAssumption
    <2>3. (\A s \in SessionIds : counts[s].sent = 0) /\ ClaimsFit
      BY DEF DispatchInit, ClaimsFit
    <2>4. ASSUME NEW j \in SendJobs PROVE PlaceFits(j) /\ SummaryFits(j)
      <3>1. PlaceFits(j)
        BY DEF DispatchInit, PlaceFits
      <3>2. jobs[j].summary.sent = 0 /\ latest[j] = "none" /\ ~Settled(j)
        BY DEF DispatchInit, NothingSent, Settled, Ended, AtTheEnd, EndStatuses
      <3> QED BY <3>1, <3>2 DEF SummaryFits
    <2> QED BY <2>1, <2>2, <2>3, <2>4 DEF CountInv
  <1> QED BY <1>1, CountStep, DispatchInvariant, PTL DEF DispatchSpec

\* The dispatch is type correct, and its leads are waiting, claimed or worked.
THEOREM DispatchTypes == DispatchSpec => []DispatchTypeOK
  <1>1. DispatchInv /\ CountInv => DispatchTypeOK
    <2> SUFFICES ASSUME DispatchInv, CountInv PROVE DispatchTypeOK
      OBVIOUS
    <2>1. DispatchShape /\ CountTypes /\ LeadsFit
      BY DEF DispatchInv, CountInv
    <2>2. waiting \in 0..PoolSize
      <3>1. Cardinality(claims) \in Nat /\ PoolSize \in Nat
        BY <2>1, FS_CardinalityType, DispatchAssumption DEF LeadsFit, DispatchAssumption
      <3> QED BY <2>1, <3>1 DEF LeadsFit
    <2>3. /\ claims \subseteq [session : SessionIds, number : Nat]
          /\ \A c \in claims : c.number < Counted(c.session) \/ OnThePhone(c.session)
          /\ unshown \subseteq {s \in SessionIds : AtWork(s)}
      BY DEF CountInv, ClaimsFit, ClaimFits
    <2> QED BY <2>1, <2>2, <2>3 DEF DispatchShape, CountTypes, DispatchTypeOK, JobRows,
                                    JobStatuses, Summaries, Places, SessionStates
  <1> QED BY <1>1, CountInvariant, PTL

\* For any number of jobs, phones and requests, and whichever completions fail, a
\* job that is flagged quota_released holds claims on counted messages only, unless
\* it ran in Celery or was cut off.
THEOREM ReleasedHolds == DispatchSpec => []ReleasedMeansNoClaim
  <1>1. DispatchInv /\ CountInv => ReleasedMeansNoClaim
    <2> SUFFICES ASSUME DispatchInv, CountInv, NEW j \in SendJobs, QuotaReleased(j),
                        ByThreads(j), j \notin cutOff, NEW c \in claims, c.session.job = j
                 PROVE  c.number < Counted(c.session)
      BY DEF ReleasedMeansNoClaim, ListJobs, JobPayload
    <2>1. ClaimFits(c) /\ c.session \in SessionIds /\ JobFits(j)
      BY DEF DispatchInv, CountInv, ClaimsFit, ClaimFits
    <2>2. OnThePhone(c.session) => c.session.via = "thread"
      BY <2>1, SessionFields DEF ByThreads, SessionsOf, OnThePhone
    <2>3. ~OnThePhone(c.session)
      BY <2>1, <2>2 DEF JobFits, QuotaReleased, OnThePhone, Alive
    <2> QED BY <2>1, <2>3 DEF ClaimFits
  <1> QED BY <1>1, CountInvariant, PTL

\* For any number of jobs and phones a job listed as sent has sent a message, and
\* one that ran in threads to its end reports exactly the messages of its phones,
\* unless it was cancelled while it reported its end.
THEOREM JobsTell == DispatchSpec => []JobTellsItsMessages
  <1>1. ASSUME DispatchInv, CountInv, NEW j \in SendJobs
        PROVE  /\ Normalized(j) = "sent" => MessagesOf(j) > 0
               /\ Settled(j) => jobs[j].summary.sent = MessagesOf(j) \/ ReportLost(j)
               /\ jobs[j].status = "done" /\ jobs[j].summary.sent > 0 => Normalized(j) = "sent"
    <2>1. SummaryFits(j) /\ CountTypes /\ jobs[j].status \in JobStatuses
      BY <1>1 DEF CountInv, DispatchInv, DispatchShape
    <2>2. Normalized(j) = "sent" => jobs[j].summary.sent > 0 \/ latest[j] = "ok"
      BY <2>1 DEF Normalized, JobStatuses
    <2>3. jobs[j].status = "done" /\ jobs[j].summary.sent > 0 => Normalized(j) = "sent"
      BY DEF Normalized
    <2> QED BY <2>1, <2>2, <2>3, MessagesSent DEF SummaryFits
  <1>2. DispatchInv /\ CountInv => JobTellsItsMessages
    <2> SUFFICES ASSUME DispatchInv, CountInv PROVE JobTellsItsMessages
      OBVIOUS
    <2>1. ASSUME NEW shown \in ListJobs("sent") PROVE MessagesOf(shown.job_id) > 0
      <3>1. PICK j \in SendJobs : shown = JobPayload(j) /\ Normalized(j) = "sent"
        BY DEF ListJobs, AnyJob
      <3>2. shown.job_id = j
        BY <3>1 DEF JobPayload
      <3> QED BY <1>1, <3>1, <3>2
    <2>2. ASSUME NEW j \in SendJobs, jobs[j].status # "new", Ended(jobs[j].status), ByThreads(j),
                 j \notin cutOff, \A s \in SessionIds : s.job = j => sessions[s] # "died"
          PROVE  /\ jobs[j].summary.sent = MessagesOf(j) \/ ReportLost(j)
                 /\ jobs[j].status = "done" /\ MessagesOf(j) > 0
                       => JobPayload(j) \in ListJobs("sent")
      <3>1. Settled(j)
        BY <2>2 DEF Settled, Mine
      <3>2. jobs[j].summary.sent = MessagesOf(j) \/ ReportLost(j)
        BY <1>1, <3>1
      <3>3. jobs[j].status = "done" /\ MessagesOf(j) > 0 => Normalized(j) = "sent"
        BY <1>1, <3>2 DEF ReportLost
      <3> QED BY <2>2, <3>2, <3>3 DEF ListJobs
    <2>3. ASSUME NEW shown \in ListJobs(AnyJob)
          PROVE  \E j \in SendJobs : jobs[j].status # "new" /\ shown = JobPayload(j)
      BY DEF ListJobs
    <2>4. \A j \in SendJobs : /\ JobPayload(j).job_id = j
                              /\ JobPayload(j).status = jobs[j].status
                              /\ Ended(jobs[j].status) =>
                                    JobPayload(j).sent_count = jobs[j].summary.sent
      BY DEF JobPayload, Shown
    <2>5. ASSUME NEW shown \in ListJobs(AnyJob), Ended(shown.status), ByThreads(shown.job_id),
                 shown.job_id \notin cutOff,
                 \A s \in SessionIds : s.job = shown.job_id => sessions[s] # "died"
          PROVE  /\ \/ shown.sent_count = MessagesOf(shown.job_id)
                    \/ /\ shown.status = "failed" /\ CancelRequested(shown.job_id)
                       /\ shown.sent_count = 0
                 /\ shown.status = "done" /\ MessagesOf(shown.job_id) > 0
                       => shown \in ListJobs("sent")
      <3>1. PICK j \in SendJobs : jobs[j].status # "new" /\ shown = JobPayload(j)
        BY <2>3
      <3>2. shown.job_id = j /\ shown.status = jobs[j].status
            /\ shown.sent_count = jobs[j].summary.sent
        BY <2>4, <2>5, <3>1
      <3> QED BY <2>2, <2>5, <3>1, <3>2 DEF ReportLost
    <2> QED BY <2>1, <2>5 DEF JobTellsItsMessages
  <1> QED BY <1>2, CountInvariant, PTL
-----------------------------------------------------------------------------
(* ReplyVariants *)

VariantOps == {"add", "delete", "replace", "toggle", "reweigh"}
Open(q) == q.op \in VariantOps
Takes(op) == op \in {"delete", "replace"}
Distinct(list) == \A i, k \in DOMAIN list : list[i].id = list[k].id => i = k

\* A list that requests may load or write.
SoundList(list, ids) == list \in Seq(AllVariants) /\ Distinct(list) /\ IdsOf(list) \subseteq ids

\* The variants of a list are on the current one, or were taken off, or lost.
Accounted(ids) == overtaken \/ ids \subseteq IdsOf(variants) \cup removed

RequestStates == [op : VariantOps \cup {"not sent", "answered"},
                  about : VariantIds \cup {NoVariant}, loaded : Seq(AllVariants)]

VariantsShape ==
    /\ removed \subseteq usedIds /\ usedIds \subseteq VariantIds /\ overtaken \in BOOLEAN
    /\ inFlight \in [VariantRequests -> RequestStates]
    /\ snapshot \in [SendRuns -> Seq(AllVariants) \cup {NotStarted}]
    /\ variantOf \in [Messages -> VariantIds \cup {"unsent", "default"}]

\* A request has loaded such a list, and one that adds brings an id nobody has used.
RequestFits(q, ids) ==
    /\ SoundList(q.loaded, ids)
    /\ Open(q) => q.about \in ids
    /\ q.op = "add" => q.about \notin IdsOf(q.loaded)
    /\ q.op \in {"not sent", "answered"} => q \in {NotSent, Answered}

\* What jobs work with and messages were written with is accounted for.
RunFits(j) == snapshot[j] = NotStarted \/ Accounted(IdsOf(snapshot[j]))
MessageFits(m) == variantOf[m] \in {"unsent", "default"} \/ Accounted({variantOf[m]})

VariantsInv ==
    /\ VariantsShape /\ SoundList(variants, usedIds)
    /\ \A r \in VariantRequests : RequestFits(inFlight[r], usedIds)
    /\ \A j \in SendRuns : RunFits(j)
    /\ \A m \in Messages : MessageFits(m)

LEMMA ListIds ==
    ASSUME NEW list \in Seq(AllVariants)
    PROVE  /\ Len(list) \in Nat /\ DOMAIN list = 1..Len(list)
           /\ \A i \in DOMAIN list : list[i] \in AllVariants /\ list[i].id \in VariantIds
           /\ IdsOf(list) \subseteq VariantIds
  <1>1. \A v \in AllVariants : v.id \in VariantIds
    BY DEF AllVariants
  <1>2. Len(list) \in Nat /\ DOMAIN list = 1..Len(list) /\ \A i \in DOMAIN list : list[i] \in AllVariants
    OBVIOUS
  <1> QED BY <1>1, <1>2 DEF IdsOf

LEMMA VariantFields ==
    ASSUME NEW v \in AllVariants
    PROVE  /\ [v EXCEPT !.enabled = ~@] \in AllVariants /\ [v EXCEPT !.enabled = ~@].id = v.id
           /\ [v EXCEPT !.weight = 1 - @] \in AllVariants /\ [v EXCEPT !.weight = 1 - @].id = v.id
  <1>1. PICK a \in VariantIds, b \in BOOLEAN, c \in {0, 1} :
            v = [id |-> a, enabled |-> b, weight |-> c]
    BY DEF AllVariants
  <1>2. ASSUME NEW e \in BOOLEAN, e = ~b
        PROVE  [v EXCEPT !.enabled = ~@] = [id |-> a, enabled |-> e, weight |-> c]
    BY <1>1, <1>2
  <1>3. \E e \in BOOLEAN : e = ~b
    BY Zenon
  <1>4. [v EXCEPT !.weight = 1 - @] = [id |-> a, enabled |-> b, weight |-> 1 - c]
    BY <1>1
  <1>5. 1 - c \in {0, 1}
    BY SMT
  <1>6. \A e \in BOOLEAN, w \in {0, 1} : [id |-> a, enabled |-> e, weight |-> w] \in AllVariants
    BY Zenon DEF AllVariants
  <1>7. PICK e \in BOOLEAN : e = ~b
    BY <1>3
  <1>8. /\ [id |-> a, enabled |-> e, weight |-> c].id = v.id
        /\ [id |-> a, enabled |-> b, weight |-> 1 - c].id = v.id
    BY <1>1
  <1>9. [v EXCEPT !.enabled = ~@] \in AllVariants /\ [v EXCEPT !.enabled = ~@].id = v.id
    BY <1>2, <1>6, <1>7, <1>8
  <1>10. [v EXCEPT !.weight = 1 - @] \in AllVariants /\ [v EXCEPT !.weight = 1 - @].id = v.id
    BY <1>4, <1>5, <1>6, <1>8
  <1> QED BY <1>9, <1>10

\* Taking an id off a list.
LEMMA TakenOff ==
    ASSUME NEW list \in Seq(AllVariants), Distinct(list), NEW id
    PROVE  /\ Without(list, id) \in Seq(AllVariants) /\ Distinct(Without(list, id))
           /\ IdsOf(Without(list, id)) \subseteq IdsOf(list)
           /\ IdsOf(list) \subseteq IdsOf(Without(list, id)) \cup {id}
  <1>1. CASE id \notin IdsOf(list)
    BY <1>1 DEF Without
  <1>2. CASE id \in IdsOf(list)
    <2> DEFINE spot == CHOOSE i \in DOMAIN list : list[i].id = id
               new == RemoveAt(list, spot)
    <2>1. spot \in 1..Len(list) /\ list[spot].id = id /\ Len(list) \in Nat /\ DOMAIN list = 1..Len(list)
      BY <1>2 DEF IdsOf
    <2>2. Without(list, id) = new
      BY <1>2 DEF Without
    <2> HIDE DEF spot
    <2>3. /\ new \in Seq(AllVariants) /\ Len(new) = Len(list) - 1
          /\ \A i \in 1..Len(new) : new[i] = list[IF i < spot THEN i ELSE i + 1]
      <3> DEFINE before == SubSeq(list, 1, spot - 1)
                 after == SubSeq(list, spot + 1, Len(list))
      <3>1. /\ before \in Seq(AllVariants) /\ Len(before) = spot - 1
            /\ \A i \in 1..(spot - 1) : before[i] = list[i]
        BY <2>1, SubSeqProperties
      <3>2. /\ after \in Seq(AllVariants) /\ Len(after) = Len(list) - spot
            /\ \A i \in 1..(Len(list) - spot) : after[i] = list[spot + i]
        <4>1. \A i \in (spot + 1)..Len(list) : list[i] \in AllVariants
          BY <2>1
        <4>2. spot + 1 \in Int /\ Len(list) \in Int /\ Len(list) - (spot + 1) + 1 = Len(list) - spot
              /\ (spot + 1 <= Len(list) \/ Len(list) - spot = 0)
              /\ \A i \in 1..(Len(list) - spot) : spot + 1 + i - 1 = spot + i
          <5>1. spot \in Int /\ Len(list) \in Int /\ 1 <= spot /\ spot <= Len(list)
            BY <2>1
          <5> QED BY <5>1
        <4>3. /\ after \in Seq(AllVariants)
              /\ Len(after) = IF spot + 1 <= Len(list) THEN Len(list) - (spot + 1) + 1 ELSE 0
              /\ \A i \in 1..(Len(list) - (spot + 1) + 1) : after[i] = list[spot + 1 + i - 1]
          BY <4>1, <4>2, SubSeqProperties
        <4> HIDE DEF after
        <4>4. Len(after) = Len(list) - spot
          BY <4>2, <4>3
        <4> QED BY <4>2, <4>3, <4>4
      <3>3. new = before \o after
        BY DEF RemoveAt
      <3> HIDE DEF before, after, new
      <3>4. /\ new \in Seq(AllVariants) /\ Len(new) = Len(before) + Len(after)
            /\ \A i \in 1..Len(new) : new[i] = IF i <= Len(before) THEN before[i]
                                                ELSE after[i - Len(before)]
        <4>1. /\ before \o after \in Seq(AllVariants)
              /\ Len(before \o after) = Len(before) + Len(after)
              /\ \A i \in 1..(Len(before) + Len(after)) :
                    (before \o after)[i] = IF i <= Len(before) THEN before[i]
                                           ELSE after[i - Len(before)]
          BY <3>1, <3>2, ConcatProperties
        <4>2. new \in Seq(AllVariants) /\ Len(new) = Len(before) + Len(after)
          BY <3>3, <4>1
        <4>3. 1..Len(new) = 1..(Len(before) + Len(after))
          BY <4>2
        <4>4. ASSUME NEW i \in 1..Len(new)
              PROVE  new[i] = IF i <= Len(before) THEN before[i] ELSE after[i - Len(before)]
          BY <3>3, <4>1, <4>3
        <4> QED BY <4>2, <4>4
      <3>5. spot \in Int /\ 1 <= spot /\ spot <= Len(list) /\ Len(new) = Len(list) - 1 /\ Len(list) \in Nat
        BY <2>1, <3>1, <3>2, <3>4
      <3>6. ASSUME NEW i \in 1..Len(new) PROVE new[i] = list[IF i < spot THEN i ELSE i + 1]
        <4>1. CASE i < spot
          <5>1. i \in 1..(spot - 1) /\ i <= Len(before)
            BY <3>1, <3>5, <4>1
          <5> QED BY <3>1, <3>4, <4>1, <5>1
        <4>2. CASE ~(i < spot)
          <5>1. /\ ~(i <= Len(before)) /\ i - Len(before) \in 1..(Len(list) - spot)
                /\ spot + (i - Len(before)) = i + 1
            BY <3>1, <3>5, <4>2
          <5>2. new[i] = after[i - Len(before)]
            BY <3>4, <5>1
          <5>3. after[i - Len(before)] = list[spot + (i - Len(before))]
            BY <3>2, <5>1
          <5> QED BY <4>2, <5>1, <5>2, <5>3
        <4> QED BY <4>1, <4>2
      <3> QED BY <3>4, <3>5, <3>6
    <2> HIDE DEF new
    <2>4. DOMAIN new = 1..Len(new) /\ Len(new) \in Nat
      BY <2>3
    <2>5. Distinct(new)
      <3> SUFFICES ASSUME NEW i \in DOMAIN new, NEW k \in DOMAIN new, new[i].id = new[k].id
                   PROVE  i = k
        BY DEF Distinct
      <3> DEFINE old(n) == IF n < spot THEN n ELSE n + 1
      <3>1. old(i) \in DOMAIN list /\ old(k) \in DOMAIN list
        BY <2>1, <2>3, <2>4
      <3>2. old(i) = old(k)
        BY <2>3, <2>4, <3>1 DEF Distinct
      <3> QED BY <2>1, <2>4, <3>2
    <2>6. IdsOf(new) \subseteq IdsOf(list)
      BY <2>1, <2>3, <2>4 DEF IdsOf
    <2>7. ASSUME NEW i \in DOMAIN list, list[i].id # id PROVE list[i].id \in IdsOf(new)
      <3>1. i # spot
        BY <2>1, <2>7
      <3>2. CASE i < spot
        BY <2>1, <2>3, <2>4, <3>2 DEF IdsOf
      <3>3. CASE i > spot
        <4>1. i - 1 \in DOMAIN new /\ new[i - 1] = list[i]
          BY <2>1, <2>3, <2>4, <3>3
        <4> QED BY <4>1 DEF IdsOf
      <3>4. i \in Nat /\ spot \in Nat
        BY <2>1
      <3> QED BY <3>1, <3>2, <3>3, <3>4
    <2>8. IdsOf(list) \subseteq IdsOf(new) \cup {id}
      <3> SUFFICES ASSUME NEW i \in DOMAIN list, list[i].id # id PROVE list[i].id \in IdsOf(new)
        BY Zenon DEF IdsOf
      <3> QED BY <2>7
    <2> HIDE DEF new
    <2> QED BY <2>2, <2>3, <2>5, <2>6, <2>8
  <1> QED BY <1>1, <1>2

\* The list a request writes.
LEMMA WrittenList ==
    ASSUME NEW list \in Seq(AllVariants), Distinct(list), NEW op \in VariantOps, NEW id \in VariantIds,
           op = "add" => id \notin IdsOf(list)
    PROVE  /\ NewList(op, id, list) \in Seq(AllVariants) /\ Distinct(NewList(op, id, list))
           /\ IdsOf(NewList(op, id, list)) \subseteq IdsOf(list) \cup {id}
           /\ IdsOf(list) \subseteq IdsOf(NewList(op, id, list)) \cup {id}
           /\ ~Takes(op) => IdsOf(list) \subseteq IdsOf(NewList(op, id, list))
  <1>0. Len(list) \in Nat /\ DOMAIN list = 1..Len(list) /\ \A i \in DOMAIN list : list[i] \in AllVariants
    OBVIOUS
  <1>1. CASE op = "add"
    <2> DEFINE new == Append(list, Variant(id))
    <2>1. Variant(id) \in AllVariants /\ Variant(id).id = id
      BY DEF Variant, AllVariants
    <2>2. /\ new \in Seq(AllVariants) /\ DOMAIN new = 1..Len(list) + 1
          /\ \A i \in DOMAIN list : new[i] = list[i]
          /\ new[Len(list) + 1].id = id
      BY <1>0, <2>1
    <2>3. NewList(op, id, list) = new
      BY <1>1 DEF NewList
    <2> HIDE DEF new
    <2>4. Distinct(new)
      BY <1>0, <1>1, <2>2 DEF Distinct, IdsOf
    <2>5. IdsOf(new) = IdsOf(list) \cup {id}
      BY <1>0, <2>2 DEF IdsOf
    <2> QED BY <2>2, <2>3, <2>4, <2>5
  <1>2. CASE Takes(op)
    <2>1. NewList(op, id, list) = Without(list, id)
      BY <1>2 DEF NewList, Takes
    <2> QED BY <1>2, <2>1, TakenOff
  <1>3. CASE op \in {"toggle", "reweigh"}
    <2> DEFINE new == NewList(op, id, list)
    <2>1. DOMAIN new = DOMAIN list /\ \A i \in DOMAIN list : new[i] \in AllVariants /\ new[i].id = list[i].id
      <3>1. CASE op = "toggle"
        BY <1>0, <3>1, VariantFields DEF NewList
      <3>2. CASE op = "reweigh"
        BY <1>0, <3>2, VariantFields DEF NewList
      <3> QED BY <1>3, <3>1, <3>2
    <2>2. new = [i \in 1..Len(list) |-> new[i]]
      <3>1. CASE op = "toggle"
        BY <1>0, <3>1 DEF NewList
      <3>2. CASE op = "reweigh"
        BY <1>0, <3>2 DEF NewList
      <3> QED BY <1>3, <3>1, <3>2
    <2> HIDE DEF new
    <2>3. new \in Seq(AllVariants)
      BY <1>0, <2>1, <2>2, IsASeq
    <2>4. Distinct(new) /\ IdsOf(new) = IdsOf(list)
      BY <1>0, <2>1 DEF Distinct, IdsOf
    <2> QED BY <2>3, <2>4 DEF new
  <1> QED BY <1>1, <1>2, <1>3 DEF VariantOps, Takes

\* What is chosen is on the list.
LEMMA Chosen ==
    ASSUME NEW list \in Seq(AllVariants), NEW id \in SelectReplyVariant(list)
    PROVE  id = "default" \/ id \in IdsOf(list)
BY DEF SelectReplyVariant, IdsOf

LEMMA RequestStays ==
    ASSUME NEW q, NEW old, NEW ids, RequestFits(q, old), old \subseteq ids
    PROVE  RequestFits(q, ids)
BY DEF RequestFits, SoundList

\* A request that loads writes nothing the other parts are about.
LEMMA VariantsLoaded ==
    ASSUME VariantsInv, NEW r \in VariantRequests, NEW op \in VariantOps, NEW id \in VariantIds,
           LoadVariants(r, op, id)
    PROVE  VariantsInv'
  <1>1. /\ inFlight' = [inFlight EXCEPT ![r] = Request(op, id, variants)]
        /\ usedIds' = usedIds \cup {id} /\ (op = "add" => id \notin usedIds)
        /\ UNCHANGED <<variants, snapshot, variantOf, removed, overtaken>>
    BY DEF LoadVariants
  <1>2. VariantsShape /\ SoundList(variants, usedIds) /\ variants \in Seq(AllVariants)
        /\ IdsOf(variants) \subseteq usedIds
    BY DEF VariantsInv, SoundList
  <1>3. SoundList(variants', usedIds')
    BY <1>1, <1>2 DEF SoundList
  <1>4. /\ Request(op, id, variants) \in RequestStates /\ Request(op, id, variants).op = op
        /\ Request(op, id, variants).about = id /\ Request(op, id, variants).loaded = variants
    BY <1>2 DEF Request, RequestStates
  <1>5. VariantsShape'
    BY <1>1, <1>2, <1>4 DEF VariantsShape
  <1>6. ASSUME NEW s \in VariantRequests PROVE RequestFits(inFlight'[s], usedIds')
    <2>1. CASE s = r
      <3>1. inFlight'[s] = Request(op, id, variants)
        BY <1>1, <1>2, <2>1 DEF VariantsShape
      <3>2. SoundList(inFlight'[s].loaded, usedIds')
        BY <1>1, <1>3, <1>4, <3>1
      <3>3. op = "add" => id \notin IdsOf(variants)
        BY <1>1, <1>2
      <3>4. op \notin {"not sent", "answered"} /\ id \in usedIds'
        BY <1>1 DEF VariantOps
      <3> QED BY <1>4, <3>1, <3>2, <3>3, <3>4 DEF RequestFits
    <2>2. CASE s # r
      <3>1. inFlight'[s] = inFlight[s]
        BY <1>1, <1>2, <2>2 DEF VariantsShape
      <3>2. RequestFits(inFlight[s], usedIds)
        BY DEF VariantsInv
      <3>3. usedIds \subseteq usedIds'
        BY <1>1
      <3> QED BY <3>1, <3>2, <3>3, RequestStays
    <2> QED BY <2>1, <2>2
  <1>7. \A j \in SendRuns : RunFits(j)'
    BY <1>1 DEF VariantsInv, RunFits, Accounted
  <1>8. \A m \in Messages : MessageFits(m)'
    BY <1>1 DEF VariantsInv, MessageFits, Accounted
  <1> QED BY <1>3, <1>5, <1>6, <1>7, <1>8 DEF VariantsInv

\* A request that writes takes off what it is about, or overwrites a newer list.
LEMMA VariantsCommitted ==
    ASSUME VariantsInv, NEW r \in VariantRequests, CommitVariants(r)
    PROVE  VariantsInv'
  <1> DEFINE q == inFlight[r]
             list == NewList(q.op, q.about, q.loaded)
  <1>0. VariantsShape /\ RequestFits(q, usedIds) /\ SoundList(variants, usedIds) /\ q \in RequestStates
        /\ q \notin {NotSent, Answered}
    BY DEF VariantsInv, VariantsShape, CommitVariants
  <1>1. /\ q.op \in VariantOps /\ q.about \in usedIds /\ q.about \in VariantIds
        /\ SoundList(q.loaded, usedIds) /\ (q.op = "add" => q.about \notin IdsOf(q.loaded))
    <2>1. q.op \in VariantOps
      BY <1>0 DEF RequestFits, RequestStates
    <2> QED BY <1>0, <2>1 DEF RequestFits, Open, VariantsShape
  <1>2. /\ list \in Seq(AllVariants) /\ Distinct(list)
        /\ IdsOf(list) \subseteq IdsOf(q.loaded) \cup {q.about}
        /\ IdsOf(q.loaded) \subseteq IdsOf(list) \cup {q.about}
        /\ (~Takes(q.op) => IdsOf(q.loaded) \subseteq IdsOf(list))
    BY <1>1, WrittenList DEF SoundList
  <1>3. /\ inFlight' = [inFlight EXCEPT ![r] = Answered]
        /\ variants' = IF list = q.loaded THEN variants ELSE list
        /\ removed' = IF Takes(q.op) THEN removed \cup {q.about} ELSE removed
        /\ overtaken' = (overtaken \/ q.loaded # variants)
        /\ UNCHANGED <<snapshot, variantOf, usedIds>>
    BY DEF CommitVariants, Takes
  <1> HIDE DEF list
  <1>4. SoundList(variants', usedIds')
    <2>1. SoundList(list, usedIds)
      BY <1>1, <1>2 DEF SoundList
    <2>2. SoundList(variants', usedIds')
      BY <1>0, <1>3, <2>1
    <2> QED BY <1>3, <2>2 DEF SoundList
  <1>5. removed' \subseteq usedIds' /\ usedIds' \subseteq VariantIds
    BY <1>0, <1>1, <1>3 DEF VariantsShape
  <1>6. ASSUME NEW ids, Accounted(ids) PROVE Accounted(ids)'
    <2>1. CASE overtaken \/ q.loaded # variants
      <3>1. overtaken'
        BY <1>3, <2>1
      <3> QED BY <3>1 DEF Accounted
    <2>2. CASE ~overtaken /\ q.loaded = variants
      <3>1. IdsOf(variants) \subseteq IdsOf(variants') \cup removed' /\ removed \subseteq removed'
        BY <1>2, <1>3, <2>2
      <3>2. ids \subseteq IdsOf(variants) \cup removed
        BY <1>6, <2>2 DEF Accounted
      <3>3. ids \subseteq IdsOf(variants') \cup removed'
        BY <3>1, <3>2
      <3> QED BY <3>3 DEF Accounted, IdsOf
    <2> QED BY <2>1, <2>2
  <1>7. Answered \in RequestStates /\ Answered.op = "answered" /\ Answered.loaded = <<>>
    BY DEF Answered, Request, RequestStates
  <1>8. VariantsShape'
    <2>1. inFlight' \in [VariantRequests -> RequestStates]
      BY <1>0, <1>3, <1>7 DEF VariantsShape
    <2>2. overtaken' \in BOOLEAN
      BY <1>3, Zenon
    <2> QED BY <1>0, <1>3, <1>5, <2>1, <2>2 DEF VariantsShape
  <1>9. ASSUME NEW s \in VariantRequests PROVE RequestFits(inFlight'[s], usedIds')
    <2>1. CASE s = r
      <3>1. inFlight'[s] = Answered
        BY <1>0, <1>3, <2>1 DEF VariantsShape
      <3>2. SoundList(<<>>, usedIds')
        BY DEF SoundList, Distinct, IdsOf
      <3> QED BY <1>7, <3>1, <3>2 DEF RequestFits, Open, VariantOps
    <2>2. CASE s # r
      <3>1. inFlight'[s] = inFlight[s]
        BY <1>0, <1>3, <2>2 DEF VariantsShape
      <3>2. RequestFits(inFlight[s], usedIds)
        BY DEF VariantsInv
      <3>3. usedIds \subseteq usedIds'
        BY <1>3
      <3> QED BY <3>1, <3>2, <3>3, RequestStays
    <2> QED BY <2>1, <2>2
  <1>10. \A j \in SendRuns : RunFits(j)'
    <2>1. ASSUME NEW j \in SendRuns, snapshot[j] # NotStarted PROVE Accounted(IdsOf(snapshot[j]))'
      BY <1>3, <1>6, <2>1 DEF VariantsInv, RunFits, Accounted
    <2> QED BY <1>3, <2>1 DEF RunFits
  <1>11. \A m \in Messages : MessageFits(m)'
    <2>1. ASSUME NEW m \in Messages, variantOf[m] \notin {"unsent", "default"}
          PROVE  Accounted({variantOf[m]})'
      BY <1>3, <1>6, <2>1 DEF VariantsInv, MessageFits, Accounted
    <2> QED BY <1>3, <2>1 DEF MessageFits
  <1> QED BY <1>4, <1>8, <1>9, <1>10, <1>11 DEF VariantsInv

LEMMA VariantsStep == VariantsInv /\ [VariantsNext]_vvars => VariantsInv'
  <1> SUFFICES ASSUME VariantsInv, [VariantsNext]_vvars PROVE VariantsInv'
    OBVIOUS
  <1>0. VariantsShape /\ SoundList(variants, usedIds)
    BY DEF VariantsInv
  <1>1. ASSUME NEW r \in VariantRequests, CommitVariants(r) PROVE VariantsInv'
    BY <1>1, VariantsCommitted
  <1>2. ASSUME NEW r \in VariantRequests, NEW op \in VariantOps, NEW id \in VariantIds,
               LoadVariants(r, op, id)
        PROVE  VariantsInv'
    BY <1>2, VariantsLoaded
  <1>3. ASSUME UNCHANGED <<variants, inFlight, usedIds, removed, overtaken>>
        PROVE  SoundList(variants', usedIds') /\ \A r \in VariantRequests : RequestFits(inFlight'[r], usedIds')
    BY <1>0, <1>3 DEF VariantsInv, RequestFits, SoundList
  <1>4. ASSUME NEW j \in SendRuns, StartRun(j) PROVE VariantsInv'
    <2>1. /\ snapshot' = [snapshot EXCEPT ![j] = variants]
          /\ UNCHANGED <<variants, inFlight, variantOf, usedIds, removed, overtaken>>
      BY <1>4 DEF StartRun
    <2>2. VariantsShape'
      BY <1>0, <2>1 DEF VariantsShape, SoundList
    <2>3. ASSUME NEW i \in SendRuns PROVE RunFits(i)'
      <3>1. CASE i = j
        BY <1>0, <2>1, <3>1 DEF RunFits, Accounted, VariantsShape
      <3>2. CASE i # j
        BY <1>0, <2>1, <3>2 DEF VariantsInv, RunFits, Accounted, VariantsShape
      <3> QED BY <3>1, <3>2
    <2>4. \A m \in Messages : MessageFits(m)'
      BY <2>1 DEF VariantsInv, MessageFits, Accounted
    <2> QED BY <1>3, <2>1, <2>2, <2>3, <2>4 DEF VariantsInv
  <1>5. ASSUME NEW j \in SendRuns, NEW m \in Messages, SendMessage(j, m) PROVE VariantsInv'
    <2>1. PICK id \in SelectReplyVariant(snapshot[j]) :
              /\ snapshot[j] # NotStarted
              /\ variantOf' = [variantOf EXCEPT ![m] = id]
              /\ UNCHANGED <<variants, inFlight, snapshot, usedIds, removed, overtaken>>
      BY <1>5 DEF SendMessage
    <2>2. snapshot[j] \in Seq(AllVariants) /\ Accounted(IdsOf(snapshot[j]))
      BY <1>0, <2>1 DEF VariantsInv, VariantsShape, RunFits
    <2>3. id = "default" \/ (id \in IdsOf(snapshot[j]) /\ id \in VariantIds)
      BY <2>1, <2>2, Chosen, ListIds
    <2>4. id = "default" \/ Accounted({id})
      BY <2>2, <2>3 DEF Accounted
    <2>5. VariantsShape'
      BY <1>0, <2>1, <2>3 DEF VariantsShape
    <2>6. ASSUME NEW n \in Messages PROVE MessageFits(n)'
      <3>1. CASE n = m
        BY <1>0, <2>1, <2>4, <3>1 DEF MessageFits, Accounted, VariantsShape
      <3>2. CASE n # m
        BY <1>0, <2>1, <3>2 DEF VariantsInv, MessageFits, Accounted, VariantsShape
      <3> QED BY <3>1, <3>2
    <2>7. \A i \in SendRuns : RunFits(i)'
      BY <2>1 DEF VariantsInv, RunFits, Accounted
    <2> QED BY <1>3, <2>1, <2>5, <2>6, <2>7 DEF VariantsInv
  <1>6. CASE UNCHANGED vvars
    <2>1. VariantsShape'
      BY <1>0, <1>6 DEF vvars, VariantsShape
    <2>2. /\ \A i \in SendRuns : RunFits(i)'
          /\ \A m \in Messages : MessageFits(m)'
      BY <1>6 DEF vvars, VariantsInv, RunFits, MessageFits, Accounted
    <2> QED BY <1>3, <1>6, <2>1, <2>2 DEF vvars, VariantsInv
  <1> QED BY <1>1, <1>2, <1>4, <1>5, <1>6 DEF VariantsNext, VariantOps

LEMMA VariantsInvariant == VariantsSpec => []VariantsInv
  <1>1. VariantsInit => VariantsInv
    <2> SUFFICES ASSUME VariantsInit PROVE VariantsInv
      OBVIOUS
    <2>1. SoundList(<<>>, usedIds)
      BY DEF SoundList, Distinct, IdsOf
    <2>2. SoundList(variants, usedIds)
      <3>1. variants = <<>> \/ \E id \in VariantIds : variants = <<Variant(id)>>
        BY DEF VariantsInit
      <3>2. ASSUME NEW id \in VariantIds, variants = <<Variant(id)>> PROVE SoundList(variants, usedIds)
        <4>1. Variant(id) \in AllVariants
          BY DEF Variant, AllVariants
        <4>2. variants \in Seq(AllVariants) /\ DOMAIN variants = {1}
          BY <3>2, <4>1
        <4> QED BY <4>2 DEF SoundList, Distinct, VariantsInit
      <3> QED BY <2>1, <3>1, <3>2
    <2>3. NotSent \in RequestStates /\ NotSent.op = "not sent" /\ NotSent.loaded = <<>>
      BY DEF NotSent, Request, RequestStates
    <2>4. usedIds \subseteq VariantIds
      BY <2>2, ListIds DEF SoundList, VariantsInit
    <2>5. VariantsShape
      BY <2>3, <2>4 DEF VariantsInit, VariantsShape
    <2>6. \A r \in VariantRequests : inFlight[r] = NotSent
      BY DEF VariantsInit
    <2>7. \A r \in VariantRequests : RequestFits(inFlight[r], usedIds)
      BY <2>1, <2>3, <2>6 DEF RequestFits, Open, VariantOps
    <2>8. /\ \A j \in SendRuns : RunFits(j)
          /\ \A m \in Messages : MessageFits(m)
      BY DEF VariantsInit, RunFits, MessageFits
    <2> QED BY <2>2, <2>5, <2>7, <2>8 DEF VariantsInv
  <1> QED BY <1>1, VariantsStep, PTL DEF VariantsSpec

\* A message is in one row of the results unless its variant was taken off the list or
\* overlapping requests lost it, for any number of variants, requests, jobs and messages.
THEOREM OneRowEach == VariantsSpec => []MessagesInOneRow
  <1>1. VariantsInv => MessagesInOneRow
    <2> SUFFICES ASSUME VariantsInv, NEW m \in Messages, variantOf[m] # "unsent",
                        variantOf[m] \notin removed, ~overtaken
                 PROVE  Cardinality({i \in DOMAIN ResultRows : m \in ResultRows[i]}) = 1
      BY DEF MessagesInOneRow
    <2> DEFINE n == Len(variants)
    <2>1. /\ n \in Nat /\ DOMAIN variants = 1..n /\ Distinct(variants)
          /\ \A i \in 1..n : variants[i].id \in VariantIds
      BY ListIds DEF VariantsInv, SoundList
    <2>2. /\ DOMAIN ResultRows = 1..(n + 1)
          /\ \A i \in 1..n : ResultRows[i] = ResultOf(variants[i].id)
          /\ ResultRows[n + 1] = ResultOf("default")
      <3> DEFINE rows == [i \in DOMAIN variants |-> ResultOf(variants[i].id)]
      <3>1. rows \in Seq(SUBSET Messages) /\ Len(rows) = n /\ \A i \in 1..n : rows[i] = ResultOf(variants[i].id)
        <4>1. \A i \in 1..n : ResultOf(variants[i].id) \in SUBSET Messages
          BY DEF ResultOf
        <4> QED BY <2>1, <4>1
      <3>2. ResultOf("default") \in SUBSET Messages
        BY DEF ResultOf
      <3>3. ResultRows = Append(rows, ResultOf("default"))
        BY DEF ResultRows
      <3> HIDE DEF rows
      <3> QED BY <2>1, <3>1, <3>2, <3>3, AppendProperties
    <2>3. \A id : m \in ResultOf(id) <=> variantOf[m] = id
      BY DEF ResultOf
    <2>4. "default" \notin VariantIds
      BY VariantsAssumption DEF VariantsAssumption
    <2>5. \E k \in 1..(n + 1) : \A i \in 1..(n + 1) : m \in ResultRows[i] <=> i = k
      <3> HIDE DEF n
      <3>0. n + 1 \in 1..(n + 1) /\ \A i \in 1..(n + 1) : i \in 1..n \/ i = n + 1
        BY <2>1
      <3>1. CASE variantOf[m] = "default"
        <4>1. \A i \in 1..n : m \notin ResultRows[i]
          BY <2>1, <2>2, <2>3, <2>4, <3>1
        <4>2. m \in ResultRows[n + 1]
          BY <2>2, <2>3, <3>1
        <4> QED BY <3>0, <4>1, <4>2
      <3>2. CASE variantOf[m] # "default"
        <4>1. variantOf[m] \in IdsOf(variants)
          BY <3>2 DEF VariantsInv, MessageFits, Accounted
        <4>2. PICK k \in 1..n : variants[k].id = variantOf[m]
          BY <2>1, <4>1 DEF IdsOf
        <4>3. \A i \in 1..n : m \in ResultRows[i] <=> i = k
          BY <2>1, <2>2, <2>3, <4>2 DEF Distinct
        <4>4. m \notin ResultRows[n + 1]
          BY <2>2, <2>3, <3>2
        <4>5. k \in 1..(n + 1) /\ k # n + 1
          BY <2>1, <4>2
        <4> QED BY <3>0, <4>3, <4>4, <4>5
      <3> QED BY <3>1, <3>2
    <2>6. PICK k \in 1..(n + 1) : \A i \in 1..(n + 1) : m \in ResultRows[i] <=> i = k
      BY <2>5
    <2>7. {i \in DOMAIN ResultRows : m \in ResultRows[i]} = {k}
      BY <2>2, <2>6
    <2> QED BY <2>7, FS_Singleton
  <1> QED BY <1>1, VariantsInvariant, PTL

\* The reply variants are type correct, and no id stands in the list twice.
THEOREM VariantTypes == VariantsSpec => []VariantsTypeOK
  <1>1. VariantsInv => VariantsTypeOK
    <2> SUFFICES ASSUME VariantsInv PROVE VariantsTypeOK
      OBVIOUS
    <2>0. VariantsShape /\ SoundList(variants, usedIds)
      BY DEF VariantsInv
    <2>1. Len(variants) = Cardinality(IdsOf(variants))
      <3> DEFINE n == Len(variants)
                 f == [i \in 1..n |-> variants[i].id]
      <3>1. n \in Nat /\ DOMAIN variants = 1..n /\ Distinct(variants)
        BY <2>0 DEF SoundList
      <3>2. f \in Bijection(1..n, IdsOf(variants))
        <4>1. f \in [1..n -> IdsOf(variants)]
          BY <3>1 DEF IdsOf
        <4>2. \A i, k \in 1..n : f[i] = f[k] => i = k
          BY <3>1 DEF Distinct
        <4>3. \A id \in IdsOf(variants) : \E i \in 1..n : f[i] = id
          BY <3>1 DEF IdsOf
        <4> HIDE DEF f
        <4> QED BY <4>1, <4>2, <4>3 DEF Bijection, Injection, Surjection, IsInjective
      <3>3. IsFiniteSet(1..n) /\ Cardinality(1..n) = n
        <4> HIDE DEF n
        <4>1. IsFiniteSet(1..n) /\ Cardinality(1..n) = IF 1 > n THEN 0 ELSE n - 1 + 1
          BY <3>1, FS_Interval
        <4> QED BY <3>1, <4>1
      <3>4. ExistsBijection(1..n, IdsOf(variants))
        BY <3>2 DEF ExistsBijection
      <3> QED BY <3>3, <3>4, FS_Bijection
    <2>2. IdsOf(variants) \subseteq usedIds
      BY <2>0 DEF SoundList
    <2> QED BY <2>0, <2>1, <2>2 DEF VariantsTypeOK, VariantsShape, SoundList, RequestStates, VariantOps
  <1> QED BY <1>1, VariantsInvariant, PTL
------------------------------------------------------------------------------
(* RateLimiter *)

Points(oldest) == {t \in Times : t >= oldest}
Span(from, to) == {t \in Times : from <= t /\ t <= to}
Records == [Routes \X Times -> Nat]

\* How many requests a bucket and a client's record have since a time, and how
\* many a record has on some routes between two times.
InBucket(b, oldest) == Sum(b, Points(oldest))
OnRecord(f, oldest) == Sum(f, Routes \X Points(oldest))
Passed(f, R, from, to) == Sum(f, R \X Span(from, to))

\* A bucket in memory has what was let through on its routes, or less once the
\* limiter has forgotten.
TellsRoute(b, f, r, now, exact) ==
    \A t \in Times : t >= now - Window =>
        b[t] <= f[<<r, t>>] /\ (exact => b[t] = f[<<r, t>>])

\* A bucket in Redis has all that was let through on any route, at times that
\* may be up to MaxSkew too late.
TellsClient(b, f, now) ==
    \A x \in Int :
        /\ x > now + MaxSkew - Window => OnRecord(f, x) <= InBucket(b, x)
        /\ x > now - Window => InBucket(b, x) <= OnRecord(f, x - MaxSkew)

\* No window of a width holds more than the limit, and nothing is in the future.
WithinLimit(f, r, width) == \A from \in Int : Passed(f, {r}, from, from + width) <= LimitOf[r]
NothingAhead(f, now) == \A x \in Routes \X Times : x[2] > now => f[x] = 0

\* A request let through is counted in the bucket and goes on record.
Raised(f, g, r, d) ==
    /\ g[<<r, d>>] = f[<<r, d>>] + 1
    /\ \A y \in (Routes \X Times) \ {<<r, d>>} : g[y] = f[y]
CountedOnce(ok, recent, stamp, new, f, g, r, now) ==
    /\ ok <=> InTotal(recent) < LimitOf[r]
    /\ ok => new = [recent EXCEPT ![stamp] = @ + 1] /\ Raised(f, g, r, now)
    /\ ~ok => new = recent /\ g = f

LimiterShape ==
    /\ backend \in {"memory", "redis"} /\ clock \in 0..MaxClock
    /\ DOMAIN buckets \subseteq (Routes \cup {"window"}) \X Clients
    /\ \A k \in DOMAIN buckets : buckets[k] \in [Times -> Nat]
    /\ lastCleanup \in [Routes -> 0..MaxClock]
    /\ admitted \in [Clients -> Records]
    /\ forgotten \subseteq Routes

\* Who was turned away had used the limit up.
AnswerFits ==
    \/ answer = NoAnswer
    \/ /\ answer.route \in Routes /\ answer.client \in Clients /\ answer.ok \in BOOLEAN
       /\ answer \in [route : Routes, client : Clients, ok : BOOLEAN]
       /\ ~answer.ok =>
             LimitOf[answer.route] <=
                 IF backend = "redis"
                     THEN Passed(admitted[answer.client], Routes, clock - (Window + MaxSkew), clock)
                     ELSE Passed(admitted[answer.client], {answer.route}, clock - Window, clock)

LimiterInv ==
    /\ LimiterShape /\ AnswerFits
    /\ \A c \in Clients : NothingAhead(admitted[c], clock)
    /\ \A r \in Routes \ forgotten, c \in Clients :
          WithinLimit(admitted[c], r, Window - Shorter)
    /\ backend = "memory" => \A r \in Routes, c \in Clients :
          TellsRoute(BucketAt(buckets, <<r, c>>), admitted[c], r, clock, r \notin forgotten)
    /\ backend = "redis" => \A c \in Clients :
          TellsClient(BucketAt(buckets, <<"window", c>>), admitted[c], clock)

\* What is assumed of the constants.
LEMMA LimiterConstants ==
    /\ Window \in Nat /\ Window > 0 /\ MaxSkew \in Nat /\ MaxClock \in Nat
    /\ Times = 0..(MaxClock + MaxSkew) /\ Times \subseteq Nat /\ IsFiniteSet(Times)
    /\ IsFiniteSet(Routes) /\ LimitOf \in [Routes -> Nat \ {0}]
    /\ NoRequests \in [Times -> Nat] /\ \A t \in Times : NoRequests[t] = 0
  <1>1. /\ Window \in Nat /\ Window > 0 /\ MaxSkew \in Nat /\ MaxClock \in Nat
        /\ IsFiniteSet(Routes) /\ LimitOf \in [Routes -> Nat \ {0}]
    BY LimiterAssumption DEF LimiterAssumption
  <1>2. Times = 0..(MaxClock + MaxSkew) /\ Times \subseteq Nat
    BY <1>1 DEF Times
  <1>3. IsFiniteSet(Times)
    BY <1>1, <1>2, FS_Interval
  <1> QED BY <1>1, <1>2, <1>3 DEF NoRequests

\* The sets summed over are finite.
LEMMA FiniteSpans ==
    /\ \A x : IsFiniteSet(Points(x)) /\ Points(x) \subseteq Times
    /\ \A x, y : IsFiniteSet(Span(x, y)) /\ Span(x, y) \subseteq Times
  <1>1. \A x, y : Points(x) \subseteq Times /\ Span(x, y) \subseteq Times
    BY DEF Points, Span
  <1> QED BY <1>1, LimiterConstants, FS_Subset

LEMMA FinitePairs ==
    ASSUME NEW R \in SUBSET Routes
    PROVE  /\ \A x : IsFiniteSet(R \X Points(x)) /\ R \X Points(x) \subseteq Routes \X Times
           /\ \A x, y : IsFiniteSet(R \X Span(x, y)) /\ R \X Span(x, y) \subseteq Routes \X Times
  <1>1. IsFiniteSet(R)
    BY LimiterConstants, FS_Subset
  <1> QED BY <1>1, FiniteSpans, FS_Product

\* What is counted on a record is a number.
LEMMA RecordCounts ==
    ASSUME NEW f \in Records
    PROVE  /\ \A x \in Int : OnRecord(f, x) \in Int
           /\ \A R \in SUBSET Routes, from \in Int, to \in Int : Passed(f, R, from, to) \in Int
  <1>1. \A y \in Routes \X Times : f[y] \in Int
    BY DEF Records
  <1>2. ASSUME NEW x \in Int, NEW from \in Int, NEW to \in Int, NEW R \in SUBSET Routes
        PROVE  OnRecord(f, x) \in Int /\ Passed(f, R, from, to) \in Int
    <2>1. /\ \A y \in Routes \X Points(x) : f[y] \in Int
          /\ \A y \in R \X Span(from, to) : f[y] \in Int
      BY <1>1, FinitePairs
    <2> QED BY <2>1, FinitePairs, SumInteger DEF OnRecord, Passed
  <1> QED BY <1>2, Zenon

\* One more request in a bucket, and on record.
LEMMA BucketRaised ==
    ASSUME NEW b \in [Times -> Nat], NEW d \in Times, NEW x \in Int
    PROVE  /\ [b EXCEPT ![d] = @ + 1] \in [Times -> Nat]
           /\ InBucket([b EXCEPT ![d] = @ + 1], x) = InBucket(b, x) + (IF d >= x THEN 1 ELSE 0)
           /\ InBucket(b, x) \in Int
  <1> DEFINE g == [b EXCEPT ![d] = @ + 1]
  <1>1. g \in [Times -> Nat] /\ g[d] = b[d] + 1 /\ \A t \in Times \ {d} : g[t] = b[t]
    OBVIOUS
  <1> HIDE DEF g
  <1>2. IsFiniteSet(Points(x))
    BY FiniteSpans
  <1>3. /\ \A t \in Points(x) : b[t] \in Int
        /\ \A t \in Points(x) \ {d} : g[t] = b[t]
        /\ d \in Points(x) => g[d] = b[d] + 1
        /\ d \in Points(x) <=> d >= x
    BY <1>1 DEF Points
  <1>4. /\ Sum(g, Points(x)) = Sum(b, Points(x)) + (IF d \in Points(x) THEN 1 ELSE 0)
        /\ Sum(b, Points(x)) \in Int
    BY <1>2, <1>3, SumRaised
  <1>5. InBucket(g, x) = InBucket(b, x) + (IF d >= x THEN 1 ELSE 0) /\ InBucket(b, x) \in Int
    BY <1>3, <1>4 DEF InBucket
  <1> QED BY <1>1, <1>5 DEF g

LEMMA RecordRaised ==
    ASSUME NEW f \in Records, NEW r \in Routes, NEW d \in Times,
           NEW g \in Records, Raised(f, g, r, d)
    PROVE  /\ \A x \in Int :
                /\ OnRecord(g, x) = OnRecord(f, x) + (IF d >= x THEN 1 ELSE 0)
                /\ OnRecord(f, x) \in Int
           /\ \A R \in SUBSET Routes, from \in Int, to \in Int :
                /\ Passed(g, R, from, to) = Passed(f, R, from, to)
                                            + (IF r \in R /\ from <= d /\ d <= to THEN 1 ELSE 0)
                /\ Passed(f, R, from, to) \in Int
  <1> SUFFICES ASSUME NEW x \in Int, NEW from \in Int, NEW to \in Int, NEW R \in SUBSET Routes
               PROVE  /\ OnRecord(g, x) = OnRecord(f, x) + (IF d >= x THEN 1 ELSE 0)
                      /\ OnRecord(f, x) \in Int
                      /\ Passed(g, R, from, to)
                           = Passed(f, R, from, to)
                             + (IF r \in R /\ from <= d /\ d <= to THEN 1 ELSE 0)
                      /\ Passed(f, R, from, to) \in Int
    OBVIOUS
  <1> DEFINE y == <<r, d>>
             all == Routes \X Points(x)
             some == R \X Span(from, to)
  <1>1. y \in Routes \X Times /\ f \in [Routes \X Times -> Nat]
    BY DEF Records
  <1>2. g[y] = f[y] + 1 /\ \A z \in (Routes \X Times) \ {y} : g[z] = f[z]
    BY DEF Raised
  <1>3. IsFiniteSet(all) /\ IsFiniteSet(some)
    BY FinitePairs
  <1>4. /\ all \subseteq Routes \X Times /\ (y \in all <=> d >= x)
        /\ some \subseteq Routes \X Times /\ (y \in some <=> r \in R /\ from <= d /\ d <= to)
    BY DEF Points, Span
  <1> HIDE DEF y, all, some
  <1>5. ASSUME NEW S \in SUBSET (Routes \X Times), IsFiniteSet(S)
        PROVE  Sum(g, S) = Sum(f, S) + (IF y \in S THEN 1 ELSE 0) /\ Sum(f, S) \in Int
    <2>1. /\ \A z \in S : f[z] \in Int
          /\ \A z \in S \ {y} : g[z] = f[z]
          /\ y \in S => g[y] = f[y] + 1
      BY <1>1, <1>2
    <2> QED BY <1>5, <2>1, SumRaised
  <1>6. OnRecord(g, x) = OnRecord(f, x) + (IF d >= x THEN 1 ELSE 0) /\ OnRecord(f, x) \in Int
    BY <1>3, <1>4, <1>5 DEF OnRecord, all
  <1>7. /\ Passed(g, R, from, to) = Passed(f, R, from, to)
                                    + (IF r \in R /\ from <= d /\ d <= to THEN 1 ELSE 0)
        /\ Passed(f, R, from, to) \in Int
    BY <1>3, <1>4, <1>5 DEF Passed, some
  <1> QED BY <1>6, <1>7

\* The whole bucket, when nothing in it is older.
LEMMA TotalIs ==
    ASSUME NEW b \in [Times -> Nat], NEW oldest \in Int
    PROVE  /\ Since(b, oldest) \in [Times -> Nat]
           /\ \A t \in Times : Since(b, oldest)[t] = IF t >= oldest THEN b[t] ELSE 0
           /\ InTotal(Since(b, oldest)) = InBucket(b, oldest)
           /\ \A x \in Int : /\ x >= oldest => InBucket(Since(b, oldest), x) = InBucket(b, x)
                             /\ InBucket(Since(b, oldest), x) <= InBucket(b, x)
                             /\ InBucket(b, x) <= InBucket(b, oldest) \/ x < oldest
                             /\ InBucket(b, x) \in Int
  <1> DEFINE s == Since(b, oldest)
  <1>1. s \in [Times -> Nat] /\ \A t \in Times : s[t] = IF t >= oldest THEN b[t] ELSE 0
    BY DEF Since
  <1>2. InTotal(s) = Sum(s, Times)
    BY <1>1 DEF InTotal, FoldFunction, Sum
  <1> HIDE DEF s
  <1>3. IsFiniteSet(Times) /\ \A x : IsFiniteSet(Points(x)) /\ Points(x) \subseteq Times
    BY LimiterConstants, FiniteSpans
  <1>4. \A t \in Times : s[t] \in Int /\ b[t] \in Int /\ 0 <= b[t] /\ 0 <= s[t]
    BY <1>1
  <1>5. Sum(b, Points(oldest)) = Sum(s, Times)
    <2>1. /\ Points(oldest) \in SUBSET Times
          /\ \A t \in Points(oldest) : b[t] = s[t]
          /\ \A t \in Times \ Points(oldest) : s[t] = 0
          /\ \A t \in Times : s[t] \in Int
      BY <1>1, <1>4 DEF Points
    <2> QED BY <1>3, <2>1, SumSupport
  <1>6. ASSUME NEW x \in Int
        PROVE  /\ x >= oldest => Sum(s, Points(x)) = Sum(b, Points(x))
               /\ Sum(s, Points(x)) <= Sum(b, Points(x))
               /\ Sum(b, Points(x)) <= Sum(b, Points(oldest)) \/ x < oldest
               /\ Sum(b, Points(x)) \in Int
    <2>1. \A t \in Points(x) : b[t] \in Int /\ s[t] \in Int
      BY <1>3, <1>4
    <2>2. Sum(b, Points(x)) \in Int
      BY <1>3, <2>1, SumInteger
    <2>3. Sum(s, Points(x)) <= Sum(b, Points(x))
      <3>1. \A t \in Points(x) \cup Points(x) :
                (IF t \in Points(x) THEN s[t] ELSE 0) <= (IF t \in Points(x) THEN b[t] ELSE 0)
        BY <1>1, <1>3, <1>4
      <3> QED BY <1>3, <2>1, <3>1, SumCompare
    <2>4. ASSUME x >= oldest PROVE Sum(s, Points(x)) = Sum(b, Points(x))
      <3>1. \A t \in Points(x) : s[t] \in Int /\ s[t] = b[t]
        BY <1>1, <2>4, LimiterConstants DEF Points
      <3> QED BY <1>3, <3>1, SumSame, Zenon
    <2>5. ASSUME x >= oldest PROVE Sum(b, Points(x)) <= Sum(b, Points(oldest))
      <3>1. Points(x) \subseteq Points(oldest)
        BY <2>5, LimiterConstants DEF Points
      <3>2. \A t \in Points(x) \cup Points(oldest) :
                (IF t \in Points(x) THEN b[t] ELSE 0) <= (IF t \in Points(oldest) THEN b[t] ELSE 0)
        BY <1>3, <1>4, <3>1
      <3>3. \A t \in Points(oldest) : b[t] \in Int
        BY <1>3, <1>4
      <3> QED BY <1>3, <2>1, <3>2, <3>3, SumCompare
    <2> QED BY <2>2, <2>3, <2>4, <2>5
  <1> QED BY <1>1, <1>2, <1>5, <1>6 DEF InBucket, s

\* More routes, a longer time or a record with more on it.
LEMMA PassedMore ==
    ASSUME NEW f \in Records, NEW g \in Records, NEW A, NEW B,
           IsFiniteSet(A), IsFiniteSet(B), A \subseteq Routes \X Times, B \subseteq Routes \X Times,
           \A y \in A : f[y] <= g[y], \A y \in A \ B : f[y] = 0
    PROVE  Sum(f, A) <= Sum(g, B)
  <1>1. \A y \in Routes \X Times : f[y] \in Nat /\ g[y] \in Nat
    BY DEF Records
  <1>2. \A y \in A : f[y] \in Int
    BY <1>1
  <1>3. \A y \in B : g[y] \in Int
    BY <1>1
  <1>4. \A y \in A \cup B : (IF y \in A THEN f[y] ELSE 0) <= (IF y \in B THEN g[y] ELSE 0)
    BY <1>1
  <1> QED BY <1>2, <1>3, <1>4, SumCompare

\* What a bucket in memory says of the window that ends now.
LEMMA MemoryCount ==
    ASSUME NEW f \in Records, NEW r \in Routes, NEW now \in 0..MaxClock, NEW b \in [Times -> Nat],
           NEW exact \in BOOLEAN, TellsRoute(b, f, r, now, exact), NothingAhead(f, now)
    PROVE  /\ InBucket(b, now - Window) <= Passed(f, {r}, now - Window, now)
           /\ exact => \A from \in Int : from <= now /\ now <= from + Window =>
                          Passed(f, {r}, from, from + Window) <= InBucket(b, now - Window)
  <1> DEFINE h == [t \in Times |-> f[<<r, t>>]]
             old == now - Window
  <1>0. \A t \in Times : h[t] = f[<<r, t>>] /\ h[t] \in Int
    <2>1. \A t \in Times : f[<<r, t>>] \in Nat
      BY DEF Records
    <2> QED BY <2>1
  <1>1. \A t \in Times : h[t] = f[<<r, t>>] /\ h[t] \in Nat /\ b[t] \in Nat /\ t \in Nat
    BY LimiterConstants DEF Records
  <1>2. old \in Int /\ now \in Int /\ now = old + Window /\ Window \in Nat
    BY LimiterConstants
  <1> HIDE DEF h, old
  <1>3. ASSUME NEW from \in Int, NEW to \in Int PROVE Passed(f, {r}, from, to) = Sum(h, Span(from, to))
    <2> DEFINE T == Span(from, to)
    <2>1. IsFiniteSet(T) /\ T \subseteq Times
      BY FiniteSpans
    <2> HIDE DEF T
    <2>2. \A t \in T : h[t] \in Int /\ f[<<r, t>>] = h[t]
      BY <1>0, <2>1
    <2> DEFINE k == [t \in T |-> <<r, t>>]
    <2>3. /\ \A t \in T : h[t] \in Int /\ f[k[t]] = h[t]
          /\ \A t, u \in T : k[t] = k[u] => t = u
      BY <2>2
    <2>4. {k[t] : t \in T} = {r} \X T
      OBVIOUS
    <2> HIDE DEF k
    <2>5. Sum(f, {k[t] : t \in T}) = Sum(h, T)
      BY <2>1, <2>3, SumRenamed
    <2> QED BY <2>4, <2>5 DEF Passed, T
  <1>9. \A x, y : IsFiniteSet(Span(x, y)) /\ \A t \in Span(x, y) : h[t] \in Int
    <2>1. ASSUME NEW x, NEW y PROVE IsFiniteSet(Span(x, y)) /\ \A t \in Span(x, y) : h[t] \in Int
      <3>1. IsFiniteSet(Span(x, y)) /\ Span(x, y) \subseteq Times
        BY FiniteSpans
      <3>2. \A t \in Times : h[t] \in Int
        BY <1>0
      <3> QED BY <3>1, <3>2, Zenon
    <2> QED BY <2>1
  <1>4. \A t \in Times : t > now => h[t] = 0
    <2>1. \A t \in Times : <<r, t>> \in Routes \X Times /\ <<r, t>>[2] = t
      OBVIOUS
    <2> QED BY <1>1, <2>1 DEF NothingAhead
  <1>5. \A t \in Times : t >= old => b[t] <= h[t] /\ (exact => b[t] = h[t])
    BY <1>1 DEF TellsRoute, old
  <1>6. IsFiniteSet(Points(old)) /\ \A t \in Points(old) : b[t] \in Int
    BY <1>1, FiniteSpans
  <1>7. InBucket(b, old) <= Passed(f, {r}, old, now)
    <2>1. IsFiniteSet(Span(old, now)) /\ \A t \in Span(old, now) : h[t] \in Int
      BY <1>9
    <2>2. \A t \in Points(old) \cup Span(old, now) :
              (IF t \in Points(old) THEN b[t] ELSE 0) <= (IF t \in Span(old, now) THEN h[t] ELSE 0)
      <3> SUFFICES ASSUME NEW t \in Times, t >= old
                   PROVE  b[t] <= (IF t <= now THEN h[t] ELSE 0)
        BY DEF Points, Span
      <3>1. b[t] \in Nat /\ h[t] \in Nat /\ t \in Nat /\ b[t] <= h[t] /\ (t > now => h[t] = 0)
        BY <1>1, <1>4, <1>5
      <3> QED BY <1>2, <3>1
    <2>3. Sum(b, Points(old)) <= Sum(h, Span(old, now))
      BY <1>6, <2>1, <2>2, SumCompare
    <2> QED BY <1>2, <1>3, <2>3 DEF InBucket
  <1>8. ASSUME exact, NEW from \in Int, from <= now, now <= from + Window
        PROVE  Passed(f, {r}, from, from + Window) <= InBucket(b, old)
    <2> DEFINE to == from + Window
    <2>1. IsFiniteSet(Span(from, to)) /\ \A t \in Span(from, to) : h[t] \in Int
      BY <1>9
    <2>2. from >= old /\ to \in Int
      BY <1>2, <1>8
    <2> HIDE DEF to
    <2>3. \A t \in Span(from, to) \cup Points(old) :
              (IF t \in Span(from, to) THEN h[t] ELSE 0) <= (IF t \in Points(old) THEN b[t] ELSE 0)
      <3> SUFFICES ASSUME NEW t \in Times, t \in Span(from, to) \/ t >= old
                   PROVE  (IF t \in Span(from, to) THEN h[t] ELSE 0) <= (IF t >= old THEN b[t] ELSE 0)
        BY DEF Points, Span
      <3>1. t \in Span(from, to) => t >= old
        <4>1. t \in Nat /\ (t \in Span(from, to) => from <= t)
          BY <1>1 DEF Span
        <4> QED BY <1>2, <1>8, <2>2, <4>1
      <3> QED BY <1>1, <1>5, <1>8, <3>1
    <2>4. Sum(h, Span(from, to)) <= Sum(b, Points(old))
      BY <1>6, <2>1, <2>3, SumCompare
    <2> QED BY <1>3, <2>2, <2>4 DEF InBucket, to
  <1> QED BY <1>7, <1>8 DEF old

\* What a bucket in Redis says of it, whichever process asks.
LEMMA ClientCount ==
    ASSUME NEW f \in Records, NEW r \in Routes, NEW now \in 0..MaxClock, NEW b \in [Times -> Nat],
           NEW skew \in 0..MaxSkew, TellsClient(b, f, now), NothingAhead(f, now)
    PROVE  /\ InBucket(b, (now + skew) - Window + 1) <= Passed(f, Routes, now - (Window + MaxSkew), now)
           /\ \A from \in Int : now <= from + (Window - (MaxSkew + 1)) =>
                 Passed(f, {r}, from, from + (Window - (MaxSkew + 1)))
                 <= InBucket(b, (now + skew) - Window + 1)
  <1> DEFINE old == (now + skew) - Window + 1
  <1>1. /\ old \in Int /\ old > now - Window /\ now \in Int /\ MaxSkew \in Nat /\ Window \in Nat
        /\ old <= now + MaxSkew - Window + 1 /\ skew \in Nat /\ skew <= MaxSkew
    BY LimiterConstants
  <1>2. /\ InBucket(b, old) <= OnRecord(f, old - MaxSkew)
        /\ \A x \in Int : x > now + MaxSkew - Window => OnRecord(f, x) <= InBucket(b, x)
    BY <1>1 DEF TellsClient
  <1>3. \A t \in Times : t \in Nat
    BY LimiterConstants
  <1>4. \A x \in Int, from \in Int, to \in Int :
            /\ OnRecord(f, x) \in Int /\ Passed(f, Routes, from, to) \in Int
            /\ Passed(f, {r}, from, to) \in Int /\ InBucket(b, x) \in Int
    <2>1. {r} \in SUBSET Routes /\ Routes \in SUBSET Routes
      OBVIOUS
    <2>2. \A x \in Int : InBucket(b, x) \in Int
      BY TotalIs
    <2> QED BY <2>1, <2>2, RecordCounts
  <1> HIDE DEF old
  <1>5. OnRecord(f, old - MaxSkew) <= Passed(f, Routes, now - (Window + MaxSkew), now)
    <2> DEFINE A == Routes \X Points(old - MaxSkew)
               B == Routes \X Span(now - (Window + MaxSkew), now)
    <2>1. IsFiniteSet(A) /\ IsFiniteSet(B) /\ A \subseteq Routes \X Times /\ B \subseteq Routes \X Times
      BY FinitePairs
    <2>2. ASSUME NEW y \in A \ B PROVE f[y] = 0
      <3>1. y \in Routes \X Times /\ y[1] \in Routes /\ y[2] \in Times /\ y[2] >= old - MaxSkew
            /\ y = <<y[1], y[2]>>
        BY <2>2 DEF Points
      <3>2. y[2] > now
        <4>1. y[2] \notin Span(now - (Window + MaxSkew), now)
          BY <2>2, <3>1
        <4>2. y[2] >= now - (Window + MaxSkew) /\ y[2] \in Int
          BY <1>1, <1>3, <3>1
        <4> QED BY <1>1, <3>1, <4>1, <4>2 DEF Span
      <3> QED BY <3>1, <3>2 DEF NothingAhead
    <2>3. \A y \in A : f[y] <= f[y]
      BY <2>1 DEF Records
    <2> HIDE DEF A, B
    <2>4. Sum(f, A) <= Sum(f, B)
      BY <2>1, <2>2, <2>3, PassedMore
    <2> QED BY <2>4 DEF OnRecord, Passed, A, B
  <1>6. ASSUME NEW from \in Int, now <= from + (Window - (MaxSkew + 1))
        PROVE  Passed(f, {r}, from, from + (Window - (MaxSkew + 1))) <= InBucket(b, old)
    <2> DEFINE to == from + (Window - (MaxSkew + 1))
               A == {r} \X Span(from, to)
               B == Routes \X Points(from)
    <2>1. IsFiniteSet(A) /\ IsFiniteSet(B) /\ A \subseteq Routes \X Times /\ B \subseteq Routes \X Times
      BY FinitePairs
    <2>2. A \subseteq B
      BY <1>3 DEF Points, Span
    <2>3. \A y \in A : f[y] <= f[y]
      BY <2>1 DEF Records
    <2>4. to \in Int /\ from > now + MaxSkew - Window /\ from >= old
      BY <1>1, <1>6
    <2> HIDE DEF A, B, to
    <2>5. Sum(f, A) <= Sum(f, B)
      BY <2>1, <2>2, <2>3, PassedMore
    <2>6. Passed(f, {r}, from, to) <= OnRecord(f, from)
      BY <2>5 DEF OnRecord, Passed, A, B
    <2>7. InBucket(b, from) <= InBucket(b, old)
      BY <1>1, <2>4, TotalIs
    <2>8. OnRecord(f, from) <= InBucket(b, from)
      BY <1>2, <2>4
    <2>9. /\ Passed(f, {r}, from, to) \in Int /\ OnRecord(f, from) \in Int
          /\ InBucket(b, from) \in Int /\ InBucket(b, old) \in Int
      BY <1>1, <1>4, <2>4
    <2>10. Passed(f, {r}, from, to) <= InBucket(b, old)
      BY <2>6, <2>7, <2>8, <2>9
    <2> QED BY <2>10 DEF to
  <1>7. InBucket(b, old) <= Passed(f, Routes, now - (Window + MaxSkew), now)
    <2>1. /\ OnRecord(f, old - MaxSkew) \in Int /\ InBucket(b, old) \in Int
          /\ Passed(f, Routes, now - (Window + MaxSkew), now) \in Int
      <3>1. old - MaxSkew \in Int /\ now - (Window + MaxSkew) \in Int
        BY <1>1
      <3> QED BY <1>1, <1>4, <3>1
    <2> QED BY <1>2, <1>5, <2>1
  <1> QED BY <1>6, <1>7 DEF old

\* An expired key leaves nothing that counts.
LEMMA ExpiredTells ==
    ASSUME NEW f \in Records, NEW now \in 0..MaxClock,
           \A x \in Routes \X Times : f[x] > 0 => x[2] + Window <= now
    PROVE  TellsClient(NoRequests, f, now)
  <1>1. /\ now \in Nat /\ Window \in Nat /\ MaxSkew \in Nat /\ \A t \in Times : t \in Nat
        /\ \A t \in Times : NoRequests[t] = 0
    BY LimiterConstants
  <1>2. \A y \in Routes \X Times : f[y] \in Nat
    BY DEF Records
  <1>3. ASSUME NEW x \in Int PROVE InBucket(NoRequests, x) = 0
    <2>1. IsFiniteSet(Points(x)) /\ \A t \in Points(x) : NoRequests[t] = 0
      BY <1>1, FiniteSpans
    <2> QED BY <2>1, SumZero DEF InBucket
  <1>4. ASSUME NEW x \in Int PROVE OnRecord(f, x) \in Nat
    <2>1. IsFiniteSet(Routes \X Points(x)) /\ \A y \in Routes \X Points(x) : f[y] \in Nat
      BY <1>2, FinitePairs
    <2> QED BY <2>1, SumNatural DEF OnRecord
  <1>5. ASSUME NEW x \in Int, x > now + MaxSkew - Window PROVE OnRecord(f, x) = 0
    <2>1. ASSUME NEW y \in Routes \X Points(x) PROVE f[y] = 0
      <3>1. y \in Routes \X Times /\ y[2] \in Times /\ y[2] >= x /\ f[y] \in Nat
        BY <1>2 DEF Points
      <3>2. ~(y[2] + Window <= now)
        BY <1>1, <1>5, <3>1
      <3>3. ~(f[y] > 0)
        BY <3>1, <3>2
      <3> QED BY <3>1, <3>3
    <2> QED BY <2>1, FinitePairs, SumZero DEF OnRecord
  <1>6. ASSUME NEW x \in Int PROVE x - MaxSkew \in Int
    BY <1>1
  <1> QED BY <1>3, <1>4, <1>5, <1>6 DEF TellsClient

\* Between two ticks of the clock a record loses what no window reaches.
LEMMA TickKeeps ==
    ASSUME NEW f \in Records, NEW g \in Records, NEW now \in 0..MaxClock, NEW next \in Int, next = now + 1,
           \A y \in Routes \X Times :
               g[y] = IF y[2] + Window + MaxSkew > now THEN f[y] ELSE 0,
           NothingAhead(f, now)
    PROVE  /\ NothingAhead(g, next)
           /\ \A r \in Routes, width \in Int : WithinLimit(f, r, width) => WithinLimit(g, r, width)
           /\ \A r \in Routes, exact \in BOOLEAN, b \in [Times -> Nat] :
                 TellsRoute(b, f, r, now, exact) => TellsRoute(b, g, r, next, exact)
           /\ \A b \in [Times -> Nat] : TellsClient(b, f, now) => TellsClient(b, g, next)
  <1>1. /\ now \in Nat /\ Window \in Nat /\ MaxSkew \in Nat /\ \A t \in Times : t \in Nat
        /\ LimitOf \in [Routes -> Nat \ {0}]
    BY LimiterConstants
  <1>2. \A y \in Routes \X Times : f[y] \in Nat /\ g[y] \in Nat /\ y[2] \in Times
    BY DEF Records
  <1>3. \A y \in Routes \X Times : g[y] <= f[y]
    BY <1>1, <1>2
  <1>4. NothingAhead(g, next)
    BY <1>1, <1>2 DEF NothingAhead
  <1>5. ASSUME NEW A, IsFiniteSet(A), A \subseteq Routes \X Times
        PROVE  Sum(g, A) <= Sum(f, A) /\ Sum(g, A) \in Int /\ Sum(f, A) \in Int
    <2>1. \A y \in A : f[y] \in Int /\ g[y] \in Int /\ g[y] <= f[y]
      BY <1>2, <1>3, <1>5
    <2>2. Sum(g, A) \in Int /\ Sum(f, A) \in Int
      BY <1>5, <2>1, SumInteger
    <2>3. Sum(g, A) <= Sum(f, A)
      BY <1>5, <2>1, PassedMore
    <2> QED BY <2>2, <2>3
  <1>6. ASSUME NEW r \in Routes, NEW width \in Int, WithinLimit(f, r, width)
        PROVE  WithinLimit(g, r, width)
    <2> SUFFICES ASSUME NEW from \in Int PROVE Passed(g, {r}, from, from + width) <= LimitOf[r]
      BY DEF WithinLimit
    <2> DEFINE A == {r} \X Span(from, from + width)
    <2>1. IsFiniteSet(A) /\ A \subseteq Routes \X Times
      BY FinitePairs, {r} \in SUBSET Routes
    <2>2. Sum(f, A) <= LimitOf[r] /\ LimitOf[r] \in Int
      BY <1>1, <1>6 DEF WithinLimit, Passed
    <2> HIDE DEF A
    <2>3. Sum(g, A) <= LimitOf[r]
      BY <1>5, <2>1, <2>2
    <2> QED BY <2>3 DEF Passed, A
  <1>7. ASSUME NEW r \in Routes, NEW exact \in BOOLEAN, NEW b \in [Times -> Nat],
               TellsRoute(b, f, r, now, exact)
        PROVE  TellsRoute(b, g, r, next, exact)
    <2> SUFFICES ASSUME NEW t \in Times, t >= next - Window
                 PROVE  b[t] <= g[<<r, t>>] /\ (exact => b[t] = g[<<r, t>>])
      BY DEF TellsRoute
    <2>1. t \in Nat /\ t >= now - Window /\ t + Window + MaxSkew > now
      BY <1>1
    <2>2. b[t] <= f[<<r, t>>] /\ (exact => b[t] = f[<<r, t>>])
      BY <1>7, <2>1 DEF TellsRoute
    <2>3. <<r, t>> \in Routes \X Times /\ <<r, t>>[2] = t
      OBVIOUS
    <2>4. g[<<r, t>>] = f[<<r, t>>]
      BY <2>1, <2>3
    <2> QED BY <2>2, <2>4
  <1>8. ASSUME NEW b \in [Times -> Nat], TellsClient(b, f, now) PROVE TellsClient(b, g, next)
    <2> SUFFICES ASSUME NEW x \in Int
                 PROVE  /\ x > next + MaxSkew - Window => OnRecord(g, x) <= InBucket(b, x)
                        /\ x > next - Window => InBucket(b, x) <= OnRecord(g, x - MaxSkew)
      BY DEF TellsClient
    <2>0. InBucket(b, x) \in Int
      BY TotalIs
    <2>1. ASSUME x > next + MaxSkew - Window PROVE OnRecord(g, x) <= InBucket(b, x)
      <3>1. x > now + MaxSkew - Window
        BY <1>1, <2>1
      <3>2. OnRecord(f, x) <= InBucket(b, x)
        BY <1>8, <3>1 DEF TellsClient
      <3>3. OnRecord(g, x) <= OnRecord(f, x) /\ OnRecord(g, x) \in Int /\ OnRecord(f, x) \in Int
        BY <1>5, FinitePairs DEF OnRecord
      <3> QED BY <2>0, <3>2, <3>3
    <2>2. ASSUME x > next - Window PROVE InBucket(b, x) <= OnRecord(g, x - MaxSkew)
      <3> DEFINE A == Routes \X Points(x - MaxSkew)
      <3>1. x > now - Window
        BY <1>1, <2>2
      <3>2. InBucket(b, x) <= OnRecord(f, x - MaxSkew)
        BY <1>8, <3>1 DEF TellsClient
      <3>3. IsFiniteSet(A) /\ A \subseteq Routes \X Times
        BY FinitePairs
      <3>4. \A y \in A : y[2] >= x - MaxSkew
        BY DEF Points
      <3> HIDE DEF A
      <3>5. ASSUME NEW y \in A PROVE f[y] \in Int /\ f[y] = g[y]
        <4>1. y \in Routes \X Times /\ y[2] \in Nat /\ y[2] >= x - MaxSkew
          BY <1>1, <1>2, <3>3, <3>4
        <4>2. y[2] + Window + MaxSkew > now
          BY <1>1, <2>2, <4>1
        <4> QED BY <1>2, <4>1, <4>2
      <3>6. Sum(f, A) = Sum(g, A)
        BY <3>3, <3>5, SumSame, Zenon
      <3> QED BY <3>2, <3>6 DEF OnRecord, A
    <2> QED BY <2>1, <2>2
  <1> QED BY <1>4, <1>6, <1>7, <1>8

\* One more request on record, now, when there was room for it.
LEMMA RecordKeeps ==
    ASSUME NEW f \in Records, NEW g \in Records, NEW r \in Routes, NEW now \in 0..MaxClock,
           Raised(f, g, r, now), NothingAhead(f, now)
    PROVE  /\ NothingAhead(g, now)
           /\ \A s \in Routes, width \in Int :
                 (/\ WithinLimit(f, s, width)
                  /\ s = r => \A from \in Int : from <= now /\ now <= from + width =>
                                  Passed(f, {r}, from, from + width) < LimitOf[r])
                 => WithinLimit(g, s, width)
  <1>1. /\ now \in Times /\ now \in Int /\ LimitOf \in [Routes -> Nat \ {0}]
    BY LimiterConstants
  <1>2. NothingAhead(g, now)
    <2> SUFFICES ASSUME NEW y \in Routes \X Times, y[2] > now PROVE g[y] = 0
      BY DEF NothingAhead
    <2>1. f[y] = 0
      BY DEF NothingAhead
    <2>2. y # <<r, now>>
      BY <1>1
    <2> QED BY <2>1, <2>2 DEF Raised
  <1>3. ASSUME NEW s \in Routes, NEW width \in Int, WithinLimit(f, s, width),
               s = r => \A from \in Int : from <= now /\ now <= from + width =>
                            Passed(f, {r}, from, from + width) < LimitOf[r]
        PROVE  WithinLimit(g, s, width)
    <2> SUFFICES ASSUME NEW from \in Int PROVE Passed(g, {s}, from, from + width) <= LimitOf[s]
      BY DEF WithinLimit
    <2> DEFINE to == from + width
    <2>1. to \in Int /\ {s} \in SUBSET Routes /\ LimitOf[s] \in Int
      BY <1>1
    <2>2. Passed(f, {s}, from, to) <= LimitOf[s]
      BY <1>3 DEF WithinLimit
    <2>3. s = r /\ from <= now /\ now <= to => Passed(f, {s}, from, to) < LimitOf[s]
      BY <1>3
    <2> HIDE DEF to
    <2>4. /\ Passed(g, {s}, from, to) = Passed(f, {s}, from, to)
                                        + (IF r \in {s} /\ from <= now /\ now <= to THEN 1 ELSE 0)
          /\ Passed(f, {s}, from, to) \in Int
      <3> DEFINE R == {s}
      <3>1. R \in SUBSET Routes
        OBVIOUS
      <3> HIDE DEF R
      <3>2. /\ Passed(g, R, from, to) = Passed(f, R, from, to)
                                        + (IF r \in R /\ from <= now /\ now <= to THEN 1 ELSE 0)
            /\ Passed(f, R, from, to) \in Int
        <4>1. \A Q \in SUBSET Routes, o \in Int, p \in Int :
                /\ Passed(g, Q, o, p) = Passed(f, Q, o, p)
                                        + (IF r \in Q /\ o <= now /\ now <= p THEN 1 ELSE 0)
                /\ Passed(f, Q, o, p) \in Int
          BY <1>1, RecordRaised
        <4> QED BY <2>1, <3>1, <4>1
      <3> QED BY <3>2 DEF R
    <2>5. Passed(g, {s}, from, to) <= LimitOf[s]
      BY <2>1, <2>2, <2>3, <2>4
    <2> QED BY <2>5 DEF to
  <1> QED BY <1>2, <1>3

\* A decision in memory.
MemoryDecision(f, r, now, b, exact, recent, ok, new, g) ==
    /\ f \in Records /\ r \in Routes /\ now \in 0..MaxClock /\ b \in [Times -> Nat]
    /\ exact \in BOOLEAN /\ TellsRoute(b, f, r, now, exact) /\ NothingAhead(f, now)
    /\ recent \in [Times -> Nat] /\ recent = Since(b, now - Window)
    /\ ok \in BOOLEAN /\ new \in [Times -> Nat] /\ g \in Records
    /\ CountedOnce(ok, recent, now, new, f, g, r, now)

LEMMA MemoryDecides ==
    ASSUME NEW f, NEW r, NEW now, NEW b, NEW exact, NEW recent, NEW ok, NEW new, NEW g,
           MemoryDecision(f, r, now, b, exact, recent, ok, new, g)
    PROVE  /\ ~ok => LimitOf[r] <= Passed(g, {r}, now - Window, now)
           /\ TellsRoute(new, g, r, now, exact)
           /\ NothingAhead(g, now)
           /\ \A s \in Routes : (s # r \/ exact) /\ WithinLimit(f, s, Window)
                                   => WithinLimit(g, s, Window)
           /\ \A s \in Routes \ {r}, e \in BOOLEAN, table \in [Times -> Nat] :
                  TellsRoute(table, f, s, now, e) => TellsRoute(table, g, s, now, e)
  <1> SUFFICES ASSUME f \in Records, r \in Routes, now \in 0..MaxClock, b \in [Times -> Nat],
                      exact \in BOOLEAN, TellsRoute(b, f, r, now, exact), NothingAhead(f, now),
                      recent \in [Times -> Nat], recent = Since(b, now - Window),
                      ok \in BOOLEAN, new \in [Times -> Nat], g \in Records,
                      CountedOnce(ok, recent, now, new, f, g, r, now)
               PROVE  /\ ~ok => LimitOf[r] <= Passed(g, {r}, now - Window, now)
                      /\ TellsRoute(new, g, r, now, exact)
                      /\ NothingAhead(g, now)
                      /\ \A s \in Routes : (s # r \/ exact) /\ WithinLimit(f, s, Window)
                                              => WithinLimit(g, s, Window)
                      /\ \A s \in Routes \ {r}, e \in BOOLEAN, table \in [Times -> Nat] :
                             TellsRoute(table, f, s, now, e) => TellsRoute(table, g, s, now, e)
    BY Zenon DEF MemoryDecision
  <1>1. /\ now \in Times /\ now \in Int /\ Window \in Nat /\ LimitOf \in [Routes -> Nat \ {0}]
        /\ now - Window \in Int
    BY LimiterConstants
  <1>2. /\ InTotal(recent) = InBucket(b, now - Window) /\ InBucket(b, now - Window) \in Int
        /\ \A t \in Times : recent[t] = IF t >= now - Window THEN b[t] ELSE 0
    <2> DEFINE old == now - Window
    <2>1. old \in Int /\ recent = Since(b, old)
      BY <1>1
    <2> HIDE DEF old
    <2>2. /\ InTotal(Since(b, old)) = InBucket(b, old) /\ InBucket(b, old) \in Int
          /\ \A t \in Times : Since(b, old)[t] = IF t >= old THEN b[t] ELSE 0
      BY <2>1, TotalIs
    <2> QED BY <2>1, <2>2 DEF old
  <1>3. /\ InBucket(b, now - Window) <= Passed(f, {r}, now - Window, now)
        /\ exact => \A from \in Int : from <= now /\ now <= from + Window =>
                       Passed(f, {r}, from, from + Window) <= InBucket(b, now - Window)
    BY MemoryCount
  <1>4. \A t \in Times : t >= now - Window =>
            recent[t] <= f[<<r, t>>] /\ (exact => recent[t] = f[<<r, t>>])
    BY <1>2 DEF TellsRoute
  <1>5. \A R \in SUBSET Routes, from \in Int, to \in Int : Passed(f, R, from, to) \in Int
    BY RecordCounts
  <1>8. /\ ok <=> InTotal(recent) < LimitOf[r]
        /\ ok => new = [recent EXCEPT ![now] = @ + 1] /\ Raised(f, g, r, now)
        /\ ~ok => new = recent /\ g = f
    BY Zenon DEF CountedOnce
  <1>6. ASSUME ~ok
        PROVE  LimitOf[r] <= Passed(f, {r}, now - Window, now) /\ TellsRoute(recent, f, r, now, exact)
    <2>1. TellsRoute(recent, f, r, now, exact)
      BY <1>4 DEF TellsRoute
    <2>2. Passed(f, {r}, now - Window, now) \in Int /\ LimitOf[r] \in Int
      BY <1>1, <1>5, {r} \in SUBSET Routes
    <2>3. LimitOf[r] <= Passed(f, {r}, now - Window, now)
      BY <1>2, <1>3, <1>6, <1>8, <2>2
    <2> QED BY <2>1, <2>3
  <1>7. ASSUME ok
        PROVE  /\ TellsRoute(new, g, r, now, exact)
               /\ NothingAhead(g, now)
               /\ \A s \in Routes : (s # r \/ exact) /\ WithinLimit(f, s, Window)
                                       => WithinLimit(g, s, Window)
               /\ \A s \in Routes \ {r}, e \in BOOLEAN, table \in [Times -> Nat] :
                      TellsRoute(table, f, s, now, e) => TellsRoute(table, g, s, now, e)
    <2>0. InTotal(recent) < LimitOf[r] /\ Raised(f, g, r, now)
      BY <1>7, <1>8
    <2>1. new[now] = recent[now] + 1 /\ \A t \in Times \ {now} : new[t] = recent[t]
      BY <1>1, <1>7, <1>8
    <2>2. /\ g[<<r, now>>] = f[<<r, now>>] + 1
          /\ \A s \in Routes, t \in Times : s # r \/ t # now => g[<<s, t>>] = f[<<s, t>>]
      BY <2>0 DEF Raised
    <2>3. TellsRoute(new, g, r, now, exact)
      <3> SUFFICES ASSUME NEW t \in Times, t >= now - Window
                   PROVE  new[t] <= g[<<r, t>>] /\ (exact => new[t] = g[<<r, t>>])
        BY DEF TellsRoute
      <3>1. recent[t] <= f[<<r, t>>] /\ (exact => recent[t] = f[<<r, t>>])
        BY <1>4
      <3>2. recent[t] \in Nat /\ f[<<r, t>>] \in Nat
        BY DEF Records
      <3>3. CASE t = now
        <4>1. new[t] = recent[t] + 1 /\ g[<<r, t>>] = f[<<r, t>>] + 1
          BY <2>1, <2>2, <3>3
        <4> QED BY <3>1, <3>2, <4>1
      <3>4. CASE t # now
        <4>1. new[t] = recent[t] /\ g[<<r, t>>] = f[<<r, t>>]
          BY <2>1, <2>2, <3>4
        <4> QED BY <3>1, <4>1
      <3> QED BY <3>3, <3>4
    <2>4. /\ NothingAhead(g, now)
          /\ \A s \in Routes, width \in Int :
                (/\ WithinLimit(f, s, width)
                 /\ s = r => \A from \in Int : from <= now /\ now <= from + width =>
                                 Passed(f, {r}, from, from + width) < LimitOf[r])
                => WithinLimit(g, s, width)
      BY <2>0, RecordKeeps
    <2>5. ASSUME NEW s \in Routes, s # r \/ exact, WithinLimit(f, s, Window)
          PROVE  WithinLimit(g, s, Window)
      <3>1. ASSUME s = r, NEW from \in Int, from <= now, now <= from + Window
            PROVE  Passed(f, {r}, from, from + Window) < LimitOf[r]
        <4>1. Passed(f, {r}, from, from + Window) <= InBucket(b, now - Window)
          BY <1>3, <2>5, <3>1
        <4>2. Passed(f, {r}, from, from + Window) \in Int /\ LimitOf[r] \in Int
          BY <1>1, <1>5, {r} \in SUBSET Routes
        <4> QED BY <1>2, <2>0, <4>1, <4>2
      <3>2. s = r => \A from \in Int : from <= now /\ now <= from + Window =>
                        Passed(f, {r}, from, from + Window) < LimitOf[r]
        BY <3>1
      <3>3. Window \in Int
        BY <1>1
      <3> QED BY <2>4, <2>5, <3>2, <3>3
    <2>6. ASSUME NEW s \in Routes \ {r}, NEW e \in BOOLEAN, NEW table \in [Times -> Nat],
                 TellsRoute(table, f, s, now, e)
          PROVE  TellsRoute(table, g, s, now, e)
      BY <2>2, <2>6 DEF TellsRoute
    <2> QED BY <2>3, <2>4, <2>5, <2>6
  <1> QED BY <1>6, <1>7, <1>8

\* A decision in Redis, with the clock of the process that asks.
LEMMA RedisDecides ==
    ASSUME NEW f \in Records, NEW r \in Routes, NEW now \in 0..MaxClock, NEW b \in [Times -> Nat],
           NEW skew \in 0..MaxSkew, TellsClient(b, f, now), NothingAhead(f, now),
           NEW recent \in [Times -> Nat], recent = Since(b, (now + skew) - Window + 1),
           NEW ok \in BOOLEAN, NEW new \in [Times -> Nat], NEW g \in Records,
           CountedOnce(ok, recent, now + skew, new, f, g, r, now)
    PROVE  /\ ~ok => LimitOf[r] <= Passed(g, Routes, now - (Window + MaxSkew), now)
           /\ TellsClient(new, g, now)
           /\ NothingAhead(g, now)
           /\ \A s \in Routes : WithinLimit(f, s, Window - (MaxSkew + 1))
                                   => WithinLimit(g, s, Window - (MaxSkew + 1))
  <1> DEFINE stamp == now + skew
             old == (now + skew) - Window + 1
             width == Window - (MaxSkew + 1)
  <1>1. /\ now \in Times /\ stamp \in Times /\ LimitOf \in [Routes -> Nat \ {0}]
        /\ now \in Int /\ stamp \in Int /\ old \in Int /\ width \in Int /\ Window \in Nat
        /\ MaxSkew \in Nat /\ now <= stamp /\ stamp <= now + MaxSkew /\ old = stamp - Window + 1
    BY LimiterConstants
  <1>2. /\ InTotal(recent) = InBucket(b, old)
        /\ \A x \in Int : /\ x >= old => InBucket(recent, x) = InBucket(b, x)
                          /\ InBucket(recent, x) <= InBucket(b, x)
                          /\ InBucket(b, x) \in Int
    <2>1. recent = Since(b, old) /\ old \in Int
      BY <1>1
    <2> HIDE DEF old
    <2>2. /\ InTotal(Since(b, old)) = InBucket(b, old)
          /\ \A x \in Int : /\ x >= old => InBucket(Since(b, old), x) = InBucket(b, x)
                            /\ InBucket(Since(b, old), x) <= InBucket(b, x)
                            /\ InBucket(b, x) \in Int
      BY <2>1, TotalIs
    <2> QED BY <2>1, <2>2
  <1>3. /\ InBucket(b, old) <= Passed(f, Routes, now - (Window + MaxSkew), now)
        /\ \A from \in Int : now <= from + width => Passed(f, {r}, from, from + width) <= InBucket(b, old)
    BY ClientCount
  <1>4. \A R \in SUBSET Routes, from \in Int, to \in Int : Passed(f, R, from, to) \in Int
    BY RecordCounts
  <1>5. \A x \in Int : OnRecord(f, x) \in Int /\ InBucket(recent, x) \in Int
    BY RecordCounts, TotalIs
  <1> HIDE DEF stamp, old, width
  <1>6. \A x \in Int : /\ x > now + MaxSkew - Window => OnRecord(f, x) <= InBucket(recent, x)
                       /\ x > now - Window => InBucket(recent, x) <= OnRecord(f, x - MaxSkew)
    <2> SUFFICES ASSUME NEW x \in Int
                 PROVE  /\ x > now + MaxSkew - Window => OnRecord(f, x) <= InBucket(recent, x)
                        /\ x > now - Window => InBucket(recent, x) <= OnRecord(f, x - MaxSkew)
      OBVIOUS
    <2>1. /\ x > now + MaxSkew - Window => OnRecord(f, x) <= InBucket(b, x)
          /\ x > now - Window => InBucket(b, x) <= OnRecord(f, x - MaxSkew)
      BY DEF TellsClient
    <2>2. x > now + MaxSkew - Window => x >= old
      BY <1>1
    <2>3. x - MaxSkew \in Int
      BY <1>1
    <2> QED BY <1>2, <1>5, <2>1, <2>2, <2>3
  <1>9. /\ ok <=> InTotal(recent) < LimitOf[r]
        /\ ok => new = [recent EXCEPT ![stamp] = @ + 1] /\ Raised(f, g, r, now)
        /\ ~ok => new = recent /\ g = f
    BY Zenon DEF CountedOnce, stamp
  <1>7. ASSUME ~ok
        PROVE  /\ LimitOf[r] <= Passed(f, Routes, now - (Window + MaxSkew), now)
               /\ TellsClient(recent, f, now)
    <2>1. now - (Window + MaxSkew) \in Int /\ LimitOf[r] \in Int
      BY <1>1
    <2>2. Passed(f, Routes, now - (Window + MaxSkew), now) \in Int /\ InBucket(b, old) \in Int
      BY <1>1, <1>2, <1>4, <2>1
    <2>3. LimitOf[r] <= Passed(f, Routes, now - (Window + MaxSkew), now)
      BY <1>2, <1>3, <1>7, <1>9, <2>1, <2>2
    <2> QED BY <1>6, <2>3 DEF TellsClient
  <1>8. ASSUME ok
        PROVE  /\ TellsClient(new, g, now)
               /\ NothingAhead(g, now)
               /\ \A s \in Routes : WithinLimit(f, s, width) => WithinLimit(g, s, width)
    <2>0. InTotal(recent) < LimitOf[r] /\ Raised(f, g, r, now)
      BY <1>8, <1>9
    <2>1. \A x \in Int : InBucket(new, x) = InBucket(recent, x) + (IF stamp >= x THEN 1 ELSE 0)
      <3>1. \A x \in Int : InBucket([recent EXCEPT ![stamp] = @ + 1], x)
                             = InBucket(recent, x) + (IF stamp >= x THEN 1 ELSE 0)
        BY <1>1, BucketRaised
      <3> QED BY <1>8, <1>9, <3>1, Zenon
    <2>2. \A x \in Int : OnRecord(g, x) = OnRecord(f, x) + (IF now >= x THEN 1 ELSE 0)
      BY <1>1, <2>0, RecordRaised
    <2>3. TellsClient(new, g, now)
      <3> SUFFICES ASSUME NEW x \in Int
                   PROVE  /\ x > now + MaxSkew - Window => OnRecord(g, x) <= InBucket(new, x)
                          /\ x > now - Window => InBucket(new, x) <= OnRecord(g, x - MaxSkew)
        BY DEF TellsClient
      <3>1. /\ x > now + MaxSkew - Window => OnRecord(f, x) <= InBucket(recent, x)
            /\ x > now - Window => InBucket(recent, x) <= OnRecord(f, x - MaxSkew)
        BY <1>6
      <3>2. /\ x - MaxSkew \in Int /\ (now >= x => stamp >= x)
            /\ (stamp >= x => now >= x - MaxSkew)
        BY <1>1
      <3>3. /\ OnRecord(f, x) \in Int /\ OnRecord(f, x - MaxSkew) \in Int /\ InBucket(recent, x) \in Int
            /\ InBucket(new, x) = InBucket(recent, x) + (IF stamp >= x THEN 1 ELSE 0)
            /\ OnRecord(g, x) = OnRecord(f, x) + (IF now >= x THEN 1 ELSE 0)
            /\ OnRecord(g, x - MaxSkew) = OnRecord(f, x - MaxSkew)
                                          + (IF now >= x - MaxSkew THEN 1 ELSE 0)
        BY <1>5, <2>1, <2>2, <3>2
      <3> QED BY <3>1, <3>2, <3>3
    <2>4. /\ NothingAhead(g, now)
          /\ \A s \in Routes, w \in Int :
                (/\ WithinLimit(f, s, w)
                 /\ s = r => \A from \in Int : from <= now /\ now <= from + w =>
                                 Passed(f, {r}, from, from + w) < LimitOf[r])
                => WithinLimit(g, s, w)
      BY <2>0, RecordKeeps
    <2>5. ASSUME NEW s \in Routes, WithinLimit(f, s, width) PROVE WithinLimit(g, s, width)
      <3>1. ASSUME NEW from \in Int, now <= from + width
            PROVE  Passed(f, {r}, from, from + width) < LimitOf[r]
        <4>1. Passed(f, {r}, from, from + width) <= InBucket(b, old)
          BY <1>3, <3>1
        <4>2. from + width \in Int /\ LimitOf[r] \in Int /\ InBucket(b, old) \in Int
          BY <1>1, <1>2
        <4>3. Passed(f, {r}, from, from + width) \in Int
          BY <1>4, <4>2, {r} \in SUBSET Routes
        <4> QED BY <1>2, <2>0, <4>1, <4>2, <4>3
      <3> QED BY <1>1, <2>4, <2>5, <3>1
    <2> QED BY <2>3, <2>4, <2>5
  <1> QED BY <1>7, <1>8, <1>9 DEF stamp, width

\* What a decision does to the state.
Outcome(route, c, table, key, recent, stamp, ok, new, g) ==
    /\ CountedOnce(ok, recent, stamp, new, admitted[c], g, route, clock)
    /\ answer' = [route |-> route, client |-> c, ok |-> ok]
    /\ BucketAt(buckets', key) = new
    /\ \A k : k # key => BucketAt(buckets', k) = BucketAt(table, k)
    /\ DOMAIN buckets' = DOMAIN table \cup {key}
    /\ \A k \in DOMAIN buckets' : buckets'[k] \in [Times -> Nat]
    /\ admitted' \in [Clients -> Records] /\ admitted'[c] = g
    /\ \A d \in Clients \ {c} : admitted'[d] = admitted[d]
LEMMA Decided ==
    ASSUME LimiterShape, NEW route \in Routes, NEW c \in Clients,
           NEW table, \A k \in DOMAIN table : table[k] \in [Times -> Nat],
           NEW key, NEW recent \in [Times -> Nat], NEW stamp \in Times,
           Decide(route, c, table, key, recent, stamp)
    PROVE  \E ok \in BOOLEAN, new \in [Times -> Nat], g \in Records :
             Outcome(route, c, table, key, recent, stamp, ok, new, g)
  <1> DEFINE ok == InTotal(recent) < LimitOf[route]
             more == [recent EXCEPT ![stamp] = @ + 1]
             new == IF ok THEN more ELSE recent
             f == admitted[c]
             here == <<route, clock>>
             raised == [f EXCEPT ![here] = @ + 1]
             g == IF ok THEN raised ELSE f
  <1>1. ok \in BOOLEAN
    OBVIOUS
  <1>2. /\ buckets' = [k \in DOMAIN table \cup {key} |-> IF k = key THEN new ELSE table[k]]
        /\ answer' = [route |-> route, client |-> c, ok |-> ok]
        /\ admitted' = IF ok THEN [admitted EXCEPT ![c][here] = @ + 1] ELSE admitted
    BY Zenon DEF Decide
  <1>3. more \in [Times -> Nat]
    OBVIOUS
  <1>4. new \in [Times -> Nat]
    BY <1>3
  <1>5. f \in [Routes \X Times -> Nat] /\ here \in Routes \X Times /\ admitted \in [Clients -> Records]
    <2>1. admitted \in [Clients -> Records] /\ clock \in 0..MaxClock
      BY DEF LimiterShape
    <2>2. f \in Records
      BY <2>1
    <2>3. clock \in Times
      BY <2>1, LimiterConstants
    <2> QED BY <2>1, <2>2, <2>3 DEF Records
  <1>6. raised \in Records /\ Raised(f, raised, route, clock)
    <2> HIDE DEF f, here
    <2>1. /\ raised \in [Routes \X Times -> Nat] /\ raised[here] = f[here] + 1
          /\ \A y \in (Routes \X Times) \ {here} : raised[y] = f[y]
      BY <1>5
    <2> HIDE DEF raised
    <2> QED BY <2>1 DEF Raised, Records, here
  <1>7. g \in Records
    BY <1>5, <1>6
  <1>8. /\ admitted' \in [Clients -> Records] /\ admitted'[c] = g
        /\ \A d \in Clients \ {c} : admitted'[d] = admitted[d]
    <2>1. CASE ok
      <3>1. admitted' = [admitted EXCEPT ![c] = raised]
        BY <1>2, <2>1
      <3> HIDE DEF raised, ok, f
      <3> QED BY <1>5, <1>6, <2>1, <3>1
    <2>2. CASE ~ok
      BY <1>2, <1>5, <2>2
    <2> QED BY <2>1, <2>2
  <1> HIDE DEF ok, new, g, more, raised
  <1>9. /\ DOMAIN buckets' = DOMAIN table \cup {key} /\ buckets'[key] = new
        /\ \A k \in DOMAIN buckets' : buckets'[k] = IF k = key THEN new ELSE table[k]
    BY <1>2
  <1>10. \A k \in DOMAIN buckets' : buckets'[k] \in [Times -> Nat]
    BY <1>4, <1>9
  <1>11. /\ BucketAt(buckets', key) = new
         /\ \A k : k # key => BucketAt(buckets', k) = BucketAt(table, k)
    BY <1>9 DEF BucketAt
  <1>12. /\ ok <=> InTotal(recent) < LimitOf[route]
         /\ ok => new = [recent EXCEPT ![stamp] = @ + 1] /\ Raised(admitted[c], g, route, clock)
         /\ ~ok => new = recent /\ g = admitted[c]
    BY <1>6, Zenon DEF ok, new, g, more, raised, f
  <1>13. DOMAIN buckets' = DOMAIN table \cup {key}
    BY <1>9
  <1> WITNESS ok \in BOOLEAN, new \in [Times -> Nat], g \in Records
  <1> QED BY <1>2, <1>8, <1>10, <1>11, <1>12, <1>13, Zenon DEF ok, Outcome, CountedOnce

\* Each action keeps the invariant.
LEMMA LimiterTicks == LimiterInv /\ Tick => LimiterInv'
  <1> SUFFICES ASSUME LimiterInv, Tick PROVE LimiterInv'
    OBVIOUS
  <1>1. /\ clock < MaxClock /\ clock' = clock + 1 /\ answer' = NoAnswer
        /\ backend' = backend /\ buckets' = buckets /\ lastCleanup' = lastCleanup
        /\ forgotten' = forgotten
    BY DEF Tick
  <1>2. admitted' = [c \in Clients |-> [x \in Routes \X Times |->
                         IF x[2] + Window + MaxSkew > clock THEN admitted[c][x] ELSE 0]]
    BY Zenon DEF Tick
  <1>3. LimiterShape /\ clock \in 0..MaxClock /\ clock' \in 0..MaxClock /\ clock' \in Int
    BY <1>1, LimiterConstants DEF LimiterInv, LimiterShape
  <1>4. ASSUME NEW c \in Clients
        PROVE  /\ admitted[c] \in Records /\ admitted'[c] \in Records
               /\ NothingAhead(admitted'[c], clock')
               /\ \A r \in Routes, width \in Int :
                     WithinLimit(admitted[c], r, width) => WithinLimit(admitted'[c], r, width)
               /\ \A r \in Routes, exact \in BOOLEAN, b \in [Times -> Nat] :
                     TellsRoute(b, admitted[c], r, clock, exact)
                     => TellsRoute(b, admitted'[c], r, clock', exact)
               /\ \A b \in [Times -> Nat] :
                     TellsClient(b, admitted[c], clock) => TellsClient(b, admitted'[c], clock')
    <2> DEFINE f == admitted[c]
               g == admitted'[c]
    <2>1. f \in Records /\ NothingAhead(f, clock)
      BY DEF LimiterInv, LimiterShape
    <2>2. g = [x \in Routes \X Times |-> IF x[2] + Window + MaxSkew > clock THEN f[x] ELSE 0]
      BY <1>2
    <2> HIDE DEF f, g
    <2>3. /\ g \in Records
          /\ \A y \in Routes \X Times : g[y] = IF y[2] + Window + MaxSkew > clock THEN f[y] ELSE 0
      BY <2>1, <2>2 DEF Records
    <2>4. /\ NothingAhead(g, clock')
          /\ \A r \in Routes, width \in Int : WithinLimit(f, r, width) => WithinLimit(g, r, width)
          /\ \A r \in Routes, exact \in BOOLEAN, b \in [Times -> Nat] :
                TellsRoute(b, f, r, clock, exact) => TellsRoute(b, g, r, clock', exact)
          /\ \A b \in [Times -> Nat] : TellsClient(b, f, clock) => TellsClient(b, g, clock')
      BY <1>1, <1>3, <2>1, <2>3, TickKeeps
    <2> QED BY <2>1, <2>3, <2>4 DEF f, g
  <1>5. \A key : BucketAt(buckets, key) \in [Times -> Nat]
    BY <1>3, LimiterConstants DEF BucketAt, LimiterShape
  <1>6. LimiterShape'
    <2>1. admitted' \in [Clients -> Records]
      BY <1>2, <1>4
    <2> QED BY <1>1, <1>3, <2>1 DEF LimiterShape
  <1>7. AnswerFits'
    BY <1>1 DEF AnswerFits
  <1>8. \A r \in Routes \ forgotten', c \in Clients : WithinLimit(admitted'[c], r, Window - Shorter')
    <2>1. Shorter' = Shorter /\ Window - Shorter \in Int
      BY <1>1, LimiterConstants DEF Shorter
    <2>2. \A r \in Routes \ forgotten', c \in Clients : WithinLimit(admitted[c], r, Window - Shorter)
      BY <1>1 DEF LimiterInv
    <2> QED BY <1>4, <2>1, <2>2
  <1>9. backend' = "memory" => \A r \in Routes, c \in Clients :
            TellsRoute(BucketAt(buckets', <<r, c>>), admitted'[c], r, clock', r \notin forgotten')
    <2> SUFFICES ASSUME backend = "memory", NEW r \in Routes, NEW c \in Clients
                 PROVE  TellsRoute(BucketAt(buckets, <<r, c>>), admitted'[c], r, clock', r \notin forgotten)
      BY <1>1
    <2>1. TellsRoute(BucketAt(buckets, <<r, c>>), admitted[c], r, clock, r \notin forgotten)
      BY DEF LimiterInv
    <2>2. (r \notin forgotten) \in BOOLEAN
      OBVIOUS
    <2> QED BY <1>4, <1>5, <2>1, <2>2, Zenon
  <1>10. backend' = "redis" => \A c \in Clients :
            TellsClient(BucketAt(buckets', <<"window", c>>), admitted'[c], clock')
    <2> SUFFICES ASSUME backend = "redis", NEW c \in Clients
                 PROVE  TellsClient(BucketAt(buckets, <<"window", c>>), admitted'[c], clock')
      BY <1>1
    <2>1. TellsClient(BucketAt(buckets, <<"window", c>>), admitted[c], clock)
      BY DEF LimiterInv
    <2> QED BY <1>4, <1>5, <2>1, Zenon
  <1> QED BY <1>4, <1>6, <1>7, <1>8, <1>9, <1>10 DEF LimiterInv

LEMMA MemoryAllows ==
    ASSUME NEW route \in Routes, NEW c \in Clients, LimiterInv, IsAllowedInMemory(route, c)
    PROVE  LimiterInv'
  <1> DEFINE key == <<route, c>>
             table == [k \in Kept(route) |-> buckets[k]]
             oldest == clock - Window
             recent == Since(BucketAt(table, key), oldest)
             Exact(r) == r \notin forgotten'
  <1>1. LimiterShape /\ clock \in 0..MaxClock /\ clock \in Times /\ oldest \in Int /\ Window \in Nat
    <2>1. LimiterShape /\ clock \in 0..MaxClock
      BY DEF LimiterInv, LimiterShape
    <2> QED BY <2>1, LimiterConstants
  <1>2. /\ backend = "memory" /\ backend' = "memory" /\ clock' = clock
        /\ Decide(route, c, table, key, recent, clock)
    <2>1. backend = "memory" /\ UNCHANGED <<backend, clock>>
      BY DEF IsAllowedInMemory
    <2>2. Key(route, c) = key
      BY <2>1 DEF Key
    <2>3. Decide(route, c, table, Key(route, c), Since(BucketAt(table, Key(route, c)), Cutoff), clock)
      BY DEF IsAllowedInMemory
    <2> QED BY <2>1, <2>2, <2>3 DEF Cutoff
  <1>3. /\ lastCleanup' \in [Routes -> 0..MaxClock]
        /\ forgotten' \subseteq Routes /\ forgotten \subseteq forgotten'
        /\ Crowded(route) => route \in forgotten'
    <2>1. /\ lastCleanup' = [lastCleanup EXCEPT ![route] = IF CleanupDue(route) THEN clock ELSE @]
          /\ forgotten' = IF Crowded(route) THEN forgotten \cup {route} ELSE forgotten
      BY DEF IsAllowedInMemory
    <2>2. lastCleanup \in [Routes -> 0..MaxClock] /\ forgotten \subseteq Routes
      BY <1>1 DEF LimiterShape
    <2> QED BY <1>1, <2>1, <2>2
  <1>4. /\ Kept(route) \subseteq DOMAIN buckets
        /\ \A k \in DOMAIN buckets \ Kept(route) :
              k[1] = route /\ (Crowded(route) \/ ~StillUsed(buckets[k]))
    BY DEF Kept, OwnKeys, Purged
  <1>5. \A k \in DOMAIN buckets : buckets[k] \in [Times -> Nat]
    BY <1>1 DEF LimiterShape
  <1>6. /\ DOMAIN table = Kept(route)
        /\ \A k \in DOMAIN table : table[k] = buckets[k] /\ table[k] \in [Times -> Nat]
    BY <1>4, <1>5
  <1>7. \A r \in Routes, d \in Clients :
            /\ admitted[d] \in Records /\ NothingAhead(admitted[d], clock)
            /\ TellsRoute(BucketAt(buckets, <<r, d>>), admitted[d], r, clock, r \notin forgotten)
            /\ r \notin forgotten => WithinLimit(admitted[d], r, Window)
    <2>1. Window - Shorter = Window
      BY <1>1, <1>2 DEF Shorter
    <2>2. \A d \in Clients : admitted[d] \in Records
      BY <1>1 DEF LimiterShape
    <2> QED BY <1>2, <2>1, <2>2 DEF LimiterInv
  <1> HIDE DEF table
  <1>8. ASSUME NEW r \in Routes, NEW d \in Clients
        PROVE  /\ BucketAt(table, <<r, d>>) \in [Times -> Nat]
               /\ TellsRoute(BucketAt(table, <<r, d>>), admitted[d], r, clock, Exact(r))
    <2> DEFINE k == <<r, d>>
               f == admitted[d]
    <2>1. /\ TellsRoute(BucketAt(buckets, k), f, r, clock, r \notin forgotten)
          /\ Exact(r) => r \notin forgotten
          /\ f \in Records
      BY <1>3, <1>7
    <2>2. \A t \in Times : f[<<r, t>>] \in Nat /\ NoRequests[t] = 0
      BY <2>1, LimiterConstants DEF Records
    <2>3. CASE k \in Kept(route)
      <3>1. BucketAt(table, k) = BucketAt(buckets, k) /\ BucketAt(table, k) \in [Times -> Nat]
        BY <1>4, <1>6, <2>3 DEF BucketAt
      <3>2. TellsRoute(BucketAt(table, k), f, r, clock, Exact(r))
        BY <2>1, <3>1 DEF TellsRoute
      <3> QED BY <3>1, <3>2
    <2>4. CASE k \notin Kept(route)
      <3>1. BucketAt(table, k) = NoRequests /\ NoRequests \in [Times -> Nat]
        BY <1>6, <2>4, LimiterConstants DEF BucketAt
      <3>2. ASSUME NEW t \in Times, t >= clock - Window, Exact(r) PROVE NoRequests[t] = f[<<r, t>>]
        <4>1. BucketAt(buckets, k)[t] = f[<<r, t>>]
          BY <2>1, <3>2 DEF TellsRoute
        <4>2. CASE k \notin DOMAIN buckets
          <5>1. BucketAt(buckets, k) = NoRequests
            BY <4>2 DEF BucketAt
          <5> QED BY <4>1, <5>1
        <4>3. CASE k \in DOMAIN buckets
          <5>1. r = route /\ (Crowded(route) \/ ~StillUsed(buckets[k]))
            BY <1>4, <2>4, <4>3
          <5>2. ~StillUsed(buckets[k])
            BY <1>3, <3>2, <5>1
          <5>3. ~(buckets[k][t] > 0) /\ buckets[k][t] \in Nat
            BY <1>5, <3>2, <4>3, <5>2 DEF StillUsed, Cutoff
          <5>4. buckets[k][t] = 0
            BY <5>3
          <5>5. BucketAt(buckets, k) = buckets[k]
            BY <4>3 DEF BucketAt
          <5> QED BY <2>2, <4>1, <5>4, <5>5
        <4> QED BY <4>2, <4>3
      <3>3. \A t \in Times : t >= clock - Window =>
                NoRequests[t] <= f[<<r, t>>] /\ (Exact(r) => NoRequests[t] = f[<<r, t>>])
        BY <2>2, <3>2
      <3>4. TellsRoute(NoRequests, f, r, clock, Exact(r))
        BY <3>3 DEF TellsRoute
      <3> QED BY <3>1, <3>4
    <2> QED BY <2>3, <2>4
  <1>9. recent \in [Times -> Nat]
    <2>1. BucketAt(table, key) \in [Times -> Nat]
      BY <1>8
    <2> QED BY <1>1, <2>1, TotalIs
  <1> HIDE DEF recent
  <1>10. PICK ok \in BOOLEAN, new \in [Times -> Nat], g \in Records :
             Outcome(route, c, table, key, recent, clock, ok, new, g)
    <2> HIDE DEF key
    <2> QED BY <1>1, <1>2, <1>6, <1>9, Decided
  <1>11. /\ answer' = [route |-> route, client |-> c, ok |-> ok]
         /\ BucketAt(buckets', key) = new
         /\ \A k : k # key => BucketAt(buckets', k) = BucketAt(table, k)
         /\ DOMAIN buckets' = DOMAIN table \cup {key}
         /\ \A k \in DOMAIN buckets' : buckets'[k] \in [Times -> Nat]
         /\ admitted' \in [Clients -> Records] /\ admitted'[c] = g
         /\ \A d \in Clients \ {c} : admitted'[d] = admitted[d]
    BY <1>10 DEF Outcome
  <1>12. LimiterShape'
    <2>1. DOMAIN buckets' \subseteq (Routes \cup {"window"}) \X Clients
      <3>1. DOMAIN buckets \subseteq (Routes \cup {"window"}) \X Clients
        BY <1>1 DEF LimiterShape
      <3>2. key \in (Routes \cup {"window"}) \X Clients
        OBVIOUS
      <3> QED BY <1>4, <1>6, <1>11, <3>1, <3>2
    <2> QED BY <1>1, <1>2, <1>3, <1>11, <2>1 DEF LimiterShape
  <1> DEFINE f == admitted[c]
             b == BucketAt(table, key)
  <1>13. /\ ~ok => LimitOf[route] <= Passed(g, {route}, clock - Window, clock)
         /\ TellsRoute(new, g, route, clock, Exact(route)) /\ NothingAhead(g, clock)
         /\ \A s \in Routes : (s # route \/ Exact(route)) /\ WithinLimit(f, s, Window)
                                 => WithinLimit(g, s, Window)
         /\ \A s \in Routes \ {route}, e \in BOOLEAN, any \in [Times -> Nat] :
                TellsRoute(any, f, s, clock, e) => TellsRoute(any, g, s, clock, e)
    <2>1. /\ f \in Records /\ b \in [Times -> Nat] /\ NothingAhead(f, clock)
          /\ TellsRoute(b, f, route, clock, Exact(route)) /\ Exact(route) \in BOOLEAN
          /\ recent = Since(b, clock - Window)
      BY <1>7, <1>8 DEF recent
    <2>2. CountedOnce(ok, recent, clock, new, f, g, route, clock)
      BY <1>10 DEF Outcome
    <2> HIDE DEF f, b, Exact
    <2>3. PICK exact \in BOOLEAN : exact = Exact(route)
      BY <2>1, Zenon
    <2>4. TellsRoute(b, f, route, clock, exact)
      BY <2>1, <2>3, Zenon
    <2>5. MemoryDecision(f, route, clock, b, exact, recent, ok, new, g)
      BY <1>1, <1>9, <2>1, <2>2, <2>4 DEF MemoryDecision
    <2>6. /\ ~ok => LimitOf[route] <= Passed(g, {route}, clock - Window, clock)
          /\ TellsRoute(new, g, route, clock, exact) /\ NothingAhead(g, clock)
          /\ \A s \in Routes : (s # route \/ exact) /\ WithinLimit(f, s, Window)
                                  => WithinLimit(g, s, Window)
          /\ \A s \in Routes \ {route}, e \in BOOLEAN, any \in [Times -> Nat] :
                 TellsRoute(any, f, s, clock, e) => TellsRoute(any, g, s, clock, e)
      BY <2>5, MemoryDecides, Zenon
    <2> QED BY <2>3, <2>6, Zenon
  <1> HIDE DEF f
  <1>14. ASSUME NEW d \in Clients
         PROVE  /\ NothingAhead(admitted'[d], clock)
                /\ \A r \in Routes :
                     /\ Exact(r) => WithinLimit(admitted'[d], r, Window)
                     /\ TellsRoute(BucketAt(buckets', <<r, d>>), admitted'[d], r, clock, Exact(r))
    <2>1. CASE d = c
      <3>1. NothingAhead(admitted'[d], clock)
        BY <1>11, <1>13, <2>1
      <3>2. ASSUME NEW r \in Routes, Exact(r) PROVE WithinLimit(admitted'[d], r, Window)
        <4>1. WithinLimit(f, r, Window)
          BY <1>3, <1>7, <3>2 DEF f
        <4> QED BY <1>11, <1>13, <2>1, <3>2, <4>1
      <3>3. ASSUME NEW r \in Routes
            PROVE  TellsRoute(BucketAt(buckets', <<r, d>>), admitted'[d], r, clock, Exact(r))
        <4>1. CASE r = route
          BY <1>11, <1>13, <2>1, <4>1
        <4>2. CASE r # route
          <5>1. BucketAt(buckets', <<r, d>>) = BucketAt(table, <<r, d>>)
            BY <1>11, <2>1, <4>2
          <5>2. TellsRoute(BucketAt(table, <<r, d>>), f, r, clock, Exact(r))
                /\ BucketAt(table, <<r, d>>) \in [Times -> Nat] /\ Exact(r) \in BOOLEAN
            BY <1>8, <2>1 DEF f
          <5> QED BY <1>11, <1>13, <2>1, <4>2, <5>1, <5>2
        <4> QED BY <4>1, <4>2
      <3> QED BY <3>1, <3>2, <3>3
    <2>2. CASE d # c
      <3>1. admitted'[d] = admitted[d] /\ \A r \in Routes :
                BucketAt(buckets', <<r, d>>) = BucketAt(table, <<r, d>>)
        BY <1>11, <2>2
      <3> QED BY <1>3, <1>7, <1>8, <3>1
    <2> QED BY <2>1, <2>2
  <1>15. AnswerFits'
    BY <1>2, <1>11, <1>13 DEF AnswerFits
  <1>16. Shorter' = 0 /\ Window - 0 = Window
    BY <1>1, <1>2 DEF Shorter
  <1> QED BY <1>2, <1>12, <1>14, <1>15, <1>16 DEF LimiterInv

LEMMA RedisAllows ==
    ASSUME NEW route \in Routes, NEW c \in Clients, NEW skew \in 0..MaxSkew, LimiterInv,
           IsAllowedInRedis(route, c, skew)
    PROVE  LimiterInv'
  <1> DEFINE key == <<"window", c>>
             stored == IF KeyExpired(c) THEN NoRequests ELSE BucketAt(buckets, key)
             stamp == clock + skew
             recent == Since(stored, (clock + skew) - Window + 1)
             f == admitted[c]
             width == Window - (MaxSkew + 1)
  <1>1. /\ LimiterShape /\ clock \in 0..MaxClock /\ clock \in Times /\ stamp \in Times
        /\ (clock + skew) - Window + 1 \in Int /\ width \in Int /\ f \in Records
        /\ \A d \in Clients : admitted[d] \in Records /\ NothingAhead(admitted[d], clock)
    <2>1. /\ LimiterShape /\ clock \in 0..MaxClock
          /\ \A d \in Clients : admitted[d] \in Records /\ NothingAhead(admitted[d], clock)
      BY DEF LimiterInv, LimiterShape
    <2> QED BY <2>1, LimiterConstants
  <1>2. /\ backend = "redis" /\ backend' = "redis" /\ clock' = clock
        /\ lastCleanup' = lastCleanup /\ forgotten' = forgotten
        /\ Decide(route, c, buckets, key, recent, stamp)
    <2>1. /\ backend = "redis" /\ UNCHANGED <<backend, clock, lastCleanup, forgotten>>
      BY DEF IsAllowedInRedis
    <2>2. Key(route, c) = key
      BY <2>1 DEF Key
    <2> DEFINE k == Key(route, c)
               now == clock + skew
               kept == IF KeyExpired(c) THEN NoRequests ELSE BucketAt(buckets, k)
    <2>3. Decide(route, c, buckets, k, Since(kept, now - Window + 1), now)
      BY DEF IsAllowedInRedis
    <2>4. k = key
      BY <2>2
    <2>5. kept = stored
      <3> HIDE DEF k, key
      <3> QED BY <2>4
    <2> HIDE DEF k, now, kept, stored, key
    <2>6. Decide(route, c, buckets, key, Since(stored, now - Window + 1), now)
      BY <2>3, <2>4, <2>5
    <2>7. Decide(route, c, buckets, key, Since(stored, (clock + skew) - Window + 1), clock + skew)
      BY <2>6 DEF now
    <2> QED BY <2>1, <2>7
  <1>3. \A k \in DOMAIN buckets : buckets[k] \in [Times -> Nat]
    BY <1>1 DEF LimiterShape
  <1>4. /\ \A d \in Clients : TellsClient(BucketAt(buckets, <<"window", d>>), admitted[d], clock)
        /\ \A d \in Clients, r \in Routes \ forgotten : WithinLimit(admitted[d], r, width)
    BY <1>2 DEF LimiterInv, Shorter
  <1>5. stored \in [Times -> Nat] /\ TellsClient(stored, f, clock)
    <2>1. CASE KeyExpired(c)
      <3>1. TellsClient(NoRequests, f, clock)
        <4>1. \A x \in Routes \X Times : f[x] > 0 => x[2] + Window <= clock
          BY <2>1 DEF KeyExpired
        <4> HIDE DEF f
        <4> QED BY <1>1, <4>1, ExpiredTells
      <3> QED BY <2>1, <3>1, LimiterConstants
    <2>2. CASE ~KeyExpired(c)
      <3>1. BucketAt(buckets, key) \in [Times -> Nat]
        BY <1>3, LimiterConstants DEF BucketAt
      <3> QED BY <1>4, <2>2, <3>1
    <2> QED BY <2>1, <2>2
  <1> HIDE DEF stored
  <1>6. recent \in [Times -> Nat]
    BY <1>1, <1>5, TotalIs
  <1> HIDE DEF recent, stamp
  <1>7. PICK ok \in BOOLEAN, new \in [Times -> Nat], g \in Records :
             Outcome(route, c, buckets, key, recent, stamp, ok, new, g)
    <2> HIDE DEF key
    <2> QED BY <1>1, <1>2, <1>3, <1>6, Decided
  <1>8. /\ answer' = [route |-> route, client |-> c, ok |-> ok]
        /\ BucketAt(buckets', key) = new
        /\ \A k : k # key => BucketAt(buckets', k) = BucketAt(buckets, k)
        /\ DOMAIN buckets' = DOMAIN buckets \cup {key}
        /\ \A k \in DOMAIN buckets' : buckets'[k] \in [Times -> Nat]
        /\ admitted' \in [Clients -> Records] /\ admitted'[c] = g
        /\ \A d \in Clients \ {c} : admitted'[d] = admitted[d]
    BY <1>7 DEF Outcome
  <1>9. LimiterShape'
    <2>1. DOMAIN buckets' \subseteq (Routes \cup {"window"}) \X Clients
      <3>1. DOMAIN buckets \subseteq (Routes \cup {"window"}) \X Clients
        BY <1>1 DEF LimiterShape
      <3>2. key \in (Routes \cup {"window"}) \X Clients
        OBVIOUS
      <3> QED BY <1>8, <3>1, <3>2
    <2> QED BY <1>1, <1>2, <1>8, <2>1 DEF LimiterShape
  <1>10. /\ ~ok => LimitOf[route] <= Passed(g, Routes, clock - (Window + MaxSkew), clock)
         /\ TellsClient(new, g, clock) /\ NothingAhead(g, clock)
         /\ \A s \in Routes : WithinLimit(f, s, width) => WithinLimit(g, s, width)
    <2>1. CountedOnce(ok, recent, clock + skew, new, f, g, route, clock)
      BY <1>7 DEF Outcome, stamp
    <2>2. recent = Since(stored, (clock + skew) - Window + 1) /\ NothingAhead(f, clock)
      BY <1>1 DEF recent
    <2> HIDE DEF f
    <2> QED BY <1>1, <1>5, <1>6, <2>1, <2>2, RedisDecides
  <1> HIDE DEF width
  <1>11. ASSUME NEW d \in Clients
         PROVE  /\ NothingAhead(admitted'[d], clock)
                /\ \A r \in Routes \ forgotten : WithinLimit(admitted'[d], r, width)
                /\ TellsClient(BucketAt(buckets', <<"window", d>>), admitted'[d], clock)
    <2>1. CASE d = c
      BY <1>4, <1>8, <1>10, <2>1
    <2>2. CASE d # c
      <3>1. admitted'[d] = admitted[d]
            /\ BucketAt(buckets', <<"window", d>>) = BucketAt(buckets, <<"window", d>>)
        BY <1>8, <2>2
      <3> QED BY <1>1, <1>4, <3>1
    <2> QED BY <2>1, <2>2
  <1>12. AnswerFits'
    BY <1>2, <1>8, <1>10 DEF AnswerFits
  <1>13. Window - Shorter' = width
    BY <1>2 DEF Shorter, width
  <1> QED BY <1>2, <1>9, <1>11, <1>12, <1>13 DEF LimiterInv

\* The first states.
LEMMA LimiterStarts == LimiterInit => LimiterInv
  <1> SUFFICES ASSUME LimiterInit PROVE LimiterInv
    OBVIOUS
  <1>1. /\ backend \in {"memory", "redis"} /\ clock = 0 /\ buckets = [key \in {} |-> NoRequests]
        /\ lastCleanup = [r \in Routes |-> 0] /\ answer = NoAnswer /\ forgotten = {}
        /\ admitted = [c \in Clients |-> [x \in Routes \X Times |-> 0]]
    BY DEF LimiterInit
  <1>2. ASSUME NEW c \in Clients
        PROVE  admitted[c] \in Records /\ \A x \in Routes \X Times : admitted[c][x] = 0
    BY <1>1 DEF Records
  <1>3. LimiterShape
    <2>1. admitted \in [Clients -> Records]
      BY <1>1, <1>2
    <2>2. DOMAIN buckets = {}
      BY <1>1
    <2>3. 0 \in 0..MaxClock
      BY LimiterConstants
    <2>4. lastCleanup \in [Routes -> 0..MaxClock] /\ clock \in 0..MaxClock /\ forgotten \subseteq Routes
      BY <1>1, <2>3
    <2> QED BY <1>1, <2>1, <2>2, <2>4 DEF LimiterShape
  <1>4. ASSUME NEW c \in Clients, NEW r \in Routes, NEW width \in Int
        PROVE  WithinLimit(admitted[c], r, width)
    <2> SUFFICES ASSUME NEW from \in Int PROVE Passed(admitted[c], {r}, from, from + width) <= LimitOf[r]
      BY DEF WithinLimit
    <2> DEFINE A == {r} \X Span(from, from + width)
    <2>1. IsFiniteSet(A) /\ A \subseteq Routes \X Times
      BY FinitePairs, {r} \in SUBSET Routes
    <2> HIDE DEF A
    <2>2. Sum(admitted[c], A) = 0
      <3>1. \A y \in A : admitted[c][y] = 0
        BY <1>2, <2>1
      <3> QED BY <2>1, <3>1, SumZero
    <2>3. LimitOf[r] \in Nat
      BY LimiterConstants
    <2> QED BY <2>2, <2>3 DEF Passed, A
  <1>5. \A key : BucketAt(buckets, key) = NoRequests
    BY <1>1 DEF BucketAt
  <1>6. \A c \in Clients : NothingAhead(admitted[c], clock)
    BY <1>2 DEF NothingAhead
  <1>7. \A r \in Routes, c \in Clients :
            TellsRoute(BucketAt(buckets, <<r, c>>), admitted[c], r, clock, r \notin forgotten)
    <2> SUFFICES ASSUME NEW r \in Routes, NEW c \in Clients, NEW t \in Times
                 PROVE  NoRequests[t] = admitted[c][<<r, t>>] /\ NoRequests[t] = 0
      BY <1>5 DEF TellsRoute
    <2> QED BY <1>2, LimiterConstants
  <1>8. \A c \in Clients : TellsClient(BucketAt(buckets, <<"window", c>>), admitted[c], clock)
    <2> SUFFICES ASSUME NEW c \in Clients PROVE TellsClient(NoRequests, admitted[c], clock)
      BY <1>5
    <2>1. admitted[c] \in Records /\ \A x \in Routes \X Times : ~(admitted[c][x] > 0)
      BY <1>2
    <2>2. clock \in 0..MaxClock
      BY <1>1, LimiterConstants
    <2> QED BY <2>1, <2>2, ExpiredTells
  <1>9. AnswerFits
    BY <1>1 DEF AnswerFits
  <1>10. Window - Shorter \in Int
    BY LimiterConstants DEF Shorter
  <1> QED BY <1>3, <1>4, <1>6, <1>7, <1>8, <1>9, <1>10 DEF LimiterInv

LEMMA LimiterStep == LimiterInv /\ [LimiterNext]_lvars => LimiterInv'
  <1> SUFFICES ASSUME LimiterInv, [LimiterNext]_lvars PROVE LimiterInv'
    OBVIOUS
  <1>1. CASE Tick
    BY <1>1, LimiterTicks
  <1>2. ASSUME NEW route \in Routes, NEW c \in Clients, IsAllowedInMemory(route, c)
        PROVE  LimiterInv'
    BY <1>2, MemoryAllows
  <1>3. ASSUME NEW route \in Routes, NEW c \in Clients, NEW skew \in 0..MaxSkew,
               IsAllowedInRedis(route, c, skew)
        PROVE  LimiterInv'
    BY <1>3, RedisAllows
  <1>4. CASE UNCHANGED lvars
    <2>1. /\ backend' = backend /\ clock' = clock /\ buckets' = buckets /\ answer' = answer
          /\ lastCleanup' = lastCleanup /\ admitted' = admitted /\ forgotten' = forgotten
      BY <1>4 DEF lvars
    <2>2. LimiterShape' = LimiterShape
      BY <2>1 DEF LimiterShape
    <2>3. AnswerFits' = AnswerFits
      BY <2>1 DEF AnswerFits
    <2>4. Shorter' = Shorter
      BY <2>1 DEF Shorter
    <2> QED BY <2>1, <2>2, <2>3, <2>4 DEF LimiterInv
  <1> QED BY <1>1, <1>2, <1>3, <1>4 DEF LimiterNext

\* The limiter invariant holds, and with it the types.
LEMMA LimiterHolds == LimiterSpec => []LimiterInv
  <1> QED BY LimiterStarts, LimiterStep, PTL DEF LimiterSpec

LEMMA LimiterTypes == LimiterInv => LimiterTypeOK
  <1> SUFFICES ASSUME LimiterInv PROVE LimiterTypeOK
    OBVIOUS
  <1>1. LimiterShape /\ AnswerFits
    BY DEF LimiterInv
  <1>2. answer \in [route : Routes \cup {"none"}, client : Clients \cup {"none"}, ok : BOOLEAN]
    <2>1. CASE answer = NoAnswer
      BY <2>1 DEF NoAnswer
    <2>2. CASE answer \in [route : Routes, client : Clients, ok : BOOLEAN]
      BY <2>2
    <2> QED BY <1>1, <2>1, <2>2 DEF AnswerFits
  <1> QED BY <1>1, <1>2 DEF LimiterShape, LimiterTypeOK, Records

\* The windows of a client hold no more than the limit, and whoever is turned
\* away had used the limit up: for every number of clients and kinds of route,
\* every limit, window and skew, in memory and in Redis, however the requests
\* are spread (middleware.py:43, 107, 111).
THEOREM WindowsHold == LimiterSpec => []WindowLimits
  <1>1. ASSUME NEW R \in SUBSET Routes, NEW c \in Clients, NEW from, NEW to
        PROVE  LetThrough(R, c, from, to) = Passed(admitted[c], R, from, to)
    BY DEF LetThrough, Passed, Sum, Span
  <1>2. LimiterInv => WindowLimits
    <2> SUFFICES ASSUME LimiterInv PROVE WindowLimits
      OBVIOUS
    <2>1. LimiterShape /\ AnswerFits /\ clock \in Nat
      BY LimiterConstants DEF LimiterInv, LimiterShape
    <2>2. ASSUME NEW r \in Routes \ forgotten, NEW c \in Clients, NEW from \in 0..clock
          PROVE  LetThrough({r}, c, from, from + Window - Shorter) <= LimitOf[r]
      <3>1. Window \in Int /\ Shorter \in Int /\ from \in Int
        BY <2>1, LimiterConstants DEF Shorter
      <3>2. from + Window - Shorter = from + (Window - Shorter)
        BY <3>1
      <3>3. Passed(admitted[c], {r}, from, from + (Window - Shorter)) <= LimitOf[r]
        BY <3>1 DEF LimiterInv, WithinLimit
      <3>4. {r} \in SUBSET Routes
        OBVIOUS
      <3>5. LetThrough({r}, c, from, from + Window - Shorter)
              = Passed(admitted[c], {r}, from, from + Window - Shorter)
        BY <1>1, <3>4, Zenon
      <3> QED BY <3>2, <3>3, <3>5
    <2>3. ASSUME ~answer.ok
          PROVE  LET R == IF backend = "redis" THEN Routes ELSE {answer.route}
                     back == Window + IF backend = "redis" THEN MaxSkew ELSE 0
                 IN LetThrough(R, answer.client, clock - back, clock) >= LimitOf[answer.route]
      <3>1. /\ answer.route \in Routes /\ answer.client \in Clients
            /\ LimitOf[answer.route] <=
                  IF backend = "redis"
                      THEN Passed(admitted[answer.client], Routes, clock - (Window + MaxSkew), clock)
                      ELSE Passed(admitted[answer.client], {answer.route}, clock - Window, clock)
        <4>1. answer # NoAnswer
          BY <2>3 DEF NoAnswer
        <4> QED BY <2>1, <2>3, <4>1 DEF AnswerFits
      <3>2. CASE backend = "redis"
        <4>1. LetThrough(Routes, answer.client, clock - (Window + MaxSkew), clock)
                = Passed(admitted[answer.client], Routes, clock - (Window + MaxSkew), clock)
          BY <1>1, <3>1, Routes \in SUBSET Routes, Zenon
        <4>2. LetThrough(Routes, answer.client, clock - (Window + MaxSkew), clock)
                >= LimitOf[answer.route]
          BY <3>1, <3>2, <4>1
        <4> QED BY <3>2, <4>2
      <3>3. CASE backend # "redis"
        <4>1. LetThrough({answer.route}, answer.client, clock - Window, clock)
                = Passed(admitted[answer.client], {answer.route}, clock - Window, clock)
          <5>1. {answer.route} \in SUBSET Routes
            BY <3>1
          <5> QED BY <1>1, <3>1, <5>1, Zenon
        <4>2. LetThrough({answer.route}, answer.client, clock - Window, clock) >= LimitOf[answer.route]
          BY <3>1, <3>3, <4>1
        <4>3. clock - (Window + 0) = clock - Window
          BY <2>1, LimiterConstants
        <4> QED BY <3>3, <4>2, <4>3
      <3> QED BY <3>2, <3>3
    <2> QED BY <2>2, <2>3 DEF WindowLimits
  <1> QED BY <1>2, LimiterHolds, PTL

------------------------------------------------------------------------------
(* The services side by side *)

\* What the six services do in one run is what each does alone: a step of one
\* of them leaves the state of the other five as it is, and the bounds of the
\* run only take steps away (MCServices).
THEOREM EachServiceRuns ==
    MCServicesSpec => /\ DispatchSpec /\ LeadPoolSpec /\ LeadMarksSpec
                      /\ VariantsSpec /\ PlanSpec /\ LimiterSpec
  <1>1. MCInit => /\ DispatchInit /\ LeadPoolInit /\ LeadMarksInit
                  /\ VariantsInit /\ PlanInit /\ LimiterInit
    BY Zenon DEF MCInit
  <1>2. [MCNext]_vars => /\ [DispatchNext]_dvars /\ [LeadPoolNext]_poolVars
                         /\ [LeadMarksNext]_mvars /\ [VariantsNext]_vvars
                         /\ [PlanNext]_pvars /\ [LimiterNext]_lvars
    <2> SUFFICES ASSUME [MCNext]_vars
                 PROVE  /\ [DispatchNext]_dvars /\ [LeadPoolNext]_poolVars
                        /\ [LeadMarksNext]_mvars /\ [VariantsNext]_vvars
                        /\ [PlanNext]_pvars /\ [LimiterNext]_lvars
      OBVIOUS
    <2>1. CASE MCDispatchNext /\ UNCHANGED <<focus, poolVars, mvars, vvars, pvars, lvars>>
      BY <2>1 DEF MCDispatchNext
    <2>2. CASE MCPoolNext /\ UNCHANGED <<focus, dvars, mvars, vvars, pvars, lvars>>
      BY <2>2 DEF MCPoolNext
    <2>3. CASE LeadMarksNext /\ UNCHANGED <<focus, dvars, poolVars, vvars, pvars, lvars>>
      BY <2>3
    <2>4. CASE VariantsNext /\ UNCHANGED <<focus, dvars, poolVars, mvars, pvars, lvars>>
      BY <2>4
    <2>5. CASE PlanNext /\ UNCHANGED <<focus, dvars, poolVars, mvars, vvars, lvars>>
      BY <2>5
    <2>6. CASE MCLimiterNext /\ UNCHANGED <<focus, dvars, poolVars, mvars, vvars, pvars>>
      BY <2>6 DEF MCLimiterNext
    <2>7. CASE UNCHANGED vars
      BY <2>7 DEF vars
    <2> QED BY <2>1, <2>2, <2>3, <2>4, <2>5, <2>6, <2>7 DEF MCNext
  <1> QED BY <1>1, <1>2, PTL DEF MCServicesSpec, DispatchSpec, LeadPoolSpec, LeadMarksSpec,
             VariantsSpec, PlanSpec, LimiterSpec

\* Every service stays type correct while the others run.
THEOREM ServicesTypes == MCServicesSpec => []ServicesTypeOK
  <1> QED BY EachServiceRuns, DispatchTypes, PoolTypes, MarkTypes, VariantTypes, PlanTypes,
             LimiterHolds, LimiterTypes, PTL DEF ServicesTypeOK

\* So does what is proved of each of them: no step of another service breaks it,
\* and the invariants the run checks hold of it for every size of the six.
THEOREM ServicesSafe ==
    MCServicesSpec => [](/\ JobTellsItsMessages /\ ReleasedMeansNoClaim /\ SessionsAlone
                         /\ ReservedAccountedFor /\ FunnelAddsUp
                         /\ PlanErrsByOthersLeads /\ ExportComplete
                         /\ MarksTellOneStory /\ MessagesInOneRow
                         /\ PlanReportHonest /\ WindowLimits)
  <1> QED BY EachServiceRuns, JobsTell, ReleasedHolds, PhonesNotShared, FiguresHold, PartsAddUp,
             PlanCautious, ExportWhole, MarksAgree, OneRowEach, ReportHonest, WindowsHold, PTL
==============================================================================
