----------------------------- MODULE DeviceProofs -----------------------------
(***************************************************************************)
(* What is proved of DeviceSessions for every number of phones, sessions   *)
(* and requests: the type invariant, that a phone marked running has a     *)
(* session to give it back, and, for sessions that follow one another, that*)
(* nothing is sent from a phone that is barred.                            *)
(***************************************************************************)
EXTENDS DeviceSessions, TLAPS

\* A request that has been read names a phone and the status it saw, and a
\* cleanup has a status to hand over: that of a session that did not crash,
\* turned into one that is not "running".
RequestFits(r) ==
    request[r].op # "none" =>
        request[r].device \in Devices /\ request[r].seen \in RuntimeStatuses
CleanupFits(s) ==
    /\ pc[s] = "cleanup" => summary[s] # "crashed"
    /\ pc[s] = "closing" => final[s] # "running"

SessionInv == /\ TypeOK
              /\ \A r \in Requests : RequestFits(r)
              /\ \A s \in Sessions : CleanupFits(s)
              /\ RunningHasSession

\* While sessions follow one another, whatever bars a phone still shows in its
\* row, a session that is about to send found nothing of the kind, and one that
\* cleans up is going to write what its own failure called for; unless the
\* quarantine of that phone was lost.
Alone == \A s, t \in Sessions :
             OnPhone(s) /\ OnPhone(t) /\ DeviceOf[s] = DeviceOf[t] => s = t
Shows(d) ==
    /\ "isolated" \in barred[d] => runtime_status[d] = "isolated"
    /\ "cooldown" \in barred[d] => cooldown_until[d] = "ahead"
BarShows(d) == Shows(d) \/ "quarantine" \in lost[d]
Fits(s) ==
    /\ pc[s] \in {"selected", "gated", "working"} => barred[DeviceOf[s]] = {}
    /\ pc[s] = "cleanup" => barred[DeviceOf[s]] \subseteq {summary[s]}
    /\ pc[s] = "closing" => barred[DeviceOf[s]] \subseteq {final[s]}
BarFits(s) == Fits(s) \/ "quarantine" \in lost[DeviceOf[s]]

BarInv == /\ Alone
          /\ \A d \in Devices : BarShows(d)
          /\ \A s \in Sessions : BarFits(s)
------------------------------------------------------------------------------
\* The status a request leaves is one the row can have, and never "running"
\* unless it saw that one.
LEMMA AnsweredStatus ==
    ASSUME NEW op \in {"heartbeat", "health", "prepare-keyboard", "scan"},
           NEW seen \in RuntimeStatuses, NEW ok \in BOOLEAN, NEW limited
    PROVE  /\ Answered(op, seen, ok, limited) \in RuntimeStatuses
           /\ Answered(op, seen, ok, limited) # seen =>
                 Answered(op, seen, ok, limited) # "running"
  BY DEF Answered, RuntimeStatuses, Quarantined

\* A cleanup never leaves a phone marked running.
LEMMA FinalStatus ==
    ASSUME NEW current \in RuntimeStatuses,
           NEW status \in RuntimeStatuses \cup {"cancelled"}
    PROVE  /\ Final(current, HandedOver(status)) \in RuntimeStatuses \ {"running"}
           /\ status \in {"isolated", "cooldown"} =>
                 Final(current, HandedOver(status)) = status
           /\ current = "isolated" /\ status \in {"running", "cancelled"} =>
                 Final(current, HandedOver(status)) = "isolated"
  BY DEF Final, HandedOver, RuntimeStatuses, Quarantined

LEMMA CountsFailures == ASSUME NEW n \in 0..MaxFailures PROVE OneMore(n) \in 0..MaxFailures
  BY DeviceAssumption DEF OneMore

\* A failed send either leaves the phone alone, or bars it for one of two
\* reasons, shows that in its row or loses that write, and ends the loop.
Bars(s, reason) ==
    LET d == DeviceOf[s] IN
    /\ MarkFailure(d, reason, reason = "cooldown")
    /\ EndLoop(s, reason)
    /\ barred' = [barred EXCEPT ![d] = @ \cup {reason}]
LEMMA FailureCases ==
    ASSUME NEW s \in Sessions, NEW error, SendFails(s, error)
    PROVE  /\ pc[s] = "working"
           /\ failed' = [failed EXCEPT ![s] = OneMore(@)]
           /\ UNCHANGED <<rate_window, final, request>>
           /\ \/ UNCHANGED <<runtime_status, failures, cooldown_until, pc, summary, barred, lost>>
              \/ \E reason \in {"isolated", "cooldown"} : Bars(s, reason)
  BY DEF SendFails, EndLoop, Bars, rowVars

\* mark_failure writes the status and counts the failure, or is lost whole.
LEMMA MarkOutcome ==
    ASSUME TypeOK, NEW d \in Devices, NEW status \in RuntimeStatuses, NEW cooldown \in BOOLEAN,
           MarkFailure(d, status, cooldown)
    PROVE  /\ runtime_status' \in [Devices -> RuntimeStatuses]
           /\ failures' \in [Devices -> 0..MaxFailures]
           /\ cooldown_until' \in [Devices -> {"none", "ahead", "past"}]
           /\ lost' \in [Devices -> SUBSET {"quarantine", "cleanup"}]
           /\ \A e \in Devices :
                /\ runtime_status'[e] \in {runtime_status[e], status}
                /\ cooldown_until'[e] \in {cooldown_until[e], "ahead"}
                /\ "cleanup" \in lost[e] <=> "cleanup" \in lost'[e]
                /\ "quarantine" \in lost[e] => "quarantine" \in lost'[e]
                /\ e # d => runtime_status'[e] = runtime_status[e]
           /\ \/ "quarantine" \in lost'[d]
              \/ /\ runtime_status'[d] = status
                 /\ cooldown => cooldown_until'[d] = "ahead"
  <1> USE DeviceAssumption DEF TypeOK
  <1>1. CASE Loses(d, "quarantine")
    BY <1>1 DEF Loses, Swallowed, rowVars
  <1>2. CASE ~Loses(d, "quarantine")
    BY <1>2, CountsFailures DEF MarkFailure
  <1> QED BY <1>1, <1>2

\* The type invariant, action by action.
LEMMA TypeStep ==
    ASSUME TypeOK, \A r \in Requests : RequestFits(r), \A s \in Sessions : CleanupFits(s),
           [Next]_vars
    PROVE  TypeOK'
  <1> USE DeviceAssumption DEF TypeOK
  <1>1. ASSUME NEW s \in Sessions, Select(s) PROVE TypeOK'
    BY <1>1 DEF Select, rowVars
  <1>2. ASSUME NEW s \in Sessions, PassCooldownGate(s) PROVE TypeOK'
    <2>1. CASE UNCHANGED rowVars
      BY <1>2, <2>1 DEF PassCooldownGate, rowVars
    <2>2. CASE ~UNCHANGED rowVars
      BY <1>2, <2>2 DEF PassCooldownGate, Swallowed, RuntimeStatuses
    <2> QED BY <2>1, <2>2
  <1>3. ASSUME NEW s \in Sessions, ProbeHealth(s) PROVE TypeOK'
    <2>1. CASE WritesFail /\ UNCHANGED rowVars
      BY <1>3, <2>1 DEF ProbeHealth, rowVars
    <2>2. CASE ~(WritesFail /\ UNCHANGED rowVars)
      <3>1. {"offline", "running"} \subseteq RuntimeStatuses
        BY DEF RuntimeStatuses, Quarantined
      <3>2. OneMore(failures[DeviceOf[s]]) \in 0..MaxFailures
        BY CountsFailures
      <3> QED BY <1>3, <2>2, <3>1, <3>2 DEF ProbeHealth, Swallowed
    <2> QED BY <2>1, <2>2
  <1>4. ASSUME NEW s \in Sessions, StopLoop(s) PROVE TypeOK'
    BY <1>4 DEF StopLoop, EndLoop, rowVars, RuntimeStatuses, Quarantined
  <1>5. ASSUME NEW s \in Sessions, SendSucceeds(s) PROVE TypeOK'
    BY <1>5 DEF SendSucceeds, rowVars, sessionVars
  <1>6. ASSUME NEW s \in Sessions, AgentInitFails(s) PROVE TypeOK'
    <2>1. "keyboard_error" \in RuntimeStatuses
      BY DEF RuntimeStatuses, Quarantined
    <2>2. MarkFailure(DeviceOf[s], "keyboard_error", FALSE)
      BY <1>6 DEF AgentInitFails
    <2>3. failed' \in [Sessions -> 0..MaxFailures]
      BY <1>6, CountsFailures DEF AgentInitFails
    <2> QED BY <1>6, <2>1, <2>2, <2>3, MarkOutcome DEF AgentInitFails, EndLoop
  <1>7. ASSUME NEW s \in Sessions, NEW error \in {"blocker", "rate", "other"},
               SendFails(s, error)
        PROVE  TypeOK'
    <2> USE <1>7, FailureCases
    <2>1. failed' \in [Sessions -> 0..MaxFailures]
      BY CountsFailures
    <2>2. CASE UNCHANGED <<runtime_status, failures, cooldown_until, pc, summary, barred, lost>>
      BY <2>1, <2>2
    <2>3. ASSUME NEW reason \in {"isolated", "cooldown"}, Bars(s, reason) PROVE TypeOK'
      <3>1. MarkFailure(DeviceOf[s], reason, reason = "cooldown")
        BY <2>3 DEF Bars
      <3>2. reason \in RuntimeStatuses
        BY DEF RuntimeStatuses, Quarantined
      <3>3. barred' \in [Devices -> SUBSET {"isolated", "cooldown"}]
        BY <2>3 DEF Bars
      <3>4. /\ pc' \in [Sessions -> {"new", "selected", "gated", "working", "cleanup",
                                      "closing", "ended"}]
            /\ summary' \in [Sessions -> RuntimeStatuses \cup {"cancelled", "crashed"}]
        BY <2>3, <3>2 DEF Bars, EndLoop
      <3>5. /\ runtime_status' \in [Devices -> RuntimeStatuses]
            /\ failures' \in [Devices -> 0..MaxFailures]
            /\ cooldown_until' \in [Devices -> {"none", "ahead", "past"}]
            /\ lost' \in [Devices -> SUBSET {"quarantine", "cleanup"}]
        BY <3>1, <3>2, MarkOutcome
      <3> QED BY <2>1, <3>3, <3>4, <3>5
    <2> QED BY <2>2, <2>3
  <1>8. ASSUME NEW s \in Sessions, FinishReads(s) PROVE TypeOK'
    <2>1. Final(runtime_status[DeviceOf[s]], HandedOver(summary[s])) \in RuntimeStatuses
      BY <1>8, FinalStatus DEF FinishReads, CleanupFits
    <2> QED BY <1>8, <2>1 DEF FinishReads, Loses, Swallowed, rowVars
  <1>9. ASSUME NEW s \in Sessions, FinishWrites(s) PROVE TypeOK'
    BY <1>9 DEF FinishWrites, Loses, Swallowed, rowVars
  <1>10. ASSUME NEW s \in Sessions, Crash(s) PROVE TypeOK'
    BY <1>10 DEF Crash, rowVars
  <1>11. ASSUME NEW r \in Requests, NEW d \in Devices,
                NEW op \in {"heartbeat", "health", "prepare-keyboard", "scan"}, RequestReads(r, d, op)
         PROVE  TypeOK'
    BY <1>11 DEF RequestReads, rowVars, sessionVars
  <1>12. ASSUME NEW r \in Requests, NEW ok \in BOOLEAN, RequestWrites(r, ok) PROVE TypeOK'
    <2> DEFINE q == request[r]
               status == Answered(q.op, q.seen, ok, rate_window[q.device])
    <2>1. /\ q.device \in Devices /\ q.seen \in RuntimeStatuses
          /\ q.op \in {"heartbeat", "health", "prepare-keyboard", "scan"}
      BY <1>12 DEF RequestWrites, RequestFits
    <2>2. status \in RuntimeStatuses
      BY <2>1, AnsweredStatus
    <2>3. NoRequest \in [op : {"none", "heartbeat", "health", "prepare-keyboard", "scan"},
                         device : Devices \cup {"none"}, seen : RuntimeStatuses \cup {"none"}]
      BY DEF NoRequest
    <2> QED BY <1>12, <2>1, <2>2, <2>3 DEF RequestWrites, sessionVars
  <1>13. ASSUME NEW d \in Devices, ResetFuse(d) PROVE TypeOK'
    BY <1>13 DEF ResetFuse, sessionVars, RuntimeStatuses
  <1>14. ASSUME NEW d \in Devices, CooldownPasses(d) PROVE TypeOK'
    BY <1>14 DEF CooldownPasses, sessionVars
  <1>15. ASSUME NEW d \in Devices, RateWindowPasses(d) PROVE TypeOK'
    BY <1>15 DEF RateWindowPasses, sessionVars, rowVars
  <1>16. ASSUME UNCHANGED vars PROVE TypeOK'
    BY <1>16 DEF vars
  <1> QED BY <1>1, <1>2, <1>3, <1>4, <1>5, <1>6, <1>7, <1>8, <1>9, <1>10, <1>11, <1>12,
             <1>13, <1>14, <1>15, <1>16 DEF Next

\* Only a request writes the requests.
LEMMA RequestStep ==
    ASSUME TypeOK, \A r \in Requests : RequestFits(r), [Next]_vars
    PROVE  \A r \in Requests : RequestFits(r)'
  <1> SUFFICES ASSUME NEW r \in Requests PROVE RequestFits(r)'
    OBVIOUS
  <1>1. CASE UNCHANGED request
    BY <1>1 DEF RequestFits
  <1>2. ASSUME NEW i \in Requests, NEW d \in Devices,
               NEW op \in {"heartbeat", "health", "prepare-keyboard", "scan"}, RequestReads(i, d, op)
        PROVE  RequestFits(r)'
    BY <1>2 DEF RequestReads, RequestFits, TypeOK
  <1>3. ASSUME NEW i \in Requests, NEW ok \in BOOLEAN, RequestWrites(i, ok)
        PROVE  RequestFits(r)'
    BY <1>3 DEF RequestWrites, RequestFits, NoRequest, TypeOK
  <1> QED
    BY <1>1, <1>2, <1>3
    DEF Next, vars, Select, PassCooldownGate, ProbeHealth, StopLoop, SendSucceeds,
        AgentInitFails, SendFails, FinishReads, FinishWrites, Loses, Swallowed, rowVars, Crash, ResetFuse,
        CooldownPasses, RateWindowPasses

\* What a session is about to hand over or to write in its cleanup.
LEMMA CleanupStep ==
    ASSUME TypeOK, \A s \in Sessions : CleanupFits(s), [Next]_vars
    PROVE  \A s \in Sessions : CleanupFits(s)'
  <1> SUFFICES ASSUME NEW t \in Sessions PROVE CleanupFits(t)'
    OBVIOUS
  <1> USE DEF CleanupFits
  <1>1. CASE UNCHANGED <<pc, summary, final>>
    BY <1>1
  <1>2. ASSUME NEW s \in Sessions, Select(s) \/ PassCooldownGate(s) \/ ProbeHealth(s)
        PROVE  CleanupFits(t)'
    BY <1>2 DEF Select, PassCooldownGate, ProbeHealth, TypeOK
  <1>3. ASSUME NEW s \in Sessions, StopLoop(s) \/ AgentInitFails(s)
        PROVE  CleanupFits(t)'
    BY <1>3 DEF StopLoop, AgentInitFails, EndLoop, TypeOK
  <1>4. ASSUME NEW s \in Sessions, NEW error \in {"blocker", "rate", "other"},
               SendFails(s, error)
        PROVE  CleanupFits(t)'
    BY <1>4 DEF SendFails, EndLoop, TypeOK
  <1>5. ASSUME NEW s \in Sessions, FinishReads(s) PROVE CleanupFits(t)'
    <2>1. Final(runtime_status[DeviceOf[s]], HandedOver(summary[s])) # "running"
      BY <1>5, FinalStatus, DeviceAssumption DEF FinishReads, TypeOK
    <2> QED BY <1>5, <2>1 DEF FinishReads, TypeOK
  <1>6. ASSUME NEW s \in Sessions, FinishWrites(s) \/ Crash(s) PROVE CleanupFits(t)'
    BY <1>6 DEF FinishWrites, Loses, Swallowed, rowVars, Crash, TypeOK
  <1> QED
    BY <1>1, <1>2, <1>3, <1>4, <1>5, <1>6
    DEF Next, vars, SendSucceeds, RequestReads, RequestWrites, ResetFuse, CooldownPasses,
        RateWindowPasses, sessionVars

\* Only the probe marks a phone running, for its own session; a session stays
\* until it has written another status, or it crashes.
LEMMA RunningStep ==
    ASSUME SessionInv, [Next]_vars
    PROVE  RunningHasSession'
  <1> DEFINE On(s) == pc[s] \in {"working", "cleanup", "closing"} \/ summary[s] = "crashed"
  <1> SUFFICES ASSUME NEW d \in Devices, (runtime_status[d] = "running")',
                      ~("cleanup" \in lost[d])'
               PROVE  \E s \in Sessions : DeviceOf[s] = d /\ On(s)'
    BY DEF RunningHasSession
  <1> USE DeviceAssumption DEF SessionInv, TypeOK
  <1>1. ASSUME runtime_status[d] = "running", "cleanup" \notin lost[d],
               \A s \in Sessions : DeviceOf[s] = d /\ On(s) => On(s)'
        PROVE  \E s \in Sessions : DeviceOf[s] = d /\ On(s)'
    <2>1. PICK s \in Sessions : DeviceOf[s] = d /\ On(s)
      BY <1>1 DEF RunningHasSession
    <2> QED BY <1>1, <2>1
  <1>2. ASSUME NEW s \in Sessions, Select(s) \/ PassCooldownGate(s)
        PROVE  \E t \in Sessions : DeviceOf[t] = d /\ On(t)'
    <2>1. /\ \A t \in Sessions : On(t) => On(t)'
          /\ runtime_status[d] = "running"
          /\ UNCHANGED lost
      BY <1>2 DEF Select, PassCooldownGate, Swallowed, rowVars
    <2> QED BY <1>1, <2>1
  <1>3. ASSUME NEW s \in Sessions, ProbeHealth(s)
        PROVE  \E t \in Sessions : DeviceOf[t] = d /\ On(t)'
    <2>1. UNCHANGED lost /\ \A t \in Sessions : On(t) => On(t)'
      BY <1>3 DEF ProbeHealth
    <2>2. \/ runtime_status[d] = "running"
          \/ DeviceOf[s] = d /\ pc'[s] = "working"
      BY <1>3 DEF ProbeHealth, Swallowed, rowVars
    <2> QED BY <1>1, <2>1, <2>2
  <1>4. ASSUME NEW s \in Sessions,
               \/ StopLoop(s) \/ SendSucceeds(s) \/ AgentInitFails(s)
               \/ \E error \in {"blocker", "rate", "other"} : SendFails(s, error)
        PROVE  \E t \in Sessions : DeviceOf[t] = d /\ On(t)'
    <2>1. CASE StopLoop(s) \/ SendSucceeds(s)
      <3>1. \A t \in Sessions : On(t) => On(t)'
        BY <2>1 DEF StopLoop, EndLoop, SendSucceeds, sessionVars
      <3>2. runtime_status[d] = "running" /\ UNCHANGED lost
        BY <2>1 DEF StopLoop, SendSucceeds, rowVars
      <3> QED BY <1>1, <3>1, <3>2
    <2>2. ASSUME NEW status \in {"isolated", "cooldown", "keyboard_error"},
                 NEW cooldown \in BOOLEAN,
                 pc[s] = "working", MarkFailure(DeviceOf[s], status, cooldown),
                 EndLoop(s, status)
          PROVE  \E t \in Sessions : DeviceOf[t] = d /\ On(t)'
      <3>1. status \in RuntimeStatuses
        BY DEF RuntimeStatuses, Quarantined
      <3>2. runtime_status[d] = "running" /\ "cleanup" \notin lost[d]
        BY <2>2, <3>1, MarkOutcome
      <3>3. \A t \in Sessions : On(t) => On(t)'
        BY <2>2 DEF EndLoop
      <3> QED BY <1>1, <3>2, <3>3
    <2>3. CASE AgentInitFails(s)
      BY <2>2, <2>3 DEF AgentInitFails
    <2>4. ASSUME NEW error \in {"blocker", "rate", "other"}, SendFails(s, error)
          PROVE  \E t \in Sessions : DeviceOf[t] = d /\ On(t)'
      <3>1. CASE UNCHANGED <<runtime_status, failures, cooldown_until, pc, summary, barred, lost>>
        BY <1>1, <3>1
      <3>2. ASSUME NEW reason \in {"isolated", "cooldown"}, Bars(s, reason)
            PROVE  \E t \in Sessions : DeviceOf[t] = d /\ On(t)'
        <4>1. pc[s] = "working"
          BY <2>4, FailureCases
        <4> QED BY <2>2, <3>2, <4>1 DEF Bars
      <3> QED BY <2>4, <3>1, <3>2, FailureCases
    <2> QED BY <1>4, <2>1, <2>3, <2>4
  <1>5. ASSUME NEW s \in Sessions, FinishReads(s) \/ FinishWrites(s)
        PROVE  \E t \in Sessions : DeviceOf[t] = d /\ On(t)'
    <2>1. CASE DeviceOf[s] # d
      <3>1. runtime_status[d] = "running" /\ "cleanup" \notin lost[d]
        BY <1>5, <2>1 DEF FinishReads, FinishWrites, Loses, Swallowed, rowVars
      <3>2. \A t \in Sessions : DeviceOf[t] = d /\ On(t) => On(t)'
        BY <1>5, <2>1 DEF FinishReads, FinishWrites
      <3> QED BY <1>1, <3>1, <3>2
    <2>2. CASE DeviceOf[s] = d
      <3>1. /\ FinishReads(s) /\ pc' = [pc EXCEPT ![s] = "closing"]
            /\ UNCHANGED <<rowVars, lost>>
        BY <1>5, <2>2 DEF FinishReads, FinishWrites, CleanupFits, Loses, Swallowed
      <3> QED BY <2>2, <3>1
    <2> QED BY <2>1, <2>2
  <1>6. ASSUME NEW s \in Sessions, Crash(s)
        PROVE  \E t \in Sessions : DeviceOf[t] = d /\ On(t)'
    BY <1>1, <1>6 DEF Crash, rowVars
  <1>7. ASSUME NEW r \in Requests, NEW ok \in BOOLEAN, RequestWrites(r, ok)
        PROVE  \E t \in Sessions : DeviceOf[t] = d /\ On(t)'
    <2> DEFINE q == request[r]
               status == Answered(q.op, q.seen, ok, rate_window[q.device])
    <2>1. /\ q.seen \in RuntimeStatuses
          /\ q.op \in {"heartbeat", "health", "prepare-keyboard", "scan"}
      BY <1>7 DEF RequestWrites, RequestFits
    <2>2. status # q.seen => status # "running"
      BY <2>1, AnsweredStatus
    <2>3. q.op # "none" /\ q.device \in Devices
      BY <1>7 DEF RequestWrites, RequestFits
    <2>4. runtime_status[d] = "running" /\ "cleanup" \notin lost[d]
      <3>1. CASE status = q.seen
        BY <1>7, <3>1 DEF RequestWrites
      <3>2. CASE status # q.seen
        <4>1. /\ runtime_status' = [runtime_status EXCEPT ![q.device] = status]
              /\ lost' = [lost EXCEPT ![q.device] = @ \ {"cleanup"}]
          BY <1>7, <3>2 DEF RequestWrites
        <4>2. q.device # d
          BY <2>2, <2>3, <3>2, <4>1
        <4> QED BY <2>3, <4>1, <4>2
      <3> QED BY <3>1, <3>2
    <2>5. UNCHANGED <<pc, summary>>
      BY <1>7 DEF RequestWrites, sessionVars
    <2> QED BY <1>1, <2>4, <2>5
  <1>8. ASSUME NEW e \in Devices, ResetFuse(e) \/ CooldownPasses(e) \/ RateWindowPasses(e)
        PROVE  \E t \in Sessions : DeviceOf[t] = d /\ On(t)'
    BY <1>1, <1>8 DEF ResetFuse, CooldownPasses, RateWindowPasses, sessionVars, rowVars
  <1>9. ASSUME NEW r \in Requests, NEW e \in Devices,
               NEW op \in {"heartbeat", "health", "prepare-keyboard", "scan"}, RequestReads(r, e, op)
        PROVE  \E t \in Sessions : DeviceOf[t] = d /\ On(t)'
    BY <1>1, <1>9 DEF RequestReads, sessionVars, rowVars
  <1>10. ASSUME UNCHANGED vars PROVE \E t \in Sessions : DeviceOf[t] = d /\ On(t)'
    BY <1>1, <1>10 DEF vars
  <1> QED BY <1>2, <1>3, <1>4, <1>5, <1>6, <1>7, <1>8, <1>9, <1>10 DEF Next

LEMMA SessionInvariant == Spec => []SessionInv
  <1>1. Init => SessionInv
    BY DeviceAssumption
    DEF Init, SessionInv, TypeOK, RequestFits, CleanupFits, RunningHasSession, NoRequest,
        RuntimeStatuses
  <1>2. SessionInv /\ [Next]_vars => SessionInv'
    BY TypeStep, RequestStep, CleanupStep, RunningStep DEF SessionInv
  <1> QED BY <1>1, <1>2, PTL DEF Spec

\* The columns of a phone and the places of its sessions stay within their
\* types, however sessions and requests overlap.
THEOREM SessionTypes == Spec => []TypeOK
  BY SessionInvariant, PTL DEF SessionInv

\* However sessions overlap, requests answer late and processes crash, a phone
\* marked running has a session that will give it back, or lost it in a crash,
\* or the database refused what the last cleanup wrote.
THEOREM RunningIsGivenBack == Spec => []RunningHasSession
  BY SessionInvariant, PTL DEF SessionInv
------------------------------------------------------------------------------
\* Sessions on one phone follow one another, if no selection overlaps.
LEMMA AloneStep ==
    ASSUME ~Overlap, TypeOK, Alone, [Next]_vars
    PROVE  Alone'
  <1> USE DeviceAssumption DEF TypeOK, Alone, OnPhone
  <1>1. ASSUME \A s \in Sessions : OnPhone(s)' => OnPhone(s) PROVE Alone'
    BY <1>1
  <1>2. ASSUME NEW s \in Sessions, Select(s) PROVE Alone'
    BY <1>2 DEF Select
  <1>3. ASSUME NEW s \in Sessions,
               \/ PassCooldownGate(s) \/ ProbeHealth(s) \/ FinishReads(s)
               \/ FinishWrites(s) \/ Crash(s)
        PROVE  Alone'
    BY <1>1, <1>3 DEF PassCooldownGate, Swallowed, ProbeHealth, FinishReads, FinishWrites, Loses, Swallowed, rowVars, Crash
  <1>4. ASSUME NEW s \in Sessions, StopLoop(s) \/ SendSucceeds(s) \/ AgentInitFails(s)
        PROVE  Alone'
    BY <1>1, <1>4 DEF StopLoop, SendSucceeds, AgentInitFails, EndLoop, sessionVars
  <1>5. ASSUME NEW s \in Sessions, NEW error \in {"blocker", "rate", "other"},
               SendFails(s, error)
        PROVE  Alone'
    BY <1>1, <1>5, FailureCases DEF Bars, EndLoop
  <1>6. CASE UNCHANGED pc
    BY <1>1, <1>6
  <1> QED
    BY <1>2, <1>3, <1>4, <1>5, <1>6
    DEF Next, vars, RequestReads, RequestWrites, ResetFuse, CooldownPasses,
        RateWindowPasses, sessionVars

\* A lost quarantine is remembered until the fuse is reset.
LEMMA LostKept ==
    ASSUME TypeOK, [Next]_vars, NEW d \in Devices, "quarantine" \in lost[d]
    PROVE  "quarantine" \in lost'[d] \/ ResetFuse(d)
  <1> USE DeviceAssumption DEF TypeOK
  <1>1. CASE UNCHANGED lost
    BY <1>1
  <1>2. ASSUME NEW s \in Sessions, AgentInitFails(s) PROVE "quarantine" \in lost'[d]
    BY <1>2 DEF AgentInitFails, MarkFailure, Loses
  <1>3. ASSUME NEW s \in Sessions, NEW error \in {"blocker", "rate", "other"},
               SendFails(s, error)
        PROVE  "quarantine" \in lost'[d]
    BY <1>3 DEF SendFails, MarkFailure, Loses
  <1>4. ASSUME NEW s \in Sessions, FinishReads(s) \/ FinishWrites(s)
        PROVE  "quarantine" \in lost'[d]
    BY <1>4 DEF FinishReads, FinishWrites, Loses
  <1>5. ASSUME NEW r \in Requests, NEW ok \in BOOLEAN, RequestWrites(r, ok)
        PROVE  "quarantine" \in lost'[d]
    BY <1>5 DEF RequestWrites
  <1>6. ASSUME NEW e \in Devices, ResetFuse(e) PROVE "quarantine" \in lost'[d] \/ ResetFuse(d)
    BY <1>6 DEF ResetFuse
  <1> QED
    BY <1>1, <1>2, <1>3, <1>4, <1>5, <1>6
    DEF Next, vars, Select, PassCooldownGate, ProbeHealth, StopLoop, SendSucceeds, Crash,
        RequestReads, CooldownPasses, RateWindowPasses

\* What bars a phone shows in its row.
LEMMA ShowStep ==
    ASSUME SessionInv, BarInv, [Next]_vars, NEW d \in Devices
    PROVE  BarShows(d)'
  <1> USE DeviceAssumption DEF SessionInv, TypeOK, BarInv, BarShows
  <1>1. CASE ResetFuse(d)
    BY <1>1 DEF ResetFuse, Shows
  <1> SUFFICES ASSUME ~ResetFuse(d), "quarantine" \notin lost'[d] PROVE Shows(d)'
    BY <1>1
  <1> Shows(d)
    BY LostKept
  <1> USE DEF Shows
  <1>2. CASE UNCHANGED <<runtime_status, cooldown_until, barred>>
    BY <1>2
  <1>3. ASSUME NEW s \in Sessions, PassCooldownGate(s) PROVE Shows(d)'
    <2>1. CASE UNCHANGED rowVars
      BY <1>2, <1>3, <2>1 DEF PassCooldownGate, rowVars
    <2>2. CASE ~UNCHANGED rowVars
      BY <1>3, <2>2 DEF PassCooldownGate, Swallowed
    <2> QED BY <2>1, <2>2
  <1>4. ASSUME NEW s \in Sessions, ProbeHealth(s) PROVE Shows(d)'
    <2>1. CASE DeviceOf[s] = d
      <3>1. barred[d] = {}
        BY <1>4, <2>1 DEF ProbeHealth, BarFits, Fits
      <3> QED BY <1>4, <3>1 DEF ProbeHealth
    <2>2. CASE DeviceOf[s] # d
      BY <1>4, <2>2 DEF ProbeHealth, Swallowed, rowVars
    <2> QED BY <2>1, <2>2
  <1>5. ASSUME NEW s \in Sessions, AgentInitFails(s) PROVE Shows(d)'
    <2>1. CASE DeviceOf[s] = d
      <3>1. barred[d] = {}
        BY <1>5, <2>1 DEF AgentInitFails, MarkFailure, Loses, BarFits, Fits
      <3> QED BY <1>5, <3>1 DEF AgentInitFails
    <2>2. CASE DeviceOf[s] # d
      BY <1>5, <2>2 DEF AgentInitFails, MarkFailure, Loses, Swallowed, rowVars
    <2> QED BY <2>1, <2>2
  <1>6. ASSUME NEW s \in Sessions, NEW error \in {"blocker", "rate", "other"},
               SendFails(s, error)
        PROVE  Shows(d)'
    <2>1. CASE UNCHANGED <<runtime_status, failures, cooldown_until, pc, summary, barred, lost>>
      BY <2>1
    <2>2. ASSUME NEW reason \in {"isolated", "cooldown"}, Bars(s, reason) PROVE Shows(d)'
      <3>1. pc[s] = "working"
        BY <1>6, FailureCases
      <3>2. CASE DeviceOf[s] = d
        <4>1. barred[d] = {}
          <5>1. "quarantine" \notin lost[d]
            BY <2>2, <3>2 DEF Bars, MarkFailure, Loses
          <5> QED BY <3>1, <3>2, <5>1 DEF BarFits, Fits
        <4>2. barred'[d] = {reason}
          BY <2>2, <3>2, <4>1 DEF Bars
        <4>3. /\ runtime_status'[d] = reason
              /\ reason = "cooldown" => cooldown_until'[d] = "ahead"
          BY <2>2, <3>2 DEF Bars, MarkFailure, Loses
        <4> QED BY <4>2, <4>3
      <3>3. CASE DeviceOf[s] # d
        BY <2>2, <3>3 DEF Bars, MarkFailure, Loses, Swallowed, rowVars
      <3> QED BY <3>2, <3>3
    <2> QED BY <1>6, <2>1, <2>2, FailureCases
  <1>7. ASSUME NEW s \in Sessions, FinishWrites(s) PROVE Shows(d)'
    <2>1. CASE UNCHANGED rowVars
      BY <1>2, <1>7, <2>1 DEF FinishWrites, rowVars
    <2>2. CASE DeviceOf[s] # d
      BY <1>7, <2>2 DEF FinishWrites, Loses, Swallowed, rowVars
    <2>3. CASE DeviceOf[s] = d /\ ~UNCHANGED rowVars
      <3>1. barred[d] \subseteq {final[s]}
        <4>1. "quarantine" \notin lost[d]
          BY <1>7, <2>3 DEF FinishWrites, Loses, Swallowed
        <4> QED BY <1>7, <2>3, <4>1 DEF FinishWrites, BarFits, Fits
      <3> QED BY <1>7, <2>3, <3>1 DEF FinishWrites, Loses, Swallowed, ClearsCooldown
    <2> QED BY <2>1, <2>2, <2>3
  <1>8. ASSUME NEW r \in Requests, NEW ok \in BOOLEAN, RequestWrites(r, ok) PROVE Shows(d)'
    BY <1>8 DEF RequestWrites
  <1>9. ASSUME NEW e \in Devices, ResetFuse(e) \/ CooldownPasses(e) PROVE Shows(d)'
    BY <1>9 DEF ResetFuse, CooldownPasses
  <1> QED
    BY <1>2, <1>3, <1>4, <1>5, <1>6, <1>7, <1>8, <1>9
    DEF Next, vars, Select, StopLoop, SendSucceeds, FinishReads, Loses, Swallowed, Crash,
        RequestReads, RateWindowPasses, rowVars

\* A session goes on only on a phone that is not barred, and its cleanup keeps
\* the reason: nobody else bars the phone while it is there.
LEMMA FitStep ==
    ASSUME SessionInv, BarInv, Alone', [Next]_vars, NEW t \in Sessions
    PROVE  BarFits(t)'
  <1> USE DeviceAssumption DEF SessionInv, TypeOK, BarInv, BarFits
  <1>0. CASE ResetFuse(DeviceOf[t])
    BY <1>0 DEF ResetFuse, Fits
  <1> SUFFICES ASSUME ~ResetFuse(DeviceOf[t]), "quarantine" \notin lost'[DeviceOf[t]]
               PROVE  Fits(t)'
    BY <1>0
  <1> "quarantine" \notin lost[DeviceOf[t]] /\ Fits(t)
    BY LostKept
  <1> USE DEF Fits
  <1>1. ASSUME barred'[DeviceOf[t]] \subseteq barred[DeviceOf[t]],
               UNCHANGED <<pc[t], summary[t], final[t]>>
        PROVE  Fits(t)'
    BY <1>1
  <1>2. ASSUME NEW s \in Sessions, Select(s) PROVE Fits(t)'
    <2>1. Available(DeviceOf[t]) => barred[DeviceOf[t]] = {}
      BY DEF Available, BarShows, Shows, Quarantined
    <2> QED BY <1>2, <2>1 DEF Select
  <1>3. ASSUME NEW s \in Sessions, PassCooldownGate(s) \/ ProbeHealth(s) PROVE Fits(t)'
    BY <1>3 DEF PassCooldownGate, ProbeHealth
  <1>4. ASSUME NEW s \in Sessions, StopLoop(s) \/ AgentInitFails(s) PROVE Fits(t)'
    <2>1. /\ pc[s] = "working" /\ UNCHANGED <<barred, final>>
          /\ \E status : EndLoop(s, status)
      BY <1>4 DEF StopLoop, AgentInitFails
    <2>2. CASE t = s
      BY <2>1, <2>2 DEF EndLoop
    <2>3. CASE t # s
      BY <1>1, <2>1, <2>3 DEF EndLoop
    <2> QED BY <2>2, <2>3
  <1>5. ASSUME NEW s \in Sessions, NEW error \in {"blocker", "rate", "other"},
               SendFails(s, error)
        PROVE  Fits(t)'
    <2>1. CASE UNCHANGED <<runtime_status, failures, cooldown_until, pc, summary, barred, lost>>
      BY <1>5, <2>1, FailureCases
    <2>2. ASSUME NEW reason \in {"isolated", "cooldown"}, Bars(s, reason) PROVE Fits(t)'
      <3>1. pc[s] = "working" /\ OnPhone(s) /\ UNCHANGED final
        BY <1>5, FailureCases DEF OnPhone
      <3>2. CASE t = s
        BY <2>2, <3>1, <3>2 DEF Bars, EndLoop
      <3>3. CASE t # s /\ DeviceOf[t] = DeviceOf[s]
        BY <2>2, <3>1, <3>3 DEF Bars, EndLoop, Alone, OnPhone
      <3>4. CASE DeviceOf[t] # DeviceOf[s]
        <4>1. barred'[DeviceOf[t]] = barred[DeviceOf[t]]
          BY <2>2, <3>4 DEF Bars
        <4>2. UNCHANGED <<pc[t], summary[t]>>
          BY <2>2, <3>4 DEF Bars, EndLoop
        <4> QED BY <1>1, <3>1, <4>1, <4>2
      <3> QED BY <3>2, <3>3, <3>4
    <2> QED BY <1>5, <2>1, <2>2, FailureCases
  <1>6. ASSUME NEW s \in Sessions, FinishReads(s) PROVE Fits(t)'
    <2> DEFINE new == Final(runtime_status[DeviceOf[s]], HandedOver(summary[s]))
    <2>1. summary[s] \in RuntimeStatuses \cup {"cancelled"}
      BY <1>6 DEF FinishReads, CleanupFits
    <2>2. summary[s] \in {"isolated", "cooldown"} => new = summary[s]
      BY <2>1, FinalStatus
    <2>3. CASE t = s
      <3>1. barred[DeviceOf[s]] \subseteq {new}
        BY <1>6, <2>2, <2>3 DEF FinishReads
      <3> QED BY <1>6, <2>3, <3>1 DEF FinishReads
    <2>4. CASE t # s
      BY <1>6, <2>4 DEF FinishReads
    <2> QED BY <2>3, <2>4
  <1>7. ASSUME NEW s \in Sessions, FinishWrites(s) \/ Crash(s) PROVE Fits(t)'
    BY <1>7 DEF FinishWrites, Crash
  <1>8. ASSUME NEW r \in Requests, NEW ok \in BOOLEAN, RequestWrites(r, ok)
        PROVE  Fits(t)'
    <2>1. /\ UNCHANGED <<pc, summary, final>>
          /\ \/ UNCHANGED barred
             \/ barred' = [barred EXCEPT ![request[r].device] = @ \ {"isolated"}]
      BY <1>8 DEF RequestWrites, sessionVars
    <2>2. barred'[DeviceOf[t]] \subseteq barred[DeviceOf[t]]
      BY <2>1
    <2> QED BY <1>1, <2>1, <2>2
  <1>9. ASSUME NEW e \in Devices, ResetFuse(e) \/ CooldownPasses(e) PROVE Fits(t)'
    BY <1>1, <1>9 DEF ResetFuse, CooldownPasses, sessionVars
  <1>10. CASE UNCHANGED <<pc, summary, final, barred>>
    BY <1>1, <1>10
  <1> QED
    BY <1>2, <1>3, <1>4, <1>5, <1>6, <1>7, <1>8, <1>9, <1>10
    DEF Next, vars, SendSucceeds, RequestReads, RateWindowPasses, sessionVars

LEMMA BarInvariant == ASSUME ~Overlap PROVE Spec => []BarInv
  <1>1. Init => BarInv
    BY DeviceAssumption DEF Init, BarInv, Alone, OnPhone, BarShows, Shows, BarFits, Fits
  <1>2. SessionInv /\ BarInv /\ [Next]_vars => BarInv'
    <2> SUFFICES ASSUME SessionInv, BarInv, [Next]_vars PROVE BarInv'
      OBVIOUS
    <2>1. Alone'
      BY AloneStep DEF SessionInv, BarInv
    <2> QED BY <2>1, ShowStep, FitStep DEF BarInv
  <1> QED BY <1>1, <1>2, SessionInvariant, PTL DEF Spec

\* As long as no session selects a phone another is on, nothing is sent from a
\* phone that is barred, whatever the requests of an operator write late, unless
\* the database refused to record why.
THEOREM NothingSentWhileBarred == ASSUME ~Overlap PROVE Spec => []NoSendingWhileBarred
  <1>1. BarInv => NoSendingWhileBarred
    BY DEF BarInv, BarFits, Fits, NoSendingWhileBarred
  <1> QED BY <1>1, BarInvariant, PTL
==============================================================================
