---------------------------- MODULE DeviceSessions ----------------------------
(***************************************************************************)
(* The runtime status of a phone.  A sending session (DeviceWorker.run of  *)
(* core/task/worker.py with core/device/supervisor.py) selects the phone,  *)
(* checks it, marks it running, quarantines it when a send goes wrong and  *)
(* cleans up behind itself; the requests of server/api/devices.py write    *)
(* the same row at any time, some of them long after they read it.         *)
(***************************************************************************)
EXTENDS Naturals, FiniteSets

CONSTANTS Devices,
          Sessions, DeviceOf,  \* a session of a send job, and its phone
          Requests,            \* concurrent requests of the devices API
          MaxFailures,         \* 5: the failures that blow a fuse, see the ASSUME
          Overlap,             \* may a session select a phone while another is on it?
          MayCrash,            \* may the process die during a session?
          WritesFail           \* may the database refuse the supervisor?

ASSUME DeviceAssumption ==
    /\ DeviceOf \in [Sessions -> Devices]
    \* is_available counts the row's failures, RiskManager those of a session
    /\ MaxFailures \in Nat \ {0}
    \* jobs/send/start refuses a second job of the user, but it reads the job
    \* table before it writes it, and a cancelled job leaves threads behind
    /\ Overlap \in BOOLEAN
    /\ MayCrash \in BOOLEAN /\ WritesFail \in BOOLEAN

VARIABLES
    runtime_status, failures, cooldown_until,  \* columns of the device's row
    rate_window,   \* ConsumerState.rate_limited_at lies less than 4 hours back
    pc, summary,   \* a session's place in run(), and its summary's status
    failed,        \* and the failures it has counted
    final,         \* the status its cleanup is about to write
    request,       \* what a request has read and means to do
    barred,        \* history: why nothing may be sent from this phone now
    lost           \* history: which writes about the phone were rolled back and
                   \* swallowed: "quarantine", "cleanup"

rowVars == <<runtime_status, failures, cooldown_until>>
sessionVars == <<pc, summary, failed, final>>
vars == <<runtime_status, failures, cooldown_until, rate_window, pc, summary,
          failed, final, request, barred, lost>>
------------------------------------------------------------------------------
Quarantined == {"isolated", "cooldown", "offline", "keyboard_error"}
NoRequest == [op |-> "none", device |-> "none", seen |-> "none"]

\* Variants named after the slip they make stand before the definition they
\* vary; the runs check that TLC notices each of them.
AvailableIfIsolated(d) ==
    /\ runtime_status[d] \notin (Quarantined \ {"isolated"}) \cup {"running"}
    /\ failures[d] < MaxFailures
    /\ cooldown_until[d] # "ahead"

Available(d) ==
    /\ runtime_status[d] \notin Quarantined \cup {"running"}
    /\ failures[d] < MaxFailures
    /\ cooldown_until[d] # "ahead"

OnPhone(s) == pc[s] \notin {"new", "ended"}

\* consecutive_failures; from MaxFailures on its exact value makes no difference.
OneMore(n) == IF n < MaxFailures THEN n + 1 ELSE n

\* RiskManager.assess_action_result on the n-th failure of the session.
Decision(error, n) ==
    CASE error = "blocker" -> "isolate"
      [] error = "rate" -> "cooldown"
      [] OTHER -> IF n >= MaxFailures THEN "isolate" ELSE "proceed"

\* The status run() hands to mark_finished, and what mark_finished makes of it.
HandedOverUnmapped(status) == status
HandedOver(status) == IF status \in {"running", "cancelled"} THEN "idle" ELSE status
Final(current, status) ==
    IF current \in Quarantined /\ status \in {"idle", "running"} THEN current ELSE status

\* mark_finished clears the error, and with it cooldown_until, of a phone it
\* leaves in service.
ClearsCooldownAlways(status) == TRUE
ClearsCooldown(status) == status \in {"idle", "running"}

Init ==
    /\ runtime_status = [d \in Devices |-> "idle"]
    /\ failures = [d \in Devices |-> 0]
    /\ cooldown_until = [d \in Devices |-> "none"]
    /\ rate_window = [d \in Devices |-> FALSE]
    /\ pc = [s \in Sessions |-> "new"]
    /\ summary = [s \in Sessions |-> "running"]
    /\ failed = [s \in Sessions |-> 0]
    /\ final = [s \in Sessions |-> "idle"]
    /\ request = [r \in Requests |-> NoRequest]
    /\ barred = [d \in Devices |-> {}]
    /\ lost = [d \in Devices |-> {}]
------------------------------------------------------------------------------
(* selection and preflight *)

\* _update_device and _cooldown_gate roll back on any exception and swallow it.
Swallowed == WritesFail /\ UNCHANGED rowVars
Loses(d, write) == Swallowed /\ lost' = [lost EXCEPT ![d] = @ \cup {write}]

\* load_active_devices, when the job starts.
Select(s) ==
    LET d == DeviceOf[s] IN
    /\ pc[s] = "new"
    /\ Overlap \/ \A t \in Sessions \ {s} : DeviceOf[t] = d => ~OnPhone(t)
    /\ pc' = [pc EXCEPT ![s] = IF Available(d) THEN "selected" ELSE "ended"]
    /\ UNCHANGED <<rowVars, rate_window, summary, failed, final, request, barred, lost>>

\* _cooldown_gate, one transaction; when it fails the session is let through.
PassCooldownGate(s) ==
    LET d == DeviceOf[s] IN
    /\ pc[s] = "selected"
    /\ \/ /\ cooldown_until[d] = "ahead"
          /\ pc' = [pc EXCEPT ![s] = "ended"] /\ UNCHANGED rowVars
       \/ /\ cooldown_until[d] # "ahead"
          /\ pc' = [pc EXCEPT ![s] = "gated"]
          /\ cooldown_until' = [cooldown_until EXCEPT ![d] = "none"]
          /\ runtime_status' =
               [runtime_status EXCEPT ![d] =
                  IF cooldown_until[d] = "past" /\ @ = "cooldown" THEN "idle" ELSE @]
          /\ UNCHANGED failures
       \/ /\ pc' = [pc EXCEPT ![s] = "gated"]
          /\ Swallowed
    /\ UNCHANGED <<rate_window, summary, failed, final, request, barred, lost>>

\* The health probe, and mark_failure or mark_started on its answer.
ProbeHealth(s) ==
    LET d == DeviceOf[s] IN
    /\ pc[s] = "gated"
    /\ \/ /\ pc' = [pc EXCEPT ![s] = "ended"]
          /\ runtime_status' = [runtime_status EXCEPT ![d] = "offline"]
          /\ failures' = [failures EXCEPT ![d] = OneMore(@)]
          /\ UNCHANGED cooldown_until
       \/ /\ pc' = [pc EXCEPT ![s] = "working"]
          /\ runtime_status' = [runtime_status EXCEPT ![d] = "running"]
          /\ cooldown_until' = [cooldown_until EXCEPT ![d] = "none"]
          /\ UNCHANGED failures
       \/ /\ \E there \in {"ended", "working"} : pc' = [pc EXCEPT ![s] = there]
          /\ Swallowed
    /\ UNCHANGED <<rate_window, summary, failed, final, request, barred, lost>>
------------------------------------------------------------------------------
(* the loop of run() *)

EndLoop(s, status) ==
    /\ pc' = [pc EXCEPT ![s] = "cleanup"]
    /\ summary' = [summary EXCEPT ![s] = status]

\* A cancellation, a refused claim, or an exception out of the loop.  The quota
\* of the industry is refused under names run() does not know: it ends "no_task".
StopLoop(s) ==
    /\ pc[s] = "working"
    /\ \E status \in {"cancelled", "daily_limit", "no_task", "running"} : EndLoop(s, status)
    /\ UNCHANGED <<rowVars, rate_window, failed, final, request, barred, lost>>

\* A success opens the hourly window of the device, if there is a limit.
SendSucceeds(s) ==
    /\ pc[s] = "working"
    /\ rate_window' = [rate_window EXCEPT ![DeviceOf[s]] = TRUE]
    /\ UNCHANGED <<rowVars, sessionVars, request, barred, lost>>

\* mark_failure, which leaves an old cooldown_until alone.
MarkFailure(d, status, cooldown) ==
    \/ /\ runtime_status' = [runtime_status EXCEPT ![d] = status]
       /\ failures' = [failures EXCEPT ![d] = OneMore(@)]
       /\ cooldown_until' = IF cooldown THEN [cooldown_until EXCEPT ![d] = "ahead"]
                            ELSE cooldown_until
       /\ UNCHANGED lost
    \/ Loses(d, "quarantine")

\* A failed send, then what the risk manager decides about the phone.
SendFails(s, error) ==
    LET d == DeviceOf[s]
        decision == Decision(error, failed[s] + 1)
    IN
    /\ pc[s] = "working"
    /\ failed' = [failed EXCEPT ![s] = OneMore(@)]
    /\ \/ /\ decision = "proceed"
          /\ UNCHANGED <<rowVars, pc, summary, barred, lost>>
       \/ /\ decision = "isolate"
          /\ MarkFailure(d, "isolated", FALSE)
          /\ EndLoop(s, "isolated")
          /\ barred' = [barred EXCEPT ![d] = @ \cup {"isolated"}]
       \/ /\ decision = "cooldown"
          /\ MarkFailure(d, "cooldown", TRUE)
          /\ EndLoop(s, "cooldown")
          /\ barred' = [barred EXCEPT ![d] = @ \cup {"cooldown"}]
    /\ UNCHANGED <<rate_window, final, request>>

AgentInitFails(s) ==
    /\ pc[s] = "working"
    /\ failed' = [failed EXCEPT ![s] = OneMore(@)]
    /\ MarkFailure(DeviceOf[s], "keyboard_error", FALSE)
    /\ EndLoop(s, "keyboard_error")
    /\ UNCHANGED <<rate_window, final, request, barred>>

\* mark_finished reads the status in one session and writes it in another.  A
\* failing read is raised out of run().
FinishReads(s) ==
    /\ pc[s] = "cleanup"
    /\ \/ /\ pc' = [pc EXCEPT ![s] = "closing"]
          /\ final' = [final EXCEPT ![s] =
                         Final(runtime_status[DeviceOf[s]], HandedOver(summary[s]))]
          /\ UNCHANGED <<rowVars, lost>>
       \/ /\ pc' = [pc EXCEPT ![s] = "ended"]
          /\ Loses(DeviceOf[s], "cleanup")
          /\ UNCHANGED final
    /\ UNCHANGED <<rate_window, summary, failed, request, barred>>

FinishWrites(s) ==
    LET d == DeviceOf[s] IN
    /\ pc[s] = "closing"
    /\ pc' = [pc EXCEPT ![s] = "ended"]
    /\ \/ /\ runtime_status' = [runtime_status EXCEPT ![d] = final[s]]
          /\ cooldown_until' = IF ClearsCooldown(final[s])
                               THEN [cooldown_until EXCEPT ![d] = "none"] ELSE cooldown_until
          /\ lost' = [lost EXCEPT ![d] = @ \ {"cleanup"}]
          /\ UNCHANGED failures
       \/ Loses(d, "cleanup")
    /\ UNCHANGED <<rate_window, summary, failed, final, request, barred>>

Crash(s) ==
    /\ MayCrash
    /\ pc[s] \in {"working", "cleanup", "closing"}
    /\ pc' = [pc EXCEPT ![s] = "ended"]
    /\ summary' = [summary EXCEPT ![s] = "crashed"]
    /\ UNCHANGED <<rowVars, rate_window, failed, final, request, barred, lost>>
------------------------------------------------------------------------------
(* server/api/devices.py *)

\* The row is read before the phone is asked, which takes seconds.
RequestReads(r, d, op) ==
    /\ request[r] = NoRequest
    /\ request' = [request EXCEPT ![r] = [op |-> op, device |-> d, seen |-> runtime_status[d]]]
    /\ UNCHANGED <<rowVars, rate_window, sessionVars, barred, lost>>

\* The status a request leaves, given what it read and how the phone answered.
Answered(op, seen, ok, limited) ==
    CASE op = "heartbeat" ->
           IF ~ok THEN "offline"
           ELSE IF limited THEN "cooldown"
           ELSE IF seen \in {"offline", "keyboard_error", "cooldown"} THEN "idle" ELSE seen
      [] op = "health" ->
           IF ~ok THEN "offline" ELSE IF seen = "offline" THEN "idle" ELSE seen
      [] op \in {"prepare-keyboard", "scan"} -> IF ok THEN "idle" ELSE "keyboard_error"

\* The UPDATE names the status only if it differs from the one read.
RequestWrites(r, ok) ==
    LET q == request[r]
        status == Answered(q.op, q.seen, ok, rate_window[q.device])
    IN
    /\ q.op # "none"
    /\ request' = [request EXCEPT ![r] = NoRequest]
    /\ runtime_status' = IF status = q.seen THEN runtime_status
                         ELSE [runtime_status EXCEPT ![q.device] = status]
    \* history: an operator who changes the status answers for the phone
    /\ barred' = IF status = q.seen THEN barred
                 ELSE [barred EXCEPT ![q.device] = @ \ {"isolated"}]
    /\ lost' = IF status = q.seen THEN lost
               ELSE [lost EXCEPT ![q.device] = @ \ {"cleanup"}]
    /\ UNCHANGED <<failures, cooldown_until, rate_window, sessionVars>>

ResetFuse(d) ==
    /\ failures' = [failures EXCEPT ![d] = 0]
    /\ runtime_status' = [runtime_status EXCEPT ![d] = "idle"]
    /\ cooldown_until' = [cooldown_until EXCEPT ![d] = "none"]
    /\ barred' = [barred EXCEPT ![d] = {}]
    /\ lost' = [lost EXCEPT ![d] = {}]
    /\ UNCHANGED <<rate_window, sessionVars, request>>

CooldownPasses(d) ==
    /\ cooldown_until[d] = "ahead" \/ "cooldown" \in barred[d]
    /\ cooldown_until' = [cooldown_until EXCEPT ![d] = IF @ = "ahead" THEN "past" ELSE @]
    /\ barred' = [barred EXCEPT ![d] = @ \ {"cooldown"}]
    /\ UNCHANGED <<runtime_status, failures, rate_window, sessionVars, request, lost>>

RateWindowPasses(d) ==
    /\ rate_window[d]
    /\ rate_window' = [rate_window EXCEPT ![d] = FALSE]
    /\ UNCHANGED <<rowVars, sessionVars, request, barred, lost>>

Next ==
    \/ \E s \in Sessions :
         \/ Select(s) \/ PassCooldownGate(s) \/ ProbeHealth(s)
         \/ StopLoop(s) \/ SendSucceeds(s) \/ AgentInitFails(s)
         \/ \E error \in {"blocker", "rate", "other"} : SendFails(s, error)
         \/ FinishReads(s) \/ FinishWrites(s) \/ Crash(s)
    \/ \E r \in Requests :
         \/ \E d \in Devices, op \in {"heartbeat", "health", "prepare-keyboard", "scan"} :
              RequestReads(r, d, op)
         \/ \E ok \in BOOLEAN : RequestWrites(r, ok)
    \/ \E d \in Devices : ResetFuse(d) \/ CooldownPasses(d) \/ RateWindowPasses(d)

Spec == Init /\ [][Next]_vars
------------------------------------------------------------------------------
RuntimeStatuses == Quarantined \cup {"idle", "running", "daily_limit", "no_task"}

TypeOK ==
    /\ runtime_status \in [Devices -> RuntimeStatuses]
    /\ failures \in [Devices -> 0..MaxFailures]
    /\ cooldown_until \in [Devices -> {"none", "ahead", "past"}]
    /\ rate_window \in [Devices -> BOOLEAN]
    /\ pc \in [Sessions -> {"new", "selected", "gated", "working", "cleanup", "closing", "ended"}]
    /\ summary \in [Sessions -> RuntimeStatuses \cup {"cancelled", "crashed"}]
    /\ failed \in [Sessions -> 0..MaxFailures]
    /\ final \in [Sessions -> RuntimeStatuses]
    /\ request \in [Requests -> [op : {"none", "heartbeat", "health", "prepare-keyboard", "scan"},
                                 device : Devices \cup {"none"},
                                 seen : RuntimeStatuses \cup {"none"}]]
    /\ barred \in [Devices -> SUBSET {"isolated", "cooldown"}]
    /\ lost \in [Devices -> SUBSET {"quarantine", "cleanup"}]

\* Nothing is sent from a phone that a session has isolated until an operator
\* changes its status, nor from one that was rate limited until the cooldown
\* is over or its fuse is reset; unless the write that was to say so got lost.
NoSendingWhileBarred ==
    \A s \in Sessions : pc[s] = "working" =>
      barred[DeviceOf[s]] = {} \/ "quarantine" \in lost[DeviceOf[s]]

\* A phone shown as running, and so never selected again, has a session on it,
\* or lost one to a crash, or the database refused the last cleanup of one:
\* every other way out of run() gives the phone back.
RunningHasSession ==
    \A d \in Devices : runtime_status[d] = "running" =>
      \/ "cleanup" \in lost[d]
      \/ \E s \in Sessions : DeviceOf[s] = d /\
           (pc[s] \in {"working", "cleanup", "closing"} \/ summary[s] = "crashed")

\* The cleanup of a session does not put a phone back into service that
\* another path has quarantined.
Finishes(s) == pc[s] = "closing" /\ pc'[s] = "ended" /\ summary'[s] # "crashed"
CleanupKeepsQuarantine ==
    [][\A s \in Sessions : Finishes(s) =>
         LET d == DeviceOf[s] IN
         runtime_status[d] \in Quarantined => runtime_status'[d] \in Quarantined]_vars
=============================================================================
