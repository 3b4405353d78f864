---------------------------- MODULE AlertMonitor ----------------------------
(***************************************************************************)
(* The monitor process: a round every MONITOR_INTERVAL that checks the     *)
(* Riot auth marker, the API, the worker's heartbeat and its container,    *)
(* and mails the operator about the first thing wrong.  What it mailed is  *)
(* in a state file, so a restart neither forgets nor repeats an alert;     *)
(* mail goes out before the file is written, and either can fail.          *)
(*                                                                         *)
(* What is watched changes at any moment, so reading all of it in one step *)
(* loses no outcome of Check.  A unit of time is one monitor interval;     *)
(* times are kept as ages, cut off where the code stops telling them apart.*)
(***************************************************************************)
EXTENDS Integers, FiniteSets

CONSTANTS
  WorkerRequired, \* MONITOR_WORKER_REQUIRED
  Grace,          \* MONITOR_STARTUP_GRACE
  Retry,          \* MONITOR_ALERT_RETRY
  Cooldown,       \* MONITOR_ALERT_COOLDOWN
  Troubles,       \* bound: what can go wrong, of the values below
  MaxRefusals,    \* bound: mails the SMTP server refuses
  MaxLostWrites,  \* bound: writes of the state file that fail
  MaxCrashes      \* bound: restarts of the monitor

MarkerTroubles == {"present", "unreadable"}
Transient == {"api-unreachable", "api-unhealthy-status"}
BeatTroubles == {"absent", "auth_failed", "garbled", "undated"}
BoxTroubles == {"down", "unknown"}

ASSUME MonitorAssumption ==
  /\ Troubles \subseteq MarkerTroubles \cup Transient \cup {"riot-auth-failed"}
                     \cup BeatTroubles \cup BoxTroubles
  /\ WorkerRequired \in BOOLEAN
  /\ {Grace, MaxRefusals, MaxLostWrites, MaxCrashes} \subseteq Nat
  /\ Retry \in Nat \ {0} /\ Cooldown \in Nat \ {0}

VARIABLES
  marker, \* the Riot auth marker file
  api,    \* what GET /api/health answers
  beat,   \* the worker's heartbeat file
  box,    \* what Docker says of the worker's container
  up,     \* age of the monitor process, up to Grace
  due,    \* the ticker has fired and no round has answered it
  pc,     \* "idle", "mail" or "save"
  alert,  \* the state file
  draft,  \* the state the round is about to write
  seen,   \* history: issue of the last round, "unknown" when it left no trace
  last,   \* history: the last attempt to mail
  budget  \* refusals, lost writes and crashes still allowed

watched == <<marker, api, beat, box>>
history == <<seen, last>>
vars == <<watched, up, due, pc, alert, draft, history, budget>>

Keys == Transient \cup
  {"riot-auth-marker-unreadable", "riot-auth-failed", "worker-container-down",
   "worker-heartbeat-missing", "worker-heartbeat-invalid"}
Never == -1   \* the zero time
Longest == IF Retry > Cooldown THEN Retry ELSE Cooldown
AlertStates == [active : Keys \cup {"none"}, attempt : Never..Longest, sent : Never..Longest]
NoAlert == [active |-> "none", attempt |-> Never, sent |-> Never]
-----------------------------------------------------------------------------
CheckRiotAuthMarker ==
  CASE marker = "present"    -> "riot-auth-failed"
    [] marker = "unreadable" -> "riot-auth-marker-unreadable"
    [] OTHER                 -> "none"

(* checkAPI, and the grace Check gives to a failure that may be transient. *)
CheckAPI ==
  CASE api = "riot-auth-failed" -> api
    [] api \in Transient /\ up >= Grace -> api
    [] OTHER -> "none"

CheckWorkerAuthHeartbeat ==
  IF beat = "auth_failed" THEN "riot-auth-failed" ELSE "none"

CheckWorkerContainer ==
  IF WorkerRequired /\ box = "down" /\ up >= Grace THEN "worker-container-down" ELSE "none"

(* A stale heartbeat is only logged.                                       *)
CheckWorkerHeartbeat ==
  CASE beat = "absent" /\ WorkerRequired -> "worker-heartbeat-missing"
    [] beat = "garbled"                  -> "worker-heartbeat-missing"
    [] beat = "undated"                  -> "worker-heartbeat-invalid"
    [] OTHER                             -> "none"

(* Check: the first issue found.                                           *)
Issue ==
  LET checks == <<CheckRiotAuthMarker, CheckAPI, CheckWorkerAuthHeartbeat,
                  CheckWorkerContainer, CheckWorkerHeartbeat>>
      found == {i \in DOMAIN checks : checks[i] # "none"}
  IN  IF found = {} THEN "none" ELSE checks[CHOOSE i \in found : \A j \in found : i <= j]

SendsEarly(issue) == alert.active # issue \/ alert.sent = Never \/ alert.sent >= Cooldown

SendsOnce(issue) ==
  alert.active # issue \/ (alert.sent = Never /\ alert.attempt >= Retry)

(* shouldSend: a new issue at once, a failed mail again after Retry, a      *)
(* delivered one again after Cooldown.                                     *)
ShouldSend(issue) ==
  \/ alert.active # issue
  \/ /\ alert.sent = Never
     /\ alert.attempt = Never \/ alert.attempt >= Retry
  \/ /\ alert.sent # Never
     /\ alert.sent >= Cooldown

(* What the round will write: an attempt, which send turns into a delivery.*)
Attempted(issue) == [active |-> issue, attempt |-> 0, sent |-> Never]
-----------------------------------------------------------------------------
Spend(what) ==
  /\ budget[what] > 0
  /\ budget' = [budget EXCEPT ![what] = @ - 1]

(* Run: the first round starts at once.                                    *)
Init ==
  /\ marker = "absent" /\ api = "ok" /\ beat = "active" /\ box = "running"
  /\ up = 0 /\ due = TRUE /\ pc = "idle"
  /\ alert = NoAlert /\ draft = NoAlert
  /\ seen = "none"
  /\ last = [key |-> "none", ok |-> FALSE, age |-> 0]
  /\ budget = [refusals |-> MaxRefusals, writes |-> MaxLostWrites, crashes |-> MaxCrashes]

KeepsAlert ==
  /\ pc = "idle" /\ due
  /\ Issue = "none"
  /\ due' = FALSE
  /\ seen' = "none"
  /\ UNCHANGED <<watched, up, pc, alert, draft, last, budget>>

(* runOnce, nothing wrong: an active alert is cleared from the file.       *)
AllWell ==
  /\ pc = "idle" /\ due
  /\ Issue = "none"
  /\ due' = FALSE
  /\ IF alert.active = "none"
       THEN pc' = pc /\ seen' = "none"
       ELSE pc' = "save" /\ seen' = seen
  /\ draft' = NoAlert
  /\ UNCHANGED <<watched, up, alert, last, budget>>

(* runOnce, an alert that is neither new nor due for a reminder.           *)
KeepQuiet ==
  /\ pc = "idle" /\ due
  /\ Issue # "none" /\ ~ShouldSend(Issue)
  /\ due' = FALSE
  /\ seen' = Issue
  /\ UNCHANGED <<watched, up, pc, alert, draft, last, budget>>

(* runOnce, an alert to mail.                                              *)
Raise ==
  /\ pc = "idle" /\ due
  /\ Issue # "none" /\ ShouldSend(Issue)
  /\ due' = FALSE
  /\ draft' = Attempted(Issue)
  /\ pc' = "mail"
  /\ UNCHANGED <<watched, up, alert, history, budget>>

Outcome(ok) ==
  /\ pc = "mail"
  /\ pc' = "save"
  /\ last' = [key |-> draft.active, ok |-> ok, age |-> draft.attempt]
  /\ seen' = draft.active
  /\ UNCHANGED <<watched, up, due, alert>>

(* send returns: LastSentAt is the time of the attempt.                    *)
Send ==
  /\ Outcome(TRUE)
  /\ draft' = [draft EXCEPT !.sent = draft.attempt]
  /\ UNCHANGED budget

(* The mail server refuses, or its answer is lost.                         *)
SendFails ==
  /\ Outcome(FALSE)
  /\ Spend("refusals")
  /\ UNCHANGED draft

(* writeState: a temporary file, renamed over the old one.                 *)
WriteState ==
  /\ pc = "save"
  /\ alert' = draft
  /\ pc' = "idle"
  /\ seen' = draft.active
  /\ UNCHANGED <<watched, up, due, draft, last, budget>>

WriteFails ==
  /\ pc = "save"
  /\ Spend("writes")
  /\ pc' = "idle"
  /\ seen' = "unknown"
  /\ UNCHANGED <<watched, up, due, alert, draft, last>>

(* The monitor dies and Docker starts it again.                            *)
Restart ==
  /\ Spend("crashes")
  /\ up' = 0 /\ due' = TRUE
  /\ pc' = "idle"
  /\ seen' = IF pc = "save" THEN "unknown" ELSE seen
  /\ UNCHANGED <<watched, alert, draft, last>>

OlderForever(age) == IF age = Never THEN age ELSE age + 1

Older(age) == IF age = Never \/ age = Longest THEN age ELSE age + 1
Aged(state) == [state EXCEPT !.attempt = Older(@), !.sent = Older(@)]

(* An interval passes.  The ticker drops a tick nobody has read.           *)
Tick ==
  /\ due' = TRUE
  /\ up' = IF up < Grace THEN up + 1 ELSE up
  /\ alert' = Aged(alert) /\ draft' = Aged(draft)
  /\ last' = [last EXCEPT !.age = Older(@)]
  /\ UNCHANGED <<watched, pc, seen, budget>>

(* The rest of the system: what is watched changes.                        *)
Change ==
  /\ \/ /\ marker' \in {"absent"} \cup (MarkerTroubles \cap Troubles)
        /\ UNCHANGED <<api, beat, box>>
     \/ /\ api' \in {"ok"} \cup ((Transient \cup {"riot-auth-failed"}) \cap Troubles)
        /\ UNCHANGED <<marker, beat, box>>
     \/ /\ beat' \in {"active"} \cup (BeatTroubles \cap Troubles)
        /\ UNCHANGED <<marker, api, box>>
     \/ /\ box' \in {"running"} \cup (BoxTroubles \cap Troubles)
        /\ UNCHANGED <<marker, api, beat>>
  /\ UNCHANGED <<up, due, pc, alert, draft, history, budget>>

Round == AllWell \/ KeepQuiet \/ Raise \/ Send \/ SendFails \/ WriteState \/ WriteFails
Next == Round \/ Restart \/ Tick \/ Change

(* The ticker never stops and every round ends.                            *)
Spec == Init /\ [][Next]_vars /\ WF_vars(Round) /\ WF_vars(Tick)
-----------------------------------------------------------------------------
(* The values each variable takes; ages stay within their cut-off.         *)
TypeOK ==
  /\ Issue \in Keys \cup {"none"}
  /\ up \in 0..Grace /\ due \in BOOLEAN
  /\ pc \in {"idle", "mail", "save"}
  /\ {alert, draft} \subseteq AlertStates
  /\ seen \in Keys \cup {"none", "unknown"}
  /\ last \in [key : Keys \cup {"none"}, ok : BOOLEAN, age : 0..Longest]

(* While an issue lasts, across restarts of the monitor, the operator is   *)
(* mailed about it again only a Cooldown after the last mail, or a Retry   *)
(* after the last failed one; unless a round left no trace in the file.    *)
MailIsSpaced ==
  pc = "mail" /\ seen = draft.active /\ last.key = draft.active =>
    last.age >= (IF last.ok THEN Cooldown ELSE Retry)

(* A round that finds another issue than the round before mails it, however *)
(* recently the same issue was mailed before it went away; unless the round *)
(* before left no trace.                                                   *)
NewIssueIsMailed ==
  [][ pc = "idle" /\ due /\ ~due' /\ Issue \notin {"none", seen} /\ seen # "unknown"
        => pc' = "mail" ]_vars

(* An issue that stays is mailed, and the operator reminded, for ever: past *)
(* the startup grace, refused mails, lost writes and restarts.             *)
IssueIsMailed ==
  \A k \in Keys :
    <>[](Issue = k) => []<>(pc = "save" /\ draft.active = k /\ draft.sent # Never)

(* Once all is well for good, the state file forgets the alert.            *)
RecoveryIsNoted == <>[](Issue = "none") => <>[](alert = NoAlert)
=============================================================================
