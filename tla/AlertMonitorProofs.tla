-------------------------- MODULE AlertMonitorProofs --------------------------
(***************************************************************************)
(* Theorems about AlertMonitor for any intervals and troubles, and any     *)
(* number of refused mails, lost writes and restarts.                      *)
(***************************************************************************)
EXTENDS AlertMonitor, TLAPS

(* A state that asks for a mail about the issue it is about.               *)
Due(state) ==
  \/ state.sent = Never /\ (state.attempt = Never \/ state.attempt >= Retry)
  \/ state.sent # Never /\ state.sent >= Cooldown

(* A state that knows of the last attempt, delivered or not.               *)
Tracks(state) ==
  IF last.ok THEN state.sent = last.age
  ELSE state.sent = Never /\ state.attempt = last.age

(* A file that missed the last mail about its issue asks for another.      *)
FileTracks ==
  alert.active = last.key /\ alert.active # "none" => Tracks(alert) \/ Due(alert)

(* A mail under way is about an issue that is new or due.                  *)
MailIsDue ==
  pc = "mail" =>
    /\ draft.active \in Keys /\ draft.attempt # Never /\ draft.sent = Never
    /\ draft.active = alert.active => Due(alert)

(* What is about to be written knows of the mail that was tried.           *)
DraftTracks ==
  pc = "save" /\ draft.active # "none" => last.key = draft.active /\ Tracks(draft)

(* A round that left a trace left it in the file, which then knows of the  *)
(* last attempt about its issue.                                           *)
SeenIsFiled ==
  pc # "save" /\ seen # "unknown" =>
    /\ seen = alert.active
    /\ last.key = alert.active /\ alert.active # "none" => Tracks(alert)

IInv == TypeOK /\ FileTracks /\ MailIsDue /\ DraftTracks /\ SeenIsFiled
-----------------------------------------------------------------------------
LEMMA Numbers ==
  /\ Grace \in Nat /\ Retry \in Nat \ {0} /\ Cooldown \in Nat \ {0}
  /\ Longest \in Nat /\ Retry <= Longest /\ Cooldown <= Longest
  /\ Never = -1
<1>1. {Grace, MaxRefusals, MaxLostWrites, MaxCrashes} \subseteq Nat
      /\ Retry \in Nat \ {0} /\ Cooldown \in Nat \ {0}
  BY MonitorAssumption
<1>2. QED
  BY <1>1, SMT DEF Longest, Never

LEMMA IssueIsKnown == Issue \in Keys \cup {"none"}
<1> DEFINE checks == <<CheckRiotAuthMarker, CheckAPI, CheckWorkerAuthHeartbeat,
                       CheckWorkerContainer, CheckWorkerHeartbeat>>
           found == {i \in DOMAIN checks : checks[i] # "none"}
<1>1. CheckRiotAuthMarker \in Keys \cup {"none"}
  BY DEF CheckRiotAuthMarker, Keys
<1>2. CheckAPI \in Keys \cup {"none"}
  BY DEF CheckAPI, Keys
<1>3. CheckWorkerAuthHeartbeat \in Keys \cup {"none"}
  BY DEF CheckWorkerAuthHeartbeat, Keys
<1>4. CheckWorkerContainer \in Keys \cup {"none"}
  BY DEF CheckWorkerContainer, Keys
<1>5. CheckWorkerHeartbeat \in Keys \cup {"none"}
  BY DEF CheckWorkerHeartbeat, Keys
<1>6. DOMAIN checks = 1..5
  BY SMT
<1>7. \A i \in 1..5 : checks[i] \in Keys \cup {"none"}
  BY <1>1, <1>2, <1>3, <1>4, <1>5, SMT
<1>8. Issue = IF found = {} THEN "none"
              ELSE checks[CHOOSE i \in found : \A j \in found : i <= j]
  BY DEF Issue
<1>9. found \subseteq 1..5
  BY <1>6
<1> HIDE DEF checks, found
<1>10. ASSUME found # {}
       PROVE  \E i \in found : \A j \in found : i <= j
  <2>1. \A j \in found : j = 1 \/ j = 2 \/ j = 3 \/ j = 4 \/ j = 5
    BY <1>9, SMT
  <2>2. CASE 1 \in found
    BY <2>1, <2>2, SMT
  <2>3. CASE 1 \notin found /\ 2 \in found
    BY <2>1, <2>3, SMT
  <2>4. CASE 1 \notin found /\ 2 \notin found /\ 3 \in found
    BY <2>1, <2>4, SMT
  <2>5. CASE 1 \notin found /\ 2 \notin found /\ 3 \notin found /\ 4 \in found
    BY <2>1, <2>5, SMT
  <2>6. CASE 1 \notin found /\ 2 \notin found /\ 3 \notin found /\ 4 \notin found
    BY <1>10, <2>1, <2>6, SMT
  <2>7. QED
    BY <2>2, <2>3, <2>4, <2>5, <2>6
<1>11. QED
  BY <1>7, <1>8, <1>9, <1>10

LEMMA OlderAge ==
  ASSUME NEW age \in Never..Longest
  PROVE  /\ Older(age) \in Never..Longest
         /\ age = Never <=> Older(age) = Never
         /\ age # Never => Older(age) >= age
BY Numbers, SMT DEF Older

LEMMA AgedState ==
  ASSUME NEW state \in AlertStates
  PROVE  /\ Aged(state) \in AlertStates /\ Aged(state).active = state.active
         /\ Aged(state).attempt = Older(state.attempt) /\ Aged(state).sent = Older(state.sent)
         /\ Due(state) => Due(Aged(state))
<1>1. state.attempt \in Never..Longest /\ state.sent \in Never..Longest
  BY DEF AlertStates
<1>2. Older(state.attempt) \in Never..Longest /\ Older(state.sent) \in Never..Longest
  BY <1>1, OlderAge
<1>3. /\ Aged(state) \in AlertStates /\ Aged(state).active = state.active
      /\ Aged(state).attempt = Older(state.attempt) /\ Aged(state).sent = Older(state.sent)
  BY <1>2 DEF AlertStates, Aged
<1>4. ASSUME Due(state)
      PROVE  Due(Aged(state))
  <2>1. /\ state.attempt = Never <=> Older(state.attempt) = Never
        /\ state.attempt # Never => Older(state.attempt) >= state.attempt
        /\ state.sent = Never <=> Older(state.sent) = Never
        /\ state.sent # Never => Older(state.sent) >= state.sent
    BY <1>1, OlderAge
  <2>2. QED
    BY <1>1, <1>2, <1>3, <1>4, <2>1, Numbers, SMT DEF Due
<1>5. QED
  BY <1>3, <1>4

(* Time passes alike for the file, the draft and the last attempt.         *)
LEMMA TickKeeps ==
  ASSUME IInv, Tick
  PROVE  IInv'
<1>1. alert \in AlertStates /\ draft \in AlertStates
  BY DEF IInv, TypeOK
<1>2. /\ due' = TRUE /\ up' = (IF up < Grace THEN up + 1 ELSE up)
      /\ alert' = Aged(alert) /\ draft' = Aged(draft)
      /\ last' = [last EXCEPT !.age = Older(@)]
      /\ UNCHANGED <<marker, api, beat, box, pc, seen, budget>>
  BY DEF Tick, watched
<1>3. last \in [key : Keys \cup {"none"}, ok : BOOLEAN, age : 0..Longest]
  BY DEF IInv, TypeOK
<1>4. Older(last.age) \in 0..Longest
  BY <1>3, Numbers, SMT DEF Older
<1>5. /\ last'.key = last.key /\ last'.ok = last.ok /\ last'.age = Older(last.age)
      /\ last' \in [key : Keys \cup {"none"}, ok : BOOLEAN, age : 0..Longest]
  BY <1>2, <1>3, <1>4
<1>6. TypeOK'
  <2>1. up' \in 0..Grace
    BY <1>2, Numbers, SMT DEF IInv, TypeOK
  <2>2. alert' \in AlertStates /\ draft' \in AlertStates
    BY <1>1, <1>2, AgedState
  <2>3. (Issue \in Keys \cup {"none"})'
    BY IssueIsKnown, PTL
  <2>4. QED
    BY <1>2, <1>5, <2>1, <2>2, <2>3 DEF IInv, TypeOK
<1>7. /\ alert'.active = alert.active /\ draft'.active = draft.active
      /\ Due(alert) => Due(alert')
      /\ draft.attempt # Never => draft'.attempt # Never
      /\ draft.sent = Never => draft'.sent = Never
  <2>1. draft.attempt \in Never..Longest /\ draft.sent \in Never..Longest
    BY <1>1 DEF AlertStates
  <2>2. QED
    BY <1>1, <1>2, <2>1, AgedState, OlderAge
<1>8. /\ Tracks(alert) => Tracks(alert)'
      /\ Tracks(draft) => Tracks(draft)'
  <2>1. ASSUME NEW state \in AlertStates, NEW older, older = Aged(state), Tracks(state)
        PROVE  IF last'.ok THEN older.sent = last'.age
               ELSE older.sent = Never /\ older.attempt = last'.age
    BY <1>5, <2>1, AgedState DEF Tracks, Older
  <2>2. QED
    BY <1>1, <1>2, <2>1 DEF Tracks
<1>9. QED
  BY <1>2, <1>5, <1>6, <1>7, <1>8 DEF IInv, FileTracks, MailIsDue, DraftTracks, SeenIsFiled, Due
-----------------------------------------------------------------------------
(* Type correctness, one step per action.                                  *)
LEMMA TypeStep ==
  ASSUME IInv, [Next]_vars
  PROVE  TypeOK'
<1>1. alert \in AlertStates /\ draft \in AlertStates /\ (Issue \in Keys \cup {"none"})'
  <2>1. (Issue \in Keys \cup {"none"})'
    BY IssueIsKnown, PTL
  <2>2. QED
    BY <2>1 DEF IInv, TypeOK
<1>2. NoAlert \in AlertStates /\ "none" \in Keys \cup {"none", "unknown"}
  BY Numbers, SMT DEF NoAlert, AlertStates
<1>3. CASE AllWell
  BY <1>1, <1>2, <1>3 DEF AllWell, watched, history, IInv, TypeOK
<1>4. CASE KeepQuiet
  BY <1>1, <1>4 DEF KeepQuiet, watched, history, IInv, TypeOK
<1>5. CASE Raise
  <2>1. draft' \in AlertStates
    BY <1>5, Numbers, IssueIsKnown, SMT DEF Raise, Attempted, AlertStates
  <2>2. QED
    BY <1>1, <1>5, <2>1 DEF Raise, watched, history, IInv, TypeOK
<1>6. CASE Send \/ SendFails
  <2>1. /\ pc = "mail" /\ pc' = "save" /\ seen' = draft.active /\ UNCHANGED <<up, due, alert>>
        /\ \E ok \in BOOLEAN : last' = [key |-> draft.active, ok |-> ok, age |-> draft.attempt]
        /\ draft' = draft \/ draft' = [draft EXCEPT !.sent = draft.attempt]
    BY <1>6 DEF Send, SendFails, Outcome
  <2>2. draft.attempt # Never /\ draft.attempt \in Never..Longest /\ draft.active \in Keys
    BY <1>1, <2>1 DEF IInv, MailIsDue, AlertStates
  <2>3. draft.attempt \in 0..Longest
    BY <2>2, Numbers, SMT
  <2>4. draft' \in AlertStates
    BY <1>1, <2>1, <2>2 DEF AlertStates
  <2>5. last' \in [key : Keys \cup {"none"}, ok : BOOLEAN, age : 0..Longest]
    BY <2>1, <2>2, <2>3
  <2>6. QED
    BY <1>1, <2>1, <2>2, <2>4, <2>5 DEF IInv, TypeOK
<1>7. CASE WriteState
  <2>1. draft.active \in Keys \cup {"none", "unknown"}
    BY <1>1 DEF AlertStates
  <2>2. QED
    BY <1>1, <1>7, <2>1 DEF WriteState, watched, IInv, TypeOK
<1>8. CASE WriteFails
  BY <1>1, <1>8 DEF WriteFails, watched, IInv, TypeOK
<1>9. CASE Restart
  <2>1. 0 \in 0..Grace
    BY Numbers, SMT
  <2>2. QED
    BY <1>1, <1>9, <2>1 DEF Restart, watched, IInv, TypeOK
<1>10. CASE Tick
  BY <1>10, TickKeeps DEF IInv
<1>11. CASE Change
  BY <1>1, <1>11 DEF Change, history, IInv, TypeOK
<1>12. CASE UNCHANGED vars
  BY <1>1, <1>12 DEF vars, history, IInv, TypeOK
<1>13. QED
  BY <1>3, <1>4, <1>5, <1>6, <1>7, <1>8, <1>9, <1>10, <1>11, <1>12 DEF Next, Round

(* What the file, the draft and the history know of each other.            *)
Known == FileTracks /\ MailIsDue /\ DraftTracks /\ SeenIsFiled

LEMMA KnownStep ==
  ASSUME IInv, [Next]_vars
  PROVE  Known'
<1>1. ASSUME UNCHANGED <<alert, draft, last, pc, seen>>
      PROVE  Known'
  BY <1>1 DEF IInv, Known, FileTracks, MailIsDue, DraftTracks, SeenIsFiled, Tracks, Due
<1>2. alert \in AlertStates /\ draft \in AlertStates /\ "none" \notin Keys /\ "unknown" \notin Keys
  BY DEF IInv, TypeOK, Keys, Transient
<1>3. CASE AllWell
  <2>1. /\ pc = "idle" /\ pc' # "mail" /\ UNCHANGED <<alert, last>> /\ draft'.active = "none"
        /\ pc' # "save" => alert.active = "none" /\ seen' = "none"
    BY <1>3 DEF AllWell, NoAlert
  <2>2. QED
    BY <2>1 DEF IInv, Known, FileTracks, MailIsDue, DraftTracks, SeenIsFiled, Tracks, Due
<1>4. CASE KeepQuiet
  <2>1. /\ pc = "idle" /\ pc' = "idle" /\ UNCHANGED <<alert, last>>
        /\ seen' = alert.active /\ ~Due(alert)
    BY <1>4 DEF KeepQuiet, ShouldSend, Due
  <2>2. QED
    BY <2>1 DEF IInv, Known, FileTracks, MailIsDue, DraftTracks, SeenIsFiled, Tracks, Due
<1>5. CASE Raise
  <2>1. /\ pc = "idle" /\ pc' = "mail" /\ UNCHANGED <<alert, last, seen>>
        /\ draft'.active = Issue /\ draft'.attempt = 0 /\ draft'.sent = Never /\ Issue \in Keys
        /\ Issue = alert.active => Due(alert)
    BY <1>5, IssueIsKnown DEF Raise, history, ShouldSend, Due, Attempted
  <2>2. QED
    BY <2>1, Numbers DEF IInv, Known, FileTracks, MailIsDue, DraftTracks, SeenIsFiled, Tracks, Due
<1>6. CASE Send \/ SendFails
  <2>1. /\ pc = "mail" /\ pc' = "save" /\ UNCHANGED alert
        /\ last'.key = draft.active /\ last'.age = draft.attempt
        /\ draft'.active = draft.active /\ draft'.attempt = draft.attempt
    BY <1>2, <1>6 DEF Send, SendFails, Outcome, AlertStates
  <2>2. IF last'.ok THEN draft'.sent = last'.age
        ELSE draft'.sent = draft.sent /\ draft'.attempt = last'.age
    BY <1>2, <1>6 DEF Send, SendFails, Outcome, AlertStates
  <2>3. FileTracks'
    BY <2>1 DEF IInv, MailIsDue, FileTracks, Due
  <2>4. draft.sent = Never
    BY <2>1 DEF IInv, MailIsDue
  <2>5. DraftTracks'
    BY <2>1, <2>2, <2>4 DEF DraftTracks, Tracks
  <2>6. QED
    BY <2>1, <2>3, <2>5 DEF Known, MailIsDue, SeenIsFiled
<1>7. CASE WriteState
  <2>1. /\ pc = "save" /\ pc' = "idle" /\ alert' = draft /\ UNCHANGED <<draft, last>>
        /\ seen' = draft.active
    BY <1>7 DEF WriteState
  <2>2. QED
    BY <2>1 DEF IInv, Known, FileTracks, MailIsDue, DraftTracks, SeenIsFiled, Tracks, Due
<1>8. CASE WriteFails \/ Restart
  <2>1. /\ pc' = "idle" /\ UNCHANGED <<alert, draft, last>>
        /\ seen' = "unknown" \/ (pc # "save" /\ seen' = seen)
    BY <1>8 DEF WriteFails, Restart
  <2>2. QED
    BY <2>1 DEF IInv, Known, FileTracks, MailIsDue, DraftTracks, SeenIsFiled, Tracks, Due
<1>9. CASE Tick
  BY <1>9, TickKeeps DEF IInv, Known
<1>10. CASE Change \/ UNCHANGED vars
  BY <1>1, <1>10 DEF Change, vars, history
<1>11. QED
  BY <1>3, <1>4, <1>5, <1>6, <1>7, <1>8, <1>9, <1>10 DEF Next, Round
-----------------------------------------------------------------------------
(* IInv holds of every behaviour.                                          *)
THEOREM Invariance == Spec => []IInv
<1>1. Init => IInv
  <2> SUFFICES ASSUME Init PROVE IInv
    OBVIOUS
  <2>1. NoAlert \in AlertStates /\ 0 \in 0..Grace /\ 0 \in 0..Longest
    BY Numbers, SMT DEF NoAlert, AlertStates
  <2>2. TypeOK
    BY <2>1, IssueIsKnown DEF Init, TypeOK
  <2>3. FileTracks /\ MailIsDue /\ DraftTracks /\ SeenIsFiled
    BY DEF Init, NoAlert, FileTracks, MailIsDue, DraftTracks, SeenIsFiled
  <2>4. QED
    BY <2>2, <2>3 DEF IInv
<1>2. IInv /\ [Next]_vars => IInv'
  BY TypeStep, KnownStep DEF IInv, Known
<1>3. QED
  BY <1>1, <1>2, PTL DEF Spec

(* Every variable keeps its values, and ages their cut-off.                *)
THEOREM TypeCorrect == Spec => []TypeOK
<1>1. IInv => TypeOK
  BY DEF IInv
<1>2. QED
  BY <1>1, Invariance, PTL

(* While an issue lasts the operator is not mailed about it sooner than    *)
(* the cooldown or the retry interval allows, for any intervals and across *)
(* any number of restarts (shouldSend).                                    *)
THEOREM MailsAreSpaced == Spec => []MailIsSpaced
<1>1. IInv => MailIsSpaced
  <2> SUFFICES ASSUME IInv, pc = "mail", seen = draft.active, last.key = draft.active
               PROVE  last.age >= (IF last.ok THEN Cooldown ELSE Retry)
    BY DEF MailIsSpaced
  <2>1. draft.active \in Keys /\ "unknown" \notin Keys /\ "none" \notin Keys
    BY DEF IInv, MailIsDue, Keys, Transient
  <2>2. Tracks(alert) /\ Due(alert)
    BY <2>1 DEF IInv, MailIsDue, SeenIsFiled
  <2>3. last.age \in 0..Longest
    BY DEF IInv, TypeOK
  <2>4. QED
    BY <2>2, <2>3, Numbers, SMT DEF Tracks, Due
<1>2. QED
  BY <1>1, Invariance, PTL

(* A round that finds another issue than the round before mails it, for    *)
(* any history of mails, refusals and restarts (shouldSend).               *)
THEOREM NewIssuesAreMailed == Spec => NewIssueIsMailed
<1>1. IInv /\ [Next]_vars =>
        [ pc = "idle" /\ due /\ ~due' /\ Issue \notin {"none", seen} /\ seen # "unknown"
            => pc' = "mail" ]_vars
  <2> SUFFICES ASSUME IInv, [Next]_vars, pc = "idle", due, ~due',
                      Issue \notin {"none", seen}, seen # "unknown"
               PROVE  pc' = "mail"
    OBVIOUS
  <2>1. seen = alert.active
    BY DEF IInv, SeenIsFiled
  <2>2. ShouldSend(Issue)
    BY <2>1 DEF ShouldSend
  <2>3. Raise
    BY <2>2 DEF Next, Round, AllWell, KeepQuiet, Send, SendFails, Outcome, WriteState,
       WriteFails, Restart, Tick, Change, vars
  <2>4. QED
    BY <2>3 DEF Raise
<1>2. QED
  BY <1>1, Invariance, PTL DEF Spec, NewIssueIsMailed
=============================================================================
