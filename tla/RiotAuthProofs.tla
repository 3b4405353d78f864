---------------------------- MODULE RiotAuthProofs ----------------------------
(***************************************************************************)
(* Theorems about RiotAuth for every set of handlers, every limit and any  *)
(* number of keys and crashes.                                             *)
(***************************************************************************)
EXTENDS RiotAuth, TLAPS

(* A caller that used up its late request is past the look at the marker,  *)
(* and the marker is still there for its next look.                        *)
LateCallersMeetTheMarker ==
  \A c \in Callers :
    /\ late[c] \in {0, 1}
    /\ late[c] = 1 => marker /\ call[c] # "turn"

(* A worker that does not run has no call under way, and a 401 that no     *)
(* crash has answered for is in its hands or has stopped it.               *)
HitsAreSpent ==
  /\ worker # "up" => call["worker"] = "none"
  /\ IF worker # "up" \/ call["worker"] \in {"rejected", "unauthorized"}
     THEN hits <= restarts + 1
     ELSE hits <= restarts

(* No process with the newest key holds a 401.                             *)
NewKeyUntouched ==
  /\ ~marker
  /\ \A h \in Handlers : call[h] \notin {"rejected", "unauthorized"}

(* While Riot has not rejected the newest key, the script finds at each of *)
(* its steps what the earlier ones were to bring about.                    *)
ScriptOnCourse ==
  ~rejected =>
    /\ script = "recreate_api" => worker # "up"
    /\ script \in {"health", "start_worker"} =>
         key["api"] = newest /\ worker # "up" /\ NewKeyUntouched
    /\ script \in {"check_worker", "done"} =>
         /\ key["api"] = newest /\ key["worker"] = newest
         /\ NewKeyUntouched
         /\ worker \in {"up", "crashed"}
         /\ call["worker"] \notin {"rejected", "unauthorized"}
    /\ script = "failed" => worker = "crashed" /\ key["worker"] = newest

IInv ==
  /\ TypeOK
  /\ LateCallersMeetTheMarker
  /\ HitsAreSpent
  /\ ScriptOnCourse
-----------------------------------------------------------------------------
USE RiotAuthAssumption

(* The worker is a caller of the client, as the API's handlers are.        *)
LEMMA WorkerIsACaller == "worker" \in Callers
BY DEF Callers

(* A step of one call leaves the calls of the others where they are.       *)
LEMMA PlaceSet ==
  ASSUME TypeOK, NEW c \in Callers, NEW place, Goes(c, place)
  PROVE  /\ call'[c] = place
         /\ \A d \in Callers : d # c => call'[d] = call[d]
         /\ place \in Places => call' \in [Callers -> Places]
BY DEF TypeOK, Goes

(* ClearAuthFailureMarker gives every caller a new look at the marker.     *)
LEMMA MarkerCleared ==
  ASSUME ClearAuthFailureMarker
  PROVE  /\ marker' = FALSE
         /\ late' \in [Callers -> Nat]
         /\ \A c \in Callers : late'[c] = 0
BY DEF ClearAuthFailureMarker

(* The API's calls end with its process; the worker's goes on.             *)
LEMMA ApiDropsCalls ==
  ASSUME TypeOK,
         call' = [c \in Callers |-> IF c \in Handlers THEN "none" ELSE call[c]]
  PROVE  /\ call' \in [Callers -> Places]
         /\ call'["worker"] = call["worker"]
         /\ \A h \in Handlers : call'[h] = "none"
BY WorkerIsACaller DEF TypeOK, Callers, Places

(* The types of the state are kept by every step.                          *)
LEMMA TypeStep ==
  ASSUME TypeOK, [Next]_vars
  PROVE  TypeOK'
<1>1. ASSUME NEW c \in Callers, Begin(c) PROVE TypeOK'
  BY <1>1 DEF Begin, CheckMarker, Goes, TypeOK, Places, processes, operator
<1>2. ASSUME NEW c \in Callers, Send(c) PROVE TypeOK'
  BY <1>2 DEF Send, Goes, TypeOK, Places, processes, operator
<1>3. ASSUME NEW c \in Callers, Answer(c) PROVE TypeOK'
  BY <1>3 DEF Answer, Goes, TypeOK, Places, processes, operator
<1>4. ASSUME NEW c \in Callers, RateLimited(c) PROVE TypeOK'
  BY <1>4 DEF RateLimited, Goes, TypeOK, Places, processes, operator
<1>5. ASSUME NEW c \in Callers, Retry(c) PROVE TypeOK'
  BY <1>5 DEF Retry, Retries, CheckMarker, Goes, TypeOK, Places, processes, operator
<1>6. ASSUME NEW c \in Callers, Unauthorized(c) PROVE TypeOK'
  BY <1>6 DEF Unauthorized, Goes, TypeOK, Places, processes, operator
<1>7. ASSUME NEW c \in Callers, MarkAuthFailure(c) PROVE TypeOK'
  BY <1>7 DEF MarkAuthFailure, Goes, TypeOK, Places, processes, operator
<1>8. ASSUME NEW c \in Callers, Handle(c) PROVE TypeOK'
  BY <1>8 DEF Handle, Goes, StopForRiotAuthFailure, TypeOK, Places, operator
<1>9. CASE Watch
  BY <1>9 DEF Watch, Goes, StopForRiotAuthFailure, TypeOK, Places, operator
<1>10. CASE ApiCrash
  BY <1>10, ApiDropsCalls, MarkerCleared DEF ApiCrash, TypeOK, processes, operator
<1>11. CASE WorkerCrash
  <2>1. call' \in [Callers -> Places]
    BY <1>11, WorkerIsACaller, PlaceSet DEF WorkerCrash, Places
  <2>2. CASE restarts < RestartLimit
    <3>1. restarts' \in 0..RestartLimit
      BY <1>11, <2>2 DEF WorkerCrash, TypeOK
    <3>2. marker' \in BOOLEAN /\ late' \in [Callers -> Nat]
      BY <1>11, <2>2, MarkerCleared DEF WorkerCrash
    <3>3. QED
      BY <1>11, <2>1, <2>2, <3>1, <3>2 DEF WorkerCrash, TypeOK, operator
  <2>3. CASE ~(restarts < RestartLimit)
    BY <1>11, <2>1, <2>3 DEF WorkerCrash, TypeOK, operator
  <2>4. QED
    BY <2>2, <2>3
<1>12. CASE Propagates
  BY <1>12 DEF Propagates, TypeOK, processes, operator
<1>13. CASE Expires
  BY <1>13 DEF Expires, TypeOK, processes, operator
<1>14. CASE WriteEnvKey
  <2>1. key' \in [{"api", "worker"} -> 1..newest']
    BY <1>14 DEF WriteEnvKey, processes, TypeOK
  <2>2. newest' \in 1..MaxKeys
    BY <1>14 DEF WriteEnvKey, TypeOK
  <2>3. attempt' \in 1..MaxAttempts
    BY <1>14 DEF WriteEnvKey
  <2>4. QED
    BY <1>14, <2>1, <2>2, <2>3 DEF WriteEnvKey, TypeOK, processes
<1>15. CASE ClearMarker
  BY <1>15 DEF ClearMarker, ClearAuthFailureMarker, TypeOK, processes
<1>16. CASE StopWorker
  BY <1>16 DEF StopWorker, Goes, TypeOK, Places
<1>17. CASE RecreateApi
  <2>1. key' \in [{"api", "worker"} -> 1..newest']
    BY <1>17 DEF RecreateApi, TypeOK
  <2>2. QED
    BY <1>17, <2>1, ApiDropsCalls, MarkerCleared DEF RecreateApi, TypeOK
<1>18. CASE WaitForHealth
  BY <1>18 DEF WaitForHealth, TypeOK, Ended, processes
<1>19. CASE StartWorker
  <2>1. key' \in [{"api", "worker"} -> 1..newest']
    BY <1>19 DEF StartWorker, TypeOK
  <2>2. call' \in [Callers -> Places]
    BY <1>19, WorkerIsACaller, PlaceSet DEF StartWorker, Places
  <2>3. QED
    BY <1>19, <2>1, <2>2, MarkerCleared DEF StartWorker, TypeOK
<1>20. CASE CheckWorker
  <2>1. marker' \in BOOLEAN /\ late' \in [Callers -> Nat]
    BY <1>20, MarkerCleared DEF CheckWorker, TypeOK
  <2>2. script' \in {"done", "start_worker", "failed"} /\ attempt' \in 1..MaxAttempts
    BY <1>20 DEF CheckWorker, TypeOK
  <2>3. QED
    BY <1>20, <2>1, <2>2 DEF CheckWorker, TypeOK, Ended, processes
<1>21. CASE UNCHANGED vars
  BY <1>21 DEF vars, TypeOK, processes, operator
<1>22. QED
  BY <1>1, <1>2, <1>3, <1>4, <1>5, <1>6, <1>7, <1>8, <1>9, <1>10, <1>11, <1>12,
     <1>13, <1>14, <1>15, <1>16, <1>17, <1>18, <1>19, <1>20, <1>21 DEF Next, Call,
     Script

(* A late caller meets the marker at its next look.                        *)
LEMMA LateStep ==
  ASSUME TypeOK, LateCallersMeetTheMarker, [Next]_vars
  PROVE  LateCallersMeetTheMarker'
<1>1. ASSUME NEW c \in Callers, Begin(c) PROVE LateCallersMeetTheMarker'
  BY <1>1 DEF Begin, CheckMarker, Goes, LateCallersMeetTheMarker
<1>2. ASSUME NEW c \in Callers, Send(c) PROVE LateCallersMeetTheMarker'
  BY <1>2 DEF Send, Goes, TypeOK, LateCallersMeetTheMarker
<1>3. ASSUME NEW c \in Callers, Answer(c) PROVE LateCallersMeetTheMarker'
  BY <1>3 DEF Answer, Goes, LateCallersMeetTheMarker
<1>4. ASSUME NEW c \in Callers, RateLimited(c) PROVE LateCallersMeetTheMarker'
  BY <1>4 DEF RateLimited, Goes, LateCallersMeetTheMarker
<1>5. ASSUME NEW c \in Callers, Retry(c) PROVE LateCallersMeetTheMarker'
  BY <1>5 DEF Retry, Retries, CheckMarker, Goes, LateCallersMeetTheMarker
<1>6. ASSUME NEW c \in Callers, Unauthorized(c) PROVE LateCallersMeetTheMarker'
  BY <1>6 DEF Unauthorized, Goes, LateCallersMeetTheMarker
<1>7. ASSUME NEW c \in Callers, MarkAuthFailure(c) PROVE LateCallersMeetTheMarker'
  BY <1>7 DEF MarkAuthFailure, Goes, LateCallersMeetTheMarker
<1>8. ASSUME NEW c \in Callers, Handle(c) PROVE LateCallersMeetTheMarker'
  BY <1>8 DEF Handle, Goes, LateCallersMeetTheMarker
<1>9. CASE Watch
  BY <1>9 DEF Watch, Goes, LateCallersMeetTheMarker
<1>10. CASE ApiCrash
  BY <1>10 DEF ApiCrash, ClearAuthFailureMarker, LateCallersMeetTheMarker
<1>11. CASE WorkerCrash
  BY <1>11 DEF WorkerCrash, ClearAuthFailureMarker, Goes, LateCallersMeetTheMarker
<1>12. CASE Propagates
  BY <1>12 DEF Propagates, LateCallersMeetTheMarker
<1>13. CASE Expires
  BY <1>13 DEF Expires, LateCallersMeetTheMarker
<1>14. CASE WriteEnvKey
  BY <1>14 DEF WriteEnvKey, LateCallersMeetTheMarker
<1>15. CASE ClearMarker
  BY <1>15 DEF ClearMarker, ClearAuthFailureMarker, LateCallersMeetTheMarker
<1>16. CASE StopWorker
  BY <1>16 DEF StopWorker, Goes, LateCallersMeetTheMarker
<1>17. CASE RecreateApi
  BY <1>17 DEF RecreateApi, ClearAuthFailureMarker, LateCallersMeetTheMarker
<1>18. CASE WaitForHealth
  BY <1>18 DEF WaitForHealth, LateCallersMeetTheMarker
<1>19. CASE StartWorker
  BY <1>19 DEF StartWorker, ClearAuthFailureMarker, LateCallersMeetTheMarker
<1>20. CASE CheckWorker
  BY <1>20 DEF CheckWorker, ClearAuthFailureMarker, LateCallersMeetTheMarker
<1>21. CASE UNCHANGED vars
  BY <1>21 DEF vars, LateCallersMeetTheMarker
<1>22. QED
  BY <1>1, <1>2, <1>3, <1>4, <1>5, <1>6, <1>7, <1>8, <1>9, <1>10, <1>11, <1>12,
     <1>13, <1>14, <1>15, <1>16, <1>17, <1>18, <1>19, <1>20, <1>21 DEF Next, Call,
     Script

(* Only a crash gives the worker's container another 401.                  *)
LEMMA HitsStep ==
  ASSUME TypeOK, HitsAreSpent, [Next]_vars
  PROVE  HitsAreSpent'
<1>1. ASSUME NEW c \in Callers, Begin(c) PROVE HitsAreSpent'
  BY <1>1 DEF Begin, CheckMarker, Goes, Runs, HitsAreSpent, processes
<1>2. ASSUME NEW c \in Callers, Send(c) PROVE HitsAreSpent'
  BY <1>2 DEF Send, Goes, HitsAreSpent, processes
<1>3. ASSUME NEW c \in Callers, Answer(c) PROVE HitsAreSpent'
  BY <1>3 DEF Answer, Goes, HitsAreSpent, processes
<1>4. ASSUME NEW c \in Callers, RateLimited(c) PROVE HitsAreSpent'
  BY <1>4 DEF RateLimited, Goes, HitsAreSpent, processes
<1>5. ASSUME NEW c \in Callers, Retry(c) PROVE HitsAreSpent'
  BY <1>5 DEF Retry, Retries, CheckMarker, Goes, HitsAreSpent, processes
<1>6. ASSUME NEW c \in Callers, Unauthorized(c) PROVE HitsAreSpent'
  BY <1>6 DEF Unauthorized, Goes, TypeOK, HitsAreSpent, processes
<1>7. ASSUME NEW c \in Callers, MarkAuthFailure(c) PROVE HitsAreSpent'
  BY <1>7 DEF MarkAuthFailure, Goes, HitsAreSpent, processes
<1>8. ASSUME NEW c \in Callers, Handle(c) PROVE HitsAreSpent'
  BY <1>8 DEF Handle, Goes, IsAuthFailure, StopForRiotAuthFailure, TypeOK,
     HitsAreSpent
<1>9. CASE Watch
  BY <1>9 DEF Watch, Goes, StopForRiotAuthFailure, TypeOK, HitsAreSpent, Callers
<1>10. CASE ApiCrash
  BY <1>10 DEF ApiCrash, HitsAreSpent, Callers, processes
<1>11. CASE WorkerCrash
  BY <1>11 DEF WorkerCrash, Goes, TypeOK, HitsAreSpent, Callers
<1>12. CASE Propagates
  BY <1>12 DEF Propagates, HitsAreSpent, processes
<1>13. CASE Expires
  BY <1>13 DEF Expires, HitsAreSpent, processes
<1>14. CASE WriteEnvKey
  BY <1>14 DEF WriteEnvKey, HitsAreSpent, processes
<1>15. CASE ClearMarker
  BY <1>15 DEF ClearMarker, HitsAreSpent, processes
<1>16. CASE StopWorker
  BY <1>16 DEF StopWorker, Goes, TypeOK, HitsAreSpent, Callers
<1>17. CASE RecreateApi
  BY <1>17 DEF RecreateApi, HitsAreSpent, Callers
<1>18. CASE WaitForHealth
  BY <1>18 DEF WaitForHealth, HitsAreSpent, processes
<1>19. CASE StartWorker
  BY <1>19 DEF StartWorker, HitsAreSpent
<1>20. CASE CheckWorker
  BY <1>20 DEF CheckWorker, HitsAreSpent, processes
<1>21. CASE UNCHANGED vars
  BY <1>21 DEF vars, HitsAreSpent, processes
<1>22. QED
  BY <1>1, <1>2, <1>3, <1>4, <1>5, <1>6, <1>7, <1>8, <1>9, <1>10, <1>11, <1>12,
     <1>13, <1>14, <1>15, <1>16, <1>17, <1>18, <1>19, <1>20, <1>21 DEF Next, Call,
     Script

(* The script keeps its course.                                            *)
LEMMA CourseStep ==
  ASSUME TypeOK, HitsAreSpent, ScriptOnCourse, [Next]_vars
  PROVE  ScriptOnCourse'
<1>1. ASSUME NEW c \in Callers, Begin(c) PROVE ScriptOnCourse'
  BY <1>1 DEF Begin, CheckMarker, Goes, ScriptOnCourse, NewKeyUntouched, processes,
     operator
<1>2. ASSUME NEW c \in Callers, Send(c) PROVE ScriptOnCourse'
  BY <1>2 DEF Send, Goes, ScriptOnCourse, NewKeyUntouched, processes, operator
<1>3. ASSUME NEW c \in Callers, Answer(c) PROVE ScriptOnCourse'
  BY <1>3 DEF Answer, Goes, ScriptOnCourse, NewKeyUntouched, processes, operator
<1>4. ASSUME NEW c \in Callers, RateLimited(c) PROVE ScriptOnCourse'
  BY <1>4 DEF RateLimited, Goes, ScriptOnCourse, NewKeyUntouched, processes,
     operator
<1>5. ASSUME NEW c \in Callers, Retry(c) PROVE ScriptOnCourse'
  BY <1>5 DEF Retry, Retries, CheckMarker, Goes, ScriptOnCourse, NewKeyUntouched,
     processes, operator
<1>6. ASSUME NEW c \in Callers, Unauthorized(c) PROVE ScriptOnCourse'
  BY <1>6 DEF Unauthorized, Process, HitsAreSpent, ScriptOnCourse, processes,
     operator
<1>7. ASSUME NEW c \in Callers, MarkAuthFailure(c) PROVE ScriptOnCourse'
  BY <1>7 DEF MarkAuthFailure, HitsAreSpent, ScriptOnCourse, NewKeyUntouched,
     Callers, processes, operator
<1>8. ASSUME NEW c \in Callers, Handle(c) PROVE ScriptOnCourse'
  BY <1>8 DEF Handle, Goes, IsAuthFailure, HitsAreSpent, ScriptOnCourse,
     NewKeyUntouched, operator
<1>9. CASE Watch
  BY <1>9 DEF Watch, ScriptOnCourse, NewKeyUntouched, operator
<1>10. CASE ApiCrash
  BY <1>10 DEF ApiCrash, ClearAuthFailureMarker, ScriptOnCourse, NewKeyUntouched,
     Callers, processes, operator
<1>11. CASE WorkerCrash
  BY <1>11 DEF WorkerCrash, ClearAuthFailureMarker, Goes, ScriptOnCourse,
     NewKeyUntouched, operator
<1>12. CASE Propagates
  BY <1>12 DEF Propagates, ScriptOnCourse, NewKeyUntouched, processes, operator
<1>13. CASE Expires
  BY <1>13 DEF Expires, ScriptOnCourse, NewKeyUntouched, processes, operator
<1>14. CASE WriteEnvKey
  BY <1>14 DEF WriteEnvKey, ScriptOnCourse
<1>15. CASE ClearMarker
  BY <1>15 DEF ClearMarker, ScriptOnCourse
<1>16. CASE StopWorker
  BY <1>16 DEF StopWorker, ScriptOnCourse
<1>17. CASE RecreateApi
  BY <1>17 DEF RecreateApi, ClearAuthFailureMarker, TypeOK, ScriptOnCourse,
     NewKeyUntouched, Callers
<1>18. CASE WaitForHealth
  BY <1>18 DEF WaitForHealth, ScriptOnCourse, NewKeyUntouched, processes
<1>19. CASE StartWorker
  BY <1>19 DEF StartWorker, ClearAuthFailureMarker, Goes, TypeOK, HitsAreSpent,
     ScriptOnCourse, NewKeyUntouched
<1>20. CASE CheckWorker
  BY <1>20 DEF CheckWorker, ScriptOnCourse, NewKeyUntouched, processes
<1>21. CASE UNCHANGED vars
  BY <1>21 DEF vars, ScriptOnCourse, NewKeyUntouched, processes, operator
<1>22. QED
  BY <1>1, <1>2, <1>3, <1>4, <1>5, <1>6, <1>7, <1>8, <1>9, <1>10, <1>11, <1>12,
     <1>13, <1>14, <1>15, <1>16, <1>17, <1>18, <1>19, <1>20, <1>21 DEF Next, Call,
     Script

(* The strengthened invariant holds of every behaviour.                    *)
LEMMA Invariance == Spec => []IInv
<1>1. Init => IInv
  <2> SUFFICES ASSUME Init PROVE IInv
    OBVIOUS
  <2>1. key \in [{"api", "worker"} -> 1..newest]
    BY DEF Init
  <2>2. call \in [Callers -> Places] /\ late \in [Callers -> Nat]
    BY DEF Init, Places
  <2>3. /\ newest \in 1..MaxKeys /\ attempt \in 1..MaxAttempts
        /\ restarts \in 0..RestartLimit /\ crashes \in 0..MaxCrashes
        /\ hits \in Nat
    BY DEF Init
  <2>4. TypeOK
    <3>1. marker \in BOOLEAN /\ rejected \in BOOLEAN
      BY DEF Init
    <3>2. cond = "live" /\ worker = "up" /\ script \in Ended
      BY DEF Init, Ended
    <3>3. QED
      BY <2>1, <2>2, <2>3, <3>1, <3>2 DEF TypeOK
  <2>5. LateCallersMeetTheMarker /\ HitsAreSpent /\ ScriptOnCourse
    BY WorkerIsACaller DEF Init, LateCallersMeetTheMarker, HitsAreSpent,
       ScriptOnCourse
  <2>6. QED
    BY <2>4, <2>5 DEF IInv
<1>2. IInv /\ [Next]_vars => IInv'
  BY TypeStep, LateStep, HitsStep, CourseStep DEF IInv
<1>3. QED
  BY <1>1, <1>2, PTL DEF Spec
-----------------------------------------------------------------------------
(* Type correctness of the two processes and the script.                   *)
THEOREM TypeCorrect == Spec => []TypeOK
<1>1. IInv => TypeOK
  BY DEF IInv
<1>2. QED
  BY <1>1, Invariance, PTL

(* The tripwire holds however many handlers the API serves and however     *)
(* often a call is rate limited (getBytesWithRetries).                     *)
THEOREM TripwireHolds == Spec => []OneLateRequest
<1>1. IInv => OneLateRequest
  BY DEF IInv, LateCallersMeetTheMarker, OneLateRequest
<1>2. QED
  BY <1>1, Invariance, PTL

(* The worker's container gets one 401 and one more for each restart after *)
(* a crash, for every restart limit (stopForRiotAuthFailure).              *)
THEOREM NoLoopOnAnExpiredKey == Spec => []ExpiredKeyDoesNotLoop
<1>1. IInv => ExpiredKeyDoesNotLoop
  BY DEF IInv, TypeOK, HitsAreSpent, ExpiredKeyDoesNotLoop
<1>2. QED
  BY <1>1, Invariance, PTL

(* A refresh with a key Riot accepts ends with the worker running and no   *)
(* marker, for any number of requests, crashes and earlier refreshes       *)
(* (refresh-riot-key.sh).                                                  *)
THEOREM RefreshEndsWell == Spec => []RefreshRestores
<1>1. IInv => RefreshRestores
  BY DEF IInv, ScriptOnCourse, NewKeyUntouched, RefreshRestores
<1>2. QED
  BY <1>1, Invariance, PTL
=============================================================================
