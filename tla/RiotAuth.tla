------------------------------- MODULE RiotAuth -------------------------------
(***************************************************************************)
(* What an expired Riot key does to the API and the worker, and how the    *)
(* operator's refresh-riot-key script brings them back.                    *)
(*                                                                         *)
(* The two processes share one file, the authentication marker.  A client  *)
(* looks for it before a request, writes it when Riot answers 401 or 403,  *)
(* and each process removes it when it starts.  The worker also watches it *)
(* every five seconds.  A container keeps the key it was created with: a   *)
(* restart by Docker is a restart with the same key.                       *)
(*                                                                         *)
(* A key is known by its number; Riot accepts no key but the newest.  Left *)
(* out: the process without a key, the patch rollover of the script (it    *)
(* makes no Riot request) and the failure of its docker commands.          *)
(***************************************************************************)
EXTENDS Integers, FiniteSets

CONSTANTS
  Handlers,     \* requests the API serves at once
  RestartLimit, \* Docker's on-failure limit for the worker
  MaxAttempts,  \* WORKER_START_ATTEMPTS
  MaxKeys,      \* bound: keys the operator gets
  MaxCrashes    \* bound: crashes of a process

ASSUME RiotAuthAssumption ==
  /\ "worker" \notin Handlers
  /\ RestartLimit \in Nat /\ MaxCrashes \in Nat
  /\ MaxAttempts \in Nat \ {0} /\ MaxKeys \in Nat \ {0}

VARIABLES
  marker,   \* the marker file exists
  newest,   \* RIOT_API_KEY of .env, the newest key
  cond,     \* how Riot takes it: still propagating, live or expired
  key,      \* the key each container was created with
  worker,   \* the worker runs, or why it does not
  restarts, \* times Docker restarted the worker's container
  call,     \* where each caller is in getBytesWithRetries
  script,   \* the next step of refresh-riot-key.sh
  attempt,  \* its attempt to start the worker
  late,     \* history: requests a caller sent while this marker existed
  hits,     \* history: 401s the worker's container got
  rejected, \* history: Riot rejected the newest key
  crashes   \* crashes still allowed

processes == <<worker, restarts, key>>
operator == <<script, attempt, newest>>
vars == <<marker, cond, processes, call, operator, late, hits, rejected, crashes>>

Callers == Handlers \cup {"worker"}
Process(c) == IF c = "worker" THEN "worker" ELSE "api"
Runs(c) == c = "worker" => worker = "up"
Dead(process) == key[process] < newest \/ cond = "expired"
Ended == {"idle", "done", "failed"}
Places == {"none", "turn", "sent", "asleep", "rejected", "refused", "unauthorized"}
-----------------------------------------------------------------------------
Init ==
  /\ marker = FALSE
  /\ newest = 1 /\ cond = "live"
  /\ key = [p \in {"api", "worker"} |-> 1]
  /\ worker = "up" /\ restarts = 0
  /\ call = [c \in Callers |-> "none"]
  /\ script = "idle" /\ attempt = 1
  /\ late = [c \in Callers |-> 0]
  /\ hits = 0 /\ rejected = FALSE
  /\ crashes = MaxCrashes

(* IsAuthFailure of the error a call returned.  The client's own error for *)
(* a marker it found, "refused", is a 503 that does not name RIOT_API_KEY. *)
NamesOnlyTheMissingKey(error) == error = "unconfigured"

IsAuthFailure(error) == error = "unauthorized"

(* writeRiotError.                                                         *)
Reply(error) == IF IsAuthFailure(error) THEN "RIOT_API_KEY_UNAVAILABLE" ELSE "503"

Goes(c, place) == call' = [call EXCEPT ![c] = place]

(* ClearAuthFailureMarker.                                                 *)
ClearAuthFailureMarker ==
  /\ marker' = FALSE
  /\ late' = [c \in Callers |-> 0]

(* The call looks for the marker and then waits for its turn.              *)
CheckMarker(c) == Goes(c, IF marker THEN "refused" ELSE "turn")

Begin(c) ==
  /\ Runs(c)
  /\ call[c] = "none"
  /\ CheckMarker(c)
  /\ UNCHANGED <<marker, cond, processes, operator, late, hits, rejected, crashes>>

Send(c) ==
  /\ call[c] = "turn"
  /\ Goes(c, "sent")
  /\ late' = IF marker THEN [late EXCEPT ![c] = @ + 1] ELSE late
  /\ UNCHANGED <<marker, cond, processes, operator, hits, rejected, crashes>>

(* The call returns data, or an error that says nothing of the key: 404, a *)
(* 429 it does not wait for, another status, no answer.                    *)
Answer(c) ==
  /\ call[c] = "sent"
  /\ Goes(c, "none")
  /\ UNCHANGED <<marker, cond, processes, operator, late, hits, rejected, crashes>>

(* Riot answers 429: the call sleeps and tries again from the start.       *)
RateLimited(c) ==
  /\ call[c] = "sent"
  /\ Goes(c, "asleep")
  /\ UNCHANGED <<marker, cond, processes, operator, late, hits, rejected, crashes>>

RetriesAtOnce(c) == Goes(c, "turn")

Retries(c) == CheckMarker(c)

Retry(c) ==
  /\ call[c] = "asleep"
  /\ Retries(c)
  /\ UNCHANGED <<marker, cond, processes, operator, late, hits, rejected, crashes>>

(* Riot answers 401 or 403, as it also may to a key just made.             *)
Unauthorized(c) ==
  /\ call[c] = "sent"
  /\ Dead(Process(c)) \/ cond = "fresh"
  /\ Goes(c, "rejected")
  /\ hits' = IF c = "worker" THEN hits + 1 ELSE hits
  /\ rejected' = (rejected \/ key[Process(c)] = newest)
  /\ UNCHANGED <<marker, cond, processes, operator, late, crashes>>

(* markAuthFailure; a marker that exists is written over.                  *)
MarkAuthFailure(c) ==
  /\ call[c] = "rejected"
  /\ marker' = TRUE
  /\ Goes(c, "unauthorized")
  /\ UNCHANGED <<cond, processes, operator, late, hits, rejected, crashes>>

(* A handler answers its client; the worker's lanes note an error and go   *)
(* on, unless it is an authentication failure: stopForRiotAuthFailure.     *)
ExitsForDocker == worker' = "up" /\ restarts' = restarts + 1

StopForRiotAuthFailure == worker' = "unauthorized" /\ UNCHANGED restarts

Handle(c) ==
  /\ call[c] \in {"refused", "unauthorized"}
  /\ Goes(c, "none")
  /\ IF c = "worker" /\ IsAuthFailure(call[c])
     THEN StopForRiotAuthFailure
     ELSE UNCHANGED <<worker, restarts>>
  /\ UNCHANGED <<marker, cond, key, operator, late, hits, rejected, crashes>>

(* StartAuthFailureMonitor, in the worker only.                            *)
NotWatching == FALSE

Watch ==
  /\ worker = "up"
  /\ marker
  /\ Goes("worker", "none")
  /\ StopForRiotAuthFailure
  /\ UNCHANGED <<marker, cond, key, operator, late, hits, rejected, crashes>>
-----------------------------------------------------------------------------
(* A process crashes; Docker restarts the API always, the worker up to its *)
(* limit.                                                                  *)
ApiCrash ==
  /\ crashes > 0 /\ crashes' = crashes - 1
  /\ call' = [c \in Callers |-> IF c \in Handlers THEN "none" ELSE call[c]]
  /\ ClearAuthFailureMarker
  /\ UNCHANGED <<cond, processes, operator, hits, rejected>>

WorkerCrash ==
  /\ worker = "up"
  /\ crashes > 0 /\ crashes' = crashes - 1
  /\ Goes("worker", "none")
  /\ IF restarts < RestartLimit
     THEN restarts' = restarts + 1 /\ ClearAuthFailureMarker /\ UNCHANGED worker
     ELSE worker' = "crashed" /\ UNCHANGED <<restarts, marker, late>>
  /\ UNCHANGED <<cond, key, operator, hits, rejected>>

(* Riot: a new key is known everywhere at some point, and expires.         *)
Propagates ==
  /\ cond = "fresh"
  /\ cond' = "live"
  /\ UNCHANGED <<marker, processes, call, operator, late, hits, rejected, crashes>>

Expires ==
  /\ cond = "live"
  /\ cond' = "expired"
  /\ UNCHANGED <<marker, processes, call, operator, late, hits, rejected, crashes>>
-----------------------------------------------------------------------------
(* refresh-riot-key.sh: write_env_key ...                                  *)
WriteEnvKey ==
  /\ script \in Ended
  /\ newest < MaxKeys
  /\ newest' = newest + 1
  /\ cond' = "fresh"
  /\ rejected' = FALSE
  /\ script' = "clear"
  /\ attempt' = 1
  /\ UNCHANGED <<marker, processes, call, late, hits, crashes>>

(* ... clear_auth_marker ...                                               *)
ClearMarker ==
  /\ script = "clear"
  /\ ClearAuthFailureMarker
  /\ script' = "stop_worker"
  /\ UNCHANGED <<cond, processes, call, attempt, newest, hits, rejected, crashes>>

(* ... compose stop worker ...                                             *)
LeavesWorker ==
  /\ script = "stop_worker"
  /\ script' = "recreate_api"
  /\ UNCHANGED <<marker, cond, processes, call, attempt, newest, late, hits, rejected,
                 crashes>>

StopWorker ==
  /\ script = "stop_worker"
  /\ worker' = IF worker = "up" THEN "stopped" ELSE worker
  /\ Goes("worker", "none")
  /\ script' = "recreate_api"
  /\ UNCHANGED <<marker, cond, restarts, key, attempt, newest, late, hits, rejected,
                 crashes>>

(* ... compose up --force-recreate api, whose main clears the marker ...   *)
RecreateApi ==
  /\ script = "recreate_api"
  /\ key' = [key EXCEPT !["api"] = newest]
  /\ call' = [c \in Callers |-> IF c \in Handlers THEN "none" ELSE call[c]]
  /\ ClearAuthFailureMarker
  /\ script' = "health"
  /\ UNCHANGED <<cond, worker, restarts, attempt, newest, hits, rejected, crashes>>

(* ... wait_for_health: riotApi is auth_failed while the marker exists ... *)
WaitForHealth ==
  /\ script = "health"
  /\ script' = IF marker THEN "failed" ELSE "start_worker"
  /\ UNCHANGED <<marker, cond, processes, call, attempt, newest, late, hits, rejected,
                 crashes>>

(* ... start_worker_with_retries, whose main clears the marker ...         *)
StartWorker ==
  /\ script = "start_worker"
  /\ key' = [key EXCEPT !["worker"] = newest]
  /\ worker' = "up" /\ restarts' = 0 /\ hits' = 0
  /\ Goes("worker", "none")
  /\ ClearAuthFailureMarker
  /\ script' = "check_worker"
  /\ UNCHANGED <<cond, attempt, newest, rejected, crashes>>

(* ... and once more, after a worker whose logs show a rejected key.       *)
CheckWorker ==
  /\ script = "check_worker"
  /\ \/ /\ worker = "up"
        /\ script' = "done"
        /\ UNCHANGED <<attempt, marker, late>>
     \/ /\ worker = "unauthorized" /\ attempt < MaxAttempts
        /\ script' = "start_worker"
        /\ attempt' = attempt + 1
        /\ ClearAuthFailureMarker
     \/ /\ worker # "up"
        /\ worker = "unauthorized" => attempt = MaxAttempts
        /\ script' = "failed"
        /\ UNCHANGED <<attempt, marker, late>>
  /\ UNCHANGED <<cond, processes, call, newest, hits, rejected, crashes>>
-----------------------------------------------------------------------------
Call(c) ==
  \/ Begin(c) \/ Send(c) \/ Answer(c) \/ RateLimited(c) \/ Retry(c)
  \/ Unauthorized(c) \/ MarkAuthFailure(c) \/ Handle(c)

Script ==
  \/ ClearMarker \/ StopWorker \/ RecreateApi \/ WaitForHealth \/ StartWorker
  \/ CheckWorker

Next ==
  \/ \E c \in Callers : Call(c)
  \/ Watch \/ ApiCrash \/ WorkerCrash
  \/ Propagates \/ Expires
  \/ WriteEnvKey \/ Script

(* Every call goes on, the watcher's ticker ticks, and Riot answers 401 to *)
(* the worker's dead key unless it always fails to answer.                 *)
Fairness ==
  /\ \A c \in Callers : WF_vars(Call(c))
  /\ WF_vars(Watch)
  /\ SF_vars(Unauthorized("worker"))

Spec == Init /\ [][Next]_vars /\ Fairness
-----------------------------------------------------------------------------
(* Every variable has the shape of the code's data.                        *)
TypeOK ==
  /\ marker \in BOOLEAN
  /\ newest \in 1..MaxKeys
  /\ cond \in {"fresh", "live", "expired"}
  /\ key \in [{"api", "worker"} -> 1..newest]
  /\ worker \in {"up", "unauthorized", "crashed", "stopped"}
  /\ restarts \in 0..RestartLimit
  /\ call \in [Callers -> Places]
  /\ script \in Ended \cup {"clear", "stop_worker", "recreate_api", "health",
                            "start_worker", "check_worker"}
  /\ attempt \in 1..MaxAttempts
  /\ late \in [Callers -> Nat]
  /\ hits \in Nat /\ rejected \in BOOLEAN
  /\ crashes \in 0..MaxCrashes

(* The tripwire: once the marker exists, a caller that looked before it    *)
(* was written sends that one request and no other, however often Riot     *)
(* answers 429 (getBytesWithRetries looks again before each retry).        *)
OneLateRequest == \A c \in Callers : late[c] <= 1

(* An expired key does not loop (RIOT_AUTH_FAILURE_EXIT, core/README.md):  *)
(* a worker container gets one 401 and one more for each crash that beats  *)
(* the stop; Docker does not start it again (stopForRiotAuthFailure).      *)
ExpiredKeyDoesNotLoop == hits <= restarts + 1

(* A refresh with a key Riot did not reject ends well, whatever requests   *)
(* with the old key were under way: the worker runs, or its new container  *)
(* crashed too often, and the marker is gone (the order of the steps of    *)
(* refresh-riot-key.sh and ClearAuthFailureMarker in the two mains).       *)
RefreshRestores ==
  script \in {"done", "failed"} /\ ~rejected =>
    \/ worker = "crashed" /\ key["worker"] = newest
    \/ script = "done" /\ worker = "up" /\ ~marker

(* The worker stops for a dead key, also when the API met the 401 first    *)
(* and the worker's own calls are refused without being authentication     *)
(* failures (StartAuthFailureMonitor and stopForRiotAuthFailure).          *)
DeadKeyStopsWorker ==
  worker = "up" /\ Dead("worker") ~> worker # "up"

(* A Riot-dependent endpoint returns 503 RIOT_API_KEY_UNAVAILABLE while    *)
(* the key is rejected (core/README.md:65; writeRiotError).                *)
KeyFailureIsNamed ==
  \A h \in Handlers :
    call[h] \in {"refused", "unauthorized"} =>
      Reply(call[h]) = "RIOT_API_KEY_UNAVAILABLE"
=============================================================================
