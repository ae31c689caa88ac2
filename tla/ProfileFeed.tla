---------------------------- MODULE ProfileFeed ----------------------------
(***************************************************************************)
(* How a worker learns the peers: one pod of the simi Job                  *)
(* (k8s/helm/simi/templates/simi-job.yaml).  The sidecar fabric-config-    *)
(* updater copies the connection profile from the secret dln-config, which *)
(* the scale jobs rewrite, to a file of the shared volume; the worker      *)
(* picks a peer from the file for each operation (randomPeer in            *)
(* chaincodes/common.go) and fails the operation if there is none, which   *)
(* does not end the benchmark.  A marker file, touched when the worker     *)
(* ends, ends the sidecar.  The volume survives restarts of the            *)
(* containers.                                                             *)
(***************************************************************************)
EXTENDS Naturals, FiniteSets

CONSTANTS
    Peer,
    Policies,           \* the restart policies that shouldFailOnError may choose
    BackoffLimit,       \* restarts of containers before the Job gives up
    MaxChanges,         \* bound on the changes of the secret
    MaxFetchFailures,   \* bound on the calls of kubectl that fail
    Faults              \* the faults of the environment that may happen

ASSUME PolicyAssumption == Policies \subseteq {"Never", "OnFailure"}
ASSUME BoundAssumption ==
    BackoffLimit \in Nat /\ MaxChanges \in Nat /\ MaxFetchFailures \in Nat
ASSUME FaultAssumption == Faults \subseteq {"killWorker", "killUpdater"}

VARIABLES
    policy,     \* restartPolicy of the pod
    secret,     \* the peers in dln-config
    changes,
    upc,        \* where the updater is
    fetched,    \* what kubectl last got
    file,       \* the peers a reader finds in fabric-config.yaml; none if the
                \* file is missing, empty or cut off where YAML does not parse
    done,       \* the marker exists
    wpc,        \* the worker's container
    restarts,
    failures    \* calls of kubectl that failed

updaterVars == <<upc, fetched, file>>
workerVars  == <<done, wpc, restarts>>
vars == <<policy, secret, changes, updaterVars, workerVars, failures>>

Profile == SUBSET Peer \ {{}}

\* Mutant: the marker is there from the beginning.
Init_Done ==
    /\ policy \in Policies
    /\ secret \in Profile
    /\ changes = 0
    /\ upc = "check"
    /\ fetched = {}
    /\ file = {}
    /\ done = TRUE
    /\ wpc = "running"
    /\ restarts = 0
    /\ failures = 0

Init ==
    /\ policy \in Policies
    /\ secret \in Profile
    /\ changes = 0
    /\ upc = "check"
    /\ fetched = {}
    /\ file = {}
    /\ done = FALSE
    /\ wpc = "running"
    /\ restarts = 0
    /\ failures = 0

PodEnded == upc \in {"exited", "failed"} /\ wpc \in {"succeeded", "failed"}

\* A scale job uploads a profile.
SecretChanges ==
    /\ changes < MaxChanges
    /\ changes' = changes + 1
    /\ secret' \in Profile \ {secret}
    /\ UNCHANGED <<updaterVars, workerVars, failures>>

-----------------------------------------------------------------------------
(* fabric-config-updater.                                                  *)

\* Mutant: the file is fetched once only.
Truncate_Once ==
    /\ upc = "check"
    /\ ~done
    /\ IF file = {} THEN upc' = "fetch" ELSE upc' = "sleep"
    /\ UNCHANGED <<secret, changes, fetched, file, workerVars, failures>>

\* The shell opens the file for writing before kubectl has anything for it.
Truncate ==
    /\ upc = "check"
    /\ ~done
    /\ file' = {}
    /\ upc' = "fetch"
    /\ UNCHANGED <<secret, changes, fetched, workerVars, failures>>

UpdaterExits ==
    /\ upc = "check"
    /\ done
    /\ upc' = "exited"
    /\ UNCHANGED <<secret, changes, fetched, file, workerVars, failures>>

Fetch ==
    /\ upc = "fetch"
    /\ fetched' = secret
    /\ upc' = "write"
    /\ UNCHANGED <<secret, changes, file, workerVars, failures>>

\* Nothing is decoded into the file, and the loop goes on.
FetchFails ==
    /\ upc = "fetch"
    /\ failures < MaxFetchFailures
    /\ failures' = failures + 1
    /\ upc' = "sleep"
    /\ UNCHANGED <<secret, changes, fetched, file, workerVars>>

\* Mutant: the decoder appends to the file.
WritePart_Append ==
    /\ upc = "write"
    /\ \E part \in SUBSET Peer : file' = file \cup part
    /\ upc' = "writing"
    /\ UNCHANGED <<secret, changes, fetched, workerVars, failures>>

\* base64 writes its output in blocks.
WritePart ==
    /\ upc = "write"
    /\ file' \in SUBSET fetched
    /\ upc' = "writing"
    /\ UNCHANGED <<secret, changes, fetched, workerVars, failures>>

WriteRest ==
    /\ upc = "writing"
    /\ file' = fetched
    /\ upc' = "sleep"
    /\ UNCHANGED <<secret, changes, fetched, workerVars, failures>>

Awake ==
    /\ upc = "sleep"
    /\ upc' = "check"
    /\ UNCHANGED <<secret, changes, fetched, file, workerVars, failures>>

\* Mutant: an updater that starts removes the marker of earlier runs.
KillUpdater_ClearsDone ==
    /\ "killUpdater" \in Faults
    /\ upc \notin {"exited", "failed"}
    /\ IF policy = "OnFailure" /\ restarts < BackoffLimit
       THEN upc' = "check" /\ restarts' = restarts + 1 /\ done' = FALSE
       ELSE upc' = "failed" /\ UNCHANGED <<restarts, done>>
    /\ UNCHANGED <<secret, changes, fetched, file, wpc, failures>>

\* The container dies; with OnFailure it is started again.
KillUpdater ==
    /\ "killUpdater" \in Faults
    /\ upc \notin {"exited", "failed"}
    /\ IF policy = "OnFailure" /\ restarts < BackoffLimit
       THEN upc' = "check" /\ restarts' = restarts + 1
       ELSE upc' = "failed" /\ UNCHANGED restarts
    /\ UNCHANGED <<secret, changes, fetched, file, done, wpc, failures>>

-----------------------------------------------------------------------------
(* The worker's container.                                                 *)

\* entrypoint.sh returns; rc is remembered.
WorkerReturns ==
    /\ wpc = "running"
    /\ wpc' \in {"ok", "error"}
    /\ UNCHANGED <<secret, changes, updaterVars, done, restarts, failures>>

\* The marker is touched whatever rc is, and the container exits with it.
TouchDone ==
    /\ wpc \in {"ok", "error"}
    /\ done' = TRUE
    /\ wpc' = IF wpc = "ok" THEN "succeeded" ELSE "failed"
    /\ UNCHANGED <<secret, changes, updaterVars, restarts, failures>>

\* The container dies before the marker is touched.
KillWorker ==
    /\ "killWorker" \in Faults
    /\ wpc \in {"running", "ok", "error"}
    /\ wpc' = "failed"
    /\ UNCHANGED <<secret, changes, updaterVars, done, restarts, failures>>

RestartWorker ==
    /\ policy = "OnFailure"
    /\ wpc = "failed"
    /\ restarts < BackoffLimit
    /\ restarts' = restarts + 1
    /\ wpc' = "running"
    /\ UNCHANGED <<secret, changes, updaterVars, done, failures>>

\* With its containers restarted too often the Job fails, and deletes its
\* pods.
JobGivesUp ==
    /\ policy = "OnFailure"
    /\ restarts = BackoffLimit
    /\ "failed" \in {upc, wpc}
    /\ ~PodEnded
    /\ upc' = IF upc = "exited" THEN upc ELSE "failed"
    /\ wpc' = IF wpc = "succeeded" THEN wpc ELSE "failed"
    /\ UNCHANGED <<secret, changes, fetched, file, done, restarts, failures>>

-----------------------------------------------------------------------------

UpdaterStep == Truncate \/ UpdaterExits \/ Fetch \/ FetchFails \/ WritePart \/ WriteRest \/ Awake

Next ==
    \/ /\ \/ SecretChanges
          \/ UpdaterStep \/ KillUpdater
          \/ WorkerReturns \/ TouchDone \/ KillWorker \/ RestartWorker \/ JobGivesUp
       /\ UNCHANGED policy
    \/ PodEnded /\ UNCHANGED vars

\* The sidecar and the wrapper run, kubelet restarts what failed and the Job
\* controller gives up in the end.  Nothing makes the benchmark come to one.
Fairness ==
    /\ WF_vars(UpdaterStep /\ UNCHANGED policy)
    /\ WF_vars(TouchDone /\ UNCHANGED policy)
    /\ WF_vars((RestartWorker \/ JobGivesUp) /\ UNCHANGED policy)

Spec == Init /\ [][Next]_vars /\ Fairness

-----------------------------------------------------------------------------
(* Properties.                                                             *)

\* Type correctness; a worker never finds a peer in the file that the last
\* fetch did not return, not even while the file is being written.
TypeOK ==
    /\ policy \in Policies
    /\ secret \in Profile
    /\ changes \in 0..MaxChanges
    /\ upc \in {"check", "fetch", "write", "writing", "sleep", "exited", "failed"}
    /\ fetched \in SUBSET Peer
    /\ file \subseteq fetched
    /\ done \in BOOLEAN
    /\ wpc \in {"running", "ok", "error", "succeeded", "failed"}
    /\ restarts \in 0..BackoffLimit
    /\ failures \in 0..MaxFetchFailures

\* The sidecar ends by itself only after the worker has ended for the first
\* time.
FeedAlive == wpc = "running" /\ restarts = 0 => upc # "exited"

Gets(s) == file = s \/ secret # s \/ wpc # "running" \/ upc = "failed"

\* A worker that goes on working gets the profile that the secret has, unless
\* the secret changes again, through failing fetches and restarts of the
\* sidecar; but only until the marker is touched for the first time.
ProfileReachesFirstWorker ==
    \A s \in Profile : (wpc = "running" /\ ~done /\ secret = s) ~> Gets(s)

\* "Workers remain up-to-date with network endpoint definitions": the same
\* for every worker, also one that was started again.
ProfileReachesWorker ==
    \A s \in Profile : (wpc = "running" /\ secret = s) ~> Gets(s)

\* "A termination marker to gracefully stop the sidecar": once the marker is
\* touched the pod ends, whatever is killed, so that the Job can complete,
\* unless the worker is started again.
PodEnds == done ~> PodEnded \/ wpc = "running"
=============================================================================
