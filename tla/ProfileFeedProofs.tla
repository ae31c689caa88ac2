-------------------------- MODULE ProfileFeedProofs --------------------------
(***************************************************************************)
(* What a worker may find in its profile file and how long it is fed,      *)
(* proved for any peers and any number of restarts.                        *)
(***************************************************************************)
EXTENDS ProfileFeed, TLAPS

\* The file was emptied before a fetch, and the sidecar ends by itself only
\* after the marker, which a worker touches at its end.
FeedInv ==
    /\ upc = "fetch" => file = {}
    /\ upc = "exited" => done
    /\ done /\ restarts = 0 => wpc \in {"succeeded", "failed"}

\* Whatever is killed or restarted, what the marker means stays true.
LEMMA FeedStep ==
    ASSUME TypeOK, FeedInv, [Next]_vars
    PROVE  TypeOK' /\ FeedInv'
<1> USE BoundAssumption DEF FeedInv
<1>1. CASE SecretChanges /\ UNCHANGED policy
  BY <1>1 DEF SecretChanges, updaterVars, workerVars, TypeOK
<1>2. CASE UpdaterStep /\ UNCHANGED policy
  <2>1. CASE Truncate \/ UpdaterExits \/ Fetch
    BY <1>2, <2>1 DEF Truncate, UpdaterExits, Fetch, workerVars, TypeOK, Profile
  <2>2. CASE FetchFails
    BY <1>2, <2>2 DEF FetchFails, workerVars, TypeOK
  <2>3. CASE WritePart \/ WriteRest \/ Awake
    BY <1>2, <2>3 DEF WritePart, WriteRest, Awake, workerVars, TypeOK
  <2> QED
    BY <1>2, <2>1, <2>2, <2>3 DEF UpdaterStep
<1>3. CASE KillUpdater /\ UNCHANGED policy
  BY <1>3 DEF KillUpdater, TypeOK
<1>4. CASE (WorkerReturns \/ TouchDone \/ KillWorker) /\ UNCHANGED policy
  <2>1. UNCHANGED <<policy, secret, changes, upc, fetched, file, restarts, failures>>
    BY <1>4 DEF WorkerReturns, TouchDone, KillWorker, updaterVars
  <2>2. /\ wpc' \in {"ok", "error", "succeeded", "failed"}
        /\ done' = TRUE \/ done' = done
        /\ done' /\ restarts = 0 => wpc' \in {"succeeded", "failed"}
    <3>1. CASE WorkerReturns
      BY <1>4, <3>1 DEF WorkerReturns
    <3>2. CASE TouchDone
      BY <1>4, <3>2 DEF TouchDone
    <3>3. CASE KillWorker
      BY <1>4, <3>3 DEF KillWorker
    <3> QED
      BY <1>4, <3>1, <3>2, <3>3
  <2>3. done' \in BOOLEAN /\ (done => done')
    <3>1. done \in BOOLEAN
      BY DEF TypeOK
    <3>2. CASE done' = TRUE
      BY <3>2
    <3>3. CASE done' = done
      BY <3>1, <3>3
    <3> QED
      BY <2>2, <3>2, <3>3
  <2>4. TypeOK'
    BY <2>1, <2>2, <2>3 DEF TypeOK
  <2>5. FeedInv'
    BY <2>1, <2>2, <2>3
  <2> QED
    BY <2>4, <2>5
<1>5. CASE RestartWorker /\ UNCHANGED policy
  BY <1>5 DEF RestartWorker, updaterVars, TypeOK
<1>6. CASE JobGivesUp /\ UNCHANGED policy
  BY <1>6 DEF JobGivesUp, TypeOK
<1>7. CASE UNCHANGED vars
  BY <1>7 DEF vars, updaterVars, workerVars, TypeOK
<1> QED
  BY <1>1, <1>2, <1>3, <1>4, <1>5, <1>6, <1>7 DEF Next

LEMMA FeedInvariant == Spec => [](TypeOK /\ FeedInv)
<1>1. Init => TypeOK /\ FeedInv
  <2> SUFFICES ASSUME Init
               PROVE  TypeOK /\ FeedInv
    OBVIOUS
  <2>1. 0 \in 0..MaxChanges /\ 0 \in 0..BackoffLimit /\ 0 \in 0..MaxFetchFailures
    BY BoundAssumption
  <2>2. fetched \in SUBSET Peer /\ file \subseteq fetched
    BY DEF Init
  <2> QED
    BY <2>1, <2>2 DEF Init, TypeOK, FeedInv
<1> QED
  BY <1>1, FeedStep, PTL DEF Spec

\* A worker never finds a peer in its file that the last fetch did not
\* return, even while the file is being written or the sidecar is killed.
THEOREM FileIsFetched == Spec => []TypeOK
  BY FeedInvariant, PTL

\* The sidecar does not end by itself before the worker has ended once.
THEOREM FeedOutlivesFirstWorker == Spec => []FeedAlive
<1>1. FeedInv => FeedAlive
  BY DEF FeedInv, FeedAlive
<1> QED
  BY <1>1, FeedInvariant, PTL
=============================================================================
