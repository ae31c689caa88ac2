---------------------------- MODULE PeerScaling ----------------------------
(***************************************************************************)
(* The scaling of the Fabric peers: the KEDA ScaledJobs of                 *)
(* autoscaling/templates/scalejob.yaml, which take a Lease before they run *)
(* files/peer-scale-up.sh or files/peer-scale-down.sh, and the one-shot    *)
(* Jobs of templates/job.yaml, which run the same scripts.                 *)
(*                                                                         *)
(* The scripts work on shared objects of the cluster: the FabricPeers and  *)
(* their pods, the peersToJoin of the follower channel, the installed      *)
(* chaincode, the replicas of the chaincode deployment and the connection  *)
(* profile in the secret dln-config.  The operator creates and removes     *)
(* pods, and Prometheus scrapes them, in their own time: no pause of the   *)
(* scripts waits for them.                                                 *)
(***************************************************************************)
EXTENDS Integers, FiniteSets, SequencesExt

CONSTANTS
    Job,        \* the slots for jobs: KEDA runs at most one job per ScaledJob
    Up,         \* those that scale up; the others scale down
    Manual,     \* those that may be jobs of job.yaml, which take no lock
    MaxPeers,   \* bound on the peers, with pods that still end, a trigger scales up to
    MaxFailures,\* bound on the commands of the scripts that fail
    Faults      \* the faults of the environment that may happen

ASSUME JobAssumption == Up \subseteq Job /\ Manual \subseteq Job
ASSUME BoundAssumption == MaxPeers \in Nat \ {0} /\ MaxFailures \in Nat
ASSUME FaultAssumption == Faults \subseteq {"kill", "lostReply", "keptLease"}

VARIABLES
    pc,         \* the next command of each job's script
    acquired,   \* LOCK_ACQUIRED of each job
    count,      \* COUNT of each job
    peer,       \* PEER of each job
    file,       \* the peers in the profile file of each job
    lease,      \* the Lease peers.lock exists
    peers,      \* the FabricPeers, by creation time
    pods,       \* the peers that have a pod
    channel,    \* peersToJoin of the follower channel
    installed,  \* the peers with the chaincode installed
    replicas,   \* replicas of the chaincode deployment
    profile,    \* the peers in the secret dln-config
    seen,       \* the number of peer pods Prometheus last scraped
    failures,   \* the commands that have failed
    manual,     \* the jobs of this installation that are made by job.yaml
    orphaned    \* history: a job has ended and left the Lease behind

jobVars     == <<pc, acquired, count, peer, file>>
clusterVars == <<peers, channel, installed, replicas, profile>>
vars == <<jobVars, lease, clusterVars, pods, seen, failures, manual, orphaned>>

\* peer0 is the peer create-dln.sh makes.
First == 0
FabricPeers == ToSet(peers)

\* The value of PEER before it is set, and when there is no peer to name.
NoPeer == -1

UpSteps   == {"count", "create", "ready", "join", "inspect", "install", "scaleUp"}
DownSteps == {"pick", "leave", "delete", "prune", "scaleDown"}
InScript  == UpSteps \cup DownSteps \cup {"upload", "settle"}

\* The network create-dln.sh leaves behind.
Init ==
    /\ pc = [j \in Job |-> "idle"]
    /\ acquired = [j \in Job |-> FALSE]
    /\ count = [j \in Job |-> 0]
    /\ peer = [j \in Job |-> NoPeer]
    /\ file = [j \in Job |-> {}]
    /\ lease = FALSE
    /\ peers = <<First>>
    /\ pods = {First}
    /\ channel = {First}
    /\ installed = {First}
    /\ replicas = 1
    /\ profile = {First}
    /\ seen = 1
    /\ failures = 0
    /\ manual \in SUBSET Manual
    /\ orphaned = FALSE

-----------------------------------------------------------------------------
(* Jobs and the lease.                                                     *)

At(j, here) == pc[j] = here
GoTo(j, there) == pc' = [pc EXCEPT ![j] = there]

\* A one-shot Job of job.yaml runs once; KEDA's slot is free again.
Ended(j) == IF j \in manual THEN "done" ELSE "idle"

ScriptStart(j) == IF j \in Up THEN "count" ELSE "pick"

\* KEDA starts a job for an active trigger; with one peer the query of the
\* scale-down trigger multiplies its metric by zero.  The number of peers in
\* it is the one last scraped.  A manual job is started by hand.
Trigger(j) ==
    /\ pc[j] = "idle"
    /\ IF j \in Up THEN Cardinality(FabricPeers \cup pods) < MaxPeers
                  ELSE j \in manual \/ seen > 1
    /\ GoTo(j, IF j \in manual THEN ScriptStart(j) ELSE "lock")
    /\ UNCHANGED <<acquired, count, peer, file, lease, clusterVars>>

\* Mutant: the job carries on although the Lease exists.
AcquireLock_Anyway(j) ==
    /\ At(j, "lock")
    /\ lease' = TRUE
    /\ acquired' = [acquired EXCEPT ![j] = TRUE]
    /\ GoTo(j, ScriptStart(j))
    /\ UNCHANGED <<count, peer, file, clusterVars>>

\* acquire_lock: the POST creates the Lease or fails because it exists.
AcquireLock(j) ==
    /\ At(j, "lock")
    /\ ~lease
    /\ lease' = TRUE
    /\ acquired' = [acquired EXCEPT ![j] = TRUE]
    /\ GoTo(j, ScriptStart(j))
    /\ UNCHANGED <<count, peer, file, clusterVars>>

\* Mutant: the trap deletes the Lease without asking for LOCK_ACQUIRED.
LockTaken_Releases(j) ==
    /\ At(j, "lock")
    /\ lease
    /\ lease' = FALSE
    /\ GoTo(j, "idle")
    /\ UNCHANGED <<acquired, count, peer, file, clusterVars>>

LockTaken(j) ==
    /\ At(j, "lock")
    /\ lease
    /\ GoTo(j, "idle")
    /\ UNCHANGED <<acquired, count, peer, file, lease, clusterVars>>

\* The POST creates the Lease but its answer is lost: curl fails, the job
\* exits and its trap releases nothing.
LockReplyLost(j) ==
    /\ "lostReply" \in Faults
    /\ At(j, "lock")
    /\ ~lease
    /\ lease' = TRUE
    /\ orphaned' = TRUE
    /\ GoTo(j, "idle")
    /\ UNCHANGED <<acquired, count, peer, file, clusterVars>>

\* The shell is gone; a new job starts with nothing of this one's variables.
EndShell(j) ==
    /\ GoTo(j, Ended(j))
    /\ acquired' = [acquired EXCEPT ![j] = FALSE]
    /\ count' = [count EXCEPT ![j] = 0]
    /\ peer' = [peer EXCEPT ![j] = NoPeer]
    /\ file' = [file EXCEPT ![j] = {}]

\* Mutant: no EXIT trap; only the end of the script deletes the Lease.
Exit_NoTrap(j) ==
    /\ lease' = (lease /\ (~acquired[j] \/ ~At(j, "settle")))
    /\ UNCHANGED orphaned
    /\ EndShell(j)

\* The shell exits: the EXIT trap deletes the Lease if this job acquired it.
\* When the DELETE fails the trap only says so, and the Lease stays.
Exit(j) ==
    /\ \/ lease' = (lease /\ ~acquired[j]) /\ UNCHANGED orphaned
       \/ /\ "keptLease" \in Faults
          /\ acquired[j]
          /\ orphaned' = TRUE
          /\ UNCHANGED lease
    /\ EndShell(j)

CallFails ==
    /\ failures < MaxFailures
    /\ failures' = failures + 1

\* A command fails, or takes longer than its --timeout, and "set -e" ends
\* the script.
StepFails(j) ==
    /\ CallFails
    /\ pc[j] \in InScript \ {"settle"}
    /\ Exit(j)
    /\ UNCHANGED clusterVars

\* The container is killed: no trap runs.
Kill(j) ==
    /\ "kill" \in Faults
    /\ pc[j] \in {"lock"} \cup InScript
    /\ orphaned' = (orphaned \/ acquired[j])
    /\ EndShell(j)
    /\ UNCHANGED <<lease, clusterVars>>

-----------------------------------------------------------------------------
(* The commands both scripts share.                                        *)

\* The follower channel is RUNNING when each of its peers can be joined.
ChannelRunning == channel \subseteq pods

\* kubectl wait gives up after its --timeout: what the script waits for
\* cannot come, because a peer has been deleted.
WaitTimesOut(j) ==
    /\ \/ At(j, "ready") /\ peer[j] \notin FabricPeers \cup pods
       \/ pc[j] \in {"inspect", "prune"} /\ ~ChannelRunning /\ ~(channel \subseteq FabricPeers)
    /\ Exit(j)
    /\ UNCHANGED clusterVars

Upload(j) ==
    /\ At(j, "upload")
    /\ profile' = file[j]
    /\ GoTo(j, "settle")
    /\ UNCHANGED <<acquired, count, peer, file, lease, peers, channel, installed, replicas>>

\* The end of the script.  In scalejob.yaml a "sleep 30" comes before the
\* trap; it waits for nothing, so pods may still end, and the last scrape may
\* be an older one, when the lock is free again.
Settle(j) ==
    /\ At(j, "settle")
    /\ Exit(j)
    /\ UNCHANGED clusterVars

-----------------------------------------------------------------------------
(* peer-scale-up.sh.                                                       *)

\* n is what "kubectl get pods 2>/dev/null | wc -l" prints.
CountPeers(j, n) ==
    /\ At(j, "count")
    /\ count' = [count EXCEPT ![j] = n]
    /\ peer' = [peer EXCEPT ![j] = n + 1]
    /\ GoTo(j, "create")
    /\ UNCHANGED <<acquired, file, lease, clusterVars>>

\* kubectl hlf peer create, and the patch of its resources.
CreatePeer(j) ==
    /\ At(j, "create")
    /\ peer[j] \notin FabricPeers
    /\ peers' = Append(peers, peer[j])
    /\ GoTo(j, "ready")
    /\ UNCHANGED <<acquired, count, peer, file, lease, channel, installed, replicas, profile>>

PeerNameTaken(j) ==
    /\ At(j, "create")
    /\ peer[j] \in FabricPeers
    /\ Exit(j)
    /\ UNCHANGED clusterVars

PeerRunning(j) ==
    /\ At(j, "ready")
    /\ peer[j] \in pods
    /\ GoTo(j, "join")
    /\ UNCHANGED <<acquired, count, peer, file, lease, clusterVars>>

\* The edited object carries its resourceVersion, so that apply refuses an
\* edit of an outdated one: reading, editing and applying are one step.
JoinChannel(j) ==
    /\ At(j, "join")
    /\ channel' = channel \cup {peer[j]}
    /\ GoTo(j, "inspect")
    /\ UNCHANGED <<acquired, count, peer, file, lease, peers, installed, replicas, profile>>

\* Mutant: the profile is taken from the secret, without the new peer.
Inspect_OldProfile(j) ==
    /\ At(j, "inspect")
    /\ ChannelRunning
    /\ file' = [file EXCEPT ![j] = profile]
    /\ GoTo(j, "install")
    /\ UNCHANGED <<acquired, count, peer, lease, clusterVars>>

\* kubectl hlf inspect lists every FabricPeer there is.
Inspect(j) ==
    /\ At(j, "inspect")
    /\ ChannelRunning
    /\ file' = [file EXCEPT ![j] = FabricPeers]
    /\ GoTo(j, "install")
    /\ UNCHANGED <<acquired, count, peer, lease, clusterVars>>

InstallChaincode(j) ==
    /\ At(j, "install")
    /\ peer[j] \in pods
    /\ installed' = installed \cup {peer[j]}
    /\ GoTo(j, "scaleUp")
    /\ UNCHANGED <<acquired, count, peer, file, lease, peers, channel, replicas, profile>>

\* Mutant: the line is the one of the script that scales down.
ScaleChaincodeUp_Less(j) ==
    /\ At(j, "scaleUp")
    /\ replicas' = count[j] - 1
    /\ GoTo(j, "upload")
    /\ UNCHANGED <<acquired, count, peer, file, lease, peers, channel, installed, profile>>

\* The replicas come from the COUNT of the beginning; the call that pings the
\* chaincode afterwards changes nothing.
ScaleChaincodeUp(j) ==
    /\ At(j, "scaleUp")
    /\ replicas' = count[j] + 1
    /\ GoTo(j, "upload")
    /\ UNCHANGED <<acquired, count, peer, file, lease, peers, channel, installed, profile>>

-----------------------------------------------------------------------------
(* peer-scale-down.sh.                                                     *)

Newest == IF peers = <<>> THEN NoPeer ELSE Last(peers)

\* p is what "kubectl get fabricpeers ... | tac | head -1" prints.
PickNewest(j, p) ==
    /\ At(j, "pick")
    /\ peer' = [peer EXCEPT ![j] = p]
    /\ GoTo(j, "leave")
    /\ UNCHANGED <<acquired, count, file, lease, clusterVars>>

\* Mutant: del without its select empties peersToJoin.
LeaveChannel_All(j) ==
    /\ At(j, "leave")
    /\ channel' = {}
    /\ GoTo(j, "delete")
    /\ UNCHANGED <<acquired, count, peer, file, lease, peers, installed, replicas, profile>>

LeaveChannel(j) ==
    /\ At(j, "leave")
    /\ channel' = channel \ {peer[j]}
    /\ GoTo(j, "delete")
    /\ UNCHANGED <<acquired, count, peer, file, lease, peers, installed, replicas, profile>>

\* Mutant: the script goes on with the next peer while there are several.
DeletePeer_Several(j) ==
    /\ At(j, "delete")
    /\ \E i \in DOMAIN peers : peers[i] = peer[j] /\ peers' = RemoveAt(peers, i)
    /\ installed' = installed \ {peer[j]}
    /\ GoTo(j, IF Len(peers) > 2 THEN "pick" ELSE "prune")
    /\ UNCHANGED <<acquired, count, peer, file, lease, channel, replicas, profile>>

\* The peer and, with its volume, the chaincode installed on it.
DeletePeer(j) ==
    /\ At(j, "delete")
    /\ \E i \in DOMAIN peers : peers[i] = peer[j] /\ peers' = RemoveAt(peers, i)
    /\ installed' = installed \ {peer[j]}
    /\ GoTo(j, "prune")
    /\ UNCHANGED <<acquired, count, peer, file, lease, channel, replicas, profile>>

\* Delete the peer from what has been read of the secret.
PruneProfile(j, read) ==
    /\ At(j, "prune")
    /\ ChannelRunning
    /\ file' = [file EXCEPT ![j] = read \ {peer[j]}]
    /\ GoTo(j, "scaleDown")
    /\ UNCHANGED <<acquired, count, peer, lease, clusterVars>>

\* Mutant: the deleted peer's replica is taken off twice.
ScaleChaincodeDown_Twice(j, n) ==
    /\ At(j, "scaleDown")
    /\ replicas' = n - 2
    /\ count' = [count EXCEPT ![j] = n]
    /\ GoTo(j, "upload")
    /\ UNCHANGED <<acquired, peer, file, lease, peers, channel, installed, profile>>

\* COUNT is taken after the delete, while the pod may still terminate; nothing
\* looks whether any pod was counted.
ScaleChaincodeDown(j, n) ==
    /\ At(j, "scaleDown")
    /\ replicas' = n - 1
    /\ count' = [count EXCEPT ![j] = n]
    /\ GoTo(j, "upload")
    /\ UNCHANGED <<acquired, peer, file, lease, peers, channel, installed, profile>>

\* There is no peer to delete, which the shell's kubectl delete without a name
\* comes to as well, or none to install on: the command fails.
CommandFails(j) ==
    /\ \/ At(j, "install") /\ peer[j] \notin pods
       \/ At(j, "delete") /\ peer[j] \notin FabricPeers
    /\ Exit(j)
    /\ UNCHANGED clusterVars

\* A kubectl fails at the head of a pipeline, whose status is that of its last
\* command: the script goes on with a count of 0, no peer or an empty file.
PipeFails(j) ==
    /\ CallFails
    /\ \/ CountPeers(j, 0) \/ PickNewest(j, NoPeer)
       \/ PruneProfile(j, {}) \/ ScaleChaincodeDown(j, 0)

-----------------------------------------------------------------------------

\* What the job's own commands do.
JobStep(j) ==
    /\ \/ /\ \/ AcquireLock(j) \/ LockTaken(j)
             \/ CountPeers(j, Cardinality(pods)) \/ CreatePeer(j) \/ PeerRunning(j)
             \/ JoinChannel(j) \/ Inspect(j) \/ InstallChaincode(j) \/ ScaleChaincodeUp(j)
             \/ PickNewest(j, Newest) \/ LeaveChannel(j) \/ DeletePeer(j)
             \/ PruneProfile(j, profile) \/ ScaleChaincodeDown(j, Cardinality(pods))
             \/ Upload(j)
          /\ UNCHANGED orphaned
       \/ PeerNameTaken(j) \/ CommandFails(j) \/ WaitTimesOut(j) \/ Settle(j)
    /\ UNCHANGED <<pods, seen, failures, manual>>

\* What the cluster does to it.
JobEvent(j) ==
    /\ \/ StepFails(j)
       \/ PipeFails(j) /\ UNCHANGED orphaned
       \/ Trigger(j) /\ UNCHANGED <<failures, orphaned>>
       \/ (LockReplyLost(j) \/ Kill(j)) /\ UNCHANGED failures
    /\ UNCHANGED <<pods, seen, manual>>

\* The operator brings the pods in line with the FabricPeers.
PodStarts ==
    /\ \E p \in FabricPeers \ pods : pods' = pods \cup {p}
    /\ UNCHANGED <<jobVars, lease, clusterVars, seen, failures, manual, orphaned>>

PodEnds ==
    /\ \E p \in pods \ FabricPeers : pods' = pods \ {p}
    /\ UNCHANGED <<jobVars, lease, clusterVars, seen, failures, manual, orphaned>>

Scrape ==
    /\ seen' = Cardinality(pods)
    /\ UNCHANGED <<jobVars, lease, clusterVars, pods, failures, manual, orphaned>>

Next ==
    \/ \E j \in Job : JobStep(j) \/ JobEvent(j)
    \/ PodStarts \/ PodEnds \/ Scrape

Safety == Init /\ [][Next]_vars

\* Started jobs run, the operator and Prometheus do their work.  Nothing
\* makes a trigger fire or a fault happen.
Fairness ==
    /\ \A j \in Job : WF_vars(JobStep(j))
    /\ WF_vars(PodStarts) /\ WF_vars(PodEnds) /\ WF_vars(Scrape)

Spec == Safety /\ Fairness

-----------------------------------------------------------------------------
(* Properties.                                                             *)

\* Type correctness of the jobs' and the cluster's state; when no pod has been
\* counted the script asks for -1 replicas, never for fewer.
TypeOK ==
    /\ pc \in [Job -> {"idle", "lock", "done"} \cup InScript]
    /\ acquired \in [Job -> BOOLEAN]
    /\ count \in [Job -> Nat]
    /\ peer \in [Job -> Nat \cup {NoPeer}]
    /\ file \in [Job -> SUBSET Nat]
    /\ lease \in BOOLEAN
    /\ peers \in Seq(Nat)
    /\ pods \subseteq Nat
    /\ channel \subseteq Nat
    /\ installed \subseteq Nat
    /\ replicas \in Nat \cup {-1}
    /\ profile \subseteq Nat
    /\ seen \in Nat
    /\ failures \in 0..MaxFailures
    /\ manual \subseteq Manual
    /\ orphaned \in BOOLEAN

\* "scale-up and scale-down operations never run concurrently": of the jobs
\* that take the lock at most one is inside its script, whatever jobs fail,
\* die, lose an answer or are started by hand beside them.
MutualExclusion ==
    \A i, j \in Job \ manual : pc[i] \in InScript /\ pc[j] \in InScript => i = j

\* A script is no transaction and a job of job.yaml takes no lock: what the
\* scripts leave is in order until a command has failed or such a job exists.
Orderly == failures = 0 /\ manual = {}

\* Whenever the lock is free the scripts have left the cluster's objects in
\* agreement, whatever the pods were when they were counted: profile, channel
\* and chaincode name the existing peers, and each of them runs.
ConsistentWhenFree ==
    Orderly /\ ~lease => /\ profile = FabricPeers
                         /\ channel = FabricPeers
                         /\ installed = FabricPeers
                         /\ FabricPeers \subseteq pods

\* Whenever the lock is free the chaincode has a replica for every peer but
\* one: a COUNT that takes in pods which still end, or no longer the deleted
\* one's, never leaves it shorter, over any number of events.
ReplicasSuffice == Orderly /\ ~lease => replicas >= Cardinality(FabricPeers) - 1

\* A peer that serves clients: it runs, is joined and has the chaincode.
InService == FabricPeers \cap pods \cap channel \cap installed

\* Scaling takes the network apart one peer at a time, a killed job included:
\* of the peers that exist or that the profile names to clients, all but one
\* are named to them and serve them.
OnePeerAtATime ==
    Orderly => \A p, q \in (FabricPeers \cup profile) \ (InService \cap profile) : p = q

\* The damage of failing commands does not spread: each leaves at most one
\* peer that does not serve, and the next events leave no more.  One more may
\* be at the hands of the job that has the lock, or was killed with it.
DamageIsBounded ==
    manual = {} =>
        Cardinality(FabricPeers \ InService) <= failures + (IF lease THEN 1 ELSE 0)

\* The profile never leads clients to a deleted peer: scaling down takes the
\* peer out of the secret before it takes it down.
ProfilePeersExist == profile \subseteq FabricPeers

\* Every way out of the script frees the lock again, so that scaling goes on,
\* also when the other job removes what the script waits for.  Not so a killed
\* job, one that never learns that it has the lock, and a trap whose DELETE
\* fails: the Lease has no holder and no duration.
LockIsFreed == lease ~> (~lease \/ orphaned)

\* How the jobs implement serial scaling events, where all of them take the
\* lock; an installation with a job of job.yaml is outside this promise.
Serial == INSTANCE SerialScaling WITH
    topology <- IF manual = {} THEN peers ELSE <<>>,
    active   <- {j \in Job : manual = {} /\ pc[j] \in InScript},
    changed  <- \E j \in Job : manual = {} /\ pc[j] \in InScript \
                    {"count", "create", "pick", "leave", "delete"}

\* "Strict serializability of scaling events": the lock makes the scripts'
\* changes to the set of peers serial, one change to an event.
ScalingIsSerial == Serial!SerialSpec
=============================================================================
