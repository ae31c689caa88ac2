------------------------- MODULE PeerScalingProofs -------------------------
(***************************************************************************)
(* Proofs about the scale jobs, for every number of jobs and peers, every  *)
(* bound on failures and every fault: the lock, beside any jobs that do    *)
(* not take it, and the order of the cluster's objects where all jobs do.  *)
(* Nothing is assumed of the time that pods and scrapes take.              *)
(***************************************************************************)
EXTENDS PeerScaling, FiniteSetTheorems, TLAPS

\* The types of the part of the state the lock depends on.
LockTypeOK ==
    /\ pc \in [Job -> {"idle", "lock", "done"} \cup InScript]
    /\ acquired \in [Job -> BOOLEAN]
    /\ lease \in BOOLEAN
    /\ manual \subseteq Manual

\* A scale job is inside its script only with the lock, the lock stands for
\* an existing Lease, and no two jobs have it.  The Lease may outlive its job.
\* A job of job.yaml never comes to have the lock.
LockInv ==
    /\ LockTypeOK
    /\ \A j \in Job \ manual : acquired[j] <=> pc[j] \in InScript
    /\ \A j \in Job \cap manual : ~acquired[j] /\ pc[j] # "lock"
    /\ \A j \in Job : acquired[j] => lease
    /\ \A i, j \in Job : acquired[i] /\ acquired[j] => i = j

\* The commands before and after the one that changes the set of peers.
Before == {"count", "create", "pick", "leave", "delete"}
After  == InScript \ Before

-----------------------------------------------------------------------------
(* What the steps of a job do to the lock.                                 *)

\* A step takes a job, and no other job, from one part of its life to another.
Moves(j, from, to) ==
    /\ pc[j] \in from
    /\ pc' = [pc EXCEPT ![j] = pc'[j]]
    /\ pc'[j] \in to

\* A job that takes the lock begins its script.
LEMMA AcquireMove ==
    ASSUME LockTypeOK, NEW j \in Job, AcquireLock(j)
    PROVE  Moves(j, {"lock"}, {"count", "pick"})
  BY DEF LockTypeOK, AcquireLock, ScriptStart, Moves, At, GoTo

\* The commands that change the set of peers.
LEMMA ChangeMove ==
    ASSUME LockTypeOK, NEW j \in Job, CreatePeer(j) \/ DeletePeer(j)
    PROVE  /\ Moves(j, Before, After)
           /\ UNCHANGED <<acquired, lease>>
  BY DEF LockTypeOK, CreatePeer, DeletePeer, At, GoTo, Moves, Before, After, InScript, UpSteps, DownSteps

\* The other commands stay on their side of that change.
LEMMA CommandMove ==
    ASSUME LockTypeOK, NEW j \in Job, NEW x,
           \/ CountPeers(j, x) \/ PeerRunning(j) \/ JoinChannel(j) \/ Inspect(j)
           \/ InstallChaincode(j) \/ ScaleChaincodeUp(j) \/ PickNewest(j, x)
           \/ LeaveChannel(j) \/ PruneProfile(j, x) \/ ScaleChaincodeDown(j, x) \/ Upload(j)
    PROVE  /\ Moves(j, Before, Before) \/ Moves(j, After, After)
           /\ UNCHANGED <<acquired, lease, peers>>
  BY DEF LockTypeOK, CountPeers, PeerRunning, JoinChannel, Inspect, InstallChaincode,
         ScaleChaincodeUp, PickNewest, LeaveChannel, PruneProfile, ScaleChaincodeDown, Upload,
         At, GoTo, Moves, Before, After, InScript, UpSteps, DownSteps, clusterVars

\* Whatever ends a job takes its claim to the lock away, and frees the
\* Lease only if the claim was good.
LEMMA EndMove ==
    ASSUME LockInv, NEW j \in Job,
           \/ LockTaken(j) \/ StepFails(j) \/ Kill(j) \/ WaitTimesOut(j) \/ Settle(j)
           \/ PeerNameTaken(j) \/ CommandFails(j)
    PROVE  /\ Moves(j, {"lock"} \cup InScript, {"idle", "done"})
           /\ acquired' = [acquired EXCEPT ![j] = FALSE]
           /\ lease' \in BOOLEAN
           /\ lease' # lease => acquired[j]
           /\ UNCHANGED peers
<1>1. LockTypeOK /\ (pc[j] = "lock" => ~acquired[j])
  BY DEF LockInv, InScript, UpSteps, DownSteps
<1>2. CASE LockTaken(j)
  BY <1>1, <1>2 DEF LockTypeOK, LockTaken, Moves, At, GoTo, clusterVars
<1>3. CASE Kill(j)
  BY <1>1, <1>3 DEF LockTypeOK, Kill, EndShell, Ended, Moves, GoTo, clusterVars
<1>4. CASE \/ StepFails(j) \/ WaitTimesOut(j) \/ Settle(j)
           \/ PeerNameTaken(j) \/ CommandFails(j)
  <2>1. Exit(j) /\ UNCHANGED peers /\ pc[j] \in InScript
    BY <1>4 DEF StepFails, WaitTimesOut, Settle, PeerNameTaken, CommandFails, At, clusterVars,
                InScript, UpSteps, DownSteps
  <2>2. pc' = [pc EXCEPT ![j] = pc'[j]] /\ pc'[j] \in {"idle", "done"}
    BY <1>1, <2>1 DEF Exit, EndShell, GoTo, Ended, LockTypeOK
  <2>3. /\ acquired' = [acquired EXCEPT ![j] = FALSE]
        /\ lease' = (lease /\ ~acquired[j]) \/ lease' = lease
    BY <2>1 DEF Exit, EndShell
  <2>4. lease' \in BOOLEAN /\ (lease' # lease => acquired[j])
    BY <1>1, <2>3 DEF LockTypeOK
  <2> QED
    BY <2>1, <2>2, <2>3, <2>4 DEF Moves
<1> QED
  BY <1>2, <1>3, <1>4

\* Where a job may be when it is not inside a script under the lock.
Outside(j) == IF j \in manual THEN {"idle"} \cup Before ELSE {"idle", "lock"}

\* Outside its script a job may create the Lease but has no claim to it; a job
\* of job.yaml goes straight into its script.
LEMMA OutsideMove ==
    ASSUME LockInv, NEW j \in Job, Trigger(j) \/ LockReplyLost(j)
    PROVE  /\ Moves(j, Outside(j), Outside(j))
           /\ lease' \in BOOLEAN
           /\ lease => lease'
           /\ UNCHANGED <<acquired, peers>>
  BY DEF LockInv, LockTypeOK, Trigger, ScriptStart, LockReplyLost, Moves, Outside, Before, At, GoTo, clusterVars

\* The two ways in which a step of a job may touch the lock without taking it:
\* it ends, or it is outside a script under the lock.
Ends(j) ==
    /\ Moves(j, {"lock"} \cup InScript, {"idle", "done"})
    /\ acquired' = [acquired EXCEPT ![j] = FALSE]
    /\ lease' \in BOOLEAN
    /\ lease' # lease => acquired[j]
    /\ UNCHANGED peers

StaysOut(j) ==
    /\ Moves(j, Outside(j), Outside(j))
    /\ lease' \in BOOLEAN
    /\ lease => lease'
    /\ UNCHANGED <<acquired, peers>>

\* A command of the script that neither touches the lock nor the peers.
GoesOn(j) ==
    /\ Moves(j, Before, Before) \/ Moves(j, After, After)
    /\ UNCHANGED <<acquired, lease, peers>>

\* Every step of the system is of one of these kinds.
LEMMA StepKinds ==
    ASSUME LockInv, [Next]_vars
    PROVE  /\ UNCHANGED manual
           /\ \/ UNCHANGED <<pc, acquired, lease, peers>>
              \/ \E j \in Job : \/ AcquireLock(j) \/ CreatePeer(j) \/ DeletePeer(j)
                               \/ GoesOn(j) \/ Ends(j) \/ StaysOut(j)
<1>1. ASSUME NEW j \in Job, JobStep(j)
      PROVE  AcquireLock(j) \/ CreatePeer(j) \/ DeletePeer(j) \/ GoesOn(j) \/ Ends(j)
  <2>1. LockTypeOK
    BY DEF LockInv
  <2>2. ASSUME \/ CountPeers(j, Cardinality(pods)) \/ PickNewest(j, Newest)
               \/ PruneProfile(j, profile) \/ ScaleChaincodeDown(j, Cardinality(pods))
        PROVE  GoesOn(j)
    BY <2>1, <2>2, CommandMove DEF GoesOn
  <2>3. ASSUME \/ PeerRunning(j) \/ JoinChannel(j) \/ Inspect(j) \/ InstallChaincode(j)
               \/ ScaleChaincodeUp(j) \/ LeaveChannel(j) \/ Upload(j)
        PROVE  GoesOn(j)
    BY <2>1, <2>3, CommandMove DEF GoesOn
  <2> QED
    BY <1>1, <2>2, <2>3, EndMove DEF JobStep, Ends
<1>2. ASSUME NEW j \in Job, JobEvent(j)
      PROVE  GoesOn(j) \/ Ends(j) \/ StaysOut(j)
  <2>1. LockTypeOK
    BY DEF LockInv
  <2>2. CASE PipeFails(j)
    BY <2>1, <2>2, CommandMove DEF PipeFails, GoesOn
  <2> QED
    BY <1>2, <2>2, EndMove, OutsideMove DEF JobEvent, Ends, StaysOut
<1>3. ASSUME PodStarts \/ PodEnds \/ Scrape \/ UNCHANGED vars
      PROVE  UNCHANGED <<manual, pc, acquired, lease, peers>>
  BY <1>3 DEF PodStarts, PodEnds, Scrape, vars, jobVars, clusterVars
<1>4. UNCHANGED manual
  BY <1>3 DEF Next, JobStep, JobEvent
<1> QED
  BY <1>1, <1>2, <1>3, <1>4 DEF Next

-----------------------------------------------------------------------------
(* The theorems.                                                           *)

\* Every step keeps the lock's invariant.
LEMMA LockStep ==
    ASSUME LockInv, [Next]_vars
    PROVE  LockInv'
<1> USE DEF LockInv, LockTypeOK, Moves
<1>0. UNCHANGED manual
  BY StepKinds
<1>1. CASE UNCHANGED <<pc, acquired, lease, peers>>
  BY <1>0, <1>1
<1>2. ASSUME NEW j \in Job, AcquireLock(j)
      PROVE  LockInv'
  <2>1. Moves(j, {"lock"}, {"count", "pick"})
    BY <1>2, AcquireMove
  <2>2. ~lease /\ lease' = TRUE /\ acquired' = [acquired EXCEPT ![j] = TRUE]
    BY <1>2 DEF AcquireLock
  <2>3. j \notin manual
    BY <2>1
  <2> QED
    BY <1>0, <2>1, <2>2, <2>3 DEF InScript, UpSteps, DownSteps
<1>3. ASSUME NEW j \in Job,
             Moves(j, Before, After) \/ Moves(j, Before, Before) \/ Moves(j, After, After),
             UNCHANGED <<acquired, lease>>
      PROVE  LockInv'
  <2>1. pc[j] \in InScript /\ pc'[j] \in InScript
    BY <1>3 DEF Before, After, InScript, UpSteps, DownSteps
  <2>2. pc'[j] # "lock"
    BY <2>1 DEF InScript, UpSteps, DownSteps
  <2> QED
    BY <1>0, <1>3, <2>1, <2>2
<1>4. ASSUME NEW j \in Job, Ends(j)
      PROVE  LockInv'
  BY <1>0, <1>4 DEF Ends, InScript, UpSteps, DownSteps
<1>5. ASSUME NEW j \in Job, StaysOut(j)
      PROVE  LockInv'
  <2>1. j \in manual => pc'[j] # "lock"
    BY <1>5 DEF StaysOut, Outside, Before
  <2>2. j \notin manual => pc[j] \notin InScript /\ pc'[j] \notin InScript
    BY <1>5 DEF StaysOut, Outside, InScript, UpSteps, DownSteps
  <2>3. pc' \in [Job -> {"idle", "lock", "done"} \cup InScript]
    BY <1>5 DEF StaysOut, Outside, Before, InScript, UpSteps, DownSteps
  <2>4. \A i \in Job \ {j} : pc'[i] = pc[i]
    BY <1>5 DEF StaysOut
  <2> QED
    BY <1>0, <1>5, <2>1, <2>2, <2>3, <2>4 DEF StaysOut
<1>6. ASSUME NEW j \in Job, CreatePeer(j) \/ DeletePeer(j)
      PROVE  LockInv'
  BY <1>3, <1>6, ChangeMove
<1>7. ASSUME NEW j \in Job, GoesOn(j)
      PROVE  LockInv'
  BY <1>3, <1>7 DEF GoesOn
<1> QED
  BY <1>1, <1>2, <1>4, <1>5, <1>6, <1>7, StepKinds

\* The lock's invariant always holds.
LEMMA LockInvariant == Safety => []LockInv
<1>1. Init => LockInv
  BY DEF Init, LockInv, LockTypeOK, InScript, UpSteps, DownSteps
<1>2. LockInv /\ [Next]_vars => LockInv'
  BY LockStep
<1> QED
  BY <1>1, <1>2, PTL DEF Safety

\* "Scale-up and scale-down operations never run concurrently": mutual
\* exclusion of the scripts, for any number of scale jobs that take the lock,
\* through failures, kills and lost answers of the API server, and whatever
\* jobs of job.yaml do beside them.
THEOREM ScalingIsExclusive == Safety => []MutualExclusion
<1>1. LockInv => MutualExclusion
  BY DEF LockInv, MutualExclusion
<1> QED
  BY <1>1, LockInvariant, PTL

\* The jobs implement serial scaling events: where all of them take the lock,
\* the peers of the network change only inside an event, and once in each.
THEOREM ScalingImplementsSerial == Safety => ScalingIsSerial
<1> DEFINE act == {j \in Job : manual = {} /\ pc[j] \in InScript}
           chg == \E j \in Job : manual = {} /\ pc[j] \in InScript \ {"count", "create", "pick", "leave", "delete"}
<1>1. Init => Serial!SerialInit
  BY DEF Init, Serial!SerialInit, InScript, UpSteps, DownSteps
<1>2. ASSUME LockInv, [Next]_vars, manual # {}
      PROVE  UNCHANGED Serial!serialVars
  <2>1. manual' = manual
    BY <1>2, StepKinds
  <2> QED
    BY <1>2, <2>1 DEF Serial!serialVars
<1>3. ASSUME LockInv, [Next]_vars, manual = {}
      PROVE  [Serial!SerialNext]_(Serial!serialVars)
  <2> USE <1>3
  <2>a. manual' = {}
    BY StepKinds
  <2>0. \A i, j \in Job : pc[i] \in InScript /\ pc[j] \in InScript => i = j
    BY DEF LockInv
  <2>b. /\ act = {i \in Job : pc[i] \in InScript} /\ act' = {i \in Job : pc'[i] \in InScript}
        /\ chg = \E i \in Job : pc[i] \in After
        /\ chg' = \E i \in Job : pc'[i] \in After
        /\ Serial!serialVars = <<peers, act, chg>>
        /\ Serial!serialVars' = <<peers', act', chg'>>
    BY <2>a DEF After, Before, Serial!serialVars
  <2> HIDE DEF act, chg
  <2>1. ASSUME UNCHANGED <<pc, peers>>
        PROVE  UNCHANGED Serial!serialVars
    BY <2>1, <2>b
  <2>2. ASSUME NEW j \in Job, AcquireLock(j)
        PROVE  act = {} /\ act' = {j} /\ ~chg /\ ~chg' /\ peers' = peers
    <3>1. /\ Moves(j, {"lock"}, {"count", "pick"})
          /\ \A i \in Job : pc[i] \notin InScript
          /\ UNCHANGED peers
      BY <2>2, AcquireMove DEF LockInv, AcquireLock, clusterVars
    <3>2. /\ \A i \in Job \ {j} : pc'[i] = pc[i]
          /\ pc'[j] \in InScript \ After
      BY <3>1 DEF Moves, Before, After, InScript, UpSteps, DownSteps, LockInv, LockTypeOK
    <3> QED
      BY <3>1, <3>2, <2>b DEF After
  <2>3. ASSUME NEW j \in Job, Moves(j, Before, Before) \/ Moves(j, After, After), UNCHANGED peers
        PROVE  UNCHANGED Serial!serialVars
    <3>1. /\ \A i \in Job \ {j} : pc'[i] = pc[i]
          /\ pc[j] \in InScript /\ pc'[j] \in InScript
          /\ pc[j] \in After <=> pc'[j] \in After
      BY <2>3 DEF Moves, Before, After, InScript, UpSteps, DownSteps, LockInv, LockTypeOK
    <3>2. act' = act
      BY <3>1, <2>b
    <3>3. chg' = chg
      BY <3>1, <2>b
    <3> QED
      BY <2>3, <3>2, <3>3, <2>b
  <2>4. ASSUME NEW j \in Job, CreatePeer(j) \/ DeletePeer(j)
        PROVE  act = {j} /\ act' = {j} /\ ~chg /\ chg'
    <3>1. Moves(j, Before, After)
      BY <2>4, ChangeMove DEF LockInv
    <3>2. /\ \A i \in Job \ {j} : pc'[i] = pc[i]
          /\ pc[j] \in InScript \ After /\ pc'[j] \in After
      BY <3>1 DEF Moves, Before, After, InScript, UpSteps, DownSteps, LockInv, LockTypeOK
    <3> QED
      BY <2>0, <3>2, <2>b DEF After
  <2>5. ASSUME NEW j \in Job, Ends(j)
        PROVE  \/ act = {j} /\ act' = {} /\ ~chg' /\ peers' = peers
               \/ UNCHANGED Serial!serialVars
    <3>1. /\ \A i \in Job \ {j} : pc'[i] = pc[i]
          /\ pc'[j] \notin InScript /\ UNCHANGED peers
      BY <2>5 DEF Ends, Moves, LockInv, LockTypeOK, InScript, UpSteps, DownSteps
    <3>2. CASE pc[j] \in InScript
      <4>1. act = {j} /\ act' = {}
        BY <2>0, <3>1, <3>2, <2>b
      <4>2. ~chg'
        BY <2>0, <3>1, <3>2, <2>b DEF After
      <4> QED
        BY <3>1, <4>1, <4>2
    <3>3. CASE pc[j] \notin InScript
      <4>1. act' = act
        BY <3>1, <3>3, <2>b
      <4>2. chg' = chg
        BY <3>1, <3>3, <2>b DEF After
      <4> QED
        BY <3>1, <4>1, <4>2, <2>b
    <3> QED
      BY <3>2, <3>3
  <2>6. ASSUME NEW j \in Job, StaysOut(j)
        PROVE  UNCHANGED Serial!serialVars
    <3>1. /\ \A i \in Job \ {j} : pc'[i] = pc[i]
          /\ pc[j] \notin InScript /\ pc'[j] \notin InScript
          /\ UNCHANGED peers
      BY <2>6 DEF StaysOut, Outside, Moves, LockInv, LockTypeOK, InScript, UpSteps, DownSteps
    <3>2. act' = act
      BY <3>1, <2>b
    <3>3. chg' = chg
      BY <3>1, <2>b DEF After
    <3> QED
      BY <3>1, <3>2, <3>3, <2>b
  <2>7. \A j \in Job : GoesOn(j) => UNCHANGED Serial!serialVars
    BY <2>3 DEF GoesOn
  <2>8. CASE UNCHANGED Serial!serialVars
    BY <2>8
  <2>9. CASE \E j \in Job : AcquireLock(j) \/ CreatePeer(j) \/ DeletePeer(j) \/ Ends(j)
    <3>1. PICK j \in Job : AcquireLock(j) \/ CreatePeer(j) \/ DeletePeer(j) \/ Ends(j)
      BY <2>9
    <3>2. \/ act = {} /\ act' = {j} /\ ~chg /\ ~chg' /\ peers' = peers
          \/ act = {j} /\ act' = {j} /\ ~chg /\ chg'
          \/ act = {j} /\ act' = {} /\ ~chg' /\ peers' = peers
          \/ UNCHANGED Serial!serialVars
      BY <3>1, <2>2, <2>4, <2>5
    <3> USE DEF act, chg
    <3>3. CASE act = {} /\ act' = {j} /\ ~chg /\ ~chg' /\ peers' = peers
      BY <3>3, <2>a DEF Serial!SerialNext, Serial!Begin
    <3>4. CASE act = {j} /\ act' = {j} /\ ~chg /\ chg'
      BY <3>4 DEF Serial!SerialNext, Serial!Change
    <3>5. CASE act = {j} /\ act' = {} /\ ~chg' /\ peers' = peers
      BY <3>5, <2>a DEF Serial!SerialNext, Serial!End
    <3> QED
      BY <3>2, <3>3, <3>4, <3>5
  <2> QED
    BY <2>1, <2>6, <2>7, <2>8, <2>9, StepKinds
<1>4. LockInv /\ [Next]_vars => [Serial!SerialNext]_(Serial!serialVars)
  BY <1>2, <1>3
<1> QED
  BY <1>1, <1>4, LockInvariant, PTL DEF Safety, ScalingIsSerial, Serial!SerialSpec

-----------------------------------------------------------------------------
(* Type correctness.                                                       *)

\* A job keeps to the script of its ScaledJob.
OwnScript == \A j \in Job : /\ pc[j] \in UpSteps => j \in Up
                            /\ pc[j] \in DownSteps => j \notin Up

\* From its count on the script that scales up has a name for its peer.
HasName == \A j \in Job : pc[j] \in {"create", "ready", "join"} => peer[j] \in Nat

\* No two peers have the same name.
Distinct == \A i, k \in DOMAIN peers : peers[i] = peers[k] => i = k

\* The types hold because pods and peers can be counted.
TypeInv ==
    /\ TypeOK
    /\ IsFiniteSet(pods)
    /\ IsFiniteSet(FabricPeers)
    /\ OwnScript
    /\ HasName
    /\ Distinct

\* What an ended job leaves of its variables.
LEMMA EndTypes ==
    ASSUME TypeInv, NEW j \in Job, EndShell(j),
           lease' \in BOOLEAN, failures' \in 0..MaxFailures, orphaned' \in BOOLEAN,
           UNCHANGED <<clusterVars, pods, seen, manual>>
    PROVE  TypeInv'
<1>1. FabricPeers' = FabricPeers /\ (Distinct => Distinct')
  BY DEF FabricPeers, clusterVars, Distinct
<1>2. TypeOK' /\ OwnScript' /\ HasName'
  BY DEF TypeInv, OwnScript, HasName, TypeOK, EndShell, GoTo, Ended, NoPeer, clusterVars, UpSteps, DownSteps
<1> QED
  BY <1>1, <1>2 DEF TypeInv

\* A piece of a sequence of peers, and two pieces put together.
LEMMA SliceFacts ==
    ASSUME NEW s \in Seq(Nat), NEW m \in Int, NEW n \in Int, 1 <= m, m <= n + 1, n <= Len(s)
    PROVE  /\ SubSeq(s, m, n) \in Seq(Nat)
           /\ Len(SubSeq(s, m, n)) = n - m + 1
           /\ \A k \in 1..(n - m + 1) : SubSeq(s, m, n)[k] = s[m + k - 1]
<1>1. CASE m <= n
  BY <1>1
<1>2. CASE m = n + 1
  <2>1. SubSeq(s, m, n) = <<>>
    BY <1>2
  <2> QED
    BY <1>2, <2>1
<1> QED
  BY <1>1, <1>2

LEMMA JoinFacts ==
    ASSUME NEW u \in Seq(Nat), NEW v \in Seq(Nat)
    PROVE  /\ u \o v \in Seq(Nat)
           /\ Len(u \o v) = Len(u) + Len(v)
           /\ \A k \in 1..Len(u) : (u \o v)[k] = u[k]
           /\ \A k \in 1..Len(v) : (u \o v)[Len(u) + k] = v[k]
<1>1. Len(u) \in Nat /\ Len(v) \in Nat
  OBVIOUS
<1>2. \A k \in 1..Len(v) : (u \o v)[Len(u) + k] = v[k]
  BY <1>1
<1> QED
  BY <1>1, <1>2

\* A sequence that lists nothing twice.
NoRepeats(s) == \A a, b \in DOMAIN s : s[a] = s[b] => a = b

\* The peers that remain when one is taken out of their sequence.
LEMMA RemoveFacts ==
    ASSUME NEW s \in Seq(Nat), NEW n \in Nat, n = Len(s), NEW i \in 1..n,
           NoRepeats(s)
    PROVE  /\ RemoveAt(s, i) \in Seq(Nat)
           /\ NoRepeats(RemoveAt(s, i))
           /\ ToSet(RemoveAt(s, i)) = ToSet(s) \ {s[i]}
<1> USE DEF NoRepeats
<1>1. PICK h \in Nat, m \in Nat :
          n = Len(s) /\ DOMAIN s = 1..n /\ i \in 1..n /\ h = i - 1 /\ m = i + 1
  OBVIOUS
<1>2. PICK u \in Seq(Nat) : u = SubSeq(s, 1, h) /\ Len(u) = h /\ \A k \in 1..h : u[k] = s[k]
  <2>1. h \in Int /\ 1 <= h + 1 /\ h <= Len(s) /\ h - 1 + 1 = h /\ \A k \in 1..h : 1 + k - 1 = k
    BY <1>1
  <2>2. /\ SubSeq(s, 1, h) \in Seq(Nat) /\ Len(SubSeq(s, 1, h)) = h - 1 + 1
        /\ \A k \in 1..(h - 1 + 1) : SubSeq(s, 1, h)[k] = s[1 + k - 1]
    BY <2>1, SliceFacts
  <2>3. PICK u : u = SubSeq(s, 1, h)
    OBVIOUS
  <2> QED
    BY <2>1, <2>2, <2>3
<1>3. PICK v \in Seq(Nat) : v = SubSeq(s, m, n) /\ Len(v) = n - i /\ \A k \in 1..(n - i) : v[k] = s[i + k]
  <2>1. /\ m \in Int /\ n \in Int /\ 1 <= m /\ m <= n + 1 /\ n <= Len(s)
        /\ n - m + 1 = n - i /\ \A k \in Int : m + k - 1 = i + k
    BY <1>1
  <2>2. /\ SubSeq(s, m, n) \in Seq(Nat) /\ Len(SubSeq(s, m, n)) = n - m + 1
        /\ \A k \in 1..(n - m + 1) : SubSeq(s, m, n)[k] = s[m + k - 1]
    BY <2>1, SliceFacts
  <2>3. PICK v : v = SubSeq(s, m, n)
    OBVIOUS
  <2>4. v \in Seq(Nat) /\ Len(v) = n - i
    BY <2>1, <2>2, <2>3
  <2>5. \A k \in 1..(n - i) : v[k] = s[i + k]
    <3> TAKE k \in 1..(n - i)
    <3>1. v[k] = s[m + k - 1] /\ m + k - 1 = i + k
      BY <2>1, <2>2, <2>3
    <3> QED
      BY <3>1
  <2> QED
    BY <2>3, <2>4, <2>5
<1>4. PICK r : r = RemoveAt(s, i) /\ r = u \o v
  BY <1>1, <1>2, <1>3 DEF RemoveAt
<1>a. /\ r \in Seq(Nat) /\ Len(r) = Len(u) + Len(v)
      /\ \A k \in 1..Len(u) : r[k] = u[k]
      /\ \A k \in 1..Len(v) : r[Len(u) + k] = v[k]
  BY <1>4, JoinFacts
<1>5. /\ r \in Seq(Nat)
      /\ DOMAIN r = 1..(n - 1)
      /\ \A k \in 1..h : r[k] = s[k]
  <2>1. Len(r) = n - 1
    BY <1>1, <1>2, <1>3, <1>a
  <2>2. r \in Seq(Nat) /\ DOMAIN r = 1..(n - 1)
    BY <1>a, <2>1
  <2>3. \A k \in 1..h : r[k] = s[k]
    BY <1>2, <1>a
  <2> QED
    BY <2>2, <2>3
<1>6. \A k \in i..(n - 1) : r[k] = s[k + 1]
  <2> TAKE k \in i..(n - 1)
  <2>1. PICK d \in 1..(n - i) : h + d = k /\ i + d = k + 1
    <3>1. k - h \in 1..(n - i) /\ h + (k - h) = k /\ i + (k - h) = k + 1
      BY <1>1
    <3> QED
      BY <3>1
  <2>2. r[h + d] = v[d] /\ v[d] = s[i + d]
    BY <1>2, <1>3, <1>a
  <2> QED
    BY <2>1, <2>2
<1> DEFINE at(k) == IF k < i THEN k ELSE k + 1
<1>7. \A k \in DOMAIN r : r[k] = s[at(k)] /\ at(k) \in DOMAIN s /\ at(k) # i
  <2> TAKE k \in DOMAIN r
  <2>1. k \in 1..(n - 1)
    BY <1>5
  <2>2. CASE k < i
    <3>1. k \in 1..h /\ at(k) = k /\ k \in 1..n
      BY <1>1, <2>1, <2>2
    <3> QED
      BY <1>1, <1>5, <2>2, <3>1
  <2>3. CASE ~(k < i)
    <3>1. k \in i..(n - 1) /\ at(k) = k + 1 /\ k + 1 \in 1..n /\ k + 1 # i
      BY <1>1, <2>1, <2>3
    <3> QED
      BY <1>1, <1>6, <3>1
  <2> QED
    BY <2>2, <2>3
<1>8. \A a, b \in DOMAIN r : at(a) = at(b) => a = b
  <2>1. \A a, b \in 1..(n - 1) : at(a) = at(b) => a = b
    OBVIOUS
  <2> QED
    BY <1>5, <2>1
<1>9. \A k \in DOMAIN s \ {i} : \E b \in DOMAIN r : at(b) = k
  <2> TAKE k \in DOMAIN s \ {i}
  <2>1. CASE k < i
    BY <1>1, <1>5, <2>1
  <2>2. CASE k > i
    <3>1. k - 1 \in 1..(n - 1) /\ at(k - 1) = k
      BY <1>1, <2>2
    <3>2. k - 1 \in DOMAIN r
      BY <1>5, <3>1
    <3> QED
      BY <3>1, <3>2
  <2> QED
    BY <1>1, <2>1, <2>2
<1> HIDE DEF at
<1>10. \A a, b \in DOMAIN r : r[a] = r[b] => a = b
  BY <1>7, <1>8
<1>11. ToSet(r) = ToSet(s) \ {s[i]}
  <2>1. ASSUME NEW x \in ToSet(r)
        PROVE  x \in ToSet(s) \ {s[i]}
    <3>1. PICK k \in DOMAIN r : r[k] = x
      BY DEF ToSet
    <3> QED
      BY <1>7, <3>1 DEF ToSet
  <2>2. ASSUME NEW x \in ToSet(s) \ {s[i]}
        PROVE  x \in ToSet(r)
    <3>1. PICK k \in DOMAIN s \ {i} : s[k] = x
      BY DEF ToSet
    <3>2. PICK b \in DOMAIN r : at(b) = k
      BY <1>9
    <3> QED
      BY <1>7, <3>1, <3>2 DEF ToSet
  <2> QED
    BY <2>1, <2>2
<1> QED
  BY <1>4, <1>5, <1>10, <1>11

\* What becomes of the FabricPeers.
LEMMA CreateFacts ==
    ASSUME TypeInv, NEW j \in Job, CreatePeer(j)
    PROVE  /\ peers' \in Seq(Nat) /\ Distinct'
           /\ peer[j] \notin FabricPeers
           /\ FabricPeers' = FabricPeers \cup {peer[j]}
           /\ IsFiniteSet(FabricPeers')
           /\ Cardinality(FabricPeers') = Cardinality(FabricPeers) + 1
<1>1. PICK p \in Nat : p = peer[j]
  BY DEF TypeInv, HasName, CreatePeer, At
<1>2. peers \in Seq(Nat) /\ peers' = Append(peers, p) /\ p \notin FabricPeers
  BY <1>1 DEF TypeInv, TypeOK, CreatePeer
<1>3. /\ peers' \in Seq(Nat) /\ Len(peers) \in Nat
      /\ DOMAIN peers = 1..Len(peers) /\ DOMAIN peers' = 1..(Len(peers) + 1)
      /\ \A i \in 1..Len(peers) : peers'[i] = peers[i]
      /\ peers'[Len(peers) + 1] = p
  BY <1>2
<1>4. FabricPeers' = FabricPeers \cup {p}
  <2>1. \A x : x \in FabricPeers' <=> \E i \in 1..(Len(peers) + 1) : peers'[i] = x
    BY <1>3 DEF FabricPeers, ToSet
  <2>2. \A x : x \in FabricPeers <=> \E i \in 1..Len(peers) : peers[i] = x
    BY <1>3 DEF FabricPeers, ToSet
  <2>3. 1..(Len(peers) + 1) = 1..Len(peers) \cup {Len(peers) + 1}
    BY <1>3
  <2> QED
    BY <1>3, <2>1, <2>2, <2>3
<1>5. Distinct'
  <2>1. \A i \in 1..Len(peers) : peers[i] # p
    BY <1>2, <1>3 DEF FabricPeers, ToSet
  <2> QED
    BY <1>3, <2>1 DEF TypeInv, Distinct
<1>6. /\ IsFiniteSet(FabricPeers \cup {p})
      /\ Cardinality(FabricPeers \cup {p}) = Cardinality(FabricPeers) + 1
  BY <1>2, FS_AddElement DEF TypeInv
<1> QED
  BY <1>1, <1>2, <1>3, <1>4, <1>5, <1>6

LEMMA DeleteFacts ==
    ASSUME TypeInv, NEW j \in Job, DeletePeer(j)
    PROVE  /\ peers' \in Seq(Nat) /\ Distinct'
           /\ peer[j] \in FabricPeers
           /\ FabricPeers' = FabricPeers \ {peer[j]}
           /\ IsFiniteSet(FabricPeers')
           /\ Cardinality(FabricPeers') = Cardinality(FabricPeers) - 1
<1>1. PICK i \in DOMAIN peers : peers[i] = peer[j] /\ peers' = RemoveAt(peers, i)
  BY DEF DeletePeer
<1>2. peers \in Seq(Nat) /\ NoRepeats(peers)
  BY DEF TypeInv, TypeOK, Distinct, NoRepeats
<1>3. peers' \in Seq(Nat) /\ Distinct' /\ FabricPeers' = FabricPeers \ {peer[j]}
  <2>1. PICK n \in Nat : n = Len(peers) /\ i \in 1..n
    BY <1>1, <1>2
  <2>2. PICK r : r = RemoveAt(peers, i)
    OBVIOUS
  <2>3. r \in Seq(Nat) /\ NoRepeats(r) /\ ToSet(r) = ToSet(peers) \ {peers[i]}
    BY <1>2, <2>1, <2>2, RemoveFacts
  <2> QED
    BY <1>1, <2>2, <2>3 DEF Distinct, NoRepeats, FabricPeers
<1>4. peer[j] \in FabricPeers
  BY <1>1 DEF FabricPeers, ToSet
<1>5. /\ IsFiniteSet(FabricPeers \ {peer[j]})
      /\ Cardinality(FabricPeers \ {peer[j]}) = Cardinality(FabricPeers) - 1
  BY <1>4, FS_RemoveElement DEF TypeInv
<1> QED
  BY <1>3, <1>4, <1>5

\* Only these two commands change them.
LEMMA PeersStay ==
    ASSUME UNCHANGED peers
    PROVE  /\ FabricPeers' = FabricPeers
           /\ Distinct => Distinct'
  BY DEF FabricPeers, Distinct

\* A finite set has a number of elements.
LEMMA Counted ==
    ASSUME TypeInv
    PROVE  /\ Cardinality(pods) \in Nat
           /\ Cardinality(FabricPeers) \in Nat
           /\ FabricPeers \subseteq pods => Cardinality(FabricPeers) <= Cardinality(pods)
  BY FS_CardinalityType, FS_Subset DEF TypeInv

\* Commands that only go on, or change sets of peers.
LEMMA SetTypes ==
    ASSUME TypeInv, NEW j \in Job, NEW read \in SUBSET Nat,
           \/ AcquireLock(j) \/ LockTaken(j) \/ PeerRunning(j) \/ JoinChannel(j)
           \/ Inspect(j) \/ InstallChaincode(j) \/ PruneProfile(j, read) \/ LeaveChannel(j)
           \/ Upload(j),
           orphaned' = orphaned, failures' \in 0..MaxFailures, UNCHANGED <<pods, seen, manual>>
    PROVE  TypeInv'
<1>1. UNCHANGED peers
  BY DEF AcquireLock, LockTaken, PeerRunning, JoinChannel, Inspect, InstallChaincode,
         PruneProfile, LeaveChannel, Upload, clusterVars
<1>2. Distinct' /\ IsFiniteSet(FabricPeers') /\ IsFiniteSet(pods') /\ FabricPeers \subseteq Nat
  BY <1>1, PeersStay DEF TypeInv, TypeOK, FabricPeers, ToSet
<1>3. TypeOK' /\ OwnScript' /\ HasName'
  <2> USE DEF TypeInv, OwnScript, HasName, TypeOK, At, GoTo, UpSteps, DownSteps, InScript, clusterVars
  <2>1. CASE AcquireLock(j)
    BY <2>1 DEF AcquireLock, ScriptStart
  <2>2. CASE LockTaken(j)
    BY <2>2 DEF LockTaken
  <2>3. CASE PeerRunning(j)
    BY <2>3 DEF PeerRunning
  <2>4. CASE JoinChannel(j)
    BY <2>4 DEF JoinChannel
  <2>5. CASE Inspect(j)
    BY <1>2, <2>5 DEF Inspect
  <2>6. CASE InstallChaincode(j)
    BY <2>6 DEF InstallChaincode
  <2>7. CASE PruneProfile(j, read)
    BY <2>7 DEF PruneProfile
  <2>8. CASE LeaveChannel(j)
    BY <2>8 DEF LeaveChannel
  <2>9. CASE Upload(j)
    BY <2>9 DEF Upload
  <2> QED
    BY <2>1, <2>2, <2>3, <2>4, <2>5, <2>6, <2>7, <2>8, <2>9
<1> QED
  BY <1>2, <1>3 DEF TypeInv

\* Commands that count pods, and the one that picks a peer.
LEMMA NumberTypes ==
    ASSUME TypeInv, NEW j \in Job, NEW n \in Nat, NEW p \in Nat \cup {NoPeer},
           CountPeers(j, n) \/ PickNewest(j, p) \/ ScaleChaincodeUp(j) \/ ScaleChaincodeDown(j, n),
           orphaned' = orphaned, failures' \in 0..MaxFailures, UNCHANGED <<pods, seen, manual>>
    PROVE  TypeInv'
<1>1. UNCHANGED peers
  BY DEF CountPeers, PickNewest, ScaleChaincodeUp, ScaleChaincodeDown, clusterVars
<1>2. Distinct' /\ IsFiniteSet(FabricPeers') /\ IsFiniteSet(pods')
  BY <1>1, PeersStay DEF TypeInv
<1>3. TypeOK' /\ OwnScript' /\ HasName'
  <2> USE DEF TypeInv, OwnScript, HasName, TypeOK, At, GoTo, UpSteps, DownSteps, InScript, clusterVars
  <2>1. CASE CountPeers(j, n)
    BY <2>1 DEF CountPeers
  <2>2. CASE PickNewest(j, p)
    BY <2>2 DEF PickNewest
  <2>3. CASE ScaleChaincodeUp(j)
    BY <2>3 DEF ScaleChaincodeUp
  <2>4. CASE ScaleChaincodeDown(j, n)
    BY <2>4 DEF ScaleChaincodeDown
  <2> QED
    BY <2>1, <2>2, <2>3, <2>4
<1> QED
  BY <1>2, <1>3 DEF TypeInv

\* Commands that change the set of peers.
LEMMA PeerTypes ==
    ASSUME TypeInv, NEW j \in Job, CreatePeer(j) \/ DeletePeer(j),
           UNCHANGED <<orphaned, failures, pods, seen, manual>>
    PROVE  TypeInv'
<1>1. peers' \in Seq(Nat) /\ Distinct' /\ IsFiniteSet(FabricPeers')
  BY CreateFacts, DeleteFacts
<1>2. TypeOK' /\ OwnScript' /\ HasName'
  <2> USE <1>1 DEF TypeInv, OwnScript, HasName, TypeOK, At, GoTo, UpSteps, DownSteps, InScript
  <2>1. CASE CreatePeer(j)
    BY <2>1 DEF CreatePeer
  <2>2. CASE DeletePeer(j)
    BY <2>2 DEF DeletePeer
  <2> QED
    BY <2>1, <2>2
<1> QED
  BY <1>1, <1>2 DEF TypeInv

\* Every step keeps the types.
LEMMA TypeStep ==
    ASSUME TypeInv, [Next]_vars
    PROVE  TypeInv'
<1>0. /\ Cardinality(pods) \in Nat /\ Newest \in Nat \cup {NoPeer} /\ profile \in SUBSET Nat
      /\ failures \in 0..MaxFailures /\ lease \in BOOLEAN /\ orphaned \in BOOLEAN
  BY Counted DEF TypeInv, TypeOK, Newest, Last
<1>1. ASSUME NEW j \in Job, JobStep(j)
      PROVE  TypeInv'
  <2>1. UNCHANGED <<pods, seen, failures, manual>> /\ failures' \in 0..MaxFailures
    BY <1>0, <1>1 DEF JobStep
  <2>2. CASE PeerNameTaken(j) \/ CommandFails(j) \/ WaitTimesOut(j) \/ Settle(j)
    <3>1. Exit(j) /\ UNCHANGED clusterVars
      BY <2>2 DEF PeerNameTaken, CommandFails, WaitTimesOut, Settle
    <3>2. EndShell(j) /\ lease' \in BOOLEAN /\ orphaned' \in BOOLEAN
      BY <1>0, <3>1 DEF Exit
    <3> QED
      BY <2>1, <3>1, <3>2, EndTypes
  <2>3. CASE orphaned' = orphaned /\ (CreatePeer(j) \/ DeletePeer(j))
    BY <2>1, <2>3, PeerTypes
  <2>4. CASE /\ orphaned' = orphaned
             /\ \/ CountPeers(j, Cardinality(pods)) \/ PickNewest(j, Newest)
                \/ ScaleChaincodeUp(j) \/ ScaleChaincodeDown(j, Cardinality(pods))
    <3>1. CASE CountPeers(j, Cardinality(pods))
      BY <1>0, <2>1, <2>4, <3>1, NumberTypes
    <3>2. CASE PickNewest(j, Newest)
      BY <1>0, <2>1, <2>4, <3>2, NumberTypes
    <3>3. CASE ScaleChaincodeUp(j)
      BY <1>0, <2>1, <2>4, <3>3, NumberTypes
    <3>4. CASE ScaleChaincodeDown(j, Cardinality(pods))
      BY <1>0, <2>1, <2>4, <3>4, NumberTypes
    <3> QED
      BY <2>4, <3>1, <3>2, <3>3, <3>4
  <2>5. CASE /\ orphaned' = orphaned
             /\ \/ AcquireLock(j) \/ LockTaken(j) \/ PeerRunning(j) \/ JoinChannel(j)
                \/ Inspect(j) \/ InstallChaincode(j) \/ PruneProfile(j, profile)
                \/ LeaveChannel(j) \/ Upload(j)
    BY <1>0, <2>1, <2>5, SetTypes
  <2> QED
    BY <1>1, <2>2, <2>3, <2>4, <2>5 DEF JobStep
<1>2. ASSUME NEW j \in Job, JobEvent(j)
      PROVE  TypeInv'
  <2>1. UNCHANGED <<pods, seen, manual>>
    BY <1>2 DEF JobEvent
  <2>2. CallFails => failures' \in 0..MaxFailures
    BY <1>0, BoundAssumption DEF CallFails
  <2>3. CASE StepFails(j)
    <3>1. EndShell(j) /\ lease' \in BOOLEAN /\ orphaned' \in BOOLEAN /\ UNCHANGED clusterVars
      BY <1>0, <2>3 DEF StepFails, Exit
    <3>2. failures' \in 0..MaxFailures
      BY <2>2, <2>3 DEF StepFails
    <3> QED
      BY <2>1, <3>1, <3>2, EndTypes
  <2>4. CASE PipeFails(j) /\ UNCHANGED orphaned
    <3>1. failures' \in 0..MaxFailures
      BY <2>2, <2>4 DEF PipeFails
    <3>2. CASE CountPeers(j, 0) \/ PickNewest(j, NoPeer) \/ ScaleChaincodeDown(j, 0)
      BY <2>1, <2>4, <3>1, <3>2, NumberTypes
    <3>3. CASE PruneProfile(j, {})
      BY <2>1, <2>4, <3>1, <3>3, SetTypes
    <3> QED
      BY <2>4, <3>2, <3>3 DEF PipeFails
  <2>5. CASE Trigger(j) /\ UNCHANGED <<failures, orphaned>>
    <3>1. FabricPeers' = FabricPeers /\ (Distinct => Distinct')
      BY <2>5, PeersStay DEF Trigger, clusterVars
    <3>2. TypeOK' /\ OwnScript' /\ HasName'
      BY <2>1, <2>5 DEF Trigger, ScriptStart, TypeInv, OwnScript, HasName, TypeOK, GoTo, clusterVars,
                        InScript, UpSteps, DownSteps
    <3> QED
      BY <2>1, <3>1, <3>2 DEF TypeInv
  <2>6. CASE LockReplyLost(j) /\ UNCHANGED failures
    <3>1. FabricPeers' = FabricPeers /\ (Distinct => Distinct')
      BY <2>6, PeersStay DEF LockReplyLost, clusterVars
    <3>2. TypeOK' /\ OwnScript' /\ HasName'
      BY <2>1, <2>6 DEF LockReplyLost, TypeInv, OwnScript, HasName, TypeOK, GoTo, clusterVars,
                        UpSteps, DownSteps
    <3> QED
      BY <2>1, <3>1, <3>2 DEF TypeInv
  <2>7. CASE Kill(j) /\ UNCHANGED failures
    <3>1. EndShell(j) /\ lease' \in BOOLEAN /\ UNCHANGED clusterVars /\ failures' \in 0..MaxFailures
      BY <1>0, <2>7 DEF Kill
    <3>2. orphaned' \in BOOLEAN
      BY <1>0, <2>7 DEF Kill, TypeInv, TypeOK
    <3> QED
      BY <2>1, <3>1, <3>2, EndTypes
  <2> QED
    BY <1>2, <2>3, <2>4, <2>5, <2>6, <2>7 DEF JobEvent
<1>3. CASE PodStarts \/ PodEnds \/ Scrape
  <2>1. UNCHANGED <<jobVars, lease, clusterVars, failures, manual, orphaned>>
    BY <1>3 DEF PodStarts, PodEnds, Scrape
  <2>2. FabricPeers' = FabricPeers /\ Distinct' /\ FabricPeers \subseteq Nat
    BY <2>1, PeersStay DEF TypeInv, TypeOK, clusterVars, FabricPeers, ToSet
  <2>3. IsFiniteSet(pods') /\ pods' \subseteq Nat
    <3>1. CASE PodStarts
      <4>1. PICK p \in FabricPeers : pods' = pods \cup {p}
        BY <3>1 DEF PodStarts
      <4>2. IsFiniteSet(pods \cup {p})
        BY FS_AddElement DEF TypeInv
      <4> QED
        BY <2>2, <4>1, <4>2 DEF TypeInv, TypeOK
    <3>2. CASE PodEnds
      <4>1. PICK p \in pods : pods' = pods \ {p}
        BY <3>2 DEF PodEnds
      <4> QED
        BY <4>1, FS_RemoveElement DEF TypeInv, TypeOK
    <3>3. CASE Scrape
      BY <3>3 DEF Scrape, TypeInv, TypeOK
    <3> QED
      BY <1>3, <3>1, <3>2, <3>3
  <2>4. seen' \in Nat
    BY <1>0, <1>3 DEF PodStarts, PodEnds, Scrape, TypeInv, TypeOK
  <2> QED
    BY <2>1, <2>2, <2>3, <2>4 DEF TypeInv, OwnScript, HasName, TypeOK, jobVars, clusterVars
<1>4. CASE UNCHANGED vars
  <2>1. FabricPeers' = FabricPeers /\ Distinct'
    BY <1>4, PeersStay DEF TypeInv, vars, clusterVars
  <2> QED
    BY <1>4, <2>1 DEF vars, TypeInv, OwnScript, HasName, TypeOK, jobVars, clusterVars
<1> QED
  BY <1>1, <1>2, <1>3, <1>4 DEF Next

\* The types hold in every reachable state.
LEMMA TypeInvariant == Safety => []TypeInv
<1>1. Init => TypeInv
  <2> SUFFICES ASSUME Init
               PROVE  TypeInv
    OBVIOUS
  <2>1. IsFiniteSet(pods) /\ FabricPeers = {First} /\ IsFiniteSet(FabricPeers) /\ Distinct
    <3>1. peers = <<First>> /\ DOMAIN peers = {1} /\ peers[1] = First
      BY DEF Init
    <3>2. FabricPeers = {First} /\ Distinct
      BY <3>1 DEF FabricPeers, ToSet, Distinct
    <3> QED
      BY <3>2, FS_Singleton DEF Init
  <2>2. /\ peers \in Seq(Nat) /\ failures \in 0..MaxFailures
        /\ seen \in Nat /\ replicas \in Nat \cup {-1}
    BY BoundAssumption DEF Init, First
  <2>3. pc \in [Job -> {"idle", "lock", "done"} \cup InScript]
    BY DEF Init
  <2>4. /\ acquired \in [Job -> BOOLEAN] /\ lease \in BOOLEAN /\ orphaned \in BOOLEAN
        /\ count \in [Job -> Nat] /\ peer \in [Job -> Nat \cup {NoPeer}]
        /\ file \in [Job -> SUBSET Nat]
    BY DEF Init
  <2> QED
    BY <2>1, <2>2, <2>3, <2>4 DEF Init, TypeInv, OwnScript, HasName, TypeOK, First, UpSteps, DownSteps
<1>2. TypeInv /\ [Next]_vars => TypeInv'
  BY TypeStep
<1> QED
  BY <1>1, <1>2, PTL DEF Safety

\* Type correctness, for any number of peers, jobs, failures and faults: a
\* script that counts no pod asks for -1 replicas, and none asks for fewer.
THEOREM ScalingTypes == Safety => []TypeOK
<1>1. TypeInv => TypeOK
  BY DEF TypeInv
<1> QED
  BY <1>1, TypeInvariant, PTL

-----------------------------------------------------------------------------
(* The place of the script and the state of the cluster.                   *)

\* The objects of the cluster name the existing peers, and these run.  There
\* is a replica of the chaincode for each of them but k.
Agreed ==
    /\ profile = FabricPeers
    /\ channel = FabricPeers
    /\ installed = FabricPeers
    /\ FabricPeers \subseteq pods

Replicas(k) == replicas >= Cardinality(FabricPeers) - k

\* How far the script that scales up has brought each object to name its new
\* peer; there is nothing to say before it has one.
UpStage(j) ==
    LET old == FabricPeers \ {peer[j]} IN
    /\ pc[j] \in {"count", "create", "settle"} => Agreed
    /\ pc[j] \in {"count", "upload", "settle"} => Replicas(1)
    /\ At(j, "create") => count[j] >= Cardinality(FabricPeers) /\ Replicas(1)
    /\ pc[j] \in {"ready", "join", "inspect", "install", "scaleUp"} =>
           count[j] + 1 >= Cardinality(FabricPeers)
    /\ pc[j] \in {"ready", "join", "inspect", "install", "scaleUp", "upload"} =>
           profile = old /\ peer[j] \in FabricPeers
    /\ pc[j] \in {"ready", "join", "inspect", "install"} => installed = old
    /\ pc[j] \in {"ready", "join"} => channel = old
    /\ At(j, "ready") => old \subseteq pods
    /\ pc[j] \in {"join", "inspect", "install", "scaleUp", "upload"} => FabricPeers \subseteq pods
    /\ pc[j] \in {"inspect", "install", "scaleUp", "upload"} => channel = FabricPeers
    /\ pc[j] \in {"install", "scaleUp", "upload"} => file[j] = FabricPeers
    /\ pc[j] \in {"scaleUp", "upload"} => installed = FabricPeers

\* The same of the script that scales down and the peer it takes; there may
\* be none to take.
DownStage(j) ==
    /\ pc[j] \in {"pick", "leave", "settle"} => Agreed
    /\ pc[j] \in {"pick", "leave", "delete", "upload", "settle"} => Replicas(1)
    /\ pc[j] \in {"prune", "scaleDown"} => Replicas(0)
    /\ pc[j] \in {"delete", "prune", "scaleDown", "upload"} =>
           installed = FabricPeers /\ FabricPeers \subseteq pods
    /\ At(j, "delete") => profile = FabricPeers /\ channel = FabricPeers \ {peer[j]}
    /\ pc[j] \in {"prune", "scaleDown", "upload"} =>
           /\ channel = FabricPeers
           /\ profile = FabricPeers \cup {peer[j]}
           /\ peer[j] \notin FabricPeers
    /\ pc[j] \in {"scaleDown", "upload"} => file[j] = FabricPeers

Stage(j) == IF j \in Up THEN UpStage(j) ELSE DownStage(j)

\* At most one peer is known to clients and does not serve, or exists and is
\* not known.
OneApart == \A p, q \in (FabricPeers \cup profile) \ (InService \cap profile) : p = q

\* Where the objects of the cluster are while every change is made by a job
\* under the lock and no command has failed.  The job that has the lock knows;
\* when none has it they agree, or the Lease of a killed job or of a trap that
\* failed is there and no script runs again.
OrderInv ==
    Orderly =>
      /\ OneApart
      /\ ~lease => Agreed /\ Replicas(1)
      /\ \A j \in Job : acquired[j] => Stage(j)

\* The order of the objects stays when at most pods come for existing peers.
LEMMA ObjectsStay ==
    ASSUME UNCHANGED clusterVars, pods \cap FabricPeers \subseteq pods'
    PROVE  /\ FabricPeers' = FabricPeers
           /\ Agreed => Agreed'
           /\ \A k \in {0, 1} : Replicas(k) => Replicas(k)'
           /\ OneApart => OneApart'
<1>1. FabricPeers' = FabricPeers /\ UNCHANGED <<profile, channel, installed, replicas>>
  BY PeersStay DEF clusterVars
<1>2. Agreed => Agreed'
  BY <1>1 DEF Agreed
<1>3. \A k \in {0, 1} : Replicas(k) => Replicas(k)'
  BY <1>1 DEF Replicas
<1>4. OneApart => OneApart'
  <2>1. InService \subseteq InService'
    BY <1>1 DEF InService
  <2> QED
    BY <1>1, <2>1 DEF OneApart
<1> QED
  BY <1>1, <1>2, <1>3, <1>4

\* So does the stage of a job of which nothing changes.
LEMMA StageStays ==
    ASSUME NEW j \in Job, Stage(j), pods \cap FabricPeers \subseteq pods',
           UNCHANGED <<pc[j], peer[j], count[j], file[j], clusterVars>>
    PROVE  Stage(j)'
<1>1. FabricPeers' = FabricPeers /\ UNCHANGED <<profile, channel, installed>>
  BY PeersStay DEF clusterVars
<1>2. \A S \in SUBSET FabricPeers : S \subseteq pods => S \subseteq pods'
  OBVIOUS
<1>3. (Agreed => Agreed') /\ \A k \in {0, 1} : Replicas(k) => Replicas(k)'
  BY ObjectsStay
<1>4. UpStage(j) => UpStage(j)'
  BY <1>1, <1>2, <1>3 DEF UpStage, At
<1>5. DownStage(j) => DownStage(j)'
  BY <1>1, <1>2, <1>3 DEF DownStage, At
<1> QED
  BY <1>4, <1>5 DEF Stage

\* Wherever the script is, at most its own peer is apart.
LEMMA StageApart == \A j \in Job : TypeInv /\ pc[j] \in InScript /\ Stage(j) => OneApart
<1> SUFFICES ASSUME TypeInv, NEW j \in Job, pc[j] \in InScript, Stage(j)
             PROVE  OneApart
  OBVIOUS
<1>1. CASE j \in Up
  <2>1. pc[j] \in UpSteps \cup {"upload", "settle"} /\ UpStage(j)
    BY <1>1 DEF Stage, TypeInv, OwnScript, InScript
  <2> QED
    BY <2>1 DEF UpStage, Agreed, At, OneApart, InService, UpSteps
<1>2. CASE j \notin Up
  <2>1. pc[j] \in DownSteps \cup {"upload", "settle"} /\ DownStage(j)
    BY <1>2 DEF Stage, TypeInv, OwnScript, InScript
  <2> QED
    BY <2>1 DEF DownStage, Agreed, At, OneApart, InService, DownSteps
<1> QED
  BY <1>1, <1>2

-----------------------------------------------------------------------------
(* The commands of the scripts, each from its place to the next.           *)

\* The number of pods, those that still end included, becomes COUNT; the peer
\* is created, if its name is free.
LEMMA CreateStage ==
    ASSUME TypeInv, NEW j \in Job, j \in Up, UpStage(j), UNCHANGED pods,
           CountPeers(j, Cardinality(pods)) \/ CreatePeer(j)
    PROVE  UpStage(j)'
<1>1. CASE CountPeers(j, Cardinality(pods))
  <2>1. /\ pc[j] = "count" /\ pc'[j] = "create" /\ count'[j] = Cardinality(pods)
        /\ UNCHANGED <<profile, channel, installed, replicas>> /\ FabricPeers' = FabricPeers
    BY <1>1, PeersStay DEF CountPeers, At, GoTo, TypeInv, TypeOK, clusterVars
  <2>2. Agreed /\ Replicas(1)
    BY <2>1 DEF UpStage
  <2>3. count'[j] >= Cardinality(FabricPeers)
    <3>1. Cardinality(FabricPeers) <= Cardinality(pods) /\ Cardinality(pods) \in Nat /\ Cardinality(FabricPeers) \in Nat
      BY <2>2, Counted DEF Agreed
    <3> QED
      BY <2>1, <3>1
  <2>4. Agreed' /\ Replicas(1)'
    BY <2>1, <2>2 DEF Agreed, Replicas
  <2> QED
    BY <2>1, <2>3, <2>4 DEF UpStage, At
<1>2. CASE CreatePeer(j)
  <2>1. /\ pc[j] = "create" /\ pc'[j] = "ready"
        /\ UNCHANGED <<profile, channel, installed, replicas, peer, count>>
    BY <1>2 DEF CreatePeer, At, GoTo, TypeInv, TypeOK
  <2>2. /\ peer[j] \notin FabricPeers
        /\ FabricPeers' = FabricPeers \cup {peer[j]}
        /\ Cardinality(FabricPeers') = Cardinality(FabricPeers) + 1
    BY <1>2, CreateFacts
  <2>3. Agreed /\ count[j] >= Cardinality(FabricPeers)
    BY <2>1 DEF UpStage, At
  <2>4. FabricPeers' \ {peer'[j]} = FabricPeers /\ peer'[j] \in FabricPeers'
    BY <2>1, <2>2
  <2>5. count'[j] + 1 >= Cardinality(FabricPeers')
    <3>1. count[j] \in Nat /\ Cardinality(FabricPeers) \in Nat
      BY Counted DEF TypeInv, TypeOK
    <3> QED
      BY <2>1, <2>2, <2>3, <3>1
  <2>6. /\ profile' = FabricPeers /\ channel' = FabricPeers /\ installed' = FabricPeers
        /\ FabricPeers \subseteq pods'
    BY <2>1, <2>3 DEF Agreed
  <2> QED
    BY <2>1, <2>4, <2>5, <2>6 DEF UpStage, At
<1> QED
  BY <1>1, <1>2

\* The commands between the creation of the peer and the upload bring one
\* object after the other up to it.
LEMMA JoinStage ==
    ASSUME TypeInv, NEW j \in Job, j \in Up, UpStage(j), UNCHANGED pods,
           \/ PeerRunning(j) \/ JoinChannel(j) \/ Inspect(j)
           \/ InstallChaincode(j) \/ ScaleChaincodeUp(j)
    PROVE  UpStage(j)'
<1>1. FabricPeers' = FabricPeers /\ UNCHANGED <<profile, peer, count>>
  BY PeersStay DEF PeerRunning, JoinChannel, Inspect, InstallChaincode, ScaleChaincodeUp, clusterVars
<1>2. PICK old : old = FabricPeers \ {peer[j]}
  OBVIOUS
<1>3. /\ pc[j] \in {"ready", "join", "inspect", "install", "scaleUp"}
      /\ profile = old /\ peer[j] \in FabricPeers /\ FabricPeers = old \cup {peer[j]}
      /\ count[j] + 1 >= Cardinality(FabricPeers)
  BY <1>2 DEF UpStage, PeerRunning, JoinChannel, Inspect, InstallChaincode, ScaleChaincodeUp, At
<1>4. FabricPeers' \ {peer'[j]} = old
  BY <1>1, <1>2
<1>5. CASE PeerRunning(j)
  <2>1. pc'[j] = "join" /\ pc[j] = "ready" /\ UNCHANGED <<channel, installed>> /\ peer[j] \in pods
    BY <1>5 DEF PeerRunning, At, GoTo, TypeInv, TypeOK, clusterVars
  <2>2. channel = old /\ installed = old /\ FabricPeers \subseteq pods
    BY <1>2, <1>3, <2>1 DEF UpStage, At
  <2> QED
    BY <1>1, <1>3, <1>4, <2>1, <2>2 DEF UpStage, At
<1>6. CASE JoinChannel(j)
  <2>1. pc'[j] = "inspect" /\ pc[j] = "join" /\ UNCHANGED installed /\ channel' = channel \cup {peer[j]}
    BY <1>6 DEF JoinChannel, At, GoTo, TypeInv, TypeOK
  <2>2. channel' = FabricPeers /\ installed = old /\ FabricPeers \subseteq pods
    BY <1>2, <1>3, <2>1 DEF UpStage, At
  <2> QED
    BY <1>1, <1>3, <1>4, <2>1, <2>2 DEF UpStage, At
<1>7. CASE Inspect(j)
  <2>1. /\ pc'[j] = "install" /\ pc[j] = "inspect" /\ UNCHANGED <<channel, installed>>
        /\ file'[j] = FabricPeers
    BY <1>7 DEF Inspect, At, GoTo, TypeInv, TypeOK, clusterVars
  <2>2. channel = FabricPeers /\ installed = old /\ FabricPeers \subseteq pods
    BY <1>2, <1>3, <2>1 DEF UpStage, At
  <2> QED
    BY <1>1, <1>3, <1>4, <2>1, <2>2 DEF UpStage, At
<1>8. CASE InstallChaincode(j)
  <2>1. /\ pc'[j] = "scaleUp" /\ pc[j] = "install" /\ UNCHANGED <<channel, file>>
        /\ installed' = installed \cup {peer[j]}
    BY <1>8 DEF InstallChaincode, At, GoTo, TypeInv, TypeOK
  <2>2. channel = FabricPeers /\ installed' = FabricPeers /\ file[j] = FabricPeers /\ FabricPeers \subseteq pods
    BY <1>2, <1>3, <2>1 DEF UpStage, At
  <2> QED
    BY <1>1, <1>3, <1>4, <2>1, <2>2 DEF UpStage, At
<1>9. CASE ScaleChaincodeUp(j)
  <2>1. /\ pc'[j] = "upload" /\ pc[j] = "scaleUp" /\ UNCHANGED <<channel, installed, file>>
        /\ replicas' = count[j] + 1
    BY <1>9 DEF ScaleChaincodeUp, At, GoTo, TypeInv, TypeOK
  <2>2. channel = FabricPeers /\ installed = FabricPeers /\ file[j] = FabricPeers /\ FabricPeers \subseteq pods
    BY <2>1 DEF UpStage, At
  <2>3. Replicas(1)'
    <3>1. count[j] \in Nat /\ Cardinality(FabricPeers) \in Nat
      BY Counted DEF TypeInv, TypeOK
    <3>2. replicas' >= Cardinality(FabricPeers) - 1
      BY <1>3, <2>1, <3>1
    <3> QED
      BY <1>1, <3>2 DEF Replicas
  <2> QED
    BY <1>1, <1>3, <1>4, <2>1, <2>2, <2>3 DEF UpStage, At
<1> QED
  BY <1>5, <1>6, <1>7, <1>8, <1>9

\* A peer is picked, leaves the channel and is deleted.
LEMMA DeleteStage ==
    ASSUME TypeInv, NEW j \in Job, j \notin Up, DownStage(j), UNCHANGED pods,
           PickNewest(j, Newest) \/ LeaveChannel(j) \/ DeletePeer(j)
    PROVE  DownStage(j)'
<1>1. CASE PickNewest(j, Newest)
  <2>1. /\ pc[j] = "pick" /\ pc'[j] = "leave" /\ UNCHANGED <<profile, channel, installed, replicas>>
        /\ FabricPeers' = FabricPeers
    BY <1>1, PeersStay DEF PickNewest, At, GoTo, TypeInv, TypeOK, clusterVars
  <2>2. Agreed /\ Replicas(1)
    BY <2>1 DEF DownStage
  <2>3. Agreed' /\ Replicas(1)'
    BY <2>1, <2>2 DEF Agreed, Replicas
  <2> QED
    BY <2>1, <2>3 DEF DownStage, At
<1>2. CASE LeaveChannel(j)
  <2>1. /\ pc[j] = "leave" /\ pc'[j] = "delete" /\ UNCHANGED <<profile, installed, replicas, peer>>
        /\ FabricPeers' = FabricPeers /\ channel' = channel \ {peer[j]}
    BY <1>2, PeersStay DEF LeaveChannel, At, GoTo, TypeInv, TypeOK
  <2>2. Agreed /\ Replicas(1)
    BY <2>1 DEF DownStage
  <2>3. Replicas(1)'
    BY <2>1, <2>2 DEF Replicas
  <2> QED
    BY <2>1, <2>2, <2>3 DEF DownStage, At, Agreed
<1>3. CASE DeletePeer(j)
  <2>1. /\ pc[j] = "delete" /\ pc'[j] = "prune" /\ UNCHANGED <<profile, channel, replicas, peer>>
        /\ installed' = installed \ {peer[j]}
    BY <1>3 DEF DeletePeer, At, GoTo, TypeInv, TypeOK
  <2>2. /\ peer[j] \in FabricPeers /\ FabricPeers' = FabricPeers \ {peer[j]}
        /\ Cardinality(FabricPeers') = Cardinality(FabricPeers) - 1
    BY <1>3, DeleteFacts
  <2>3. /\ profile = FabricPeers /\ channel = FabricPeers \ {peer[j]} /\ installed = FabricPeers
        /\ FabricPeers \subseteq pods /\ Replicas(1)
    BY <2>1 DEF DownStage, At
  <2>4. Replicas(0)'
    <3>1. replicas \in Int /\ Cardinality(FabricPeers) \in Nat
      BY Counted DEF TypeInv, TypeOK
    <3>2. replicas' >= Cardinality(FabricPeers') - 0
      BY <2>1, <2>2, <2>3, <3>1 DEF Replicas
    <3> QED
      BY <3>2 DEF Replicas
  <2>5. /\ profile' = FabricPeers' \cup {peer'[j]} /\ channel' = FabricPeers' /\ installed' = FabricPeers'
        /\ FabricPeers' \subseteq pods' /\ peer'[j] \notin FabricPeers'
    BY <2>1, <2>2, <2>3
  <2> QED
    BY <2>1, <2>4, <2>5 DEF DownStage, At
<1> QED
  BY <1>1, <1>2, <1>3

\* The profile in the file loses the deleted peer, and the pods are counted
\* with or without it.
LEMMA PruneStage ==
    ASSUME TypeInv, NEW j \in Job, j \notin Up, DownStage(j), UNCHANGED pods,
           PruneProfile(j, profile) \/ ScaleChaincodeDown(j, Cardinality(pods))
    PROVE  DownStage(j)'
<1>1. FabricPeers' = FabricPeers /\ UNCHANGED <<profile, channel, installed, peer>>
  BY PeersStay DEF PruneProfile, ScaleChaincodeDown, clusterVars
<1>2. /\ channel = FabricPeers /\ profile = FabricPeers \cup {peer[j]} /\ peer[j] \notin FabricPeers
      /\ installed = FabricPeers /\ FabricPeers \subseteq pods /\ Replicas(0)
  BY DEF DownStage, PruneProfile, ScaleChaincodeDown, At
<1>3. CASE PruneProfile(j, profile)
  <2>1. pc'[j] = "scaleDown" /\ file'[j] = profile \ {peer[j]} /\ UNCHANGED replicas
    BY <1>3 DEF PruneProfile, GoTo, TypeInv, TypeOK, clusterVars
  <2>2. file'[j] = FabricPeers /\ Replicas(0)'
    BY <1>1, <1>2, <2>1 DEF Replicas
  <2> QED
    BY <1>1, <1>2, <2>1, <2>2 DEF DownStage, At
<1>4. CASE ScaleChaincodeDown(j, Cardinality(pods))
  <2>1. /\ pc'[j] = "upload" /\ pc[j] = "scaleDown" /\ UNCHANGED file
        /\ replicas' = Cardinality(pods) - 1
    BY <1>4 DEF ScaleChaincodeDown, GoTo, At, TypeInv, TypeOK
  <2>2. file'[j] = FabricPeers
    BY <2>1 DEF DownStage
  <2>3. Replicas(1)'
    BY <1>1, <1>2, <2>1, Counted DEF Replicas
  <2> QED
    BY <1>1, <1>2, <2>1, <2>2, <2>3 DEF DownStage, At
<1> QED
  BY <1>3, <1>4

\* The profile is the last object to be brought up to date.
LEMMA UploadStage ==
    ASSUME TypeInv, NEW j \in Job, Stage(j), UNCHANGED pods, Upload(j)
    PROVE  Stage(j)'
<1>1. /\ pc[j] = "upload" /\ pc'[j] = "settle" /\ profile' = file[j]
      /\ FabricPeers' = FabricPeers /\ UNCHANGED <<channel, installed, replicas>>
  BY PeersStay DEF Upload, At, GoTo, TypeInv, TypeOK
<1>2. /\ channel = FabricPeers /\ installed = FabricPeers /\ file[j] = FabricPeers
      /\ FabricPeers \subseteq pods /\ Replicas(1)
  BY <1>1 DEF Stage, UpStage, DownStage, At
<1>3. Agreed' /\ Replicas(1)'
  BY <1>1, <1>2 DEF Agreed, Replicas
<1> QED
  BY <1>1, <1>3 DEF Stage, UpStage, DownStage, At

\* Every command of a script leads from its stage to the next.
LEMMA CommandStage ==
    ASSUME TypeInv, NEW j \in Job, Stage(j), UNCHANGED pods,
           \/ CountPeers(j, Cardinality(pods)) \/ CreatePeer(j) \/ PeerRunning(j)
           \/ JoinChannel(j) \/ Inspect(j) \/ InstallChaincode(j) \/ ScaleChaincodeUp(j)
           \/ PickNewest(j, Newest) \/ LeaveChannel(j) \/ DeletePeer(j)
           \/ PruneProfile(j, profile) \/ ScaleChaincodeDown(j, Cardinality(pods))
           \/ Upload(j)
    PROVE  Stage(j)'
<1>1. CASE \/ CountPeers(j, Cardinality(pods)) \/ CreatePeer(j) \/ PeerRunning(j)
           \/ JoinChannel(j) \/ Inspect(j) \/ InstallChaincode(j) \/ ScaleChaincodeUp(j)
  <2>1. j \in Up
    BY <1>1 DEF TypeInv, OwnScript, CountPeers, CreatePeer, PeerRunning, JoinChannel, Inspect,
                InstallChaincode, ScaleChaincodeUp, At, UpSteps
  <2>2. UpStage(j)
    BY <2>1 DEF Stage
  <2>3. UpStage(j)'
    BY <1>1, <2>1, <2>2, CreateStage, JoinStage
  <2> QED
    BY <2>1, <2>3 DEF Stage
<1>2. CASE \/ PickNewest(j, Newest) \/ LeaveChannel(j) \/ DeletePeer(j)
           \/ PruneProfile(j, profile) \/ ScaleChaincodeDown(j, Cardinality(pods))
  <2>1. j \notin Up
    BY <1>2 DEF TypeInv, OwnScript, PickNewest, LeaveChannel, DeletePeer, PruneProfile,
                ScaleChaincodeDown, At, DownSteps
  <2>2. DownStage(j)
    BY <2>1 DEF Stage
  <2>3. DownStage(j)'
    BY <1>2, <2>1, <2>2, DeleteStage, PruneStage
  <2> QED
    BY <2>1, <2>3 DEF Stage
<1> QED
  BY <1>1, <1>2, UploadStage

\* Where a script may end without a failed command, the objects agree.
LEMMA EndStage ==
    ASSUME TypeInv, NEW j \in Job, Stage(j),
           PeerNameTaken(j) \/ CommandFails(j) \/ WaitTimesOut(j) \/ Settle(j)
    PROVE  Agreed /\ Replicas(1)
<1>1. pc[j] \in UpSteps => UpStage(j)
  BY DEF Stage, TypeInv, OwnScript
<1>2. pc[j] \in DownSteps => DownStage(j)
  BY DEF Stage, TypeInv, OwnScript
<1>3. CASE PeerNameTaken(j)
  BY <1>1, <1>3 DEF PeerNameTaken, UpStage, At, UpSteps
<1>4. CASE CommandFails(j)
  <2>1. CASE At(j, "install") /\ peer[j] \notin pods
    BY <1>1, <2>1 DEF UpStage, At, UpSteps
  <2>2. CASE At(j, "delete") /\ peer[j] \notin FabricPeers
    BY <1>2, <2>2 DEF DownStage, At, DownSteps, Agreed
  <2> QED
    BY <1>4, <2>1, <2>2 DEF CommandFails
<1>5. CASE WaitTimesOut(j)
  <2>1. CASE At(j, "ready") /\ peer[j] \notin FabricPeers \cup pods
    BY <1>1, <2>1 DEF UpStage, At, UpSteps
  <2>2. CASE pc[j] \in {"inspect", "prune"} /\ ~(channel \subseteq FabricPeers)
    BY <1>1, <1>2, <2>2 DEF UpStage, DownStage, UpSteps, DownSteps
  <2> QED
    BY <1>5, <2>1, <2>2 DEF WaitTimesOut
<1>6. CASE Settle(j)
  BY <1>6 DEF Settle, At, Stage, UpStage, DownStage
<1> QED
  BY <1>3, <1>4, <1>5, <1>6

-----------------------------------------------------------------------------
(* The order of the objects, step by step.                                 *)

\* A job that is not in its script changes nothing but its own state, and may
\* at most create a Lease.
Rests(i) ==
    /\ pc[i] \notin InScript
    /\ UNCHANGED <<clusterVars, acquired, failures>>
    /\ lease => lease'
    /\ \A j \in Job \ {i} : UNCHANGED <<pc[j], peer[j], count[j], file[j]>>

\* The ways out of a script, of which only the last keeps the trap from running.
Leaves(i) ==
    \/ /\ PeerNameTaken(i) \/ CommandFails(i) \/ WaitTimesOut(i) \/ Settle(i)
       /\ UNCHANGED failures
    \/ StepFails(i)
    \/ Kill(i) /\ lease' = lease /\ UNCHANGED failures

\* The commands of a script that go on with the next one.
Command(i) ==
    \/ CountPeers(i, Cardinality(pods)) \/ CreatePeer(i) \/ PeerRunning(i)
    \/ JoinChannel(i) \/ Inspect(i) \/ InstallChaincode(i) \/ ScaleChaincodeUp(i)
    \/ PickNewest(i, Newest) \/ LeaveChannel(i) \/ DeletePeer(i)
    \/ PruneProfile(i, profile) \/ ScaleChaincodeDown(i, Cardinality(pods))
    \/ Upload(i)

\* The script of a job, which has the lock, ends or goes on.
Ending(i) ==
    /\ pc[i] \in InScript /\ acquired[i]
    /\ acquired' = [acquired EXCEPT ![i] = FALSE]
    /\ UNCHANGED clusterVars
    /\ Leaves(i)

Going(i) ==
    /\ pc[i] \in InScript /\ acquired[i] /\ pc'[i] \in InScript
    /\ UNCHANGED <<acquired, lease>>
    /\ \/ Command(i) /\ UNCHANGED failures
       \/ PipeFails(i)

\* Where every job takes the lock, a step of a job is of one of four kinds.
LEMMA JobKinds ==
    ASSUME TypeInv, LockInv, manual = {}, NEW i \in Job, JobStep(i) \/ JobEvent(i)
    PROVE  /\ UNCHANGED <<pods, manual>>
           /\ Rests(i) \/ (AcquireLock(i) /\ UNCHANGED failures) \/ Ending(i) \/ Going(i)
<1>1. UNCHANGED <<pods, manual>>
  BY DEF JobStep, JobEvent
<1>2. /\ acquired[i] <=> pc[i] \in InScript
      /\ acquired \in [Job -> BOOLEAN] /\ i \in Job
  BY DEF LockInv, TypeInv, TypeOK
<1>3. ASSUME LockTaken(i) \/ Trigger(i) \/ LockReplyLost(i), UNCHANGED failures
      PROVE  Rests(i)
  BY <1>3 DEF Rests, LockTaken, Trigger, LockReplyLost, At, GoTo, TypeInv, TypeOK,
              clusterVars, InScript, UpSteps, DownSteps
<1>4. ASSUME Kill(i), UNCHANGED failures
      PROVE  Rests(i) \/ Ending(i)
  <2>1. CASE pc[i] \in InScript
    BY <1>2, <1>4, <2>1 DEF Kill, EndShell, Leaves, Ending
  <2>2. CASE pc[i] \notin InScript
    <3>1. acquired' = acquired
      BY <1>2, <1>4, <2>2 DEF Kill, EndShell
    <3> QED
      BY <1>4, <2>2, <3>1 DEF Kill, EndShell, GoTo, Rests, TypeInv, TypeOK
  <2> QED
    BY <2>1, <2>2
<1>5. ASSUME \/ StepFails(i)
             \/ /\ UNCHANGED failures
                /\ PeerNameTaken(i) \/ CommandFails(i) \/ WaitTimesOut(i) \/ Settle(i)
      PROVE  Ending(i)
  <2>1. pc[i] \in InScript /\ Exit(i) /\ UNCHANGED clusterVars
    BY <1>5 DEF StepFails, PeerNameTaken, CommandFails, WaitTimesOut, Settle, At, InScript, UpSteps, DownSteps
  <2> QED
    BY <1>2, <1>5, <2>1 DEF Exit, EndShell, Leaves, Ending
<1>6. ASSUME NEW x,
             \/ CountPeers(i, x) \/ CreatePeer(i) \/ PeerRunning(i)
             \/ JoinChannel(i) \/ Inspect(i) \/ InstallChaincode(i) \/ ScaleChaincodeUp(i)
             \/ PickNewest(i, x) \/ LeaveChannel(i) \/ DeletePeer(i)
             \/ PruneProfile(i, x) \/ ScaleChaincodeDown(i, x) \/ Upload(i)
      PROVE  pc[i] \in InScript /\ pc'[i] \in InScript /\ UNCHANGED <<acquired, lease>>
  BY <1>6 DEF CountPeers, CreatePeer, PeerRunning, JoinChannel, Inspect, InstallChaincode, ScaleChaincodeUp,
              PickNewest, LeaveChannel, DeletePeer, PruneProfile, ScaleChaincodeDown, Upload,
              At, GoTo, TypeInv, TypeOK, InScript, UpSteps, DownSteps
<1>7. ASSUME Command(i), UNCHANGED failures
      PROVE  Going(i)
  <2>1. pc[i] \in InScript /\ pc'[i] \in InScript /\ UNCHANGED <<acquired, lease>>
    BY <1>6, <1>7 DEF Command
  <2> QED
    BY <1>2, <1>7, <2>1 DEF Going
<1>8. ASSUME PipeFails(i)
      PROVE  Going(i)
  <2>1. pc[i] \in InScript /\ pc'[i] \in InScript /\ UNCHANGED <<acquired, lease>>
    BY <1>6, <1>8 DEF PipeFails
  <2> QED
    BY <1>2, <1>8, <2>1 DEF Going
<1>9. CASE JobStep(i)
  BY <1>1, <1>3, <1>5, <1>7, <1>9 DEF JobStep, Command
<1>10. CASE JobEvent(i)
  BY <1>1, <1>3, <1>4, <1>5, <1>8, <1>10 DEF JobEvent
<1> QED
  BY <1>9, <1>10

\* What is not a step of a job brings pods in line with the peers, at most.
LEMMA ClusterStep ==
    ASSUME [Next]_vars, ~\E i \in Job : JobStep(i) \/ JobEvent(i)
    PROVE  /\ UNCHANGED <<jobVars, clusterVars, lease, failures, manual>>
           /\ pods \cap FabricPeers \subseteq pods'
  BY DEF Next, PodStarts, PodEnds, Scrape, vars, jobVars, clusterVars

\* Of the jobs that all take the lock one at most has it, and is in its script.
LEMMA OneHolder ==
    ASSUME LockInv, manual = {}
    PROVE  /\ \A i, j \in Job : acquired[i] /\ acquired[j] => i = j
           /\ \A j \in Job : acquired[j] <=> pc[j] \in InScript
           /\ \A j \in Job : acquired[j] => lease
           /\ acquired \in [Job -> BOOLEAN]
  BY DEF LockInv, LockTypeOK

\* Every step keeps the objects in the order the scripts account for.
LEMMA OrderStep ==
    ASSUME TypeInv, LockInv, OrderInv, [Next]_vars, TypeInv'
    PROVE  OrderInv'
<1> SUFFICES ASSUME Orderly'
             PROVE  /\ OneApart'
                    /\ ~lease' => Agreed' /\ Replicas(1)'
                    /\ \A j \in Job : acquired'[j] => Stage(j)'
  BY DEF OrderInv
<1>1. failures' = 0 /\ manual = {} /\ failures \in Nat /\ (UNCHANGED failures => Orderly)
  <2>1. manual' = manual
    BY StepKinds
  <2> QED
    BY <2>1 DEF Orderly, TypeInv, TypeOK
<1>2. CASE ~\E i \in Job : JobStep(i) \/ JobEvent(i)
  <2>1. /\ UNCHANGED <<jobVars, clusterVars, lease, failures>> /\ pods \cap FabricPeers \subseteq pods'
    BY <1>2, ClusterStep
  <2>2. OneApart /\ (~lease => Agreed /\ Replicas(1)) /\ \A j \in Job : acquired[j] => Stage(j)
    BY <1>1, <2>1 DEF OrderInv
  <2>3. (Agreed => Agreed') /\ (Replicas(1) => Replicas(1)') /\ (OneApart => OneApart')
    BY <2>1, ObjectsStay
  <2>4. \A j \in Job : Stage(j) => Stage(j)'
    BY <2>1, StageStays DEF jobVars
  <2> QED
    BY <2>1, <2>2, <2>3, <2>4 DEF jobVars
<1>3. ASSUME NEW i \in Job, JobStep(i) \/ JobEvent(i)
      PROVE  /\ OneApart'
             /\ ~lease' => Agreed' /\ Replicas(1)'
             /\ \A j \in Job : acquired'[j] => Stage(j)'
  <2>1. UNCHANGED pods
    BY <1>1, <1>3, JobKinds
  <2>2. CASE Rests(i)
    <3>1. OneApart /\ (~lease => Agreed /\ Replicas(1)) /\ \A j \in Job : acquired[j] => Stage(j)
      BY <1>1, <2>2 DEF OrderInv, Rests
    <3>2. (Agreed => Agreed') /\ (Replicas(1) => Replicas(1)') /\ (OneApart => OneApart')
      BY <2>1, <2>2, ObjectsStay DEF Rests
    <3>3. \A j \in Job \ {i} : Stage(j) => Stage(j)'
      BY <2>1, <2>2, StageStays DEF Rests
    <3>4. ~acquired[i] /\ acquired' = acquired /\ (lease => lease')
      BY <1>1, <2>2, OneHolder DEF Rests
    <3> QED
      BY <3>1, <3>2, <3>3, <3>4
  <2>3. CASE AcquireLock(i) /\ UNCHANGED failures
    <3>1. ~lease /\ lease' /\ UNCHANGED clusterVars /\ acquired' = [acquired EXCEPT ![i] = TRUE]
      BY <2>3 DEF AcquireLock
    <3>2. OneApart /\ Agreed /\ Replicas(1)
      BY <1>1, <2>3, <3>1 DEF OrderInv
    <3>3. Agreed' /\ Replicas(1)' /\ OneApart'
      BY <2>1, <3>1, <3>2, ObjectsStay
    <3>4. pc'[i] = IF i \in Up THEN "count" ELSE "pick"
      BY <2>3 DEF AcquireLock, ScriptStart, GoTo, TypeInv, TypeOK
    <3>5. Stage(i)'
      BY <3>3, <3>4 DEF Stage, UpStage, DownStage, At
    <3>6. \A j \in Job \ {i} : ~acquired'[j]
      BY <1>1, <3>1, OneHolder
    <3> QED
      BY <3>1, <3>3, <3>5, <3>6
  <2>4. CASE Ending(i)
    <3>1. UNCHANGED failures
      BY <1>1, <2>4 DEF Ending, Leaves, StepFails, CallFails
    <3>2. OneApart /\ Stage(i)
      BY <1>1, <2>4, <3>1 DEF OrderInv, Ending
    <3>3. (Agreed => Agreed') /\ (Replicas(1) => Replicas(1)') /\ (OneApart => OneApart')
      BY <2>1, <2>4, ObjectsStay DEF Ending
    <3>4. \A j \in Job : ~acquired'[j]
      BY <1>1, <2>4, OneHolder DEF Ending
    <3>5. lease
      BY <1>1, <2>4, OneHolder DEF Ending
    <3>6. CASE PeerNameTaken(i) \/ CommandFails(i) \/ WaitTimesOut(i) \/ Settle(i)
      BY <3>2, <3>3, <3>4, <3>6, EndStage
    <3>7. CASE lease' = lease
      BY <3>2, <3>3, <3>4, <3>5, <3>7
    <3>8. ~StepFails(i)
      BY <1>1 DEF StepFails, CallFails
    <3> QED
      BY <2>4, <3>6, <3>7, <3>8 DEF Ending, Leaves
  <2>5. CASE Going(i)
    <3>1. UNCHANGED failures /\ Command(i)
      BY <1>1, <2>5 DEF Going, PipeFails, CallFails
    <3>2. Stage(i)
      BY <1>1, <2>5, <3>1 DEF OrderInv, Going
    <3>3. Stage(i)'
      BY <2>1, <3>1, <3>2, CommandStage DEF Command
    <3>4. OneApart'
      <4>1. (\A j \in Job : TypeInv /\ pc[j] \in InScript /\ Stage(j) => OneApart)'
        BY StageApart, PTL
      <4> QED
        BY <2>5, <3>3, <4>1 DEF Going
    <3>5. lease' /\ \A j \in Job \ {i} : ~acquired'[j]
      BY <1>1, <2>5, OneHolder DEF Going
    <3> QED
      BY <3>3, <3>4, <3>5
  <2> QED
    BY <1>1, <1>3, <2>2, <2>3, <2>4, <2>5, JobKinds
<1> QED
  BY <1>2, <1>3

\* The order is always kept.
LEMMA OrderInvariant == Safety => []OrderInv
<1>1. Init => OrderInv
  <2> SUFFICES ASSUME Init
               PROVE  Agreed /\ Replicas(1) /\ OneApart /\ \A j \in Job : ~acquired[j]
    BY DEF OrderInv
  <2>1. FabricPeers = {First}
    <3>1. peers = <<First>> /\ DOMAIN peers = {1} /\ peers[1] = First
      BY DEF Init
    <3> QED
      BY <3>1 DEF FabricPeers, ToSet
  <2>2. Cardinality(FabricPeers) = 1
    BY <2>1, FS_Singleton
  <2> QED
    BY <2>1, <2>2 DEF Init, Agreed, Replicas, OneApart, InService
<1>2. TypeInv /\ LockInv /\ OrderInv /\ [Next]_vars /\ TypeInv' => OrderInv'
  BY OrderStep
<1> QED
  BY <1>1, <1>2, TypeInvariant, LockInvariant, PTL DEF Safety

\* Whenever the lock is free the objects of the cluster agree, whatever events
\* have scaled the network before and whichever pods have still to end.
THEOREM ScalingIsConsistent == Safety => []ConsistentWhenFree
<1>1. OrderInv => ConsistentWhenFree
  BY DEF OrderInv, Agreed, ConsistentWhenFree
<1> QED
  BY <1>1, OrderInvariant, PTL

\* Whenever the lock is free the chaincode lacks a replica for one peer at
\* most: counts that are off do not add up over events.
THEOREM ReplicasAreEnough == Safety => []ReplicasSuffice
<1>1. OrderInv => ReplicasSuffice
  BY DEF OrderInv, Replicas, ReplicasSuffice
<1> QED
  BY <1>1, OrderInvariant, PTL

\* In the middle of every script, and after a killed one, all peers that exist
\* or that clients know of, but one, serve clients.
THEOREM ScalingTakesOnePeer == Safety => []OnePeerAtATime
<1>1. OrderInv => OnePeerAtATime
  BY DEF OrderInv, OneApart, OnePeerAtATime
<1> QED
  BY <1>1, OrderInvariant, PTL

-----------------------------------------------------------------------------
(* The damage that failing commands leave.                                 *)

\* The existing peers that do not serve, and no more than n of a set.
Broken == FabricPeers \ InService
Within(S, n) == IsFiniteSet(S) /\ Cardinality(S) <= n

\* The places at which the peer of the job itself may be broken.
AtWork == {"ready", "join", "inspect", "install", "delete"}

\* How the script accounts for the broken peers: at work its own, which is as
\* far as it says, beside those that earlier failures have left.
DamageStage(j) ==
    /\ pc[j] \in AtWork => Within(Broken \ {peer[j]}, failures)
    /\ pc[j] \notin AtWork => Within(Broken, failures)
    /\ pc[j] \in {"ready", "join", "inspect", "install"} => peer[j] \in FabricPeers
    /\ pc[j] \in {"join", "inspect", "install"} => peer[j] \in pods
    /\ pc[j] \in {"inspect", "install"} => peer[j] \in channel
    /\ At(j, "delete") => peer[j] \notin channel

\* The channel names no peer that does not exist, so that no script waits for
\* one; the job that has the lock knows which peer is broken; a job that left
\* the Lease behind leaves one peer to it.
DamageInv ==
    manual = {} =>
        /\ channel \subseteq FabricPeers
        /\ \E p : Within(Broken \ {p}, failures)
        /\ ~lease => Within(Broken, failures)
        /\ \A j \in Job : acquired[j] => DamageStage(j)

\* Bounds on sets of peers.
LEMMA WithinFacts ==
    ASSUME NEW S, NEW n \in Nat
    PROVE  /\ \A T \in SUBSET S : Within(S, n) => Within(T, n)
           /\ Within(S, n) => Within(S, n + 1)
           /\ \A p : Within(S \ {p}, n) => Within(S, n + 1)
<1>1. \A T \in SUBSET S : Within(S, n) => Within(T, n)
  <2> SUFFICES ASSUME NEW T \in SUBSET S, Within(S, n)
               PROVE  Within(T, n)
    OBVIOUS
  <2>1. IsFiniteSet(T) /\ Cardinality(T) <= Cardinality(S)
    BY FS_Subset DEF Within
  <2>2. Cardinality(T) \in Nat /\ Cardinality(S) \in Nat /\ Cardinality(S) <= n
    BY <2>1, FS_CardinalityType DEF Within
  <2> QED
    BY <2>1, <2>2 DEF Within
<1>2. Within(S, n) => Within(S, n + 1)
  BY FS_CardinalityType DEF Within
<1>3. ASSUME NEW p, Within(S \ {p}, n)
      PROVE  Within(S, n + 1)
  <2>1. PICK T : T = S \ {p}
    OBVIOUS
  <2>2. IsFiniteSet(T) /\ Cardinality(T) \in Nat /\ Cardinality(T) <= n
    BY <1>3, <2>1, FS_CardinalityType DEF Within
  <2>3. CASE p \in S
    <3>1. S = T \cup {p} /\ p \notin T
      BY <2>1, <2>3
    <3>2. IsFiniteSet(T \cup {p}) /\ Cardinality(T \cup {p}) = Cardinality(T) + 1
      BY <2>2, <3>1, FS_AddElement
    <3> QED
      BY <2>2, <3>1, <3>2 DEF Within
  <2>4. CASE p \notin S
    <3>1. S = T
      BY <2>1, <2>4
    <3>2. Cardinality(T) <= n + 1
      BY <2>2
    <3> QED
      BY <2>2, <3>1, <3>2 DEF Within
  <2> QED
    BY <2>3, <2>4
<1> QED
  BY <1>1, <1>2, <1>3

\* Nothing breaks while the objects stay and no pod of a peer is lost.
LEMMA BrokenStays ==
    ASSUME UNCHANGED <<peers, channel, installed>>, pods \cap FabricPeers \subseteq pods'
    PROVE  FabricPeers' = FabricPeers /\ Broken' \subseteq Broken
  BY PeersStay DEF Broken, InService

\* What a command does to its own peer, or to no peer at all.
LEMMA CommandDamage ==
    ASSUME TypeInv, NEW j \in Job, channel \subseteq FabricPeers, DamageStage(j), UNCHANGED pods,
           failures \in Nat,
           \/ Command(j) /\ UNCHANGED failures
           \/ PipeFails(j)
    PROVE  DamageStage(j)' /\ channel' \subseteq FabricPeers'
<1>1. failures' \in {failures, failures + 1}
  BY DEF PipeFails, CallFails
<1>2. \A S : Within(S, failures) => \A T \in SUBSET S : Within(T, failures')
  <2> SUFFICES ASSUME NEW S, Within(S, failures), NEW T \in SUBSET S
               PROVE  Within(T, failures')
    OBVIOUS
  <2>1. Within(T, failures) /\ Within(T, failures + 1)
    BY WithinFacts
  <2> QED
    BY <1>1, <2>1
<1>3. ASSUME NEW x,
             \/ CountPeers(j, x) \/ PickNewest(j, x) \/ PruneProfile(j, x)
             \/ ScaleChaincodeDown(j, x) \/ ScaleChaincodeUp(j) \/ Upload(j)
      PROVE  DamageStage(j)' /\ channel' \subseteq FabricPeers'
  <2>1. /\ pc[j] \notin AtWork
        /\ pc'[j] \in {"create", "leave", "scaleDown", "upload", "settle"}
        /\ UNCHANGED <<peers, channel, installed>>
    BY <1>3 DEF CountPeers, PickNewest, PruneProfile, ScaleChaincodeDown, ScaleChaincodeUp, Upload,
                At, GoTo, TypeInv, TypeOK, clusterVars, AtWork
  <2>2. FabricPeers' = FabricPeers /\ Broken' \subseteq Broken
    BY <2>1, BrokenStays
  <2>3. Within(Broken', failures')
    BY <1>2, <2>1, <2>2 DEF DamageStage
  <2> QED
    BY <2>1, <2>2, <2>3 DEF DamageStage, AtWork, At
<1>4. CASE CreatePeer(j)
  <2>1. /\ pc[j] = "create" /\ pc'[j] = "ready" /\ UNCHANGED <<peer, channel, installed>>
    BY <1>4 DEF CreatePeer, At, GoTo, TypeInv, TypeOK
  <2>2. FabricPeers' = FabricPeers \cup {peer[j]}
    BY <1>4, CreateFacts
  <2>3. Broken' \ {peer'[j]} \subseteq Broken
    BY <2>1, <2>2 DEF Broken, InService
  <2>4. Within(Broken' \ {peer'[j]}, failures')
    BY <1>2, <2>1, <2>3 DEF DamageStage, AtWork
  <2> QED
    BY <2>1, <2>2, <2>4 DEF DamageStage, AtWork, At
<1>5. CASE PeerRunning(j) \/ JoinChannel(j) \/ Inspect(j)
  <2>1. /\ pc[j] \in AtWork /\ UNCHANGED <<peer, peers, installed>> /\ FabricPeers' = FabricPeers
        /\ channel \subseteq channel' /\ channel' \subseteq channel \cup {peer[j]}
        /\ peer[j] \in FabricPeers
    BY <1>5, PeersStay DEF PeerRunning, JoinChannel, Inspect, At, clusterVars, AtWork, DamageStage
  <2>2. /\ pc'[j] \in {"join", "inspect", "install"}
        /\ peer[j] \in pods
        /\ pc'[j] \in {"inspect", "install"} => peer[j] \in channel'
    BY <1>5 DEF PeerRunning, JoinChannel, Inspect, At, GoTo, TypeInv, TypeOK, clusterVars, DamageStage
  <2>3. Broken' \ {peer'[j]} \subseteq Broken \ {peer[j]}
    BY <2>1 DEF Broken, InService
  <2>4. Within(Broken' \ {peer'[j]}, failures')
    BY <1>2, <2>1, <2>3 DEF DamageStage
  <2> QED
    BY <2>1, <2>2, <2>4 DEF DamageStage, AtWork, At
<1>6. CASE InstallChaincode(j)
  <2>1. /\ pc[j] = "install" /\ pc'[j] = "scaleUp" /\ UNCHANGED <<peer, peers, channel>>
        /\ FabricPeers' = FabricPeers /\ installed' = installed \cup {peer[j]}
    BY <1>6, PeersStay DEF InstallChaincode, At, GoTo, TypeInv, TypeOK
  <2>2. peer[j] \in pods /\ peer[j] \in channel
    BY <2>1 DEF DamageStage
  <2>3. Broken' \subseteq Broken \ {peer[j]}
    BY <2>1, <2>2 DEF Broken, InService
  <2>4. Within(Broken', failures')
    BY <1>2, <2>1, <2>3 DEF DamageStage, AtWork
  <2> QED
    BY <2>1, <2>4 DEF DamageStage, AtWork, At
<1>7. CASE LeaveChannel(j)
  <2>1. /\ pc[j] = "leave" /\ pc'[j] = "delete" /\ UNCHANGED <<peer, peers, installed>>
        /\ FabricPeers' = FabricPeers /\ channel' = channel \ {peer[j]}
    BY <1>7, PeersStay DEF LeaveChannel, At, GoTo, TypeInv, TypeOK
  <2>2. Broken' \ {peer'[j]} \subseteq Broken
    BY <2>1 DEF Broken, InService
  <2>3. Within(Broken' \ {peer'[j]}, failures')
    BY <1>2, <2>1, <2>2 DEF DamageStage, AtWork
  <2> QED
    BY <2>1, <2>3 DEF DamageStage, AtWork, At
<1>8. CASE DeletePeer(j)
  <2>1. /\ pc[j] = "delete" /\ pc'[j] = "prune" /\ UNCHANGED channel
        /\ installed' = installed \ {peer[j]}
    BY <1>8 DEF DeletePeer, At, GoTo, TypeInv, TypeOK
  <2>2. FabricPeers' = FabricPeers \ {peer[j]} /\ peer[j] \notin channel
    BY <1>8, <2>1, DeleteFacts DEF DamageStage, At
  <2>3. Broken' \subseteq Broken \ {peer[j]}
    BY <2>1, <2>2 DEF Broken, InService
  <2>4. Within(Broken', failures')
    BY <1>2, <2>1, <2>3 DEF DamageStage, AtWork
  <2> QED
    BY <2>1, <2>2, <2>4 DEF DamageStage, AtWork, At
<1>9. CASE Command(j)
  BY <1>3, <1>4, <1>5, <1>6, <1>7, <1>8, <1>9 DEF Command
<1>10. CASE PipeFails(j)
  BY <1>3, <1>10 DEF PipeFails
<1> QED
  BY <1>9, <1>10

\* A script that ends leaves a broken peer only to a failure or to a kill.
LEMMA EndDamage ==
    ASSUME TypeInv, NEW j \in Job, channel \subseteq FabricPeers, DamageStage(j), failures \in Nat,
           PeerNameTaken(j) \/ CommandFails(j) \/ WaitTimesOut(j) \/ Settle(j)
    PROVE  Within(Broken, failures)
<1>1. CASE PeerNameTaken(j) \/ Settle(j)
  BY <1>1 DEF PeerNameTaken, Settle, At, DamageStage, AtWork
<1>2. CASE CommandFails(j)
  <2>1. CASE At(j, "install") /\ peer[j] \notin pods
    BY <2>1 DEF DamageStage, At
  <2>2. CASE At(j, "delete") /\ peer[j] \notin FabricPeers
    <3>1. Broken \ {peer[j]} = Broken
      BY <2>2 DEF Broken
    <3> QED
      BY <2>2, <3>1 DEF DamageStage, At, AtWork
  <2> QED
    BY <1>2, <2>1, <2>2 DEF CommandFails
<1>3. CASE WaitTimesOut(j)
  BY <1>3 DEF WaitTimesOut, At, DamageStage
<1> QED
  BY <1>1, <1>2, <1>3

\* Every step keeps the account of the broken peers.
LEMMA DamageStep ==
    ASSUME TypeInv, LockInv, DamageInv, [Next]_vars
    PROVE  DamageInv'
<1> SUFFICES ASSUME manual' = {}
             PROVE  /\ channel' \subseteq FabricPeers'
                    /\ \E p : Within(Broken' \ {p}, failures')
                    /\ ~lease' => Within(Broken', failures')
                    /\ \A j \in Job : acquired'[j] => DamageStage(j)'
  BY DEF DamageInv
<1>1. /\ manual = {} /\ failures \in Nat
      /\ channel \subseteq FabricPeers
      /\ \E p : Within(Broken \ {p}, failures)
      /\ ~lease => Within(Broken, failures)
      /\ \A j \in Job : acquired[j] => DamageStage(j)
  <2>1. manual = {}
    BY StepKinds
  <2>2. failures \in Nat
    <3>1. failures \in 0..MaxFailures
      BY DEF TypeInv, TypeOK
    <3> QED
      BY <3>1, BoundAssumption
  <2> QED
    BY <2>1, <2>2 DEF DamageInv
<1>a. \A S : Within(S, failures) => \A T \in SUBSET S : Within(T, failures)
  BY <1>1, WithinFacts
<1>b. ASSUME UNCHANGED <<clusterVars, failures>>, pods \cap FabricPeers \subseteq pods'
      PROVE  /\ FabricPeers' = FabricPeers /\ channel' \subseteq FabricPeers'
             /\ Broken' \subseteq Broken
             /\ Within(Broken, failures) => Within(Broken', failures')
             /\ \E p : Within(Broken' \ {p}, failures')
             /\ \A j \in Job : UNCHANGED <<pc[j], peer[j]>> /\ DamageStage(j) => DamageStage(j)'
  <2>1. FabricPeers' = FabricPeers /\ Broken' \subseteq Broken /\ UNCHANGED <<channel, failures>>
    BY <1>b, BrokenStays DEF clusterVars
  <2>2. \A p : Broken' \ {p} \subseteq Broken \ {p}
    BY <2>1
  <2>3. \A p : Within(Broken \ {p}, failures) => Within(Broken' \ {p}, failures')
    BY <1>a, <2>1, <2>2
  <2>4. Within(Broken, failures) => Within(Broken', failures')
    BY <1>a, <2>1
  <2>5. ASSUME NEW j \in Job, UNCHANGED <<pc[j], peer[j]>>, DamageStage(j)
        PROVE  DamageStage(j)'
    BY <1>b, <2>1, <2>3, <2>4, <2>5 DEF DamageStage, At
  <2> QED
    BY <1>1, <2>1, <2>3, <2>4, <2>5
<1>2. CASE ~\E i \in Job : JobStep(i) \/ JobEvent(i)
  <2>1. /\ UNCHANGED <<jobVars, clusterVars, lease, failures>> /\ pods \cap FabricPeers \subseteq pods'
    BY <1>2, ClusterStep
  <2> QED
    BY <1>1, <1>b, <2>1 DEF jobVars
<1>3. ASSUME NEW i \in Job, JobStep(i) \/ JobEvent(i)
      PROVE  /\ channel' \subseteq FabricPeers'
             /\ \E p : Within(Broken' \ {p}, failures')
             /\ ~lease' => Within(Broken', failures')
             /\ \A j \in Job : acquired'[j] => DamageStage(j)'
  <2>1. UNCHANGED pods
    BY <1>1, <1>3, JobKinds
  <2>2. CASE Rests(i)
    <3>1. ~acquired[i] /\ acquired' = acquired /\ (lease => lease')
      BY <1>1, <2>2, OneHolder DEF Rests
    <3>2. \A j \in Job \ {i} : UNCHANGED <<pc[j], peer[j]>>
      BY <2>2 DEF Rests
    <3>3. UNCHANGED <<clusterVars, failures>>
      BY <2>2 DEF Rests
    <3> QED
      BY <1>1, <1>b, <2>1, <3>1, <3>2, <3>3
  <2>3. CASE AcquireLock(i) /\ UNCHANGED failures
    <3>1. ~lease /\ lease' /\ UNCHANGED clusterVars /\ acquired' = [acquired EXCEPT ![i] = TRUE]
      BY <2>3 DEF AcquireLock
    <3>2. Within(Broken', failures')
      BY <1>1, <1>b, <2>1, <2>3, <3>1
    <3>3. pc'[i] \in {"count", "pick"}
      BY <2>3 DEF AcquireLock, ScriptStart, GoTo, TypeInv, TypeOK
    <3>4. DamageStage(i)'
      BY <3>2, <3>3 DEF DamageStage, AtWork, At
    <3>5. \A j \in Job \ {i} : ~acquired'[j]
      BY <1>1, <3>1, OneHolder
    <3> QED
      BY <1>b, <2>1, <2>3, <3>1, <3>4, <3>5
  <2>4. CASE Ending(i)
    <3>1. /\ DamageStage(i) /\ lease /\ UNCHANGED clusterVars
          /\ \A j \in Job : ~acquired'[j]
      BY <1>1, <2>4, OneHolder DEF Ending
    <3>2. CASE /\ PeerNameTaken(i) \/ CommandFails(i) \/ WaitTimesOut(i) \/ Settle(i)
               /\ UNCHANGED failures
      <4>1. Within(Broken, failures)
        BY <1>1, <3>1, <3>2, EndDamage
      <4> QED
        BY <1>b, <2>1, <3>1, <3>2, <4>1
    <3>3. CASE StepFails(i)
      <4>1. failures' = failures + 1
        BY <3>3 DEF StepFails, CallFails
      <4>2. FabricPeers' = FabricPeers /\ Broken' \subseteq Broken /\ UNCHANGED channel
        BY <2>1, <3>1, BrokenStays DEF clusterVars
      <4>3. Within(Broken, failures + 1)
        BY <1>1, <3>1, WithinFacts DEF DamageStage
      <4>4. failures + 1 \in Nat
        BY <1>1
      <4>5. \A T \in SUBSET Broken : Within(T, failures + 1)
        BY <4>3, <4>4, WithinFacts
      <4>6. Within(Broken', failures') /\ Within(Broken' \ {NoPeer}, failures')
        BY <4>1, <4>2, <4>5
      <4> QED
        BY <1>1, <3>1, <4>2, <4>6
    <3>4. CASE Kill(i) /\ lease' = lease /\ UNCHANGED failures
      BY <1>b, <2>1, <3>1, <3>4
    <3> QED
      BY <2>4, <3>2, <3>3, <3>4 DEF Ending, Leaves
  <2>5. CASE Going(i)
    <3>1. DamageStage(i) /\ lease' /\ \A j \in Job \ {i} : ~acquired'[j]
      BY <1>1, <2>5, OneHolder DEF Going
    <3>2. DamageStage(i)' /\ channel' \subseteq FabricPeers'
      BY <1>1, <2>1, <2>5, <3>1, CommandDamage DEF Going
    <3>3. \E p : Within(Broken' \ {p}, failures')
      <4>1. CASE Within(Broken' \ {peer'[i]}, failures')
        BY <4>1
      <4>2. CASE Within(Broken', failures')
        <5>1. failures' \in Nat
          BY <1>1, <2>5 DEF Going, PipeFails, CallFails
        <5>2. Within(Broken' \ {NoPeer}, failures')
          BY <4>2, <5>1, WithinFacts
        <5> QED
          BY <5>2
      <4> QED
        BY <3>2, <4>1, <4>2 DEF DamageStage
    <3> QED
      BY <3>1, <3>2, <3>3
  <2> QED
    BY <1>1, <1>3, <2>2, <2>3, <2>4, <2>5, JobKinds
<1> QED
  BY <1>2, <1>3

\* The account of the broken peers always holds.
LEMMA DamageInvariant == Safety => []DamageInv
<1>1. Init => DamageInv
  <2> SUFFICES ASSUME Init
               PROVE  DamageInv
    OBVIOUS
  <2>1. FabricPeers = {First}
    <3>1. peers = <<First>> /\ DOMAIN peers = {1} /\ peers[1] = First
      BY DEF Init
    <3> QED
      BY <3>1 DEF FabricPeers, ToSet
  <2>2. Broken = {} /\ \A p : Broken \ {p} = {}
    BY <2>1 DEF Init, Broken, InService
  <2>3. Within({}, failures)
    BY FS_EmptySet DEF Within, Init
  <2> QED
    BY <2>1, <2>2, <2>3 DEF Init, DamageInv
<1>2. TypeInv /\ LockInv /\ DamageInv /\ [Next]_vars => DamageInv'
  BY DamageStep
<1> QED
  BY <1>1, <1>2, TypeInvariant, LockInvariant, PTL DEF Safety

\* Each failing command leaves at most one peer that does not serve, through
\* any number of later events; one more is that of the job with the lock.
THEOREM DamageDoesNotSpread == Safety => []DamageIsBounded
<1>1. ASSUME TypeInv, DamageInv
      PROVE  DamageIsBounded
  <2> SUFFICES ASSUME manual = {}
               PROVE  Cardinality(Broken) <= failures + (IF lease THEN 1 ELSE 0)
    BY DEF DamageIsBounded, Broken
  <2>1. failures \in Nat
    BY <1>1 DEF TypeInv, TypeOK
  <2>2. Within(Broken, failures + 1)
    <3>1. PICK p : Within(Broken \ {p}, failures)
      BY <1>1 DEF DamageInv
    <3> QED
      BY <2>1, <3>1, WithinFacts
  <2>3. ~lease => Within(Broken, failures)
    BY <1>1 DEF DamageInv
  <2> QED
    BY <2>1, <2>2, <2>3 DEF Within
<1> QED
  BY <1>1, TypeInvariant, DamageInvariant, PTL
=============================================================================
