------------------------- MODULE BenchmarkRunProofs -------------------------
(***************************************************************************)
(* What the exit status of a launch says of its Jobs, proved for any       *)
(* number of workers and of calls of kubectl that fail.                    *)
(***************************************************************************)
EXTENDS BenchmarkRun, TLAPS

\* A worker or the consumer has failed, or a pod was deleted under it.
PodLost == deleted \/ \E p \in Pod \ {"services"} : pod[p] = "failed"

\* Before they are created the Jobs have no pods and no condition.
NotApplied ==
    lpc \in {"ask", "apply"} =>
        /\ \A p \in Pod : pod[p] = "none"
        /\ simi = "none" /\ consumer = "none" /\ ~deleted

\* A condition, and a deletion of pods, has its cause in a pod that was lost.
CauseInv ==
    /\ "Failed" \in {simi, consumer} => PodLost
    /\ \A p \in Pod : pod[p] \in {"terminating", "gone"} => PodLost
    /\ read # "none" => read = simi

\* A failure that was there before the last check is still in one of its two
\* answers when both have been read.
CheckInv ==
    lpc = "check2" /\ apiFailures = 0 /\ knownFailed => "Failed" \in {read, consumer}

LaunchInv == TypeOK /\ NotApplied /\ CauseInv /\ CheckInv /\ FailureIsReal /\ FailureIsReported

-----------------------------------------------------------------------------
\* Nobody is the pod of two Jobs, and no step brings a lost pod back.
LEMMA PodFacts ==
    /\ Worker \subseteq Pod /\ "consumer" \in Pod
    /\ \A w \in Worker \cup {"consumer"} : w # "services"
  BY WorkerAssumption DEF Pod

\* The script before the Jobs exist, and while it waits for them.
LEMMA ScriptStep ==
    ASSUME LaunchInv, LaunchStep
    PROVE  LaunchInv'
<1> USE LaunchAssumption
        DEF LaunchInv, NotApplied, CauseInv, CheckInv, FailureIsReal, FailureIsReported, PodLost
<1>1. CASE AskWorkers
  BY <1>1 DEF AskWorkers, jobVars, TypeOK
<1>2. CASE Apply
  BY <1>2 DEF Apply, TypeOK
<1>3. CASE ApplyFails
  BY <1>3 DEF ApplyFails, CallFails, TypeOK
<1>4. CASE LabelNamespace \/ ReportWaiting \/ ReportEnd
  BY <1>4 DEF LabelNamespace, ReportWaiting, ReportEnd, Report, CallFails, jobVars, TypeOK
<1>5. CASE WaitSimi
  BY <1>5 DEF WaitSimi, ReadSimi, CallFails, jobVars, TypeOK, Condition
<1>6. CASE WaitConsumer
  BY <1>6 DEF WaitConsumer, ReadConsumer, CallFails, jobVars, TypeOK, Condition
<1>7. CASE LookAtPods
  BY <1>7 DEF LookAtPods, CallFails, jobVars, TypeOK
<1>8. CASE CheckSimi
  <2>1. knownFailed' \in BOOLEAN /\ (knownFailed' => simi = "Failed" \/ consumer = "Failed")
    <3>1. knownFailed' = ("Failed" \in {simi, consumer})
      BY <1>8 DEF CheckSimi
    <3> DEFINE found == "Failed" \in {simi, consumer}
    <3>2. knownFailed' = found /\ found \in BOOLEAN /\ (found => simi = "Failed" \/ consumer = "Failed")
      BY <3>1
    <3> HIDE DEF found
    <3> QED
      BY <3>2
  <2>2. /\ lpc' = "check2"
        /\ \/ read' = simi /\ apiFailures' = apiFailures
           \/ /\ read' = "none"
              /\ apiFailures < MaxApiFailures /\ apiFailures' = apiFailures + 1
        /\ UNCHANGED <<numWorkers, pod, simi, consumer, deleted>>
    BY <1>8 DEF CheckSimi, ReadSimi, CallFails, jobVars
  <2>3. TypeOK'
    BY <2>1, <2>2 DEF TypeOK, Condition
  <2>4. CheckInv'
    BY <2>1, <2>2 DEF TypeOK
  <2> QED
    BY <2>2, <2>3, <2>4
<1>9. CASE CheckConsumer
  BY <1>9 DEF CheckConsumer, ReadConsumer, CallFails, jobVars, TypeOK, Condition
<1>10. CASE Collect
  BY <1>10 DEF Collect, CallFails, jobVars, TypeOK
<1> QED
  BY <1>1, <1>2, <1>3, <1>4, <1>5, <1>6, <1>7, <1>8, <1>9, <1>10 DEF LaunchStep

\* The Jobs, whose conditions are final.
LEMMA ClusterStep ==
    ASSUME LaunchInv, JobStep
    PROVE  LaunchInv'
<1> USE PodFacts, WorkerAssumption
        DEF LaunchInv, NotApplied, CauseInv, CheckInv, FailureIsReal, FailureIsReported, PodLost
<1>1. ASSUME NEW w \in Worker, WorkerSucceeds(w) \/ WorkerFails(w)
      PROVE  LaunchInv'
  BY <1>1 DEF WorkerSucceeds, WorkerFails, PodTurns, launchVars, TypeOK
<1>2. CASE ConsumerEnds \/ ConsumerDies
  BY <1>2 DEF ConsumerEnds, ConsumerDies, PodTurns, launchVars, TypeOK
<1>3. ASSUME NEW p \in Pod, PodDeleted(p) \/ PodGone(p)
      PROVE  LaunchInv'
  <2>1. CASE PodDeleted(p)
    <3>1. /\ deleted' /\ deleted' \in BOOLEAN
          /\ pod[p] = "running" /\ pod' = [pod EXCEPT ![p] = "terminating"]
          /\ UNCHANGED <<launchVars, simi, consumer>>
      BY <2>1 DEF PodDeleted, PodTurns
    <3> QED
      BY <3>1 DEF launchVars, TypeOK
  <2>2. CASE PodGone(p)
    BY <2>2 DEF PodGone, PodTurns, launchVars, TypeOK
  <2> QED
    BY <1>3, <2>1, <2>2
<1>4. CASE SimiCompletes
  BY <1>4 DEF SimiCompletes, launchVars, TypeOK, Condition
<1>5. CASE SimiFails
  BY <1>5 DEF SimiFails, launchVars, TypeOK, Condition
<1>6. CASE ConsumerJobEnds
  BY <1>6 DEF ConsumerJobEnds, launchVars, TypeOK, Condition
<1> QED
  BY <1>1, <1>2, <1>3, <1>4, <1>5, <1>6 DEF JobStep, JobController

LEMMA LaunchInvariant == Spec => []LaunchInv
<1>1. Init => LaunchInv
  <2> SUFFICES ASSUME Init
               PROVE  LaunchInv
    OBVIOUS
  <2>1. TypeOK
    <3>1. apiFailures \in 0..MaxApiFailures
      BY LaunchAssumption DEF Init
    <3>2. pod \in [Pod -> {"none", "running", "ok", "failed", "terminating", "gone"}]
      BY DEF Init
    <3> QED
      BY <3>1, <3>2 DEF Init, TypeOK, Condition
  <2>2. NotApplied /\ CauseInv /\ CheckInv /\ FailureIsReal /\ FailureIsReported
    BY DEF Init, NotApplied, CauseInv, CheckInv, FailureIsReal, FailureIsReported, PodLost
  <2> QED
    BY <2>1, <2>2 DEF LaunchInv
<1>2. LaunchInv /\ [Next]_vars => LaunchInv'
  <2> SUFFICES ASSUME LaunchInv, [Next]_vars
               PROVE  LaunchInv'
    OBVIOUS
  <2>1. CASE UNCHANGED vars
    BY <2>1 DEF vars, jobVars, LaunchInv, TypeOK, NotApplied, CauseInv, CheckInv, FailureIsReal,
                FailureIsReported, PodLost
  <2> QED
    BY <2>1, ScriptStep, ClusterStep DEF Next
<1> QED
  BY <1>1, <1>2, PTL DEF Spec

\* The script never uses what an earlier poll has read.
THEOREM LaunchTypeCorrect == Spec => []TypeOK
<1>1. LaunchInv => TypeOK
  BY DEF LaunchInv
<1> QED
  BY <1>1, LaunchInvariant, PTL

\* A launch that says the job failed had a pod that failed or was deleted:
\* a call of kubectl that fails is never taken for a failed Job.
THEOREM ReportedFailureIsReal == Spec => []FailureIsReal
<1>1. LaunchInv => FailureIsReal
  BY DEF LaunchInv
<1> QED
  BY <1>1, LaunchInvariant, PTL

\* With an API server that answers, a Job that had failed when the last check
\* began is reported, although the check reads the Jobs one after the other.
THEOREM RealFailureIsReported == Spec => []FailureIsReported
<1>1. LaunchInv => FailureIsReported
  BY DEF LaunchInv
<1> QED
  BY <1>1, LaunchInvariant, PTL
=============================================================================
