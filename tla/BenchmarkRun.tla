---------------------------- MODULE BenchmarkRun ----------------------------
(***************************************************************************)
(* One launch of a benchmark: benchmark/launch.sh, which installs the      *)
(* chart, polls the two Jobs and collects the results, and the Jobs simi   *)
(* and consumer of k8s/helm/simi/templates with their controllers.  The    *)
(* launch sets shouldFailOnError, so that a failed worker fails its Job.   *)
(***************************************************************************)
EXTENDS Naturals, FiniteSets

CONSTANTS
    Worker,         \* the workers the operator wants
    Prompted,       \* whether SIMI_NUM_WORKERS may be unset, so that the script asks
    MaxApiFailures, \* bound on the calls of helmfile, kubectl and curl that fail
    Faults          \* the faults of the environment that may happen

\* The pods of the namespace; one stands for the services of the chart (the
\* broker, Influx), which a StatefulSet or a Deployment creates again.
Pod == Worker \cup {"consumer", "services"}

ASSUME WorkerAssumption ==
    IsFiniteSet(Worker) /\ Worker # {} /\ Worker \cap {"consumer", "services"} = {}
ASSUME LaunchAssumption == Prompted \subseteq BOOLEAN /\ MaxApiFailures \in Nat
ASSUME FaultAssumption == Faults \subseteq {"workerFails", "consumerDies", "podDeleted"}

VARIABLES
    lpc,            \* where launch.sh is
    numWorkers,     \* SIMI_NUM_WORKERS; 0 is the empty string
    pod,            \* the pods of the namespace
    simi,           \* the condition of the Job simi
    consumer,       \* the condition of the Job consumer
    read,           \* the condition of the Job simi get_statuses has read
    apiFailures,
    knownFailed,    \* history: a Job had failed when the last check began
    deleted         \* history: somebody has deleted a pod

jobVars == <<pod, simi, consumer, deleted>>
vars == <<lpc, numWorkers, jobVars, read, apiFailures, knownFailed>>

Init ==
    /\ lpc = "ask"
    /\ numWorkers = 0
    /\ pod = [p \in Pod |-> "none"]
    /\ simi = "none"
    /\ consumer = "none"
    /\ read = "none"
    /\ apiFailures = 0
    /\ knownFailed = FALSE
    /\ deleted = FALSE

-----------------------------------------------------------------------------
(* launch.sh.  Under "set -e" a command that fails ends it with a status   *)
(* that is not 0 ("exit1"), but not inside the condition of if or while,   *)
(* nor before the last command of a pipeline.  "said" is an exit 1 of its  *)
(* own, after the words "job failed".                                      *)

CallFails ==
    /\ apiFailures < MaxApiFailures
    /\ apiFailures' = apiFailures + 1

\* The prompt reads the variable "workers" and exports "worker".
AskWorkers ==
    /\ lpc = "ask"
    /\ \E asked \in Prompted : numWorkers' = IF asked THEN 0 ELSE Cardinality(Worker)
    /\ lpc' = "apply"
    /\ UNCHANGED <<jobVars, read, apiFailures, knownFailed>>

\* helmfile apply creates the Jobs and the services.
Apply ==
    /\ lpc = "apply"
    /\ numWorkers > 0
    /\ pod' = [p \in Pod |-> "running"]
    /\ lpc' = "label"
    /\ UNCHANGED <<numWorkers, simi, consumer, deleted, read, apiFailures, knownFailed>>

\* The chart's schema refuses the empty number, or helmfile fails, before or
\* after it has created the Jobs.
ApplyFails ==
    /\ lpc = "apply"
    /\ \/ numWorkers = 0 /\ UNCHANGED <<pod, apiFailures>>
       \/ numWorkers > 0 /\ CallFails /\ pod' \in {pod, [p \in Pod |-> "running"]}
    /\ lpc' = "exit1"
    /\ UNCHANGED <<numWorkers, simi, consumer, deleted, read, knownFailed>>

\* Calls of kubectl whose answers are only shown, get_statuses among them,
\* with nothing around them that keeps a failure from ending the script.
Report(here, there) ==
    /\ lpc = here
    /\ \/ lpc' = there /\ UNCHANGED apiFailures
       \/ CallFails /\ lpc' = "exit1"
    /\ UNCHANGED <<numWorkers, jobVars, read, knownFailed>>

LabelNamespace == Report("label", "wait")
ReportWaiting == Report("report", "pods")
ReportEnd == Report("end", "check")

\* The first of the two calls of get_statuses in a condition, where a call
\* that fails leaves an empty answer.
ReadSimi(here, there) ==
    /\ lpc = here
    /\ \/ read' = simi /\ UNCHANGED apiFailures
       \/ CallFails /\ read' = "none"
    /\ lpc' = there
    /\ UNCHANGED <<numWorkers, jobVars>>

\* Mutant: the condition that was read is kept for the next time.
ReadConsumer_Keeps(here, wanted, found, notFound) ==
    /\ lpc = here
    /\ lpc' = IF read \in wanted \/ consumer \in wanted THEN found ELSE notFound
    /\ UNCHANGED <<numWorkers, jobVars, read, apiFailures, knownFailed>>

\* The second call; then grep looks for one of the conditions in both.
ReadConsumer(here, wanted, found, notFound) ==
    /\ lpc = here
    /\ \/ /\ lpc' = IF read \in wanted \/ consumer \in wanted THEN found ELSE notFound
          /\ UNCHANGED apiFailures
       \/ CallFails /\ lpc' = IF read \in wanted THEN found ELSE notFound
    /\ read' = "none"
    /\ UNCHANGED <<numWorkers, jobVars, knownFailed>>

\* The condition of the while loop.
WaitSimi == ReadSimi("wait", "wait2") /\ UNCHANGED knownFailed

\* Mutant: the loop waits for the Job simi alone.
WaitConsumer_SimiOnly ==
    /\ lpc = "wait2"
    /\ lpc' = IF read # "none" THEN "end" ELSE "report"
    /\ read' = "none"
    /\ UNCHANGED <<numWorkers, jobVars, apiFailures, knownFailed>>

WaitConsumer == ReadConsumer("wait2", {"Complete", "Failed"}, "end", "report")

\* Mutant: the loop gives up on pods that are "Completed".
LookAtPods_Completed ==
    /\ lpc = "pods"
    /\ lpc' = IF \E p \in Pod : pod[p] \in {"terminating", "ok"} THEN "said" ELSE "wait"
    /\ UNCHANGED <<numWorkers, jobVars, read, apiFailures, knownFailed>>

\* "kubectl get pods" shows Terminating for every pod of the namespace that
\* is being deleted; a pod that failed shows Error, which the script does not
\* look for.  A call that fails shows none.
LookAtPods ==
    /\ lpc = "pods"
    /\ \/ /\ lpc' = IF \E p \in Pod : pod[p] = "terminating" THEN "said" ELSE "wait"
          /\ UNCHANGED apiFailures
       \/ CallFails /\ lpc' = "wait"
    /\ UNCHANGED <<numWorkers, jobVars, read, knownFailed>>

\* Mutant: nobody checks whether a Job has failed.
CheckConsumer_Skipped == ReadConsumer("check2", {}, "said", "collect")

CheckSimi ==
    /\ ReadSimi("check", "check2")
    /\ knownFailed' = ("Failed" \in {simi, consumer})

CheckConsumer == ReadConsumer("check2", {"Failed"}, "said", "collect")

\* The results are fetched from Influx into ./out.  The token is read at the
\* head of a pipeline, so that a failure there does not end the script.
Collect ==
    /\ lpc = "collect"
    /\ \/ lpc' = "exit0" /\ UNCHANGED apiFailures
       \/ CallFails /\ lpc' \in {"exit0", "exit1"}
    /\ UNCHANGED <<numWorkers, jobVars, read, knownFailed>>

-----------------------------------------------------------------------------
(* The Jobs.                                                               *)

launchVars == <<lpc, numWorkers, read, apiFailures, knownFailed>>

PodTurns(p, from, to) ==
    /\ pod[p] = from
    /\ pod' = [pod EXCEPT ![p] = to]

WorkerSucceeds(w) ==
    /\ PodTurns(w, "running", "ok")
    /\ UNCHANGED <<launchVars, simi, consumer, deleted>>

\* The pod is not restarted: restartPolicy Never.
WorkerFails(w) ==
    /\ "workerFails" \in Faults
    /\ PodTurns(w, "running", "failed")
    /\ UNCHANGED <<launchVars, simi, consumer, deleted>>

\* The wrapper of the consumer prints its exit status and succeeds with any.
\* It need not end: a consumer may wait for a registration for ever.
ConsumerEnds ==
    /\ PodTurns("consumer", "running", "ok")
    /\ UNCHANGED <<launchVars, simi, consumer, deleted>>

ConsumerDies ==
    /\ "consumerDies" \in Faults
    /\ PodTurns("consumer", "running", "failed")
    /\ UNCHANGED <<launchVars, simi, consumer, deleted>>

\* A pod is deleted by somebody else, in the drain of its node for example.
PodDeleted(p) ==
    /\ "podDeleted" \in Faults
    /\ PodTurns(p, "running", "terminating")
    /\ deleted' = TRUE
    /\ UNCHANGED <<launchVars, simi, consumer>>

\* The service's controller puts another pod in its place.
PodGone(p) ==
    /\ PodTurns(p, "terminating", IF p = "services" THEN "running" ELSE "gone")
    /\ UNCHANGED <<launchVars, simi, consumer, deleted>>

SimiCompletes ==
    /\ simi = "none"
    /\ \A w \in Worker : pod[w] = "ok"
    /\ simi' = "Complete"
    /\ UNCHANGED <<launchVars, pod, consumer, deleted>>

\* backoffLimit 0: the Job fails with its first pod, the others are deleted.
SimiFails ==
    /\ simi = "none"
    /\ \E w \in Worker : pod[w] \in {"failed", "gone"}
    /\ simi' = "Failed"
    /\ pod' = [p \in Pod |-> IF p \in Worker /\ pod[p] = "running" THEN "terminating" ELSE pod[p]]
    /\ UNCHANGED <<launchVars, consumer, deleted>>

ConsumerJobEnds ==
    /\ consumer = "none"
    /\ pod["consumer"] \in {"ok", "failed", "gone"}
    /\ consumer' = IF pod["consumer"] = "ok" THEN "Complete" ELSE "Failed"
    /\ UNCHANGED <<launchVars, pod, simi, deleted>>

-----------------------------------------------------------------------------

LaunchStep ==
    \/ AskWorkers \/ Apply \/ ApplyFails \/ LabelNamespace
    \/ WaitSimi \/ WaitConsumer \/ ReportWaiting \/ LookAtPods
    \/ ReportEnd \/ CheckSimi \/ CheckConsumer \/ Collect

JobController == SimiCompletes \/ SimiFails \/ ConsumerJobEnds

JobStep ==
    \/ \E w \in Worker : WorkerSucceeds(w) \/ WorkerFails(w)
    \/ ConsumerEnds \/ ConsumerDies
    \/ \E p \in Pod : PodDeleted(p) \/ PodGone(p)
    \/ JobController

Ended == lpc \in {"exit0", "exit1", "said"}

Next ==
    \/ LaunchStep
    \/ JobStep
    \/ Ended /\ UNCHANGED vars

\* The script runs and the controllers look at the pods of their Jobs;
\* nothing obliges a worker or the consumer to end.
Fairness ==
    /\ WF_vars(LaunchStep)
    /\ WF_vars(SimiCompletes \/ SimiFails)
    /\ WF_vars(ConsumerJobEnds)

Spec == Init /\ [][Next]_vars /\ Fairness

-----------------------------------------------------------------------------
(* Properties.                                                             *)

Condition == {"none", "Complete", "Failed"}

\* Type correctness; what get_statuses has read is not kept after its use.
TypeOK ==
    /\ lpc \in {"ask", "apply", "label", "wait", "wait2", "report", "pods", "end", "check",
                "check2", "collect", "exit0", "exit1", "said"}
    /\ numWorkers \in {0, Cardinality(Worker)}
    /\ pod \in [Pod -> {"none", "running", "ok", "failed", "terminating", "gone"}]
    /\ simi \in Condition
    /\ consumer \in Condition
    /\ read \in Condition
    /\ lpc \notin {"wait2", "check2"} => read = "none"
    /\ apiFailures \in 0..MaxApiFailures
    /\ knownFailed \in BOOLEAN
    /\ deleted \in BOOLEAN

\* A launch that says the job failed is right: a worker or the consumer has
\* failed, or a pod was deleted under it.  A call of kubectl that fails may
\* end the script, but is never taken for a failed Job.
FailureIsReal ==
    lpc = "said" => deleted \/ \E p \in Pod \ {"services"} : pod[p] = "failed"

\* A launch does not report success when a Job had failed by the time it
\* began its last check, although the two Jobs are read one after the other
\* while they go on.  A call that fails may hide the failure.
FailureIsReported == lpc \in {"collect", "exit0"} /\ apiFailures = 0 => ~knownFailed

\* The pods of one of the Jobs decide how it ends.
AJobIsOver ==
    \/ pod["consumer"] \in {"ok", "failed", "gone"}
    \/ \A w \in Worker : pod[w] = "ok"
    \/ \E w \in Worker : pod[w] \in {"failed", "gone"}

\* The launch comes to an end once the consumer has ended in any way, all
\* workers have succeeded or one has failed, although the other Job may never
\* end and calls of kubectl fail.
LaunchEnds == AJobIsOver ~> Ended

\* "When the benchmark finishes, it will output its results": the results
\* that are collected are those of a finished benchmark.
ResultsComplete == lpc = "exit0" => \A w \in Worker : pod[w] = "ok"
=============================================================================
