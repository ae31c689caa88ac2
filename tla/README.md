# Simi: specifications, model checking and proofs

Simi (github.com/corshatech/simi) benchmarks a Hyperledger Fabric network. A
Kubernetes Job runs many *workers*; each writes to and reads from the ledger
through the `kubectl hlf` CLI and pushes the durations to InfluxDB. A *consumer*
makes the workers start together over RabbitMQ. `launch.sh` installs all this
and collects the results. A second chart scales the peers of the network under
test while the benchmark runs.

This directory holds TLA+ modules of that system, TLC configurations and TLAPS
proofs. Line numbers below refer to `src/`. `PROJECT.json` maps every
definition that models code to the lines it stands for.

Contents: [1 The system](#1-the-system), [2 Hard behaviours](#2-hard-behaviours),
[3 Modules](#3-modules), [4 Runs](#4-runs), [5 Proofs](#5-proofs),
[6 Findings](#6-findings), [7 Not modelled](#7-not-modelled),
[8 Plan](#8-plan), [9 Running the checks](#9-running-the-checks).

## 1 The system

| Component | State | Operations | Talks to | Correct when |
|---|---|---|---|---|
| Start barrier (`benchmark/worker`, `benchmark/consumer`, `benchmark/cmd`, `cmd/simi.go`) | position of each process, connections, queues, counters of `waitForRegistrations` | dial, subscribe, register, wait, count, broadcast, close | RabbitMQ; kubelet restarts containers | nobody begins on the start command before all have registered; no registered worker misses it; everything ends |
| Measuring loop (`BenchOperation`) | iteration, `startTime`, `Result` | write, read, pause | chaincode operations, InfluxDB | the statistics agree with each other and count no time twice |
| Worker process (`cmd/simi.go`, `config`, `SetupSimi`, the Influx client) | phase of `runSimi`, role, size of the data, buffered points | flags, tracer, configuration, size, set-up, connect, register, run, close | the loop, the CLI, InfluxDB, the environment | it panics over its configuration only; exit status 0 means that the loop was completed; measurements are not lost at its end |
| Chaincode operations and ledger (`chaincodes`, `fabric-chaincode/internal/chaincode`) | `Counter` of each worker, calls under way, ledger of each peer, metrics | `writeKey`, `readKey`, `Invoke`, `ExperimentWrite`, `ExperimentRead` | the CLI, a random peer of the profile, Fabric | counters arrive in order, also those of calls that failed late; measured successes are real |
| Connection profile feed (sidecar in `simi-job.yaml`, `randomPeer`) | secret, file on the shared volume, marker | fetch and rewrite the file, touch the marker | Kubernetes API, the worker, the scale jobs | the worker gets the current peers; the pod ends |
| Benchmark launch (`launch.sh`, the Jobs) | position of the script, conditions of two Jobs, pods | ask, apply, poll, check, collect | Helm, Job controller, InfluxDB | the failures it names are real; no failure it could know of passes for a success; results are of a finished benchmark |
| Peer scaling (`autoscaling`) | Lease, FabricPeers, pods, channel, chaincode, replicas, profile | scale up and down, command by command; acquire and release | KEDA, Prometheus, the Bevel operator | scaling is serial, takes one peer apart at a time and leaves the cluster's objects in agreement; the damage of a failing command stays with one peer |
| Network bootstrap (`create-dln.sh`) | the cluster | a line of `kubectl hlf` commands | the Bevel operator | it leaves a network of one peer |
| Chaincode server (`fabric-chaincode/server.go`, `Invoke`, the registry of `metrics.go`) | main, a goroutine, two listeners, calls and scrapes under way, the histogram | start, serve, invoke, record, scrape, shut down | peers, Prometheus, the cluster's restart | the registry agrees with the answers; exit status 0 means a graceful shutdown; a shutdown ends |
| Generated code, charts, build | - | - | - | - |

How they interact: the scale jobs write the profile into the secret
`dln-config`; the sidecar of every worker pod copies it to a file; the worker
takes a random peer from the file for each operation. The worker enters its
measuring loop through the start barrier, after a set-up each step of which may
end it. The launch sees only the conditions of the two Jobs and, briefly, the
phases of the pods. The chaincode that the peers call runs in a process of its
own, beside the server of its metrics.

## 2 Hard behaviours

* **Barrier.** Bind, publish, count and broadcast happen in different processes
  through a broker that keeps nothing across a restart and confirms nothing;
  containers die and may be restarted; a start timer races the command; a
  closed Go channel looks like a message.
* **Scaling.** Scripts of a dozen `kubectl` commands under `set -e`, which stop
  anywhere and undo nothing, and go on where the command that failed was the head of
  a pipeline; a Lease whose creation may succeed although the answer is lost, and which
  only an `EXIT` trap removes, with a call that may fail; counts of pods and scraped
  metrics that are old when they are used, which no pause of the scripts makes
  young; jobs that take no lock.
* **Ledger.** A CLI call may fail after its transaction was sent; peers lag
  behind each other; a restarted worker begins to count anew; all workers of
  the chart share one key.
* **Feed.** A file is rewritten in place under its readers; a marker on a
  volume outlives the container that wrote it.
* **Launch.** Two Jobs are read in two calls, over and over, while they go on. A call
  that fails ends the script in one place and is taken for an empty answer in another.
* **Worker.** One `startTime` and one `Result` serve two kinds of operations. A
  missing key of the configuration, or a size that nothing can hold, is found
  only by a panic after the worker has registered and waited; points lie in the
  buffer of an asynchronous client while the process may end.
* **Chaincode server.** `log.Fatal` in one goroutine ends the others; the shutdown
  in main, the return of `ListenAndServe`, the shutdown timer and the scrapes race;
  Invokes run concurrently and are recorded between work and answer.

`PROJECT.json` lists each hazard at its line, with the properties that would
catch it, or the reason why none does.

## 3 Modules

Every component has a module with its state, one action per operation, `Next` and its
properties; an `MC*` module for TLC (the loop's is that of the worker around it); and a
`*Proofs` module with its theorems. Operators whose name is that of an action followed by an
underscore (`Subscribe_NoBind`) are *mutants*: the action with a plausible bug. No
specification uses them; each shows that some property can fail.

### StartBarrier, StartGate

Per worker `pc` follows a container of the simi Job through `NewWorker` (dial,
`worker.go:48`), `Register` (subscribe 121-165, init 167, publish 170-211, wait
212-223), `BenchOperation` and `Close`; `cpc` follows `bench-consumer` through
`SyncRegistrations` (`network.go`). The broker is `registrations` (a set: messages
are unique), one private `startQueue` per worker and `brokerUp`. `dials`,
`regCount`, `errCount`, `numRegistered` are the variables of the code;
`published`, `counted` and `broadcast` are history. Each failing AMQP call is
the outcome of the step that makes it. `KillWorker`/`RestartWorker` are the
kubelet's, under `restartPolicy` (`MaxRestarts = 0` is `Never`); `BrokerCrash`
loses all queues and connections. A timer that fires is a step that is always
possible while waiting.

`StartGate` is what the barrier promises: workers arrive, the gate opens when
there were as many arrivals as there are workers, and a worker that has arrived
passes because it opened or alone. A worker that comes back is to the gate
as good as one that is missing; this is the promise the code keeps. `StartBarrier`
implements it with `arrived` = the containers with a published registration, `open` =
`broadcast`, and `passed` from `startedBy`. The stronger promise, that *all* workers
have arrived, is `Barrier`, and holds until a container has been restarted.

### PeerScaling, SerialScaling

`pc[j]` is the next command of job *j*: `lock` is `acquire_lock`
(`scalejob.yaml:48`), the steps between are the commands of
`peer-scale-up.sh` (`count`, `create`, `ready`, `join`, `inspect`, `install`,
`scaleUp`, `upload`) and of `peer-scale-down.sh` (`pick`, `leave`, `delete`,
`prune`, `scaleDown`, `upload`), `settle` is the sleep before the trap, which waits
for no state of the cluster: when the lock is free again pods may still end and the last
scrape may be older than the job. `StepFails` is a command that ends the script, and
`PipeFails` a `kubectl` at the head of a pipeline, whose failure gives the script a
`COUNT` of 0, no name of a peer, or an empty profile to go on with (`peer-scale-up.sh:27`,
`peer-scale-down.sh:27`, `:43`, `:48`). Every exit goes through `Exit`, the trap,
except `Kill`; the trap's DELETE may fail and leave the Lease (`scalejob.yaml:66`).
`count`, `peer` and `file` are the
script's variables and its temporary profile; `peers`, `pods`, `channel`,
`installed`, `replicas`, `profile`, `lease` are the cluster's objects; `seen` is
what Prometheus last scraped, on which `Trigger` decides. `Init` chooses
which of the jobs in `Manual` are made by `job.yaml` in this installation (`manual`):
these take no lock. `orphaned` is history: a job has ended and left the Lease behind.

`SerialScaling` is the abstract promise: one event at a time, the peers change
only inside an event, once per event.

### ExperimentLedger, SessionLedger

`CallWrite` is `writeKey` up to the moment the peer has endorsed: the random peer, the
transaction with key and `Counter`, and `Invoke` of the chaincode on that peer with its
metric. The transaction is then `pending` until `Order` puts it into `chain`, and each peer
commits the chain in its own time (`Commit`). The CLI returns success when the peer that was
asked has committed (`WriteSucceeds`), which is an assumption about the CLI:
`write.go:79-86` sees its exit status only. It fails at any moment before or after
endorsement (`WriteFails`), also because `PutState` returned an error, which the metric
records. A pending transaction may be ordered after its call failed, or never.
`ReadSucceeds`/`ReadFails` query a random peer; `ReadLost` is a query whose answer is lost.
`Restart` is a container that begins from nothing. `pingChaincode` and calls that `Invoke`
refuses are left out: no worker makes them. Blind writes have no read set, so Fabric
invalidates none of them; this is why every ordered transaction takes effect.

`SessionLedger` is what the ledger promises: a worker's writes are sent one after the
other, each takes effect at most once and maybe late, each carries the number of writes
that were acknowledged before it in its run, and only the last may still be
acknowledged. `ExperimentLedger` implements it with `sent` = the transactions pending
or ordered, `log` = `chain`.

### ProfileFeed

`Truncate`, `Fetch`, `FetchFails`, `WritePart`, `WriteRest`, `Awake` are the
pieces of line 69 of `simi-job.yaml` in the order in which the shell performs
them; `file` is the set of peers that a reader would find, and is empty when the
file cannot be parsed. `WorkerReturns` and `TouchDone` are lines 106-109.
`KillWorker` never touches the marker. `RestartWorker` leaves the volume as it is.
`policy` is the pod's restart policy, chosen in `Init` (`simi-job.yaml:29`), and
`JobGivesUp` is the Job controller at its `backoffLimit`.

### BenchmarkRun

`lpc` follows `launch.sh` under its `set -e`: a call that fails ends the script (`exit1`)
where it stands alone (`helmfile apply`, the label, the displayed `get_statuses` of lines 109,
113 and 127, the first `kubectl get pods`, the calls of `Collect`), and leaves an empty answer
in a condition (`WaitSimi` to `CheckConsumer`, `LookAtPods`) or at the head of a pipeline
(the token of Influx). `said` is the exit after the words "job failed", which the script
chooses. `get_statuses` is two actions, since the two Jobs are read one after the other.
The Jobs follow their manifests with `shouldFailOnError`, which the launch sets:
`backoffLimit: 0`, restart policy `Never`, the consumer's wrapper that succeeds whatever the
consumer returned; the consumer need not end. `Pod` has the workers' pods, the consumer's
and one for the other pods of the namespace, since line 119 looks at all of them.
`PodDeleted` is a pod that somebody deletes. `knownFailed` and `deleted` are history: a Job
had failed when the last check began, and a pod has been deleted.

### BenchOperation, SimiWorker

`BenchOperation` is the loop of lines 228-326: `startTime`, `min`, `max`, `avgTotal`,
`elapsed` and `err` are the code's, `points` counts what is pushed to InfluxDB, `now` is the
clock from `workerStart` on. An operation takes any time of `Duration` and succeeds or
fails. `Begin` panics over a period that is not positive (`rand.Int63n`), as `simi.yaml` may
have it, and `WritePanic` is a write whose data cannot be built.

`SimiWorker` is the process around it. `phase` follows `main` and `runSimi`, each step of
which fails with `log.Fatalln` or goes on; `Register` is one step here, since `StartBarrier`
has it in detail. `LoadByteSize` maps a size to what becomes of writing it: `error`,
`small`, `large` (valid, but longer than one argument of a command may be) or `huge` (more
than a Go string can have, 2^48 bytes; sizes beyond an int64 are among these, because
whatever their conversion yields panics as well). `LoopStep` is a step of `BenchOperation`
with what its writes meet: `WriteFault` when the worker was never decoded or the data are
`huge`, and failure when they are `large`. `SendBatch` is the Influx client's own goroutine,
`Close` the deferred flush, which a panic reaches as well and `os.Exit` in `InitFunc` does
not. `Kill` stands for the fatal errors of the runtime as well: memory that runs out while
large data are built ends the process without its defers.

### ChaincodeServer

`pc` is where main is (`boot`, `start`, `serve`, `shutdown`) or how it exited, `metrics`
where its goroutine is, `closing` that `Shutdown` has been called. Whatever ends the
process goes through `End`, which cuts the scrapes and calls under way; `Restart`
is the cluster's, with an empty registry. `ListenAndServe` finds the port free or
taken, or is late and finds the server shut down; `ListenerFails` is an error it returns
later; `MetricsFatal` is the condition
of line 103 as it stands. A call goes through `BeginInvoke`, `Dispatch` (the switch of
`Invoke`), `Record` (`RecordChaincodeActionInvocation`) and `Answer`, so that the
steps of two calls interleave. `Dispatch` takes the time the function took; it stays with
the call until `Record` makes it a label. `histogram` counts the observations of each
series, which is given by function, success and elapsed time. There is no clock: the
shutdown timer may fire at any moment.

## 4 Runs

### Runs that hold

| Run | Instance | Shows |
|---|---|---|
| `barrier_faults` | a writer and a reader, one restart each, init errors, kills, one broker crash, fair | `TypeOK`; `Barrier`: until a container was restarted, whoever begins on the start command begins after all have registered; `ImplementsGate`; `RegistrationAccounting`; `StartReachesRegistered`: no counted worker misses the command; `NoEarlyStart`; `BenchmarkEnds`; `ConsumerDecides` |
| `scaling_serial` | a job that scales up and one that scales down, which may be of `job.yaml`; 3 peers, a failing command (of a pipeline or not), kills, lost answers, a Lease that is kept, fair | `TypeOK`; `MutualExclusion`; `ScalingIsSerial`; `LockIsFreed`; where both jobs take the lock `DamageIsBounded`, and until a command fails `ConsistentWhenFree`, `ReplicasSuffice`, `OnePeerAtATime` |
| `ledger_calls` | 2 workers with one key, 2 peers, 2 iterations, one fault (a failing call or a restart) | `TypeOK`; `SuccessesServed`; `WritesAreSessions` |
| `feed_pod` | both restart policies, 2 peers, 2 changes of the secret, a failing fetch, 2 restarts, kills of both containers, fair | `TypeOK` (no peer in the file that was not fetched); `FeedAlive`; `ProfileReachesFirstWorker`; `PodEnds` |
| `launch_polls` | 3 workers, failing workers, a dying consumer, a deleted pod of any kind, a prompt, 2 failing calls, fair | `TypeOK`; `FailureIsReal`: "job failed" is never said of a call that failed; `FailureIsReported`; `LaunchEnds`, once a Job is over |
| `worker` | every error of the set-up, 21 sizes, periods -1, 0 and 1, no or one writer; 3 iterations, durations 0, 1 and 3 with `MaxDuration` 2; kills | `WorkerTypeOK` (with `TypeOK` of the loop); `MeanInRange`; `DurationsAreDisjoint`; `PanicsAreConfigured`; `SuccessIsComplete`; `PointsAreOffered` |
| `server_graceful` | 2 calls, 2 scrapes, 2 elapsed times, 2 lives; every environment, a taken port, a listener that fails, kills, fair | `TypeOK`; `AnsweredIsRecorded`; `GracefulExit`; `ServerEnds` |

### Runs with a counterexample

Each shows a disagreement of section 6: `barrier_closed`, `scaling_dangling`,
`feed_restart`, `launch_early`, `server_closed`.

### Bounds, and why they are enough

* *Workers.* `barrier_faults` has two with one restart each, which makes up to four
  containers that register in any order: three are enough for one of them to be
  missing while the count is complete. A writer and a reader differ in `InitFunc`, so
  there is no symmetry. `ledger_calls` has no liveness property (`WritesAreSessions` is a
  safety property) and takes its
  workers and peers as a symmetry set. The barrier's properties are proved for any number.
* *Dials, restarts, broker crashes* (`MaxDials` 1 or 2 instead of 9, `MaxRestarts` 1,
  `MaxBrokerCrashes` 1). One restart makes the double registration possible; one
  crash can fall between any two steps of the others.
* *Peers* (3, with pods that still end). Scaling up twice, down to none and up again over a
  peer that is still terminating all fit, and so does a count of pods that is too high or
  too low. `MaxFailures` is 1; an instance with 2 was checked as well. Agreement is stated
  for as long as no command has failed, since nothing undoes a script that stopped;
  `DamageIsBounded` says what may be broken after that, and `MutualExclusion`,
  `ScalingIsSerial` and `LockIsFreed` go on. With a manual job, which takes no lock, the
  properties say what they can: mutual exclusion of the jobs that lock, and that the lock
  is freed although the manual job removes what the other waits for.
* *Ledger.* Two iterations let a late transaction of the first meet the second;
  with two peers, one may lag behind; with one key, a worker reads what the other
  wrote. `MaxFaults` bounds failing calls and restarts together: one fault leaves
  a transaction behind that may arrive at any later moment. Smaller instances
  with unbounded failures (one worker, or one peer without restarts) were checked as well.
* *Feed.* Two changes let the secret change while a change is being written.
* *Worker.* Durations below and above the initial `Min`, and 0. The sizes lie on both
  sides of each limit: of the pattern, the table of units, an argument of 131071 bytes,
  a Go string of 2^48 bytes (the last and the first number of MB, TB and TiB), an int64, and
  the chart's 32KB. A number of b, kB or KiB that is beyond a string is longer than TLC's
  integers; one text (`vast`) stands for these. `OperationPeriod` has a value of each sign.
* *Launch.* Three workers let a failed one, one that is deleted for it and a successful one
  stand side by side. Two failing calls may hit both halves of a check, or a check and
  the collection.
* *Chaincode server.* Two calls with the same or with different labels; one scrape that
  holds up the shutdown while another begins or ends; a second life after each end.
* *Deadlock* is checked wherever the last state has a step of its own (`Finished`,
  `Ended`, `PodEnded`). `CHECK_DEADLOCK FALSE` stands in the barrier runs, where the
  whole system may stop: a consumer that died for good leaves nothing to do.

### Fairness

* *Barrier*: weak fairness of each worker's and the consumer's steps (they are
  scheduled; a waiting worker's timer, `time.NewTimer`, fires), of container
  restarts (kubelet) and of the broker's return (StatefulSet). No fault is fair.
  `ConsumerDecides` exempts what the consumer cannot help: a registration lost with
  the broker, or a worker that ended for good without sending one.
  `BenchmarkEnds` needs the loop to end, which is one step of this module: that
  the operations return is assumed of the CLI.
* *Scaling*: weak fairness of the commands of a started job (`kubectl wait` has
  timeouts), of the operator and of Prometheus. KEDA's trigger is not fair. `LockIsFreed`
  exempts a Lease whose job was killed, never learnt that it has it, or could not delete it.
* *Feed*: weak fairness of the sidecar's loop, the wrapper, kubelet's restart and
  the Job controller's verdict. The worker's return is not fair: a benchmark may
  run for ever. `FetchFails` is bounded by `MaxFetchFailures`, because a fetch
  that always fails can deliver nothing.
* *Launch*: weak fairness of the script and of the two Job controllers. Neither the workers
  nor the consumer are fair, which may wait for a registration for ever (`ConsumerDecides` has
  its exceptions): `LaunchEnds` begins when the pods of one Job have decided its end.
* *Chaincode server*: weak fairness of the call of `Shutdown` and of its timer. That a
  scrape ends, that `ShutdownReturns` or that the goroutine runs is not taken for granted:
  `ServerEnds` rests on the timeout alone.
* The ledger and the worker have safety properties only.

## 5 Proofs

All proofs are checked by TLAPS with Z3, Zenon and LS4. They use the named
assumptions on the constants and nothing else.

**`StartBarrierProofs`** proves for every finite non-empty set of workers and
every bound:

* `TypeCorrect`, `NoMissedStart` (`StartReachesRegistered`), `StartIsComplete`
  (`NoEarlyStart`), `Accounting` (`RegistrationAccounting`);
* `BarrierHolds` (`Barrier`), whose premise that no container was restarted is part
  of the property, and `GateImplemented` (`ImplementsGate`) for any number of restarts.

None of them is inductive. The inductive invariant `IndInv` adds: a container
publishes once and after its subscription (`PublishInv`, `WaitInv`); the broker
neither invents nor repeats, and the counters are the sizes of what was taken
(`CountInv`); a connection that is alive after the count means that the count was
complete (`BroadcastInv`); a live subscriber has a queue, and start commands
come from the broadcast (`StartInv`). Both results then follow by counting. The counted
registrations are of different containers (`GateCardinality`, `EnoughArrivals`): as
many as there are workers open the gate. Where nobody was restarted they are of
different workers, so they are from all (`FullHouse`); with a restart this is the
step that fails.

**`PeerScalingProofs`** proves for every set of jobs, any number of peers and all faults
`ScalingIsExclusive` (`MutualExclusion`), `ScalingImplementsSerial` (`ScalingIsSerial`) and
`ScalingTypes` (`TypeOK`). The invariant `LockInv` says that a job
is inside its script exactly if it has the lock, that whoever has it has an
existing Lease, and that two jobs that lock never have it; the Lease may outlive its job.
Jobs of `job.yaml` are outside the first two, and may run beside the others.
Each command is a move of one job inside its script, before or after
the one command that changes the peers; acquiring maps to `Begin`, `CreatePeer` and
`DeletePeer` to `Change`, and `Exit` and `Kill` to `End`. `TypeInv` adds to the types that
pods can be counted, that a job keeps to the script of its direction and that no peer is
listed twice.

Of the cluster's objects it proves `ScalingIsConsistent` (`ConsistentWhenFree`),
`ReplicasAreEnough` (`ReplicasSuffice`) and `ScalingTakesOnePeer` (`OnePeerAtATime`), until a
command fails and where every job takes the lock, which is part of the property. They
say little of what a script is about to do, so none is inductive. `OrderInv` follows the
scripts command by command: `UpStage` and `DownStage` say, for the place of the job that has
the lock, up to which peer it has brought profile, channel, chaincode and pods; without the
lock all agree (`Agreed`). Nothing is said of how many pods there are or what Prometheus has
seen: a pod that still ends makes COUNT too high and a peer's name one that is taken or one
further on, a pod that ended makes the replicas one too few, and the last peer may go. The
argument needs no more than that the existing peers run, so that COUNT is never below their
number on the way up, and never below it after the delete on the way down (`Replicas`).
A killed job leaves the objects where they were and the Lease with them: nothing is ever
scaled again, and `OneApart` speaks of its peer.

`DamageDoesNotSpread` (`DamageIsBounded`) holds for any number of failing commands. In
`DamageInv` the broken peers without the one that the job with the lock works on are no more
than the failures (`DamageStage`), and `channel` names existing peers only, so that a script
that takes a peer out of the channel before it deletes it leaves nothing behind to wait for.
A pipeline that goes on with nothing does not break a peer: it gives the new peer another
name, has the script fail at its delete, or falsifies replicas and profile, of which
`DamageIsBounded` does not speak.

**`BenchOperationProofs`** proves for any number of iterations, any periods and any
durations `LoopTypeCorrect` (`TypeOK`), `StatisticsAgree` (`MeanInRange`) and
`OperationsAreDisjoint` (`DurationsAreDisjoint`). `StatInv` adds how many points there
may be at each place of the loop, and that an operation under way began after
all that were measured had ended. The arithmetic rests on the lemmas
`ProductMonotone`, `LowerBound` and `UpperBound`.

**`SimiWorkerProofs`** proves for any sizes, flags, periods and number of iterations
`WorkerTypeCorrect` (`WorkerTypeOK`) and `WorkerStatisticsAgree`, which take what is proved
of the loop through the lemma that every step of the worker is one of the loop or leaves it
alone; and `OnlyConfigurationPanics` (`PanicsAreConfigured`), `ExitZeroIsComplete`
(`SuccessIsComplete`) and `AllPointsAreOffered` (`PointsAreOffered`). Their inductive
invariant `LifeInv` orders the worker's life: nothing is measured during the set-up, the
status is open while the loop runs, the panic of the loop has its cause in the
configuration, and the status that `Leave` sets agrees with the place where the loop
stopped.

**`ChaincodeServerProofs`** proves for any number of calls, scrapes and restarts
`ExitIsGraceful` (`GracefulExit`), `ServerTypes` (`TypeOK`) and `RegistryAgrees`
(`AnsweredIsRecorded`). `EndInv` is the order of the end: the chaincode server returns, then
the listener is closed, then `ListenAndServe` returns its error, and a scrape is cut only by
what ends the process. `CallInv` adds to types and agreement that a call under way belongs
to the present life of the process and that its labels are those of a series
(`CallsInPlace`): so recording counts a call where it was not counted before, ending the
process loses only calls that do not matter to a registry that is lost with them, and a
restart has nothing to count. That a series has no more observations than there are calls,
which `TypeOK` says, follows from the agreement and not the other way round.

**`ExperimentLedgerProofs`** proves for any number of workers, peers, iterations and faults
`LedgerTypeCorrect` (`TypeOK`), `MeasuredIsServed` (`SuccessesServed`),
`LedgerImplementsSessions` (`WritesAreSessions`) and `CountersStayInOrder`, that the ledger
gets the counters of a run without a gap. `LedgerInv` adds that a worker's Counter keeps
behind its iterations (`LoopInv`), that the transaction under way carries the present run
and Counter (`CurrentInv`), that what was acknowledged is committed (`AckedIsCommitted`,
which is the assumption on the CLI, carried along), and that the counter before a worker's
Counter, and before that of every pending transaction, is on the chain already
(`CounterInv`): an order that no later arrival can break. `MeasureInv` counts the writes
under way with those that were measured. The refinement needs `SessionInv`: all that was
sent is of its worker's past, in the order of runs and iterations (`Past`), the write under
way is the last one and not yet acknowledged (`SendInv`), and the Counter is the number of
acknowledged writes of the run (`CountInv`), which a restart begins at none. `CallWrite`
maps to `Send`, `Order` to `Place`, `WriteSucceeds` to `Acknowledge`; the rest is nothing to
the sessions.

**`BenchmarkRunProofs`** proves for any number of workers and of failing calls
`LaunchTypeCorrect` (`TypeOK`), `ReportedFailureIsReal` (`FailureIsReal`) and
`RealFailureIsReported` (`FailureIsReported`). `CauseInv` leads each condition and each
deleted pod back to a pod that failed or that somebody deleted (`PodLost`); `CheckInv` says
that a failure known when the check began is in one of its two answers, since conditions are
final.

**`ProfileFeedProofs`** proves `FileIsFetched` (`TypeOK`) and `FeedOutlivesFirstWorker`
(`FeedAlive`): the file is empty while a fetch is under way, the sidecar exits
only after the marker, and without a restart the marker means that the worker has ended
(`FeedInv`).

*Only model-checked:* all liveness (`BenchmarkEnds`, `ConsumerDecides`, `LockIsFreed`,
`ProfileReachesFirstWorker`, `PodEnds`, `LaunchEnds`, `ServerEnds`), which is out of the
prover's reach. Every invariant and every refinement that a passing run checks is proved. The
runs with a counterexample have no theorem: one counterexample says all.

## 6 Findings

Five have a run that TLC refutes; `PROJECT.json` quotes the text each contradicts.

1. *Losing the broker starts the benchmark* (`barrier_closed`, `worker.go:215`).
   The closed channel is taken for the command.
2. *Clients are led to a deleted peer* (`scaling_dangling`,
   `peer-scale-down.sh:35`). The secret is updated last.
3. *A restarted worker has no sidecar* (`feed_restart`, `simi-job.yaml:108`).
   The marker is never removed.
4. *Results are collected while workers run* (`launch_early`, `launch.sh:111`).
   The end of either Job ends the wait.
5. *The shutdown of the metrics server is killed* (`server_closed`, `server.go:103`).
   The condition kills the program in exactly the case its comment excludes, and
   in no other.

Further observations, which the models contain and which have no run of their own:

* a restarted worker is counted twice (`network.go:90`: registrations are counted,
  not workers), so `Barrier` speaks of runs without a restart, and `StartGate` counts arrivals;
* a reader without a numeric `Id` exits in `InitFunc` (`common.go:146`), and the chart
  sets none: it registers nothing, and the consumer waits for it until it is killed;
* jobs of `job.yaml` take no lock (`job.yaml:27`): what is said of the cluster's
  agreement is said of installations without one;
* a killed scale job leaves a Lease without a duration (`scalejob.yaml:54`), and so does
  a trap whose DELETE fails (`scalejob.yaml:66`); scaling stops for good: `LockIsFreed` makes
  an exception of them;
* a scale-up that fails half-way is not undone, and the next job publishes the
  half-made peer (`peer-scale-up.sh:99`): `DamageIsBounded` counts it;
* the sleep before the lock is freed (`scalejob.yaml:77`) waits for nothing: a trigger that
  was scraped before the last job may take the last peer, and a pod that still ends makes
  the next scale-up choose another name or stop at one that is taken;
* `COUNT` is taken after the delete (`peer-scale-down.sh:48`) and from pods, so the
  chaincode may be left with a replica too few, down to none: `ReplicasSuffice` allows one;
* a `kubectl` that fails at the head of a pipeline goes unnoticed: the script that scales down
  then asks for -1 replicas (`peer-scale-down.sh:48-54`, as it does with no pod left) or
  uploads an empty profile, the one that scales up counts no peers;
* a worker all of whose operations fail exits with status 0 (`worker.go:325` returns
  nil): `SuccessIsComplete` says no more than that the loop was completed;
* data of 128 KiB and more never reach the ledger: they are one argument of the CLI
  (`common.go:242`), so every write fails, and the worker exits with status 0;
* a size of more than 2^48 bytes passes the configuration and panics in `strings.Repeat`
  (`write.go:75`) at the first write, as does any beyond an int64 (`loader.go:83`);
* without `operationConfig` the decoder leaves a nil pointer, and without a positive
  `operationPeriod` `rand.Int63n` panics (`worker.go:234`), both after the set-up succeeded;
* a metrics port that is taken, or a listener that fails later, passes in silence
  (`server.go:103`), and a chaincode server that cannot start may exit with status 0
  (`server.go:113`), so `GracefulExit` says that it has ended, not that it has served;
* `elapsedTimeSeconds` is a label (`metrics.go:72`): the registry gets a new series for
  almost every call;
* the comment on `writeKey` (`write.go:62`) promises an increment, and the
  chaincode puts the worker's counter as it is: a call that failed late and the next one
  write the same value;
* the answer to the prompt of `launch.sh:71` is lost;
* with restart policy `Never` a killed worker leaves its sidecar running and its
  Job without an end;
* a failing call in the last check of `launch.sh` hides a failed Job, and one for the token of
  Influx (`launch.sh:136`) leaves exit status 0 without results;
* any pod of the namespace that is being deleted, one of the services too, makes the
  launch say that the job failed (`launch.sh:119`): `FailureIsReal` allows it.

## 7 Not modelled

* *create-dln.sh*: a line of commands run once; its result is `Init` of `PeerScaling`.
* *YAML and flags*: their syntax. `LoadConfig` fails or gives the loop's variables, and
  of a size the class of its result is kept; fractions of a unit fall into the same classes.
* *Tracing*: the set-up of the tracer is a step of `SimiWorker`; the spans are calls to a
  library without effect on the program's state.
* *result.pb.go*: generated. *Charts*: static, except what decides about the Jobs.
* *License, stream and challenge metrics* (`metrics.go`): no caller.
* *InfluxDB*: `points` and the history of successes stand for it. That points of
  different workers carry no tag of the worker (`worker.go:282`) and may overwrite
  each other needs the clocks of several pods and is not modelled.
* *Payload of a write, log level, formatting*: no behaviour depends on them, except on
  the size of the payload.
* *Fabric, RabbitMQ, KEDA, the Bevel operator, Kubernetes* are external and
  modelled from how this code uses them. Two assumptions go beyond that: the CLI reports the
  success of an invoke when the peer it asked has committed the transaction, and Go's limit of
  an allocation is that of a 64-bit Linux.

## 8 Plan

Order: the barrier (what makes the benchmark a benchmark), scaling (the most
shared state), then the ledger, the feed, the launch, the loop, the worker's process
around the loop, and the chaincode server. Done so far: all of these, each with proofs.
Next:

1. A composition of `PeerScaling`'s profile, `ProfileFeed` and
   `ExperimentLedger`: which peers a worker may still ask while the network is scaled.
2. A composition of `BenchmarkRun` with `StartBarrier` through an abstraction of
   the consumer's end.
3. Proofs: what the sessions of `SessionLedger` imply for a reader of one key that several
   workers share.

## 9 Running the checks

    tlasany StartBarrier.tla
    tlc -workers 2 -config StartBarrier_faults.cfg MCStartBarrier
    tlapm StartBarrierProofs.tla

The configuration and module of each run are in `PROJECT.json`. The longest run
takes about two minutes, the longest proof a few minutes.
