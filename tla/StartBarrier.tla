---------------------------- MODULE StartBarrier ----------------------------
(***************************************************************************)
(* The start barrier of a benchmark: the Simi workers (cmd/simi.go,        *)
(* benchmark/worker/worker.go), the bench consumer                         *)
(* (benchmark/cmd/consumer.go, benchmark/consumer/network.go) and the      *)
(* RabbitMQ broker between them.                                           *)
(*                                                                         *)
(* A worker binds a private queue to the "start" topic, publishes its      *)
(* registration and waits; the consumer counts registrations up to         *)
(* numWorkers and broadcasts "start".  The broker keeps nothing across a   *)
(* restart, publications are not confirmed, containers die and, unless     *)
(* shouldFailOnError is set, kubelet starts them again.                    *)
(*                                                                         *)
(* Clocks are abstracted: the start timer of a waiting worker may fire at  *)
(* any moment, and a dial attempt may be made at any moment.               *)
(***************************************************************************)
EXTENDS Naturals, FiniteSets

CONSTANTS
    Worker,            \* the completion indexes of the simi Job (numWorkers)
    Writer,            \* the indexes below numWriters
    IdConfigured,      \* operationConfig gives the workers a numeric Id
    MaxDials,          \* attempts of NewWorker to reach the broker (9)
    MaxRestarts,       \* container restarts; 0 is restartPolicy Never
    MaxBrokerCrashes,  \* bound on the crashes of the broker
    Faults             \* the faults of the environment that may happen

ASSUME WorkerAssumption == IsFiniteSet(Worker) /\ Worker # {}
ASSUME WriterAssumption == Writer \subseteq Worker
ASSUME BoundAssumption ==
    /\ MaxDials \in Nat \ {0}
    /\ MaxRestarts \in Nat
    /\ MaxBrokerCrashes \in Nat
ASSUME FaultAssumption == Faults \subseteq {"init", "crash", "broker"}
ASSUME IdAssumption == IdConfigured \in BOOLEAN

\* conf.NumWorkers of the consumer, the expected number of registrations.
NumWorkers == Cardinality(Worker)

VARIABLES
    pc,             \* where each worker's container is
    restarts,       \* restarts of each worker's container so far
    dials,          \* failed dial attempts of each container
    conn,           \* the container's AMQP connection is open
    regErr,         \* InitFunc of the container returned an error
    startQueue,     \* the container's private queue and what is in it
    startedBy,      \* what made the container begin its operations
    brokerUp,
    brokerCrashes,
    registrations,  \* the messages in the queue "registrations"
    cpc,            \* where the consumer is
    cconn,          \* the consumer's AMQP connection is open
    regCount,
    errCount,
    numRegistered,
    published,      \* history: every registration a worker published
    counted,        \* history: every registration the consumer counted
    broadcast       \* history: the start command reached the broker

workerVars   == <<pc, restarts, dials, conn, regErr, startQueue, startedBy>>
brokerVars   == <<brokerUp, brokerCrashes>>
consumerVars == <<cpc, cconn, regCount, errCount, numRegistered, counted, broadcast>>
vars == <<workerVars, brokerVars, registrations, published, consumerVars>>

WorkerPc   == {"dial", "subscribe", "init", "publish", "waiting", "bench", "done", "failed"}
ConsumerPc == {"dial", "consume", "receive", "broadcast", "close", "exit0", "exit1"}

\* A registration: its sender (CorrelationId) and whether its Body is an
\* error text.
Registration == [worker : Worker, incarnation : 0..MaxRestarts, err : BOOLEAN]

Running(w) == pc[w] \notin {"done", "failed"}

Init ==
    /\ pc = [w \in Worker |-> "dial"]
    /\ restarts = [w \in Worker |-> 0]
    /\ dials = [w \in Worker |-> 0]
    /\ conn = [w \in Worker |-> FALSE]
    /\ regErr = [w \in Worker |-> FALSE]
    /\ startQueue = [w \in Worker |-> "none"]
    /\ startedBy = [w \in Worker |-> "none"]
    /\ brokerUp = TRUE
    /\ brokerCrashes = 0
    /\ registrations = {}
    /\ published = {}
    /\ cpc = "dial"
    /\ cconn = FALSE
    /\ regCount = 0
    /\ errCount = 0
    /\ numRegistered = 0
    /\ counted = {}
    /\ broadcast = FALSE

-----------------------------------------------------------------------------
(* The worker.                                                             *)

\* The container ends: Close shuts the connection, and with its only
\* consumer gone the broker deletes the auto-delete start queue.
Leave(w, status) ==
    /\ pc' = [pc EXCEPT ![w] = status]
    /\ conn' = [conn EXCEPT ![w] = FALSE]
    /\ startQueue' = [startQueue EXCEPT ![w] = "none"]

Dial(w) ==
    /\ pc[w] = "dial"
    /\ brokerUp
    /\ pc' = [pc EXCEPT ![w] = "subscribe"]
    /\ conn' = [conn EXCEPT ![w] = TRUE]
    /\ UNCHANGED <<restarts, dials, regErr, startQueue, startedBy>>

\* Mutant: the dial loop never gives up.
DialFails_NoLimit(w) ==
    /\ pc[w] = "dial"
    /\ ~brokerUp
    /\ dials' = [dials EXCEPT ![w] = @ + 1]
    /\ UNCHANGED <<pc, restarts, conn, regErr, startQueue, startedBy>>

DialFails(w) ==
    /\ pc[w] = "dial"
    /\ ~brokerUp
    /\ dials' = [dials EXCEPT ![w] = @ + 1]
    /\ pc' = [pc EXCEPT ![w] = IF dials[w] + 1 = MaxDials THEN "failed" ELSE "dial"]
    /\ UNCHANGED <<restarts, conn, regErr, startQueue, startedBy>>

\* Mutant: the start queue is declared and consumed but never bound.
Subscribe_NoBind(w) ==
    /\ pc[w] = "subscribe"
    /\ conn[w]
    /\ pc' = [pc EXCEPT ![w] = "init"]
    /\ UNCHANGED <<restarts, dials, conn, regErr, startQueue, startedBy>>

\* Declare the start queue, bind it to the topic and consume from it.
Subscribe(w) ==
    /\ pc[w] = "subscribe"
    /\ conn[w]
    /\ startQueue' = [startQueue EXCEPT ![w] = "bound"]
    /\ pc' = [pc EXCEPT ![w] = "init"]
    /\ UNCHANGED <<restarts, dials, conn, regErr, startedBy>>

\* What InitFunc does: a reader parses its Id (log.Fatalln if it is not a
\* number) and takes it modulo numWriters (a panic if that is zero); a
\* writer does nothing.  An error is what another InitFunc may return.
InitOutcomes(w) ==
    IF w \notin Writer /\ (~IdConfigured \/ Writer = {})
    THEN {"fatal"}
    ELSE {"ok"} \cup (IF "init" \in Faults THEN {"error"} ELSE {})

InitFunc(w) ==
    /\ pc[w] = "init"
    /\ \E outcome \in InitOutcomes(w) :
          \/ /\ outcome = "fatal"
             /\ Leave(w, "failed")
             /\ UNCHANGED regErr
          \/ /\ outcome # "fatal"
             /\ pc' = [pc EXCEPT ![w] = "publish"]
             /\ regErr' = [regErr EXCEPT ![w] = (outcome = "error")]
             /\ UNCHANGED <<conn, startQueue>>
    /\ UNCHANGED <<restarts, dials, startedBy>>

\* Publish the registration status; Register then waits, or returns the
\* error InitFunc gave.
PublishRegistration(w) ==
    /\ pc[w] = "publish"
    /\ conn[w]
    /\ LET m == [worker |-> w, incarnation |-> restarts[w], err |-> regErr[w]]
       IN  /\ registrations' = registrations \cup {m}
           /\ published' = published \cup {m}
    /\ IF regErr[w]
       THEN Leave(w, "failed")
       ELSE /\ pc' = [pc EXCEPT ![w] = "waiting"]
            /\ UNCHANGED <<conn, startQueue>>
    /\ UNCHANGED <<restarts, dials, regErr, startedBy>>

\* Any AMQP call on a connection that is gone makes Register fail.
AmqpFails(w) ==
    /\ pc[w] \in {"subscribe", "publish"}
    /\ ~conn[w]
    /\ Leave(w, "failed")
    /\ UNCHANGED <<restarts, dials, regErr, startedBy>>

\* Register returns nil: its deferred ch.Close drops the start queue.
Begin(w, cause) ==
    /\ pc[w] = "waiting"
    /\ pc' = [pc EXCEPT ![w] = "bench"]
    /\ startedBy' = [startedBy EXCEPT ![w] = cause]
    /\ startQueue' = [startQueue EXCEPT ![w] = "none"]
    /\ UNCHANGED <<restarts, dials, conn, regErr>>

ReceiveStart(w) == startQueue[w] = "start" /\ Begin(w, "start")

\* Mutant: Register waits without a timer.
StartTimeout_Never(w) == FALSE /\ Begin(w, "timeout")

\* The timer of startTimeout fires.
StartTimeout(w) == Begin(w, "timeout")

\* The library closes startCommands when the connection is lost, and the
\* receive of the select, which has no ok test, takes it for a command.
StartChannelClosed(w) == ~conn[w] /\ Begin(w, "closed")

FinishBench(w) ==
    /\ pc[w] = "bench"
    /\ Leave(w, "done")
    /\ UNCHANGED <<restarts, dials, regErr, startedBy>>

\* The container is killed: by a fault, or, with backoffLimit 0, by the Job
\* controller once another pod of the Job has failed.
KillWorker(w) ==
    /\ Running(w)
    /\ \/ "crash" \in Faults
       \/ MaxRestarts = 0 /\ \E v \in Worker : pc[v] = "failed"
    /\ Leave(w, "failed")
    /\ UNCHANGED <<restarts, dials, regErr, startedBy>>

\* restartPolicy OnFailure: the same index starts from the beginning.
RestartWorker(w) ==
    /\ pc[w] = "failed"
    /\ restarts[w] < MaxRestarts
    /\ restarts' = [restarts EXCEPT ![w] = @ + 1]
    /\ pc' = [pc EXCEPT ![w] = "dial"]
    /\ dials' = [dials EXCEPT ![w] = 0]
    /\ regErr' = [regErr EXCEPT ![w] = FALSE]
    /\ startedBy' = [startedBy EXCEPT ![w] = "none"]
    /\ UNCHANGED <<conn, startQueue>>

\* What the worker's own process and its timer do.
WorkerStep(w) ==
    \/ PublishRegistration(w) /\ UNCHANGED <<brokerVars, consumerVars>>
    \/ /\ \/ Dial(w) \/ DialFails(w) \/ Subscribe(w) \/ InitFunc(w) \/ AmqpFails(w)
          \/ ReceiveStart(w) \/ StartTimeout(w) \/ StartChannelClosed(w)
          \/ FinishBench(w)
       /\ UNCHANGED <<brokerVars, registrations, published, consumerVars>>

\* What kubelet and the Job controller do to it.
PodEvent(w) ==
    /\ KillWorker(w) \/ RestartWorker(w)
    /\ UNCHANGED <<brokerVars, registrations, published, consumerVars>>

-----------------------------------------------------------------------------
(* The consumer.                                                           *)

\* main dials once; a failure is fatal.
ConsumerDial ==
    /\ cpc = "dial"
    /\ cpc' = IF brokerUp THEN "consume" ELSE "exit1"
    /\ cconn' = brokerUp
    /\ UNCHANGED <<registrations, regCount, errCount, numRegistered, counted, broadcast>>

\* Declare "registrations" and consume from it.  When the connection is
\* gone SyncRegistrations fails, and so does the deferred conn.Close, whose
\* result replaces the error.
ConsumerConsume ==
    /\ cpc = "consume"
    /\ cpc' = IF cconn THEN "receive" ELSE "exit1"
    /\ UNCHANGED <<registrations, cconn, regCount, errCount, numRegistered, counted, broadcast>>

\* Mutant: failed registrations are not subtracted.
EndOfRegistrations_AllOk(reg, err) ==
    IF err = NumWorkers
    THEN /\ cpc' = "exit1"
         /\ cconn' = FALSE
         /\ UNCHANGED numRegistered
    ELSE /\ cpc' = "broadcast"
         /\ numRegistered' = reg
         /\ UNCHANGED cconn

\* The end of waitForRegistrations, after its loop.
EndOfRegistrations(reg, err) ==
    IF err = NumWorkers
    THEN /\ cpc' = "exit1"
         /\ cconn' = FALSE
         /\ UNCHANGED numRegistered
    ELSE /\ cpc' = "broadcast"
         /\ numRegistered' = reg - err
         /\ UNCHANGED cconn

\* Mutant: deliveries are not acknowledged, so the broker delivers again.
ReceiveRegistration_NoAck ==
    /\ cpc = "receive"
    /\ cconn
    /\ \E m \in registrations :
          LET reg == regCount + 1
              err == errCount + (IF m.err THEN 1 ELSE 0)
          IN  /\ counted' = counted \cup {m}
              /\ regCount' = reg
              /\ errCount' = err
              /\ IF reg = NumWorkers
                 THEN EndOfRegistrations(reg, err)
                 ELSE UNCHANGED <<cpc, cconn, numRegistered>>
    /\ UNCHANGED <<registrations, broadcast>>

\* Mutant: only successful registrations count towards the expected number.
ReceiveRegistration_OkOnly ==
    /\ cpc = "receive"
    /\ cconn
    /\ \E m \in registrations :
          LET reg == regCount + 1
              err == errCount + (IF m.err THEN 1 ELSE 0)
          IN  /\ registrations' = registrations \ {m}
              /\ counted' = counted \cup {m}
              /\ regCount' = reg
              /\ errCount' = err
              /\ IF reg - err = NumWorkers
                 THEN EndOfRegistrations(reg, err)
                 ELSE UNCHANGED <<cpc, cconn, numRegistered>>
    /\ UNCHANGED broadcast

\* One iteration of waitForRegistrations.
ReceiveRegistration ==
    /\ cpc = "receive"
    /\ cconn
    /\ \E m \in registrations :
          LET reg == regCount + 1
              err == errCount + (IF m.err THEN 1 ELSE 0)
          IN  /\ registrations' = registrations \ {m}
              /\ counted' = counted \cup {m}
              /\ regCount' = reg
              /\ errCount' = err
              /\ IF reg = NumWorkers
                 THEN EndOfRegistrations(reg, err)
                 ELSE UNCHANGED <<cpc, cconn, numRegistered>>
    /\ UNCHANGED broadcast

\* The delivery channel is closed with the connection: the range ends early.
DeliveryClosed ==
    /\ cpc = "receive"
    /\ ~cconn
    /\ EndOfRegistrations(regCount, errCount)
    /\ UNCHANGED <<registrations, regCount, errCount, counted, broadcast>>

\* Mutant: the consumer publishes on a fresh connection when its own is gone.
BroadcastStart_Redial ==
    /\ cpc = "broadcast"
    /\ brokerUp
    /\ startQueue' = [w \in Worker |-> IF startQueue[w] = "bound" THEN "start" ELSE startQueue[w]]
    /\ broadcast' = TRUE
    /\ cpc' = "close"
    /\ UNCHANGED <<cconn, regCount, errCount, numRegistered, counted>>
    /\ UNCHANGED <<pc, restarts, dials, conn, regErr, startedBy, registrations>>

\* The start command reaches every queue bound at that moment.
BroadcastStart ==
    /\ cpc = "broadcast"
    /\ cconn
    /\ startQueue' = [w \in Worker |-> IF startQueue[w] = "bound" THEN "start" ELSE startQueue[w]]
    /\ broadcast' = TRUE
    /\ cpc' = "close"
    /\ UNCHANGED <<cconn, regCount, errCount, numRegistered, counted>>
    /\ UNCHANGED <<pc, restarts, dials, conn, regErr, startedBy, registrations>>

BroadcastFails ==
    /\ cpc = "broadcast"
    /\ ~cconn
    /\ cpc' = "exit1"
    /\ UNCHANGED <<registrations, cconn, regCount, errCount, numRegistered, counted, broadcast>>

\* The deferred conn.Close decides the exit status.
ConsumerClose ==
    /\ cpc = "close"
    /\ cpc' = IF cconn THEN "exit0" ELSE "exit1"
    /\ cconn' = FALSE
    /\ UNCHANGED <<registrations, regCount, errCount, numRegistered, counted, broadcast>>

ConsumerStep ==
    /\ \/ BroadcastStart
       \/ /\ \/ ConsumerDial \/ ConsumerConsume \/ ReceiveRegistration
             \/ DeliveryClosed \/ BroadcastFails \/ ConsumerClose
          /\ UNCHANGED workerVars
    /\ UNCHANGED <<brokerVars, published>>

\* The consumer's pod dies; backoffLimit 0 and restartPolicy Never keep it so.
KillConsumer ==
    /\ "crash" \in Faults
    /\ cpc \notin {"exit0", "exit1"}
    /\ cpc' = "exit1"
    /\ cconn' = FALSE
    /\ UNCHANGED <<workerVars, brokerVars, registrations, published>>
    /\ UNCHANGED <<regCount, errCount, numRegistered, counted, broadcast>>

-----------------------------------------------------------------------------
(* The broker: no queue is durable and persistence is off.                 *)

BrokerCrash ==
    /\ "broker" \in Faults
    /\ brokerUp
    /\ brokerCrashes < MaxBrokerCrashes
    /\ brokerUp' = FALSE
    /\ brokerCrashes' = brokerCrashes + 1
    /\ registrations' = {}
    /\ conn' = [w \in Worker |-> FALSE]
    /\ startQueue' = [w \in Worker |-> "none"]
    /\ cconn' = FALSE
    /\ UNCHANGED <<pc, restarts, dials, regErr, startedBy, published>>
    /\ UNCHANGED <<cpc, regCount, errCount, numRegistered, counted, broadcast>>

BrokerRecover ==
    /\ ~brokerUp
    /\ brokerUp' = TRUE
    /\ UNCHANGED <<workerVars, brokerCrashes, registrations, published, consumerVars>>

\* Every pod has ended and nothing restarts it: the benchmark is over.
Finished ==
    /\ \A w \in Worker : pc[w] = "done" \/ (pc[w] = "failed" /\ restarts[w] = MaxRestarts)
    /\ cpc \in {"exit0", "exit1"}
    /\ UNCHANGED vars

Next ==
    \/ \E w \in Worker : WorkerStep(w) \/ PodEvent(w)
    \/ ConsumerStep \/ KillConsumer
    \/ BrokerCrash \/ BrokerRecover
    \/ Finished

Safety == Init /\ [][Next]_vars

\* Processes are scheduled, the timer of a waiting worker fires, a failed
\* container is restarted while its policy allows it, and the StatefulSet
\* brings the broker back.  No fault has to happen.
Fairness ==
    /\ \A w \in Worker : WF_vars(WorkerStep(w))
    /\ \A w \in Worker : WF_vars(RestartWorker(w) /\ PodEvent(w))
    /\ WF_vars(ConsumerStep)
    /\ WF_vars(BrokerRecover)

Spec == Safety /\ Fairness

-----------------------------------------------------------------------------
(* Properties.                                                             *)

\* Type correctness of the barrier's state: the dial loop of NewWorker stops
\* at its limit, the consumer's counters stay within the expected number.
TypeOK ==
    /\ pc \in [Worker -> WorkerPc]
    /\ restarts \in [Worker -> 0..MaxRestarts]
    /\ dials \in [Worker -> 0..MaxDials]
    /\ conn \in [Worker -> BOOLEAN]
    /\ regErr \in [Worker -> BOOLEAN]
    /\ startQueue \in [Worker -> {"none", "bound", "start"}]
    /\ startedBy \in [Worker -> {"none", "start", "timeout", "closed"}]
    /\ brokerUp \in BOOLEAN
    /\ brokerCrashes \in 0..MaxBrokerCrashes
    /\ registrations \subseteq Registration
    /\ published \subseteq Registration
    /\ cpc \in ConsumerPc
    /\ cconn \in BOOLEAN
    /\ regCount \in 0..NumWorkers
    /\ errCount \in 0..NumWorkers
    /\ numRegistered \in 0..NumWorkers
    /\ counted \subseteq Registration
    /\ broadcast \in BOOLEAN

HasPublished(w) == \E m \in published : m.worker = w

\* The barrier: a worker that begins because of the start command does so
\* only after every worker of the Job has published its registration (the
\* consumer broadcasts once numWorkers registrations are in).  It holds as
\* long as no container was restarted: the registration of a restarted worker
\* stands in for one that has not come.
Barrier ==
    (\A w \in Worker : restarts[w] = 0) =>
        \A w \in Worker : startedBy[w] = "start" => \A v \in Worker : HasPublished(v)

\* No start command is missed: Register binds its queue before it publishes,
\* so a waiting worker whose registration was counted has the command in its
\* queue as soon as it is broadcast, unless the broker lost the connection.
StartReachesRegistered ==
    \A w \in Worker :
        (/\ broadcast
         /\ pc[w] = "waiting"
         /\ conn[w]
         /\ [worker |-> w, incarnation |-> restarts[w], err |-> FALSE] \in counted)
        => startQueue[w] = "start"

\* waitForRegistrations counts each registration once and splits them into
\* failures and successes; what it returns, regCount - errCount, is the
\* number of successful registrations counted and never wraps around.
RegistrationAccounting ==
    /\ regCount = Cardinality(counted)
    /\ errCount = Cardinality({m \in counted : m.err})
    /\ counted \cap registrations = {}
    /\ cpc \in {"close", "exit0"} =>
           numRegistered = Cardinality({m \in counted : ~m.err})

\* The start command is broadcast only after the expected number of
\* registrations: the loop of waitForRegistrations also ends when its
\* delivery channel closes, but the Publish that follows then fails.  And
\* exit status 0 of the consumer means that the start command went out.
NoEarlyStart ==
    /\ broadcast => regCount = NumWorkers
    /\ cpc = "exit0" => broadcast

\* A worker begins its operations on a command of the consumer or when its
\* start timer has fired, as the comment of Register says.
StartNeedsSignal ==
    \A w \in Worker : startedBy[w] \in {"none", "timeout"} \/ broadcast

\* Every container ends: nobody waits for a start command for ever, thanks
\* to startTimeout, whatever the consumer and the broker do.
BenchmarkEnds ==
    <>[](\A w \in Worker : ~Running(w))

\* The consumer comes to the end of waitForRegistrations and exits, through
\* failed registrations, kills and restarts, unless a registration is lost
\* with the broker or a worker ended for good without having sent one.
ConsumerDecides ==
    <>(\/ cpc \in {"exit0", "exit1"}
       \/ brokerCrashes > 0
       \/ \E w \in Worker : pc[w] = "failed" /\ restarts[w] = MaxRestarts /\ ~HasPublished(w))

\* How the barrier implements the gate: a container arrives when it publishes.
Gate == INSTANCE StartGate WITH
    Attempt <- 0..MaxRestarts,
    arrived <- {<<m.worker, m.incarnation>> : m \in published},
    open    <- broadcast,
    passed  <- [w \in Worker |-> CASE startedBy[w] = "none"  -> "no"
                                   [] startedBy[w] = "start" -> "signalled"
                                   [] OTHER                  -> "alone"]

\* The workers, the consumer and the broker together implement the gate: the
\* start command opens it for as many arrivals as there are workers, through
\* restarts, lost registrations and lost connections.
ImplementsGate == Gate!GateSpec
=============================================================================
