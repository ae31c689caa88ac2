------------------------- MODULE StartBarrierProofs -------------------------
(***************************************************************************)
(* The start barrier, proved for every set of workers, every bound and     *)
(* every combination of faults.                                            *)
(***************************************************************************)
EXTENDS StartBarrier, FiniteSetTheorems, TLAPS

-----------------------------------------------------------------------------
(* The inductive invariant, in named parts.                                *)

\* The loops are within their limits.
LoopInv ==
    /\ \A w \in Worker : pc[w] = "dial" => dials[w] < MaxDials
    /\ cpc \in {"dial", "consume", "receive"} => regCount < NumWorkers
    /\ errCount <= regCount

\* A container publishes once: a registration names its sender's current
\* incarnation or an earlier one, and only an earlier one as long as the
\* current incarnation has not come to its Publish.
PublishInv ==
    /\ \A m \in published : m.incarnation <= restarts[m.worker]
    /\ \A m \in published :
          pc[m.worker] \in {"dial", "subscribe", "init", "publish"}
              => m.incarnation < restarts[m.worker]
    /\ \A m1, m2 \in published :
          m1.worker = m2.worker /\ m1.incarnation = m2.incarnation => m1 = m2

\* The broker neither invents nor repeats a registration, and the consumer's
\* counters are the sizes of what it took from the queue.
CountInv ==
    /\ registrations \subseteq published
    /\ counted \subseteq published
    /\ counted \cap registrations = {}
    /\ IsFiniteSet(counted)
    /\ regCount = Cardinality(counted)
    /\ errCount = Cardinality({m \in counted : m.err})
    /\ cpc \in {"broadcast", "close", "exit0"} => numRegistered = regCount - errCount

\* A live connection after the count means that the count was complete.
BroadcastInv ==
    /\ cpc = "broadcast" /\ cconn => regCount = NumWorkers
    /\ broadcast => regCount = NumWorkers /\ cpc \in {"close", "exit0", "exit1"}
    /\ cpc \in {"close", "exit0"} => broadcast

\* Start commands come from the broadcast, and reach whoever is subscribed.
StartInv ==
    /\ \A w \in Worker : startQueue[w] = "start" \/ startedBy[w] = "start" => broadcast
    /\ \A w \in Worker :
          pc[w] \in {"init", "publish", "waiting"} /\ conn[w] => startQueue[w] # "none"
    /\ StartReachesRegistered

\* A worker waits after its Publish and begins after its wait.
WaitInv ==
    /\ \A w \in Worker : pc[w] = "waiting" => HasPublished(w)
    /\ \A w \in Worker :
          pc[w] \in {"dial", "subscribe", "init", "publish", "waiting"} => startedBy[w] = "none"

IndInv ==
    /\ TypeOK /\ LoopInv /\ PublishInv /\ CountInv
    /\ BroadcastInv /\ StartInv /\ WaitInv

-----------------------------------------------------------------------------
\* numWorkers is a positive number.
LEMMA NumWorkersPositive == NumWorkers \in Nat \ {0}
  BY WorkerAssumption, FS_CardinalityType, FS_EmptySet DEF NumWorkers

\* Every step keeps the types, the dial limit and the limits of the counters.
LEMMA TypeStep ==
    TypeOK /\ LoopInv /\ [Next]_vars => TypeOK' /\ LoopInv'
<1> SUFFICES ASSUME TypeOK, LoopInv, [Next]_vars
             PROVE  TypeOK' /\ LoopInv'
  OBVIOUS
<1>1. ASSUME NEW w \in Worker, Dial(w), UNCHANGED <<brokerVars, registrations, published, consumerVars>>
      PROVE  TypeOK' /\ LoopInv'
  BY <1>1, NumWorkersPositive, BoundAssumption
  DEF Dial, brokerVars, consumerVars, TypeOK, LoopInv, WorkerPc, ConsumerPc
<1>2. ASSUME NEW w \in Worker, DialFails(w), UNCHANGED <<brokerVars, registrations, published, consumerVars>>
      PROVE  TypeOK' /\ LoopInv'
  BY <1>2, NumWorkersPositive, BoundAssumption
  DEF DialFails, brokerVars, consumerVars, TypeOK, LoopInv, WorkerPc, ConsumerPc
<1>3. ASSUME NEW w \in Worker, Subscribe(w), UNCHANGED <<brokerVars, registrations, published, consumerVars>>
      PROVE  TypeOK' /\ LoopInv'
  BY <1>3, NumWorkersPositive, BoundAssumption
  DEF Subscribe, brokerVars, consumerVars, TypeOK, LoopInv, WorkerPc, ConsumerPc
<1>4. ASSUME NEW w \in Worker, InitFunc(w), UNCHANGED <<brokerVars, registrations, published, consumerVars>>
      PROVE  TypeOK' /\ LoopInv'
  BY <1>4, NumWorkersPositive, BoundAssumption
  DEF InitFunc, Leave, InitOutcomes, brokerVars, consumerVars, TypeOK, LoopInv, WorkerPc, ConsumerPc
<1>5. ASSUME NEW w \in Worker, AmqpFails(w), UNCHANGED <<brokerVars, registrations, published, consumerVars>>
      PROVE  TypeOK' /\ LoopInv'
  BY <1>5, NumWorkersPositive, BoundAssumption
  DEF AmqpFails, Leave, brokerVars, consumerVars, TypeOK, LoopInv, WorkerPc, ConsumerPc
<1>6. ASSUME NEW w \in Worker, ReceiveStart(w), UNCHANGED <<brokerVars, registrations, published, consumerVars>>
      PROVE  TypeOK' /\ LoopInv'
  BY <1>6, NumWorkersPositive, BoundAssumption
  DEF ReceiveStart, Begin, brokerVars, consumerVars, TypeOK, LoopInv, WorkerPc, ConsumerPc
<1>7. ASSUME NEW w \in Worker, StartTimeout(w), UNCHANGED <<brokerVars, registrations, published, consumerVars>>
      PROVE  TypeOK' /\ LoopInv'
  BY <1>7, NumWorkersPositive, BoundAssumption
  DEF StartTimeout, Begin, brokerVars, consumerVars, TypeOK, LoopInv, WorkerPc, ConsumerPc
<1>8. ASSUME NEW w \in Worker, StartChannelClosed(w), UNCHANGED <<brokerVars, registrations, published, consumerVars>>
      PROVE  TypeOK' /\ LoopInv'
  BY <1>8, NumWorkersPositive, BoundAssumption
  DEF StartChannelClosed, Begin, brokerVars, consumerVars, TypeOK, LoopInv, WorkerPc, ConsumerPc
<1>9. ASSUME NEW w \in Worker, FinishBench(w), UNCHANGED <<brokerVars, registrations, published, consumerVars>>
      PROVE  TypeOK' /\ LoopInv'
  BY <1>9, NumWorkersPositive, BoundAssumption
  DEF FinishBench, Leave, brokerVars, consumerVars, TypeOK, LoopInv, WorkerPc, ConsumerPc
<1>10. ASSUME NEW w \in Worker, KillWorker(w), UNCHANGED <<brokerVars, registrations, published, consumerVars>>
      PROVE  TypeOK' /\ LoopInv'
  BY <1>10, NumWorkersPositive, BoundAssumption
  DEF KillWorker, Leave, Running, brokerVars, consumerVars, TypeOK, LoopInv, WorkerPc, ConsumerPc
<1>11. ASSUME NEW w \in Worker, RestartWorker(w), UNCHANGED <<brokerVars, registrations, published, consumerVars>>
      PROVE  TypeOK' /\ LoopInv'
  BY <1>11, NumWorkersPositive, BoundAssumption
  DEF RestartWorker, brokerVars, consumerVars, TypeOK, LoopInv, WorkerPc, ConsumerPc
<1>12. ASSUME NEW w \in Worker, PublishRegistration(w), UNCHANGED <<brokerVars, consumerVars>>
      PROVE  TypeOK' /\ LoopInv'
  <2> DEFINE m == [worker |-> w, incarnation |-> restarts[w], err |-> regErr[w]]
  <2>1. m \in Registration
    BY DEF TypeOK, Registration
  <2>2. registrations' \subseteq Registration /\ published' \subseteq Registration
    BY <1>12, <2>1 DEF PublishRegistration, TypeOK
  <2>3. /\ pc' \in [Worker -> WorkerPc]
        /\ conn' \in [Worker -> BOOLEAN]
        /\ startQueue' \in [Worker -> {"none", "bound", "start"}]
        /\ \A v \in Worker : pc'[v] = "dial" => pc[v] = "dial"
    BY <1>12 DEF PublishRegistration, Leave, TypeOK, WorkerPc
  <2> QED
    BY <1>12, <2>2, <2>3 DEF PublishRegistration, brokerVars, consumerVars, TypeOK, LoopInv
<1>13. ASSUME ConsumerDial, UNCHANGED <<workerVars, brokerVars, published>>
      PROVE  TypeOK' /\ LoopInv'
  BY <1>13, NumWorkersPositive, BoundAssumption
  DEF ConsumerDial, workerVars, brokerVars, TypeOK, LoopInv, WorkerPc, ConsumerPc
<1>14. ASSUME ConsumerConsume, UNCHANGED <<workerVars, brokerVars, published>>
      PROVE  TypeOK' /\ LoopInv'
  BY <1>14, NumWorkersPositive, BoundAssumption
  DEF ConsumerConsume, workerVars, brokerVars, TypeOK, LoopInv, WorkerPc, ConsumerPc
<1>15. ASSUME ReceiveRegistration, UNCHANGED <<workerVars, brokerVars, published>>
      PROVE  TypeOK' /\ LoopInv'
  <2> DEFINE err(m) == errCount + (IF m.err THEN 1 ELSE 0)
  <2>1. PICK m \in registrations :
            /\ registrations' = registrations \ {m}
            /\ counted' = counted \cup {m}
            /\ regCount' = regCount + 1
            /\ errCount' = err(m)
            /\ IF regCount + 1 = NumWorkers
               THEN EndOfRegistrations(regCount + 1, err(m))
               ELSE UNCHANGED <<cpc, cconn, numRegistered>>
    BY <1>15 DEF ReceiveRegistration
  <2>2. /\ registrations' \subseteq Registration
        /\ counted' \subseteq Registration
    BY <2>1 DEF TypeOK
  <2>3. /\ regCount' \in 0..NumWorkers
        /\ errCount' \in 0..NumWorkers
        /\ errCount' <= regCount'
        /\ cpc = "receive" /\ cconn
        /\ regCount + 1 # NumWorkers => regCount' < NumWorkers
    BY <1>15, <2>1, NumWorkersPositive DEF ReceiveRegistration, TypeOK, LoopInv
  <2>4. CASE regCount + 1 = NumWorkers
    <3>1. EndOfRegistrations(regCount + 1, err(m))
      BY <2>1, <2>4
    <3>2. /\ cpc' \in {"exit1", "broadcast"}
          /\ cconn' \in BOOLEAN
      BY <3>1 DEF EndOfRegistrations, TypeOK
    <3>3. numRegistered' = numRegistered \/ numRegistered' = regCount' - errCount'
      BY <2>1, <3>1 DEF EndOfRegistrations
    <3>4. numRegistered' \in 0..NumWorkers
      BY <2>3, <3>3, NumWorkersPositive DEF TypeOK
    <3> QED
      BY <1>15, <2>2, <2>3, <3>2, <3>4
      DEF ReceiveRegistration, workerVars, brokerVars, TypeOK, LoopInv, ConsumerPc
  <2>5. CASE regCount + 1 # NumWorkers
    BY <1>15, <2>1, <2>2, <2>3, <2>5
    DEF ReceiveRegistration, workerVars, brokerVars, TypeOK, LoopInv
  <2> QED
    BY <2>4, <2>5
<1>16. ASSUME DeliveryClosed, UNCHANGED <<workerVars, brokerVars, published>>
      PROVE  TypeOK' /\ LoopInv'
  BY <1>16, NumWorkersPositive, BoundAssumption
  DEF DeliveryClosed, EndOfRegistrations, workerVars, brokerVars, TypeOK, LoopInv, WorkerPc, ConsumerPc
<1>17. ASSUME BroadcastFails, UNCHANGED <<workerVars, brokerVars, published>>
      PROVE  TypeOK' /\ LoopInv'
  BY <1>17, NumWorkersPositive, BoundAssumption
  DEF BroadcastFails, workerVars, brokerVars, TypeOK, LoopInv, WorkerPc, ConsumerPc
<1>18. ASSUME ConsumerClose, UNCHANGED <<workerVars, brokerVars, published>>
      PROVE  TypeOK' /\ LoopInv'
  BY <1>18, NumWorkersPositive, BoundAssumption
  DEF ConsumerClose, workerVars, brokerVars, TypeOK, LoopInv, WorkerPc, ConsumerPc
<1>19. ASSUME BroadcastStart, UNCHANGED <<brokerVars, published>>
      PROVE  TypeOK' /\ LoopInv'
  BY <1>19, NumWorkersPositive, BoundAssumption
  DEF BroadcastStart, brokerVars, TypeOK, LoopInv, WorkerPc, ConsumerPc
<1>20. ASSUME KillConsumer
      PROVE  TypeOK' /\ LoopInv'
  BY <1>20, NumWorkersPositive, BoundAssumption
  DEF KillConsumer, workerVars, brokerVars, TypeOK, LoopInv, WorkerPc, ConsumerPc
<1>21. ASSUME BrokerCrash
      PROVE  TypeOK' /\ LoopInv'
  <2>0. /\ brokerCrashes \in 0..MaxBrokerCrashes
        /\ brokerCrashes < MaxBrokerCrashes
        /\ brokerCrashes' = brokerCrashes + 1
        /\ brokerUp' \in BOOLEAN
    BY <1>21 DEF BrokerCrash, TypeOK
  <2>1. brokerCrashes' \in 0..MaxBrokerCrashes
    BY <2>0, BoundAssumption
  <2>2. /\ registrations' \subseteq Registration
        /\ conn' \in [Worker -> BOOLEAN]
        /\ startQueue' \in [Worker -> {"none", "bound", "start"}]
        /\ cconn' \in BOOLEAN
    BY <1>21 DEF BrokerCrash
  <2> QED
    BY <1>21, <2>0, <2>1, <2>2 DEF BrokerCrash, TypeOK, LoopInv
<1>22. ASSUME BrokerRecover
      PROVE  TypeOK' /\ LoopInv'
  BY <1>22, NumWorkersPositive, BoundAssumption
  DEF BrokerRecover, workerVars, consumerVars, TypeOK, LoopInv, WorkerPc, ConsumerPc
<1>23. ASSUME UNCHANGED vars
      PROVE  TypeOK' /\ LoopInv'
  BY <1>23, NumWorkersPositive, BoundAssumption
  DEF vars, workerVars, brokerVars, consumerVars, TypeOK, LoopInv, WorkerPc, ConsumerPc
<1> QED
  BY <1>1, <1>2, <1>3, <1>4, <1>5, <1>6, <1>7, <1>8, <1>9, <1>10, <1>11, <1>12, <1>13, <1>14, <1>15, <1>16, <1>17, <1>18, <1>19, <1>20, <1>21, <1>22, <1>23
  DEF Next, WorkerStep, PodEvent, ConsumerStep, Finished

-----------------------------------------------------------------------------
\* The steps of a container other than its Publish and its restart leave the
\* published registrations alone and never lead back before the Publish.
LEMMA ContainerStep ==
    ASSUME TypeOK, NEW w \in Worker,
           \/ Dial(w) \/ DialFails(w) \/ Subscribe(w) \/ InitFunc(w) \/ AmqpFails(w)
           \/ ReceiveStart(w) \/ StartTimeout(w) \/ StartChannelClosed(w)
           \/ FinishBench(w) \/ KillWorker(w)
    PROVE  /\ restarts' = restarts
           /\ \A v \in Worker \ {w} : pc'[v] = pc[v]
           /\ pc'[w] \in {"dial", "subscribe", "init", "publish"}
                  => pc[w] \in {"dial", "subscribe", "init", "publish"}
           /\ pc'[w] # "waiting"
  BY DEF TypeOK, Dial, DialFails, Subscribe, InitFunc, InitOutcomes, AmqpFails, ReceiveStart,
         StartTimeout, StartChannelClosed, Begin, FinishBench, KillWorker, Leave, Running

\* Every step keeps registrations unique per container.
LEMMA PublishStep ==
    TypeOK /\ PublishInv /\ [Next]_vars => PublishInv'
<1> SUFFICES ASSUME TypeOK, PublishInv, [Next]_vars
             PROVE  PublishInv'
  OBVIOUS
<1>0. \A m \in published : m.worker \in Worker /\ m.incarnation \in Nat
  BY BoundAssumption DEF TypeOK, Registration
<1>1. ASSUME NEW w \in Worker, published' = published,
             \/ Dial(w) \/ DialFails(w) \/ Subscribe(w) \/ InitFunc(w) \/ AmqpFails(w)
             \/ ReceiveStart(w) \/ StartTimeout(w) \/ StartChannelClosed(w)
             \/ FinishBench(w) \/ KillWorker(w)
      PROVE  PublishInv'
  <2>1. /\ restarts' = restarts
        /\ \A v \in Worker :
              pc'[v] \in {"dial", "subscribe", "init", "publish"}
                  => pc[v] \in {"dial", "subscribe", "init", "publish"}
    BY <1>1, ContainerStep
  <2> QED
    BY <1>0, <1>1, <2>1 DEF PublishInv
<1>2. ASSUME NEW w \in Worker, RestartWorker(w), published' = published
      PROVE  PublishInv'
  <2>1. /\ restarts'[w] = restarts[w] + 1
        /\ \A v \in Worker \ {w} : restarts'[v] = restarts[v] /\ pc'[v] = pc[v]
        /\ restarts[w] \in Nat
    BY <1>2, BoundAssumption DEF RestartWorker, TypeOK
  <2>2. \A m \in published :
            IF m.worker = w THEN m.incarnation < restarts'[m.worker]
                            ELSE /\ restarts'[m.worker] = restarts[m.worker]
                                 /\ pc'[m.worker] = pc[m.worker]
    BY <1>0, <2>1 DEF PublishInv
  <2>3. \A m \in published : m.worker = w => m.incarnation <= restarts'[m.worker]
    BY <1>0, <2>1, <2>2
  <2> QED
    BY <1>2, <2>2, <2>3 DEF PublishInv
<1>3. ASSUME NEW w \in Worker, PublishRegistration(w)
      PROVE  PublishInv'
  <2> DEFINE m0 == [worker |-> w, incarnation |-> restarts[w], err |-> regErr[w]]
  <2>1. /\ published' = published \cup {m0}
        /\ restarts' = restarts
        /\ pc[w] = "publish"
        /\ restarts[w] \in Nat
        /\ \A v \in Worker \ {w} : pc'[v] = pc[v]
        /\ pc'[w] \notin {"dial", "subscribe", "init", "publish"}
    BY <1>3, BoundAssumption DEF PublishRegistration, Leave, TypeOK
  <2>2. \A m \in published : m.worker = w => m.incarnation < restarts[w]
    BY <2>1 DEF PublishInv
  <2>3. \A m \in published : m.worker = w => m.incarnation # restarts[w]
    BY <1>0, <2>1, <2>2
  <2>4. /\ m0.worker = w
        /\ m0.incarnation = restarts[w]
    OBVIOUS
  <2> HIDE DEF m0
  <2>5. \A m \in published' : m.incarnation <= restarts'[m.worker]
    BY <2>1, <2>4 DEF PublishInv
  <2>6. \A m \in published' :
            pc'[m.worker] \in {"dial", "subscribe", "init", "publish"}
                => m.incarnation < restarts'[m.worker]
    BY <1>0, <2>1, <2>4 DEF PublishInv
  <2>7. \A m1, m2 \in published' :
            m1.worker = m2.worker /\ m1.incarnation = m2.incarnation => m1 = m2
    BY <2>1, <2>3, <2>4 DEF PublishInv
  <2> QED
    BY <2>5, <2>6, <2>7 DEF PublishInv
<1>4. ASSUME UNCHANGED <<pc, restarts, published>>
      PROVE  PublishInv'
  BY <1>4 DEF PublishInv
<1>5. ASSUME ConsumerStep \/ KillConsumer \/ BrokerCrash \/ BrokerRecover \/ UNCHANGED vars
      PROVE  UNCHANGED <<pc, restarts, published>>
  BY <1>5 DEF ConsumerStep, ConsumerDial, ConsumerConsume, ReceiveRegistration, DeliveryClosed,
              BroadcastStart, BroadcastFails, ConsumerClose, KillConsumer, BrokerCrash,
              BrokerRecover, vars, workerVars
<1> QED
  BY <1>1, <1>2, <1>3, <1>4, <1>5 DEF Next, WorkerStep, PodEvent, Finished

\* Every step keeps the consumer's counters equal to what it took from the queue.
LEMMA CountStep ==
    TypeOK /\ LoopInv /\ PublishInv /\ CountInv /\ [Next]_vars => CountInv'
<1> SUFFICES ASSUME TypeOK, LoopInv, PublishInv, CountInv, [Next]_vars
             PROVE  CountInv'
  OBVIOUS
<1>1. ASSUME NEW w \in Worker, PublishRegistration(w), UNCHANGED <<brokerVars, consumerVars>>
      PROVE  CountInv'
  <2> DEFINE m0 == [worker |-> w, incarnation |-> restarts[w], err |-> regErr[w]]
  <2>1. /\ published' = published \cup {m0}
        /\ registrations' = registrations \cup {m0}
        /\ pc[w] = "publish"
        /\ restarts[w] \in Nat
        /\ UNCHANGED <<cpc, regCount, errCount, numRegistered, counted>>
    BY <1>1, BoundAssumption DEF PublishRegistration, TypeOK, consumerVars
  <2>2. m0 \notin published
    <3>1. \A m \in published : m.worker = w => m.incarnation < restarts[w]
      BY <2>1 DEF PublishInv
    <3>2. m0.worker = w /\ m0.incarnation = restarts[w]
      OBVIOUS
    <3> QED
      BY <2>1, <3>1, <3>2
  <2> HIDE DEF m0
  <2> QED
    BY <2>1, <2>2 DEF CountInv
<1>2. ASSUME ReceiveRegistration, UNCHANGED published
      PROVE  CountInv'
  <2> DEFINE err(m) == errCount + (IF m.err THEN 1 ELSE 0)
  <2>1. PICK m \in registrations :
            /\ registrations' = registrations \ {m}
            /\ counted' = counted \cup {m}
            /\ regCount' = regCount + 1
            /\ errCount' = err(m)
            /\ IF regCount + 1 = NumWorkers
               THEN EndOfRegistrations(regCount + 1, err(m))
               ELSE UNCHANGED <<cpc, cconn, numRegistered>>
    BY <1>2 DEF ReceiveRegistration
  <2>2. m \notin counted /\ m.err \in BOOLEAN
    BY <2>1 DEF CountInv, TypeOK, Registration
  <2>3. /\ IsFiniteSet(counted')
        /\ Cardinality(counted') = Cardinality(counted) + 1
    BY <2>1, <2>2, FS_AddElement DEF CountInv
  <2>4. errCount' = Cardinality({x \in counted' : x.err})
    <3> DEFINE E == {x \in counted : x.err}
    <3>1. IsFiniteSet(E) /\ m \notin E
      BY <2>2, FS_Subset DEF CountInv
    <3>2. CASE m.err
      <4>1. {x \in counted' : x.err} = E \cup {m}
        BY <2>1, <3>2
      <4> QED
        BY <2>1, <3>1, <3>2, <4>1, FS_AddElement DEF CountInv
    <3>3. CASE ~m.err
      <4>1. {x \in counted' : x.err} = E
        BY <2>1, <3>3
      <4>2. errCount' = errCount
        BY <2>1, <3>3 DEF TypeOK
      <4> QED
        BY <4>1, <4>2 DEF CountInv
    <3> QED
      BY <3>2, <3>3
  <2>5. cpc' \in {"broadcast", "close", "exit0"} => numRegistered' = regCount' - errCount'
    BY <1>2, <2>1 DEF ReceiveRegistration, EndOfRegistrations
  <2>6. /\ registrations' \subseteq published'
        /\ counted' \subseteq published'
        /\ counted' \cap registrations' = {}
    BY <1>2, <2>1 DEF CountInv
  <2>7. regCount' = Cardinality(counted')
    BY <2>1, <2>3 DEF CountInv
  <2> QED
    BY <2>3, <2>4, <2>5, <2>6, <2>7 DEF CountInv
<1>3. ASSUME BrokerCrash
      PROVE  CountInv'
  BY <1>3 DEF BrokerCrash, CountInv
<1>4. ASSUME UNCHANGED <<registrations, published, counted, regCount, errCount>>,
             \/ UNCHANGED <<cpc, numRegistered>>
             \/ DeliveryClosed
             \/ UNCHANGED numRegistered /\ cpc' \in {"dial", "consume", "receive", "exit1"}
             \/ UNCHANGED numRegistered /\ cpc \in {"broadcast", "close"}
      PROVE  CountInv'
  BY <1>4 DEF CountInv, DeliveryClosed, EndOfRegistrations
<1>5. ASSUME \/ UNCHANGED <<registrations, published, consumerVars>>
             \/ UNCHANGED vars
      PROVE  CountInv'
  BY <1>4, <1>5 DEF vars, consumerVars
<1>6. ASSUME UNCHANGED published,
             \/ ConsumerDial \/ ConsumerConsume \/ DeliveryClosed
             \/ BroadcastStart \/ BroadcastFails \/ ConsumerClose \/ KillConsumer
      PROVE  CountInv'
  BY <1>4, <1>6 DEF ConsumerDial, ConsumerConsume, DeliveryClosed, BroadcastStart,
                    BroadcastFails, ConsumerClose, KillConsumer
<1> QED
  BY <1>1, <1>2, <1>3, <1>5, <1>6
  DEF Next, WorkerStep, PodEvent, ConsumerStep, KillConsumer, BrokerRecover, Finished

\* Every step keeps the broadcast behind a complete count.
LEMMA BroadcastStep ==
    TypeOK /\ LoopInv /\ BroadcastInv /\ [Next]_vars => BroadcastInv'
<1> SUFFICES ASSUME TypeOK, LoopInv, BroadcastInv, [Next]_vars
             PROVE  BroadcastInv'
  OBVIOUS
<1>1. ASSUME \/ UNCHANGED consumerVars
             \/ UNCHANGED vars
      PROVE  BroadcastInv'
  BY <1>1 DEF vars, consumerVars, BroadcastInv
<1>2. ASSUME ConsumerStep
      PROVE  BroadcastInv'
  <2>1. CASE ReceiveRegistration
    <3>1. cpc = "receive" /\ broadcast' = broadcast
      BY <2>1 DEF ReceiveRegistration
    <3>2. ~broadcast
      BY <3>1 DEF BroadcastInv
    <3>3. \/ cpc' = "receive"
          \/ cpc' = "exit1"
          \/ cpc' = "broadcast" /\ regCount' = NumWorkers
      BY <2>1, <3>1 DEF ReceiveRegistration, EndOfRegistrations
    <3> QED
      BY <3>1, <3>2, <3>3 DEF BroadcastInv
  <2>2. CASE DeliveryClosed
    <3>1. cpc = "receive" /\ ~cconn /\ broadcast' = broadcast
      BY <2>2 DEF DeliveryClosed
    <3>2. \/ cpc' = "exit1"
          \/ cpc' = "broadcast" /\ ~cconn'
      BY <2>2, <3>1 DEF DeliveryClosed, EndOfRegistrations
    <3> QED
      BY <3>1, <3>2 DEF BroadcastInv
  <2> QED
    BY <1>2, <2>1, <2>2
    DEF ConsumerStep, ConsumerDial, ConsumerConsume, BroadcastStart, BroadcastFails,
        ConsumerClose, BroadcastInv
<1>3. ASSUME KillConsumer \/ BrokerCrash
      PROVE  BroadcastInv'
  BY <1>3 DEF KillConsumer, BrokerCrash, BroadcastInv
<1> QED
  BY <1>1, <1>2, <1>3 DEF Next, WorkerStep, PodEvent, BrokerRecover, Finished

\* Every step keeps start commands tied to the broadcast and to the bindings.
LEMMA StartStep ==
    TypeOK /\ PublishInv /\ CountInv /\ BroadcastInv /\ StartInv /\ [Next]_vars => StartInv'
<1> SUFFICES ASSUME TypeOK, PublishInv, CountInv, BroadcastInv, StartInv, [Next]_vars
             PROVE  StartInv'
  OBVIOUS
<1> DEFINE Mine(w) == [worker |-> w, incarnation |-> restarts[w], err |-> FALSE]
<1>1. ASSUME NEW w \in Worker, UNCHANGED <<broadcast, counted>>,
             \/ Dial(w) \/ DialFails(w) \/ Subscribe(w) \/ InitFunc(w) \/ AmqpFails(w)
             \/ ReceiveStart(w) \/ StartTimeout(w) \/ StartChannelClosed(w)
             \/ FinishBench(w) \/ KillWorker(w)
      PROVE  StartInv'
  <2>1. /\ \A v \in Worker \ {w} : /\ pc'[v] = pc[v] /\ conn'[v] = conn[v]
                                   /\ startQueue'[v] = startQueue[v]
                                   /\ startedBy'[v] = startedBy[v]
        /\ restarts' = restarts
        /\ pc'[w] # "waiting"
    BY <1>1 DEF TypeOK, Dial, DialFails, Subscribe, InitFunc, InitOutcomes, AmqpFails,
                ReceiveStart, StartTimeout, StartChannelClosed, Begin, FinishBench,
                KillWorker, Leave, Running
  <2>2. startQueue'[w] = "start" \/ startedBy'[w] = "start" => broadcast
    BY <1>1 DEF TypeOK, StartInv, Dial, DialFails, Subscribe, InitFunc, InitOutcomes, AmqpFails,
                ReceiveStart, StartTimeout, StartChannelClosed, Begin, FinishBench,
                KillWorker, Leave, Running
  <2>3. pc'[w] \in {"init", "publish", "waiting"} /\ conn'[w] => startQueue'[w] # "none"
    BY <1>1 DEF TypeOK, StartInv, Dial, DialFails, Subscribe, InitFunc, InitOutcomes, AmqpFails,
                ReceiveStart, StartTimeout, StartChannelClosed, Begin, FinishBench,
                KillWorker, Leave, Running
  <2> QED
    BY <1>1, <2>1, <2>2, <2>3 DEF StartInv, StartReachesRegistered
<1>2. ASSUME NEW w \in Worker, RestartWorker(w), UNCHANGED <<broadcast, counted>>
      PROVE  StartInv'
  BY <1>2 DEF RestartWorker, TypeOK, StartInv, StartReachesRegistered
<1>3. ASSUME NEW w \in Worker, PublishRegistration(w), UNCHANGED consumerVars
      PROVE  StartInv'
  <2>1. /\ \A v \in Worker \ {w} : pc'[v] = pc[v] /\ conn'[v] = conn[v]
                                   /\ startQueue'[v] = startQueue[v]
        /\ UNCHANGED <<restarts, startedBy, broadcast, counted>>
        /\ pc[w] = "publish" /\ conn[w]
        /\ \/ pc'[w] = "failed" /\ startQueue'[w] = "none"
           \/ pc'[w] = "waiting" /\ startQueue' = startQueue
    BY <1>3 DEF PublishRegistration, Leave, TypeOK, consumerVars
  <2>2. Mine(w) \notin counted
    <3>1. \A m \in published : m.worker = w => m.incarnation < restarts[w]
      BY <2>1 DEF PublishInv
    <3>2. Mine(w).worker = w /\ Mine(w).incarnation = restarts[w] /\ restarts[w] \in Nat
      BY BoundAssumption DEF TypeOK
    <3> QED
      BY <3>1, <3>2 DEF CountInv
  <2> QED
    BY <2>1, <2>2 DEF StartInv, StartReachesRegistered
<1>4. ASSUME BroadcastStart
      PROVE  StartInv'
  <2>1. /\ UNCHANGED <<pc, conn, restarts, startedBy, counted>>
        /\ broadcast'
        /\ \A v \in Worker : startQueue'[v] = IF startQueue[v] = "bound" THEN "start"
                                                                         ELSE startQueue[v]
    BY <1>4 DEF BroadcastStart
  <2>2. \A v \in Worker : startQueue[v] # "none" => startQueue'[v] = "start"
    BY <2>1 DEF TypeOK
  <2> QED
    BY <2>1, <2>2 DEF StartInv, StartReachesRegistered
<1>5. ASSUME UNCHANGED <<pc, conn, restarts, startQueue, startedBy, broadcast>>,
             counted' = counted \/ ~broadcast
      PROVE  StartInv'
  BY <1>5 DEF StartInv, StartReachesRegistered
<1>6. ASSUME ConsumerStep, ~BroadcastStart
      PROVE  StartInv'
  <2>1. UNCHANGED <<pc, conn, restarts, startQueue, startedBy, broadcast>>
    BY <1>6 DEF ConsumerStep, ConsumerDial, ConsumerConsume, ReceiveRegistration, DeliveryClosed,
                BroadcastFails, ConsumerClose, workerVars
  <2>2. counted' = counted \/ ~broadcast
    BY <1>6 DEF ConsumerStep, ConsumerDial, ConsumerConsume, ReceiveRegistration, DeliveryClosed,
                BroadcastFails, ConsumerClose, BroadcastInv
  <2> QED
    BY <1>5, <2>1, <2>2
<1>7. ASSUME KillConsumer \/ BrokerRecover \/ UNCHANGED vars
      PROVE  StartInv'
  BY <1>5, <1>7 DEF KillConsumer, BrokerRecover, vars, workerVars, consumerVars
<1>8. ASSUME BrokerCrash
      PROVE  StartInv'
  BY <1>8 DEF BrokerCrash, TypeOK, StartInv, StartReachesRegistered
<1> QED
  BY <1>1, <1>2, <1>3, <1>4, <1>6, <1>7, <1>8
  DEF Next, WorkerStep, PodEvent, ConsumerStep, Finished, consumerVars

\* Every step keeps the order Publish, wait, begin.
LEMMA WaitStep ==
    TypeOK /\ WaitInv /\ [Next]_vars => WaitInv'
<1> SUFFICES ASSUME TypeOK, WaitInv, [Next]_vars
             PROVE  WaitInv'
  OBVIOUS
<1>1. ASSUME NEW w \in Worker, published' = published,
             \/ Dial(w) \/ DialFails(w) \/ Subscribe(w) \/ InitFunc(w) \/ AmqpFails(w)
             \/ ReceiveStart(w) \/ StartTimeout(w) \/ StartChannelClosed(w)
             \/ FinishBench(w) \/ KillWorker(w) \/ RestartWorker(w)
      PROVE  WaitInv'
  BY <1>1 DEF TypeOK, WaitInv, HasPublished, Dial, DialFails, Subscribe, InitFunc, InitOutcomes,
              AmqpFails, ReceiveStart, StartTimeout, StartChannelClosed, Begin, FinishBench,
              KillWorker, RestartWorker, Leave, Running
<1>2. ASSUME NEW w \in Worker, PublishRegistration(w)
      PROVE  WaitInv'
  <2> DEFINE m0 == [worker |-> w, incarnation |-> restarts[w], err |-> regErr[w]]
  <2>1. /\ m0 \in published' /\ m0.worker = w
        /\ published \subseteq published'
        /\ startedBy' = startedBy
        /\ pc[w] = "publish"
        /\ \A v \in Worker \ {w} : pc'[v] = pc[v]
    BY <1>2 DEF PublishRegistration, Leave, TypeOK
  <2> HIDE DEF m0
  <2> QED
    BY <2>1 DEF WaitInv, HasPublished
<1>3. ASSUME ConsumerStep \/ KillConsumer \/ BrokerCrash \/ BrokerRecover \/ UNCHANGED vars
      PROVE  WaitInv'
  <2>1. UNCHANGED <<pc, startedBy, published>>
    BY <1>3 DEF ConsumerStep, ConsumerDial, ConsumerConsume, ReceiveRegistration, DeliveryClosed,
                BroadcastStart, BroadcastFails, ConsumerClose, KillConsumer, BrokerCrash,
                BrokerRecover, vars, workerVars
  <2> QED
    BY <2>1 DEF WaitInv, HasPublished
<1> QED
  BY <1>1, <1>2, <1>3 DEF Next, WorkerStep, PodEvent, Finished

-----------------------------------------------------------------------------
(* The theorems.                                                           *)

\* The invariant holds before anything has happened.
LEMMA InitInvariant == Init => IndInv
<1> SUFFICES ASSUME Init
             PROVE  IndInv
  OBVIOUS
<1>1. TypeOK /\ LoopInv
  <2>1. 0 \in 0..MaxRestarts /\ 0 \in 0..MaxDials /\ 0 \in 0..MaxBrokerCrashes
        /\ 0 \in 0..NumWorkers /\ 0 < NumWorkers /\ 0 < MaxDials /\ 0 <= 0
    BY NumWorkersPositive, BoundAssumption
  <2> QED
    BY <2>1 DEF Init, TypeOK, LoopInv, WorkerPc, ConsumerPc
<1>2. PublishInv /\ BroadcastInv /\ StartInv /\ WaitInv
  BY DEF Init, PublishInv, BroadcastInv, StartInv, StartReachesRegistered, WaitInv
<1>3. CountInv
  <2>1. {m \in counted : m.err} = {}
    BY DEF Init
  <2> QED
    BY <2>1, FS_EmptySet DEF Init, CountInv
<1> QED
  BY <1>1, <1>2, <1>3 DEF IndInv

\* The conjunction of the parts is an invariant of every behaviour of the
\* workers, the consumer and the broker.
THEOREM Invariant == Safety => []IndInv
<1>1. IndInv /\ [Next]_vars => IndInv'
  BY TypeStep, PublishStep, CountStep, BroadcastStep, StartStep, WaitStep DEF IndInv
<1> QED
  BY InitInvariant, <1>1, PTL DEF Safety

\* Type correctness for every number of workers, restarts and broker crashes:
\* in particular the dial loop and the registration counters keep their limits.
THEOREM TypeCorrect == Safety => []TypeOK
  BY Invariant, PTL DEF IndInv

\* A worker whose registration was counted never misses the start command
\* while its connection lasts, whatever restarts and faults happen.
THEOREM NoMissedStart == Safety => []StartReachesRegistered
<1>1. IndInv => StartReachesRegistered
  BY DEF IndInv, StartInv
<1> QED
  BY <1>1, Invariant, PTL

\* An interrupted count never leads to a broadcast of the start command, and
\* exit status 0 of the consumer implies one.
THEOREM StartIsComplete == Safety => []NoEarlyStart
<1>1. IndInv => NoEarlyStart
  BY DEF IndInv, BroadcastInv, NoEarlyStart
<1> QED
  BY <1>1, Invariant, PTL

\* The consumer's arithmetic: each registration is counted once, and what
\* waitForRegistrations returns is the number of successful ones.
THEOREM Accounting == Safety => []RegistrationAccounting
<1>1. IndInv => RegistrationAccounting
  <2> SUFFICES ASSUME IndInv
               PROVE  RegistrationAccounting
    OBVIOUS
  <2> DEFINE E == {m \in counted : m.err}
             O == {m \in counted : ~m.err}
  <2>1. IsFiniteSet(counted) /\ E \subseteq counted /\ O = counted \ E /\ counted \cap E = E
    BY DEF IndInv, CountInv
  <2>2. Cardinality(O) = Cardinality(counted) - Cardinality(E)
    BY <2>1, FS_Difference
  <2> QED
    BY <2>2 DEF IndInv, CountInv, RegistrationAccounting
<1> QED
  BY <1>1, Invariant, PTL

-----------------------------------------------------------------------------
(* A complete count covers every worker that was not restarted.            *)

\* Containers publish once each, so as many registrations as there were counts
\* were published: the map from a registration to its container is one to one.
LEMMA EnoughArrivals ==
    ASSUME IndInv, regCount = NumWorkers
    PROVE  Cardinality({<<m.worker, m.incarnation>> : m \in published})
               >= Cardinality(Worker)
<1> DEFINE Pair(m) == <<m.worker, m.incarnation>>
           arr == {Pair(m) : m \in published}
           f == [m \in counted |-> Pair(m)]
<1>1. \A m \in published : m.worker \in Worker /\ m.incarnation \in 0..MaxRestarts
  BY DEF IndInv, TypeOK, Registration
<1>2. IsFiniteSet(arr)
  <2>1. IsFiniteSet(0..MaxRestarts)
    BY FS_Interval, BoundAssumption
  <2>2. IsFiniteSet(Worker \X (0..MaxRestarts))
    BY <2>1, FS_Product, WorkerAssumption
  <2>3. arr \subseteq Worker \X (0..MaxRestarts)
    BY <1>1
  <2> QED
    BY <2>2, <2>3, FS_Subset
<1>3. f \in Injection(counted, arr)
  <2>1. f \in [counted -> arr]
    BY DEF IndInv, CountInv
  <2>2. ASSUME NEW a \in counted, NEW b \in counted, f[a] = f[b]
        PROVE  a = b
    <3>1. a.worker = b.worker /\ a.incarnation = b.incarnation
      BY <2>2
    <3> QED
      BY <3>1 DEF IndInv, CountInv, PublishInv
  <2> QED
    BY <2>1, <2>2 DEF Injection, IsInjective
<1>4. Cardinality(counted) <= Cardinality(arr)
  <2> HIDE DEF f, arr
  <2> QED
    BY <1>2, <1>3, FS_Injection
<1>5. /\ Cardinality(counted) = Cardinality(Worker)
      /\ Cardinality(counted) \in Nat
      /\ Cardinality(arr) \in Nat
  BY <1>2, FS_CardinalityType DEF IndInv, CountInv, NumWorkers
<1> QED
  BY <1>4, <1>5

\* StartGate counts with a copy of the operator that is the same function.
LEMMA GateCardinality == \A S : Gate!Cardinality(S) = Cardinality(S)
  BY DEF Gate!Cardinality, Cardinality

\* When no container was restarted, the registrations counted are of
\* incarnation 0, hence of different workers, and there are as many of them as
\* there are workers.
LEMMA FullHouse ==
    ASSUME \A w \in Worker : restarts[w] = 0, IndInv, regCount = NumWorkers
    PROVE  \A v \in Worker : HasPublished(v)
<1> DEFINE f == [m \in counted |-> m.worker]
<1>1. \A m \in published : m.worker \in Worker /\ m.incarnation = 0
  <2>1. \A m \in published : m.worker \in Worker /\ m.incarnation \in Nat
    BY BoundAssumption DEF IndInv, TypeOK, Registration
  <2>2. \A m \in published : m.incarnation <= restarts[m.worker]
    BY DEF IndInv, PublishInv
  <2> QED
    BY <2>1, <2>2
<1>2. f \in Injection(counted, Worker)
  <2>1. f \in [counted -> Worker]
    BY <1>1 DEF IndInv, CountInv
  <2>2. ASSUME NEW a \in counted, NEW b \in counted, f[a] = f[b]
        PROVE  a = b
    BY <1>1, <2>2 DEF IndInv, CountInv, PublishInv
  <2> QED
    BY <2>1, <2>2 DEF Injection, IsInjective
<1>3. Cardinality(counted) = Cardinality(Worker)
  BY DEF IndInv, CountInv, NumWorkers
<1>4. f \in Surjection(counted, Worker)
  BY <1>2, <1>3, WorkerAssumption, FS_Injection
<1>5. \A v \in Worker : \E m \in counted : m.worker = v
  BY <1>4 DEF Surjection
<1> QED
  BY <1>5 DEF HasPublished, IndInv, CountInv

\* The barrier for any number of workers, with any faults: as long as no
\* container was restarted, whoever begins on the start command begins after
\* every worker has registered.
THEOREM BarrierHolds == Safety => []Barrier
<1>1. IndInv => Barrier
  BY FullHouse DEF IndInv, StartInv, BroadcastInv, Barrier
<1> QED
  BY <1>1, Invariant, PTL

\* The detailed protocol implements the gate, with restarts and every fault:
\* a Publish is an arrival, the broadcast opens the gate for enough of them,
\* and a container that is restarted after it began comes back to the gate.
THEOREM GateImplemented == Safety => ImplementsGate
<1> DEFINE arr == {<<m.worker, m.incarnation>> : m \in published}
           how(s) == CASE s = "none" -> "no" [] s = "start" -> "signalled" [] OTHER -> "alone"
           pass == [w \in Worker |-> how(startedBy[w])]
<1>1. Init => Gate!GateInit
  BY DEF Init, Gate!GateInit
<1>2. IndInv /\ [Next]_vars => [Gate!GateNext]_(Gate!gateVars)
  <2> SUFFICES ASSUME IndInv, [Next]_vars
               PROVE  [Gate!GateNext]_(Gate!gateVars)
    OBVIOUS
  <2>1. ASSUME UNCHANGED <<published, broadcast, startedBy>>
        PROVE  UNCHANGED Gate!gateVars
    BY <2>1 DEF Gate!gateVars
  <2>2. ASSUME NEW w \in Worker, PublishRegistration(w), UNCHANGED consumerVars
        PROVE  \E a \in 0..MaxRestarts : Gate!Arrive(w, a)
    <3> DEFINE m0 == [worker |-> w, incarnation |-> restarts[w], err |-> regErr[w]]
    <3>1. /\ published' = published \cup {m0}
          /\ m0.worker = w /\ m0.incarnation = restarts[w]
          /\ UNCHANGED <<broadcast, startedBy>>
          /\ pc[w] = "publish"
          /\ restarts[w] \in 0..MaxRestarts
      BY <2>2 DEF PublishRegistration, consumerVars, IndInv, TypeOK
    <3>2. \A m \in published : ~(m.worker = w /\ m.incarnation = restarts[w])
      <4>1. \A m \in published : m.incarnation \in Nat
        BY BoundAssumption DEF IndInv, TypeOK, Registration
      <4> QED
        BY <3>1, <4>1 DEF IndInv, PublishInv
    <3> HIDE DEF m0
    <3>3. <<w, restarts[w]>> \notin arr
      BY <3>2
    <3>4. arr' = arr \cup {<<w, restarts[w]>>}
      BY <3>1
    <3>5. PICK a \in 0..MaxRestarts : a = restarts[w]
      BY <3>1
    <3>6. Gate!Arrive(w, a)
      BY <3>1, <3>3, <3>4, <3>5 DEF Gate!Arrive
    <3> QED
      BY <3>6
  <2>3. ASSUME NEW w \in Worker, UNCHANGED <<published, broadcast>>,
               ReceiveStart(w) \/ StartTimeout(w) \/ StartChannelClosed(w)
        PROVE  Gate!Pass(w)
    <3>1. /\ pc[w] = "waiting"
          /\ startedBy'[w] \in {"start", "timeout", "closed"}
          /\ startedBy' = [startedBy EXCEPT ![w] = startedBy'[w]]
          /\ startedBy'[w] = "start" => startQueue[w] = "start"
      BY <2>3 DEF ReceiveStart, StartTimeout, StartChannelClosed, Begin, IndInv, TypeOK
    <3>2. startedBy[w] = "none" /\ \E a \in 0..MaxRestarts : <<w, a>> \in arr
      <4>1. PICK m \in published : m.worker = w
        BY <3>1 DEF IndInv, WaitInv, HasPublished
      <4>2. m.incarnation \in 0..MaxRestarts /\ <<w, m.incarnation>> \in arr
        BY <4>1 DEF IndInv, TypeOK, Registration
      <4> QED
        BY <3>1, <4>2 DEF IndInv, WaitInv
    <3>3. startedBy'[w] = "start" => broadcast
      BY <3>1 DEF IndInv, StartInv
    <3>4. pass[w] = "no"
      BY <3>2
    <3>5. /\ \A v \in Worker \ {w} : pass'[v] = pass[v]
          /\ pass'[w] = IF startedBy'[w] = "start" THEN "signalled" ELSE "alone"
      BY <3>1 DEF IndInv, TypeOK
    <3>6. pass' = [pass EXCEPT ![w] = IF startedBy'[w] = "start" THEN "signalled" ELSE "alone"]
      BY <3>5
    <3> QED
      BY <2>3, <3>2, <3>3, <3>4, <3>6 DEF Gate!Pass
  <2>4. ASSUME BroadcastStart, UNCHANGED published
        PROVE  Gate!Open
    <3>1. /\ broadcast' = TRUE
          /\ UNCHANGED <<published, startedBy>>
          /\ cpc = "broadcast" /\ cconn
      BY <2>4 DEF BroadcastStart
    <3>2. ~broadcast /\ regCount = NumWorkers
      BY <3>1 DEF IndInv, BroadcastInv
    <3>3. Cardinality(arr) >= Cardinality(Worker)
      BY <3>2, EnoughArrivals
    <3>4. UNCHANGED <<arr, pass>>
      BY <3>1
    <3>5. Gate!Cardinality(arr) >= Gate!Cardinality(Worker)
      BY <3>3, GateCardinality
    <3> QED
      BY <3>1, <3>2, <3>4, <3>5 DEF Gate!Open
  <2>5. ASSUME NEW w \in Worker, UNCHANGED <<published, consumerVars>>,
               \/ Dial(w) \/ DialFails(w) \/ Subscribe(w) \/ InitFunc(w) \/ AmqpFails(w)
               \/ FinishBench(w) \/ KillWorker(w)
        PROVE  UNCHANGED <<published, broadcast, startedBy>>
    BY <2>5 DEF Dial, DialFails, Subscribe, InitFunc, AmqpFails, FinishBench, KillWorker,
                consumerVars
  <2>6. ASSUME NEW w \in Worker, RestartWorker(w), UNCHANGED <<published, consumerVars>>
        PROVE  Gate!ComeBack(w) \/ UNCHANGED Gate!gateVars
    <3>1. /\ startedBy' = [startedBy EXCEPT ![w] = "none"]
          /\ UNCHANGED <<published, broadcast>>
      BY <2>6 DEF RestartWorker, consumerVars
    <3>2. pass' = [pass EXCEPT ![w] = "no"]
      BY <3>1 DEF IndInv, TypeOK
    <3>3. CASE pass[w] = "no"
      <4>1. pass' = pass
        BY <3>2, <3>3
      <4> QED
        BY <3>1, <4>1 DEF Gate!gateVars
    <3>4. CASE pass[w] # "no"
      BY <3>1, <3>2, <3>4 DEF Gate!ComeBack
    <3> QED
      BY <3>3, <3>4
  <2>7. ASSUME \/ UNCHANGED vars \/ KillConsumer \/ BrokerCrash \/ BrokerRecover
               \/ ConsumerStep /\ ~BroadcastStart
        PROVE  UNCHANGED <<published, broadcast, startedBy>>
    BY <2>7 DEF vars, workerVars, consumerVars, KillConsumer, BrokerCrash, BrokerRecover,
                ConsumerStep, ConsumerDial, ConsumerConsume, ReceiveRegistration,
                DeliveryClosed, BroadcastFails, ConsumerClose
  <2>8. CASE \E w \in Worker : WorkerStep(w)
    <3>1. PICK w \in Worker : WorkerStep(w)
      BY <2>8
    <3>2. CASE PublishRegistration(w) /\ UNCHANGED <<brokerVars, consumerVars>>
      <4>1. UNCHANGED consumerVars
        BY <3>2
      <4>2. \E a \in 0..MaxRestarts : Gate!Arrive(w, a)
        BY <2>2, <3>2, <4>1
      <4>3. Gate!GateNext
        BY <4>2 DEF Gate!GateNext
      <4> QED
        BY <4>3
    <3>3. CASE ~PublishRegistration(w)
      <4>1. UNCHANGED <<published, consumerVars, broadcast>>
        BY <3>1, <3>3 DEF WorkerStep, consumerVars
      <4>2. CASE ReceiveStart(w) \/ StartTimeout(w) \/ StartChannelClosed(w)
        BY <2>3, <4>1, <4>2 DEF Gate!GateNext
      <4>3. CASE ~(ReceiveStart(w) \/ StartTimeout(w) \/ StartChannelClosed(w))
        BY <2>1, <2>5, <3>1, <3>3, <4>1, <4>3 DEF WorkerStep
      <4> QED
        BY <4>2, <4>3
    <3> QED
      BY <2>1, <2>2, <3>1, <3>2, <3>3 DEF WorkerStep, Gate!GateNext
  <2>9. CASE \E w \in Worker : PodEvent(w)
    BY <2>1, <2>5, <2>6, <2>9 DEF PodEvent, Gate!GateNext
  <2>10. CASE ConsumerStep
    BY <2>1, <2>4, <2>7, <2>10 DEF ConsumerStep, Gate!GateNext
  <2> QED
    BY <2>1, <2>7, <2>8, <2>9, <2>10 DEF Next, Finished
<1> QED
  BY <1>1, <1>2, Invariant, PTL DEF Safety, ImplementsGate, Gate!GateSpec
=============================================================================
