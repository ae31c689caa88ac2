-------------------------- MODULE SimiWorkerProofs --------------------------
(***************************************************************************)
(* The worker implements its measuring loop, and what its exit status      *)
(* means, proved for every configuration and any number of operations.     *)
(***************************************************************************)
EXTENDS SimiWorker, BenchOperationProofs

SettingUp == {"flags", "tracer", "config", "size", "setup", "connect", "register"}

\* What a panic is put down to.
Misconfigured ==
    \/ period <= 0
    \/ size = "huge"
    \/ ~decoded
    \/ role = "read" /\ numWriters = 0

\* The set-up comes before the loop, the loop before Close.
LifeInv ==
    /\ period \in OperationPeriod
    /\ phase \in SettingUp => status = "none" /\ pc = "begin" /\ points = 0 /\ offered = 0
    /\ phase = "operate" => status = "none"
    /\ pc = "panic" => Misconfigured
    /\ pc = "done" => i = OperationsPerStream
    /\ status = "exit0" => pc = "done"
    /\ status = "panic" => Misconfigured
    /\ PointsAreOffered

-----------------------------------------------------------------------------
\* The loop goes on as BenchOperation has it.
LEMMA LoopSteps ==
    ASSUME [WorkerNext]_workerVars
    PROVE  [Next]_vars
<1>1. CASE LoopStep
  BY <1>1 DEF LoopStep, Next
<1>2. CASE WriteFault
  BY <1>2 DEF WriteFault, Next
<1>3. CASE ~LoopStep /\ ~WriteFault
  BY <1>3 DEF WorkerNext, workerVars, ParseIndex, InitTracer, LoadConfig, LoadDataSize, SetupSimi,
              NewWorker, SetUpFails, SetUpDone, Register, LoopEnds, SendBatch, Close, Kill
<1> QED
  BY <1>1, <1>2, <1>3

\* The whole process of a worker implements the measuring loop.
LEMMA WorkerImplementsLoop == WorkerSpec => Spec
<1>1. WorkerInit => Init
  BY DEF WorkerInit
<1>2. [WorkerNext]_workerVars => [Next]_vars
  BY LoopSteps
<1> QED
  BY <1>1, <1>2, PTL DEF WorkerSpec, Spec

\* No step takes a point back.
LEMMA WorkerPointsGrow ==
    ASSUME TypeOK, [WorkerNext]_workerVars
    PROVE  points <= points'
<1>1. points \in Int
  BY LoopAssumption DEF TypeOK
<1>2. points' = points \/ points' = points + 1
  <2>1. CASE \E ok \in BOOLEAN : Write(ok) \/ Read(ok)
    BY <2>1 DEF Write, Read, Operate, Measure, resultVars
  <2> QED
    BY <2>1, LoopSteps DEF Next, Begin, BeginIteration, WritePanic, Sleep, Finish, vars, resultVars
<1> QED
  BY <1>1, <1>2

\* The state of the process around the loop keeps to its type, whatever the
\* configuration.
THEOREM WorkerTypeCorrect == WorkerSpec => []WorkerTypeOK
<1>1. WorkerInit /\ TypeOK => WorkerTypeOK
  <2> SUFFICES ASSUME WorkerInit, TypeOK
               PROVE  WorkerTypeOK
    OBVIOUS
  <2>1. offered \in 0..points
    BY DEF WorkerInit, Init
  <2> QED
    BY <2>1 DEF WorkerInit, WorkerTypeOK
<1>2. WorkerTypeOK /\ TypeOK' /\ [WorkerNext]_workerVars => WorkerTypeOK'
  <2> SUFFICES ASSUME WorkerTypeOK, TypeOK', [WorkerNext]_workerVars
               PROVE  WorkerTypeOK'
    OBVIOUS
  <2>1. points <= points' /\ points \in Nat /\ points' \in Nat
    BY WorkerPointsGrow, LoopAssumption DEF WorkerTypeOK, TypeOK
  <2> USE FlagAssumption DEF WorkerTypeOK
  <2>2. CASE \/ ParseIndex \/ InitTracer \/ LoadConfig \/ LoadDataSize \/ SetupSimi \/ NewWorker
    BY <2>1, <2>2 DEF ParseIndex, InitTracer, LoadConfig, LoadDataSize, LoadByteSize, SetupSimi,
           NewWorker, SetUpFails, SetUpDone, Exit, setupVars
  <2>3. CASE Register
    BY <2>1, <2>3 DEF Register, Leave, Exit, setupVars
  <2>4. CASE LoopStep \/ WriteFault
    BY <2>1, <2>4 DEF LoopStep, WriteFault, setupVars
  <2>5. CASE LoopEnds
    BY <2>1, <2>5 DEF LoopEnds, Leave, setupVars
  <2>6. CASE SendBatch \/ Close \/ Kill
    BY <2>1, <2>6 DEF SendBatch, Close, Kill, Exit, setupVars
  <2>7. CASE UNCHANGED workerVars
    BY <2>1, <2>7 DEF workerVars, setupVars
  <2> QED
    BY <2>2, <2>3, <2>4, <2>5, <2>6, <2>7 DEF WorkerNext
<1> QED
  BY <1>1, <1>2, WorkerImplementsLoop, LoopTypeCorrect, PTL DEF WorkerSpec

\* The statistics of a worker agree, whatever its configuration.
THEOREM WorkerStatisticsAgree == WorkerSpec => [](MeanInRange /\ DurationsAreDisjoint)
  BY WorkerImplementsLoop, StatisticsAgree, OperationsAreDisjoint, PTL

-----------------------------------------------------------------------------
\* A step of the set-up leaves the loop alone and ends without points.
LEMMA SetUpStep ==
    ASSUME LifeInv,
           \/ ParseIndex \/ InitTracer \/ LoadConfig \/ LoadDataSize \/ SetupSimi \/ NewWorker
    PROVE  LifeInv'
<1>1. PICK from \in SettingUp :
          /\ phase = from
          /\ \/ phase' = "ended" /\ status' = "exit1"
             \/ phase' \in SettingUp /\ status' = status
          /\ UNCHANGED <<vars, offered>>
  BY DEF ParseIndex, InitTracer, LoadConfig, LoadDataSize, SetupSimi, NewWorker, SetUpFails,
         SetUpDone, Exit, SettingUp
<1> QED
  BY <1>1 DEF LifeInv, PointsAreOffered, SettingUp, Misconfigured, vars, resultVars

\* Register leaves the set-up, panics only without a worker or writers.
LEMMA RegisterStep ==
    ASSUME LifeInv, Register
    PROVE  LifeInv'
  BY DEF LifeInv, Register, Leave, Exit, InitPanics, PointsAreOffered, SettingUp, Misconfigured,
         vars, resultVars, setupVars

\* A step of the loop panics only over a missing period or an impossible write.
LEMMA OperateLife ==
    ASSUME LifeInv, LoopStep \/ WriteFault
    PROVE  LifeInv'
<1>1. /\ phase = "operate" /\ status = "none"
      /\ UNCHANGED <<period, phase, status, numWriters, role, size, decoded, offered>>
  BY DEF LifeInv, LoopStep, WriteFault, WritePanic, Begin, BeginIteration, Sleep, Finish, Write,
         Read, setupVars
<1>2. pc' = "panic" => Misconfigured
  <2>1. CASE Begin
    BY <2>1, LoopAssumption DEF Begin, LifeInv, Misconfigured
  <2>2. CASE WriteFault
    BY <2>2 DEF WriteFault, WritePanics, Misconfigured
  <2> QED
    BY <2>1, <2>2 DEF LoopStep, BeginIteration, Sleep, Finish, Write, Read
<1>3. pc' = "done" => i' = OperationsPerStream
  BY DEF LoopStep, WriteFault, WritePanic, Begin, BeginIteration, Sleep, Finish, Write, Read
<1> QED
  BY <1>1, <1>2, <1>3 DEF LifeInv, PointsAreOffered, SettingUp, Misconfigured

\* The end of the loop, the batches, Close and a kill.
LEMMA EndLife ==
    ASSUME LifeInv, LoopEnds \/ SendBatch \/ Close \/ Kill
    PROVE  LifeInv'
<1>1. CASE LoopEnds
  BY <1>1 DEF LoopEnds, Ended, Leave, LifeInv, PointsAreOffered, SettingUp, Misconfigured, vars,
              resultVars, setupVars
<1>2. CASE SendBatch
  BY <1>2 DEF SendBatch, LifeInv, PointsAreOffered, SettingUp, Misconfigured, vars, resultVars,
              setupVars
<1>3. CASE Close
  BY <1>3 DEF Close, Exit, LifeInv, PointsAreOffered, SettingUp, Misconfigured, vars, resultVars,
              setupVars
<1>4. CASE Kill
  BY <1>4 DEF Kill, Exit, LifeInv, PointsAreOffered, SettingUp, Misconfigured, vars, resultVars,
              setupVars
<1> QED
  BY <1>1, <1>2, <1>3, <1>4

\* The order of a worker's life is an invariant.
LEMMA LifeInvariant == WorkerSpec => []LifeInv
<1>1. WorkerInit => LifeInv
  BY DEF WorkerInit, Init, LifeInv, PointsAreOffered, SettingUp
<1>2. LifeInv /\ [WorkerNext]_workerVars => LifeInv'
  <2> SUFFICES ASSUME LifeInv, [WorkerNext]_workerVars
               PROVE  LifeInv'
    OBVIOUS
  <2>1. CASE UNCHANGED workerVars
    BY <2>1 DEF workerVars, LifeInv, PointsAreOffered, Misconfigured, vars, resultVars, setupVars
  <2> QED
    BY <2>1, SetUpStep, RegisterStep, OperateLife, EndLife DEF WorkerNext
<1> QED
  BY <1>1, <1>2, PTL DEF WorkerSpec

\* A worker panics over its configuration only, never over what its calls do.
THEOREM OnlyConfigurationPanics == WorkerSpec => []PanicsAreConfigured
<1>1. LifeInv => PanicsAreConfigured
  BY DEF LifeInv, Misconfigured, PanicsAreConfigured
<1> QED
  BY <1>1, LifeInvariant, PTL

\* Exit status 0 means that the loop came to its end, for any number of
\* operations.
THEOREM ExitZeroIsComplete == WorkerSpec => []SuccessIsComplete
<1>1. LifeInv => SuccessIsComplete
  BY DEF LifeInv, SuccessIsComplete
<1> QED
  BY <1>1, LifeInvariant, PTL

\* Whatever ends a worker other than a kill, Influx has been offered all of
\* its measurements.
THEOREM AllPointsAreOffered == WorkerSpec => []PointsAreOffered
<1>1. LifeInv => PointsAreOffered
  BY DEF LifeInv
<1> QED
  BY <1>1, LifeInvariant, PTL
=============================================================================
