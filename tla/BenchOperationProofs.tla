------------------------ MODULE BenchOperationProofs ------------------------
(***************************************************************************)
(* The statistics of a worker, proved for any number of operations and for *)
(* operations of any duration.                                             *)
(***************************************************************************)
EXTENDS BenchOperation, TLAPS

\* The points pushed so far at each place of the loop.
PointsBound ==
    /\ pc = "begin" => i = 0 /\ points = 0
    /\ pc \in {"loop", "done", "panic"} => points <= 2 * i
    /\ pc = "write" => i < OperationsPerStream /\ points <= 2 * i
    /\ pc = "read" => i < OperationsPerStream /\ points <= 2 * i + 1
    /\ pc = "sleep" => i < OperationsPerStream /\ points <= 2 * i + 2

\* The operation under way began after all that were measured had ended.
StartAfterElapsed ==
    /\ elapsed <= now
    /\ startTime <= now
    /\ pc \in {"write", "read"} => elapsed <= startTime

\* What the statistics rest on.
StatInv ==
    /\ TypeOK
    /\ pc \notin {"begin", "panic"} => period > 0
    /\ PointsBound
    /\ StartAfterElapsed
    /\ avgTotal <= elapsed
    /\ MeanInRange

-----------------------------------------------------------------------------

\* A factor that shrinks makes the product smaller, one that grows larger.
LEMMA ProductMonotone ==
    ASSUME NEW n \in Nat, NEW a \in Nat, NEW b \in Nat, a <= b
    PROVE  n * a <= n * b
<1>1. PICK c \in Nat : b = a + c
  BY b - a \in Nat, b = a + (b - a)
<1>2. n * b = n * a + n * c
  BY <1>1
<1>3. n * c \in Nat /\ n * a \in Nat /\ n * b \in Nat
  BY <1>1
<1> QED
  BY <1>2, <1>3

\* One more value that is not below the new lower bound.
LEMMA LowerBound ==
    ASSUME NEW n \in Nat, NEW a \in Nat, NEW b \in Nat, NEW t \in Nat, NEW e \in Nat,
           n * a <= t, b <= a, b <= e
    PROVE  (n + 1) * b <= t + e
<1>1. PICK x \in Int : x = n * b
  BY n * b \in Int
<1>2. PICK y \in Int : y = n * a
  BY n * a \in Int
<1>3. x <= y
  BY <1>1, <1>2, ProductMonotone
<1>4. y <= t
  BY <1>2
<1>5. x + b <= t + e
  BY <1>3, <1>4
<1>6. (n + 1) * b = x + b
  BY <1>1
<1> QED
  BY <1>5, <1>6

\* One more value that is not above the new upper bound.
LEMMA UpperBound ==
    ASSUME NEW n \in Nat, NEW a \in Nat, NEW b \in Nat, NEW t \in Nat, NEW e \in Nat,
           t <= n * a, a <= b, e <= b
    PROVE  t + e <= (n + 1) * b
<1>1. PICK x \in Int : x = n * b
  BY n * b \in Int
<1>2. PICK y \in Int : y = n * a
  BY n * a \in Int
<1>3. y <= x
  BY <1>1, <1>2, ProductMonotone
<1>4. t <= y
  BY <1>2
<1>5. t + e <= x + b
  BY <1>3, <1>4
<1>6. (n + 1) * b = x + b
  BY <1>1
<1> QED
  BY <1>5, <1>6

\* A new measurement keeps the mean between the new Min and Max.
LEMMA MeasureKeepsMean ==
    ASSUME StatInv, NEW e \in Nat, Measure(e)
    PROVE  /\ MeanInRange'
           /\ min' \in Nat /\ max' \in Nat
<1>1. /\ min \in Nat /\ max \in Nat /\ points \in Nat /\ avgTotal \in Nat
      /\ points * min <= avgTotal /\ avgTotal <= points * max
  BY DEF StatInv, TypeOK, MeanInRange
<1>2. /\ min' \in Nat /\ min' <= min /\ min' <= e
      /\ max' \in Nat /\ max <= max' /\ e <= max'
      /\ points' = points + 1 /\ avgTotal' = avgTotal + e
  BY <1>1 DEF Measure
<1>3. (points + 1) * min' <= avgTotal + e
  BY <1>1, <1>2, LowerBound
<1>4. avgTotal + e <= (points + 1) * max'
  BY <1>1, <1>2, UpperBound
<1> QED
  BY <1>2, <1>3, <1>4, Zenon DEF MeanInRange

\* An operation takes time, and is measured from its own beginning.
LEMMA OperateStep ==
    ASSUME StatInv, pc \in {"write", "read"}, NEW ok \in BOOLEAN, Operate(ok)
    PROVE  /\ now' \in Nat /\ now <= now'
           /\ min' \in Nat /\ max' \in Nat /\ avgTotal' \in Nat /\ elapsed' \in Nat
           /\ elapsed' <= now' /\ avgTotal' <= elapsed'
           /\ points' \in Nat /\ points' <= points + 1
           /\ err' \in BOOLEAN
           /\ MeanInRange'
<1>1. PICK d \in Duration : now' = now + d
  BY DEF Operate
<1>2. /\ now \in Nat /\ startTime \in Nat /\ d \in Nat /\ elapsed \in Nat /\ avgTotal \in Nat
      /\ elapsed <= startTime /\ startTime <= now /\ avgTotal <= elapsed
  BY DurationAssumption DEF StatInv, TypeOK, StartAfterElapsed
<1>3. now' \in Nat /\ now <= now' /\ now' - startTime \in Nat
  BY <1>1, <1>2
<1>4. points \in Nat /\ min \in Nat /\ max \in Nat /\ err \in BOOLEAN /\ MeanInRange
  BY DEF StatInv, TypeOK
<1>5. CASE ok
  <2>1. Measure(now' - startTime) /\ UNCHANGED err
    BY <1>5 DEF Operate
  <2>2. MeanInRange' /\ min' \in Nat /\ max' \in Nat
    BY <1>3, <2>1, MeasureKeepsMean
  <2>3. points' = points + 1 /\ avgTotal' = avgTotal + (now' - startTime) /\ elapsed' = now'
    BY <2>1 DEF Measure
  <2>4. /\ avgTotal' \in Nat /\ elapsed' \in Nat
        /\ elapsed' <= now' /\ avgTotal' <= elapsed'
        /\ points' \in Nat /\ points' <= points + 1
    BY <1>4, <1>1, <1>2, <1>3, <2>3
  <2> QED
    BY <1>4, <1>3, <2>1, <2>2, <2>4
<1>6. CASE ~ok
  <2>1. err' = TRUE /\ UNCHANGED resultVars
    BY <1>6 DEF Operate
  <2> QED
    BY <1>4, <1>2, <1>3, <2>1 DEF resultVars, MeanInRange
<1> QED
  BY <1>5, <1>6

-----------------------------------------------------------------------------

\* Every step of the loop keeps the invariant.
LEMMA StatStep ==
    ASSUME StatInv, [Next]_vars
    PROVE  StatInv'
<1> USE DEF StatInv, TypeOK, PointsBound, StartAfterElapsed
<1>1. CASE Begin
  BY <1>1 DEF Begin, resultVars, MeanInRange
<1>2. CASE BeginIteration
  <2>1. TypeOK'
    BY <1>2 DEF BeginIteration, resultVars
  <2>2. PointsBound' /\ MeanInRange' /\ (avgTotal <= elapsed)'
    BY <1>2 DEF BeginIteration, resultVars, MeanInRange
  <2>3. StartAfterElapsed'
    BY <1>2 DEF BeginIteration, resultVars
  <2>4. period' > 0
    BY <1>2 DEF BeginIteration
  <2> QED
    BY <2>1, <2>2, <2>3, <2>4
<1>3. ASSUME NEW ok \in BOOLEAN, Write(ok)
      PROVE  StatInv'
  BY <1>3, LoopAssumption, OperateStep DEF Write
<1>4. ASSUME NEW ok \in BOOLEAN, Read(ok)
      PROVE  StatInv'
  BY <1>4, LoopAssumption, OperateStep DEF Read
<1>5. CASE Sleep
  BY <1>5, LoopAssumption DEF Sleep, resultVars, MeanInRange
<1>6. CASE Finish
  BY <1>6, LoopAssumption DEF Finish, resultVars, MeanInRange
<1>7. CASE UNCHANGED vars
  BY <1>7 DEF vars, resultVars, MeanInRange
<1>8. CASE WritePanic
  BY <1>8 DEF WritePanic, resultVars, MeanInRange
<1> QED
  BY <1>1, <1>2, <1>3, <1>4, <1>5, <1>6, <1>7, <1>8 DEF Next

\* The invariant holds from the beginning on.
LEMMA StatInvariant == Spec => []StatInv
<1>1. Init => StatInv
  <2> SUFFICES ASSUME Init
               PROVE  StatInv
    OBVIOUS
  <2>1. TypeOK
    <3>1. 0 \in 0..OperationsPerStream /\ 0 \in 0..(2 * OperationsPerStream)
      BY LoopAssumption
    <3> QED
      BY <3>1, DurationAssumption DEF Init, TypeOK
  <2>2. 0 * min <= 0 /\ 0 <= 0 * max
    BY <2>1 DEF TypeOK
  <2> QED
    BY <2>1, <2>2 DEF Init, StatInv, PointsBound, StartAfterElapsed, MeanInRange
<1>2. StatInv /\ [Next]_vars => StatInv'
  BY StatStep
<1> QED
  BY <1>1, <1>2, PTL DEF Spec

\* Type correctness of the loop: i keeps to operationsPerStream and every
\* operation pushes at most one point.
THEOREM LoopTypeCorrect == Spec => []TypeOK
<1>1. StatInv => TypeOK
  BY DEF StatInv
<1> QED
  BY <1>1, StatInvariant, PTL

\* result.Min, result.Max and result.AvgTotal agree for any number of
\* operations of any duration, also of more than benchmark.MaxDuration.
THEOREM StatisticsAgree == Spec => []MeanInRange
<1>1. StatInv => MeanInRange
  BY DEF StatInv
<1> QED
  BY <1>1, StatInvariant, PTL

\* The measured durations of a worker add up to at most result.Elapsed.
THEOREM OperationsAreDisjoint == Spec => []DurationsAreDisjoint
<1>1. StatInv => DurationsAreDisjoint
  BY DEF StatInv, StartAfterElapsed, DurationsAreDisjoint
<1> QED
  BY <1>1, StatInvariant, PTL
=============================================================================
