--------------------------- MODULE BenchOperation ---------------------------
(***************************************************************************)
(* The measuring loop of one worker, BenchOperation of                     *)
(* benchmark/worker/worker.go: a timed write, a timed read and a pause in  *)
(* each iteration, and the statistics kept of the ones that succeed.  Time *)
(* is counted from workerStart.                                            *)
(***************************************************************************)
EXTENDS Integers

CONSTANTS
    OperationsPerStream,
    OperationPeriod,    \* the pauses that a configuration may ask for, of any sign
    MaxDuration,        \* what Min starts from
    Duration            \* how long an operation may take

ASSUME LoopAssumption == OperationsPerStream \in Nat /\ OperationPeriod \subseteq Int
ASSUME DurationAssumption == MaxDuration \in Nat /\ Duration \subseteq Nat

VARIABLES
    period,     \* config.OperationPeriod, the pause after an iteration
    pc,         \* where the loop is
    i,          \* finished iterations
    now,        \* the time
    startTime,  \* when the operation under way began
    min,        \* result.Min
    max,        \* result.Max
    avgTotal,   \* result.AvgTotal
    elapsed,    \* result.Elapsed
    points,     \* the durations pushed to Influx
    err         \* result.Err is set

resultVars == <<min, max, avgTotal, elapsed, points>>
vars == <<period, pc, i, now, startTime, resultVars, err>>

Init ==
    /\ period \in OperationPeriod
    /\ pc = "begin"
    /\ i = 0
    /\ now = 0
    /\ startTime = 0
    /\ min = MaxDuration
    /\ max = 0
    /\ avgTotal = 0
    /\ elapsed = 0
    /\ points = 0
    /\ err = FALSE

\* The random delay before workerStart: Int63n panics unless its argument is
\* positive.
Begin ==
    /\ pc = "begin"
    /\ pc' = IF period > 0 THEN "loop" ELSE "panic"
    /\ UNCHANGED <<period, i, now, startTime, resultVars, err>>

\* Mutant: one iteration too many.
BeginIteration_OneMore ==
    /\ pc = "loop"
    /\ i <= OperationsPerStream
    /\ err' = FALSE
    /\ startTime' = now
    /\ pc' = "write"
    /\ UNCHANGED <<period, i, now, resultVars>>

BeginIteration ==
    /\ pc = "loop"
    /\ i < OperationsPerStream
    /\ err' = FALSE
    /\ startTime' = now
    /\ pc' = "write"
    /\ UNCHANGED <<period, i, now, resultVars>>

\* Mutant: the maximum is compared only if there was no new minimum.
Measure_ElseMax(e) ==
    /\ min' = IF e < min THEN e ELSE min
    /\ max' = IF ~(e < min) /\ e > max THEN e ELSE max
    /\ points' = points + 1
    /\ avgTotal' = avgTotal + e
    /\ elapsed' = now'

\* An operation that succeeded after e enters the statistics.
Measure(e) ==
    /\ min' = IF e < min THEN e ELSE min
    /\ max' = IF e > max THEN e ELSE max
    /\ points' = points + 1
    /\ avgTotal' = avgTotal + e
    /\ elapsed' = now'

\* An operation begins at startTime and takes until now'.
Operate(ok) ==
    /\ \E d \in Duration : now' = now + d
    /\ IF ok THEN Measure(now' - startTime) /\ UNCHANGED err
             ELSE err' = TRUE /\ UNCHANGED resultVars

\* Mutant: the read is timed from the beginning of the write.
Write_NoReset(ok) ==
    /\ pc = "write"
    /\ Operate(ok)
    /\ pc' = "read"
    /\ UNCHANGED <<period, i, startTime>>

Write(ok) ==
    /\ pc = "write"
    /\ Operate(ok)
    /\ startTime' = now'
    /\ pc' = "read"
    /\ UNCHANGED <<period, i>>

\* Building the data of a write panics: the loop ends there.
WritePanic ==
    /\ pc = "write"
    /\ pc' = "panic"
    /\ UNCHANGED <<period, i, now, startTime, resultVars, err>>

Read(ok) ==
    /\ pc = "read"
    /\ Operate(ok)
    /\ pc' = "sleep"
    /\ UNCHANGED <<period, i, startTime>>

Sleep ==
    /\ pc = "sleep"
    /\ now' = now + period
    /\ i' = i + 1
    /\ pc' = "loop"
    /\ UNCHANGED <<period, startTime, resultVars, err>>

Finish ==
    /\ pc = "loop"
    /\ i = OperationsPerStream
    /\ pc' = "done"
    /\ UNCHANGED <<period, i, now, startTime, resultVars, err>>

Ended == pc \in {"done", "panic"}

Next ==
    \/ Begin \/ BeginIteration
    \/ \E ok \in BOOLEAN : Write(ok) \/ Read(ok)
    \/ WritePanic \/ Sleep \/ Finish
    \/ Ended /\ UNCHANGED vars

Spec == Init /\ [][Next]_vars

-----------------------------------------------------------------------------
(* Properties.                                                             *)

\* Type correctness; there are no more points than operations.
TypeOK ==
    /\ period \in OperationPeriod
    /\ pc \in {"begin", "loop", "write", "read", "sleep", "done", "panic"}
    /\ i \in 0..OperationsPerStream
    /\ now \in Nat
    /\ startTime \in Nat
    /\ min \in Nat
    /\ max \in Nat
    /\ avgTotal \in Nat
    /\ elapsed \in Nat
    /\ points \in 0..(2 * OperationsPerStream)
    /\ err \in BOOLEAN

\* The statistics agree with each other: the mean of the measured durations
\* lies between Min and Max, although writes and reads share them, some
\* operations fail and Min starts from a constant.
MeanInRange ==
    /\ points * min <= avgTotal
    /\ avgTotal <= points * max

\* The operations of a worker never overlap: together they take no longer
\* than the time until the last of them ended.
DurationsAreDisjoint == avgTotal <= elapsed /\ elapsed <= now
=============================================================================
