----------------------------- MODULE SimiWorker -----------------------------
(***************************************************************************)
(* The process of one worker from its flags to its exit status:            *)
(* cmd/simi.go, the configuration (config/*.go), the set-up of the         *)
(* operations (chaincodes/*.go), the worker's life around its measuring    *)
(* loop (benchmark/worker/worker.go) and the asynchronous Influx client.   *)
(*                                                                         *)
(* The loop itself is BenchOperation, here with what its operations meet:  *)
(* a write builds dataSizeBytes of data and hands them to the CLI as one   *)
(* argument.  Register is one step, which StartBarrier has in detail.      *)
(***************************************************************************)
EXTENDS BenchOperation

CONSTANTS
    NumWriters,    \* values of the flag numWriters
    Size           \* values of the flag dataSizeBytes

ASSUME FlagAssumption == NumWriters \subseteq Nat

VARIABLES
    phase,      \* where runSimi is
    status,     \* how the process ends
    numWriters,
    role,       \* c.OperationType
    size,       \* what becomes of writing c.DataSizeBytes
    decoded,    \* c.OperationConfig holds a CCWorker, not a nil pointer
    offered     \* the points handed to Influx, the others are in the buffer

setupVars == <<numWriters, role, size, decoded>>
workerVars == <<vars, phase, status, setupVars, offered>>

WorkerInit ==
    /\ Init
    /\ phase = "flags"
    /\ status = "none"
    /\ numWriters \in NumWriters
    /\ role = "none"
    /\ size = "small"
    /\ decoded = FALSE
    /\ offered = 0

-----------------------------------------------------------------------------
(* LoadByteSize.  A size is [text |-> "size", num, unit], with a natural   *)
(* number, or a text that is no size.                                      *)

\* The table of units, in decimal and binary steps.
Units == {"b", "kb", "mb", "gb", "tb", "pb", "eb", "zb", "yb",
          "kib", "mib", "gib", "tib", "pib", "eib"}

\* How many of each unit the kernel takes as one argument of a command, at
\* most 131071 bytes: Linux's MAX_ARG_STRLEN without the final zero byte.
ArgumentHolds == [u \in Units |-> CASE u = "b"   -> 131071
                                    [] u = "kb"  -> 131
                                    [] u = "kib" -> 127
                                    [] OTHER     -> 0]

\* How many of each unit a Go string may have: at most 2^48 bytes, the
\* runtime's maxAlloc on a 64-bit Linux.  The numbers of b, kb and kib are
\* too long for TLC; a size beyond one of those is a "vast" text.
StringHolds == [mb |-> 281474976, gb |-> 281474, tb |-> 281, pb |-> 0, eb |-> 0, zb |-> 0,
                yb |-> 0, mib |-> 268435456, gib |-> 262144, tib |-> 256, pib |-> 0, eib |-> 0]

\* What a size leads to: an error (no match of the pattern, no number, or a
\* unit of the pattern that the table has not), a DataSizeBytes that a
\* command argument holds or does not hold, or more than a string can have.
\* A product beyond int64 is among the last: its conversion yields the most
\* negative or the largest int64, and strings.Repeat panics on either.
LoadByteSize(s) ==
    IF s.text = "vast"                                                 THEN "huge"
    ELSE IF s.text # "size" \/ s.unit \notin Units                     THEN "error"
    ELSE IF s.num <= ArgumentHolds[s.unit]                             THEN "small"
    ELSE IF s.unit \in DOMAIN StringHolds /\ s.num > StringHolds[s.unit] THEN "huge"
    ELSE "large"

-----------------------------------------------------------------------------
(* main and runSimi, up to the loop.                                       *)

Exit(s) == phase' = "ended" /\ status' = s

\* An error before the worker exists ends main with log.Fatalln.
SetUpFails(from) ==
    /\ phase = from
    /\ Exit("exit1")
    /\ UNCHANGED <<vars, setupVars, offered>>

SetUpDone(from, to) == phase = from /\ phase' = to /\ UNCHANGED <<vars, status, offered>>

\* JOB_COMPLETION_INDEX against numWriters.
ParseIndex ==
    \/ SetUpFails("flags")
    \/ /\ SetUpDone("flags", "tracer")
       /\ \E id \in 0..numWriters : role' = IF id >= numWriters THEN "read" ELSE "write"
       /\ UNCHANGED <<numWriters, size, decoded>>

\* The global tracer, from the environment.
InitTracer ==
    \/ SetUpFails("tracer")
    \/ SetUpDone("tracer", "config") /\ UNCHANGED setupVars

\* simi.yaml cannot be read or unmarshalled, or gives the loop's variables.
LoadConfig ==
    \/ SetUpFails("config")
    \/ SetUpDone("config", "size") /\ UNCHANGED setupVars

\* The flag dataSizeBytes, if it is there.
LoadDataSize ==
    \/ /\ \E s \in Size : LoadByteSize(s) = "error"
       /\ SetUpFails("size")
    \/ /\ SetUpDone("size", "setup")
       /\ size' \in {"small"} \cup ({LoadByteSize(s) : s \in Size} \ {"error"})
       /\ UNCHANGED <<numWriters, role, decoded>>

\* The decoder fails, fills a CCWorker or leaves the pointer nil when there
\* is no operationConfig.
SetupSimi ==
    \/ SetUpFails("setup")
    \/ /\ SetUpDone("setup", "connect")
       /\ decoded' \in BOOLEAN
       /\ UNCHANGED <<numWriters, role, size>>

\* NewWorker: no broker, no INFLUX_TOKEN, or a worker.
NewWorker ==
    \/ SetUpFails("connect")
    \/ SetUpDone("connect", "register") /\ UNCHANGED setupVars

-----------------------------------------------------------------------------
(* The worker's life.                                                      *)

\* benchmarkOperation returns or panics: its deferred Close comes first.
Leave(s) == phase' = "close" /\ status' = s

\* A reader's InitFunc cannot do without a worker or a number of writers.
InitPanics == role = "read" /\ (~decoded \/ numWriters = 0)

\* Register: a call of its own fails, or it waits and returns nil; InitFunc
\* of a reader may panic, or end the process over an Id that is no number.
Register ==
    /\ phase = "register"
    /\ \/ Leave("exit1")
       \/ InitPanics /\ Leave("panic")
       \/ role = "read" /\ decoded /\ Exit("exit1")
       \/ ~InitPanics /\ phase' = "operate" /\ UNCHANGED status
    /\ UNCHANGED <<vars, setupVars, offered>>

\* Mutant: a write of data that is too long for the CLI is a panic too.
WritePanics_Large == ~decoded \/ size \in {"large", "huge"}

\* The write dereferences the worker and builds the data before anything.
WritePanics == ~decoded \/ size = "huge"

\* A step of BenchOperation.  A write that the kernel refuses has failed.
LoopStep ==
    /\ phase = "operate"
    /\ \/ /\ Begin \/ BeginIteration \/ Sleep \/ Finish
          /\ UNCHANGED status
       \/ /\ ~WritePanics
          /\ \E ok \in BOOLEAN : (size = "large" => ~ok) /\ Write(ok)
       \/ \E ok \in BOOLEAN : Read(ok)
    /\ UNCHANGED <<phase, status, setupVars, offered>>

\* Mutant: the panic of a write ends the loop like a return.
WriteFault_Returns ==
    /\ phase = "operate"
    /\ WritePanics
    /\ pc = "write"
    /\ pc' = "done"
    /\ UNCHANGED <<period, i, now, startTime, resultVars, err>>
    /\ UNCHANGED <<phase, status, setupVars, offered>>

\* The panic unwinds BenchOperation.
WriteFault ==
    /\ phase = "operate"
    /\ WritePanics
    /\ WritePanic
    /\ UNCHANGED <<phase, status, setupVars, offered>>

\* BenchOperation returns nil, whatever its operations came to, or panics.
LoopEnds ==
    /\ phase = "operate"
    /\ Ended
    /\ Leave(IF pc = "done" THEN "exit0" ELSE "panic")
    /\ UNCHANGED <<vars, setupVars, offered>>

\* The goroutine of the Influx client sends a batch, when it is full or old.
SendBatch ==
    /\ phase \in {"operate", "close"}
    /\ offered < points
    /\ offered' = points
    /\ UNCHANGED <<vars, phase, status, setupVars>>

\* Mutant: Close does not flush the points.
Close_NoFlush ==
    /\ phase = "close"
    /\ Exit(status)
    /\ UNCHANGED <<vars, setupVars, offered>>

\* Close flushes the points; then the process ends.
Close ==
    /\ phase = "close"
    /\ offered' = points
    /\ Exit(status)
    /\ UNCHANGED <<vars, setupVars>>

\* The container is killed by the Job controller or for its memory, which a
\* large write may exhaust; or the Go runtime finds no memory left, a fatal
\* error that runs no deferred call either.
Kill ==
    /\ phase # "ended"
    /\ Exit("killed")
    /\ UNCHANGED <<vars, setupVars, offered>>

WorkerNext ==
    \/ ParseIndex \/ InitTracer \/ LoadConfig \/ LoadDataSize \/ SetupSimi \/ NewWorker
    \/ Register \/ LoopStep \/ WriteFault \/ LoopEnds \/ SendBatch \/ Close \/ Kill
    \/ phase = "ended" /\ UNCHANGED workerVars

WorkerSpec == WorkerInit /\ [][WorkerNext]_workerVars

-----------------------------------------------------------------------------
(* Properties.                                                             *)

\* Type correctness; the Influx client has been given no more than the loop
\* measured, and a size that is no size never gets as far as the loop.
WorkerTypeOK ==
    /\ TypeOK
    /\ phase \in {"flags", "tracer", "config", "size", "setup", "connect", "register",
                  "operate", "close", "ended"}
    /\ status \in {"none", "exit0", "exit1", "panic", "killed"}
    /\ numWriters \in NumWriters
    /\ role \in {"none", "read", "write"}
    /\ size \in {"small", "large", "huge"}
    /\ decoded \in BOOLEAN
    /\ offered \in 0..points

\* A worker panics only over its configuration: an operationPeriod that is
\* missing or negative, a size no string can have, no operationConfig, or
\* readers without writers.  Failing calls, data that is too long for the CLI
\* and odd durations never do it.
PanicsAreConfigured ==
    status = "panic" =>
        \/ period <= 0
        \/ size = "huge"
        \/ ~decoded
        \/ role = "read" /\ numWriters = 0

\* Exit status 0 of a worker means that its set-up succeeded and its loop
\* came to its end, with no iteration cut short by a panic on the way.
SuccessIsComplete ==
    status = "exit0" => pc = "done" /\ i = OperationsPerStream

\* Every duration that was measured has been handed to Influx when the
\* process ends, unless it was killed: Close waits for the client's buffer.
PointsAreOffered ==
    phase = "ended" /\ status # "killed" => offered = points
=============================================================================
