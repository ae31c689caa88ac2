-------------------------- MODULE ExperimentLedger --------------------------
(***************************************************************************)
(* The operations of the benchmark: each worker's loop of a write and a    *)
(* read (benchmark/worker/worker.go), the CLI calls they make              *)
(* (chaincodes/*.go) and the chaincode that serves them                    *)
(* (fabric-chaincode/internal/chaincode/*.go) on the peers of a Fabric     *)
(* channel.                                                                *)
(*                                                                         *)
(* A write is endorsed by one peer, ordered into the channel's log and     *)
(* committed by each peer in its own time.  The CLI returns when the peer  *)
(* it asked has committed it, or fails at any earlier moment; then the     *)
(* transaction may still arrive, or stay pending for ever, which is how a  *)
(* lost one is modelled.  A read is answered by one peer from what it has  *)
(* committed.  Workers that die may be started again.  The data written is *)
(* left out, it only fills the ledger.                                     *)
(***************************************************************************)
EXTENDS Integers, FiniteSets, SequencesExt

CONSTANTS
    Worker,
    KeyOf,          \* the Id of each worker, the key it reads and writes
    Peer,           \* the peers in the profile
    OperationsPerStream,
    MaxFaults       \* bound on CLI calls that fail and containers that restart

ASSUME LoopAssumption ==
    {OperationsPerStream, MaxFaults} \subseteq Nat
ASSUME KeyAssumption == DOMAIN KeyOf = Worker

VARIABLES
    pc,         \* where each worker is in its loop
    run,        \* restarts of each worker so far
    ops,        \* iterations the worker has finished
    counter,    \* Counter of the worker's CCWorker
    current,    \* the transaction of the CLI call under way
    pending,    \* endorsed transactions that are not ordered
    chain,      \* the ordered transactions
    height,     \* how many of them each peer has committed
    acked,      \* history: the writes a worker was told succeeded
    readOk,     \* the "read" points the workers pushed to Influx
    writeOk,    \* and the "write" points
    served,     \* the chaincode's metrics, by function and success
    faults      \* CLI calls that failed and restarts so far

workerVars == <<pc, run, ops, counter, current, acked, readOk, writeOk>>
fabricVars == <<pending, chain, height>>
vars == <<workerVars, fabricVars, served, faults>>

Key == {KeyOf[w] : w \in Worker}

Tx == [worker : Worker, run : 0..MaxFaults, op : 0..OperationsPerStream - 1,
       key : Key, counter : Nat, peer : Peer]

NoTx == <<>>

\* The functions of the chaincode that the workers call.
Function == {"experimentWrite", "experimentRead"}

Init ==
    /\ pc = [w \in Worker |-> "write"]
    /\ run = [w \in Worker |-> 0]
    /\ ops = [w \in Worker |-> 0]
    /\ counter = [w \in Worker |-> 0]
    /\ current = [w \in Worker |-> NoTx]
    /\ pending = {}
    /\ chain = <<>>
    /\ height = [p \in Peer |-> 0]
    /\ acked = {}
    /\ readOk = 0
    /\ writeOk = 0
    /\ served = [f \in Function \X BOOLEAN |-> 0]
    /\ faults = 0

-----------------------------------------------------------------------------
(* The chaincode.                                                          *)

Committed(p) == {chain[n] : n \in 1..height[p]}

\* GetState finds the key in what the peer has committed.
Present(k, p) == \E t \in Committed(p) : t.key = k

\* Invoke records every call it dispatches, and whether it succeeded.
Invoke(fcn, success) == served' = [served EXCEPT ![<<fcn, success>>] = @ + 1]

\* ExperimentWrite parses its arguments and puts the state.
ExperimentWrite(t) ==
    /\ Invoke("experimentWrite", TRUE)
    /\ pending' = pending \cup {t}

\* ExperimentRead unmarshals what GetState returned: nothing is an error.
ExperimentRead(k, p, success) ==
    /\ success = Present(k, p)
    /\ Invoke("experimentRead", success)

-----------------------------------------------------------------------------
(* The worker.                                                             *)

Fault == faults < MaxFaults /\ faults' = faults + 1

\* Mutant: the loop runs once too often.
CallWrite_OneMore(w) ==
    /\ pc[w] = "write"
    /\ ops[w] <= OperationsPerStream
    /\ \E p \in Peer :
          LET t == [worker |-> w, run |-> run[w], op |-> ops[w],
                    key |-> KeyOf[w], counter |-> counter[w], peer |-> p]
          IN  /\ current' = [current EXCEPT ![w] = t]
              /\ ExperimentWrite(t)
    /\ pc' = [pc EXCEPT ![w] = "invoke"]
    /\ UNCHANGED <<run, ops, counter, acked, readOk, writeOk, chain, height>>

\* writeKey: the CLI invokes experimentWrite on a random peer.
CallWrite(w) ==
    /\ pc[w] = "write"
    /\ ops[w] < OperationsPerStream
    /\ \E p \in Peer :
          LET t == [worker |-> w, run |-> run[w], op |-> ops[w],
                    key |-> KeyOf[w], counter |-> counter[w], peer |-> p]
          IN  /\ current' = [current EXCEPT ![w] = t]
              /\ ExperimentWrite(t)
    /\ pc' = [pc EXCEPT ![w] = "invoke"]
    /\ UNCHANGED <<run, ops, counter, acked, readOk, writeOk, chain, height>>

\* The CLI exits with status 0: the Counter moves on, and the duration goes
\* to Influx.  That the peer has committed the transaction by then is what is
\* assumed of the CLI; the worker looks at its exit status only.
WriteSucceeds(w) ==
    /\ pc[w] = "invoke"
    /\ current[w] \in Committed(current[w].peer)
    /\ counter' = [counter EXCEPT ![w] = @ + 1]
    /\ acked' = acked \cup {current[w]}
    /\ writeOk' = writeOk + 1
    /\ current' = [current EXCEPT ![w] = NoTx]
    /\ pc' = [pc EXCEPT ![w] = "read"]
    /\ UNCHANGED <<run, ops, readOk, fabricVars, served>>

\* Mutant: the Counter moves on whether the call succeeded or not.
WriteFails_Counts(w) ==
    /\ Fault
    /\ pc[w] = "invoke" \/ (pc[w] = "write" /\ ops[w] < OperationsPerStream)
    /\ counter' = [counter EXCEPT ![w] = @ + 1]
    /\ current' = [current EXCEPT ![w] = NoTx]
    /\ pc' = [pc EXCEPT ![w] = "read"]
    /\ UNCHANGED <<run, ops, acked, readOk, writeOk, fabricVars, served>>

\* The CLI fails, before the peer was asked (no profile, no such peer), by
\* the chaincode's error (PutState fails) or while it waits.  The worker goes
\* on with the read.
WriteFails(w) ==
    /\ Fault
    /\ pc[w] = "invoke" \/ (pc[w] = "write" /\ ops[w] < OperationsPerStream)
    /\ current' = [current EXCEPT ![w] = NoTx]
    /\ pc' = [pc EXCEPT ![w] = "read"]
    /\ UNCHANGED served \/ (pc[w] = "write" /\ Invoke("experimentWrite", FALSE))
    /\ UNCHANGED <<run, ops, counter, acked, readOk, writeOk, fabricVars>>

\* The end of an iteration, with its sleep.
EndIteration(w) ==
    /\ pc' = [pc EXCEPT ![w] = "write"]
    /\ ops' = [ops EXCEPT ![w] = @ + 1]

\* readKey: the CLI queries experimentRead on a random peer.
ReadSucceeds(w) ==
    /\ pc[w] = "read"
    /\ \E p \in Peer : ExperimentRead(KeyOf[w], p, TRUE)
    /\ readOk' = readOk + 1
    /\ EndIteration(w)
    /\ UNCHANGED <<run, counter, current, acked, writeOk, fabricVars>>

\* Mutant: the error of the CLI is dropped and the operation is measured.
ReadFails_Measured(w) ==
    /\ pc[w] = "read"
    /\ \E p \in Peer : ExperimentRead(KeyOf[w], p, FALSE)
    /\ readOk' = readOk + 1
    /\ EndIteration(w)
    /\ UNCHANGED <<run, counter, current, acked, writeOk, fabricVars>>

\* The peer has no such key.
ReadFails(w) ==
    /\ pc[w] = "read"
    /\ \E p \in Peer : ExperimentRead(KeyOf[w], p, FALSE)
    /\ EndIteration(w)
    /\ UNCHANGED <<run, counter, current, acked, readOk, writeOk, fabricVars>>

\* The CLI fails, before the peer was asked, by the chaincode's error
\* (GetState fails) or after the peer answered.
ReadLost(w) ==
    /\ Fault
    /\ pc[w] = "read"
    /\ \/ UNCHANGED served
       \/ Invoke("experimentRead", FALSE)
       \/ \E p \in Peer, success \in BOOLEAN : ExperimentRead(KeyOf[w], p, success)
    /\ EndIteration(w)
    /\ UNCHANGED <<run, counter, current, acked, readOk, writeOk, fabricVars>>

Finish(w) ==
    /\ pc[w] = "write"
    /\ ops[w] = OperationsPerStream
    /\ pc' = [pc EXCEPT ![w] = "done"]
    /\ UNCHANGED <<run, ops, counter, current, acked, readOk, writeOk, fabricVars, served>>

\* The container dies and starts again, from nothing.
Restart(w) ==
    /\ Fault
    /\ pc[w] # "done"
    /\ run' = [run EXCEPT ![w] = @ + 1]
    /\ pc' = [pc EXCEPT ![w] = "write"]
    /\ ops' = [ops EXCEPT ![w] = 0]
    /\ counter' = [counter EXCEPT ![w] = 0]
    /\ current' = [current EXCEPT ![w] = NoTx]
    /\ UNCHANGED <<acked, readOk, writeOk, fabricVars, served>>

-----------------------------------------------------------------------------
(* The Fabric channel.                                                     *)

Order ==
    \E t \in pending :
        /\ pending' = pending \ {t}
        /\ chain' = Append(chain, t)
        /\ UNCHANGED <<workerVars, height, served, faults>>

Commit ==
    \E p \in Peer :
        /\ height[p] < Len(chain)
        /\ height' = [height EXCEPT ![p] = @ + 1]
        /\ UNCHANGED <<workerVars, pending, chain, served, faults>>

WorkerStep(w) ==
    \/ WriteFails(w) \/ ReadLost(w) \/ Restart(w)
    \/ /\ \/ CallWrite(w) \/ WriteSucceeds(w) \/ ReadSucceeds(w) \/ ReadFails(w)
          \/ Finish(w)
       /\ UNCHANGED faults

Finished == \A w \in Worker : pc[w] = "done"

Next ==
    \/ \E w \in Worker : WorkerStep(w)
    \/ Order \/ Commit
    \/ Finished /\ UNCHANGED vars

Spec == Init /\ [][Next]_vars

-----------------------------------------------------------------------------
(* Properties.                                                             *)

\* Type correctness; a worker's loop keeps to its OperationsPerStream and
\* its Counter never passes the iterations it has begun.
TypeOK ==
    /\ pc \in [Worker -> {"write", "invoke", "read", "done"}]
    /\ run \in [Worker -> 0..MaxFaults]
    /\ ops \in [Worker -> 0..OperationsPerStream]
    /\ counter \in [Worker -> 0..OperationsPerStream]
    /\ DOMAIN current = Worker
    /\ \A w \in Worker : IF pc[w] = "invoke" THEN current[w] \in Tx ELSE current[w] = NoTx
    /\ pending \subseteq Tx
    /\ chain \in Seq(Tx)
    /\ height \in [Peer -> 0..Len(chain)]
    /\ acked \subseteq Tx
    /\ readOk \in Nat
    /\ writeOk \in Nat
    /\ served \in [Function \X BOOLEAN -> Nat]
    /\ faults \in 0..MaxFaults

\* The workers never measure a success that the chaincode did not record as
\* one; the chaincode may count more, answers get lost.
SuccessesServed ==
    /\ writeOk <= served[<<"experimentWrite", TRUE>>]
    /\ readOk <= served[<<"experimentRead", TRUE>>]

\* How the ledger serves the workers' sessions.
Sent == pending \cup ToSet(chain)
Sessions == INSTANCE SessionLedger WITH sent <- Sent, log <- chain

\* "counter is used during pruning": whatever calls fail late and whatever
\* workers restart, an iteration writes at most once, a worker's writes are
\* sent one after the other, the Counter of a write is the number of writes
\* that were acknowledged before it in the same run, and only the last write
\* of a worker is acknowledged, after it was ordered.
WritesAreSessions == Sessions!SessionSpec
=============================================================================
