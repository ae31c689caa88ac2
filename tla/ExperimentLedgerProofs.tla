----------------------- MODULE ExperimentLedgerProofs -----------------------
(***************************************************************************)
(* What reaches the ledger and what the workers measure of it, proved for  *)
(* any number of workers, peers, iterations and faults.                    *)
(***************************************************************************)
EXTENDS ExperimentLedger, FiniteSetTheorems, TLAPS

\* The Counter of a worker and its restarts keep up with what causes them.
LoopInv ==
    /\ \A w \in Worker : run[w] <= faults
    /\ \A w \in Worker : pc[w] \in {"invoke", "read"} => ops[w] < OperationsPerStream
    /\ \A w \in Worker : counter[w] <= IF pc[w] = "read" THEN ops[w] + 1 ELSE ops[w]

\* The call under way is of the worker's present run and Counter.
CurrentInv ==
    \A w \in Worker : pc[w] = "invoke" =>
        /\ current[w].worker = w
        /\ current[w].run = run[w]
        /\ current[w].counter = counter[w]

\* The counter before c of a run of w is on the ledger.
Precedes(w, r, c) ==
    \E m \in 1..Len(chain) :
        chain[m].worker = w /\ chain[m].run = r /\ chain[m].counter = c - 1

\* The ledger gets the counters of one run of a worker without a gap, each one
\* for the first time after the one before it.
CountersInOrder ==
    \A n \in 1..Len(chain) : chain[n].counter > 0 =>
        \E m \in 1..n - 1 : /\ chain[m].worker = chain[n].worker
                            /\ chain[m].run = chain[n].run
                            /\ chain[m].counter = chain[n].counter - 1

\* A worker counts on only after its last counter is on the ledger, and what
\* it sends carries that Counter.
CounterInv ==
    /\ \A w \in Worker : counter[w] > 0 => Precedes(w, run[w], counter[w])
    /\ \A t \in pending : t.counter > 0 => Precedes(t.worker, t.run, t.counter)
    /\ CountersInOrder

\* A write that was acknowledged is on the ledger of the peer that was asked.
AckedIsCommitted == \A t \in acked : t \in Committed(t.peer)

\* The writes that the chaincode may have recorded and no worker measured.
Invoking == {w \in Worker : pc[w] = "invoke"}

LedgerInv == TypeOK /\ LoopInv /\ CurrentInv /\ CounterInv /\ AckedIsCommitted

-----------------------------------------------------------------------------
(* The log of the channel only grows at its end.                           *)

\* What is on the ledger stays there when the next transaction is ordered.
LEMMA ChainGrows ==
    ASSUME NEW S, NEW s \in Seq(S), NEW t \in S
    PROVE  /\ Append(s, t) \in Seq(S)
           /\ Len(Append(s, t)) = Len(s) + 1
           /\ \A m \in 1..Len(s) : Append(s, t)[m] = s[m]
           /\ Append(s, t)[Len(s) + 1] = t
  OBVIOUS

\* The transaction of a call is one of Tx and names its worker and Counter.
LEMMA CallWriteStep ==
    ASSUME TypeOK, LoopInv, NEW w \in Worker, CallWrite(w)
    PROVE  \E t \in Tx : /\ current' = [current EXCEPT ![w] = t]
                         /\ pending' = pending \cup {t}
                         /\ t.worker = w
                         /\ t.run = run[w]
                         /\ t.op = ops[w]
                         /\ t.counter = counter[w]
                         /\ t.key = KeyOf[w]
<1>1. PICK p \in Peer :
          LET t == [worker |-> w, run |-> run[w], op |-> ops[w],
                    key |-> KeyOf[w], counter |-> counter[w], peer |-> p]
          IN  /\ current' = [current EXCEPT ![w] = t]
              /\ ExperimentWrite(t)
  BY DEF CallWrite
<1> DEFINE t == [worker |-> w, run |-> run[w], op |-> ops[w],
                 key |-> KeyOf[w], counter |-> counter[w], peer |-> p]
<1>2. run[w] \in 0..MaxFaults /\ counter[w] \in Nat /\ KeyOf[w] \in Key
  BY LoopAssumption DEF TypeOK, Key
<1>3. ops[w] \in 0..OperationsPerStream - 1
  BY LoopAssumption DEF TypeOK, CallWrite
<1>4. t \in Tx
  BY <1>2, <1>3 DEF Tx
<1>5. pending' = pending \cup {t}
  BY <1>1 DEF ExperimentWrite
<1> QED
  BY <1>1, <1>4, <1>5

-----------------------------------------------------------------------------
(* Type correctness.                                                       *)

\* What the numbers of a worker are within.
LEMMA Numbers ==
    ASSUME TypeOK, LoopInv, NEW w \in Worker
    PROVE  /\ MaxFaults \in Nat /\ OperationsPerStream \in Nat /\ faults \in Nat
           /\ run[w] \in Nat /\ run[w] <= faults
           /\ ops[w] \in Nat /\ ops[w] <= OperationsPerStream
           /\ pc[w] \in {"invoke", "read"} => ops[w] < OperationsPerStream
           /\ counter[w] \in Nat /\ counter[w] <= IF pc[w] = "read" THEN ops[w] + 1 ELSE ops[w]
  BY LoopAssumption DEF TypeOK, LoopInv

\* A call of a worker keeps the types.
LEMMA WorkerTypes ==
    ASSUME TypeOK, LoopInv, NEW w \in Worker, WorkerStep(w)
    PROVE  TypeOK' /\ LoopInv'
<1>n. /\ MaxFaults \in Nat /\ faults \in Nat /\ faults <= MaxFaults /\ readOk \in Nat
      /\ \A v \in Worker : run[v] \in Nat /\ run[v] <= faults
  BY Numbers DEF TypeOK
<1>f. Function \X BOOLEAN = {<<f, b>> : f \in Function, b \in BOOLEAN}
      /\ \A f \in Function, b \in BOOLEAN : served[<<f, b>>] + 1 \in Nat
  BY DEF TypeOK
<1>s. ASSUME NEW f \in Function, NEW b \in BOOLEAN, Invoke(f, b)
      PROVE  served' \in [Function \X BOOLEAN -> Nat]
  BY <1>s, <1>f DEF Invoke, TypeOK
<1> USE LoopAssumption
<1>1. CASE CallWrite(w) /\ UNCHANGED faults
  <2>1. PICK t \in Tx : current' = [current EXCEPT ![w] = t] /\ pending' = pending \cup {t}
    BY <1>1, CallWriteStep
  <2>2. served' \in [Function \X BOOLEAN -> Nat]
    BY <1>1, <1>s DEF CallWrite, ExperimentWrite, Function
  <2>3. pc[w] = "write" /\ ops[w] < OperationsPerStream /\ pc' = [pc EXCEPT ![w] = "invoke"]
        /\ UNCHANGED <<run, ops, counter, acked, readOk, writeOk, chain, height, faults>>
    BY <1>1 DEF CallWrite
  <2>4. \A v \in Worker : IF pc'[v] = "invoke" THEN current'[v] \in Tx ELSE current'[v] = NoTx
    BY <2>1, <2>3 DEF TypeOK
  <2>5. TypeOK'
    BY <2>1, <2>2, <2>3, <2>4 DEF TypeOK
  <2>6. LoopInv'
    BY <2>3 DEF TypeOK, LoopInv
  <2> QED
    BY <2>5, <2>6
<1>2. CASE WriteSucceeds(w) /\ UNCHANGED faults
  <2>1. counter[w] + 1 \in 0..OperationsPerStream /\ ops[w] < OperationsPerStream
    BY <1>2, Numbers DEF WriteSucceeds
  <2>2. \A v \in Worker : IF pc'[v] = "invoke" THEN current'[v] \in Tx ELSE current'[v] = NoTx
    BY <1>2 DEF WriteSucceeds, TypeOK
  <2>3. current[w] \in Tx /\ writeOk + 1 \in Nat
    BY <1>2 DEF WriteSucceeds, TypeOK
  <2>4. TypeOK'
    BY <1>2, <2>1, <2>2, <2>3 DEF WriteSucceeds, TypeOK, fabricVars
  <2>5. LoopInv'
    BY <1>2, <2>1, Numbers, SMTT(30) DEF WriteSucceeds, TypeOK, LoopInv
  <2> QED
    BY <2>4, <2>5
<1>3. CASE ((ReadSucceeds(w) \/ ReadFails(w)) /\ UNCHANGED faults) \/ ReadLost(w)
  <2>1. /\ pc[w] = "read"
        /\ pc' = [pc EXCEPT ![w] = "write"]
        /\ ops' = [ops EXCEPT ![w] = @ + 1]
        /\ readOk' = readOk \/ readOk' = readOk + 1
        /\ faults' = faults \/ Fault
        /\ UNCHANGED <<run, counter, current, acked, writeOk, fabricVars>>
    BY <1>3 DEF ReadSucceeds, ReadFails, ReadLost, EndIteration
  <2>2. served' \in [Function \X BOOLEAN -> Nat]
    BY <1>3, <1>s DEF ReadSucceeds, ReadFails, ReadLost, ExperimentRead, Function, TypeOK
  <2>3. ops[w] + 1 \in 0..OperationsPerStream /\ counter[w] <= ops[w] + 1
    BY <2>1, Numbers
  <2>4. faults' \in 0..MaxFaults /\ faults <= faults' /\ readOk' \in Nat
    BY <2>1, <1>n DEF Fault
  <2>5. \A v \in Worker : IF pc'[v] = "invoke" THEN current'[v] \in Tx ELSE current'[v] = NoTx
    BY <2>1 DEF TypeOK
  <2>6. TypeOK'
    BY <2>1, <2>2, <2>3, <2>4, <2>5 DEF TypeOK, fabricVars
  <2>7. LoopInv'
    <3>1. \A v \in Worker : run'[v] <= faults'
      BY <2>1, <2>4, <1>n
    <3>2. \A v \in Worker : pc'[v] \in {"invoke", "read"} => ops'[v] < OperationsPerStream
      BY <2>1 DEF TypeOK, LoopInv
    <3>3. \A v \in Worker : counter'[v] <= IF pc'[v] = "read" THEN ops'[v] + 1 ELSE ops'[v]
      BY <2>1, <2>3 DEF TypeOK, LoopInv
    <3> QED
      BY <3>1, <3>2, <3>3 DEF LoopInv
  <2> QED
    BY <2>6, <2>7
<1>4. CASE Finish(w) /\ UNCHANGED faults
  BY <1>4 DEF Finish, TypeOK, LoopInv, fabricVars
<1>5. CASE WriteFails(w)
  <2>1. /\ faults' \in 0..MaxFaults /\ faults <= faults'
        /\ ops[w] < OperationsPerStream /\ counter[w] <= ops[w] + 1
    BY <1>5, Numbers DEF WriteFails, Fault
  <2>2. \A v \in Worker : IF pc'[v] = "invoke" THEN current'[v] \in Tx ELSE current'[v] = NoTx
    BY <1>5 DEF WriteFails, TypeOK
  <2>s. served' \in [Function \X BOOLEAN -> Nat]
    BY <1>5, <1>s DEF WriteFails, Function, TypeOK
  <2>3. TypeOK'
    BY <1>5, <2>1, <2>2, <2>s DEF WriteFails, TypeOK, fabricVars
  <2>4. \A v \in Worker : run'[v] <= faults'
    BY <1>5, <2>1, <1>n DEF WriteFails
  <2>5. LoopInv'
    BY <1>5, <2>1, <2>4 DEF WriteFails, TypeOK, LoopInv
  <2> QED
    BY <2>3, <2>5
<1>6. CASE Restart(w)
  <2>1. /\ faults' \in 0..MaxFaults /\ faults <= faults'
        /\ run[w] + 1 \in 0..MaxFaults /\ run[w] + 1 <= faults'
    BY <1>6, Numbers, SMTT(30) DEF Restart, Fault, TypeOK
  <2>2. \A v \in Worker : IF pc'[v] = "invoke" THEN current'[v] \in Tx ELSE current'[v] = NoTx
    BY <1>6 DEF Restart, TypeOK
  <2>3. TypeOK'
    BY <1>6, <2>1, <2>2 DEF Restart, TypeOK, fabricVars
  <2>4. \A v \in Worker : run'[v] <= faults'
    BY <1>6, <2>1, <1>n DEF Restart, TypeOK
  <2>5. LoopInv'
    BY <1>6, <2>1, <2>4 DEF Restart, TypeOK, LoopInv
  <2> QED
    BY <2>3, <2>5
<1> QED
  BY <1>1, <1>2, <1>3, <1>4, <1>5, <1>6 DEF WorkerStep

\* So does the channel.
LEMMA FabricTypes ==
    ASSUME TypeOK, LoopInv, Order \/ Commit
    PROVE  TypeOK' /\ LoopInv'
<1>1. LoopInv'
  BY DEF LoopInv, Order, Commit, workerVars
<1>2. CASE Order
  <2>1. PICK t \in pending : pending' = pending \ {t} /\ chain' = Append(chain, t)
    BY <1>2 DEF Order
  <2>2. chain' \in Seq(Tx) /\ Len(chain') = Len(chain) + 1 /\ Len(chain) \in Nat
    BY <2>1, ChainGrows DEF TypeOK
  <2>3. height' \in [Peer -> 0..Len(chain')]
    BY <1>2, <2>2 DEF Order, TypeOK
  <2> QED
    BY <1>1, <1>2, <2>1, <2>2, <2>3 DEF Order, TypeOK, workerVars
<1>3. CASE Commit
  <2>1. height' \in [Peer -> 0..Len(chain)]
    BY <1>3 DEF Commit, TypeOK
  <2> QED
    BY <1>1, <1>3, <2>1 DEF Commit, TypeOK, workerVars
<1> QED
  BY <1>2, <1>3

-----------------------------------------------------------------------------
(* Counters.                                                               *)

\* The call under way keeps to the run and Counter of its worker.
LEMMA CurrentStep ==
    ASSUME TypeOK, LoopInv, CurrentInv, NEW w \in Worker, WorkerStep(w)
    PROVE  CurrentInv'
<1>1. CASE CallWrite(w)
  <2>1. PICK t \in Tx : current' = [current EXCEPT ![w] = t]
                        /\ t.worker = w /\ t.run = run[w] /\ t.counter = counter[w]
    BY <1>1, CallWriteStep
  <2> QED
    BY <1>1, <2>1 DEF CallWrite, CurrentInv, TypeOK
<1>2. CASE ~CallWrite(w)
  <2>1. \A v \in Worker : pc'[v] = "invoke" => v # w /\ pc[v] = "invoke"
    BY <1>2 DEF WorkerStep, WriteSucceeds, WriteFails, ReadSucceeds, ReadFails, ReadLost, Finish,
                Restart, EndIteration, TypeOK
  <2>2. \A v \in Worker : v # w => current'[v] = current[v] /\ run'[v] = run[v]
                                   /\ counter'[v] = counter[v]
    BY <1>2 DEF WorkerStep, WriteSucceeds, WriteFails, ReadSucceeds, ReadFails, ReadLost, Finish,
                Restart, EndIteration, TypeOK
  <2> QED
    BY <2>1, <2>2 DEF CurrentInv
<1> QED
  BY <1>1, <1>2

\* The channel's log and what is pending go on from the Counters.
LEMMA CounterStep ==
    ASSUME TypeOK, LoopInv, CurrentInv, CounterInv, NEW w \in Worker, WorkerStep(w)
    PROVE  CounterInv'
<1>1. chain' = chain
  BY DEF WorkerStep, CallWrite, WriteSucceeds, WriteFails, ReadSucceeds, ReadFails, ReadLost, Finish,
         Restart, fabricVars
<1>2. CountersInOrder'
  BY <1>1 DEF CounterInv, CountersInOrder
<1>3. CASE CallWrite(w)
  <2>1. PICK t \in Tx : pending' = pending \cup {t}
                        /\ t.worker = w /\ t.run = run[w] /\ t.counter = counter[w]
    BY <1>3, CallWriteStep
  <2>2. UNCHANGED <<run, counter>>
    BY <1>3 DEF CallWrite
  <2> QED
    BY <1>1, <1>2, <2>1, <2>2 DEF CounterInv, Precedes
<1>4. CASE WriteSucceeds(w)
  <2>1. PICK n \in 1..height[current[w].peer] : chain[n] = current[w]
    BY <1>4 DEF WriteSucceeds, Committed
  <2>2. current[w].peer \in Peer
    BY <1>4 DEF WriteSucceeds, TypeOK, Tx
  <2>3. n \in 1..Len(chain)
    BY <2>1, <2>2 DEF TypeOK
  <2>4. counter[w] \in Nat /\ counter'[w] = counter[w] + 1 /\ UNCHANGED <<run, pending>>
        /\ \A v \in Worker : v # w => counter'[v] = counter[v]
    BY <1>4, Numbers DEF WriteSucceeds, fabricVars, TypeOK
  <2>5. Precedes(w, run[w], counter'[w])
    <3>1. chain[n].worker = w /\ chain[n].run = run[w] /\ chain[n].counter = counter[w]
      BY <1>4, <2>1 DEF WriteSucceeds, CurrentInv
    <3>2. counter'[w] - 1 = counter[w]
      BY <2>4
    <3> QED
      BY <2>3, <3>1, <3>2 DEF Precedes
  <2>6. \A v \in Worker : counter'[v] > 0 => Precedes(v, run'[v], counter'[v])
    BY <2>4, <2>5 DEF CounterInv
  <2>7. \A t \in pending' : t.counter > 0 => Precedes(t.worker, t.run, t.counter)
    BY <2>4 DEF CounterInv
  <2> QED
    BY <1>1, <1>2, <2>6, <2>7 DEF CounterInv, Precedes
<1>5. CASE Restart(w)
  <2>1. counter'[w] = 0 /\ pending' = pending
        /\ \A v \in Worker : v # w => counter'[v] = counter[v] /\ run'[v] = run[v]
    BY <1>5 DEF Restart, fabricVars, TypeOK
  <2> QED
    BY <1>1, <1>2, <2>1 DEF CounterInv, Precedes
<1>6. CASE UNCHANGED <<run, counter, pending>>
  BY <1>1, <1>2, <1>6 DEF CounterInv, Precedes
<1> QED
  BY <1>3, <1>4, <1>5, <1>6 DEF WorkerStep, WriteFails, ReadSucceeds, ReadFails, ReadLost, Finish,
                               fabricVars

\* Ordering a transaction puts its counter behind the one before it.
LEMMA OrderStep ==
    ASSUME TypeOK, CounterInv, Order
    PROVE  CounterInv'
<1>1. PICK t \in pending : /\ pending' = pending \ {t}
                           /\ chain' = Append(chain, t)
                           /\ UNCHANGED <<run, counter>>
  BY DEF Order, workerVars
<1>2. /\ Len(chain) \in Nat
      /\ Len(chain') = Len(chain) + 1
      /\ \A m \in 1..Len(chain) : chain'[m] = chain[m]
      /\ chain'[Len(chain) + 1] = t
  BY <1>1, ChainGrows DEF TypeOK
<1>3. \A v, r, c : Precedes(v, r, c) => Precedes(v, r, c)'
  BY <1>2 DEF Precedes
<1>4. CountersInOrder'
  <2> SUFFICES ASSUME NEW n \in 1..Len(chain'), chain'[n].counter > 0
               PROVE  \E m \in 1..n - 1 : /\ chain'[m].worker = chain'[n].worker
                                           /\ chain'[m].run = chain'[n].run
                                           /\ chain'[m].counter = chain'[n].counter - 1
    BY DEF CountersInOrder
  <2>1. CASE n \in 1..Len(chain)
    BY <1>2, <2>1 DEF CounterInv, CountersInOrder
  <2>2. CASE n = Len(chain) + 1
    BY <1>1, <1>2, <2>2 DEF CounterInv, Precedes
  <2> QED
    BY <1>2, <2>1, <2>2
<1> QED
  BY <1>1, <1>3, <1>4 DEF CounterInv

\* What a peer has committed it keeps.
LEMMA CommittedGrows ==
    ASSUME TypeOK, Order \/ Commit
    PROVE  \A p \in Peer : Committed(p) \subseteq Committed(p)'
<1>1. CASE Order
  <2>1. PICK t \in pending : chain' = Append(chain, t) /\ height' = height
    BY <1>1 DEF Order
  <2>2. \A p \in Peer : \A m \in 1..height[p] : chain'[m] = chain[m]
    BY <2>1, ChainGrows DEF TypeOK
  <2> QED
    BY <2>1, <2>2 DEF Committed
<1>2. CASE Commit
  <2>1. chain' = chain /\ \A p \in Peer : height[p] \in Nat /\ height'[p] \in Nat /\ height[p] <= height'[p]
    BY <1>2 DEF Commit, TypeOK
  <2> QED
    BY <2>1 DEF Committed
<1> QED
  BY <1>1, <1>2

\* The invariant is inductive.
LEMMA LedgerStep == LedgerInv /\ [Next]_vars => LedgerInv'
<1> SUFFICES ASSUME LedgerInv, [Next]_vars
             PROVE  LedgerInv'
  OBVIOUS
<1> USE DEF LedgerInv
<1>1. ASSUME NEW w \in Worker, WorkerStep(w)
      PROVE  LedgerInv'
  <2>1. TypeOK' /\ LoopInv'
    BY <1>1, WorkerTypes
  <2>2. CurrentInv' /\ CounterInv'
    BY <1>1, CurrentStep, CounterStep
  <2>3. UNCHANGED <<chain, height>>
    BY <1>1 DEF WorkerStep, CallWrite, WriteSucceeds, WriteFails, ReadSucceeds, ReadFails, ReadLost,
                Finish, Restart, fabricVars
  <2>4. acked' = acked \/ (acked' = acked \cup {current[w]} /\ current[w] \in Committed(current[w].peer))
    BY <1>1 DEF WorkerStep, CallWrite, WriteSucceeds, WriteFails, ReadSucceeds, ReadFails, ReadLost,
                Finish, Restart
  <2>5. AckedIsCommitted'
    BY <2>3, <2>4 DEF AckedIsCommitted, Committed
  <2> QED
    BY <2>1, <2>2, <2>5
<1>2. CASE Order \/ Commit
  <2>1. TypeOK' /\ LoopInv'
    BY <1>2, FabricTypes
  <2>2. CurrentInv' /\ acked' = acked
    BY <1>2 DEF Order, Commit, workerVars, CurrentInv
  <2>3. CounterInv'
    <3>1. CASE Order
      BY <3>1, OrderStep
    <3>2. CASE Commit
      BY <3>2 DEF Commit, workerVars, CounterInv, CountersInOrder, Precedes
    <3> QED
      BY <1>2, <3>1, <3>2
  <2>4. AckedIsCommitted'
    <3>1. \A t \in acked : t.peer \in Peer
      BY DEF TypeOK, Tx
    <3> QED
      BY <1>2, <2>2, <3>1, CommittedGrows DEF AckedIsCommitted
  <2> QED
    BY <2>1, <2>2, <2>3, <2>4
<1>3. CASE UNCHANGED vars
  BY <1>3 DEF vars, workerVars, fabricVars, TypeOK, LoopInv, CurrentInv, CounterInv,
              CountersInOrder, Precedes, AckedIsCommitted, Committed
<1> QED
  BY <1>1, <1>2, <1>3 DEF Next

LEMMA LedgerInvariant == Spec => []LedgerInv
<1>1. Init => LedgerInv
  <2> SUFFICES ASSUME Init
               PROVE  LedgerInv
    OBVIOUS
  <2>1. TypeOK
    BY LoopAssumption DEF Init, TypeOK
  <2>2. LoopInv /\ CurrentInv /\ CounterInv /\ AckedIsCommitted
    BY LoopAssumption DEF Init, LoopInv, CurrentInv, CounterInv, CountersInOrder, AckedIsCommitted
  <2> QED
    BY <2>1, <2>2 DEF LedgerInv
<1> QED
  BY <1>1, LedgerStep, PTL DEF Spec

\* The loops keep to their iterations, with any number of faults.
THEOREM LedgerTypeCorrect == Spec => []TypeOK
<1>1. LedgerInv => TypeOK
  BY DEF LedgerInv
<1> QED
  BY <1>1, LedgerInvariant, PTL

\* On the ledger the counters of a worker's run come in order, although calls
\* may fail after their transaction was sent, and transactions be late.
THEOREM CountersStayInOrder == Spec => []CountersInOrder
<1>1. LedgerInv => CountersInOrder
  BY DEF LedgerInv, CounterInv
<1> QED
  BY <1>1, LedgerInvariant, PTL

-----------------------------------------------------------------------------
(* What is measured.                                                       *)

\* The writes that workers measured and those under way were all recorded.
MeasureInv ==
    /\ IsFiniteSet(Invoking)
    /\ writeOk + Cardinality(Invoking) <= served[<<"experimentWrite", TRUE>>]
    /\ readOk <= served[<<"experimentRead", TRUE>>]

\* A call adds the worker to those whose write is under way, its end removes it.
LEMMA MeasureStep ==
    ASSUME TypeOK, TypeOK', MeasureInv, NEW w \in Worker, WorkerStep(w)
    PROVE  MeasureInv'
<1> DEFINE sw == served[<<"experimentWrite", TRUE>>]
           sr == served[<<"experimentRead", TRUE>>]
<1>1. /\ sw \in Nat /\ sw' \in Nat /\ sr \in Nat /\ sr' \in Nat
      /\ writeOk \in Nat /\ readOk \in Nat
  BY DEF TypeOK, Function
<1>2. Cardinality(Invoking) \in Nat /\ Cardinality(Invoking \cup {w}) \in Nat
  BY FS_CardinalityType, FS_AddElement DEF MeasureInv
<1>3. sw <= sw' /\ sr <= sr'
  <2>1. served' = served \/ \E f \in Function, b \in BOOLEAN : Invoke(f, b)
    BY DEF WorkerStep, CallWrite, ExperimentWrite, WriteSucceeds, WriteFails, ReadSucceeds,
           ReadFails, ReadLost, ExperimentRead, Finish, Restart, Function
  <2>2. CASE \E f \in Function, b \in BOOLEAN : Invoke(f, b)
    <3>1. PICK f \in Function, b \in BOOLEAN : served' = [served EXCEPT ![<<f, b>>] = @ + 1]
      BY <2>2 DEF Invoke
    <3>2. \A x \in Function \X BOOLEAN : served'[x] = served[x] \/ served'[x] = served[x] + 1
      BY <3>1 DEF TypeOK
    <3>3. /\ <<"experimentWrite", TRUE>> \in Function \X BOOLEAN
          /\ <<"experimentRead", TRUE>> \in Function \X BOOLEAN
      BY DEF Function
    <3>4. (sw' = sw \/ sw' = sw + 1) /\ (sr' = sr \/ sr' = sr + 1)
      BY <3>2, <3>3
    <3> QED
      BY <1>1, <3>4
  <2> QED
    BY <1>1, <2>1, <2>2
<1>4. CASE CallWrite(w)
  <2>1. w \notin Invoking /\ Invoking' = Invoking \cup {w}
    BY <1>4 DEF CallWrite, Invoking, TypeOK
  <2>2. IsFiniteSet(Invoking') /\ Cardinality(Invoking') = Cardinality(Invoking) + 1
    BY <2>1, FS_AddElement DEF MeasureInv
  <2>3. sw' = sw + 1 /\ UNCHANGED <<writeOk, readOk>>
    BY <1>4 DEF CallWrite, ExperimentWrite, Invoke, TypeOK, Function
  <2> QED
    BY <1>1, <1>2, <1>3, <2>2, <2>3 DEF MeasureInv
<1>5. CASE WriteSucceeds(w)
  <2>1. w \in Invoking /\ Invoking' = Invoking \ {w}
    BY <1>5 DEF WriteSucceeds, Invoking, TypeOK
  <2>2. IsFiniteSet(Invoking') /\ Cardinality(Invoking') = Cardinality(Invoking) - 1
    BY <2>1, FS_RemoveElement DEF MeasureInv
  <2>3. writeOk' = writeOk + 1 /\ readOk' = readOk
    BY <1>5 DEF WriteSucceeds
  <2> QED
    BY <1>1, <1>2, <1>3, <2>2, <2>3 DEF MeasureInv
<1>6. CASE ~CallWrite(w) /\ ~WriteSucceeds(w)
  <2>1. Invoking' = Invoking \ {w} \/ Invoking' = Invoking
    BY <1>6 DEF WorkerStep, WriteFails, ReadSucceeds, ReadFails, ReadLost, Finish, Restart,
                EndIteration, Invoking, TypeOK
  <2>2. /\ IsFiniteSet(Invoking')
        /\ Cardinality(Invoking') \in Nat
        /\ Cardinality(Invoking') <= Cardinality(Invoking)
    BY <1>2, <2>1, FS_RemoveElement, FS_CardinalityType DEF MeasureInv
  <2>3. /\ writeOk' = writeOk
        /\ readOk' = readOk \/ (readOk' = readOk + 1 /\ sr' = sr + 1)
    BY <1>6 DEF WorkerStep, WriteFails, ReadSucceeds, ReadFails, ReadLost, ExperimentRead, Invoke,
                Finish, Restart, TypeOK, Function
  <2> QED
    BY <1>1, <1>2, <1>3, <2>2, <2>3 DEF MeasureInv
<1> QED
  BY <1>4, <1>5, <1>6

\* What the workers measure as successes the chaincode has recorded as
\* successes, for any number of workers and faults.
THEOREM MeasuredIsServed == Spec => []SuccessesServed
<1>1. Init => MeasureInv
  <2> SUFFICES ASSUME Init
               PROVE  MeasureInv
    OBVIOUS
  <2>1. Invoking = {}
    BY DEF Init, Invoking
  <2>2. IsFiniteSet(Invoking) /\ Cardinality(Invoking) = 0
    BY <2>1, FS_EmptySet
  <2>3. /\ writeOk = 0 /\ readOk = 0
        /\ served[<<"experimentWrite", TRUE>>] = 0 /\ served[<<"experimentRead", TRUE>>] = 0
    BY DEF Init, Function
  <2> QED
    BY <2>2, <2>3 DEF MeasureInv
<1>2. TypeOK /\ TypeOK' /\ MeasureInv /\ [Next]_vars => MeasureInv'
  <2> SUFFICES ASSUME TypeOK, TypeOK', MeasureInv, [Next]_vars
               PROVE  MeasureInv'
    OBVIOUS
  <2>1. CASE \E w \in Worker : WorkerStep(w)
    BY <2>1, MeasureStep
  <2>2. CASE UNCHANGED <<pc, writeOk, readOk, served>>
    BY <2>2 DEF MeasureInv, Invoking
  <2> QED
    BY <2>1, <2>2 DEF Next, Order, Commit, vars, workerVars
<1>3. TypeOK /\ MeasureInv => SuccessesServed
  <2> SUFFICES ASSUME TypeOK, MeasureInv
               PROVE  SuccessesServed
    OBVIOUS
  <2>1. Cardinality(Invoking) \in Nat
    BY FS_CardinalityType DEF MeasureInv
  <2>2. writeOk \in Nat /\ served[<<"experimentWrite", TRUE>>] \in Nat
    BY DEF TypeOK, Function
  <2> QED
    BY <2>1, <2>2 DEF MeasureInv, SuccessesServed
<1> QED
  BY <1>1, <1>2, <1>3, LedgerTypeCorrect, PTL DEF Spec

-----------------------------------------------------------------------------
(* The sessions of the workers.                                            *)

\* A write of a worker's past: of an earlier run, of an earlier iteration, or
\* of this iteration, whose write was sent.
Past(t) ==
    LET w == t.worker IN
    \/ t.run < run[w]
    \/ t.run = run[w] /\ t.op < ops[w]
    \/ t.run = run[w] /\ t.op = ops[w] /\ pc[w] \in {"invoke", "read"}

\* The write under way is the last that its worker sent, and still open; what
\* is pending was not ordered, what was acknowledged was.
SendInv ==
    /\ pending \cap ToSet(chain) = {}
    /\ acked \subseteq ToSet(chain)
    /\ \A t \in Sent : Past(t)
    /\ \A w \in Worker : pc[w] = "invoke" =>
          /\ current[w] \in Sent \ acked
          /\ \A u \in Sent : u.worker = w => u = current[w] \/ Sessions!Before(u, current[w])

\* The Counter of a worker is the number of writes of its run that it was
\* told succeeded.
CountInv ==
    /\ IsFiniteSet(acked)
    /\ \A w \in Worker : counter[w] = Cardinality(Sessions!Acknowledged(w, run[w]))

SessionInv == SendInv /\ CountInv

\* The sessions count with the same operators, by other names.
LEMMA SessionOperators ==
    /\ \A S : Sessions!Cardinality(S) = Cardinality(S)
    /\ \A s : Sessions!ToSet(s) = ToSet(s)
  BY DEF Sessions!Cardinality, Cardinality, Sessions!ToSet, ToSet

\* Ordering a transaction adds it to those that were ordered.
LEMMA OrderedSet ==
    ASSUME NEW S, NEW s \in Seq(S), NEW t \in S
    PROVE  ToSet(Append(s, t)) = ToSet(s) \cup {t}
<1>1. \A x : x \in ToSet(s) <=> \E i \in 1..Len(s) : s[i] = x
  BY DEF ToSet
<1>2. \A x : x \in ToSet(Append(s, t)) <=> \E i \in 1..Len(s) + 1 : Append(s, t)[i] = x
  BY DEF ToSet
<1>3. 1..Len(s) + 1 = (1..Len(s)) \cup {Len(s) + 1} /\ Len(s) \in Nat
  OBVIOUS
<1> QED
  BY <1>1, <1>2, <1>3, ChainGrows

\* The numbers that order the writes.
LEMMA SentTypes ==
    ASSUME TypeOK
    PROVE  /\ Sent \subseteq Tx
           /\ \A t \in Sent : t.worker \in Worker /\ t.run \in Nat /\ t.op \in Int
           /\ \A w \in Worker : run[w] \in Nat /\ ops[w] \in Nat
<1>1. ToSet(chain) \subseteq Tx
  BY DEF TypeOK, ToSet
<1> QED
  BY <1>1, LoopAssumption DEF TypeOK, Sent, Tx

\* A worker sends its next write after its earlier ones, with its Counter.
LEMMA CallIsSent ==
    ASSUME LedgerInv, SessionInv, NEW w \in Worker, CallWrite(w)
    PROVE  SessionInv' /\ Sessions!Send
<1>1. PICK t \in Tx : /\ current' = [current EXCEPT ![w] = t]
                      /\ pending' = pending \cup {t}
                      /\ t.worker = w
                      /\ t.run = run[w]
                      /\ t.op = ops[w]
                      /\ t.counter = counter[w]
  BY CallWriteStep DEF LedgerInv
<1>2. /\ pc[w] = "write"
      /\ pc' = [pc EXCEPT ![w] = "invoke"]
      /\ UNCHANGED <<run, ops, counter, acked, chain>>
  BY DEF CallWrite
<1>3. \A u \in Sent : u.worker = w => Sessions!Before(u, t)
  BY <1>1, <1>2 DEF SessionInv, SendInv, Past, Sessions!Before
<1>4. t \notin Sent
  BY <1>1, <1>3, SentTypes DEF Sessions!Before, LedgerInv
<1>5. Sent' = Sent \cup {t}
  BY <1>1, <1>2 DEF Sent
<1>6. SendInv'
  <2>1. t \notin ToSet(chain) /\ t \notin acked
    BY <1>4 DEF Sent, SessionInv, SendInv
  <2>2. \A u \in Sent' : Past(u)'
    <3>1. \A v \in Worker : pc[v] \in {"invoke", "read"} => pc'[v] \in {"invoke", "read"}
      BY <1>2 DEF LedgerInv, TypeOK
    <3>2. Past(t)'
      BY <1>1, <1>2 DEF Past, LedgerInv, TypeOK
    <3>3. \A u \in Sent : u.worker \in Worker /\ Past(u)
      BY SentTypes DEF SessionInv, SendInv, LedgerInv
    <3> QED
      BY <1>2, <1>5, <3>1, <3>2, <3>3 DEF Past
  <2>3. ASSUME NEW v \in Worker, pc'[v] = "invoke"
        PROVE  /\ current'[v] \in Sent' \ acked'
               /\ \A u \in Sent' : u.worker = v => u = current'[v] \/ Sessions!Before(u, current'[v])
    <3>1. CASE v = w
      BY <1>1, <1>2, <1>3, <1>5, <2>1, <3>1 DEF LedgerInv, TypeOK
    <3>2. CASE v # w
      BY <1>1, <1>2, <1>5, <2>3, <3>2 DEF SessionInv, SendInv, LedgerInv, TypeOK
    <3> QED
      BY <3>1, <3>2
  <2> QED
    BY <1>1, <1>2, <2>1, <2>2, <2>3 DEF SessionInv, SendInv, Sessions!Before
<1>7. CountInv'
  BY <1>2 DEF SessionInv, CountInv, Sessions!Acknowledged
<1>8. t.counter = Cardinality(Sessions!Acknowledged(t.worker, t.run))
  BY <1>1 DEF SessionInv, CountInv
<1>9. Sessions!Send
  <2>1. t \in Sent' \ Sent /\ UNCHANGED <<chain, acked>>
    BY <1>2, <1>4, <1>5
  <2>2. \A u \in Sent : u.worker = t.worker => Sessions!Before(u, t)
    BY <1>1, <1>3
  <2> QED
    BY <1>5, <1>8, <2>1, <2>2, SessionOperators DEF Sessions!Send
<1> QED
  BY <1>6, <1>7, <1>9 DEF SessionInv

\* Ordering places a write that was pending.
LEMMA OrderPlaces ==
    ASSUME LedgerInv, SessionInv, Order
    PROVE  SessionInv' /\ Sessions!Place
<1>1. PICK t \in pending : /\ pending' = pending \ {t}
                           /\ chain' = Append(chain, t)
                           /\ UNCHANGED <<pc, run, ops, counter, current, acked>>
  BY DEF Order, workerVars
<1>2. ToSet(chain') = ToSet(chain) \cup {t} /\ t \notin ToSet(chain)
  BY <1>1, OrderedSet DEF LedgerInv, TypeOK, SessionInv, SendInv
<1>3. Sent' = Sent
  BY <1>1, <1>2 DEF Sent
<1>4. SendInv'
  BY <1>1, <1>2, <1>3 DEF SessionInv, SendInv, Past, Sessions!Before
<1>5. CountInv'
  BY <1>1 DEF SessionInv, CountInv, Sessions!Acknowledged
<1>6. t \in Sent \ ToSet(chain) /\ UNCHANGED acked
  BY <1>1, <1>2 DEF Sent
<1> QED
  BY <1>1, <1>3, <1>4, <1>5, <1>6, SessionOperators DEF SessionInv, Sessions!Place

\* A call that succeeds acknowledges the last write of its worker and counts
\* it.
LEMMA SuccessAcknowledges ==
    ASSUME LedgerInv, SessionInv, NEW w \in Worker, WriteSucceeds(w)
    PROVE  SessionInv' /\ Sessions!Acknowledge
<1>1. PICK t : t = current[w]
  OBVIOUS
<1>2. /\ pc[w] = "invoke"
      /\ pc' = [pc EXCEPT ![w] = "read"]
      /\ counter' = [counter EXCEPT ![w] = @ + 1]
      /\ acked' = acked \cup {t}
      /\ current' = [current EXCEPT ![w] = NoTx]
      /\ UNCHANGED <<run, ops, pending, chain>>
  BY <1>1 DEF WriteSucceeds, fabricVars
<1>3. /\ t \notin acked /\ t \in Sent
      /\ t.worker = w /\ t.run = run[w]
      /\ \A u \in Sent : u.worker = w => u = t \/ Sessions!Before(u, t)
  BY <1>1, <1>2 DEF SessionInv, SendInv, LedgerInv, CurrentInv
<1>4. t \in ToSet(chain)
  <2>1. PICK n \in 1..height[t.peer] : chain[n] = t
    BY <1>1 DEF WriteSucceeds, Committed
  <2>2. t.peer \in Peer
    BY <1>1, <1>2 DEF LedgerInv, TypeOK, Tx
  <2>3. n \in 1..Len(chain)
    BY <2>1, <2>2 DEF LedgerInv, TypeOK
  <2> QED
    BY <2>1, <2>3 DEF ToSet
<1>5. Sent' = Sent /\ ToSet(chain') = ToSet(chain)
  BY <1>2 DEF Sent
<1>6. SendInv'
  <2>1. \A u \in Sent : u.worker \in Worker /\ Past(u)
    BY SentTypes DEF SessionInv, SendInv, LedgerInv
  <2>2. \A v \in Worker : pc[v] \in {"invoke", "read"} => pc'[v] \in {"invoke", "read"}
    BY <1>2 DEF LedgerInv, TypeOK
  <2>3. \A u \in Sent' : Past(u)'
    BY <1>2, <1>5, <2>1, <2>2 DEF Past
  <2>4. \A v \in Worker : pc'[v] = "invoke" => v # w /\ pc[v] = "invoke" /\ current'[v] = current[v]
    BY <1>2 DEF LedgerInv, TypeOK
  <2>5. \A v \in Worker : pc'[v] = "invoke" => current[v] # t
    BY <1>3, <2>4 DEF LedgerInv, CurrentInv
  <2>6. acked' \subseteq ToSet(chain')
    BY <1>2, <1>4, <1>5 DEF SessionInv, SendInv
  <2>7. pending' \cap ToSet(chain') = {}
    BY <1>2, <1>5 DEF SessionInv, SendInv
  <2>8. ASSUME NEW v \in Worker, pc'[v] = "invoke"
        PROVE  /\ current'[v] \in Sent' \ acked'
               /\ \A u \in Sent' : u.worker = v => u = current'[v] \/ Sessions!Before(u, current'[v])
    BY <1>2, <1>5, <2>4, <2>5, <2>8 DEF SessionInv, SendInv
  <2> QED
    BY <2>3, <2>6, <2>7, <2>8 DEF SendInv, Sessions!Before
<1>7. CountInv'
  <2>1. IsFiniteSet(acked) /\ IsFiniteSet(acked')
    BY <1>2, FS_AddElement DEF SessionInv, CountInv
  <2>2. \A v \in Worker : v # w => Sessions!Acknowledged(v, run[v])' = Sessions!Acknowledged(v, run[v])
    BY <1>2, <1>3 DEF Sessions!Acknowledged
  <2> DEFINE A == Sessions!Acknowledged(w, run[w])
  <2>3. A' = A \cup {t} /\ t \notin A
    BY <1>2, <1>3 DEF Sessions!Acknowledged
  <2>4. IsFiniteSet(A)
    BY <2>1, FS_Subset DEF Sessions!Acknowledged
  <2>5. Cardinality(A \cup {t}) = Cardinality(A) + 1
    BY <2>3, <2>4, FS_AddElement
  <2>6. counter'[w] = Cardinality(A')
    <3>1. counter[w] = Cardinality(A)
      BY DEF SessionInv, CountInv
    <3>2. counter'[w] = counter[w] + 1
      BY <1>2 DEF LedgerInv, TypeOK
    <3> HIDE DEF A
    <3> QED
      BY <2>3, <2>5, <3>1, <3>2
  <2>7. ASSUME NEW v \in Worker, v # w
        PROVE  counter'[v] = Cardinality(Sessions!Acknowledged(v, run[v])')
    <3>1. counter'[v] = counter[v]
      BY <1>2, <2>7 DEF LedgerInv, TypeOK
    <3> QED
      BY <2>2, <2>7, <3>1 DEF SessionInv, CountInv
  <2> QED
    BY <2>1, <2>6, <2>7 DEF CountInv
<1>8. Sessions!Acknowledge
  <2>1. t \in ToSet(chain) \ acked /\ UNCHANGED <<Sent, chain>>
    BY <1>2, <1>3, <1>4, <1>5
  <2>2. \A u \in Sent : u.worker = t.worker => u = t \/ Sessions!Before(u, t)
    BY <1>3
  <2> QED
    BY <1>2, <2>1, <2>2, SessionOperators DEF Sessions!Acknowledge
<1> QED
  BY <1>6, <1>7, <1>8 DEF SessionInv

\* A new run of a worker begins its session with nothing acknowledged.
LEMMA RestartBegins ==
    ASSUME LedgerInv, SessionInv, NEW w \in Worker, Restart(w)
    PROVE  SessionInv' /\ UNCHANGED <<Sent, chain, acked>>
<1>1. /\ run' = [run EXCEPT ![w] = @ + 1]
      /\ pc' = [pc EXCEPT ![w] = "write"]
      /\ counter' = [counter EXCEPT ![w] = 0]
      /\ ops' = [ops EXCEPT ![w] = 0]
      /\ current' = [current EXCEPT ![w] = NoTx]
      /\ UNCHANGED <<acked, pending, chain, height>>
  BY DEF Restart, fabricVars
<1>2. Sent' = Sent /\ ToSet(chain') = ToSet(chain)
  BY <1>1 DEF Sent
<1>3. \A u \in Sent : u.worker \in Worker /\ u.run \in Nat /\ Past(u) /\ run[u.worker] \in Nat
  BY SentTypes DEF SessionInv, SendInv, LedgerInv
<1>4. \A u \in Sent : u.worker = w => u.run < run'[w]
  <2>1. run[w] \in Nat /\ run'[w] = run[w] + 1
    BY <1>1, SentTypes DEF LedgerInv, TypeOK
  <2>2. \A u \in Sent : u.worker = w => u.run < run[w] \/ u.run = run[w]
    BY <1>3 DEF Past
  <2> QED
    BY <1>3, <2>1, <2>2
<1>5. \A v \in Worker : v # w => /\ run'[v] = run[v] /\ pc'[v] = pc[v] /\ counter'[v] = counter[v]
                                 /\ ops'[v] = ops[v] /\ current'[v] = current[v]
  BY <1>1 DEF LedgerInv, TypeOK
<1>6. \A u \in Sent' : Past(u)'
  BY <1>2, <1>3, <1>4, <1>5 DEF Past
<1>7. pc'[w] # "invoke" /\ counter'[w] = 0
  BY <1>1 DEF LedgerInv, TypeOK
<1>8. SendInv'
  BY <1>1, <1>2, <1>5, <1>6, <1>7 DEF SessionInv, SendInv, Sessions!Before
<1>9. CountInv'
  <2>1. Sessions!Acknowledged(w, run[w])' = {}
    <3>1. \A u \in acked : u \in Sent
      BY DEF SessionInv, SendInv, Sent
    <3>2. run'[w] \in Nat
      BY <1>1, SentTypes DEF LedgerInv, TypeOK
    <3> QED
      BY <1>1, <1>3, <1>4, <3>1, <3>2 DEF Sessions!Acknowledged
  <2>2. Cardinality({}) = 0
    BY FS_EmptySet
  <2>3. \A v \in Worker : v # w => Sessions!Acknowledged(v, run[v])' = Sessions!Acknowledged(v, run[v])
    BY <1>1, <1>5 DEF Sessions!Acknowledged
  <2> QED
    BY <1>1, <1>5, <1>7, <2>1, <2>2, <2>3 DEF SessionInv, CountInv
<1> QED
  BY <1>1, <1>2, <1>8, <1>9 DEF SessionInv

\* The other steps of a worker, which its session does not notice.
LEMMA WorkerGoesOn ==
    ASSUME LedgerInv, SessionInv, NEW w \in Worker,
           \/ WriteFails(w) \/ ReadLost(w) \/ ReadSucceeds(w) \/ ReadFails(w) \/ Finish(w)
    PROVE  SessionInv' /\ UNCHANGED <<Sent, chain, acked>>
<1>1. UNCHANGED <<run, counter, acked, pending, chain>>
  BY DEF WriteFails, ReadLost, ReadSucceeds, ReadFails, Finish, fabricVars
<1>2. Sent' = Sent /\ ToSet(chain') = ToSet(chain)
  BY <1>1 DEF Sent
<1>3. pc' = [pc EXCEPT ![w] = pc'[w]] /\ pc'[w] \in {"write", "read", "done"}
  BY DEF WriteFails, ReadLost, ReadSucceeds, ReadFails, Finish, EndIteration, LedgerInv, TypeOK
<1>4. \/ pc[w] = "read" /\ ops' = [ops EXCEPT ![w] = @ + 1]
      \/ pc'[w] = "read" /\ ops' = ops
      \/ pc[w] = "write" /\ ops' = ops
  BY DEF WriteFails, ReadLost, ReadSucceeds, ReadFails, Finish, EndIteration, LedgerInv, TypeOK
<1>5. \A v \in Worker : pc'[v] = "invoke" => v # w /\ pc[v] = "invoke" /\ current'[v] = current[v]
  <2>1. \A v \in Worker : v # w => current'[v] = current[v]
    BY DEF WriteFails, ReadLost, ReadSucceeds, ReadFails, Finish, LedgerInv, TypeOK
  <2> QED
    BY <1>3, <2>1 DEF LedgerInv, TypeOK
<1>6. ASSUME NEW u \in Sent
      PROVE  Past(u)'
  <2>1. u.worker \in Worker /\ u.op \in Int /\ ops[u.worker] \in Nat /\ Past(u)
    BY SentTypes DEF SessionInv, SendInv, LedgerInv
  <2>2. CASE u.worker # w
    BY <1>1, <1>3, <1>4, <2>1, <2>2 DEF Past, LedgerInv, TypeOK
  <2>3. CASE u.worker = w
    <3>1. \/ ops'[w] = ops[w] + 1
          \/ ops'[w] = ops[w] /\ (pc'[w] = "read" \/ pc[w] = "write")
      BY <1>4 DEF LedgerInv, TypeOK
    <3> QED
      BY <1>1, <2>1, <2>3, <3>1 DEF Past
  <2> QED
    BY <2>2, <2>3
<1>7. SendInv'
  BY <1>1, <1>2, <1>5, <1>6 DEF SessionInv, SendInv, Sessions!Before
<1>8. CountInv'
  BY <1>1 DEF SessionInv, CountInv, Sessions!Acknowledged
<1> QED
  BY <1>1, <1>2, <1>7, <1>8 DEF SessionInv

\* Every step is one of the sessions, or nothing to them.
LEMMA SessionStep ==
    ASSUME LedgerInv, SessionInv, [Next]_vars
    PROVE  SessionInv' /\ [Sessions!SessionNext]_(Sessions!sessionVars)
<1> USE DEF Sessions!SessionNext, Sessions!sessionVars
<1>1. ASSUME NEW w \in Worker, WorkerStep(w)
      PROVE  SessionInv' /\ [Sessions!SessionNext]_(Sessions!sessionVars)
  <2>1. CASE CallWrite(w)
    BY <2>1, CallIsSent
  <2>2. CASE WriteSucceeds(w)
    BY <2>2, SuccessAcknowledges
  <2>3. CASE Restart(w)
    BY <2>3, RestartBegins
  <2>4. CASE WriteFails(w) \/ ReadLost(w) \/ ReadSucceeds(w) \/ ReadFails(w) \/ Finish(w)
    BY <2>4, WorkerGoesOn
  <2> QED
    BY <1>1, <2>1, <2>2, <2>3, <2>4 DEF WorkerStep
<1>2. CASE Order
  BY <1>2, OrderPlaces
<1>3. CASE Commit \/ UNCHANGED vars
  <2>1. UNCHANGED <<pc, run, ops, counter, current, acked, pending, chain>>
    BY <1>3 DEF Commit, vars, workerVars, fabricVars
  <2>2. Sent' = Sent
    BY <2>1 DEF Sent
  <2>3. SessionInv'
    BY <2>1, <2>2 DEF SessionInv, SendInv, CountInv, Past, Sessions!Before, Sessions!Acknowledged
  <2> QED
    BY <2>1, <2>2, <2>3
<1> QED
  BY <1>1, <1>2, <1>3 DEF Next

\* The workers and the ledger implement sessions, for any number of workers,
\* peers, iterations, late calls and restarts: an iteration writes at most
\* once, and each Counter is the number of writes acknowledged before it.
THEOREM LedgerImplementsSessions == Spec => WritesAreSessions
<1>1. Init => SessionInv /\ Sessions!SessionInit
  <2> SUFFICES ASSUME Init
               PROVE  SessionInv /\ Sessions!SessionInit
    OBVIOUS
  <2>1. acked = {} /\ chain = <<>> /\ Sent = {}
    BY DEF Init, Sent, ToSet
  <2>2. IsFiniteSet({}) /\ Cardinality({}) = 0
    BY FS_EmptySet
  <2>3. \A w \in Worker : Sessions!Acknowledged(w, run[w]) = {}
    BY <2>1 DEF Sessions!Acknowledged
  <2>4. CountInv
    BY <2>1, <2>2, <2>3 DEF CountInv, Init
  <2>5. SendInv
    BY <2>1 DEF SendInv, Init
  <2> QED
    BY <2>1, <2>4, <2>5 DEF SessionInv, Sessions!SessionInit
<1>2. LedgerInv /\ SessionInv /\ [Next]_vars
         => SessionInv' /\ [Sessions!SessionNext]_(Sessions!sessionVars)
  BY SessionStep
<1> QED
  BY <1>1, <1>2, LedgerInvariant, PTL DEF Spec, WritesAreSessions, Sessions!SessionSpec
=============================================================================
