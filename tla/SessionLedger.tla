---------------------------- MODULE SessionLedger ----------------------------
(***************************************************************************)
(* What the ledger promises to the workers.  Each run of a worker is a     *)
(* session of writes, one after the other.  A write takes effect once, or  *)
(* never, and maybe long after the session went on.  Each write carries    *)
(* the number of writes of its session that were acknowledged before it.   *)
(***************************************************************************)
EXTENDS Naturals, FiniteSets, SequencesExt

VARIABLES
    sent,    \* the writes that the workers have sent
    log,     \* those that took effect, in order
    acked    \* those that the workers know took effect

sessionVars == <<sent, log, acked>>

\* A worker sent u before t, in the same run or in an earlier one.
Before(u, t) == u.run < t.run \/ (u.run = t.run /\ u.op < t.op)

Acknowledged(worker, run) == {u \in acked : u.worker = worker /\ u.run = run}

SessionInit ==
    /\ sent = {}
    /\ log = <<>>
    /\ acked = {}

Send ==
    \E t \in sent' \ sent :
        /\ \A u \in sent : u.worker = t.worker => Before(u, t)
        /\ t.counter = Cardinality(Acknowledged(t.worker, t.run))
        /\ sent' = sent \cup {t}
        /\ UNCHANGED <<log, acked>>

Place ==
    \E t \in sent \ ToSet(log) :
        /\ log' = Append(log, t)
        /\ UNCHANGED <<sent, acked>>

\* Only the last write of a worker can still be acknowledged.
Acknowledge ==
    \E t \in ToSet(log) \ acked :
        /\ \A u \in sent : u.worker = t.worker => u = t \/ Before(u, t)
        /\ acked' = acked \cup {t}
        /\ UNCHANGED <<sent, log>>

SessionNext == Send \/ Place \/ Acknowledge

SessionSpec == SessionInit /\ [][SessionNext]_sessionVars
=============================================================================
