--------------------------- MODULE ChaincodeServer ---------------------------
(***************************************************************************)
(* The process that serves the chaincode (fabric-chaincode/server.go): the *)
(* chaincode server in main, the metrics server in a goroutine of its own, *)
(* concurrent Invokes (internal/chaincode/chaincode.go) that record in the *)
(* metrics registry (internal/chaincode/metrics/metrics.go), and the end   *)
(* of it all.                                                              *)
(*                                                                         *)
(* log.Fatal and the return of main end the process with every goroutine.  *)
(* The cluster starts it again, with an empty registry.  Clocks are left   *)
(* out: the shutdown timer may fire at any moment of the shutdown.         *)
(***************************************************************************)
EXTENDS Naturals, FiniteSets

CONSTANTS
    Call,      \* the invocations that peers make
    Scrape,    \* the connections to the metrics server
    Elapsed,   \* what the label elapsedTimeSeconds distinguishes
    MaxLives   \* bound on the starts of the process

ASSUME CallAssumption == IsFiniteSet(Call)
ASSUME LivesAssumption == MaxLives \in Nat \ {0}

VARIABLES
    env,        \* CHAINCODE_ID and CORE_CHAINCODE_ADDRESS
    life,       \* starts of the process so far
    pc,         \* where main is, and how the process ended
    metrics,    \* the goroutine of the metrics server
    closing,    \* metricsServer.Shutdown was called
    scrape,     \* the connections to the metrics server
    call,       \* the invocations
    histogram,  \* chaincode_actions: observations by label values
    returned,   \* history: ccServer.Start returned in this life
    exitBy      \* history: what ended the process

processVars == <<pc, metrics, closing, returned, exitBy>>
vars == <<env, life, processVars, scrape, call, histogram>>

\* The cases of Invoke's switch; any other name is not supported.
Supported == {"pingChaincode", "experimentWrite", "experimentRead"}
Function  == Supported \cup {"other"}

Running == {"boot", "start", "serve", "shutdown"}
Up      == pc \in Running

\* An invocation, the life of the process that serves it, its outcome and
\* what it took.
NewCall == [at |-> "new", life |-> 0, fcn |-> "other", success |-> FALSE, elapsed |-> 0]

\* A series of the histogram is given by the values of its three labels.
Series == Supported \X BOOLEAN \X Elapsed
Labels(c) == <<call[c].fcn, call[c].success, call[c].elapsed>>

\* NewMetricsManager registers the collectors with a fresh registry.
EmptyHistogram == [l \in Series |-> 0]

Init ==
    /\ env \in {"set", "empty", "missing"}
    /\ life = 1
    /\ pc = "boot"
    /\ metrics = "none"
    /\ closing = FALSE
    /\ scrape = [s \in Scrape |-> "none"]
    /\ call = [c \in Call |-> NewCall]
    /\ histogram = EmptyHistogram
    /\ returned = FALSE
    /\ exitBy = "none"

-----------------------------------------------------------------------------
(* The end of the process.                                                 *)

InFlight == {"invoked", "handled", "recorded"}

\* os.Exit, the return of main or a signal: what is under way is cut.
End(status, cause) ==
    /\ pc' = status
    /\ exitBy' = cause
    /\ metrics' = "none"
    /\ scrape' = [s \in Scrape |-> IF scrape[s] = "open" THEN "cut" ELSE scrape[s]]
    /\ call' = [c \in Call |-> IF call[c].at \in InFlight
                               THEN [call[c] EXCEPT !.at = "lost"] ELSE call[c]]
    /\ UNCHANGED <<env, life, closing, histogram, returned>>

Kill == Up /\ End("exit1", "kill")

\* The cluster's restart; everything the process kept was in its memory.
Restart ==
    /\ ~Up
    /\ life < MaxLives
    /\ life' = life + 1
    /\ pc' = "boot"
    /\ closing' = FALSE
    /\ scrape' = [s \in Scrape |-> "none"]
    /\ histogram' = EmptyHistogram
    /\ returned' = FALSE
    /\ exitBy' = "none"
    /\ UNCHANGED <<env, metrics, call>>

-----------------------------------------------------------------------------
(* main.                                                                   *)

\* A variable that is not set is fatal; else the registry is made and the
\* goroutine started.
Boot ==
    /\ pc = "boot"
    /\ \/ env = "missing" /\ End("exit1", "environment")
       \/ /\ env # "missing"
          /\ pc' = "start"
          /\ metrics' = "begun"
          /\ UNCHANGED <<env, life, closing, scrape, call, histogram, returned, exitBy>>

\* ccServer.Start listens and serves; it refuses an empty id or address.
Serve ==
    /\ pc = "start"
    /\ env = "set"
    /\ pc' = "serve"
    /\ UNCHANGED <<env, life, metrics, closing, scrape, call, histogram, returned, exitBy>>

\* Start returns, at once or later; main logs the error and shuts the
\* metrics server down.
ServerReturns ==
    /\ pc \in {"start", "serve"}
    /\ pc' = "shutdown"
    /\ returned' = TRUE
    /\ UNCHANGED <<env, life, metrics, closing, scrape, call, histogram, exitBy>>

\* Shutdown closes the listener before it looks at the connections.
ShutdownBegins ==
    /\ pc = "shutdown"
    /\ ~closing
    /\ closing' = TRUE
    /\ UNCHANGED <<env, life, pc, metrics, scrape, call, histogram, returned, exitBy>>

\* Mutant: main closes the listener and does not wait for the connections.
ShutdownReturns_NoWait ==
    /\ pc = "shutdown"
    /\ closing
    /\ End("exit0", "return")

\* No connection is in use: Shutdown returns nil and main returns.
ShutdownReturns ==
    /\ pc = "shutdown"
    /\ closing
    /\ \A s \in Scrape : scrape[s] # "open"
    /\ End("exit0", "return")

\* Mutant: the context of Shutdown has no timeout.
ShutdownTimeout_Never == FALSE /\ End("exit1", "timeout")

\* The timer of shutdownCtx fires first.
ShutdownTimeout ==
    /\ pc = "shutdown"
    /\ closing
    /\ End("exit1", "timeout")

-----------------------------------------------------------------------------
(* The goroutine of the metrics server.                                    *)

\* ListenAndServe listens, finds that Shutdown was called before, or fails
\* to listen: the condition after it lets that error pass.
ListenAndServe ==
    /\ Up
    /\ metrics = "begun"
    /\ metrics' \in (IF closing THEN {"closed"} ELSE {"listening", "gone"})
    /\ UNCHANGED <<env, life, pc, closing, scrape, call, histogram, returned, exitBy>>

\* ListenAndServe fails later, with an error the condition lets pass as well.
ListenerFails ==
    /\ Up
    /\ metrics = "listening"
    /\ ~closing
    /\ metrics' = "gone"
    /\ UNCHANGED <<env, life, pc, closing, scrape, call, histogram, returned, exitBy>>

\* The listener was closed: ListenAndServe returns ErrServerClosed at once,
\* while Shutdown still waits.
ListenerClosed ==
    /\ Up
    /\ metrics = "listening"
    /\ closing
    /\ metrics' = "closed"
    /\ UNCHANGED <<env, life, pc, closing, scrape, call, histogram, returned, exitBy>>

\* The error is ErrServerClosed: Fatal.
MetricsFatal ==
    /\ Up
    /\ metrics = "closed"
    /\ End("exit1", "metrics")

\* A connection to the metrics server, for one scrape.
BeginScrape(s) ==
    /\ Up
    /\ metrics = "listening"
    /\ ~closing
    /\ scrape[s] = "none"
    /\ scrape' = [scrape EXCEPT ![s] = "open"]
    /\ UNCHANGED <<env, life, processVars, call, histogram>>

EndScrape(s) ==
    /\ Up
    /\ scrape[s] = "open"
    /\ scrape' = [scrape EXCEPT ![s] = "none"]
    /\ UNCHANGED <<env, life, processVars, call, histogram>>

-----------------------------------------------------------------------------
(* Invoke.  Calls under way go on when ccServer.Start has returned.        *)

SetCall(c, at) == call' = [call EXCEPT ![c].at = at]

\* A peer's message begins an Invoke.
BeginInvoke(c) ==
    /\ pc = "serve"
    /\ call[c].at = "new"
    /\ \E f \in Function :
          call' = [call EXCEPT ![c] = [NewCall EXCEPT !.at = "invoked", !.life = life, !.fcn = f]]
    /\ UNCHANGED <<env, life, processVars, scrape, histogram>>

\* Only pingChaincode always succeeds.
Outcomes(f) == IF f = "pingChaincode" THEN {TRUE} ELSE BOOLEAN

\* The switch calls the function and the time it took is taken; a function
\* that is not there is an error that goes to the peer unrecorded.
Dispatch(c) ==
    /\ Up
    /\ call[c].at = "invoked"
    /\ IF call[c].fcn \in Supported
       THEN \E ok \in Outcomes(call[c].fcn), e \in Elapsed :
               call' = [call EXCEPT ![c].at = "handled", ![c].success = ok, ![c].elapsed = e]
       ELSE SetCall(c, "answered")
    /\ UNCHANGED <<env, life, processVars, scrape, histogram>>

\* Mutant: a failed call returns before the histogram is updated.
Record_SuccessOnly(c) ==
    /\ Up
    /\ call[c].at = "handled"
    /\ IF call[c].success
       THEN histogram' = [histogram EXCEPT ![Labels(c)] = @ + 1]
       ELSE UNCHANGED histogram
    /\ SetCall(c, "recorded")
    /\ UNCHANGED <<env, life, processVars, scrape>>

\* Mutant: the call is recorded before the answer and again after it.
Record_Twice(c) ==
    /\ Up
    /\ call[c].at = "handled"
    /\ histogram' = [histogram EXCEPT ![Labels(c)] = @ + 2]
    /\ SetCall(c, "recorded")
    /\ UNCHANGED <<env, life, processVars, scrape>>

\* RecordChaincodeActionInvocation: an observation in the series of the
\* call's labels, of which the elapsed time is one.
Record(c) ==
    /\ Up
    /\ call[c].at = "handled"
    /\ histogram' = [histogram EXCEPT ![Labels(c)] = @ + 1]
    /\ SetCall(c, "recorded")
    /\ UNCHANGED <<env, life, processVars, scrape>>

\* Invoke returns its response.
Answer(c) ==
    /\ Up
    /\ call[c].at = "recorded"
    /\ SetCall(c, "answered")
    /\ UNCHANGED <<env, life, processVars, scrape, histogram>>

-----------------------------------------------------------------------------
Main == Boot \/ Serve \/ ServerReturns \/ ShutdownBegins \/ ShutdownReturns \/ ShutdownTimeout

Metrics == ListenAndServe \/ ListenerFails \/ ListenerClosed \/ MetricsFatal

Next ==
    \/ Main
    \/ Metrics
    \/ \E s \in Scrape : BeginScrape(s) \/ EndScrape(s)
    \/ \E c \in Call : BeginInvoke(c) \/ Dispatch(c) \/ Record(c) \/ Answer(c)
    \/ Kill \/ Restart
    \/ ~Up /\ life = MaxLives /\ UNCHANGED vars

Safety == Init /\ [][Next]_vars

\* main's shutdown proceeds and its timer fires; neither that the server
\* returns nor that a scrape ends is taken for granted.
Spec ==
    /\ Safety
    /\ WF_vars(ShutdownBegins)
    /\ WF_vars(ShutdownTimeout)

-----------------------------------------------------------------------------
(* Properties.                                                             *)

\* Type correctness; no series of the registry counts more observations than
\* there were invocations.
TypeOK ==
    /\ env \in {"set", "empty", "missing"}
    /\ life \in 1..MaxLives
    /\ pc \in Running \cup {"exit0", "exit1"}
    /\ metrics \in {"none", "begun", "listening", "closed", "gone"}
    /\ closing \in BOOLEAN
    /\ scrape \in [Scrape -> {"none", "open", "cut"}]
    /\ call \in [Call -> [at : {"new", "answered", "lost"} \cup InFlight, life : 0..MaxLives,
                          fcn : Function, success : BOOLEAN, elapsed : Elapsed \cup {0}]]
    /\ histogram \in [Series -> 0..Cardinality(Call)]
    /\ returned \in BOOLEAN
    /\ exitBy \in {"none", "environment", "kill", "return", "timeout", "metrics"}

\* The calls of this life that were answered, or are about to be, with the
\* labels of a series.
Recorded(l) ==
    {c \in Call : /\ call[c].life = life
                  /\ call[c].at \in {"recorded", "answered"}
                  /\ Labels(c) = l}

\* The registry and the peers agree: whatever Invokes run side by side, each
\* series counts exactly the calls of this life that were answered with its
\* labels or are about to be, those that failed included.  A call that is not
\* supported is in no series, and a restart forgets them all.
AnsweredIsRecorded ==
    Up => \A l \in Series : histogram[l] = Cardinality(Recorded(l))

\* Exit status 0 means that the shutdown was graceful: no scrape was cut off,
\* none came in behind Shutdown's back, and the chaincode server had ended.
GracefulExit == pc = "exit0" => returned /\ \A s \in Scrape : scrape[s] # "cut"

\* Once the chaincode server has returned the process ends, however long a
\* scrape takes: shutdownTimeout bounds the wait.
ServerEnds == pc = "shutdown" ~> ~Up

\* The comment in the goroutine: "ErrServerClosed is always returned when a
\* server shuts down, so don't kill the program in that case."
ShutdownIsNotKilled == exitBy # "metrics"
=============================================================================
