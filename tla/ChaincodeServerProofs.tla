------------------------ MODULE ChaincodeServerProofs ------------------------
(***************************************************************************)
(* How the process of the chaincode may end, and what its registry counts, *)
(* proved for any number of calls, scrapes and restarts.                   *)
(***************************************************************************)
EXTENDS ChaincodeServer, FiniteSetTheorems, TLAPS

\* The order of the end: ccServer.Start returns, the listener is closed,
\* ListenAndServe returns.  A scrape is cut only by the end of the process,
\* and never by the return of main.
EndInv ==
    /\ pc \in Running \cup {"exit0", "exit1"}
    /\ scrape \in [Scrape -> {"none", "open", "cut"}]
    /\ pc = "shutdown" => returned
    /\ closing => returned
    /\ metrics = "closed" => closing
    /\ ~Up => metrics = "none"
    /\ Up => exitBy = "none" /\ \A s \in Scrape : scrape[s] # "cut"
    /\ GracefulExit

\* Every step keeps the order of the end.
LEMMA EndStep == EndInv /\ [Next]_vars => EndInv'
<1> SUFFICES ASSUME EndInv, [Next]_vars
             PROVE  EndInv'
  OBVIOUS
<1> USE DEF EndInv, GracefulExit, Up, Running
<1>1. CASE Boot
  BY <1>1 DEF Boot, End
<1>2. CASE Serve \/ ServerReturns \/ ShutdownBegins
  BY <1>2 DEF Serve, ServerReturns, ShutdownBegins
<1>3. CASE ShutdownReturns
  BY <1>3 DEF ShutdownReturns, End
<1>4. CASE ShutdownTimeout \/ MetricsFatal \/ Kill
  BY <1>4 DEF ShutdownTimeout, MetricsFatal, Kill, End
<1>5. CASE ListenAndServe \/ ListenerFails \/ ListenerClosed
  BY <1>5 DEF ListenAndServe, ListenerFails, ListenerClosed
<1>6. CASE \E s \in Scrape : BeginScrape(s) \/ EndScrape(s)
  <2>1. PICK s \in Scrape : BeginScrape(s) \/ EndScrape(s)
    BY <1>6
  <2>2. /\ UNCHANGED <<pc, metrics, closing, returned, exitBy>>
        /\ Up
        /\ \/ scrape' = [scrape EXCEPT ![s] = "open"]
           \/ scrape' = [scrape EXCEPT ![s] = "none"]
    BY <2>1 DEF BeginScrape, EndScrape, processVars
  <2> QED
    BY <2>2
<1>7. CASE \E c \in Call : BeginInvoke(c) \/ Dispatch(c) \/ Record(c) \/ Answer(c)
  <2>1. UNCHANGED <<pc, metrics, closing, returned, exitBy, scrape>>
    BY <1>7 DEF BeginInvoke, Dispatch, Record, Answer, processVars
  <2> QED
    BY <2>1
<1>8. CASE Restart
  BY <1>8 DEF Restart
<1>9. CASE UNCHANGED vars
  BY <1>9 DEF vars, processVars
<1> QED
  BY <1>1, <1>2, <1>3, <1>4, <1>5, <1>6, <1>7, <1>8, <1>9 DEF Next, Main, Metrics

\* The order of the end is an invariant of every behaviour of the process.
THEOREM EndsInOrder == Safety => []EndInv
<1>1. Init => EndInv
  BY DEF Init, EndInv, GracefulExit, Up, Running
<1> QED
  BY <1>1, EndStep, PTL DEF Safety

\* Exit status 0 of the chaincode's process means a graceful shutdown, with
\* any number of scrapes under way when it began.
THEOREM ExitIsGraceful == Safety => []GracefulExit
<1>1. EndInv => GracefulExit
  BY DEF EndInv
<1> QED
  BY <1>1, EndsInOrder, PTL

-----------------------------------------------------------------------------
(* What the registry counts.                                               *)

\* A call under way belongs to this life of the process; a call whose outcome
\* is known has the labels of a series.
CallsInPlace ==
    \A c \in Call :
        /\ call[c].at \in InFlight => Up /\ call[c].life = life
        /\ call[c].life <= life
        /\ call[c].at \in {"handled", "recorded"} => Labels(c) \in Series

\* The registry agrees with the calls, which is why no series outgrows them.
CallInv == TypeOK /\ CallsInPlace /\ AnsweredIsRecorded

\* An invocation.
CallType ==
    [at : {"new", "answered", "lost"} \cup InFlight, life : 0..MaxLives,
     fcn : Function, success : BOOLEAN, elapsed : Elapsed \cup {0}]

\* The types of all but the calls and the registry.
ProcessTypeOK ==
    /\ env \in {"set", "empty", "missing"}
    /\ pc \in Running \cup {"exit0", "exit1"}
    /\ metrics \in {"none", "begun", "listening", "closed", "gone"}
    /\ closing \in BOOLEAN
    /\ scrape \in [Scrape -> {"none", "open", "cut"}]
    /\ returned \in BOOLEAN
    /\ exitBy \in {"none", "environment", "kill", "return", "timeout", "metrics"}

\* No step takes the process out of its types.
LEMMA ProcessTypes ==
    ASSUME TypeOK, [Next]_vars
    PROVE  ProcessTypeOK'
<1> USE DEF TypeOK, ProcessTypeOK
<1>1. CASE Main \/ Metrics \/ Kill \/ Restart
  <2>1. CASE Boot \/ ShutdownReturns \/ ShutdownTimeout \/ MetricsFatal \/ Kill
    BY <2>1 DEF Boot, ShutdownReturns, ShutdownTimeout, MetricsFatal, Kill, End, Running
  <2>2. CASE Serve \/ ServerReturns \/ ShutdownBegins
    BY <2>2 DEF Serve, ServerReturns, ShutdownBegins, Running
  <2>3. CASE ListenAndServe \/ ListenerFails \/ ListenerClosed
    BY <2>3 DEF ListenAndServe, ListenerFails, ListenerClosed, Running
  <2>4. CASE Restart
    BY <2>4 DEF Restart, Running
  <2> QED
    BY <1>1, <2>1, <2>2, <2>3, <2>4 DEF Main, Metrics
<1>2. CASE \E s \in Scrape : BeginScrape(s) \/ EndScrape(s)
  BY <1>2 DEF BeginScrape, EndScrape, processVars
<1>3. CASE \E c \in Call : BeginInvoke(c) \/ Dispatch(c) \/ Record(c) \/ Answer(c)
  BY <1>3 DEF BeginInvoke, Dispatch, Record, Answer, processVars
<1>4. CASE UNCHANGED vars
  BY <1>4 DEF vars, processVars
<1> QED
  BY <1>1, <1>2, <1>3, <1>4 DEF Next

\* The calls of a series can be counted, and are no more than all calls.
LEMMA RecordedFinite ==
    ASSUME NEW l
    PROVE  /\ IsFiniteSet(Recorded(l))
           /\ Cardinality(Recorded(l)) \in 0..Cardinality(Call)
<1>1. Recorded(l) \subseteq Call
  BY DEF Recorded
<1>2. /\ IsFiniteSet(Recorded(l)) /\ Cardinality(Recorded(l)) <= Cardinality(Call)
  BY <1>1, CallAssumption, FS_Subset
<1> QED
  BY <1>2, CallAssumption, FS_CardinalityType

\* A step of main, of the metrics server or of a scrape ends the process with
\* its calls, or leaves calls and registry alone.
LEMMA ProcessKeepsCalls ==
    ASSUME CallInv, ProcessTypeOK', UNCHANGED life,
           \/ End(pc', exitBy') /\ ~Up'
           \/ UNCHANGED <<call, histogram>> /\ (Up <=> Up')
    PROVE  CallInv'
<1>1. CASE End(pc', exitBy') /\ ~Up'
  <2>1. /\ call' \in [Call -> CallType]
        /\ \A c \in Call : call'[c].at \notin InFlight /\ call'[c].life <= life
    BY <1>1 DEF End, CallInv, CallsInPlace, TypeOK, CallType, InFlight
  <2>2. CallsInPlace'
    BY <2>1 DEF CallsInPlace, InFlight
  <2>3. TypeOK'
    BY <1>1, <2>1 DEF CallInv, TypeOK, ProcessTypeOK, End, Series, Supported, Function, Running, InFlight, CallType
  <2> QED
    BY <1>1, <2>2, <2>3 DEF CallInv, AnsweredIsRecorded
<1>2. CASE UNCHANGED <<call, histogram>> /\ (Up <=> Up')
  <2>1. TypeOK'
    BY <1>2 DEF CallInv, TypeOK, ProcessTypeOK, Series, Supported, Function, Running, InFlight
  <2>2. CallsInPlace'
    BY <1>2 DEF CallInv, CallsInPlace, Labels, InFlight, Series, Supported
  <2>3. \A l \in Series : Recorded(l)' = Recorded(l)
    BY <1>2 DEF Recorded, Labels
  <2>4. AnsweredIsRecorded'
    BY <1>2, <2>3 DEF CallInv, AnsweredIsRecorded, Series, Supported
  <2> QED
    BY <2>1, <2>2, <2>4 DEF CallInv
<1> QED
  BY <1>1, <1>2

\* The steps of Invoke that record nothing.
LEMMA CallGoesOn ==
    ASSUME CallInv, NEW c \in Call, BeginInvoke(c) \/ Dispatch(c) \/ Answer(c), ProcessTypeOK'
    PROVE  CallInv'
<1>1. Up /\ Up' /\ UNCHANGED <<life, histogram>>
  BY DEF BeginInvoke, Dispatch, Answer, Up, Running, processVars
<1>2. /\ call[c] \in CallType /\ life \in 0..MaxLives
      /\ call = [d \in Call |-> call[d]]
  BY DEF CallInv, TypeOK, CallType
<1>3. /\ call' = [call EXCEPT ![c] = call'[c]]
      /\ call'[c] \in CallType
      /\ call'[c].life = life
      /\ call'[c].at \in {"handled", "recorded"} => Labels(c)' \in Series
      /\ \A l \in Series : c \in Recorded(l)' <=> c \in Recorded(l)
  <2>1. CASE BeginInvoke(c)
    <3>1. PICK f \in Function :
             call' = [call EXCEPT ![c] = [NewCall EXCEPT !.at = "invoked", !.life = life, !.fcn = f]]
      BY <2>1 DEF BeginInvoke
    <3>2. /\ call' = [call EXCEPT ![c] = call'[c]] /\ call'[c] \in CallType
          /\ call'[c].life = life /\ call'[c].at = "invoked"
      BY <1>2, <3>1 DEF NewCall, CallType, InFlight
    <3>3. call[c].at = "new"
      BY <2>1 DEF BeginInvoke
    <3> QED
      BY <3>2, <3>3 DEF Recorded
  <2>2. CASE Dispatch(c) /\ call[c].fcn \in Supported
    <3>1. PICK ok \in BOOLEAN, e \in Elapsed :
             call' = [call EXCEPT ![c].at = "handled", ![c].success = ok, ![c].elapsed = e]
      BY <2>2 DEF Dispatch, Outcomes
    <3>2. /\ call' = [call EXCEPT ![c] = call'[c]]
          /\ call'[c].at = "handled" /\ call'[c].life = call[c].life
          /\ call'[c].fcn = call[c].fcn /\ call'[c].success = ok /\ call'[c].elapsed = e
          /\ call'[c] \in CallType
      BY <1>2, <3>1 DEF CallType, InFlight
    <3>3. call[c].at = "invoked" /\ call[c].life = life
      BY <2>2 DEF Dispatch, CallInv, CallsInPlace, InFlight
    <3>4. Labels(c)' \in Series
      BY <2>2, <3>2 DEF Labels, Series
    <3> QED
      BY <3>2, <3>3, <3>4 DEF Recorded
  <2>3. CASE Dispatch(c) /\ call[c].fcn \notin Supported
    <3>1. /\ call[c].at = "invoked" /\ call[c].life = life
          /\ call' = [call EXCEPT ![c].at = "answered"]
      BY <2>3 DEF Dispatch, SetCall, CallInv, CallsInPlace, InFlight
    <3>2. /\ call' = [call EXCEPT ![c] = call'[c]]
          /\ call'[c].at = "answered" /\ call'[c].life = life /\ call'[c].fcn = call[c].fcn
          /\ call'[c] \in CallType
      BY <1>2, <3>1 DEF CallType
    <3>3. Labels(c)' \notin Series
      BY <2>3, <3>2 DEF Labels, Series
    <3> QED
      BY <3>1, <3>2, <3>3 DEF Recorded
  <2>4. CASE Answer(c)
    <3>1. /\ call[c].at = "recorded" /\ call[c].life = life
          /\ call' = [call EXCEPT ![c].at = "answered"]
      BY <2>4 DEF Answer, SetCall, CallInv, CallsInPlace, InFlight
    <3>2. /\ call' = [call EXCEPT ![c] = call'[c]]
          /\ call'[c].at = "answered" /\ call'[c].life = life
          /\ Labels(c)' = Labels(c)
          /\ call'[c] \in CallType
      BY <1>2, <3>1 DEF CallType, Labels
    <3> QED
      BY <1>1, <3>1, <3>2 DEF Recorded
  <2> QED
    BY <2>1, <2>2, <2>3, <2>4
<1>5. call' \in [Call -> CallType] /\ \A d \in Call \ {c} : call'[d] = call[d]
  BY <1>3 DEF CallInv, TypeOK, CallType
<1>6. \A d \in Call \ {c} : Labels(d)' = Labels(d)
  BY <1>5 DEF Labels
<1>8. \A l \in Series : Recorded(l)' = Recorded(l)
  BY <1>1, <1>3, <1>5, <1>6 DEF Recorded
<1>9. TypeOK'
  BY <1>1, <1>5 DEF CallInv, TypeOK, ProcessTypeOK, CallType, Series, Supported, Function, Running, InFlight
<1>10. CallsInPlace'
  BY <1>1, <1>3, <1>5, <1>6 DEF CallInv, CallsInPlace, CallType, TypeOK
<1>11. AnsweredIsRecorded'
  BY <1>1, <1>8 DEF CallInv, AnsweredIsRecorded, Series, Supported
<1> QED
  BY <1>9, <1>10, <1>11 DEF CallInv

\* Recording counts the call in its series, where it was not counted before.
LEMMA CallIsRecorded ==
    ASSUME CallInv, NEW c \in Call, Record(c), ProcessTypeOK'
    PROVE  CallInv'
<1>1. /\ Up /\ Up' /\ UNCHANGED life /\ call[c].at = "handled" /\ call[c].life = life
      /\ Labels(c) \in Series
  BY DEF Record, Up, Running, processVars, CallInv, CallsInPlace, InFlight
<1>a. PICK k \in Series : k = Labels(c)
  BY <1>1
<1>2. /\ call' = [call EXCEPT ![c].at = "recorded"]
      /\ histogram' = [histogram EXCEPT ![k] = @ + 1]
  BY <1>a DEF Record, SetCall
<1>3. /\ \A d \in Call \ {c} : call'[d] = call[d]
      /\ call'[c] = [call[c] EXCEPT !.at = "recorded"]
      /\ call' \in [Call -> CallType]
  BY <1>2 DEF CallInv, TypeOK, CallType, InFlight
<1>4. \A d \in Call : Labels(d)' = Labels(d)
  BY <1>3 DEF Labels, CallInv, TypeOK
<1>5. c \notin Recorded(k) /\ Recorded(k)' = Recorded(k) \cup {c}
  BY <1>1, <1>a, <1>3, <1>4 DEF Recorded, CallInv, TypeOK
<1>6. \A l \in Series \ {k} : Recorded(l)' = Recorded(l)
  BY <1>1, <1>a, <1>3, <1>4 DEF Recorded, CallInv, TypeOK
<1>7. /\ histogram'[k] = histogram[k] + 1
      /\ \A l \in Series \ {k} : histogram'[l] = histogram[l]
      /\ DOMAIN histogram' = Series /\ histogram' = [l \in Series |-> histogram'[l]]
  BY <1>2 DEF CallInv, TypeOK
<1>8. \A l \in Series : histogram[l] = Cardinality(Recorded(l))
  BY <1>1 DEF CallInv, AnsweredIsRecorded
<1>9. Cardinality(Recorded(k)') = Cardinality(Recorded(k)) + 1
  BY <1>5, RecordedFinite, FS_AddElement
<1>10. \A l \in Series : histogram'[l] = Cardinality(Recorded(l)')
  BY <1>6, <1>7, <1>8, <1>9
<1>11. \A l \in Series : Cardinality(Recorded(l)') \in 0..Cardinality(Call)
  <2>1. ASSUME NEW l \in Series
        PROVE  Recorded(l)' \subseteq Call
    BY DEF Recorded
  <2> QED
    BY <2>1, CallAssumption, FS_Subset, FS_CardinalityType
<1>12. histogram' \in [Series -> 0..Cardinality(Call)]
  BY <1>7, <1>10, <1>11
<1>13. TypeOK'
  BY <1>1, <1>3, <1>12 DEF CallInv, TypeOK, ProcessTypeOK, CallType, Series, Supported, Function,
                           Running, InFlight
<1>14. CallsInPlace'
  BY <1>1, <1>3, <1>4 DEF CallInv, CallsInPlace, CallType, TypeOK, InFlight, Series, Supported
<1>15. AnsweredIsRecorded'
  BY <1>10 DEF AnsweredIsRecorded, Series, Supported
<1> QED
  BY <1>13, <1>14, <1>15 DEF CallInv

\* A new life of the process begins with an empty registry and no calls.
LEMMA RestartForgets ==
    ASSUME CallInv, Restart, ProcessTypeOK'
    PROVE  CallInv'
<1>1. /\ life' = life + 1 /\ life' \in 1..MaxLives /\ ~Up /\ UNCHANGED call
      /\ histogram' = [l \in Series |-> 0]
  BY LivesAssumption DEF Restart, EmptyHistogram, CallInv, TypeOK
<1>2. \A c \in Call : call'[c].life < life' /\ call'[c].at \notin InFlight
  <2>1. \A c \in Call : call[c].life \in Nat /\ life \in Nat /\ call[c].life <= life
    BY DEF CallInv, CallsInPlace, TypeOK
  <2> QED
    BY <1>1, <2>1 DEF CallInv, CallsInPlace
<1>3. \A l \in Series : Recorded(l)' = {}
  <2>1. ASSUME NEW c \in Call
        PROVE  call'[c].life # life'
    <3>1. call'[c].life \in Nat /\ life' \in Nat
      BY <1>1 DEF CallInv, TypeOK
    <3> QED
      BY <1>2, <3>1
  <2> QED
    BY <2>1 DEF Recorded
<1>4. Cardinality(Call) \in Nat /\ Cardinality({}) = 0
  BY CallAssumption, FS_CardinalityType, FS_EmptySet
<1>5. AnsweredIsRecorded'
  BY <1>1, <1>3, <1>4 DEF AnsweredIsRecorded, Series, Supported
<1>6. TypeOK'
  BY <1>1, <1>4 DEF CallInv, TypeOK, ProcessTypeOK, Series, Supported, Function, Running, InFlight
<1>7. CallsInPlace'
  BY <1>1, <1>2 DEF CallInv, CallsInPlace, TypeOK, InFlight
<1> QED
  BY <1>5, <1>6, <1>7 DEF CallInv

\* Every step keeps the registry and the calls in agreement.
LEMMA CallStep ==
    ASSUME CallInv, [Next]_vars
    PROVE  CallInv'
<1>1. ProcessTypeOK'
  BY ProcessTypes DEF CallInv
<1>2. CASE \/ Main \/ Metrics \/ Kill \/ UNCHANGED vars
           \/ \E s \in Scrape : BeginScrape(s) \/ EndScrape(s)
  <2>1. \/ End(pc', exitBy') /\ ~Up'
        \/ UNCHANGED <<call, histogram>> /\ (Up <=> Up')
    <3>1. CASE Boot \/ ShutdownReturns \/ ShutdownTimeout \/ MetricsFatal \/ Kill
      BY <3>1 DEF Boot, ShutdownReturns, ShutdownTimeout, MetricsFatal, Kill, End, Up, Running
    <3>2. CASE Serve \/ ServerReturns \/ ShutdownBegins \/ ListenAndServe \/ ListenerFails \/ ListenerClosed
      BY <3>2 DEF Serve, ServerReturns, ShutdownBegins, ListenAndServe, ListenerFails, ListenerClosed, Up, Running
    <3>3. CASE UNCHANGED vars \/ \E s \in Scrape : BeginScrape(s) \/ EndScrape(s)
      BY <3>3 DEF vars, BeginScrape, EndScrape, processVars, Up
    <3> QED
      BY <1>2, <3>1, <3>2, <3>3 DEF Main, Metrics
  <2>2. UNCHANGED life
    BY <1>2 DEF Main, Metrics, Boot, Serve, ServerReturns, ShutdownBegins, ShutdownReturns,
                ShutdownTimeout, ListenAndServe, ListenerFails, ListenerClosed, MetricsFatal, Kill, End, vars,
                BeginScrape, EndScrape
  <2> QED
    BY <1>1, <2>1, <2>2, ProcessKeepsCalls
<1>3. CASE \E c \in Call : BeginInvoke(c) \/ Dispatch(c) \/ Record(c) \/ Answer(c)
  BY <1>1, <1>3, CallGoesOn, CallIsRecorded
<1>4. CASE Restart
  BY <1>1, <1>4, RestartForgets
<1> QED
  BY <1>2, <1>3, <1>4 DEF Next

\* The registry and the calls agree in every reachable state.
LEMMA CallInvariant == Safety => []CallInv
<1>1. Init => CallInv
  <2> SUFFICES ASSUME Init
               PROVE  CallInv
    OBVIOUS
  <2>1. Cardinality(Call) \in Nat /\ Cardinality({}) = 0
    BY CallAssumption, FS_CardinalityType, FS_EmptySet
  <2>2. \A l \in Series : Recorded(l) = {}
    BY DEF Init, NewCall, Recorded
  <2>3. AnsweredIsRecorded
    BY <2>1, <2>2 DEF Init, EmptyHistogram, AnsweredIsRecorded
  <2>4. TypeOK
    <3>1. life \in 1..MaxLives /\ 0 \in 0..MaxLives
      BY LivesAssumption DEF Init
    <3>2. histogram \in [Series -> 0..Cardinality(Call)]
      BY <2>1 DEF Init, EmptyHistogram
    <3>3. NewCall \in [at : {"new", "answered", "lost"} \cup InFlight, life : 0..MaxLives,
                       fcn : Function, success : BOOLEAN, elapsed : Elapsed \cup {0}]
      BY <3>1 DEF NewCall, Function
    <3>4. call \in [Call -> [at : {"new", "answered", "lost"} \cup InFlight, life : 0..MaxLives,
                            fcn : Function, success : BOOLEAN, elapsed : Elapsed \cup {0}]]
      BY <3>3 DEF Init
    <3>5. /\ env \in {"set", "empty", "missing"}
          /\ pc \in Running \cup {"exit0", "exit1"}
          /\ metrics \in {"none", "begun", "listening", "closed", "gone"}
          /\ closing \in BOOLEAN
          /\ scrape \in [Scrape -> {"none", "open", "cut"}]
          /\ returned \in BOOLEAN
          /\ exitBy \in {"none", "environment", "kill", "return", "timeout", "metrics"}
      BY DEF Init, Running
    <3> QED
      BY <3>1, <3>2, <3>4, <3>5 DEF TypeOK
  <2>5. CallsInPlace
    BY DEF Init, NewCall, CallsInPlace, InFlight
  <2> QED
    BY <2>3, <2>4, <2>5 DEF CallInv
<1>2. CallInv /\ [Next]_vars => CallInv'
  BY CallStep
<1> QED
  BY <1>1, <1>2, PTL DEF Safety

\* Type correctness of the chaincode's process and its registry, for any
\* number of calls, scrapes, labels and restarts: no series counts more
\* observations than there were invocations.
THEOREM ServerTypes == Safety => []TypeOK
<1>1. CallInv => TypeOK
  BY DEF CallInv
<1> QED
  BY <1>1, CallInvariant, PTL

\* However many Invokes run side by side, each series of the histogram counts
\* the calls of this life that were answered with its labels, no more and no
\* fewer.
THEOREM RegistryAgrees == Safety => []AnsweredIsRecorded
<1>1. CallInv => AnsweredIsRecorded
  BY DEF CallInv
<1> QED
  BY <1>1, CallInvariant, PTL
=============================================================================
