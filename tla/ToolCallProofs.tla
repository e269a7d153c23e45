---------------------------- MODULE ToolCallProofs ----------------------------
(***************************************************************************)
(* Proofs of the safety properties of ToolCall, for any set of requests,    *)
(* any assignment of tools to them and any number of connections.           *)
(*                                                                         *)
(* The invariant IInv has five layers: what Setup opened (OpenInv), how far *)
(* a call and its statements are (CallInv, FailureInv, ChainInv), what they *)
(* did to the database (AnswersMatchDatabase, AppliedInv), what was recorded*)
(* of them (RecordInv) and where the records are (QueueInv, ExportInv).     *)
(***************************************************************************)
EXTENDS ToolCall, TLAPS

(* A statement is a request and a number.                                   *)
LEMMA Pairs ==
  /\ \A r \in Requests : <<r, 1>> \in Statements /\ <<r, 2>> \in Statements
  /\ \A k \in Statements : k[1] \in Requests /\ (k = <<k[1], 1>> \/ k = <<k[1], 2>>)
BY DEF Statements

(* A wrapped error is an error, and quotes nothing that it did not quote    *)
(* before.                                                                  *)
LEMMA Wrapping ==
  ASSUME NEW e \in SUBSET Layers
  PROVE  /\ Wrap(e) \in SUBSET Layers /\ Wrap(e) # Nil
         /\ ("quote" \in Wrap(e) => "quote" \in e)
BY DEF Wrap, Layers, Nil

LEMMA NilType == Nil \in SUBSET Layers /\ "quote" \notin Nil
BY DEF Nil

LEMMA FailureTypes == \A f \in Failures : f \in SUBSET Layers /\ "quote" \notin f /\ f # Nil
BY DEF Failures, Layers, Nil

-----------------------------------------------------------------------------
(* Which steps disturb what.                                                *)

(* The main goroutine and the exporters leave calls and statements alone.   *)
MainKind == Start \/ StopServing \/ ClosePool \/ ShutdownOTel \/ UNCHANGED vars

LEMMA Kinds ==
  [Next]_vars => \/ MainKind
                 \/ \E r \in Requests : Receive(r) \/ CallStep(r)
                 \/ \E k \in Statements : Begin(k) \/ Succeeds(k) \/ Fails(k)
BY DEF Next, MainKind, Gone

LEMMA MainFrame ==
  MainKind => /\ UNCHANGED <<phase, failure, applied, tool, at, err, outcome, inTime, mode>>
              /\ main = main' \/ (main = "starting" /\ main' = "serving") \/ (main = "serving" /\ main' = "closing")
<1> SUFFICES ASSUME MainKind
             PROVE  /\ UNCHANGED <<phase, failure, applied, tool, at, err, outcome, inTime, mode>>
                    /\ main = main' \/ (main = "starting" /\ main' = "serving")
                                    \/ (main = "serving" /\ main' = "closing")
  OBVIOUS
<1>1. CASE Start
  BY <1>1 DEF Start, SetupStep, BuildResource, OpenFile, NewTraceExporter, NewLogExporter, InstallProviders,
       AttachBridge, database, calls, tvars
<1>2. CASE StopServing
  BY <1>2 DEF StopServing, database, calls, tvars
<1>3. CASE ClosePool
  BY <1>3 DEF ClosePool, Database!ShutDown, calls, tvars
<1>4. CASE ShutdownOTel
  BY <1>4 DEF ShutdownOTel, BeginShutdown, ShutdownStep, ShutdownTraces, ShutdownLogs, CloseFile, database, calls
<1>5. CASE UNCHANGED vars
  BY <1>5 DEF vars, database, calls, tvars
<1> QED
  BY <1>1, <1>2, <1>3, <1>4, <1>5 DEF MainKind

(* The database's own steps touch one statement, which is not over.         *)
LEMMA WorkFrame ==
  ASSUME NEW k \in Statements, DatabaseTypes, Begin(k) \/ Succeeds(k) \/ Fails(k)
  PROVE  /\ UNCHANGED <<tool, at, err, outcome, inTime, main, mode, stage, open, queue, exported, refused, late>>
         /\ phase[k] \in {"waiting", "running"}
         /\ phase'[k] \in {"running", "done", "failed"}
         /\ phase' = [phase EXCEPT ![k] = phase'[k]]
         /\ failure' = [failure EXCEPT ![k] = failure'[k]]
         /\ failure'[k] # failure[k] => phase'[k] = "failed"
         /\ failure'[k] \in SUBSET Layers
         /\ "quote" \in failure'[k] => "quote" \in failure[k]
<1>0. phase \in [Statements -> {"new", "waiting", "running", "done", "failed"}] /\ failure \in [Statements -> SUBSET Layers]
  BY DEF DatabaseTypes
<1>1. CASE Begin(k)
  BY <1>0, <1>1 DEF Begin, Database!Begin, calls, tvars, exporting
<1>2. CASE Succeeds(k)
  BY <1>0, <1>2 DEF Succeeds, Database!Succeed, calls, tvars, exporting
<1>3. CASE Fails(k)
  <2>1. PICK f \in Failures : failure' = [failure EXCEPT ![k] = Wrap(f)]
    BY <1>3 DEF Fails, Failures
  <2>2. failure'[k] = Wrap(f) /\ Wrap(f) \in SUBSET Layers /\ "quote" \notin Wrap(f)
    BY <1>0, <2>1, Wrapping, FailureTypes
  <2>3. failure' = [failure EXCEPT ![k] = failure'[k]]
    BY <2>1, <2>2
  <2> QED
    BY <1>0, <1>3, <2>2, <2>3 DEF Fails, Database!Fail, calls, tvars, exporting
<1> QED
  BY <1>1, <1>2, <1>3

(* A call's own step moves that call on, and may ask for one new statement. *)
LEMMA CallFrame ==
  ASSUME NEW r \in Requests, CallTypes, Receive(r) \/ CallStep(r)
  PROVE  /\ UNCHANGED <<failure, applied, tool, main, mode, stage, open, exported, refused, late>>
         /\ at' = [at EXCEPT ![r] = at'[r]]
         /\ outcome' = [outcome EXCEPT ![r] = outcome'[r]]
         /\ err' = [err EXCEPT ![r] = err'[r]]
         /\ ~StartQuery(r) => UNCHANGED phase
<1>0. /\ at \in [Requests -> {"none", "handling", "querying", "logging", "closing", "answered"}]
      /\ err \in [Requests -> SUBSET Layers]
      /\ outcome \in [Requests -> {"none", "ok", "partial", "errorResult", "goError"}]
  BY DEF CallTypes
<1>1. CASE Receive(r)
  BY <1>0, <1>1 DEF Receive, database, tvars, exporting
<1>2. CASE Refuse(r)
  BY <1>0, <1>2 DEF Refuse, HandlerReturns, database, tvars, exporting
<1>3. CASE StartQuery(r)
  BY <1>0, <1>3 DEF StartQuery, tvars, exporting
<1>4. CASE QueryReturns(r)
  BY <1>0, <1>4 DEF QueryReturns, Continue, HandlerReturns, database
<1>5. CASE LogCall(r) \/ EndToolSpan(r)
  BY <1>0, <1>5 DEF LogCall, EndToolSpan, database
<1> QED
  BY <1>1, <1>2, <1>3, <1>4, <1>5 DEF CallStep

-----------------------------------------------------------------------------
(* Types.                                                                   *)

LEMMA TelemetryTypes == TelemetryTypeOK /\ [Next]_vars => TelemetryTypeOK'
<1> SUFFICES ASSUME TelemetryTypeOK, [Next]_vars PROVE TelemetryTypeOK'
  OBVIOUS
<1> USE DEF TelemetryTypeOK
<1>1. ASSUME NEW k \in Statements, Begin(k) \/ Succeeds(k) \/ Fails(k) PROVE TelemetryTypeOK'
  BY <1>1 DEF Begin, Succeeds, Fails, tvars, exporting
<1>2. ASSUME NEW r \in Requests, Receive(r) \/ CallStep(r) PROVE TelemetryTypeOK'
  <2>1. CASE Receive(r) \/ Refuse(r) \/ StartQuery(r)
    BY <2>1 DEF Receive, Refuse, StartQuery, tvars, exporting
  <2>2. CASE QueryReturns(r) \/ LogCall(r) \/ EndToolSpan(r)
    <3>1. UNCHANGED <<mode, stage, open, exported, refused, late>>
      BY <2>2 DEF QueryReturns, LogCall, EndToolSpan
    <3>2. DOMAIN queue' = DOMAIN queue
      BY <2>2 DEF QueryReturns, LogCall, EndToolSpan, Emit
    <3> QED
      BY <3>1, <3>2
  <2> QED
    BY <1>2, <2>1, <2>2 DEF CallStep
<1>3. CASE MainKind
  <2>1. CASE StopServing \/ ClosePool \/ UNCHANGED vars
    BY <2>1 DEF StopServing, ClosePool, vars, tvars, exporting
  <2>2. CASE Start
    BY <2>2 DEF Start, SetupStep, BuildResource, OpenFile, NewTraceExporter, NewLogExporter, InstallProviders,
         AttachBridge, tvars, exporting
  <2>3. CASE ShutdownOTel
    <3>1. DOMAIN queue' = DOMAIN queue /\ DOMAIN exported' = DOMAIN exported
      BY <2>3 DEF ShutdownOTel, BeginShutdown, ShutdownStep, ShutdownTraces, ShutdownLogs, CloseFile,
           Deliver, GiveUp, exporting
    <3>2. refused' \subseteq Signals /\ late' \in BOOLEAN
      BY <2>3 DEF ShutdownOTel, BeginShutdown, ShutdownStep, ShutdownTraces, ShutdownLogs, CloseFile,
           Deliver, GiveUp, exporting, Signals
    <3>3. UNCHANGED mode /\ open' \subseteq open
      BY <2>3 DEF ShutdownOTel, BeginShutdown, ShutdownStep, ShutdownTraces, ShutdownLogs, CloseFile
    <3>4. stage' \in {"flushTraces", "flushLogs", "closeFile", "down"}
      BY <2>3 DEF ShutdownOTel, BeginShutdown, ShutdownStep, ShutdownTraces, ShutdownLogs, CloseFile
    <3> QED
      BY <3>1, <3>2, <3>3, <3>4
  <2> QED
    BY <1>3, <2>1, <2>2, <2>3 DEF MainKind
<1> QED
  BY <1>1, <1>2, <1>3, Kinds

(* A new statement is asked for by a handler, which then awaits it.         *)
LEMMA Asking ==
  ASSUME NEW r \in Requests, DatabaseTypes, CallTypes, CallInv, StartQuery(r)
  PROVE  /\ at[r] = "handling" /\ at' = [at EXCEPT ![r] = "querying"]
         /\ UNCHANGED <<failure, applied, tool, err, outcome, inTime, main, mode, stage, open, queue, exported,
                        refused, late>>
         /\ phase[<<r, 2>>] = "new"
         /\ \/ phase[<<r, 1>>] = "new" /\ phase' = [phase EXCEPT ![<<r, 1>>] = "waiting"]
            \/ /\ phase[<<r, 1>>] = "done" /\ tool[r] = "get_cluster"
               /\ phase' = [phase EXCEPT ![<<r, 2>>] = "waiting"]
<1>1. /\ at[r] = "handling" /\ at' = [at EXCEPT ![r] = "querying"]
      /\ UNCHANGED <<failure, applied, tool, err, outcome, inTime, main, mode, stage, open, queue, exported,
                        refused, late>>
  BY DEF StartQuery, tvars, exporting
<1>2. phase[<<r, 2>>] = "new" /\ (phase[<<r, 1>>] = "new" \/ (phase[<<r, 1>>] = "done" /\ tool[r] = "get_cluster"))
  BY <1>1 DEF CallInv
<1>3. \/ phase[<<r, 1>>] = "new" /\ phase' = [phase EXCEPT ![<<r, 1>>] = "waiting"]
      \/ phase[<<r, 1>>] \in {"done", "failed"} /\ phase' = [phase EXCEPT ![<<r, 2>>] = "waiting"]
  BY DEF StartQuery, Database!Ask
<1> QED
  BY <1>1, <1>2, <1>3

(* The statement asked for last, and what its end makes of the call.        *)
LEMMA Returning ==
  ASSUME NEW r \in Requests, DatabaseTypes, CallTypes, CallInv, FailureInv, QueryReturns(r)
  PROVE  \E i \in {1, 2} :
           /\ Asked(r) = <<r, i>> /\ <<r, i>> \in Statements
           /\ i = 1 => phase[<<r, 2>>] = "new" /\ phase[<<r, 1>>] \in Over
           /\ i = 2 => phase[<<r, 2>>] \in Over /\ phase[<<r, 1>>] = "done" /\ tool[r] = "get_cluster"
           /\ UNCHANGED <<database, tool, inTime, main, mode, stage, open, exported, refused, late>>
           /\ Emit("trace", EndSpan(<<r, i>>, failure[<<r, i>>]))
           /\ at[r] = "querying"
           /\ \/ /\ i = 1 /\ phase[<<r, 1>>] = "done" /\ tool[r] = "get_cluster"
                 /\ at' = [at EXCEPT ![r] = "handling"] /\ UNCHANGED <<outcome, err>>
              \/ /\ at' = [at EXCEPT ![r] = "logging"]
                 /\ i = 1 => ~(phase[<<r, 1>>] = "done" /\ tool[r] = "get_cluster")
                 /\ \/ /\ i = 2 /\ "restricted" \in failure[<<r, 2>>]
                       /\ HandlerReturns(r, "partial", Nil)
                    \/ HandlerReturns(r, "ok", failure[<<r, i>>])
<1> DEFINE i == IF phase[<<r, 2>>] = "new" THEN 1 ELSE 2
<1>1. Asked(r) = <<r, i>> /\ i \in {1, 2} /\ <<r, i>> \in Statements
  BY Pairs DEF Asked
<1>2. /\ at[r] = "querying" /\ phase[<<r, i>>] \in Over
      /\ Emit("trace", EndSpan(<<r, i>>, failure[<<r, i>>]))
      /\ Continue(r, <<r, i>>)
      /\ UNCHANGED <<database, tool, inTime, main, mode, stage, open, exported, refused, late>>
  BY <1>1 DEF QueryReturns, Over
<1>3. /\ i = 1 => phase[<<r, 2>>] = "new" /\ phase[<<r, 1>>] \in Over
      /\ i = 2 => phase[<<r, 2>>] \in Over /\ phase[<<r, 1>>] = "done" /\ tool[r] = "get_cluster"
  BY <1>2 DEF CallInv
<1>4. failure[<<r, i>>] = Nil <=> phase[<<r, i>>] = "done"
  BY <1>1, <1>2 DEF FailureInv, Over
<1>5. CASE HasMore(r, <<r, i>>)
  BY <1>1, <1>2, <1>3, <1>4, <1>5 DEF Continue, HasMore
<1>6. CASE ~HasMore(r, <<r, i>>)
  <2>1. i = 1 => ~(phase[<<r, 1>>] = "done" /\ tool[r] = "get_cluster")
    BY <1>4, <1>6 DEF HasMore
  <2>2. /\ at' = [at EXCEPT ![r] = "logging"]
        /\ \/ /\ i = 2 /\ "restricted" \in failure[<<r, 2>>]
              /\ HandlerReturns(r, "partial", Nil)
           \/ HandlerReturns(r, "ok", failure[<<r, i>>])
    BY <1>1, <1>2, <1>6 DEF Continue, Tolerated
  <2> QED
    BY <1>1, <1>2, <1>3, <2>1, <2>2
<1> QED
  BY <1>5, <1>6

LEMMA DatabaseTypesStep ==
  DatabaseTypes /\ CallTypes /\ CallInv /\ [Next]_vars => DatabaseTypes'
<1> SUFFICES ASSUME DatabaseTypes, CallTypes, CallInv, [Next]_vars PROVE DatabaseTypes'
  OBVIOUS
<1> USE DEF DatabaseTypes
<1>1. ASSUME NEW k \in Statements, Begin(k) \/ Succeeds(k) \/ Fails(k) PROVE DatabaseTypes'
  <2>1. k[1] \in Requests
    BY Pairs
  <2>2. applied' \in [Requests -> Nat]
    BY <1>1, <2>1 DEF Begin, Succeeds, Fails
  <2> QED
    BY <1>1, <2>2, WorkFrame
<1>2. ASSUME NEW r \in Requests, Receive(r) \/ CallStep(r) PROVE DatabaseTypes'
  <2>1. CASE StartQuery(r)
    <3>1. <<r, 1>> \in Statements /\ <<r, 2>> \in Statements
      BY Pairs
    <3>2. UNCHANGED <<failure, applied>> /\ \E k \in Statements : phase' = [phase EXCEPT ![k] = "waiting"]
      BY <2>1, <3>1, Asking
    <3> QED
      BY <3>2
  <2>2. CASE ~StartQuery(r)
    BY <1>2, <2>2, CallFrame
  <2> QED
    BY <2>1, <2>2
<1>3. CASE MainKind
  BY <1>3, MainFrame
<1> QED
  BY <1>1, <1>2, <1>3, Kinds

LEMMA CallTypesStep ==
  DatabaseTypes /\ CallTypes /\ CallInv /\ FailureInv /\ [Next]_vars => CallTypes'
<1> SUFFICES ASSUME DatabaseTypes, CallTypes, CallInv, FailureInv, [Next]_vars PROVE CallTypes'
  OBVIOUS
<1>1. ASSUME NEW k \in Statements, Begin(k) \/ Succeeds(k) \/ Fails(k) PROVE CallTypes'
  BY <1>1, WorkFrame DEF CallTypes
<1>2. CASE MainKind
  <2>1. main' \in {"starting", "serving", "closing"}
    BY <1>2, MainFrame DEF CallTypes
  <2> QED
    BY <1>2, <2>1, MainFrame DEF CallTypes
<1>3. ASSUME NEW r \in Requests, Receive(r) \/ CallStep(r) PROVE CallTypes'
  <2>1. CASE Receive(r) \/ StartQuery(r)
    <3>1. /\ UNCHANGED <<tool, err, outcome, inTime, main>>
          /\ at[r] \in {"none", "handling"}
          /\ at' = [at EXCEPT ![r] = "handling"] \/ at' = [at EXCEPT ![r] = "querying"]
      BY <2>1 DEF Receive, StartQuery
    <3> QED
      BY <3>1 DEF CallTypes
  <2>2. CASE Refuse(r) \/ QueryReturns(r)
    <3>1. /\ UNCHANGED <<tool, inTime, main>> /\ at[r] \in {"handling", "querying"}
          /\ \/ at' = [at EXCEPT ![r] = "handling"] /\ UNCHANGED <<outcome, err>>
             \/ /\ at' = [at EXCEPT ![r] = "logging"]
                /\ \E e \in SUBSET Layers, answer \in {"ok", "partial"} : HandlerReturns(r, answer, e)
      <4>1. CASE Refuse(r)
        <5>1. HandlerReturns(r, "none", {"plain"}) => HandlerReturns(r, "ok", {"plain"})
          BY DEF HandlerReturns, Nil
        <5> QED
          BY <4>1, <5>1 DEF Refuse, Layers
      <4>2. CASE QueryReturns(r)
        <5>1. \A k \in Statements : failure[k] \in SUBSET Layers
          BY DEF DatabaseTypes
        <5> QED
          BY <4>2, <5>1, NilType, Returning
      <4> QED
        BY <2>2, <4>1, <4>2
    <3>2. CASE at' = [at EXCEPT ![r] = "handling"] /\ UNCHANGED <<outcome, err>>
      BY <3>1, <3>2 DEF CallTypes
    <3>3. ASSUME at' = [at EXCEPT ![r] = "logging"],
                 NEW e \in SUBSET Layers, NEW answer \in {"ok", "partial"}, HandlerReturns(r, answer, e)
          PROVE  CallTypes'
      <4>1. /\ \E o \in {"ok", "partial", "errorResult", "goError"} : outcome' = [outcome EXCEPT ![r] = o]
            /\ err' = err \/ \E f \in SUBSET Layers : err' = [err EXCEPT ![r] = f]
        <5>1. {"plain"} \in SUBSET Layers
          BY DEF Layers
        <5>2. \A f \in SUBSET Layers : Wrap(f) \in SUBSET Layers
          BY Wrapping
        <5> QED
          BY <3>3, <5>1, <5>2 DEF HandlerReturns
      <4>2. err' \in [Requests -> SUBSET Layers]
        BY <4>1 DEF CallTypes
      <4>3. /\ outcome' \in [Requests -> {"none", "ok", "partial", "errorResult", "goError"}]
            /\ \A s \in Requests : outcome'[s] = IF s = r THEN outcome'[r] ELSE outcome[s]
            /\ outcome'[r] # "none"
        BY <4>1 DEF CallTypes
      <4>4. /\ at' \in [Requests -> {"none", "handling", "querying", "logging", "closing", "answered"}]
            /\ \A s \in Requests : at'[s] = IF s = r THEN "logging" ELSE at[s]
        BY <3>3 DEF CallTypes
      <4>5. \A s \in Requests : outcome'[s] = "none" <=> at'[s] \in {"none", "handling", "querying"}
        BY <4>3, <4>4 DEF CallTypes
      <4> QED
        BY <3>1, <4>2, <4>3, <4>4, <4>5 DEF CallTypes
    <3> QED
      BY <3>1, <3>2, <3>3
  <2>3. CASE LogCall(r) \/ EndToolSpan(r)
    <3>1. /\ UNCHANGED <<tool, err, outcome, main>> /\ inTime' \subseteq inTime \cup {r}
          /\ at[r] \in {"logging", "closing"}
          /\ at' = [at EXCEPT ![r] = "closing"] \/ at' = [at EXCEPT ![r] = "answered"]
      BY <2>3 DEF LogCall, EndToolSpan
    <3> QED
      BY <3>1 DEF CallTypes
  <2> QED
    BY <1>3, <2>1, <2>2, <2>3 DEF CallStep
<1> QED
  BY <1>1, <1>2, <1>3, Kinds

-----------------------------------------------------------------------------
(* Calls and their statements.                                              *)

(* What is over, or returned, is not disturbed.                             *)
LEMMA Finality ==
  ASSUME DatabaseTypes, CallTypes, CallInv, FailureInv, [Next]_vars
  PROVE  /\ UNCHANGED <<tool, mode>>
         /\ \A k \in Statements : phase[k] \in Over => phase'[k] = phase[k] /\ failure'[k] = failure[k]
         /\ \A k \in Statements : phase[k] # "new" => phase'[k] # "new"
         /\ \A r \in Requests : at[r] \in Returned =>
              /\ at'[r] \in Returned /\ outcome'[r] = outcome[r] /\ err'[r] = err[r]
              /\ phase'[<<r, 1>>] = phase[<<r, 1>>] /\ phase'[<<r, 2>>] = phase[<<r, 2>>]
         /\ \A r \in Requests : at[r] = "answered" => at'[r] = "answered"
<1> USE DEF Over, Returned
<1>1. ASSUME NEW k \in Statements, Begin(k) \/ Succeeds(k) \/ Fails(k)
      PROVE  /\ UNCHANGED <<tool, mode, at, outcome, err>>
             /\ \A j \in Statements : phase[j] \in Over \cup {"new"} => phase'[j] = phase[j] /\ failure'[j] = failure[j]
             /\ \A j \in Statements : phase[j] # "new" => phase'[j] # "new"
  BY <1>1, WorkFrame DEF DatabaseTypes
<1>2. ASSUME NEW r \in Requests, Receive(r) \/ CallStep(r)
      PROVE  /\ UNCHANGED <<tool, mode, failure>>
             /\ \A s \in Requests : s # r => at'[s] = at[s] /\ outcome'[s] = outcome[s] /\ err'[s] = err[s]
             /\ \A j \in Statements : phase[j] # "new" => phase'[j] = phase[j]
             /\ \A j \in Statements : phase'[j] # phase[j] => j \in {<<r, 1>>, <<r, 2>>} /\ at[r] = "handling"
             /\ at[r] \in Returned => at'[r] \in Returned /\ outcome'[r] = outcome[r] /\ err'[r] = err[r]
             /\ at[r] # "answered"
  <2>1. CASE StartQuery(r)
    <3>1. /\ UNCHANGED <<tool, mode, failure, outcome, err>>
          /\ at[r] = "handling" /\ at' = [at EXCEPT ![r] = "querying"]
          /\ \/ phase[<<r, 1>>] = "new" /\ phase' = [phase EXCEPT ![<<r, 1>>] = "waiting"]
             \/ phase[<<r, 2>>] = "new" /\ phase' = [phase EXCEPT ![<<r, 2>>] = "waiting"]
      BY <2>1, Asking
    <3>2. PICK k \in {<<r, 1>>, <<r, 2>>} : phase[k] = "new" /\ phase' = [phase EXCEPT ![k] = "waiting"]
      BY <3>1
    <3>3. \A s \in Requests : s # r => at'[s] = at[s]
      BY <3>1 DEF CallTypes
    <3>4. \A j \in Statements : j # k => phase'[j] = phase[j]
      BY <3>2 DEF DatabaseTypes
    <3> QED
      BY <3>1, <3>2, <3>3, <3>4
  <2>2. CASE ~StartQuery(r)
    <3>1. at[r] # "answered"
      BY <1>2, <2>2 DEF Receive, CallStep, Refuse, QueryReturns, LogCall, EndToolSpan
    <3>2. at[r] \in Returned => at'[r] \in Returned /\ outcome'[r] = outcome[r] /\ err'[r] = err[r]
      BY <1>2, <2>2 DEF Receive, CallStep, Refuse, QueryReturns, LogCall, EndToolSpan, CallTypes
    <3> QED
      BY <1>2, <2>2, <3>1, <3>2, CallFrame DEF CallTypes
  <2> QED
    BY <2>1, <2>2
<1>3. CASE MainKind
  BY <1>3, MainFrame
<1>4. \A r \in Requests : at[r] \in Returned =>
        /\ phase[<<r, 1>>] \in Over \cup {"new"} /\ phase[<<r, 2>>] \in Over \cup {"new"}
  BY DEF CallInv
<1> QED
  BY <1>1, <1>2, <1>3, <1>4, Kinds, Pairs

LEMMA CallInvStep ==
  DatabaseTypes /\ CallTypes /\ CallInv /\ FailureInv /\ [Next]_vars => CallInv'
<1> SUFFICES ASSUME DatabaseTypes, CallTypes, CallInv, FailureInv, [Next]_vars PROVE CallInv'
  OBVIOUS
<1> USE DEF Over, Returned
<1>0. /\ phase \in [Statements -> {"new", "waiting", "running", "done", "failed"}]
      /\ at \in [Requests -> {"none", "handling", "querying", "logging", "closing", "answered"}]
  BY DEF DatabaseTypes, CallTypes
<1>1. ASSUME NEW k \in Statements, Begin(k) \/ Succeeds(k) \/ Fails(k) PROVE CallInv'
  <2>1. UNCHANGED <<tool, at, main>> /\ phase[k] \in {"waiting", "running"} /\ phase'[k] # "new"
    BY <1>1, WorkFrame
  <2>2. \A j \in Statements : j # k => phase'[j] = phase[j]
    BY <1>0, <1>1, WorkFrame
  <2>3. k[1] \in Requests /\ (k = <<k[1], 1>> \/ k = <<k[1], 2>>)
    BY Pairs
  <2>4. at[k[1]] = "querying" /\ (k = <<k[1], 1>> => phase[<<k[1], 2>>] = "new")
    BY <1>0, <2>1, <2>3 DEF CallInv
  <2>5. ASSUME NEW r \in Requests, r # k[1] PROVE phase'[<<r, 1>>] = phase[<<r, 1>>] /\ phase'[<<r, 2>>] = phase[<<r, 2>>]
    BY <2>2, <2>3, <2>5, Pairs
  <2>6. \/ k = <<k[1], 1>> /\ phase'[<<k[1], 2>>] = phase[<<k[1], 2>>]
        \/ k = <<k[1], 2>> /\ phase'[<<k[1], 1>>] = phase[<<k[1], 1>>]
    BY <2>2, <2>3, Pairs
  <2> QED
    BY <2>1, <2>3, <2>4, <2>5, <2>6 DEF CallInv
<1>2. CASE MainKind
  BY <1>2, MainFrame DEF CallInv
<1>3. ASSUME NEW r \in Requests, Receive(r) \/ CallStep(r) PROVE CallInv'
  <2>1. CASE StartQuery(r)
    <3>1. PICK i \in {1, 2} :
             /\ phase[<<r, i>>] = "new" /\ phase' = [phase EXCEPT ![<<r, i>>] = "waiting"]
             /\ phase[<<r, 2>>] = "new" /\ (i = 2 => phase[<<r, 1>>] = "done" /\ tool[r] = "get_cluster")
      BY <2>1, Asking
    <3>2. UNCHANGED <<tool, main>> /\ at[r] = "handling" /\ at' = [at EXCEPT ![r] = "querying"]
      BY <2>1, Asking
    <3>3. at'[r] = "querying" /\ \A s \in Requests : s # r => at'[s] = at[s]
      BY <1>0, <3>2
    <3>4. \A s \in Requests : s # r => phase'[<<s, 1>>] = phase[<<s, 1>>] /\ phase'[<<s, 2>>] = phase[<<s, 2>>]
      BY <1>0, <3>1, Pairs
    <3>5. CASE i = 1
      <4>1. phase'[<<r, 1>>] = "waiting" /\ phase'[<<r, 2>>] = "new"
        BY <1>0, <3>1, <3>5, Pairs
      <4> QED
        BY <3>2, <3>3, <3>4, <4>1 DEF CallInv
    <3>6. CASE i = 2
      <4>1. phase'[<<r, 1>>] = "done" /\ phase'[<<r, 2>>] = "waiting"
        BY <1>0, <3>1, <3>6, Pairs
      <4> QED
        BY <3>1, <3>2, <3>3, <3>4, <3>6, <4>1 DEF CallInv
    <3> QED
      BY <3>5, <3>6
  <2>2. CASE ~StartQuery(r)
    <3>1. UNCHANGED <<tool, main, phase>> /\ at' = [at EXCEPT ![r] = at'[r]]
      BY <1>3, <2>2, CallFrame
    <3>2. \A s \in Requests : s # r => at'[s] = at[s]
      BY <1>0, <3>1
    <3>3. main # "starting"
      BY <1>3, <2>2 DEF CallInv, Receive, CallStep, Refuse, QueryReturns, LogCall, EndToolSpan
    <3>4. CASE Receive(r)
      <4>1. at[r] = "none" /\ at'[r] = "handling"
        BY <1>0, <3>4 DEF Receive
      <4> QED
        BY <3>1, <3>2, <3>3, <4>1 DEF CallInv
    <3>5. CASE Refuse(r)
      <4>1. at[r] = "handling" /\ at'[r] = "logging" /\ phase[<<r, 1>>] = "new"
        BY <1>0, <3>5 DEF Refuse
      <4> QED
        BY <3>1, <3>2, <3>3, <4>1 DEF CallInv
    <3>6. CASE QueryReturns(r)
      <4>1. /\ at'[r] \in {"handling", "logging"}
            /\ phase[<<r, 1>>] \in Over /\ phase[<<r, 2>>] \in Over \cup {"new"}
            /\ at'[r] = "handling" => phase[<<r, 2>>] = "new" /\ phase[<<r, 1>>] = "done" /\ tool[r] = "get_cluster"
        BY <1>0, <3>6, Returning
      <4> QED
        BY <3>1, <3>2, <3>3, <4>1 DEF CallInv
    <3>7. CASE LogCall(r) \/ EndToolSpan(r)
      <4>1. at[r] \in Returned /\ at'[r] \in Returned
        BY <1>0, <3>7 DEF LogCall, EndToolSpan
      <4> QED
        BY <3>1, <3>2, <3>3, <4>1 DEF CallInv
    <3> QED
      BY <1>3, <2>2, <3>4, <3>5, <3>6, <3>7 DEF CallStep
  <2> QED
    BY <2>1, <2>2
<1> QED
  BY <1>1, <1>2, <1>3, Kinds

LEMMA FailureInvStep ==
  DatabaseTypes /\ CallTypes /\ CallInv /\ FailureInv /\ [Next]_vars => FailureInv'
<1> SUFFICES ASSUME DatabaseTypes, CallTypes, CallInv, FailureInv, [Next]_vars PROVE FailureInv'
  OBVIOUS
<1>0. /\ phase \in [Statements -> {"new", "waiting", "running", "done", "failed"}]
      /\ failure \in [Statements -> SUBSET Layers]
  BY DEF DatabaseTypes
<1>1. ASSUME NEW k \in Statements, Begin(k) \/ Succeeds(k) \/ Fails(k) PROVE FailureInv'
  <2>1. failure[k] = Nil
    BY <1>1, WorkFrame DEF FailureInv
  <2>2. failure'[k] # Nil <=> phase'[k] = "failed"
    <3>1. CASE Begin(k) \/ Succeeds(k)
      BY <1>0, <2>1, <3>1 DEF Begin, Succeeds, Database!Begin, Database!Succeed
    <3>2. CASE Fails(k)
      <4>1. PICK f \in Failures : failure' = [failure EXCEPT ![k] = Wrap(f)]
        BY <3>2 DEF Fails, Failures
      <4>2. failure'[k] # Nil
        BY <1>0, <4>1, Wrapping, FailureTypes
      <4> QED
        BY <1>0, <3>2, <4>2 DEF Fails, Database!Fail
    <3> QED
      BY <1>1, <3>1, <3>2
  <2>3. \A j \in Statements : j # k => phase'[j] = phase[j] /\ failure'[j] = failure[j]
    BY <1>0, <1>1, WorkFrame
  <2> QED
    BY <2>2, <2>3 DEF FailureInv
<1>2. ASSUME NEW r \in Requests, Receive(r) \/ CallStep(r) PROVE FailureInv'
  <2>1. CASE StartQuery(r)
    <3>1. PICK k \in Statements : phase[k] = "new" /\ phase' = [phase EXCEPT ![k] = "waiting"]
      BY <2>1, Asking, Pairs
    <3>2. UNCHANGED failure
      BY <2>1, Asking
    <3> QED
      BY <1>0, <3>1, <3>2 DEF FailureInv
  <2>2. CASE ~StartQuery(r)
    BY <1>2, <2>2, CallFrame DEF FailureInv
  <2> QED
    BY <2>1, <2>2
<1>3. CASE MainKind
  BY <1>3, MainFrame DEF FailureInv
<1> QED
  BY <1>1, <1>2, <1>3, Kinds

(* Errors are only ever wrapped.                                            *)
LEMMA ChainStep ==
  DatabaseTypes /\ CallTypes /\ CallInv /\ FailureInv /\ ChainInv /\ [Next]_vars => ChainInv'
<1> SUFFICES ASSUME DatabaseTypes, CallTypes, CallInv, FailureInv, ChainInv, [Next]_vars PROVE ChainInv'
  OBVIOUS
<1>0. failure \in [Statements -> SUBSET Layers] /\ err \in [Requests -> SUBSET Layers]
  BY DEF DatabaseTypes, CallTypes
<1>1. ASSUME NEW k \in Statements, Begin(k) \/ Succeeds(k) \/ Fails(k) PROVE ChainInv'
  <2>1. UNCHANGED err /\ "quote" \notin failure'[k]
    BY <1>1, WorkFrame DEF ChainInv
  <2>2. \A j \in Statements : j # k => failure'[j] = failure[j]
    BY <1>0, <1>1, WorkFrame
  <2> QED
    BY <2>1, <2>2 DEF ChainInv
<1>2. ASSUME NEW r \in Requests, Receive(r) \/ CallStep(r) PROVE ChainInv'
  <2>1. UNCHANGED failure /\ \A s \in Requests : s # r => err'[s] = err[s]
    BY <1>0, <1>2, CallFrame
  <2>2. CASE ~(Refuse(r) \/ QueryReturns(r))
    BY <1>2, <2>1, <2>2 DEF ChainInv, Receive, CallStep, StartQuery, LogCall, EndToolSpan
  <2>3. ASSUME NEW e \in SUBSET Layers, NEW answer, "quote" \notin e, HandlerReturns(r, answer, e)
        PROVE  ChainInv'
    <3>1. \A f \in SUBSET Layers : Wrap(f) \in SUBSET Layers /\ ("quote" \in Wrap(f) => "quote" \in f)
      BY Wrapping
    <3>2. {"plain"} \in SUBSET Layers /\ "quote" \notin {"plain"}
      BY DEF Layers
    <3>3. "quote" \notin err'[r]
      BY <1>0, <2>3, <3>1, <3>2 DEF HandlerReturns, ChainInv
    <3> QED
      BY <2>1, <3>3 DEF ChainInv
  <2>4. CASE Refuse(r)
    <3>1. HandlerReturns(r, "none", {"plain"}) /\ {"plain"} \in SUBSET Layers /\ "quote" \notin {"plain"}
      BY <2>4 DEF Refuse, Layers
    <3> QED
      BY <2>3, <3>1
  <2>5. CASE QueryReturns(r)
    <3>1. \/ UNCHANGED err
          \/ HandlerReturns(r, "partial", Nil)
          \/ \E k \in Statements : HandlerReturns(r, "ok", failure[k])
      BY <2>5, Returning
    <3>2. CASE UNCHANGED err
      BY <2>1, <3>2 DEF ChainInv
    <3>3. CASE HandlerReturns(r, "partial", Nil)
      BY <2>3, <3>3, NilType
    <3>4. ASSUME NEW k \in Statements, HandlerReturns(r, "ok", failure[k]) PROVE ChainInv'
      <4>1. failure[k] \in SUBSET Layers /\ "quote" \notin failure[k]
        BY <1>0 DEF ChainInv
      <4> QED
        BY <2>3, <3>4, <4>1
    <3> QED
      BY <3>1, <3>2, <3>3, <3>4
  <2> QED
    BY <2>2, <2>4, <2>5
<1>3. CASE MainKind
  BY <1>3, MainFrame DEF ChainInv
<1> QED
  BY <1>1, <1>2, <1>3, Kinds

(* An answer is given when the statements are over, and they stay over.     *)
LEMMA AnswersStep ==
  DatabaseTypes /\ CallTypes /\ CallInv /\ FailureInv /\ AnswersMatchDatabase /\ [Next]_vars
    => AnswersMatchDatabase'
<1> SUFFICES ASSUME DatabaseTypes, CallTypes, CallInv, FailureInv, AnswersMatchDatabase, [Next]_vars,
                    NEW r \in Requests
             PROVE  /\ outcome'[r] = "ok" =>
                         /\ phase'[<<r, 1>>] = "done"
                         /\ phase'[<<r, 2>>] = IF tool'[r] = "get_cluster" THEN "done" ELSE "new"
                    /\ outcome'[r] = "partial" =>
                         /\ tool'[r] = "get_cluster" /\ phase'[<<r, 1>>] = "done"
                         /\ "restricted" \in failure'[<<r, 2>>]
  BY DEF AnswersMatchDatabase
<1>1. CASE at[r] \in Returned
  <2>1. /\ outcome'[r] = outcome[r] /\ tool' = tool
        /\ phase'[<<r, 1>>] = phase[<<r, 1>>] /\ phase'[<<r, 2>>] = phase[<<r, 2>>]
    BY <1>1, Finality
  <2>2. "restricted" \in failure[<<r, 2>>] => "restricted" \in failure'[<<r, 2>>]
    BY Finality, Pairs DEF FailureInv, Over, Nil
  <2> QED
    BY <2>1, <2>2 DEF AnswersMatchDatabase
<1>2. CASE at[r] \notin Returned /\ ~(Refuse(r) \/ QueryReturns(r))
  <2>1. outcome[r] = "none"
    BY <1>2 DEF CallTypes, Returned
  <2>2. UNCHANGED outcome \/ \E s \in Requests : s # r /\ outcome' = [outcome EXCEPT ![s] = outcome'[s]]
    <3>1. ASSUME NEW k \in Statements, Begin(k) \/ Succeeds(k) \/ Fails(k) PROVE UNCHANGED outcome
      BY <3>1, WorkFrame
    <3>2. CASE MainKind
      BY <3>2, MainFrame
    <3>3. CASE Receive(r) \/ CallStep(r)
      BY <1>2, <3>3 DEF CallStep, Receive, StartQuery, LogCall, EndToolSpan
    <3>4. ASSUME NEW s \in Requests, s # r, Receive(s) \/ CallStep(s) PROVE outcome' = [outcome EXCEPT ![s] = outcome'[s]]
      BY <3>4, CallFrame
    <3> QED
      BY <3>1, <3>2, <3>3, <3>4, Kinds
  <2>3. outcome'[r] = "none"
    BY <2>1, <2>2 DEF CallTypes
  <2> QED
    BY <2>3
<1>3. CASE Refuse(r)
  <2>1. outcome'[r] \in {"errorResult", "goError"}
    BY <1>3 DEF Refuse, HandlerReturns, CallTypes, Nil
  <2> QED
    BY <2>1
<1>4. CASE QueryReturns(r)
  <2>1. PICK i \in {1, 2} :
           /\ <<r, i>> \in Statements
           /\ i = 1 => phase[<<r, 2>>] = "new" /\ phase[<<r, 1>>] \in Over
           /\ i = 2 => phase[<<r, 2>>] \in Over /\ phase[<<r, 1>>] = "done" /\ tool[r] = "get_cluster"
           /\ UNCHANGED <<database, tool>> /\ at[r] = "querying"
           /\ \/ UNCHANGED outcome
              \/ /\ i = 1 => ~(phase[<<r, 1>>] = "done" /\ tool[r] = "get_cluster")
                 /\ \/ i = 2 /\ "restricted" \in failure[<<r, 2>>] /\ HandlerReturns(r, "partial", Nil)
                    \/ HandlerReturns(r, "ok", failure[<<r, i>>])
    BY <1>4, Returning
  <2>2. UNCHANGED <<phase, failure, tool>>
    BY <2>1 DEF database
  <2>3. CASE UNCHANGED outcome
    BY <2>1, <2>3 DEF CallTypes
  <2>4. CASE i = 2 /\ "restricted" \in failure[<<r, 2>>] /\ HandlerReturns(r, "partial", Nil)
    <3>1. outcome'[r] # "ok"
      BY <2>4 DEF HandlerReturns, CallTypes
    <3> QED
      BY <2>1, <2>2, <2>4, <3>1
  <2>5. CASE /\ i = 1 => ~(phase[<<r, 1>>] = "done" /\ tool[r] = "get_cluster")
             /\ HandlerReturns(r, "ok", failure[<<r, i>>])
    <3>1. outcome'[r] # "partial" /\ (outcome'[r] = "ok" => failure[<<r, i>>] = Nil)
      BY <2>5 DEF HandlerReturns, CallTypes
    <3>2. outcome'[r] = "ok" => phase[<<r, i>>] # "failed"
      BY <2>1, <3>1 DEF FailureInv
    <3> QED
      BY <2>1, <2>2, <2>5, <3>1, <3>2 DEF Over
  <2> QED
    BY <2>1, <2>3, <2>4, <2>5
<1> QED
  BY <1>1, <1>2, <1>3, <1>4

LEMMA AppliedStep ==
  DatabaseTypes /\ CallTypes /\ CallInv /\ AppliedInv /\ [Next]_vars => AppliedInv'
<1> SUFFICES ASSUME DatabaseTypes, CallTypes, CallInv, AppliedInv, [Next]_vars PROVE AppliedInv'
  OBVIOUS
<1>0. /\ phase \in [Statements -> {"new", "waiting", "running", "done", "failed"}]
      /\ applied \in [Requests -> Nat]
  BY DEF DatabaseTypes
<1>1. ASSUME NEW k \in Statements, Begin(k) \/ Succeeds(k) \/ Fails(k) PROVE AppliedInv'
  <2>1. UNCHANGED tool /\ phase[k] \in {"waiting", "running"} /\ phase' = [phase EXCEPT ![k] = phase'[k]]
    BY <1>1, WorkFrame
  <2>2. k[1] \in Requests /\ (k = <<k[1], 1>> \/ k = <<k[1], 2>>) /\ <<k[1], 1>> \in Statements
    BY Pairs
  <2>3. \A r \in Requests : r # k[1] => phase'[<<r, 1>>] = phase[<<r, 1>>] /\ applied'[r] = applied[r]
    <3>1. applied' = applied \/ applied' = [applied EXCEPT ![k[1]] = @ + 1]
      BY <1>1 DEF Begin, Succeeds, Fails
    <3>2. \A j \in Statements : j # k => phase'[j] = phase[j]
      BY <1>0, <2>1
    <3> QED
      BY <1>0, <2>2, <3>1, <3>2, Pairs
  <2>4. CASE k = <<k[1], 2>>
    <3>1. tool[k[1]] = "get_cluster" /\ phase'[<<k[1], 1>>] = phase[<<k[1], 1>>]
      BY <1>0, <2>1, <2>2, <2>4 DEF CallInv
    <3>2. UNCHANGED applied
      BY <1>1, <3>1 DEF Begin, Succeeds, Fails
    <3> QED
      BY <2>1, <2>2, <2>3, <3>1, <3>2 DEF AppliedInv
  <2>5. CASE k = <<k[1], 1>>
    <3>1. applied[k[1]] = 0
      BY <2>1, <2>2, <2>5 DEF AppliedInv, Over
    <3>2. CASE Begin(k)
      <4>1. UNCHANGED applied /\ phase'[k] = "running"
        BY <1>0, <3>2 DEF Begin, Database!Begin
      <4> QED
        BY <2>1, <2>2, <2>3, <2>5, <3>1, <4>1 DEF AppliedInv, Over
    <3>3. CASE Succeeds(k)
      <4>1. phase'[k] = "done" /\ applied'[k[1]] = IF tool[k[1]] = "write" THEN 1 ELSE 0
        BY <1>0, <2>2, <3>1, <3>3 DEF Succeeds, Database!Succeed
      <4> QED
        BY <2>1, <2>2, <2>3, <2>5, <4>1 DEF AppliedInv, Over
    <3>4. CASE Fails(k)
      <4>1. phase'[k] = "failed"
        BY <1>0, <3>4 DEF Fails, Database!Fail
      <4>2. applied'[k[1]] \in {0, 1}
        BY <1>0, <2>2, <3>1, <3>4 DEF Fails
      <4> QED
        BY <2>1, <2>2, <2>3, <2>5, <4>1, <4>2 DEF AppliedInv, Over
    <3> QED
      BY <1>1, <3>2, <3>3, <3>4
  <2> QED
    BY <2>2, <2>4, <2>5
<1>2. ASSUME NEW r \in Requests, Receive(r) \/ CallStep(r) PROVE AppliedInv'
  <2>1. CASE StartQuery(r)
    <3>1. PICK k \in Statements : phase[k] = "new" /\ phase' = [phase EXCEPT ![k] = "waiting"]
      BY <2>1, Asking, Pairs
    <3>2. UNCHANGED <<applied, tool>>
      BY <2>1, Asking
    <3>3. \A s \in Requests : \/ phase'[<<s, 1>>] = phase[<<s, 1>>]
                              \/ phase[<<s, 1>>] = "new" /\ phase'[<<s, 1>>] = "waiting"
      BY <1>0, <3>1, Pairs
    <3> QED
      BY <3>2, <3>3 DEF AppliedInv, Over
  <2>2. CASE ~StartQuery(r)
    BY <1>2, <2>2, CallFrame DEF AppliedInv
  <2> QED
    BY <2>1, <2>2
<1>3. CASE MainKind
  BY <1>3, MainFrame DEF AppliedInv
<1> QED
  BY <1>1, <1>2, <1>3, Kinds

-----------------------------------------------------------------------------
(* Records.                                                                 *)

(* What is emitted joins the queue of its signal, if it is accepted at all. *)
LEMMA Emitting ==
  ASSUME TelemetryTypeOK, NEW s \in Signals, NEW x, Emit(s, x)
  PROVE  /\ queue'[s] \subseteq queue[s] \cup {x} /\ queue[s] \subseteq queue'[s]
         /\ Accepting(s) => x \in queue'[s]
         /\ \A t \in Signals : t # s => queue'[t] = queue[t]
BY DEF TelemetryTypeOK, Emit

(* The exporters move records, they make none.                              *)
LEMMA Moving ==
  ASSUME TelemetryTypeOK, MainKind, NEW s \in Signals
  PROVE  queue'[s] \subseteq queue[s] /\ exported'[s] \subseteq exported[s] \cup queue[s]
<1> USE DEF TelemetryTypeOK
<1>1. CASE StopServing \/ ClosePool \/ UNCHANGED vars
  BY <1>1 DEF StopServing, ClosePool, vars, tvars, exporting
<1>2. CASE Start
  BY <1>2 DEF Start, SetupStep, BuildResource, OpenFile, NewTraceExporter, NewLogExporter, InstallProviders,
       AttachBridge, tvars, exporting
<1>3. CASE ShutdownOTel
  <2>1. UNCHANGED exporting \/ \E t \in Signals : Deliver(t) \/ GiveUp(t)
    BY <1>3 DEF ShutdownOTel, BeginShutdown, ShutdownStep, ShutdownTraces, ShutdownLogs, CloseFile, Signals
  <2> QED
    BY <2>1 DEF exporting, Deliver, GiveUp
<1> QED
  BY <1>1, <1>2, <1>3 DEF MainKind

(* A genuine record stays genuine: its subject is not disturbed any more.   *)
LEMMA Lasting ==
  ASSUME DatabaseTypes, CallTypes, CallInv, FailureInv, [Next]_vars, NEW x, Genuine(x)
  PROVE  Genuine(x)'
<1>1. CASE x.kind = "sql" /\ x.of \in Statements /\ phase[x.of] \in Over /\ x = EndSpan(x.of, failure[x.of])
  <2>1. phase'[x.of] = phase[x.of] /\ failure'[x.of] = failure[x.of]
    BY <1>1, Finality
  <2> QED
    BY <1>1, <2>1 DEF Genuine
<1>2. CASE x.kind = "log" /\ x.of \in Requests /\ at[x.of] \in Returned /\ x = LogRecord(x.of)
  <2>1. at'[x.of] \in Returned /\ outcome'[x.of] = outcome[x.of] /\ err'[x.of] = err[x.of]
    BY <1>2, Finality
  <2> QED
    BY <1>2, <2>1 DEF Genuine, LogRecord
<1>3. CASE x.kind = "tool" /\ x.of \in Requests /\ at[x.of] \in Returned /\ x = ToolSpan(x.of)
  <2>1. at'[x.of] \in Returned /\ outcome'[x.of] = outcome[x.of] /\ err'[x.of] = err[x.of]
    BY <1>3, Finality
  <2> QED
    BY <1>3, <2>1 DEF Genuine, ToolSpan
<1> QED
  BY <1>1, <1>2, <1>3 DEF Genuine

(* What a call emits is genuine.                                            *)
LEMMA Emission ==
  ASSUME DatabaseTypes, CallTypes, CallInv, FailureInv,
         NEW r \in Requests, QueryReturns(r) \/ LogCall(r) \/ EndToolSpan(r)
  PROVE  UNCHANGED exported /\ \E s \in Signals : \E x : Emit(s, x) /\ Genuine(x)'
<1>1. CASE QueryReturns(r)
  <2>1. PICK k \in Statements : /\ phase[k] \in Over /\ Emit("trace", EndSpan(k, failure[k]))
                                /\ UNCHANGED <<phase, failure, exported>>
    BY <1>1, Returning DEF database
  <2>2. ASSUME NEW x, x = EndSpan(k, failure[k]) PROVE Genuine(x)'
    <3>1. x.kind = "sql" /\ x.of = k
      BY <2>2 DEF EndSpan
    <3> QED
      BY <2>1, <2>2, <3>1 DEF Genuine
  <2> QED
    BY <2>1, <2>2 DEF Signals
<1>2. CASE LogCall(r)
  <2>1. /\ Emit("log", LogRecord(r)) /\ UNCHANGED <<outcome, err, exported>>
        /\ at' = [at EXCEPT ![r] = "closing"]
    BY <1>2 DEF LogCall
  <2>2. at'[r] \in Returned
    BY <2>1 DEF CallTypes, Returned
  <2>3. ASSUME NEW x, x = LogRecord(r) PROVE Genuine(x)'
    <3>1. x.kind = "log" /\ x.of = r /\ x = LogRecord(r)'
      BY <2>1, <2>3 DEF LogRecord
    <3> QED
      BY <2>2, <3>1 DEF Genuine
  <2> QED
    BY <2>1, <2>3 DEF Signals
<1>3. CASE EndToolSpan(r)
  <2>1. /\ Emit("trace", ToolSpan(r)) /\ UNCHANGED <<outcome, err, exported>>
        /\ at' = [at EXCEPT ![r] = "answered"]
    BY <1>3 DEF EndToolSpan
  <2>2. at'[r] \in Returned
    BY <2>1 DEF CallTypes, Returned
  <2>3. ASSUME NEW x, x = ToolSpan(r) PROVE Genuine(x)'
    <3>1. x.kind = "tool" /\ x.of = r /\ x = ToolSpan(r)'
      BY <2>1, <2>3 DEF ToolSpan
    <3> QED
      BY <2>2, <3>1 DEF Genuine
  <2> QED
    BY <2>1, <2>3 DEF Signals
<1> QED
  BY <1>1, <1>2, <1>3

LEMMA RecordStep ==
  TelemetryTypeOK /\ DatabaseTypes /\ CallTypes /\ CallInv /\ FailureInv /\ RecordInv /\ [Next]_vars
    => RecordInv'
<1> SUFFICES ASSUME TelemetryTypeOK, DatabaseTypes, CallTypes, CallInv, FailureInv, RecordInv, [Next]_vars,
                    NEW x \in Records'
             PROVE  Genuine(x)'
  BY DEF RecordInv
<1>1. x \in Records => Genuine(x)'
  BY Lasting DEF RecordInv
<1>2. PICK s \in Signals : x \in queue'[s] \/ x \in exported'[s]
  BY DEF Records
<1>3. ASSUME NEW k \in Statements, Begin(k) \/ Succeeds(k) \/ Fails(k) PROVE Genuine(x)'
  BY <1>1, <1>2, <1>3, WorkFrame DEF Records
<1>4. CASE MainKind
  BY <1>1, <1>2, <1>4, Moving DEF Records
<1>5. ASSUME NEW r \in Requests, Receive(r) \/ CallStep(r) PROVE Genuine(x)'
  <2>1. CASE Receive(r) \/ Refuse(r) \/ StartQuery(r)
    <3>1. UNCHANGED <<queue, exported>>
      BY <2>1 DEF Receive, Refuse, StartQuery, tvars, exporting
    <3> QED
      BY <1>1, <1>2, <3>1 DEF Records
  <2>2. CASE QueryReturns(r) \/ LogCall(r) \/ EndToolSpan(r)
    <3>1. UNCHANGED exported
      BY <2>2, Emission
    <3>2. PICK t \in Signals : \E z : Emit(t, z) /\ Genuine(z)'
      BY <2>2, Emission
    <3>3. PICK y : Emit(t, y) /\ Genuine(y)'
      BY <3>2
    <3>4. x = y \/ x \in Records
      BY <1>2, <3>1, <3>3, Emitting DEF Records
    <3> QED
      BY <1>1, <3>3, <3>4
  <2> QED
    BY <1>5, <2>1, <2>2 DEF CallStep
<1> QED
  BY <1>3, <1>4, <1>5, Kinds

-----------------------------------------------------------------------------
(* What telemetry holds.                                                    *)

LEMMA OpenStep == TelemetryTypeOK /\ OpenInv /\ [Next]_vars => OpenInv'
<1> SUFFICES ASSUME TelemetryTypeOK, OpenInv, [Next]_vars PROVE OpenInv'
  OBVIOUS
<1>0. mode \in {"off", "file", "otlp"}
  BY DEF TelemetryTypeOK
<1>1. CASE UNCHANGED <<mode, stage, open, late>>
  BY <1>1 DEF OpenInv, Held
<1>2. CASE Start
  <2>1. CASE BuildResource
    BY <1>0, <2>1 DEF BuildResource, OpenInv, Held
  <2>2. CASE OpenFile
    BY <1>0, <2>2 DEF OpenFile, OpenInv, Held
  <2>3. CASE NewTraceExporter
    BY <1>0, <2>3 DEF NewTraceExporter, OpenInv, Held
  <2>4. CASE NewLogExporter
    BY <1>0, <2>4 DEF NewLogExporter, OpenInv, Held
  <2>5. CASE InstallProviders \/ AttachBridge
    BY <1>0, <2>5 DEF InstallProviders, AttachBridge, OpenInv, Held
  <2> QED
    BY <1>1, <1>2, <2>1, <2>2, <2>3, <2>4, <2>5 DEF Start, SetupStep, tvars
<1>3. CASE ShutdownOTel
  <2>1. CASE BeginShutdown
    BY <1>0, <2>1 DEF BeginShutdown, OpenInv, Held
  <2>2. CASE ShutdownTraces
    <3>1. late' \in BOOLEAN /\ (late => late')
      BY <2>2 DEF ShutdownTraces, Deliver, GiveUp, TelemetryTypeOK
    <3>2. open' = open \ {"traceExporter"} \/ (late' /\ open' = open)
      BY <2>2 DEF ShutdownTraces, GiveUp
    <3>3. UNCHANGED mode /\ stage = "flushTraces" /\ stage' = "flushLogs" /\ open = Held
      BY <2>2 DEF ShutdownTraces, OpenInv
    <3> QED
      BY <1>0, <3>1, <3>2, <3>3 DEF OpenInv, Held
  <2>3. CASE ShutdownLogs
    <3>1. UNCHANGED mode /\ stage = "flushLogs" /\ stage' = "closeFile" /\ open' = open \ {"logExporter"}
      BY <2>3 DEF ShutdownLogs
    <3>2. late => late'
      BY <2>3 DEF ShutdownLogs, GiveUp
    <3> QED
      BY <1>0, <3>1, <3>2 DEF OpenInv, Held
  <2>4. CASE CloseFile
    BY <1>0, <2>4 DEF CloseFile, OpenInv, Held
  <2> QED
    BY <1>3, <2>1, <2>2, <2>3, <2>4 DEF ShutdownOTel, ShutdownStep
<1>4. CASE StopServing \/ ClosePool \/ UNCHANGED vars
  BY <1>1, <1>4 DEF StopServing, ClosePool, vars, tvars
<1>5. ASSUME NEW k \in Statements, Begin(k) \/ Succeeds(k) \/ Fails(k) PROVE OpenInv'
  BY <1>1, <1>5 DEF Begin, Succeeds, Fails, tvars
<1>6. ASSUME NEW r \in Requests, Receive(r) \/ CallStep(r) PROVE OpenInv'
  <2>1. UNCHANGED <<mode, stage, open, late>>
    BY <1>6 DEF Receive, CallStep, Refuse, StartQuery, QueryReturns, LogCall, EndToolSpan, tvars
  <2> QED
    BY <1>1, <2>1
<1> QED
  BY <1>2, <1>3, <1>4, <1>5, <1>6, Kinds DEF MainKind

(* A span is owed for a statement only once it has been emitted.            *)
LEMMA Spans ==
  ASSUME DatabaseTypes, CallTypes, CallInv, FailureInv, [Next]_vars, NEW k \in Statements, SpanEnded(k)'
  PROVE  \/ SpanEnded(k) /\ failure'[k] = failure[k]
         \/ QueryReturns(k[1]) /\ k = Asked(k[1]) /\ failure'[k] = failure[k]
<1> DEFINE s == k[1]
<1>0. /\ s \in Requests /\ (k = <<s, 1>> \/ k = <<s, 2>>) /\ <<s, 1>> \in Statements /\ <<s, 2>> \in Statements
      /\ phase \in [Statements -> {"new", "waiting", "running", "done", "failed"}]
      /\ at \in [Requests -> {"none", "handling", "querying", "logging", "closing", "answered"}]
  BY Pairs DEF DatabaseTypes, CallTypes
<1>1. ASSUME NEW j \in Statements, Begin(j) \/ Succeeds(j) \/ Fails(j) PROVE SpanEnded(k) /\ failure'[k] = failure[k]
  <2>1. /\ UNCHANGED at /\ phase[j] \in {"waiting", "running"} /\ phase'[j] # "new"
        /\ \A i \in Statements : i # j => phase'[i] = phase[i] /\ failure'[i] = failure[i]
    BY <1>1, WorkFrame DEF DatabaseTypes
  <2>2. \A i \in Statements : phase'[i] = "new" <=> phase[i] = "new"
    BY <2>1
  <2>3. SpanEnded(k)
    BY <1>0, <2>1, <2>2 DEF SpanEnded, Asked
  <2>4. k # j
    <3>1. k = j => at[s] = "querying" /\ Asked(s) = k
      BY <1>0, <2>1 DEF CallInv, Asked, Returned, Over
    <3> QED
      BY <2>3, <3>1 DEF SpanEnded
  <2> QED
    BY <2>1, <2>3, <2>4
<1>2. CASE MainKind
  BY <1>2, MainFrame DEF SpanEnded, Asked
<1>3. ASSUME NEW r \in Requests, Receive(r) \/ CallStep(r)
      PROVE  \/ SpanEnded(k) /\ failure'[k] = failure[k]
             \/ QueryReturns(s) /\ k = Asked(s) /\ failure'[k] = failure[k]
  <2>0. UNCHANGED failure /\ (s # r => at'[s] = at[s])
    BY <1>0, <1>3, CallFrame
  <2>1. CASE StartQuery(r)
    <3>1. PICK i \in {1, 2} : phase' = [phase EXCEPT ![<<r, i>>] = "waiting"] /\ phase[<<r, 2>>] = "new"
      BY <2>1, Asking
    <3>2. at[r] = "handling" /\ at'[r] = "querying"
      <4>1. at[r] = "handling" /\ at' = [at EXCEPT ![r] = "querying"]
        BY <2>1, Asking
      <4> QED
        BY <1>0, <4>1
    <3>3. CASE s # r
      <4>1. phase'[<<s, 1>>] = phase[<<s, 1>>] /\ phase'[<<s, 2>>] = phase[<<s, 2>>]
        BY <1>0, <3>1, <3>3, Pairs
      <4> QED
        BY <1>0, <2>0, <3>3, <4>1 DEF SpanEnded, Asked
    <3>4. CASE s = r /\ i = 1
      <4>1. phase'[<<r, 2>>] = "new"
        BY <1>0, <3>1, <3>4, Pairs
      <4> QED
        BY <1>0, <3>2, <3>4, <4>1 DEF SpanEnded, Asked
    <3>5. CASE s = r /\ i = 2
      <4>1. phase'[<<r, 2>>] = "waiting" /\ phase'[<<r, 1>>] = phase[<<r, 1>>]
        BY <1>0, <3>1, <3>5, Pairs
      <4> QED
        BY <1>0, <2>0, <3>2, <3>5, <4>1 DEF SpanEnded, Asked
    <3> QED
      BY <3>3, <3>4, <3>5
  <2>2. CASE ~StartQuery(r)
    <3>1. UNCHANGED phase
      BY <1>3, <2>2, CallFrame
    <3>2. CASE s # r \/ at[r] # "querying"
      BY <2>0, <3>1, <3>2, <1>0 DEF SpanEnded, Asked
    <3>3. CASE s = r /\ at[r] = "querying"
      <4>1. QueryReturns(r)
        BY <1>3, <2>2, <3>3 DEF Receive, CallStep, Refuse, LogCall, EndToolSpan
      <4> QED
        BY <2>0, <3>1, <3>3, <4>1 DEF SpanEnded
    <3> QED
      BY <3>2, <3>3
  <2> QED
    BY <2>1, <2>2
<1> QED
  BY <1>1, <1>2, <1>3, Kinds

(* Queues only grow while telemetry is up.                                  *)
LEMMA Growing ==
  ASSUME TelemetryTypeOK, [Next]_vars, stage' = stage \/ stage' = "up"
  PROVE  UNCHANGED <<exported, refused, late>> /\ \A s \in Signals : queue[s] \subseteq queue'[s]
<1>1. ASSUME NEW k \in Statements, Begin(k) \/ Succeeds(k) \/ Fails(k) PROVE UNCHANGED <<queue, exported, refused, late>>
  BY <1>1 DEF Begin, Succeeds, Fails, tvars, exporting
<1>2. ASSUME NEW r \in Requests, Receive(r) \/ CallStep(r)
      PROVE  UNCHANGED <<exported, refused, late>> /\ \A s \in Signals : queue[s] \subseteq queue'[s]
  <2>1. CASE Receive(r) \/ Refuse(r) \/ StartQuery(r)
    BY <2>1 DEF Receive, Refuse, StartQuery, tvars, exporting
  <2>2. CASE QueryReturns(r) \/ LogCall(r) \/ EndToolSpan(r)
    <3>1. UNCHANGED <<exported, refused, late>> /\ \E s \in Signals : \E x : Emit(s, x)
      BY <2>2 DEF QueryReturns, LogCall, EndToolSpan, Signals
    <3> QED
      BY <3>1, Emitting
  <2> QED
    BY <1>2, <2>1, <2>2 DEF CallStep
<1>3. CASE MainKind /\ ~ShutdownOTel
  <2>1. UNCHANGED <<queue, exported, refused, late>>
    BY <1>3 DEF MainKind, StopServing, ClosePool, vars, Start, SetupStep, BuildResource, OpenFile, NewTraceExporter,
         NewLogExporter, InstallProviders, AttachBridge, tvars, exporting
  <2> QED
    BY <2>1
<1>4. CASE ShutdownOTel
  <2>1. UNCHANGED <<queue, exported, refused, late>>
    BY <1>4 DEF ShutdownOTel, BeginShutdown, ShutdownStep, ShutdownTraces, ShutdownLogs, CloseFile, exporting
  <2> QED
    BY <2>1
<1> QED
  BY <1>1, <1>2, <1>3, <1>4, Kinds

(* All that is owed is emitted, and accepted while telemetry is up.         *)
LEMMA QueueStep ==
  TelemetryTypeOK /\ DatabaseTypes /\ CallTypes /\ CallInv /\ FailureInv /\ QueueInv /\ [Next]_vars => QueueInv'
<1> SUFFICES ASSUME TelemetryTypeOK, DatabaseTypes, CallTypes, CallInv, FailureInv, QueueInv, [Next]_vars,
                    stage' = "up", mode' # "off"
             PROVE  QueueInv'
  BY DEF QueueInv
<1>0. /\ mode # "off"
      /\ at \in [Requests -> {"none", "handling", "querying", "logging", "closing", "answered"}]
  BY Finality DEF CallTypes
<1>1. CASE stage # "up"
  <2>1. Start
    <3>1. ASSUME NEW k \in Statements, Begin(k) \/ Succeeds(k) \/ Fails(k) PROVE FALSE
      BY <1>1, <3>1, WorkFrame
    <3>2. ASSUME NEW r \in Requests, Receive(r) \/ CallStep(r) PROVE FALSE
      BY <1>1, <3>2, CallFrame
    <3>3. ~(StopServing \/ ClosePool \/ UNCHANGED vars)
      BY <1>1 DEF StopServing, ClosePool, vars, tvars
    <3>4. ~ShutdownOTel
      BY DEF ShutdownOTel, BeginShutdown, ShutdownStep, ShutdownTraces, ShutdownLogs, CloseFile
    <3> QED
      BY <3>1, <3>2, <3>3, <3>4, Kinds DEF MainKind
  <2>2. \A r \in Requests : at[r] = "none" /\ phase[<<r, 1>>] = "new" /\ phase[<<r, 2>>] = "new"
    BY <2>1 DEF Start, CallInv
  <2>3. ASSUME NEW k \in Statements PROVE phase[k] = "new"
    <3>1. k[1] \in Requests /\ (k = <<k[1], 1>> \/ k = <<k[1], 2>>)
      BY Pairs
    <3> QED
      BY <2>2, <3>1
  <2>4. UNCHANGED <<at, phase>>
    BY <2>1, MainFrame DEF MainKind
  <2> QED
    BY <2>2, <2>3, <2>4 DEF QueueInv, SpanEnded
<1>2. CASE stage = "up"
  <2>1. \A s \in Signals : queue[s] \subseteq queue'[s]
    BY <1>2, Growing
  <2>2. Accepting("trace") /\ Accepting("log")
    BY <1>0, <1>2 DEF Accepting
  <2>3. ASSUME NEW k \in Statements, SpanEnded(k)' PROVE EndSpan(k, failure'[k]) \in queue'["trace"]
    <3>1. CASE SpanEnded(k) /\ failure'[k] = failure[k]
      BY <1>0, <1>2, <2>1, <3>1 DEF QueueInv, Signals
    <3>2. CASE QueryReturns(k[1]) /\ k = Asked(k[1]) /\ failure'[k] = failure[k]
      <4>1. Emit("trace", EndSpan(k, failure[k]))
        BY <3>2 DEF QueryReturns
      <4> QED
        BY <2>2, <3>2, <4>1, Emitting DEF Signals
    <3> QED
      BY <2>3, <3>1, <3>2, Spans
  <2>4. ASSUME NEW r \in Requests, at'[r] \in {"closing", "answered"}
        PROVE  /\ LogRecord(r)' \in queue'["log"]
               /\ at'[r] = "answered" => ToolSpan(r)' \in queue'["trace"]
    <3>1. at[r] = at'[r] \/ LogCall(r) \/ EndToolSpan(r)
      <4>1. ASSUME NEW k \in Statements, Begin(k) \/ Succeeds(k) \/ Fails(k) PROVE at' = at
        BY <4>1, WorkFrame
      <4>2. ASSUME NEW s \in Requests, s # r, Receive(s) \/ CallStep(s) PROVE at'[r] = at[r]
        BY <1>0, <4>2, CallFrame
      <4>3. ~(Receive(r) \/ Refuse(r) \/ StartQuery(r))
        BY <1>0, <2>4 DEF Receive, Refuse, StartQuery
      <4>4. ~QueryReturns(r)
        BY <1>0, <2>4 DEF QueryReturns, Continue
      <4>5. CASE MainKind
        BY <4>5, MainFrame
      <4> QED
        BY <4>1, <4>2, <4>3, <4>4, <4>5, Kinds DEF CallStep
    <3>2. at[r] \in Returned
      BY <2>4, <3>1 DEF Returned, LogCall, EndToolSpan
    <3>3. outcome'[r] = outcome[r] /\ err'[r] = err[r]
      BY <3>2, Finality
    <3>4. LogRecord(r)' = LogRecord(r) /\ ToolSpan(r)' = ToolSpan(r)
      BY <3>3 DEF LogRecord, ToolSpan
    <3>5. CASE at[r] = at'[r]
      BY <1>0, <1>2, <2>1, <2>4, <3>4, <3>5 DEF QueueInv, Signals
    <3>6. CASE LogCall(r)
      <4>1. Emit("log", LogRecord(r)) /\ at' = [at EXCEPT ![r] = "closing"]
        BY <3>6 DEF LogCall
      <4>2. at'[r] = "closing" /\ LogRecord(r) \in queue'["log"]
        BY <1>0, <2>2, <4>1, Emitting DEF Signals
      <4> QED
        BY <3>4, <4>2
    <3>7. CASE EndToolSpan(r)
      <4>1. Emit("trace", ToolSpan(r)) /\ at[r] = "closing"
        BY <3>7 DEF EndToolSpan
      <4>2. ToolSpan(r) \in queue'["trace"]
        BY <2>2, <4>1, Emitting DEF Signals
      <4>3. LogRecord(r) \in queue'["log"]
        BY <1>0, <1>2, <2>1, <4>1 DEF QueueInv, Signals
      <4> QED
        BY <3>4, <4>2, <4>3
    <3> QED
      BY <3>1, <3>5, <3>6, <3>7
  <2> QED
    BY <2>3, <2>4 DEF QueueInv
<1> QED
  BY <1>1, <1>2

(* The flush takes with it all that was queued, or says that it did not.    *)
LEMMA Flushing ==
  ASSUME TelemetryTypeOK, OpenInv, mode # "off", NEW s \in Signals,
         Deliver(s), stage \in {"flushTraces", "flushLogs"}
  PROVE  /\ refused \subseteq refused'
         /\ \A t \in Signals : exported[t] \subseteq exported'[t] /\ (t # s => queue'[t] = queue[t])
         /\ s \in refused' \/ queue[s] \subseteq exported'[s]
<1>1. mode = "file" => "file" \in open
  BY DEF OpenInv, Held
<1> QED
  BY <1>1 DEF Deliver, TelemetryTypeOK

(* The records of a call that was in time go on together.                   *)
LEMMA ExportStep ==
  TelemetryTypeOK /\ OpenInv /\ DatabaseTypes /\ CallTypes /\ CallInv /\ FailureInv /\ QueueInv /\ ExportInv
    /\ [Next]_vars => ExportInv'
<1> SUFFICES ASSUME TelemetryTypeOK, OpenInv, DatabaseTypes, CallTypes, CallInv, FailureInv, QueueInv, ExportInv,
                    [Next]_vars, NEW r \in inTime'
             PROVE  /\ at'[r] = "answered"
                    /\ mode' # "off" =>
                         /\ stage' = "flushTraces" => Traced(r, queue["trace"])'
                         /\ stage' \in {"flushTraces", "flushLogs"} => LogRecord(r)' \in queue'["log"]
                         /\ stage' \in {"flushLogs", "closeFile", "down"} =>
                              late' \/ "trace" \in refused' \/ Traced(r, exported["trace"])'
                         /\ stage' \in {"closeFile", "down"} =>
                              late' \/ "log" \in refused' \/ LogRecord(r)' \in exported'["log"]
  BY DEF ExportInv
<1>0. /\ at \in [Requests -> {"none", "handling", "querying", "logging", "closing", "answered"}]
      /\ inTime \subseteq Requests
  BY DEF CallTypes
<1>1. CASE r \notin inTime
  <2>1. EndToolSpan(r) /\ r \in Requests
    <3>1. ASSUME NEW k \in Statements, Begin(k) \/ Succeeds(k) \/ Fails(k) PROVE inTime' = inTime
      BY <3>1, WorkFrame
    <3>2. ASSUME NEW s \in Requests, Receive(s) \/ CallStep(s) PROVE inTime' = inTime \/ (EndToolSpan(s) /\ inTime' \subseteq inTime \cup {s})
      BY <3>2 DEF CallStep, Receive, Refuse, StartQuery, QueryReturns, LogCall, EndToolSpan
    <3> QED
      BY <1>1, <3>1, <3>2, MainFrame, Kinds
  <2>2. stage = "up" /\ stage' = "up" /\ at'[r] = "answered"
    BY <1>0, <1>1, <2>1 DEF EndToolSpan
  <2> QED
    BY <2>2
<1>2. CASE r \in inTime
  <2>0. r \in Requests /\ at[r] = "answered" /\ at'[r] = "answered" /\ mode' = mode
    BY <1>0, <1>2, Finality DEF ExportInv
  <2>1. LogRecord(r)' = LogRecord(r) /\ ToolSpan(r)' = ToolSpan(r)
    <3>1. outcome'[r] = outcome[r] /\ err'[r] = err[r]
      BY <2>0, Finality DEF Returned
    <3> QED
      BY <3>1 DEF LogRecord, ToolSpan
  <2>2. ASSUME NEW k \in {r} \X {1, 2}, phase'[k] # "new"
        PROVE  phase[k] # "new" /\ failure'[k] = failure[k]
    <3>1. k \in Statements /\ (k = <<r, 1>> \/ k = <<r, 2>>)
      BY <2>0 DEF Statements
    <3>2. phase'[k] = phase[k]
      BY <2>0, <3>1, Finality DEF Returned
    <3>3. phase[k] \in Over
      BY <2>0, <2>2, <3>1, <3>2 DEF CallInv, Returned
    <3> QED
      BY <2>2, <3>1, <3>2, <3>3, Finality
  <2>3. ASSUME NEW X, NEW Y, X \subseteq Y, Traced(r, X)
        PROVE  /\ ToolSpan(r)' \in Y
               /\ \A k \in {r} \X {1, 2} : phase'[k] # "new" => EndSpan(k, failure'[k]) \in Y
    BY <2>1, <2>2, <2>3 DEF Traced
  <2>4. /\ queue["trace"] \subseteq queue'["trace"] /\ Traced(r, queue["trace"]) => Traced(r, queue["trace"])'
        /\ queue["trace"] \subseteq exported'["trace"] /\ Traced(r, queue["trace"]) => Traced(r, exported["trace"])'
        /\ exported["trace"] \subseteq exported'["trace"] /\ Traced(r, exported["trace"]) => Traced(r, exported["trace"])'
    BY <2>3 DEF Traced
  <2>5. SUFFICES ASSUME mode # "off"
                 PROVE  /\ stage' = "flushTraces" => Traced(r, queue["trace"])'
                        /\ stage' \in {"flushTraces", "flushLogs"} => LogRecord(r)' \in queue'["log"]
                        /\ stage' \in {"flushLogs", "closeFile", "down"} =>
                             late' \/ "trace" \in refused' \/ Traced(r, exported["trace"])'
                        /\ stage' \in {"closeFile", "down"} =>
                             late' \/ "log" \in refused' \/ LogRecord(r)' \in exported'["log"]
    BY <2>0
  <2>6. CASE stage' = stage
    <3>1. UNCHANGED <<exported, refused, late>> /\ queue["trace"] \subseteq queue'["trace"] /\ queue["log"] \subseteq queue'["log"]
      BY <2>6, Growing DEF Signals
    <3> QED
      BY <1>2, <2>1, <2>4, <2>5, <2>6, <3>1 DEF ExportInv
  <2>7. CASE Start
    <3>1. stage' = stage \/ stage' \notin {"flushTraces", "flushLogs", "closeFile", "down"}
      BY <2>7 DEF Start, SetupStep, BuildResource, OpenFile, NewTraceExporter, NewLogExporter, InstallProviders,
           AttachBridge, tvars
    <3> QED
      BY <2>6, <3>1
  <2>8. CASE BeginShutdown
    <3>1. stage = "up" /\ stage' = "flushTraces" /\ UNCHANGED queue
      BY <2>5, <2>8 DEF BeginShutdown, exporting
    <3>2. LogRecord(r) \in queue["log"] /\ ToolSpan(r) \in queue["trace"]
      BY <2>0, <2>5, <3>1 DEF QueueInv
    <3>3. ASSUME NEW k \in {r} \X {1, 2}, phase[k] # "new" PROVE EndSpan(k, failure[k]) \in queue["trace"]
      <4>1. k \in Statements /\ k[1] = r
        BY <2>0 DEF Statements
      <4>2. SpanEnded(k)
        BY <2>0, <3>3, <4>1 DEF SpanEnded
      <4> QED
        BY <2>5, <3>1, <4>1, <4>2 DEF QueueInv
    <3>4. Traced(r, queue["trace"])
      BY <3>2, <3>3 DEF Traced
    <3> QED
      BY <2>1, <2>4, <3>1, <3>2, <3>4
  <2>9. CASE ShutdownTraces
    <3>1. stage = "flushTraces" /\ stage' = "flushLogs"
      BY <2>9 DEF ShutdownTraces
    <3>2. LogRecord(r) \in queue["log"] /\ Traced(r, queue["trace"])
      BY <1>2, <2>5, <3>1 DEF ExportInv
    <3>3. queue'["log"] = queue["log"]
      BY <2>9 DEF ShutdownTraces, Deliver, GiveUp, TelemetryTypeOK, Signals
    <3>4. late' \/ "trace" \in refused' \/ queue["trace"] \subseteq exported'["trace"]
      BY <2>5, <2>9, <3>1, Flushing DEF ShutdownTraces, GiveUp, Signals
    <3> QED
      BY <2>1, <2>4, <3>1, <3>2, <3>3, <3>4
  <2>10. CASE ShutdownLogs
    <3>1. stage = "flushLogs" /\ stage' = "closeFile"
      BY <2>10 DEF ShutdownLogs
    <3>2. LogRecord(r) \in queue["log"] /\ (late \/ "trace" \in refused \/ Traced(r, exported["trace"]))
      BY <1>2, <2>5, <3>1 DEF ExportInv
    <3>3. CASE Deliver("log") /\ UNCHANGED late
      <4>1. /\ refused \subseteq refused' /\ exported["trace"] \subseteq exported'["trace"]
            /\ "log" \in refused' \/ queue["log"] \subseteq exported'["log"]
        BY <2>5, <3>1, <3>3, Flushing DEF Signals
      <4> QED
        BY <2>1, <2>4, <3>1, <3>2, <3>3, <4>1
    <3>4. CASE GiveUp("log")
      BY <3>1, <3>4 DEF GiveUp
    <3> QED
      BY <2>10, <3>3, <3>4 DEF ShutdownLogs
  <2>11. CASE CloseFile
    <3>1. stage = "closeFile" /\ stage' = "down" /\ UNCHANGED <<exported, refused, late>>
      BY <2>11 DEF CloseFile, exporting
    <3> QED
      BY <1>2, <2>1, <2>4, <2>5, <3>1 DEF ExportInv
  <2>12. CASE StopServing \/ ClosePool \/ UNCHANGED vars
    BY <2>6, <2>12 DEF StopServing, ClosePool, vars, tvars
  <2>13. ASSUME NEW k \in Statements, Begin(k) \/ Succeeds(k) \/ Fails(k) PROVE stage' = stage
    BY <2>13, WorkFrame
  <2>14. ASSUME NEW s \in Requests, Receive(s) \/ CallStep(s) PROVE stage' = stage
    BY <2>14, CallFrame
  <2> QED
    BY <2>6, <2>7, <2>8, <2>9, <2>10, <2>11, <2>12, <2>13, <2>14, Kinds DEF MainKind, ShutdownOTel, ShutdownStep
<1> QED
  BY <1>1, <1>2

-----------------------------------------------------------------------------
(* What the records say.                                                    *)
LEMMA SqlStatus == \A k, e : EndSpan(k, e).status = "error" <=> e # Nil
BY DEF EndSpan

LEMMA Within == WithinSpan
<1>1. Receiving[1] = "ToolCallSpan" /\ Receiving[2] = "ToolCallLogger" /\ DOMAIN Receiving = 1 .. 2
  BY DEF Receiving
<1> QED
  BY <1>1 DEF WithinSpan

LEMMA LogContents ==
  ASSUME NEW r, NEW x, x = LogRecord(r)
  PROVE  /\ x.kind = "log" /\ x.of = r /\ x.span = {r} /\ (x.text = "" \/ x.text = SafeSpanError(err[r]))
         /\ x.status = "info" <=> outcome[r] \notin {"goError", "errorResult"}
BY Within DEF LogRecord

LEMMA ToolContents ==
  ASSUME NEW r, NEW x, x = ToolSpan(r)
  PROVE  /\ x.kind = "tool" /\ x.of = r /\ (x.text = "" \/ x.text = SafeSpanError(err[r]))
         /\ x.status = "error" <=> outcome[r] \in {"goError", "errorResult"}
BY DEF ToolSpan

-----------------------------------------------------------------------------
(* The inductive invariant, and what follows from it.                       *)

(* The strengthening holds in every reachable state.                        *)
THEOREM Inductive == Spec => []IInv
<1>1. Init => IInv
  <2> SUFFICES ASSUME Init PROVE IInv
    OBVIOUS
  <2>1. TelemetryTypeOK /\ OpenInv
    BY DEF Init, TelemetryInit, TelemetryTypeOK, OpenInv, Held
  <2>2. DatabaseTypes
    BY NilType DEF Init, Database!PInit, DatabaseTypes
  <2>3. CallTypes
    BY ToolCallAssumption, NilType DEF Init, CallTypes
  <2>4. CallInv /\ FailureInv /\ ChainInv /\ AppliedInv
    BY Pairs, ToolCallAssumption, NilType
       DEF Init, Database!PInit, CallInv, FailureInv, ChainInv, AppliedInv, Returned, Over
  <2>5. AnswersMatchDatabase
    BY DEF Init, AnswersMatchDatabase
  <2>6. RecordInv
    BY DEF Init, TelemetryInit, RecordInv, Records
  <2>7. QueueInv /\ ExportInv
    BY DEF Init, TelemetryInit, QueueInv, ExportInv
  <2> QED
    BY <2>1, <2>2, <2>3, <2>4, <2>5, <2>6, <2>7 DEF IInv, TypeOK
<1>2. IInv /\ [Next]_vars => IInv'
  BY TelemetryTypes, DatabaseTypesStep, CallTypesStep, OpenStep, CallInvStep, FailureInvStep, ChainStep,
     AnswersStep, AppliedStep, RecordStep, QueueStep, ExportStep DEF IInv, TypeOK
<1> QED
  BY <1>1, <1>2, PTL DEF Spec

(* Every variable keeps its type.                                           *)
THEOREM TypeCorrect == Spec => []TypeOK
<1>1. IInv => TypeOK
  BY DEF IInv
<1> QED
  BY <1>1, Inductive, PTL

(* Whatever failed on the way up or down, nothing stays open.               *)
THEOREM AllReleased == Spec => []NothingLeftOpen
<1>1. IInv => NothingLeftOpen
  BY DEF IInv, OpenInv, Held, NothingLeftOpen
<1> QED
  BY <1>1, Inductive, PTL

(* What clients are told is what the database did.                          *)
THEOREM HonestAnswers == Spec => []AnswersMatchDatabase
<1>1. IInv => AnswersMatchDatabase
  BY DEF IInv
<1> QED
  BY <1>1, Inductive, PTL

(* A write takes effect at most once, and has when its client is told so.   *)
THEOREM AtMostOnce == Spec => []WriteAppliedOnce
<1>1. IInv => WriteAppliedOnce
  <2> SUFFICES ASSUME IInv, NEW r \in Requests
               PROVE  applied[r] <= 1 /\ (tool[r] = "write" /\ outcome[r] = "ok" => applied[r] = 1)
    BY DEF WriteAppliedOnce
  <2>1. applied[r] \in {0, 1}
    BY DEF IInv, AppliedInv
  <2>2. outcome[r] = "ok" => phase[<<r, 1>>] = "done"
    BY DEF IInv, AnswersMatchDatabase
  <2> QED
    BY <2>1, <2>2 DEF IInv, AppliedInv
<1> QED
  BY <1>1, Inductive, PTL

(* Spans and records tell the same story as the answer.                     *)
THEOREM OneStory == Spec => []RecordsAgree
<1>1. IInv => RecordsAgree
  <2> SUFFICES ASSUME IInv, NEW x \in Records
               PROVE  \/ x.kind = "sql" /\ (x.status = "error" <=> phase[x.of] = "failed")
                      \/ x.kind = "tool" /\ (x.status = "error" <=> outcome[x.of] \notin {"ok", "partial"})
                      \/ /\ x.kind = "log" /\ x.span = {x.of}
                         /\ (x.status = "info") <=> (outcome[x.of] \in {"ok", "partial"})
    BY DEF RecordsAgree
  <2>1. Genuine(x) /\ FailureInv /\ CallTypes
    BY DEF IInv, RecordInv, TypeOK
  <2>2. CASE x.kind = "sql" /\ x.of \in Statements /\ phase[x.of] \in Over /\ x = EndSpan(x.of, failure[x.of])
    <3>1. PICK k \in Statements : x.kind = "sql" /\ x.of = k /\ x = EndSpan(k, failure[k])
      BY <2>2
    <3>2. x.status = EndSpan(k, failure[k]).status
      BY <3>1
    <3>3. EndSpan(k, failure[k]).status = "error" <=> failure[k] # Nil
      BY SqlStatus, Zenon
    <3>4. x.status = "error" <=> failure[k] # Nil
      BY <3>2, <3>3
    <3> QED
      BY <2>1, <3>1, <3>4 DEF FailureInv
  <2>3. CASE x.kind = "log" /\ x.of \in Requests /\ at[x.of] \in Returned /\ x = LogRecord(x.of)
    <3>1. outcome[x.of] \in {"ok", "partial", "errorResult", "goError"}
      BY <2>1, <2>3 DEF CallTypes, Returned
    <3>2. x.status = "info" <=> outcome[x.of] \notin {"goError", "errorResult"}
      BY <2>3, LogContents
    <3>3. x.span = {x.of}
      BY <2>3, LogContents
    <3> QED
      BY <2>3, <3>1, <3>2, <3>3
  <2>4. CASE x.kind = "tool" /\ x.of \in Requests /\ at[x.of] \in Returned /\ x = ToolSpan(x.of)
    <3>1. outcome[x.of] \in {"ok", "partial", "errorResult", "goError"}
      BY <2>1, <2>4 DEF CallTypes, Returned
    <3>2. x.status = "error" <=> outcome[x.of] \in {"goError", "errorResult"}
      BY <2>4, ToolContents
    <3> QED
      BY <2>4, <3>1, <3>2
  <2> QED
    BY <2>1, <2>2, <2>3, <2>4 DEF Genuine
<1> QED
  BY <1>1, Inductive, PTL

(* No error tells telemetry what the database said: its PgError is still in *)
(* its chain when SafeSpanError looks for it.                               *)
THEOREM NoDetail == Spec => []DetailStaysInside
<1>1. IInv => DetailStaysInside
  <2> SUFFICES ASSUME IInv, NEW x \in Records PROVE x.text # "detail"
    BY DEF DetailStaysInside
  <2>1. ASSUME NEW e, "quote" \notin e PROVE SafeSpanError(e) # "detail"
    BY <2>1 DEF SafeSpanError, Text
  <2>2. Genuine(x) /\ ChainInv
    BY DEF IInv, RecordInv
  <2>3. ASSUME NEW k \in Statements, x = EndSpan(k, failure[k]) PROVE x.text # "detail"
    <3>1. x.text = "" \/ x.text = SafeSpanError(failure[k])
      BY <2>3 DEF EndSpan
    <3> QED
      BY <2>1, <2>2, <3>1 DEF ChainInv
  <2>4. ASSUME NEW r \in Requests, x = LogRecord(r) PROVE x.text # "detail"
    <3>1. x.text = "" \/ x.text = SafeSpanError(err[r])
      BY <2>4, LogContents
    <3> QED
      BY <2>1, <2>2, <3>1 DEF ChainInv
  <2>5. ASSUME NEW r \in Requests, x = ToolSpan(r) PROVE x.text # "detail"
    <3>1. x.text = "" \/ x.text = SafeSpanError(err[r])
      BY <2>5, ToolContents
    <3> QED
      BY <2>1, <2>2, <3>1 DEF ChainInv
  <2> QED
    BY <2>2, <2>3, <2>4, <2>5 DEF Genuine
<1> QED
  BY <1>1, Inductive, PTL

(* Telemetry is complete for the calls answered before its shutdown.        *)
THEOREM CompleteExport == Spec => []RecordsExported
<1>1. IInv => RecordsExported
  <2> SUFFICES ASSUME IInv, stage = "down", mode # "off", ~late, NEW r \in inTime
               PROVE  /\ "trace" \notin refused =>
                           /\ \E x \in exported["trace"] : x.kind = "tool" /\ x.of = r
                           /\ \A k \in {r} \X {1, 2} :
                                phase[k] # "new" => \E x \in exported["trace"] : x.kind = "sql" /\ x.of = k
                      /\ "log" \notin refused => \E x \in exported["log"] : x.of = r
    BY DEF RecordsExported
  <2>1. /\ "trace" \in refused \/ Traced(r, exported["trace"])
        /\ "log" \in refused \/ LogRecord(r) \in exported["log"]
    BY DEF IInv, ExportInv
  <2>2. ASSUME Traced(r, exported["trace"])
        PROVE  /\ \E x \in exported["trace"] : x.kind = "tool" /\ x.of = r
               /\ \A k \in {r} \X {1, 2} :
                    phase[k] # "new" => \E x \in exported["trace"] : x.kind = "sql" /\ x.of = k
    <3>1. PICK x \in exported["trace"] : x = ToolSpan(r)
      BY <2>2 DEF Traced
    <3>2. ASSUME NEW k \in {r} \X {1, 2}, phase[k] # "new"
          PROVE  \E y \in exported["trace"] : y.kind = "sql" /\ y.of = k
      <4>1. PICK y \in exported["trace"] : y = EndSpan(k, failure[k])
        BY <2>2, <3>2 DEF Traced
      <4> QED
        BY <4>1 DEF EndSpan
    <3>3. x.kind = "tool" /\ x.of = r
      BY <3>1, ToolContents
    <3> QED
      BY <3>2, <3>3
  <2>3. LogRecord(r) \in exported["log"] => \E x \in exported["log"] : x.of = r
    BY LogContents
  <2> QED
    BY <2>1, <2>2, <2>3
<1> QED
  BY <1>1, Inductive, PTL

-----------------------------------------------------------------------------
(* The composition: to its callers the pool may be PrivateSessions, because *)
(* the handlers and main use it in no other way.                            *)

(* Every behaviour of handlers, middleware and main is, seen from the       *)
(* database, one of PrivateSessions.                                        *)
THEOREM WithinThePromise == Spec => Database!PSpec
<1>1. Init => Database!PInit
  BY DEF Init
<1>2. [Next]_vars => [Database!PNext]_(Database!pvars)
  <2> SUFFICES ASSUME [Next]_vars PROVE Database!PNext \/ UNCHANGED Database!pvars
    OBVIOUS
  <2> USE DEF Database!pvars
  <2>1. ASSUME NEW k \in Statements, Begin(k) \/ Succeeds(k) \/ Fails(k) PROVE Database!PNext
    BY <2>1 DEF Begin, Succeeds, Fails, Database!PNext
  <2>2. ASSUME NEW r \in Requests, StartQuery(r) PROVE Database!PNext
    BY <2>2, Pairs DEF StartQuery, Database!PNext
  <2>3. ASSUME NEW r \in Requests, Receive(r) \/ CallStep(r), ~StartQuery(r) PROVE UNCHANGED Database!pvars
    BY <2>3 DEF Receive, CallStep, Refuse, QueryReturns, LogCall, EndToolSpan, database
  <2>4. CASE ClosePool
    BY <2>4 DEF ClosePool, Database!PNext
  <2>5. CASE Start \/ StopServing \/ ShutdownOTel \/ UNCHANGED vars
    BY <2>5 DEF Start, StopServing, ShutdownOTel, vars, database
  <2> QED
    BY <2>1, <2>2, <2>3, <2>4, <2>5, Kinds DEF MainKind, CallStep
<1> QED
  BY <1>1, <1>2, PTL DEF Spec, Database!PSpec

=============================================================================
