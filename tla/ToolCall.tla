------------------------------- MODULE ToolCall -------------------------------
(***************************************************************************)
(* A tools/call from its arrival to its answer: through ToolCallSpan and    *)
(* ToolCallLogger (package middleware) into a handler (package tools), which*)
(* makes its statements through db.Adapter, and back.  On its way every     *)
(* layer emits telemetry: a span per statement, a log record and a span per *)
(* call.  Calls run concurrently with each other, with the exporters and    *)
(* with the shutdown of the process, which may overtake them.               *)
(*                                                                         *)
(* The database is PrivateSessions, which SessionPool is proved to          *)
(* implement; telemetry is Telemetry, step by step.                         *)
(***************************************************************************)
EXTENDS Naturals, FiniteSets, Sequences, Telemetry

CONSTANTS
  Requests,   \* the tools/call requests that clients send
  Workloads,  \* which tools they ask for, in the combinations to consider
  MaxConns    \* statements the pool runs at a time

(* Tools by what they do: list and query tools make one statement, the      *)
(* write tools one that changes the database, get_cluster two.              *)
Tools == {"read", "write", "get_cluster"}

ASSUME ToolCallAssumption ==
  /\ Workloads \subseteq [Requests -> Tools]
  /\ MaxConns \in Nat \ {0}

Statements == Requests \X {1, 2}

VARIABLES
  up, phase, startedOn, \* the database, see PrivateSessions
  failure,   \* the error Query or Exec returned for each statement that is over, or Nil
  applied,   \* how often the statements of a call changed the database
  tool,      \* the tool each request asks for
  at,        \* where each request is
  err,       \* the Go error that reached the middleware, or Nil
  outcome,   \* what the client is told
  inTime,    \* history: requests answered before telemetry was shut down
  main       \* the main goroutine: "starting", "serving", "closing"

Database == INSTANCE PrivateSessions WITH Calls <- Statements, Limit <- MaxConns, Configured <- "configured"

database == <<up, phase, startedOn, failure, applied>>
calls    == <<tool, at, err, outcome, inTime>>
vars     == <<database, calls, main, tvars>>

(* A Go error is a chain, here the set of its layers: "restricted" is a     *)
(* PgError with SQLSTATE 42501, "pg" another one, "plain" an error without  *)
(* details of the database, "wrapper" a layer that knows the one it wraps,  *)
(* "quote" one that only repeats the text of a PgError.                     *)
Layers == {"restricted", "pg", "plain", "wrapper", "quote"}

Nil == {}

PgErrors == {"restricted", "pg"}

(* What the driver fails with.                                              *)
Failures == {{"restricted"}, {"pg"}, {"plain"}}

DatabaseTypes ==
  /\ phase \in [Statements -> {"new", "waiting", "running", "done", "failed"}]
  /\ failure \in [Statements -> SUBSET Layers]
  /\ applied \in [Requests -> Nat]

CallTypes ==
  /\ tool \in [Requests -> Tools]
  /\ at \in [Requests -> {"none", "handling", "querying", "logging", "closing", "answered"}]
  /\ err \in [Requests -> SUBSET Layers]
  /\ outcome \in [Requests -> {"none", "ok", "partial", "errorResult", "goError"}]
  /\ \A r \in Requests : outcome[r] = "none" <=> at[r] \in {"none", "handling", "querying"}
  /\ inTime \subseteq Requests
  /\ main \in {"starting", "serving", "closing"}

TypeOK == TelemetryTypeOK /\ DatabaseTypes /\ CallTypes

Init ==
  /\ TelemetryInit
  /\ Database!PInit
  /\ failure = [k \in Statements |-> Nil] /\ applied = [r \in Requests |-> 0]
  /\ tool \in Workloads
  /\ at = [r \in Requests |-> "none"]
  /\ err = [r \in Requests |-> Nil] /\ outcome = [r \in Requests |-> "none"]
  /\ inTime = {} /\ main = "starting"

-----------------------------------------------------------------------------
(* Errors, and what telemetry says of them.                                 *)

(* Mutant: the new error is made of the old one's text.                     *)
Wrap_Flattens(e) == IF e \cap PgErrors = {} THEN e \cup {"wrapper"} ELSE {"quote"}

(* errors.Wrap, in the adapter and again in the handler, keeps the chain.   *)
Wrap(e) == e \cup {"wrapper"}

(* What e.Error() gives away: the text of a chain contains those of all its *)
(* layers, and a PgError's echoes the statement and the data in it.         *)
Text(e) == IF e \cap (PgErrors \cup {"quote"}) # {} THEN "detail" ELSE "message"

(* The text of an error as it may leave the server: where errors.As finds a *)
(* PgError in the chain its SQLSTATE is all that is left, any other error   *)
(* is passed on as it is.                                                   *)
SafeSpanError(e) == IF e \cap PgErrors # {} THEN "sqlstate" ELSE Text(e)

(* Mutant: endSpan is deferred with the error of the moment, still nil.     *)
EndSpan_ErrorTooEarly(k, e) == [kind |-> "sql", of |-> k, status |-> "unset", text |-> ""]

(* endSpan runs when Query or Exec returns, with the error it returns.      *)
EndSpan(k, e) ==
  [kind |-> "sql", of |-> k, status |-> IF e = Nil THEN "unset" ELSE "error",
   text |-> IF e = Nil THEN "" ELSE SafeSpanError(e)]

(* Mutant: the middleware is given in the other order.                      *)
Receiving_Swapped == <<"ToolCallLogger", "ToolCallSpan">>

(* The middleware, outermost first.                                         *)
Receiving == <<"ToolCallSpan", "ToolCallLogger">>

(* ToolCallSpan puts the call's span into the context that it passes on.    *)
WithinSpan ==
  \E i, j \in DOMAIN Receiving : i < j /\ Receiving[i] = "ToolCallSpan" /\ Receiving[j] = "ToolCallLogger"

(* A record has the span of its context, if there is one.                   *)
LogRecord(r) ==
  [kind |-> "log", of |-> r, span |-> IF WithinSpan THEN {r} ELSE {},
   status |-> CASE outcome[r] = "goError" -> "error" [] outcome[r] = "errorResult" -> "warn" [] OTHER -> "info",
   text |-> IF outcome[r] = "goError" THEN SafeSpanError(err[r]) ELSE ""]

(* Mutant: the error goes into the span as it came.                         *)
ToolSpan_AsIs(r) ==
  [kind |-> "tool", of |-> r,
   status |-> IF outcome[r] \in {"goError", "errorResult"} THEN "error" ELSE "unset",
   text |-> IF outcome[r] = "goError" THEN Text(err[r]) ELSE ""]

(* An error result has no Go error: its status is a fixed text.             *)
ToolSpan(r) ==
  [kind |-> "tool", of |-> r,
   status |-> IF outcome[r] \in {"goError", "errorResult"} THEN "error" ELSE "unset",
   text |-> IF outcome[r] = "goError" THEN SafeSpanError(err[r]) ELSE ""]

-----------------------------------------------------------------------------
(* The way in, and the handler.                                             *)

(* Both middlewares call on before they emit anything.                      *)
Receive(r) ==
  /\ main = "serving" /\ at[r] = "none"
  /\ at' = [at EXCEPT ![r] = "handling"]
  /\ UNCHANGED <<database, tool, err, outcome, inTime, main, tvars>>

(* The statement that a handler asked for last.                             *)
Asked(r) == <<r, IF phase[<<r, 2>>] = "new" THEN 1 ELSE 2>>

(* Mutant: the partial answer is built but not returned.                    *)
HandlerReturns_NoPartial(r, answer, e) ==
  \/ /\ e = Nil /\ outcome' = [outcome EXCEPT ![r] = IF answer = "partial" THEN "none" ELSE answer]
     /\ UNCHANGED err
  \/ outcome' = [outcome EXCEPT ![r] = "errorResult"] /\ UNCHANGED err
  \/ /\ outcome' = [outcome EXCEPT ![r] = "goError"]
     /\ err' = [err EXCEPT ![r] = Wrap(IF e = Nil THEN {"plain"} ELSE e)]

(* The handler renders its answer, or returns its error.  A value that has  *)
(* no JSON form, a NaN for instance, makes an error even of a statement that*)
(* was executed.  The SDK makes an error result of an error, or passes it on.*)
HandlerReturns(r, answer, e) ==
  \/ e = Nil /\ outcome' = [outcome EXCEPT ![r] = answer] /\ UNCHANGED err
  \/ outcome' = [outcome EXCEPT ![r] = "errorResult"] /\ UNCHANGED err
  \/ /\ outcome' = [outcome EXCEPT ![r] = "goError"]
     /\ err' = [err EXCEPT ![r] = Wrap(IF e = Nil THEN {"plain"} ELSE e)]

(* Arguments that the SDK, a check on the statement or SafeFormat refuses,  *)
(* before any statement is made.                                            *)
Refuse(r) ==
  /\ at[r] = "handling" /\ phase[<<r, 1>>] = "new"
  /\ HandlerReturns(r, "none", {"plain"})
  /\ at' = [at EXCEPT ![r] = "logging"]
  /\ UNCHANGED <<database, tool, inTime, main, tvars>>

StartQuery(r) ==
  /\ at[r] = "handling"
  /\ \/ Database!Ask(<<r, 1>>)
     \/ phase[<<r, 1>>] \in {"done", "failed"} /\ Database!Ask(<<r, 2>>)
  /\ at' = [at EXCEPT ![r] = "querying"]
  /\ UNCHANGED <<failure, applied, tool, err, outcome, inTime, main, tvars>>

(* Mutant: a write whose statement failed is tried again.                   *)
HasMore_Retries(r, k) ==
  k[2] = 1 /\ (tool[r] = "get_cluster" \/ (tool[r] = "write" /\ failure[k] # Nil))

(* get_cluster goes on after its first statement ...                        *)
HasMore(r, k) == tool[r] = "get_cluster" /\ k[2] = 1 /\ failure[k] = Nil

(* Mutant: any error of the second statement is taken for a denial.         *)
Tolerated_AnyFailure(r, k) == tool[r] = "get_cluster" /\ k[2] = 2 /\ failure[k] # Nil

(* ... and a denial of its second one, found by errors.As below the wrapper, *)
(* leaves some fields out of the answer.                                    *)
Tolerated(r, k) == tool[r] = "get_cluster" /\ k[2] = 2 /\ "restricted" \in failure[k]

(* The handler takes the result of its statement, or the error.             *)
Continue(r, k) ==
  \/ /\ HasMore(r, k)
     /\ at' = [at EXCEPT ![r] = "handling"]
     /\ UNCHANGED <<outcome, err>>
  \/ /\ ~HasMore(r, k)
     /\ at' = [at EXCEPT ![r] = "logging"]
     /\ IF Tolerated(r, k) THEN HandlerReturns(r, "partial", Nil)
                           ELSE HandlerReturns(r, "ok", failure[k])

(* Mutant: the handler waits for a pool that has been closed.               *)
QueryReturns_AwaitsPool(r) ==
  LET k == Asked(r) IN
  /\ at[r] = "querying" /\ phase[k] \in {"done", "failed"} /\ up
  /\ Emit("trace", EndSpan(k, failure[k]))
  /\ Continue(r, k)
  /\ UNCHANGED <<database, tool, inTime, main, mode, stage, open, exported, refused, late>>

(* Query or Exec returns: the statement's span ends, the handler goes on.   *)
QueryReturns(r) ==
  LET k == Asked(r) IN
  /\ at[r] = "querying" /\ phase[k] \in {"done", "failed"}
  /\ Emit("trace", EndSpan(k, failure[k]))
  /\ Continue(r, k)
  /\ UNCHANGED <<database, tool, inTime, main, mode, stage, open, exported, refused, late>>

-----------------------------------------------------------------------------
(* The way out.                                                             *)
LogCall(r) ==
  /\ at[r] = "logging"
  /\ Emit("log", LogRecord(r))
  /\ at' = [at EXCEPT ![r] = "closing"]
  /\ UNCHANGED <<database, tool, err, outcome, inTime, main, mode, stage, open, exported, refused, late>>

EndToolSpan(r) ==
  /\ at[r] = "closing"
  /\ Emit("trace", ToolSpan(r))
  /\ at' = [at EXCEPT ![r] = "answered"]
  /\ inTime' = IF stage = "up" THEN inTime \cup {r} ELSE inTime
  /\ UNCHANGED <<database, tool, err, outcome, main, mode, stage, open, exported, refused, late>>

-----------------------------------------------------------------------------
(* The database.                                                            *)
Begin(k) ==
  /\ Database!Begin(k)
  /\ UNCHANGED <<failure, applied, calls, main, tvars>>

Succeeds(k) ==
  /\ Database!Succeed(k)
  /\ applied' = IF tool[k[1]] = "write" THEN [applied EXCEPT ![k[1]] = @ + 1] ELSE applied
  /\ UNCHANGED <<failure, calls, main, tvars>>

(* A statement that never got a connection fails on the way there; one that *)
(* ran may have been executed, its answer lost with the connection or after *)
(* the deadline.                                                            *)
Fails(k) ==
  /\ phase[k] # "new"
  /\ Database!Fail(k)
  /\ \E f \in IF phase[k] = "waiting" THEN {{"pg"}, {"plain"}} ELSE Failures :
       /\ failure' = [failure EXCEPT ![k] = Wrap(f)]
       /\ \/ UNCHANGED applied
          \/ /\ phase[k] = "running" /\ tool[k[1]] = "write" /\ f # {"restricted"}
             /\ applied' = [applied EXCEPT ![k[1]] = @ + 1]
  /\ UNCHANGED <<calls, main, tvars>>

-----------------------------------------------------------------------------
(* The main goroutine, as far as calls and telemetry notice it.             *)
Start ==
  /\ main = "starting"
  /\ \/ SetupStep /\ UNCHANGED main
     \/ stage = "up" /\ main' = "serving" /\ UNCHANGED tvars
  /\ UNCHANGED <<database, calls>>

(* Serving ends, with handlers still at work if the drain gave up.          *)
StopServing ==
  /\ main = "serving" /\ main' = "closing"
  /\ UNCHANGED <<database, calls, tvars>>

ClosePool ==
  /\ main = "closing"
  /\ Database!ShutDown
  /\ UNCHANGED <<failure, applied, calls, main, tvars>>

(* The pool's deferred Close comes before the telemetry's.                  *)
ShutdownOTel ==
  /\ main = "closing" /\ ~up
  /\ BeginShutdown \/ ShutdownStep
  /\ UNCHANGED <<database, calls, main>>

(* When telemetry is down, or failed to start, the process is at its end: a *)
(* handler that runs on until main returns is not heard of any more.        *)
Exited == stage \in {"down", "failed"}

Gone == Exited /\ UNCHANGED vars

CallStep(r) ==
  \/ Refuse(r) \/ StartQuery(r) \/ QueryReturns(r) \/ LogCall(r) \/ EndToolSpan(r)

Next ==
  \/ /\ ~Exited
     /\ \/ Start \/ StopServing \/ ClosePool \/ ShutdownOTel
        \/ \E r \in Requests : Receive(r) \/ CallStep(r)
        \/ \E k \in Statements : Begin(k) \/ Succeeds(k) \/ Fails(k)
  \/ Gone

Spec == Init /\ [][Next]_vars

(* Handlers run when they can, and every statement has its deadline: the    *)
(* pool's calls return (SessionPool!CallsReturn).  Main is not assumed to   *)
(* stop serving, and nothing of the exporters is.                           *)
Fairness ==
  /\ \A r \in Requests : WF_vars(~Exited /\ CallStep(r))
  /\ \A k \in Statements : WF_vars(~Exited /\ Fails(k))

FairSpec == Spec /\ Fairness

-----------------------------------------------------------------------------
Records == UNION {queue[s] \cup exported[s] : s \in Signals}

(* What the client is told is what the database did: a full answer means    *)
(* that every statement of the tool succeeded, a partial one that only      *)
(* get_cluster's second statement failed, by denial.  No failure is hidden  *)
(* behind an answer.                                                        *)
AnswersMatchDatabase ==
  \A r \in Requests :
    /\ outcome[r] = "ok" =>
         /\ phase[<<r, 1>>] = "done"
         /\ phase[<<r, 2>>] = IF tool[r] = "get_cluster" THEN "done" ELSE "new"
    /\ outcome[r] = "partial" =>
         /\ tool[r] = "get_cluster" /\ phase[<<r, 1>>] = "done"
         /\ "restricted" \in failure[<<r, 2>>]

(* A write reaches the database at most once, whatever fails and whatever   *)
(* the client is told, and has reached it when the client is told so.       *)
WriteAppliedOnce ==
  \A r \in Requests :
    /\ applied[r] <= 1
    /\ (tool[r] = "write" /\ outcome[r] = "ok") => applied[r] = 1

(* The record and the span of a call, and the spans of its statements, tell *)
(* the same story as the answer: a failed statement has a failed span, also *)
(* where get_cluster makes an answer of it; the span of a call failed       *)
(* exactly if the client got an error; the record has the level for it and  *)
(* belongs to that span, and to no other.                                   *)
RecordsAgree ==
  \A x \in Records :
    \/ x.kind = "sql" /\ (x.status = "error" <=> phase[x.of] = "failed")
    \/ x.kind = "tool" /\ (x.status = "error" <=> outcome[x.of] \notin {"ok", "partial"})
    \/ /\ x.kind = "log" /\ x.span = {x.of}
       /\ (x.status = "info") <=> (outcome[x.of] \in {"ok", "partial"})

(* What the database said of a statement or its data stays inside, on any   *)
(* of the three ways an error takes into telemetry.  It rests on no layer   *)
(* that a PgError passes on its way out losing it: SafeSpanError recognises *)
(* errors by their chain and lets the text of all others through.           *)
DetailStaysInside == \A x \in Records : x.text # "detail"

(* Telemetry is complete for the calls answered before it was shut down:    *)
(* once it is, all of the call's spans and its record are exported, unless  *)
(* the collector refused that signal or the deadline cut the flush short.   *)
(* An outage of the traces alone does not cost the logs.                    *)
RecordsExported ==
  (stage = "down" /\ mode # "off" /\ ~late) =>
    \A r \in inTime :
      /\ "trace" \notin refused =>
           /\ \E x \in exported["trace"] : x.kind = "tool" /\ x.of = r
           /\ \A k \in {r} \X {1, 2} :
                phase[k] # "new" => \E x \in exported["trace"] : x.kind = "sql" /\ x.of = k
      /\ "log" \notin refused => \E x \in exported["log"] : x.of = r

(* Every call is answered, also one that shutdown overtakes, unless the     *)
(* process is gone before.                                                  *)
CallsAnswered ==
  \A r \in Requests : (at[r] # "none") ~> (at[r] = "answered" \/ Exited)

-----------------------------------------------------------------------------
(* Why the safety properties hold: the strengthening that a step preserves. *)

(* A statement that is over stays as it is; so does a call once its handler *)
(* has returned, and by then its statements are over.                       *)
Over == {"done", "failed"}

Returned == {"logging", "closing", "answered"}

(* How far a call is tells how far its statements are; only get_cluster     *)
(* makes a second one, and only after a first one that succeeded.           *)
CallInv ==
  /\ main = "starting" => \A r \in Requests : at[r] = "none"
  /\ \A r \in Requests :
       /\ at[r] = "none" => phase[<<r, 1>>] = "new"
       /\ at[r] = "handling" => phase[<<r, 1>>] = "new" \/ (phase[<<r, 1>>] = "done" /\ tool[r] = "get_cluster")
       /\ at[r] = "handling" => phase[<<r, 2>>] = "new"
       /\ at[r] = "querying" => phase[<<r, 1>>] # "new"
       /\ at[r] \in Returned => phase[<<r, 1>>] \in {"new"} \cup Over /\ phase[<<r, 2>>] \in {"new"} \cup Over
       /\ phase[<<r, 2>>] # "new" => phase[<<r, 1>>] = "done" /\ tool[r] = "get_cluster"

FailureInv == \A k \in Statements : failure[k] # Nil <=> phase[k] = "failed"

(* No error repeats a PgError without wrapping it.                          *)
ChainInv ==
  /\ \A k \in Statements : "quote" \notin failure[k]
  /\ \A r \in Requests : "quote" \notin err[r]

(* A write has its effect while its only statement runs.                    *)
AppliedInv ==
  \A r \in Requests :
    /\ applied[r] \in {0, 1}
    /\ phase[<<r, 1>>] \notin Over => applied[r] = 0
    /\ tool[r] = "write" /\ phase[<<r, 1>>] = "done" => applied[r] = 1

(* A record is what its statement or call, now over, would yield again.     *)
Genuine(x) ==
  \/ x.kind = "sql" /\ x.of \in Statements /\ phase[x.of] \in Over /\ x = EndSpan(x.of, failure[x.of])
  \/ x.kind = "log" /\ x.of \in Requests /\ at[x.of] \in Returned /\ x = LogRecord(x.of)
  \/ x.kind = "tool" /\ x.of \in Requests /\ at[x.of] \in Returned /\ x = ToolSpan(x.of)

RecordInv == \A x \in Records : Genuine(x)

(* While telemetry is up, all that was emitted is still queued.             *)
SpanEnded(k) == phase[k] # "new" /\ (at[k[1]] = "querying" => Asked(k[1]) # k)

QueueInv ==
  stage = "up" /\ mode # "off" =>
    /\ \A k \in Statements : SpanEnded(k) => EndSpan(k, failure[k]) \in queue["trace"]
    /\ \A r \in Requests :
         /\ at[r] \in {"closing", "answered"} => LogRecord(r) \in queue["log"]
         /\ at[r] = "answered" => ToolSpan(r) \in queue["trace"]

(* From there the records of a call that was in time go on together.        *)
Traced(r, spans) ==
  /\ ToolSpan(r) \in spans
  /\ \A k \in {r} \X {1, 2} : phase[k] # "new" => EndSpan(k, failure[k]) \in spans

ExportInv ==
  \A r \in inTime :
    /\ at[r] = "answered"
    /\ mode # "off" =>
         /\ stage = "flushTraces" => Traced(r, queue["trace"])
         /\ stage \in {"flushTraces", "flushLogs"} => LogRecord(r) \in queue["log"]
         /\ stage \in {"flushLogs", "closeFile", "down"} =>
              late \/ "trace" \in refused \/ Traced(r, exported["trace"])
         /\ stage \in {"closeFile", "down"} =>
              late \/ "log" \in refused \/ LogRecord(r) \in exported["log"]

IInv ==
  /\ TypeOK /\ OpenInv /\ CallInv /\ FailureInv /\ ChainInv /\ AnswersMatchDatabase
  /\ AppliedInv /\ RecordInv /\ QueueInv /\ ExportInv

=============================================================================
