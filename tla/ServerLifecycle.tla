--------------------------- MODULE ServerLifecycle ---------------------------
(***************************************************************************)
(* The life of the process (main.go): start-up in stages, each of which     *)
(* pushes its cleanup; serving over stdio or HTTP, where two goroutines of  *)
(* an errgroup serve and drain; signals; request handlers that outlive a    *)
(* drain that took too long; and the deferred cleanups, run last in first   *)
(* out while such handlers are still at work.                               *)
(*                                                                         *)
(* The database pool appears as SessionPool's "open", "closing", "closed":  *)
(* its Close waits for the connections, not for the handlers that had them: *)
(* what Query and Exec defer past the release runs while Close returns.     *)
(***************************************************************************)
EXTENDS Naturals, Sequences

CONSTANTS
  Requests,    \* the tool calls that clients send
  MaxQueries,  \* queries one handler makes at most (get_cluster makes two)
  HasTimeout   \* CRDB_MCP_QUERY_TIMEOUT is positive

ASSUME LifecycleAssumption ==
  /\ MaxQueries \in Nat
  /\ HasTimeout \in BOOLEAN

VARIABLES
  cfg,       \* what config.Load returned: the transport, and whether OTel is on
  pc,        \* where the main goroutine is
  defers,    \* the stack of deferred cleanups of run
  err,       \* the error that run returns: "none", "config" or "other"
  caught,    \* SIGINT and SIGTERM are caught (signal.NotifyContext)
  ctxDone,   \* the context of NotifyContext is done
  otel,      \* "off", "up" or "down": the telemetry providers
  db,        \* "none", "open", "closing" or "closed": the pool
  listener,  \* "new", "open" or "closed": whether requests are accepted
  serve,     \* the goroutine that serves HTTP
  drain,     \* the goroutine that shuts the HTTP server down
  groupErr,  \* the first error of the errgroup, or the error of the stdio session
  timedOut,  \* history: the drain gave up after shutdownPeriod
  req,       \* where each request's handler is
  gone,      \* requests whose HTTP client has hung up
  stream,    \* an HTTP client holds the server-to-client stream of its session
  queries,   \* how many queries each handler has made
  lost,      \* history: handlers with a span that ended after the providers were shut down
  reported,  \* history: where the failure was shown: "stderr", "log"
  exit       \* "running", "ok", "failure" or "killed"

startup == <<defers, otel, db, caught>>
http    == <<listener, serve, drain, groupErr, timedOut>>
clients == <<gone, stream>>
work    == <<req, queries, lost, clients>>
vars    == <<cfg, pc, err, ctxDone, startup, http, work, reported, exit>>

MainTypes ==
  /\ cfg \in [transport : {"stdio", "http"}, otel : BOOLEAN]
  /\ pc \in {"load", "bootstrap", "logger", "signals", "otel", "db", "start", "wait", "unwind", "report", "exited"}
  /\ err \in {"none", "config", "other"}
  /\ ctxDone \in BOOLEAN
  /\ reported \subseteq {"stderr", "log"}
  /\ exit \in {"running", "ok", "failure", "killed"}

StackTypes == defers \in Seq({"sync", "stop", "otel", "db"}) /\ Len(defers) \in 0..4

HeldTypes == caught \in BOOLEAN /\ otel \in {"off", "up", "down"} /\ db \in {"none", "open", "closing", "closed"}

ServingTypes ==
  /\ listener \in {"new", "open", "closed"}
  /\ serve \in {"idle", "starting", "serving", "done"}
  /\ drain \in {"idle", "waiting", "draining", "done"}
  /\ groupErr \in {"none", "other"} /\ timedOut \in BOOLEAN

WorkTypes ==
  /\ req \in [Requests -> {"none", "handling", "querying", "returning", "ended"}]
  /\ queries \in [Requests -> 0..MaxQueries]
  /\ lost \subseteq Requests /\ gone \subseteq Requests /\ stream \in BOOLEAN

TypeOK == MainTypes /\ StackTypes /\ HeldTypes /\ ServingTypes /\ WorkTypes

(* A handler under way.  While it is "querying" it holds a connection; once *)
(* "returning" it does not, and has the span of its statement yet to end.   *)
Active == {r \in Requests : req[r] \in {"handling", "querying", "returning"}}

Init ==
  /\ cfg \in [transport : {"stdio", "http"}, otel : BOOLEAN]
  /\ pc = "load" /\ defers = <<>> /\ err = "none"
  /\ caught = FALSE /\ ctxDone = FALSE
  /\ otel = "off" /\ db = "none"
  /\ listener = "new" /\ serve = "idle" /\ drain = "idle"
  /\ groupErr = "none" /\ timedOut = FALSE
  /\ req = [r \in Requests |-> "none"]
  /\ queries = [r \in Requests |-> 0]
  /\ gone = {} /\ stream = FALSE
  /\ lost = {} /\ reported = {} /\ exit = "running"

-----------------------------------------------------------------------------
(* main and the start-up part of run.                                       *)

Terminate(how) == pc' = "exited" /\ exit' = how

(* config.Load and the bootstrap logger: a failure goes to stderr.          *)
Boot ==
  /\ \/ pc = "load" /\ pc' = "bootstrap"
     \/ pc = "bootstrap" /\ pc' = "logger"
  /\ UNCHANGED <<cfg, err, ctxDone, startup, http, work, reported, exit>>

BootFails ==
  /\ pc \in {"load", "bootstrap"}
  /\ reported' = {"stderr"}
  /\ Terminate("failure")
  /\ UNCHANGED <<cfg, err, ctxDone, startup, http, work>>

(* Mutant: the process exits from inside run, past the deferred cleanups.   *)
Return_NoCleanup(e) == pc' = "report" /\ err' = e

(* run returns e: its deferred cleanups are next.                           *)
Return(e) == pc' = "unwind" /\ err' = e

Defer(cleanup) == defers' = Append(defers, cleanup)

(* logging.NewLogger opens the configured log path.                         *)
OpenLog ==
  /\ pc = "logger"
  /\ \/ pc' = "signals" /\ Defer("sync") /\ UNCHANGED err
     \/ Return("config") /\ UNCHANGED defers
  /\ UNCHANGED <<cfg, ctxDone, otel, db, caught, http, work, reported, exit>>

(* From here on SIGINT and SIGTERM end the context and nothing else.        *)
CatchSignals ==
  /\ pc = "signals"
  /\ pc' = "otel"
  /\ caught' = TRUE
  /\ Defer("stop")
  /\ UNCHANGED <<cfg, err, ctxDone, otel, db, http, work, reported, exit>>

(* otel.Setup: with nothing configured its shutdown does nothing.           *)
SetupOTel ==
  /\ pc = "otel"
  /\ \/ /\ pc' = "db"
        /\ otel' = IF cfg.otel THEN "up" ELSE "off"
        /\ Defer("otel")
        /\ UNCHANGED err
     \/ /\ cfg.otel
        /\ Return("other")
        /\ UNCHANGED <<otel, defers>>
  /\ UNCHANGED <<cfg, ctxDone, db, caught, http, work, reported, exit>>

(* Mutant: the pool's cleanup is deferred twice.                            *)
OpenDB_DefersTwice ==
  /\ pc = "db"
  /\ pc' = "start" /\ db' = "open"
  /\ defers' = defers \o <<"db", "db">>
  /\ UNCHANGED <<cfg, err, ctxDone, otel, caught, http, work, reported, exit>>

(* db.NewManager: a pool that answered a ping, or a closed one and an error.*)
OpenDB ==
  /\ pc = "db"
  /\ \/ pc' = "start" /\ db' = "open" /\ Defer("db") /\ UNCHANGED err
     \/ \E e \in {"config", "other"} : Return(e) /\ UNCHANGED <<db, defers>>
  /\ UNCHANGED <<cfg, ctxDone, otel, caught, http, work, reported, exit>>

-----------------------------------------------------------------------------
(* Serving.  The tools are registered; stdio reads requests at once, HTTP   *)
(* starts the two goroutines of the errgroup.                               *)
StartTransport ==
  /\ pc = "start"
  /\ pc' = "wait"
  /\ \/ /\ cfg.transport = "stdio"
        /\ listener' = "open"
        /\ UNCHANGED <<serve, drain>>
     \/ /\ cfg.transport = "http"
        /\ serve' = "starting" /\ drain' = "waiting"
        /\ UNCHANGED listener
  /\ UNCHANGED <<cfg, err, ctxDone, startup, groupErr, timedOut, work, reported, exit>>

(* mcp.Server.Run stops reading when the context is done, when the input    *)
(* ends or fails, and returns when the handlers under way have returned.    *)
StdioStops ==
  /\ pc = "wait" /\ cfg.transport = "stdio" /\ listener = "open"
  /\ listener' = "closed"
  /\ groupErr' \in {"none", "other"}
  /\ UNCHANGED <<cfg, pc, err, ctxDone, startup, serve, drain, timedOut, work, reported, exit>>

StdioReturns ==
  /\ pc = "wait" /\ cfg.transport = "stdio" /\ listener = "closed"
  /\ Active = {}
  /\ Return(groupErr)
  /\ UNCHANGED <<cfg, ctxDone, startup, http, work, reported, exit>>

(* serveHTTP: bind unless the server was already shut down, then accept     *)
(* until it is; an error of the certificates, the address or the listener   *)
(* is the goroutine's error, the server-closed error is not.  The first two *)
(* may come after Shutdown has begun.                                       *)
Bind ==
  /\ serve = "starting" /\ listener = "new"
  /\ serve' = "serving" /\ listener' = "open"
  /\ UNCHANGED <<cfg, pc, err, ctxDone, startup, drain, groupErr, timedOut, work, reported, exit>>

(* errgroup keeps the first error; its context is done from then on.        *)
GroupError(e) == groupErr' = IF groupErr = "none" THEN e ELSE groupErr

GroupDone == ctxDone \/ groupErr # "none"

ServeFails ==
  /\ serve = "starting" \/ (serve = "serving" /\ listener = "open")
  /\ serve' = "done"
  /\ GroupError("other")
  /\ UNCHANGED <<cfg, pc, err, ctxDone, startup, listener, drain, timedOut, work, reported, exit>>

ServeCloses ==
  /\ serve \in {"starting", "serving"} /\ listener = "closed"
  /\ serve' = "done"
  /\ UNCHANGED <<cfg, pc, err, ctxDone, startup, listener, drain, groupErr, timedOut, work, reported, exit>>

(* Mutant: the drain waits for a signal only, not for the group's context.  *)
StartDrain_SignalOnly ==
  /\ drain = "waiting" /\ ctxDone
  /\ drain' = "draining" /\ listener' = "closed"
  /\ UNCHANGED <<cfg, pc, err, ctxDone, startup, serve, groupErr, timedOut, work, reported, exit>>

(* httpServer.Shutdown: no more connections, then wait for the open         *)
(* exchanges, at most shutdownPeriod.  A client's stream is one of them; a  *)
(* handler whose client hung up is not.                                     *)
StartDrain ==
  /\ drain = "waiting" /\ GroupDone
  /\ drain' = "draining" /\ listener' = "closed"
  /\ UNCHANGED <<cfg, pc, err, ctxDone, startup, serve, groupErr, timedOut, work, reported, exit>>

(* Mutant: the server is closed without waiting for its exchanges.          *)
Drained_AtOnce ==
  /\ drain = "draining"
  /\ drain' = "done"
  /\ UNCHANGED <<cfg, pc, err, ctxDone, startup, listener, serve, groupErr, timedOut, work, reported, exit>>

Drained ==
  /\ drain = "draining" /\ Active \subseteq gone /\ ~stream
  /\ drain' = "done"
  /\ UNCHANGED <<cfg, pc, err, ctxDone, startup, listener, serve, groupErr, timedOut, work, reported, exit>>

DrainTimesOut ==
  /\ drain = "draining"
  /\ drain' = "done" /\ timedOut' = TRUE
  /\ GroupError("other")
  /\ UNCHANGED <<cfg, pc, err, ctxDone, startup, listener, serve, work, reported, exit>>

(* Mutant: run returns as soon as serving has ended.                        *)
GroupReturns_ServeOnly ==
  /\ pc = "wait" /\ serve = "done"
  /\ Return(groupErr)
  /\ UNCHANGED <<cfg, ctxDone, startup, http, work, reported, exit>>

GroupReturns ==
  /\ pc = "wait" /\ serve = "done" /\ drain = "done"
  /\ Return(groupErr)
  /\ UNCHANGED <<cfg, ctxDone, startup, http, work, reported, exit>>

-----------------------------------------------------------------------------
(* Handlers.  No shutdown cancels them: their contexts come from the        *)
(* request, not from the signal.                                            *)
Accept(r) ==
  /\ listener = "open" /\ req[r] = "none"
  /\ req' = [req EXCEPT ![r] = "handling"]
  /\ UNCHANGED <<cfg, pc, err, ctxDone, startup, http, queries, lost, clients, reported, exit>>

(* The handler calls the pool: it gets a connection, or an error from a pool*)
(* that is closing, from the wait for a connection or from the dial.        *)
BeginQuery(r) ==
  /\ req[r] = "handling" /\ queries[r] < MaxQueries
  /\ queries' = [queries EXCEPT ![r] = @ + 1]
  /\ \/ db = "open" /\ req' = [req EXCEPT ![r] = "querying"]
     \/ req' = [req EXCEPT ![r] = "returning"]
  /\ UNCHANGED <<cfg, pc, err, ctxDone, startup, http, lost, clients, reported, exit>>

(* The statement is over and its connection given back.                     *)
EndQuery(r) ==
  /\ req[r] = "querying"
  /\ req' = [req EXCEPT ![r] = "returning"]
  /\ UNCHANGED <<cfg, pc, err, ctxDone, startup, http, queries, lost, clients, reported, exit>>

(* A span that ends, or a record that is logged, after the providers are    *)
(* down is lost.                                                            *)
Ends(r) == lost' = IF otel = "down" THEN lost \cup {r} ELSE lost

(* Query and Exec return: the span of the statement was deferred before the *)
(* pool was called, so it ends only now.                                    *)
EndSpan(r) ==
  /\ req[r] = "returning"
  /\ req' = [req EXCEPT ![r] = "handling"]
  /\ Ends(r)
  /\ UNCHANGED <<cfg, pc, err, ctxDone, startup, http, queries, clients, reported, exit>>

(* The handler returns, and the call's own span and log record end with it. *)
Respond(r) ==
  /\ req[r] = "handling"
  /\ req' = [req EXCEPT ![r] = "ended"]
  /\ Ends(r)
  /\ UNCHANGED <<cfg, pc, err, ctxDone, startup, http, queries, clients, reported, exit>>

(* An HTTP client hangs up: its exchange ends, the tool call goes on.       *)
HangUp(r) ==
  /\ cfg.transport = "http" /\ r \in Active
  /\ gone' = gone \cup {r}
  /\ UNCHANGED <<cfg, pc, err, ctxDone, startup, http, req, queries, lost, stream, reported, exit>>

(* The standing stream of an HTTP session ends only when its client ends it.*)
Stream ==
  /\ cfg.transport = "http"
  /\ \/ listener = "open" /\ stream' = TRUE
     \/ stream /\ stream' = FALSE
  /\ UNCHANGED <<cfg, pc, err, ctxDone, startup, http, req, queries, lost, gone, reported, exit>>

-----------------------------------------------------------------------------
(* The deferred cleanups of run, last in first out.                         *)
Deferred == defers[Len(defers)]

Pop == defers' = SubSeq(defers, 1, Len(defers) - 1)

Unwinding(cleanup) == pc = "unwind" /\ defers # <<>> /\ Deferred = cleanup

BeginCloseDB ==
  /\ Unwinding("db") /\ db = "open"
  /\ db' = "closing"
  /\ UNCHANGED <<cfg, pc, err, ctxDone, defers, otel, caught, http, work, reported, exit>>

(* Mutant: Close does not wait for the connections that are in use.         *)
CloseDB_AtOnce ==
  /\ Unwinding("db") /\ db = "closing"
  /\ db' = "closed" /\ Pop
  /\ UNCHANGED <<cfg, pc, err, ctxDone, otel, caught, http, work, reported, exit>>

(* pool.Close returns when no handler holds a connection.                   *)
CloseDB ==
  /\ Unwinding("db") /\ db = "closing"
  /\ \A r \in Requests : req[r] # "querying"
  /\ db' = "closed" /\ Pop
  /\ UNCHANGED <<cfg, pc, err, ctxDone, otel, caught, http, work, reported, exit>>

(* Flushes and shuts the providers down, within shutdownPeriod of its own.  *)
ShutdownOTel ==
  /\ Unwinding("otel")
  /\ otel' = IF otel = "up" THEN "down" ELSE otel
  /\ Pop
  /\ UNCHANGED <<cfg, pc, err, ctxDone, db, caught, http, work, reported, exit>>

(* stop() restores the signals' default and ends the context.               *)
StopSignals ==
  /\ Unwinding("stop")
  /\ caught' = FALSE /\ ctxDone' = TRUE
  /\ Pop
  /\ UNCHANGED <<cfg, pc, err, otel, db, http, work, reported, exit>>

SyncLog ==
  /\ Unwinding("sync")
  /\ Pop
  /\ UNCHANGED <<cfg, pc, err, ctxDone, otel, db, caught, http, work, reported, exit>>

(* run has returned: main exits with 0, or reports the error first.         *)
RunReturns ==
  /\ pc = "unwind" /\ defers = <<>>
  /\ \/ err = "none" /\ Terminate("ok")
     \/ err # "none" /\ pc' = "report" /\ UNCHANGED exit
  /\ UNCHANGED <<cfg, err, ctxDone, startup, http, work, reported>>

(* Mutant: a configuration error is shown on stderr and logged as well.     *)
Report_Twice ==
  /\ pc = "report"
  /\ reported' = reported \cup {"log"} \cup (IF err = "config" THEN {"stderr"} ELSE {})
  /\ Terminate("failure")
  /\ UNCHANGED <<cfg, err, ctxDone, startup, http, work>>

(* Configuration errors go to stderr, all others to the global logger.      *)
Report ==
  /\ pc = "report"
  /\ reported' = reported \cup {IF err = "config" THEN "stderr" ELSE "log"}
  /\ Terminate("failure")
  /\ UNCHANGED <<cfg, err, ctxDone, startup, http, work>>

-----------------------------------------------------------------------------
(* SIGINT or SIGTERM: ends the context while caught, or the process. A      *)
(* second one while the first is being handled changes nothing.             *)
Signal ==
  /\ \/ caught /\ ctxDone' = TRUE /\ UNCHANGED <<pc, exit>>
     \/ ~caught /\ Terminate("killed") /\ UNCHANGED ctxDone
  /\ UNCHANGED <<cfg, err, startup, http, work, reported>>

(* The process is gone.                                                     *)
Gone == exit # "running" /\ UNCHANGED vars

MainStep ==
  \/ Boot \/ OpenLog \/ CatchSignals \/ SetupOTel \/ OpenDB \/ StartTransport
  \/ StdioReturns \/ GroupReturns
  \/ BeginCloseDB \/ CloseDB \/ ShutdownOTel \/ StopSignals \/ SyncLog
  \/ RunReturns \/ Report

GroupStep == Bind \/ ServeFails \/ ServeCloses \/ StartDrain \/ Drained \/ DrainTimesOut

HandlerStep(r) == Accept(r) \/ BeginQuery(r) \/ EndQuery(r) \/ EndSpan(r) \/ Respond(r) \/ HangUp(r)

Next ==
  \/ /\ exit = "running"
     /\ \/ MainStep \/ BootFails \/ StdioStops \/ GroupStep \/ Signal \/ Stream
        \/ \E r \in Requests : HandlerStep(r)
  \/ Gone

Spec == Init /\ [][Next]_vars

(* The main goroutine, the two goroutines of the group and the handlers run *)
(* when they can; the drain has its ten seconds; stdio notices that the     *)
(* context is done.  A query ends only if it has a timeout.  No signal, bind*)
(* error, hang-up or end of a stream is assumed.                            *)
TimedRequests == IF HasTimeout THEN Requests ELSE {}

Fairness ==
  /\ WF_vars(exit = "running" /\ MainStep)
  /\ WF_vars(exit = "running" /\ ServeCloses)
  /\ WF_vars(exit = "running" /\ (StartDrain \/ Drained \/ DrainTimesOut))
  /\ WF_vars(exit = "running" /\ ctxDone /\ StdioStops)
  /\ \A r \in Requests : WF_vars(exit = "running" /\ (EndSpan(r) \/ Respond(r)))
  /\ \A r \in TimedRequests : WF_vars(exit = "running" /\ EndQuery(r))

FairSpec == Spec /\ Fairness

-----------------------------------------------------------------------------
(* Whatever stage failed and however serving ended, an exit of its own      *)
(* leaves nothing behind: the pool is closed, the telemetry flushed and     *)
(* shut down.                                                               *)
ExitsClean ==
  exit \in {"ok", "failure"} =>
    db \in {"none", "closed"} /\ otel \in {"off", "down"} /\ ~caught

(* The pool is not closed under a handler whose client still waits, unless  *)
(* the drain gave up: run waits for both goroutines, not only for Serve.    *)
PoolOutlivesHandlers == db \in {"closing", "closed"} => Active \subseteq gone \/ timedOut

(* Telemetry goes down after the pool, and by then no statement is at the   *)
(* database: what may still be missing of one is the end of its span, which *)
(* a handler that outlived the drain was about to write.                    *)
TelemetryOutlivesStatements ==
  otel = "down" => db \in {"none", "closed"} /\ \A r \in Requests : req[r] # "querying"

(* A span of a statement or of a tool call, or its record, is lost only if  *)
(* the drain gave up on the call, or its client had hung up and left it to  *)
(* run on.                                                                  *)
LostOnlyAfterTimeout == lost \subseteq gone \/ timedOut

(* A failure is shown to the operator exactly once, a clean exit shows none.*)
ReportedOnce ==
  /\ exit = "failure" => \E where \in {"stderr", "log"} : reported = {where}
  /\ exit = "ok" => reported = {}

(* A signal while serving, or the failure of the listener, ends the process,*)
(* although handlers may be stuck: the drain has its deadline and, with a   *)
(* query timeout, the pool's Close ends.                                    *)
ShutdownCompletes == (ctxDone \/ groupErr # "none") ~> exit # "running"

-----------------------------------------------------------------------------
(* Why the safety properties hold: the strengthening that a step preserves. *)

(* The stack grows by one cleanup a stage, in one order, and shrinks back;  *)
(* main exits by itself only when it is empty.                              *)
Order == <<"sync", "stop", "otel", "db">>

Stacked(s) == Len(s) \in 0..4 /\ \A i \in 1..Len(s) : s[i] = Order[i]

StackInv ==
  /\ Stacked(defers)
  /\ pc \in {"load", "bootstrap", "logger", "report"} => Len(defers) = 0
  /\ pc = "signals" => Len(defers) = 1
  /\ pc = "otel" => Len(defers) = 2
  /\ pc = "db" => Len(defers) = 3
  /\ pc \in {"start", "wait"} => Len(defers) = 4
  /\ pc = "exited" <=> exit # "running"
  /\ exit \in {"ok", "failure"} => Len(defers) = 0

(* What is held is what a cleanup on the stack will release.                *)
HeldInv ==
  /\ caught <=> Len(defers) \in {2, 3, 4}
  /\ otel = "up" => Len(defers) \in {3, 4}
  /\ otel = "down" => pc \in {"unwind", "report", "exited"} /\ Len(defers) \in {0, 1, 2}
  /\ db \in {"open", "closing"} <=> Len(defers) = 4
  /\ db = "closed" => pc \in {"unwind", "report", "exited"}
  /\ db = "closing" => pc = "unwind"
  /\ reported = {} \/ exit # "running"

(* Before serving there are no requests; after it, none that the drain did  *)
(* not wait for.                                                            *)
Unserved == listener = "new" /\ serve = "idle" /\ drain = "idle" /\ db = "none"

Served ==
  /\ listener = "closed" /\ serve \in {"idle", "done"} /\ drain \in {"idle", "done"}
  /\ Active \subseteq gone \/ timedOut

ServingInv ==
  /\ pc \in {"load", "bootstrap", "logger", "signals", "otel", "db", "start"} =>
       listener = "new" /\ serve = "idle" /\ drain = "idle"
  /\ pc \in {"unwind", "report", "exited"} => Unserved \/ Served
  /\ listener = "new" => \A r \in Requests : req[r] = "none"
  /\ cfg.transport = "stdio" => serve = "idle" /\ drain = "idle"
  /\ drain \in {"draining", "done"} => listener = "closed"
  /\ drain = "done" => Active \subseteq gone \/ timedOut

(* Only an open pool, or one whose Close is waiting, has lent a connection. *)
QueryInv == \A r \in Requests : req[r] = "querying" => db \in {"open", "closing"}

IInv ==
  /\ TypeOK /\ StackInv /\ HeldInv /\ ServingInv /\ QueryInv
  /\ LostOnlyAfterTimeout /\ ReportedOnce

=============================================================================
