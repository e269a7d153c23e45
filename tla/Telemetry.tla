------------------------------ MODULE Telemetry ------------------------------
(***************************************************************************)
(* Package otel: Setup builds an exporter for spans and one for log records,*)
(* over one file or over OTLP, and installs a provider for each; the zap    *)
(* bridge of main.go feeds the second.  Providers queue what the program    *)
(* emits and export it in batches.  The ShutdownFunc that Setup returns     *)
(* flushes them one after the other, under one deadline of its caller.      *)
(*                                                                         *)
(* The SDK's batch processors are external code.  Their queues never fill up*)
(* here (2048 records).  What they export before the shutdown is left out:  *)
(* such a batch is delivered or refused as the last one is, only earlier,   *)
(* where no deadline can cut it off.                                        *)
(***************************************************************************)

Signals == {"trace", "log"}

VARIABLES
  mode,      \* "off", "file" or "otlp": what the configuration asks for
  stage,     \* how far Setup or the ShutdownFunc has come
  open,      \* what Setup holds: the file and the exporters
  queue,     \* for each signal, the records emitted and not yet exported
  exported,  \* for each signal, the records written to the file or collector
  refused,   \* history: signals of which the collector refused a batch
  late       \* history: the deadline passed before the flushes ended

exporting == <<queue, exported, refused>>
tvars == <<mode, stage, open, exporting, late>>

TelemetryTypeOK ==
  /\ mode \in {"off", "file", "otlp"}
  /\ stage \in {"new", "file", "traceExporter", "logExporter", "providers", "bridge", "up",
                "flushTraces", "flushLogs", "closeFile", "down", "failed"}
  /\ open \subseteq {"file", "traceExporter", "logExporter"}
  /\ DOMAIN queue = Signals /\ DOMAIN exported = Signals
  /\ refused \subseteq Signals /\ late \in BOOLEAN

TelemetryInit ==
  /\ mode \in {"off", "file", "otlp"}
  /\ stage = "new" /\ open = {}
  /\ queue = [s \in Signals |-> {}] /\ exported = [s \in Signals |-> {}]
  /\ refused = {} /\ late = FALSE

-----------------------------------------------------------------------------
(* Setup.                                                                   *)

(* Nothing configured: no provider, and a shutdown that does nothing.       *)
(* Otherwise the resource is built first.  A file takes precedence.         *)
BuildResource ==
  /\ stage = "new"
  /\ \/ mode = "off" /\ stage' = "up"
     \/ mode = "file" /\ stage' = "file"
     \/ mode = "otlp" /\ stage' = "traceExporter"
     \/ mode # "off" /\ stage' = "failed"
  /\ UNCHANGED <<mode, open, exporting, late>>

OpenFile ==
  /\ stage = "file"
  /\ \/ stage' = "traceExporter" /\ open' = {"file"}
     \/ stage' = "failed" /\ UNCHANGED open
  /\ UNCHANGED <<mode, exporting, late>>

NewTraceExporter ==
  /\ stage = "traceExporter"
  /\ \/ stage' = "logExporter" /\ open' = open \cup {"traceExporter"}
     \/ stage' = "failed" /\ open' = open \ {"file"}
  /\ UNCHANGED <<mode, exporting, late>>

(* Mutant: the second failure releases the file, not the first exporter.    *)
NewLogExporter_KeepsFirst ==
  /\ stage = "logExporter"
  /\ \/ stage' = "providers" /\ open' = open \cup {"logExporter"}
     \/ stage' = "failed" /\ open' = open \ {"file"}
  /\ UNCHANGED <<mode, exporting, late>>

NewLogExporter ==
  /\ stage = "logExporter"
  /\ \/ stage' = "providers" /\ open' = open \cup {"logExporter"}
     \/ stage' = "failed" /\ open' = open \ {"traceExporter", "file"}
  /\ UNCHANGED <<mode, exporting, late>>

(* Both providers are global before Setup returns.                          *)
InstallProviders ==
  /\ stage = "providers" /\ stage' = "bridge"
  /\ UNCHANGED <<mode, open, exporting, late>>

(* AttachZapBridge: from here on log records are exported too.              *)
AttachBridge ==
  /\ stage = "bridge" /\ stage' = "up"
  /\ UNCHANGED <<mode, open, exporting, late>>

-----------------------------------------------------------------------------
(* Emitting and exporting.                                                  *)

(* A provider drops what ends after its own shutdown began; with telemetry  *)
(* off spans do not record and there is no bridge.                          *)
Accepting(s) ==
  /\ mode # "off"
  /\ stage \in IF s = "trace" THEN {"up"} ELSE {"up", "flushTraces"}

Emit(s, record) ==
  queue' = IF Accepting(s) THEN [queue EXCEPT ![s] = @ \cup {record}] ELSE queue

(* What is queued of a signal leaves: writes to an open file succeed, those *)
(* to a closed one do not, and a collector may refuse the batch.            *)
Deliver(s) ==
  /\ queue' = [queue EXCEPT ![s] = {}]
  /\ \/ /\ mode = "otlp" \/ "file" \in open
        /\ exported' = [exported EXCEPT ![s] = @ \cup queue[s]]
        /\ UNCHANGED refused
     \/ /\ mode = "file" /\ "file" \notin open
        /\ UNCHANGED <<exported, refused>>
     \/ /\ mode = "otlp"
        /\ refused' = refused \cup {s}
        /\ UNCHANGED exported

-----------------------------------------------------------------------------
(* The ShutdownFunc.                                                        *)

BeginShutdown ==
  /\ stage = "up"
  /\ stage' = IF mode = "off" THEN "down" ELSE "flushTraces"
  /\ UNCHANGED <<mode, open, exporting, late>>

(* What is queued when the deadline passes is given up.                     *)
GiveUp(s) ==
  /\ late' = TRUE
  /\ queue' = [queue EXCEPT ![s] = {}]
  /\ UNCHANGED <<exported, refused>>

(* Mutant: shutting down stops at the first error, or with the deadline.    *)
ShutdownTraces_StopsOnError ==
  /\ stage = "flushTraces"
  /\ \/ /\ Deliver("trace") /\ UNCHANGED late
        /\ open' = open \ {"traceExporter"}
        /\ stage' = IF refused' = refused THEN "flushLogs" ELSE "down"
     \/ GiveUp("trace") /\ UNCHANGED open /\ stage' = "down"
  /\ UNCHANGED mode

(* tp.Shutdown: the last batch and the exporter's own shutdown.  When the   *)
(* deadline passes it returns and leaves the exporter behind.  Its error is *)
(* kept for later: the logs are flushed whatever it is.                     *)
ShutdownTraces ==
  /\ stage = "flushTraces" /\ stage' = "flushLogs"
  /\ \/ Deliver("trace") /\ UNCHANGED late /\ open' = open \ {"traceExporter"}
     \/ GiveUp("trace") /\ UNCHANGED open
  /\ UNCHANGED mode

(* lp.Shutdown shuts its exporter down even past the deadline, which it     *)
(* shares with the traces: it may find none of it left.                     *)
ShutdownLogs ==
  /\ stage = "flushLogs" /\ stage' = "closeFile"
  /\ \/ Deliver("log") /\ UNCHANGED late
     \/ GiveUp("log")
  /\ open' = open \ {"logExporter"}
  /\ UNCHANGED mode

CloseFile ==
  /\ stage = "closeFile" /\ stage' = "down"
  /\ open' = open \ {"file"}
  /\ UNCHANGED <<mode, exporting, late>>

SetupStep ==
  \/ BuildResource \/ OpenFile \/ NewTraceExporter \/ NewLogExporter
  \/ InstallProviders \/ AttachBridge

ShutdownStep == ShutdownTraces \/ ShutdownLogs \/ CloseFile

-----------------------------------------------------------------------------
(* Whichever stage of Setup failed, and however shutdown went, what was     *)
(* opened is released; past the deadline the trace exporter alone may be    *)
(* left to its own goroutine.                                               *)
NothingLeftOpen ==
  /\ stage = "failed" => open = {}
  /\ stage = "down" => open = {} \/ (late /\ open = {"traceExporter"})

(* Why: what is open is what the stage has still to release, and what the   *)
(* deadline made the flush of the traces leave behind.                      *)
Held ==
  (IF mode = "file" /\ stage \notin {"new", "file", "down", "failed"} THEN {"file"} ELSE {})
    \cup (IF mode # "off" /\ stage \in {"logExporter", "providers", "bridge", "up", "flushTraces"}
            THEN {"traceExporter"} ELSE {})
    \cup (IF mode # "off" /\ stage \in {"providers", "bridge", "up", "flushTraces", "flushLogs"}
            THEN {"logExporter"} ELSE {})

OpenInv ==
  /\ mode = "off" => stage \in {"new", "up", "down"}
  /\ mode = "otlp" => stage # "file"
  /\ \/ open = Held
     \/ late /\ stage \in {"flushLogs", "closeFile", "down"} /\ open = Held \cup {"traceExporter"}

=============================================================================
