# A TLA+ model of cockroachdb-mcp-server

The server gives an MCP client (an agent) access to one CockroachDB cluster: it
reads tool calls from stdio or HTTP, checks them, runs SQL over a connection
pool and renders the rows. This directory models the parts of it where order,
sharing, failure or nesting decide whether it is correct, checks them with TLC,
and proves their safety properties with TLAPS.

## 1. The system

| Component | Source | State it keeps | Operations | What is hard about it | What makes it correct |
| --- | --- | --- | --- | --- | --- |
| Database adapter, manager | `db/adapter.go`, `db/manager.go` | a pgxpool of sessions | open, Query, Exec, AfterConnect, AfterRelease, Close | sessions outlive calls; resets, dials, deadlines and Close interleave | each statement starts on the configured session; no connection shared, none lost; calls and Close end |
| Process lifecycle, transports | `main.go` | deferred cleanups, errgroup, signal context, HTTP listener | staged start, serve, drain, unwind, report | partial start-up, bind error against signal, a drain that gives up, clients that hang up | clean exit, pool outlives handlers, telemetry outlives statements, shutdown completes |
| Row limits, paging | `tools/helpers.go`, list tools, `select_query.go` | none | applyLimitOffset, validateLimitClause | caps, defaults and offsets at their boundaries, over several calls | paging neither skips nor repeats; caps hold; an accepted LIMIT stands |
| Statement guard | `tools/helpers.go`, the query tools, `tools/tools.go` | which tools are registered | parse, ensureSelectOnly, walkTableExprReadOnly, ensureNoHiddenDML | a write can be nested anywhere in a tree | where the checks look, read tools write nothing and write tools write once, of their kind; reads are accepted |
| SafeFormat | `db/safesql.go` | the rest of the format | splitNext, render | an incremental scan that sees only what is left | replaces each placeholder by its own argument and nothing else |
| Other tool handlers | `tools/get_cluster.go`, ... | none | one or two statements and a rendering | the second statement fails; a statement fails after it took effect | the answer says what the database did; a write reaches it at most once |
| Middleware | `middleware/` | a span and a logger per call | wrap tools/call | error results that are not Go errors; two layers that must nest the right way | span, record and answer tell one story; no row data in an error |
| OpenTelemetry | `otel/otel.go` | providers, exporters, a file | Setup, AttachZapBridge, ShutdownFunc | the second exporter fails; two flushes share one deadline | nothing is left open; what was answered is exported |
| Configuration | `config/config.go`, `db/adapter.go` | none after Load | Load, DSN, validation, buildPoolConfig | combinations of some twenty options, checked in stages by several packages | nothing insecure without its opt-in; the TLS mode that was checked is the one in use |
| Bearer auth, routing | `auth/bearer.go`, `main.go` | none | newHTTPMux, health, Bearer | an empty token switches the check off | with a token set, the tools need it and the probes do not |
| Logger | `logging/` | zap | NewLogger, L | pure I/O | - |

How they interact: `main.run` builds the logger, the signal context, telemetry,
the database manager and the tools, in this order, and defers the cleanup of
each. A transport then calls handlers concurrently; a handler checks its input
(guard, limits, SafeFormat) and calls `Manager.Query` or `Exec`, which borrows a
pooled connection. The pool calls back into the hooks that `buildPoolConfig`
installs. On shutdown the transport stops first, then the cleanups run in
reverse, and `Close` meets whatever handlers are left.

## 2. The modules

| Module | What it is |
| --- | --- |
| `SessionPool` | the adapter over the pool |
| `PrivateSessions` | what the adapter promises: the abstract specification |
| `SessionPoolProofs` | the inductive invariant of `SessionPool` and what follows from it |
| `SessionPoolRefinement` | the proof that `SessionPool` implements `PrivateSessions` |
| `ServerLifecycle` | `main.go`: start-up, serving, drain, unwinding, exit |
| `RowLimits` | the limits of the list tools and of `select_query`, and a paging client |
| `StatementGuard` | what the query tools let through |
| `SafeSQL` | the scan of `SafeFormat` |
| `Telemetry` | `otel`: set-up, the providers' queues, shutdown |
| `ToolCall` | a tools/call through middleware, handler and database; extends `Telemetry`, uses `PrivateSessions` |
| `ConfigLoad` | the options on their way to a server that runs, the mux and the bearer check |
| `MC...` | constants and symmetry for TLC |
| `ServerLifecycleProofs`, `ToolCallProofs`, `ConfigLoadProofs`, `RowLimitsProofs`, `StatementGuardProofs`, `SafeSQLProofs` | the proofs about these models; `ToolCallProofs` has those about `Telemetry` |

Operators whose name has an underscore, `Finish_KeepsRows` for example, are
plausible bugs. They are not part of any specification; each stands before the
definition it would replace and shows that some property depends on it.

### SessionPool

A slot of the pool (`conn`) is `none`, `dialing` and `preparing` (AfterConnect)
while it is opened, `busy` under a statement, `resetting` and `discarded`
(AfterRelease: DISCARD ALL, then the SET, which are one round trip in the code
and two steps here because either may be the one that fails), or `idle`. A call
(`call`) is `new`, `acquiring`, `dialing`, `running`, then `done` or `failed`.
`session` maps two session variables to who wrote them last: the read-only
default, set by statement, and the quality of service, set by startup parameter
and standing for all of those. A statement may overwrite either. `startedOn`
records the session each statement began on.

pgxpool is external. What is assumed of it: an idle connection is preferred, a
new one is opened in the background when a slot is free, a call whose context
ends during the opening leaves the connection to the pool, a released connection
goes through AfterRelease in a goroutine, a broken one is destroyed, Close drops
idle connections, cancels connects under way and waits for all others, and a
closed pool turns callers away.

### ServerLifecycle

`pc` is the main goroutine, `defers` the stack of cleanups of `run`, `serve` and
`drain` the two goroutines of the errgroup. Handlers (`req`) are not cancelled
by shutdown: their contexts come from the request. `http.Server.Shutdown` waits
for exchanges, not for handlers, so a client that hangs up (`gone`) leaves a
handler nobody waits for; a session's standing stream is an exchange that ends
only when its client wants. The pool is seen through `SessionPool`'s states
`open`, `closing` and `closed`; its Close waits for the connections it has lent,
which are those of handlers in `querying`. When a statement is over its connection
goes back first (`EndQuery`); the span of the statement ends in a call that
`Adapter.Query` deferred before (`EndSpan`, from `returning`), so a handler nobody
waits for may end it after the pool was closed and telemetry shut down. `lost`
collects the requests to which that happened.

### RowLimits, StatementGuard, SafeSQL

`RowLimits` takes the two ways a LIMIT is decided and adds a client that pages
by what it received. `StatementGuard` takes a statement as one path of its syntax
tree: each check is a conjunction over siblings, so a tree passes exactly when
all its paths do. The tables `SelectFollows` and `TableFollows` are the edges the
Go functions follow, while `WritesExecuted`, against which they are checked,
knows nothing of edges. The grammar has edges that no function follows: the
condition of a join, the items of ROWS FROM, the rows of VALUES and the clauses of
a statement other than its projection list, SET and WHERE. What is below those is
inspected if `tree.SimpleStmtVisit`, which `ensureSelectOnly` and
`ensureNoHiddenDML` start at the statement around them, comes there. That is the
parser's business, so the positions it reaches are a constant, `Visited`; the
others, and the expressions of an INSERT and of a CREATE TABLE, are `Unseen`, and
the properties say exactly that a write may run below those and nowhere else.
`SafeSQL` runs the scan a placeholder at a time and
compares it with a definition that reads the whole format at once.

### Telemetry and ToolCall

`Telemetry` follows `stage` through `Setup` (resource, file, two exporters,
providers, the zap bridge of `main.go`) and back through the `ShutdownFunc`.
`open` is what `newExporters` holds and its cleanups release. `queue` and
`exported` are sets of records by signal; `Emit` is a span that ends or a record
that is logged, and drops it once the provider's shutdown began, as the SDK does.

`ToolCall` composes everything a call passes. A request (`at`) is `handling`
(both middlewares have called on), `querying` (inside `Adapter.Query` or `Exec`),
`logging` (back in `ToolCallLogger`), `closing` (back in `ToolCallSpan`) and
`answered`. Handlers differ by `tool` only in their statements: one, one that
writes, or the two of `get_cluster`. The database is not a summary of
`SessionPool` but the specification it is proved to implement: `Ask`, `Begin`,
`Succeed`, `Fail` and `ShutDown` are those of `PrivateSessions`, to which
`ToolCall` adds how a statement failed (`failure`) and whether it took effect
(`applied`). A statement that fails while it runs may or may not have. `main`
walks through set-up, serving, `Close` of the pool and shutdown of telemetry
without waiting for calls, as after a drain that gave up.

An error is the set of the layers of its chain. `Wrap`, in the adapter and in the
handler, adds one; `SafeSpanError` looks for a PgError in the chain and lets the
text of every other error through, and a text gives away what any layer says. So
that row data stays inside depends on all the layers an error passes and on each
of the three ways it takes into telemetry. The middleware is the list `Receiving`
as `main.go` has it: a record belongs to the call's span only if the span's layer
comes before the logger's.

### ConfigLoad

Three actions choose the options in the order `Load` reads them, each ending in
`rejected` if a check of that stage fails: the transport with its token and
files, the other options, the database by URL or by certificates. Options appear
by the classes that the checks tell apart; `malformed` stands for any one option
of a stage that does not parse. `OpenDatabase` is `main`'s warning and
`buildPoolConfig`: the password gate on what pgx has found, and the quality of
service (the environment's, the connection string's as it is, or the default; no
property restates that choice). A connection string has the `sslmode` that pgx
reads (`EffectiveMode`) and the one that `Load` finds by `url.Parse` (`QueryMode`).
In a URL they are the same; in a string of keywords the second is what follows a
question mark in some value, if there is one. `Answer` is the mux with the bearer check, for every configuration that
runs. The properties speak of what the operator set and what pgx will do with
it, not of what `Load` noted down.

## 3. The runs

| Run | Question | Instance |
| --- | --- | --- |
| `pool_readonly` | do sessions leak, are connections shared or lost, does Close wait; is `PrivateSessions` implemented | 2 connections, 3 calls, read-only, no timeout; symmetry |
| `pool_timeout` | does every call return, does Close | 2 connections, 3 calls, writes enabled, timeout; fairness |
| `lifecycle` | what is left behind at exit, what is closed under whom, does shutdown complete | 3 requests with a statement each, timeout; fairness |
| `row_limits` | paging and caps | lists of 0 to 7 rows, caps 1 to 5, limits -1 to 6, default 3 |
| `row_limits_default` | the documented cap of list tools (violated) | the same |
| `safesql_scan` | scan against definition, and termination | all formats of at most 5 characters |
| `safesql_comment` | the documented rule on placeholders (violated) | the same |
| `statement_paths` | what the guard lets through and refuses | all paths of at most 4 nodes, all query tools; the visitor reaches `clause` and `row`, not `on` and `item` |
| `tool_calls` | do answer, database, spans and records agree; is telemetry complete; is every call answered | `get_cluster` next to a write, 1 connection, every telemetry mode; fairness |
| `config_setups` | what a server that runs was allowed to do, and what was warned of | every combination of option classes |
| `config_keywords` | the documented forms of a connection string (violated) | the same |
| `config_sslmode` | the documented requirement on sslmode, of the connection pgx makes (violated) | the same |

Why the bounds are enough. Two connections and three calls give a call that
waits for a full pool, a connection handed on, a connect orphaned by its call
and a Close in the middle of each; the proofs below remove the bound for safety.
Three requests make one handler that the drain waits for, one whose client hung
up and one that is left behind when it gives up. The timeout is in the fairness
only, so the safety properties are checked without it as well; the second statement
of `get_cluster` meets there what the first one of a slower handler meets, and the
proofs have any number of statements. The default limit of 100 is scaled to 3 and stands below,
at and above the caps and the list lengths. An index cap of 10 stands for 1e6:
five characters reach it and pass it. A fourth node on a path adds nesting below
every combination of two edges; the recursion has no state that would make a
fifth one new. `Visited` has two positions and leaves out two, so that both kinds
occur; the proofs are for every `Visited`. `get_cluster` with its first statement behaves as a read tool
does, so with a write beside it every kind of handler runs; one connection makes
them wait for each other, and two calls are what a shutdown needs to fall between
the flush of the traces and that of the logs. The classes of `ConfigLoad` are
complete: each check of the code is true of some class and false of another, and
the connection counts are -1, 0, 1, 100 and 101. For safety the proofs of section 5
remove the bounds altogether: connections, calls, requests, rows, limits, the
depth of a path and the length of a format are arbitrary there.

`statement_paths` does not check deadlock: a tool call is the end of a behaviour.
Nothing else turns the check off; systems that have stopped stutter explicitly.

The four violations. `applyLimitOffset` (`tools/helpers.go:308`) caps a limit that
the caller gave but not the default of 100, so with
`CRDB_MCP_MAX_ROWS_COUNT` below 100 a list tool asks for more than what
`README.md:222` calls a "Cap on the max LIMIT list-style tools issue to CRDB".
`splitNext` (`db/safesql.go:79`) accepts a placeholder right after another one,
which the comment on `SafeFormat` (`db/safesql.go:46`) excludes; the repository
has no such format. `validateDatabaseURL` (`config/config.go:303`) looks for
`sslmode` in the query of a URL, so a libpq connection string of keywords,
`host=db sslmode=verify-full`, is refused as if it had none, while
`config/config.go:106` and `README.md:200` call the option "a full libpq
connection string"; pgx would take it. The same function reads the query of any
string with a question mark: of `host=db sslmode=disable
application_name=x?sslmode=verify-full` it checks and keeps `verify-full`
(`config/config.go:304-316`), while pgx goes by the keyword, so that the
TLS-optional modes do not "require `CRDB_MCP_ALLOW_INSECURE_DB=true`"
(`README.md:203-204`). `OptInsRespected` and `InsecureDBWarned` are therefore
stated for URLs and certificate setups as far as TLS is concerned.

## 4. Fairness

In `SessionPool` only timers that exist are fair: the query deadline when it is
positive, the five seconds of AfterRelease, the cancellation of connects once
the pool closes, and Close's own return. No answer of the database and no turn
in the queue is assumed: `CallsReturn` holds through the deadline, as the code
has it. Without a deadline it does not hold, and the runs do not claim it.

In `ServerLifecycle` the main goroutine, the goroutines of the errgroup, and
handlers that are not inside a statement run when they can, the end of its span
(`EndSpan`) included; a statement ends if it has a
timeout; the drain has its ten seconds. Signals, bind errors, hang-ups and the
end of a stream are never assumed. A listener that never fails and receives no
signal runs for ever, which `ShutdownCompletes` allows.

In `ToolCall` a handler runs when it can, and a statement that was asked for
fails if nothing better comes: that is `SessionPool`'s `CallsReturn`, which
`pool_timeout` checks under the deadline, restated over `PrivateSessions`. It is
no assumption that a statement ever succeeds, nor that `main` stops or exporters
answer. A call is answered unless the process ends first.

## 5. What is proved

Every invariant that a passing run checks is a theorem, for every value of the
constants that the module's named assumption admits. The properties are seldom
inductive as they stand. The strengthening, `IInv` in every model, is written
below the properties it serves; for each module there is a theorem `Inductive`,
`Spec => []IInv`, and the properties follow from it. The proof of a step has one
lemma per conjunct, with one case per action.

**SessionPool**, for every finite non-empty set of connections, every set of calls
and both values of the two switches. That a statement starts on a fresh session
(`FreshStatements`) needs the session behind each idle connection to be fresh,
which needs the stages before it (`SessionInv`: the startup session after connect
and after DISCARD ALL). That connections are neither shared nor lost
(`ExclusiveUse`, `NothingLeaks`) needs the slots' and the calls' views of each
other to agree, for connects under way as well (`HolderInv`). That Close waits
(`CloseWaitsForCalls`) needs that no connection exists outside an open or closing
pool (`QuietInv`).

**The refinement.** `Refinement`: `SessionPool` implements `PrivateSessions`. A step
maps to Begin, Succeed, Fail, Ask, ShutDown or a stutter. The one case with
content is Begin, which the promise allows only below the limit: the calls that
run hold distinct connections, and the one that is about to start has one they do
not hold (`RoomToBegin`), so there are fewer of them than connections. From the
other side, `WithinThePromise`: what handlers and `main` do with the database in
`ToolCall` is a behaviour of `PrivateSessions`. So `ToolCall` may stand on it.

**ServerLifecycle**, for every set of requests, any number of queries and both
values of the timeout. `StackInv` is the discipline of the deferred cleanups: the
stack is at every moment a prefix of one order, and where `main` is fixes its
height. `HeldInv` says that what is held is what a cleanup on the stack will
release; so an empty stack is a clean exit (`CleanExit`). `ServingInv` says that
when unwinding begins the group has returned, so the drain has waited for every
handler whose client still did, or has given up, or nothing was ever served
(`PoolOutlives`). `QueryInv` says that only a pool that is open, or whose Close is
waiting, has lent connections; with the order of the stack this gives
`TelemetryOutlives`, which speaks of statements at the database: the ends of
their spans are what `LossIsBounded` is about. `LossIsBounded` and `OneReport` are part of the invariant.

**ToolCall with Telemetry**, for every set of requests, every assignment of tools
and any number of connections. The layers build on each other. `OpenInv`: how far
Setup or the shutdown has come determines what is open (`AllReleased`).
`CallInv` and `FailureInv`: where a call is determines the phases of its
statements, and a failure is recorded exactly for a statement that failed; the
honesty of answers (`HonestAnswers`) is inductive with these. `AppliedInv`: an
effect only from a statement that ran, so at most one (`AtMostOnce`).
`RecordInv`: every record is the one its statement or call would yield again, so
that records agree with each other and with the answer (`OneStory`). `ChainInv`:
no error repeats a PgError without having it in its chain, so `SafeSpanError`
finds it and what the database said is in no record (`NoDetail`). `QueueInv` and `ExportInv`: while telemetry is up
nothing emitted has left its queue, and from the flush on the records of a call in
time move together, except what was refused or cut off (`CompleteExport`).

**ConfigLoad**, for every positive cap on the number of connections and every set of
integer counts. What one stage of `Load` checked is carried through the next:
`TransportInv`, `OptionsInv`, `DatabaseInv`, `PoolInv`. The content is in the
steps from what was noted to what is meant: that the mode `Load` keeps for a URL
or a certificate setup is the one pgx uses (`KeptMode`), and that an HTTP transport
that was accepted is guarded or was opted into (`AcceptedHTTP`). Options are classes, as in
the model.

**RowLimits**, for every default and cap from 1, all integer limits and offsets and
lists of every length. `PagingIsComplete` rests on a lemma about one page (`Pages`):
a page is the next rows of the list, and it is empty only at its end. That the
caps are not below 1 is `config.go`'s check; with a cap of 0 it would be false.

**StatementGuard**, for paths of every length. `CheckedToTheLeaf` is the fact
everything hangs on: the recursion of `ensureSelectOnly` and
`walkTableExprReadOnly` accepts from a node if and only if there are only reads
from there to the leaf, or to the first edge that is unseen. It holds for every set
`Visited`, and it is an equivalence, so that it serves both directions: nothing
buried where a check looks is missed (`ReadToolsRead`, `WriteToolsOwn`) and nothing harmless
is refused (`ReadsPass`). `PathInv` (the path is one of the grammar) and
`OutcomeInv` (the outcome is that of the checks on this path) are the invariant.

**SafeSQL**, for formats of every length and every list of arguments shorter than
10 times the index cap. `Verdict` is the core: `splitNext` and `render`
see the rest of the format and one character before the placeholder, and still
accept exactly the placeholders that are well formed in the whole. `RestInv` (the
rest is an end of the format that begins where a placeholder ended) is what makes
the missing context harmless, and `ScanInv` says that what is written is what the
part before it contributes; `ExactSubstitution` and `OnlyMalformedRefused` follow.
That bound on the arguments is needed: `splitNext` refuses an index that reached
the cap before its last digit. At the code's 1e6 that is ten million arguments.
The alphabet is the model's: `%`, three digits, a letter and a punctuation mark.

The definitions of these last two modules recurse over data. The library's
induction theorems take the induction hypothesis as an operator, which the
provers do not instantiate; but the property to be shown can be made a set of
numbers, and a non-empty set of numbers has a least element (`WFMin`,
`NatLessThanWellFounded`). So a recursive function is shown to have a solution,
two solutions are shown not to differ, and the recursion may be unfolded
(`IntervalInduction`, `SolutionExists`, `SolutionUnique`, `NumberUnfolds`).

Only model-checked: `CallsReturn`, `CloseReturnsEventually`, `ShutdownCompletes`,
`CallsAnswered` and the termination of the scan (`Returns`). They are liveness
under fairness, out of this prover's reach like ENABLED. The four violated
statements are counterexamples of TLC and need no proof.

## 6. What is not modelled

- The parser, pgx and pgxpool, `net/http`, the MCP library and the database
  appear by the contract the code relies on. In particular which positions
  `tree.SimpleStmtVisit` reaches is the parser's: the projection list, SET and WHERE,
  which the comments name, are taken as reached; a join's condition, ROWS FROM, the
  rows of VALUES and the other clauses are, or are not, by the constant `Visited`.
- `insert_rows` inspects the CTEs and the source of an INSERT, `create_table` the
  source of CREATE TABLE AS. Their other expression positions are on the model's
  paths (`returning`, `column`) and among those that the properties call unseen.
- The rows of an answer and how they are rendered: `ToolCall` tells apart only
  whether rendering succeeds. Rows become maps by column name
  (`tools/helpers.go:281`), so of two columns of one name the later stands; no
  document says otherwise. Escaping of identifiers and literals is lexbase's.
- The redaction of statement text and the other attributes of spans and
  records, which are a function of the statement and read no state.
- Batches that the exporters send before shutdown, and queues that overflow
  (2048 records): the first are delivered or refused as the last batch is, the
  second is the SDK's.
- Methods other than tools/call: both middlewares pass them through untouched.
- The wording of configuration errors, the values of defaults, and which of the
  options of one stage is the malformed one. A `CRDB_PORT` that is no integer is
  refused in URL mode too, although the option applies to the other mode only
  (`config/config.go:189`). `CRDB_MCP_QUERY_TIMEOUT` may be
  zero or negative, which turns the deadline off; `SessionPool` and
  `ServerLifecycle` have that as the parameter `HasTimeout`.
- The logger and the version flag: pure I/O.

## 7. Plan

Built, in the order of their importance: the pool, its abstract specification
and proofs; the lifecycle; the guard; the limits; the formatter; the tool call
with its telemetry, over the pool's abstract specification; the configuration.
The safety properties of all of them are proved, and the composition of
`ToolCall` with the pool. What is left:

1. The same composition for `ServerLifecycle`, which sees the pool as three states
   and its handlers' queries: a mapping to `PrivateSessions` with the connections
   left open.
2. `SessionPool`'s promise restated for the calls of `ToolCall`: the two theorems
   meet in `PrivateSessions`, whose variables would have to be hidden to chain them.
