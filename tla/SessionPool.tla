----------------------------- MODULE SessionPool -----------------------------
(***************************************************************************)
(* The database layer: db.Adapter (db/adapter.go) on top of a pgxpool of    *)
(* connections to CockroachDB, as db.NewManager (db/manager.go) builds it.  *)
(*                                                                         *)
(* Tool handlers call Query and Exec concurrently.  Every call borrows one  *)
(* pooled connection, runs one statement on it and gives it back; a         *)
(* connection is a CockroachDB session, so what one statement does to its   *)
(* session variables is seen by the next one unless the pool hooks that     *)
(* buildPoolConfig installs (AfterConnect, AfterRelease) undo it.  A        *)
(* statement may alter any session variable: set_config() is a builtin, and *)
(* the tools let builtins through.                                         *)
(*                                                                         *)
(* The pool itself is external code: it is modelled by the contract that    *)
(* adapter.go relies on.  The pool's slots are the elements of Conns.       *)
(***************************************************************************)
EXTENDS FiniteSets

CONSTANTS
  Conns,              \* the pool's slots: MaxConns of them
  Calls,              \* the Query and Exec calls that handlers make
  EnableWriteQueries, \* CRDB_MCP_ENABLE_WRITE_QUERIES
  HasTimeout          \* CRDB_MCP_QUERY_TIMEOUT is positive

ASSUME PoolAssumption ==
  /\ Conns # {} /\ IsFiniteSet(Conns)
  /\ EnableWriteQueries \in BOOLEAN
  /\ HasTimeout \in BOOLEAN

ReadOnly == ~EnableWriteQueries

-----------------------------------------------------------------------------
(* Sessions.  A session variable is known by who wrote it last: the server  *)
(* ("default"), the startup parameters ("startup"), the adapter's SET       *)
(* ("adapter") or a statement of some call ("statement").  One variable     *)
(* stands for all those sent as startup parameters.                         *)

RO  == "default_transaction_read_only"
QoS == "default_transaction_quality_of_service"
SessionVars == {RO, QoS}

Sessions == [SessionVars -> {"default", "startup", "adapter", "statement"}]

(* What a new connection has, and what DISCARD ALL goes back to: startup    *)
(* parameters survive it, the read-only setting does not.                   *)
StartupSession == [v \in SessionVars |-> IF v = QoS THEN "startup" ELSE "default"]

(* The hooks end with SET default_transaction_read_only when writes are off.*)
SetReadOnly(s) == IF ReadOnly THEN [s EXCEPT ![RO] = "adapter"] ELSE s

(* The session that every statement is meant to start on.                  *)
FreshSession == SetReadOnly(StartupSession)

-----------------------------------------------------------------------------
VARIABLES
  pool,      \* "opening", then "open", "closing", "closed", or "failed"
  conn,      \* what each slot of the pool is doing
  session,   \* the session behind each slot that has a connection
  holder,    \* the calls that wait for, or use, the connection of a slot
  call,      \* where each call is
  startedOn  \* history: the sessions on which each call's statement started

vars == <<pool, conn, session, holder, call, startedOn>>

Answered == {"done", "failed"}
Pending  == {"acquiring", "dialing", "running"}

TypeOK ==
  /\ pool \in {"opening", "failed", "open", "closing", "closed"}
  /\ conn \in [Conns -> {"none", "dialing", "preparing", "busy", "resetting", "discarded", "idle"}]
  /\ session \in [Conns -> Sessions]
  /\ holder \in [Conns -> SUBSET Calls]
  /\ call \in [Calls -> {"new"} \cup Pending \cup Answered]
  /\ startedOn \in [Calls -> SUBSET Sessions]

Init ==
  /\ pool = "opening"
  /\ conn = [c \in Conns |-> "none"]
  /\ session = [c \in Conns |-> StartupSession]
  /\ holder = [c \in Conns |-> {}]
  /\ call = [k \in Calls |-> "new"]
  /\ startedOn = [k \in Calls |-> {}]

-----------------------------------------------------------------------------
(* NewAdapter: the pool is created and pinged through its first connection, *)
(* which goes back to the pool like any other.                              *)
OpenPool(c) ==
  /\ pool = "opening"
  /\ pool' = "open"
  /\ conn' = [conn EXCEPT ![c] = "resetting"]
  /\ session' = [session EXCEPT ![c] = FreshSession]
  /\ UNCHANGED <<holder, call, startedOn>>

(* The ping failed: NewAdapter closes the pool and returns the error, and   *)
(* no handler is ever registered.                                           *)
OpenFails ==
  /\ pool = "opening"
  /\ pool' = "failed"
  /\ UNCHANGED <<conn, session, holder, call, startedOn>>

-----------------------------------------------------------------------------
(* Handlers run from the registration of the tools on; a handler that an    *)
(* HTTP shutdown gave up waiting for may still call a pool that is closed.  *)
Serving == pool \in {"open", "closing", "closed"}

(* Mutant: the refused call gets no answer the caller knows.                *)
RefuseEmpty_Unanswered(k) ==
  /\ Serving
  /\ call[k] = "new"
  /\ call' = [call EXCEPT ![k] = "refused"]
  /\ UNCHANGED <<pool, conn, session, holder, startedOn>>

(* Query and Exec refuse the empty statement before they touch the pool.    *)
RefuseEmpty(k) ==
  /\ Serving
  /\ call[k] = "new"
  /\ call' = [call EXCEPT ![k] = "failed"]
  /\ UNCHANGED <<pool, conn, session, holder, startedOn>>

(* Otherwise the deadline starts and the call enters pool.Acquire.          *)
Submit(k) ==
  /\ Serving
  /\ call[k] = "new"
  /\ call' = [call EXCEPT ![k] = "acquiring"]
  /\ UNCHANGED <<pool, conn, session, holder, startedOn>>

(* The statement of k starts on the connection of slot c, whose session is s.*)
Start(k, s) ==
  /\ call' = [call EXCEPT ![k] = "running"]
  /\ startedOn' = [startedOn EXCEPT ![k] = @ \cup {s}]

AcquireIdle(k, c) ==
  /\ pool = "open"
  /\ call[k] = "acquiring"
  /\ conn[c] = "idle"
  /\ conn' = [conn EXCEPT ![c] = "busy"]
  /\ holder' = [holder EXCEPT ![c] = {k}]
  /\ Start(k, session[c])
  /\ UNCHANGED <<pool, session>>

(* No idle connection but a free slot: the pool opens a connection in a     *)
(* goroutine of its own, and the call waits for it.                         *)
Dial(k, c) ==
  /\ pool = "open"
  /\ call[k] = "acquiring"
  /\ conn[c] = "none"
  /\ \A d \in Conns : conn[d] # "idle"
  /\ conn' = [conn EXCEPT ![c] = "dialing"]
  /\ holder' = [holder EXCEPT ![c] = {k}]
  /\ call' = [call EXCEPT ![k] = "dialing"]
  /\ UNCHANGED <<pool, session, startedOn>>

(* A closed pool turns callers away once a slot is free to look.            *)
TurnAway(k) ==
  /\ pool \in {"closing", "closed"}
  /\ call[k] = "acquiring"
  /\ \E c \in Conns : conn[c] = "none"
  /\ call' = [call EXCEPT ![k] = "failed"]
  /\ UNCHANGED <<pool, conn, session, holder, startedOn>>

-----------------------------------------------------------------------------
(* Opening a connection: startup parameters, then the AfterConnect hook.    *)
Connect(c) ==
  /\ conn[c] = "dialing"
  /\ conn' = [conn EXCEPT ![c] = "preparing"]
  /\ session' = [session EXCEPT ![c] = StartupSession]
  /\ UNCHANGED <<pool, holder, call, startedOn>>

(* A connection nobody holds any more goes to the idle list, or away.       *)
Park(c) == conn' = [conn EXCEPT ![c] = IF pool = "open" THEN "idle" ELSE "none"]

(* The new connection goes to the call that waits for it, if it still does. *)
AfterConnect(c) ==
  /\ conn[c] = "preparing"
  /\ session' = [session EXCEPT ![c] = SetReadOnly(@)]
  /\ \/ \E k \in holder[c] :
          /\ conn' = [conn EXCEPT ![c] = "busy"]
          /\ Start(k, session'[c])
     \/ /\ holder[c] = {}
        /\ Park(c)
        /\ UNCHANGED <<call, startedOn>>
  /\ UNCHANGED <<pool, holder>>

(* The connect or the hook failed: no connection, and the call fails.       *)
DialFails(c) ==
  /\ conn[c] \in {"dialing", "preparing"}
  /\ conn' = [conn EXCEPT ![c] = "none"]
  /\ holder' = [holder EXCEPT ![c] = {}]
  /\ call' = [k \in Calls |-> IF k \in holder[c] THEN "failed" ELSE call[k]]
  /\ UNCHANGED <<pool, session, startedOn>>

-----------------------------------------------------------------------------
(* Mutant: the rows are still being read when the connection is released.  *)
Finish_KeepsRows(k, c) ==
  /\ conn[c] = "busy"
  /\ k \in holder[c]
  /\ conn' = [conn EXCEPT ![c] = "resetting"]
  /\ UNCHANGED <<pool, session, holder, call, startedOn>>

(* The statement ended, with its rows read or with an error, and may have   *)
(* altered the session.  The connection is given back: to AfterRelease if   *)
(* it is healthy, destroyed if it broke, expired or is inside a transaction.*)
Finish(k, c) ==
  /\ conn[c] = "busy"
  /\ k \in holder[c]
  /\ \E result \in Answered : call' = [call EXCEPT ![k] = result]
  /\ \E fate \in {"resetting", "none"} : conn' = [conn EXCEPT ![c] = fate]
  /\ \E altered \in SUBSET SessionVars :
       session' = [session EXCEPT ![c] =
                     [v \in SessionVars |-> IF v \in altered THEN "statement" ELSE @[v]]]
  /\ holder' = [holder EXCEPT ![c] = {}]
  /\ UNCHANGED <<pool, startedOn>>

(* Mutant: the deadline covers the statement but not the wait for a         *)
(* connection.                                                              *)
ContextDone_RunningOnly(k) ==
  /\ call[k] = "running"
  /\ call' = [call EXCEPT ![k] = "failed"]
  /\ conn' = [c \in Conns |-> IF k \in holder[c] THEN "none" ELSE conn[c]]
  /\ holder' = [c \in Conns |-> holder[c] \ {k}]
  /\ UNCHANGED <<pool, session, startedOn>>

(* Mutant: the error path forgets rows.Close, so the connection stays out.  *)
ContextDone_Leaks(k) ==
  /\ call[k] \in Pending
  /\ call' = [call EXCEPT ![k] = "failed"]
  /\ holder' = [c \in Conns |-> holder[c] \ {k}]
  /\ UNCHANGED <<pool, conn, session, startedOn>>

(* The call's context is done: its deadline passed, or the client cancelled *)
(* the request.  A connection in use is closed under the statement; one     *)
(* that is being opened is left to the pool.                                *)
ContextDone(k) ==
  /\ call[k] \in Pending
  /\ call' = [call EXCEPT ![k] = "failed"]
  /\ conn' = [c \in Conns |-> IF conn[c] = "busy" /\ k \in holder[c] THEN "none" ELSE conn[c]]
  /\ holder' = [c \in Conns |-> holder[c] \ {k}]
  /\ UNCHANGED <<pool, session, startedOn>>

-----------------------------------------------------------------------------
(* Mutant: AfterRelease does not discard.                                   *)
DiscardAll_Skipped(c) ==
  /\ conn[c] = "resetting"
  /\ conn' = [conn EXCEPT ![c] = "discarded"]
  /\ UNCHANGED <<pool, session, holder, call, startedOn>>

(* Mutant: AfterRelease discards but does not set read-only again.          *)
Reapply_Skipped(c) ==
  /\ conn[c] = "discarded"
  /\ Park(c)
  /\ UNCHANGED <<pool, session, holder, call, startedOn>>

(* Mutant: AfterRelease reports success although its statement failed.      *)
HookFails_Reused(c) ==
  /\ conn[c] \in {"resetting", "discarded"}
  /\ Park(c)
  /\ UNCHANGED <<pool, session, holder, call, startedOn>>

(* AfterRelease, in a goroutine and with five seconds of its own: DISCARD   *)
(* ALL, then the SET; only if both succeed is the connection used again.    *)
DiscardAll(c) ==
  /\ conn[c] = "resetting"
  /\ conn' = [conn EXCEPT ![c] = "discarded"]
  /\ session' = [session EXCEPT ![c] = StartupSession]
  /\ UNCHANGED <<pool, holder, call, startedOn>>

Reapply(c) ==
  /\ conn[c] = "discarded"
  /\ session' = [session EXCEPT ![c] = SetReadOnly(@)]
  /\ Park(c)
  /\ UNCHANGED <<pool, holder, call, startedOn>>

HookFails(c) ==
  /\ conn[c] \in {"resetting", "discarded"}
  /\ conn' = [conn EXCEPT ![c] = "none"]
  /\ UNCHANGED <<pool, session, holder, call, startedOn>>

(* An idle connection is dropped: lifetime, idle time or a failed ping.     *)
Expire(c) ==
  /\ conn[c] = "idle"
  /\ conn' = [conn EXCEPT ![c] = "none"]
  /\ UNCHANGED <<pool, session, holder, call, startedOn>>

-----------------------------------------------------------------------------
(* Adapter.Close: the idle connections are dropped, and Close waits for the *)
(* others to be given back.                                                 *)
Close ==
  /\ pool = "open"
  /\ pool' = "closing"
  /\ conn' = [c \in Conns |-> IF conn[c] = "idle" THEN "none" ELSE conn[c]]
  /\ UNCHANGED <<session, holder, call, startedOn>>

(* Mutant: Close does not wait.                                             *)
CloseReturns_AtOnce ==
  /\ pool = "closing"
  /\ pool' = "closed"
  /\ UNCHANGED <<conn, session, holder, call, startedOn>>

CloseReturns ==
  /\ pool = "closing"
  /\ \A c \in Conns : conn[c] = "none"
  /\ pool' = "closed"
  /\ UNCHANGED <<conn, session, holder, call, startedOn>>

(* Nothing is left to do.                                                   *)
Stopped ==
  /\ \/ pool = "failed"
     \/ pool = "closed" /\ \A k \in Calls : call[k] \in Answered
  /\ UNCHANGED vars

-----------------------------------------------------------------------------
CallStep(k) == RefuseEmpty(k) \/ Submit(k) \/ TurnAway(k) \/ ContextDone(k)

BorrowStep(k, c) == AcquireIdle(k, c) \/ Dial(k, c) \/ Finish(k, c)

HookStep(c) == DiscardAll(c) \/ Reapply(c) \/ HookFails(c)

DialStep(c) == Connect(c) \/ AfterConnect(c) \/ DialFails(c)

Next ==
  \/ \E c \in Conns : OpenPool(c)
  \/ OpenFails
  \/ \E k \in Calls : CallStep(k)
  \/ \E k \in Calls, c \in Conns : BorrowStep(k, c)
  \/ \E c \in Conns : DialStep(c) \/ HookStep(c) \/ Expire(c)
  \/ Close
  \/ CloseReturns
  \/ Stopped

Spec == Init /\ [][Next]_vars

(* Timers the code and the pool really set.  The query deadline, when there *)
(* is one; the five seconds of AfterRelease; the cancellation of a pending  *)
(* connect when the pool is closed; and Close noticing that it may return.  *)
(* Nothing makes the database answer or a waiting call get a connection.    *)
TimedCalls == IF HasTimeout THEN Calls ELSE {}

Fairness ==
  /\ \A k \in TimedCalls : WF_vars(ContextDone(k))
  /\ \A c \in Conns : WF_vars(HookStep(c))
  /\ \A c \in Conns : WF_vars(pool = "closing" /\ DialFails(c))
  /\ WF_vars(CloseReturns)

FairSpec == Spec /\ Fairness

-----------------------------------------------------------------------------
(* Every statement starts on the session the configuration asks for: no     *)
(* session variable altered by an earlier call, the QoS in force, and       *)
(* read-only unless writes are enabled.                                     *)
StatementsStartFresh == \A k \in Calls : startedOn[k] \subseteq {FreshSession}

(* A connection serves one call at a time: no other call holds it, and the  *)
(* reset of a released connection never overlaps its next use.              *)
OneCallPerConnection ==
  \A c \in Conns :
    /\ \A k, l \in holder[c] : k = l
    /\ conn[c] \in {"none", "resetting", "discarded", "idle"} => holder[c] = {}

(* No connection is lost: one that is in use has a running call that will   *)
(* give it back, and a running call has exactly one connection.             *)
NoLeakedConnection ==
  /\ \A c \in Conns : conn[c] = "busy" => \E k \in holder[c] : call[k] = "running"
  /\ \A k \in Calls :
       call[k] = "running" => \E c \in Conns :
         /\ conn[c] = "busy"
         /\ \A d \in Conns : k \in holder[d] <=> d = c

(* When Close has returned no statement is running and none will ever be    *)
(* answered with success any more: shutdown does not cut the database off   *)
(* under a handler that Close did not wait for.                             *)
CloseWaits ==
  pool = "closed" => \A k \in Calls : call[k] \in {"new", "acquiring"} \cup Answered

(* With a query timeout every call is answered, whatever the database and   *)
(* the other calls do: the deadline covers the wait for a connection too.   *)
CallsReturn == \A k \in Calls : call[k] \in Pending ~> call[k] \in Answered

(* With a query timeout Close returns, although it waits for every borrowed *)
(* connection, for running resets and for connects under way.               *)
CloseReturnsEventually == pool = "closing" ~> pool = "closed"

(* The promise of PrivateSessions, with a call that waits for a free slot   *)
(* or for its own new connection seen as waiting.                           *)
Promise ==
  INSTANCE PrivateSessions WITH
    Limit <- Cardinality(Conns),
    Configured <- FreshSession,
    up <- pool \notin {"closed", "failed"},
    phase <- [k \in Calls |-> IF call[k] \in {"acquiring", "dialing"} THEN "waiting" ELSE call[k]]

(* The pool gives every call what a private session would give it, although *)
(* sessions are shared, reset behind the calls' back and thrown away.       *)
KeepsPromise == Promise!PSpec

-----------------------------------------------------------------------------
(* The strengthening that makes the invariants above inductive.             *)

(* What is known of the session behind a connection at each stage.          *)
SessionInv ==
  \A c \in Conns :
    /\ conn[c] \in {"preparing", "discarded"} => session[c] = StartupSession
    /\ conn[c] = "idle" => session[c] = FreshSession

(* Who holds a connection is what its slot says, and the other way round.   *)
HolderInv ==
  /\ \A c \in Conns : \A k \in holder[c] :
       \/ conn[c] = "busy" /\ call[k] = "running"
       \/ conn[c] \in {"dialing", "preparing"} /\ call[k] = "dialing"
  /\ \A c \in Conns : conn[c] = "busy" => holder[c] # {}
  /\ \A c \in Conns : \A k, l \in holder[c] : k = l
  /\ \A c, d \in Conns : \A k \in holder[c] \cap holder[d] : c = d
  /\ \A k \in Calls : call[k] \in {"dialing", "running"} => \E c \in Conns : k \in holder[c]

(* Before the pool opens and after it is closed there is no connection.     *)
QuietInv == pool \in {"opening", "failed", "closed"} => \A c \in Conns : conn[c] = "none"

IInv == TypeOK /\ StatementsStartFresh /\ SessionInv /\ HolderInv /\ QuietInv

=============================================================================
