-------------------------- MODULE SessionPoolProofs --------------------------
(***************************************************************************)
(* Proofs about SessionPool for every number of slots and calls, with       *)
(* writes enabled or not and with or without a query timeout.               *)
(***************************************************************************)
EXTENDS SessionPool, TLAPS

(* The two sessions the hooks produce are sessions.                         *)
LEMMA SessionTypes ==
  /\ StartupSession \in Sessions
  /\ FreshSession \in Sessions
  /\ \A s \in Sessions : SetReadOnly(s) \in Sessions
BY DEF StartupSession, FreshSession, SetReadOnly, Sessions, SessionVars, RO, QoS

(* A step of the pool keeps every variable in its type.                     *)
LEMMA TypeStep == TypeOK /\ [Next]_vars => TypeOK'
<1> SUFFICES ASSUME TypeOK, [Next]_vars PROVE TypeOK'
  OBVIOUS
<1> USE SessionTypes DEF TypeOK, Pending, Answered
<1>1. ASSUME NEW c \in Conns, OpenPool(c) PROVE TypeOK'
  BY <1>1 DEF OpenPool
<1>2. CASE OpenFails
  BY <1>2 DEF OpenFails
<1>3. ASSUME NEW k \in Calls, CallStep(k) PROVE TypeOK'
  BY <1>3 DEF CallStep, RefuseEmpty, Submit, TurnAway, ContextDone
<1>4. ASSUME NEW k \in Calls, NEW c \in Conns, BorrowStep(k, c) PROVE TypeOK'
  <2>1. CASE AcquireIdle(k, c)
    BY <2>1 DEF AcquireIdle, Start
  <2>2. CASE Dial(k, c)
    BY <2>2 DEF Dial
  <2>3. CASE Finish(k, c)
    BY <2>3 DEF Finish, Sessions
  <2> QED
    BY <1>4, <2>1, <2>2, <2>3 DEF BorrowStep
<1>5. ASSUME NEW c \in Conns, DialStep(c) PROVE TypeOK'
  <2>1. CASE Connect(c)
    BY <2>1 DEF Connect
  <2>2. CASE AfterConnect(c)
    <3>1. SetReadOnly(session[c]) \in Sessions
      OBVIOUS
    <3>2. session' \in [Conns -> Sessions] /\ session'[c] \in Sessions
      BY <2>2, <3>1 DEF AfterConnect
    <3> QED
      BY <2>2, <3>2 DEF AfterConnect, Start, Park
  <2>3. CASE DialFails(c)
    BY <2>3 DEF DialFails
  <2> QED
    BY <1>5, <2>1, <2>2, <2>3 DEF DialStep
<1>6. ASSUME NEW c \in Conns, HookStep(c) \/ Expire(c) PROVE TypeOK'
  BY <1>6 DEF HookStep, DiscardAll, Reapply, Park, HookFails, Expire
<1>7. CASE Close \/ CloseReturns \/ Stopped
  BY <1>7 DEF Close, CloseReturns, Stopped, vars
<1>8. CASE UNCHANGED vars
  BY <1>8 DEF vars
<1> QED
  BY <1>1, <1>2, <1>3, <1>4, <1>5, <1>6, <1>7, <1>8 DEF Next

(* Every variable keeps its type.                                           *)
THEOREM TypeCorrect == Spec => []TypeOK
<1>1. Init => TypeOK
  BY SessionTypes DEF Init, TypeOK, Pending, Answered
<1> QED
  BY <1>1, TypeStep, PTL DEF Spec

-----------------------------------------------------------------------------
(* A step keeps the stages of a connection and its session in agreement,    *)
(* and starts statements on fresh sessions only.                            *)
LEMMA SessionStep ==
  TypeOK /\ SessionInv /\ StatementsStartFresh /\ [Next]_vars => (SessionInv /\ StatementsStartFresh)'
<1> SUFFICES ASSUME TypeOK, SessionInv, StatementsStartFresh, [Next]_vars
             PROVE  SessionInv' /\ StatementsStartFresh'
  OBVIOUS
<1> USE DEF TypeOK, SessionInv, StatementsStartFresh
<1>1. ASSUME NEW c \in Conns, OpenPool(c) PROVE SessionInv' /\ StatementsStartFresh'
  BY <1>1 DEF OpenPool
<1>2. CASE OpenFails
  BY <1>2 DEF OpenFails
<1>3. ASSUME NEW k \in Calls, CallStep(k) PROVE SessionInv' /\ StatementsStartFresh'
  BY <1>3 DEF CallStep, RefuseEmpty, Submit, TurnAway, ContextDone
<1>4. ASSUME NEW k \in Calls, NEW c \in Conns, BorrowStep(k, c)
      PROVE  SessionInv' /\ StatementsStartFresh'
  <2>1. CASE AcquireIdle(k, c)
    BY <2>1 DEF AcquireIdle, Start
  <2>2. CASE Dial(k, c)
    BY <2>2 DEF Dial
  <2>3. CASE Finish(k, c)
    BY <2>3 DEF Finish
  <2> QED
    BY <1>4, <2>1, <2>2, <2>3 DEF BorrowStep
<1>5. ASSUME NEW c \in Conns, DialStep(c) PROVE SessionInv' /\ StatementsStartFresh'
  <2>1. CASE Connect(c)
    BY <2>1 DEF Connect
  <2>2. CASE AfterConnect(c)
    <3>1. session'[c] = FreshSession
      BY <2>2 DEF AfterConnect, FreshSession
    <3> QED
      BY <2>2, <3>1 DEF AfterConnect, Start, Park
  <2>3. CASE DialFails(c)
    BY <2>3 DEF DialFails
  <2> QED
    BY <1>5, <2>1, <2>2, <2>3 DEF DialStep
<1>6. ASSUME NEW c \in Conns, HookStep(c) PROVE SessionInv' /\ StatementsStartFresh'
  <2>1. CASE DiscardAll(c)
    BY <2>1 DEF DiscardAll
  <2>2. CASE Reapply(c)
    <3>1. session'[c] = FreshSession
      BY <2>2 DEF Reapply, FreshSession
    <3> QED
      BY <2>2, <3>1 DEF Reapply, Park
  <2>3. CASE HookFails(c)
    BY <2>3 DEF HookFails
  <2> QED
    BY <1>6, <2>1, <2>2, <2>3 DEF HookStep
<1>7. ASSUME NEW c \in Conns, Expire(c) PROVE SessionInv' /\ StatementsStartFresh'
  BY <1>7 DEF Expire
<1>8. CASE Close \/ CloseReturns \/ Stopped
  BY <1>8 DEF Close, CloseReturns, Stopped, vars
<1>9. CASE UNCHANGED vars
  BY <1>9 DEF vars
<1> QED
  BY <1>1, <1>2, <1>3, <1>4, <1>5, <1>6, <1>7, <1>8, <1>9 DEF Next

(* A step keeps the slots, their holders and the calls in agreement.        *)
LEMMA HolderStep ==
  TypeOK /\ HolderInv /\ QuietInv /\ [Next]_vars => HolderInv'
<1> SUFFICES ASSUME TypeOK, HolderInv, QuietInv, [Next]_vars PROVE HolderInv'
  OBVIOUS
<1> USE DEF TypeOK, HolderInv
<1>1. ASSUME NEW c \in Conns, OpenPool(c) PROVE HolderInv'
  BY <1>1 DEF OpenPool, QuietInv
<1>2. CASE OpenFails
  BY <1>2 DEF OpenFails
<1>3. ASSUME NEW k \in Calls, CallStep(k) PROVE HolderInv'
  <2>1. CASE RefuseEmpty(k) \/ Submit(k) \/ TurnAway(k)
    BY <2>1 DEF RefuseEmpty, Submit, TurnAway
  <2>2. CASE ContextDone(k)
    BY <2>2 DEF ContextDone
  <2> QED
    BY <1>3, <2>1, <2>2 DEF CallStep
<1>4. ASSUME NEW k \in Calls, NEW c \in Conns, BorrowStep(k, c) PROVE HolderInv'
  <2>1. CASE AcquireIdle(k, c)
    BY <2>1 DEF AcquireIdle, Start
  <2>2. CASE Dial(k, c)
    BY <2>2 DEF Dial
  <2>3. CASE Finish(k, c)
    BY <2>3 DEF Finish, Answered
  <2> QED
    BY <1>4, <2>1, <2>2, <2>3 DEF BorrowStep
<1>5. ASSUME NEW c \in Conns, DialStep(c) PROVE HolderInv'
  <2>1. CASE Connect(c)
    BY <2>1 DEF Connect
  <2>2. CASE AfterConnect(c)
    BY <2>2 DEF AfterConnect, Start, Park
  <2>3. CASE DialFails(c)
    BY <2>3 DEF DialFails
  <2> QED
    BY <1>5, <2>1, <2>2, <2>3 DEF DialStep
<1>6. ASSUME NEW c \in Conns, HookStep(c) \/ Expire(c) PROVE HolderInv'
  BY <1>6 DEF HookStep, DiscardAll, Reapply, Park, HookFails, Expire
<1>7. CASE Close
  BY <1>7 DEF Close
<1>8. CASE CloseReturns \/ Stopped \/ UNCHANGED vars
  BY <1>8 DEF CloseReturns, Stopped, vars
<1> QED
  BY <1>1, <1>2, <1>3, <1>4, <1>5, <1>6, <1>7, <1>8 DEF Next

(* A step keeps a pool that is not open for business without connections.   *)
LEMMA QuietStep == TypeOK /\ QuietInv /\ [Next]_vars => QuietInv'
<1> SUFFICES ASSUME TypeOK, QuietInv, [Next]_vars PROVE QuietInv'
  OBVIOUS
<1> USE DEF TypeOK, QuietInv
<1>1. ASSUME NEW c \in Conns, OpenPool(c) PROVE QuietInv'
  BY <1>1 DEF OpenPool
<1>2. CASE OpenFails
  BY <1>2 DEF OpenFails
<1>3. ASSUME NEW k \in Calls, CallStep(k) PROVE QuietInv'
  BY <1>3 DEF CallStep, RefuseEmpty, Submit, TurnAway, ContextDone
<1>4. ASSUME NEW k \in Calls, NEW c \in Conns, BorrowStep(k, c) PROVE QuietInv'
  BY <1>4 DEF BorrowStep, AcquireIdle, Dial, Finish
<1>5. ASSUME NEW c \in Conns, DialStep(c) PROVE QuietInv'
  BY <1>5 DEF DialStep, Connect, AfterConnect, Park, DialFails
<1>6. ASSUME NEW c \in Conns, HookStep(c) \/ Expire(c) PROVE QuietInv'
  BY <1>6 DEF HookStep, DiscardAll, Reapply, Park, HookFails, Expire
<1>7. CASE Close \/ CloseReturns \/ Stopped \/ UNCHANGED vars
  BY <1>7 DEF Close, CloseReturns, Stopped, vars
<1> QED
  BY <1>1, <1>2, <1>3, <1>4, <1>5, <1>6, <1>7 DEF Next

(* The inductive invariant.                                                 *)
THEOREM Inductive == Spec => []IInv
<1>1. Init => IInv
  BY SessionTypes DEF Init, IInv, TypeOK, StatementsStartFresh, SessionInv, HolderInv, QuietInv
<1>2. IInv /\ [Next]_vars => IInv'
  BY TypeStep, SessionStep, HolderStep, QuietStep DEF IInv
<1> QED
  BY <1>1, <1>2, PTL DEF Spec

-----------------------------------------------------------------------------
(* Every statement starts on the configured session.                        *)
THEOREM FreshStatements == Spec => []StatementsStartFresh
<1>1. IInv => StatementsStartFresh
  BY DEF IInv
<1> QED
  BY <1>1, Inductive, PTL

(* A connection is held by at most one call, and by none while it is reset. *)
THEOREM ExclusiveUse == Spec => []OneCallPerConnection
<1>1. IInv => OneCallPerConnection
  BY DEF IInv, HolderInv, OneCallPerConnection
<1> QED
  BY <1>1, Inductive, PTL

(* A busy connection always has the running call that will give it back.    *)
THEOREM NothingLeaks == Spec => []NoLeakedConnection
<1>1. IInv => NoLeakedConnection
  <2> SUFFICES ASSUME IInv PROVE NoLeakedConnection
    OBVIOUS
  <2> USE DEF IInv, TypeOK, HolderInv
  <2>1. \A c \in Conns : conn[c] = "busy" => \E k \in holder[c] : call[k] = "running"
    OBVIOUS
  <2>2. ASSUME NEW k \in Calls, call[k] = "running"
        PROVE  \E c \in Conns : conn[c] = "busy" /\ \A d \in Conns : k \in holder[d] <=> d = c
    <3>1. PICK c \in Conns : k \in holder[c]
      BY <2>2
    <3>2. conn[c] = "busy"
      BY <2>2, <3>1
    <3>3. \A d \in Conns : k \in holder[d] <=> d = c
      BY <3>1
    <3> QED
      BY <3>2, <3>3
  <2> QED
    BY <2>1, <2>2 DEF NoLeakedConnection
<1> QED
  BY <1>1, Inductive, PTL

(* When Close has returned, no call has a connection.                       *)
THEOREM CloseWaitsForCalls == Spec => []CloseWaits
<1>1. IInv => CloseWaits
  BY DEF IInv, TypeOK, HolderInv, QuietInv, CloseWaits, Pending
<1> QED
  BY <1>1, Inductive, PTL

=============================================================================
