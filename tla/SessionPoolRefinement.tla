------------------------ MODULE SessionPoolRefinement ------------------------
(***************************************************************************)
(* SessionPool implements PrivateSessions: sharing, resetting and dropping  *)
(* connections is invisible to the calls.                                   *)
(***************************************************************************)
EXTENDS SessionPoolProofs, FiniteSetTheorems

(* The phase a caller sees.                                                 *)
Phase == [k \in Calls |-> IF call[k] \in {"acquiring", "dialing"} THEN "waiting" ELSE call[k]]

(* While some slot is not busy, fewer statements run than there are slots.  *)
LEMMA RoomToBegin ==
  ASSUME IInv, NEW c \in Conns, conn[c] # "busy"
  PROVE  Cardinality(Promise!Running) < Cardinality(Conns)
<1> USE DEF IInv, TypeOK, HolderInv
<1> DEFINE Free == Conns \ {c}
           f == [k \in Promise!Running |-> CHOOSE d \in Conns : k \in holder[d]]
<1>1. \A k \in Promise!Running : k \in Calls /\ call[k] = "running"
  BY DEF Promise!Running
<1>2. ASSUME NEW k \in Promise!Running PROVE f[k] \in Conns /\ k \in holder[f[k]]
  <2>1. \E d \in Conns : k \in holder[d]
    BY <1>1
  <2> QED
    BY <2>1
<1>3. \A k \in Promise!Running : f[k] \in Free
  <2> SUFFICES ASSUME NEW k \in Promise!Running PROVE f[k] # c
    BY <1>2
  <2> HIDE DEF f
  <2> QED
    BY <1>1, <1>2
<1>4. \A k, l \in Promise!Running : f[k] = f[l] => k = l
  <2> HIDE DEF f
  <2> QED
    BY <1>2
<1>5. f \in Injection(Promise!Running, Free)
  <2>1. f \in [Promise!Running -> Free]
    BY <1>3
  <2> HIDE DEF f
  <2> QED
    BY <2>1, <1>4 DEF Injection, IsInjective
<1>6. IsFiniteSet(Conns) /\ Cardinality(Conns) \in Nat
  BY PoolAssumption, FS_CardinalityType
<1>7. IsFiniteSet(Free) /\ Cardinality(Free) = Cardinality(Conns) - 1
  BY <1>6, FS_RemoveElement
<1>8. IsFiniteSet(Promise!Running) /\ Cardinality(Promise!Running) <= Cardinality(Free)
  <2> HIDE DEF f, Free
  <2> QED
    BY <1>5, <1>7, FS_Injection
<1>9. Cardinality(Promise!Running) \in Nat
  BY <1>8, FS_CardinalityType
<1> QED
  BY <1>6, <1>7, <1>8, <1>9

(* The promise counts as FiniteSets does.                                   *)
LEMMA SameCount == Promise!Cardinality(Promise!Running) = Cardinality(Promise!Running)
BY DEF Promise!Cardinality, Cardinality, Promise!IsFiniteSet, IsFiniteSet

(* The initial states agree.                                                *)
LEMMA InitRefines == Init => Promise!PInit
BY DEF Init, Promise!PInit

(* A statement that starts is a Begin of the promise.                       *)
LEMMA StartRefines ==
  ASSUME IInv, pool \notin {"closed", "failed"}, pool' = pool,
         NEW k \in Calls, call[k] \in {"acquiring", "dialing"},
         NEW c \in Conns, conn[c] # "busy",
         Start(k, FreshSession)
  PROVE  Promise!Begin(k)
<1>1. Cardinality(Promise!Running) < Cardinality(Conns)
  BY RoomToBegin
<1>2. startedOn' = [startedOn EXCEPT ![k] = {FreshSession}]
  <2>1. startedOn[k] \subseteq {FreshSession}
    BY DEF IInv, StatementsStartFresh
  <2>2. startedOn[k] \cup {FreshSession} = {FreshSession}
    BY <2>1
  <2> QED
    BY <2>2 DEF Start
<1>3. Phase[k] = "waiting" /\ Phase' = [Phase EXCEPT ![k] = "running"]
  BY DEF Start, Phase, IInv, TypeOK
<1> QED
  BY <1>1, <1>2, <1>3, SameCount DEF Promise!Begin, Phase

(* A step that fails one call and leaves the others alone is a Fail.        *)
LEMMA FailRefines ==
  ASSUME TypeOK, pool' = pool, UNCHANGED startedOn,
         NEW k \in Calls, call[k] \in {"new"} \cup Pending,
         call' = [call EXCEPT ![k] = "failed"]
  PROVE  Promise!Fail(k)
BY DEF TypeOK, Promise!Fail, Pending

(* A step that keeps what the caller sees is a stuttering step.             *)
LEMMA StutterRefines ==
  ASSUME UNCHANGED <<call, startedOn>>,
         pool' \in {"closed", "failed"} <=> pool \in {"closed", "failed"}
  PROVE  UNCHANGED Promise!pvars
BY DEF Promise!pvars

(* Every step is a step of the promise or leaves it as it was.              *)
LEMMA StepRefines == IInv /\ [Next]_vars => [Promise!PNext]_(Promise!pvars)
<1> SUFFICES ASSUME IInv, [Next]_vars PROVE Promise!PNext \/ UNCHANGED Promise!pvars
  OBVIOUS
<1> USE DEF IInv, TypeOK
<1>1. ASSUME NEW c \in Conns, OpenPool(c) PROVE UNCHANGED Promise!pvars
  BY <1>1, StutterRefines DEF OpenPool
<1>2. CASE OpenFails \/ CloseReturns
  <2>1. Promise!Running = {}
    BY <1>2 DEF OpenFails, CloseReturns, Promise!Running, HolderInv, QuietInv
  <2>2. Promise!ShutDown
    BY <1>2, <2>1 DEF OpenFails, CloseReturns, Promise!ShutDown
  <2> QED
    BY <2>2 DEF Promise!PNext
<1>3. ASSUME NEW k \in Calls, CallStep(k) PROVE Promise!PNext
  <2>1. CASE Submit(k)
    <3>1. Promise!Ask(k)
      BY <2>1 DEF Submit, Promise!Ask
    <3> QED
      BY <3>1 DEF Promise!PNext
  <2>2. CASE RefuseEmpty(k) \/ TurnAway(k) \/ ContextDone(k)
    <3>1. Promise!Fail(k)
      BY <2>2, FailRefines DEF RefuseEmpty, TurnAway, ContextDone, Pending
    <3> QED
      BY <3>1 DEF Promise!PNext
  <2> QED
    BY <1>3, <2>1, <2>2 DEF CallStep
<1>4. ASSUME NEW k \in Calls, NEW c \in Conns, BorrowStep(k, c)
      PROVE  Promise!PNext \/ UNCHANGED Promise!pvars
  <2>1. CASE AcquireIdle(k, c)
    <3>1. Start(k, FreshSession)
      BY <2>1 DEF AcquireIdle, SessionInv
    <3>2. Promise!Begin(k)
      BY <2>1, <3>1, StartRefines DEF AcquireIdle
    <3> QED
      BY <3>2 DEF Promise!PNext
  <2>2. CASE Dial(k, c)
    BY <2>2 DEF Dial, Promise!pvars
  <2>3. CASE Finish(k, c)
    <3>1. call[k] = "running"
      BY <2>3 DEF Finish, HolderInv
    <3>2. Promise!Succeed(k) \/ Promise!Fail(k)
      BY <2>3, <3>1 DEF Finish, Answered, Promise!Succeed, Promise!Fail
    <3> QED
      BY <3>2 DEF Promise!PNext
  <2> QED
    BY <1>4, <2>1, <2>2, <2>3 DEF BorrowStep
<1>5. ASSUME NEW c \in Conns, DialStep(c) PROVE Promise!PNext \/ UNCHANGED Promise!pvars
  <2>1. CASE Connect(c)
    BY <2>1, StutterRefines DEF Connect
  <2>2. CASE AfterConnect(c)
    <3>1. session'[c] = FreshSession
      BY <2>2 DEF AfterConnect, FreshSession, SessionInv
    <3>2. ASSUME NEW k \in holder[c], Start(k, session'[c]) PROVE Promise!PNext
      <4>1. k \in Calls /\ call[k] = "dialing" /\ conn[c] # "busy"
        BY <2>2 DEF AfterConnect, HolderInv
      <4>2. pool \notin {"closed", "failed"} /\ pool' = pool
        BY <2>2 DEF AfterConnect, QuietInv
      <4>3. Promise!Begin(k)
        BY <3>1, <3>2, <4>1, <4>2, StartRefines
      <4> QED
        BY <4>1, <4>3 DEF Promise!PNext
    <3>3. CASE UNCHANGED <<call, startedOn>>
      BY <2>2, <3>3, StutterRefines DEF AfterConnect
    <3> QED
      BY <2>2, <3>2, <3>3 DEF AfterConnect
  <2>3. CASE DialFails(c)
    <3>1. CASE holder[c] = {}
      <4>1. call' = call
        BY <2>3, <3>1 DEF DialFails
      <4> QED
        BY <2>3, <4>1, StutterRefines DEF DialFails
    <3>2. ASSUME NEW k \in holder[c] PROVE Promise!PNext
      <4>1. k \in Calls /\ call[k] = "dialing" /\ \A l \in holder[c] : l = k
        BY <2>3, <3>2 DEF DialFails, HolderInv
      <4>2. call' = [call EXCEPT ![k] = "failed"]
        BY <2>3, <3>2, <4>1 DEF DialFails
      <4>3. Promise!Fail(k)
        BY <2>3, <4>1, <4>2, FailRefines DEF DialFails, Pending
      <4> QED
        BY <4>1, <4>3 DEF Promise!PNext
    <3> QED
      BY <3>1, <3>2
  <2> QED
    BY <1>5, <2>1, <2>2, <2>3 DEF DialStep
<1>6. ASSUME NEW c \in Conns, HookStep(c) \/ Expire(c) PROVE UNCHANGED Promise!pvars
  BY <1>6, StutterRefines DEF HookStep, DiscardAll, Reapply, HookFails, Expire
<1>7. CASE Close \/ Stopped \/ UNCHANGED vars
  BY <1>7, StutterRefines DEF Close, Stopped, vars
<1> QED
  BY <1>1, <1>2, <1>3, <1>4, <1>5, <1>6, <1>7 DEF Next

(* The pool keeps the promise of a private session for every call.          *)
THEOREM Refinement == Spec => KeepsPromise
<1> QED
  BY InitRefines, StepRefines, Inductive, PTL DEF Spec, KeepsPromise, Promise!PSpec

=============================================================================
