------------------------ MODULE ServerLifecycleProofs ------------------------
(***************************************************************************)
(* Proofs about ServerLifecycle for every set of requests, every number of  *)
(* queries that a handler may make, with or without a query timeout.        *)
(***************************************************************************)
EXTENDS ServerLifecycle, SequenceTheorems, TLAPS

-----------------------------------------------------------------------------
(* The stack of cleanups.                                                   *)
Cleanups == {"sync", "stop", "otel", "db"}

(* The cleanup that stands at each height.                                  *)
LEMMA Heights == Order[0 + 1] = "sync" /\ Order[1 + 1] = "stop" /\ Order[2 + 1] = "otel" /\ Order[3 + 1] = "db"
BY DEF Order

(* Pushing the cleanup of the next height keeps the order.                  *)
LEMMA Push ==
  ASSUME NEW s \in Seq(Cleanups), Stacked(s), Len(s) # 4,
         NEW x \in Cleanups, x = Order[Len(s) + 1]
  PROVE  Append(s, x) \in Seq(Cleanups) /\ Len(Append(s, x)) = Len(s) + 1 /\ Stacked(Append(s, x))
BY AppendProperties DEF Stacked

(* So does a pop.                                                           *)
LEMMA Pops ==
  ASSUME NEW s \in Seq(Cleanups), Stacked(s), s # <<>>,
         NEW t, t = SubSeq(s, 1, Len(s) - 1)
  PROVE  t \in Seq(Cleanups) /\ Len(t) = Len(s) - 1 /\ Stacked(t)
<1>1. Len(s) \in Nat \ {0} /\ \A i \in 1..Len(s) : s[i] \in Cleanups
  BY EmptySeq, ElementOfSeq
<1>2. \A i \in 1..(Len(s) - 1) : s[i] \in Cleanups
  BY <1>1
<1>3. t \in Seq(Cleanups) /\ Len(t) = Len(s) - 1 /\ \A i \in 1..Len(t) : t[i] = s[i]
  <2> DEFINE n == Len(s) - 1
  <2>1. n \in Nat /\ n \in Int /\ 1 \in Int /\ t = SubSeq(s, 1, n)
    BY <1>1
  <2> HIDE DEF n
  <2>2. t \in Seq(Cleanups) /\ Len(t) = n
    <3>1. /\ SubSeq(s, 1, n) \in Seq(Cleanups)
          /\ Len(SubSeq(s, 1, n)) = IF 1 <= n THEN n - 1 + 1 ELSE 0
      BY <1>2, <2>1, SubSeqProperties DEF n
    <3>2. (IF 1 <= n THEN n - 1 + 1 ELSE 0) = n
      BY <2>1
    <3> QED
      BY <2>1, <3>1, <3>2
  <2>3. \A i \in 1..n : t[i] = s[i]
    BY <1>2, <2>1, SubSeqProperties DEF n
  <2> QED
    BY <2>2, <2>3 DEF n
<1> QED
  BY <1>1, <1>3 DEF Stacked

(* The cleanup on top tells the height of the stack.                        *)
LEMMA Tops ==
  ASSUME NEW s \in Seq(Cleanups), Stacked(s), s # <<>>
  PROVE  /\ Len(s) \in 1..4
         /\ s[Len(s)] = "sync" => Len(s) = 1
         /\ s[Len(s)] = "stop" => Len(s) = 2
         /\ s[Len(s)] = "otel" => Len(s) = 3
         /\ s[Len(s)] = "db" => Len(s) = 4
<1>1. Len(s) \in Nat \ {0}
  BY EmptySeq
<1>2. Len(s) \in 1..4
  BY <1>1 DEF Stacked
<1> QED
  BY <1>2, Heights DEF Stacked

(* What a push and a pop do to the stack of run, at the stage or with the   *)
(* cleanup that they are about.                                             *)
LEMMA Deferring ==
  ASSUME TypeOK, StackInv, NEW x \in Cleanups, x = Order[Len(defers) + 1], Len(defers) # 4, Defer(x)
  PROVE  defers' \in Seq(Cleanups) /\ Len(defers') = Len(defers) + 1 /\ Stacked(defers')
BY Push DEF TypeOK, StackTypes, StackInv, Defer, Cleanups

LEMMA Popping ==
  ASSUME TypeOK, StackInv, NEW x \in Cleanups, Unwinding(x), Pop
  PROVE  /\ defers' \in Seq(Cleanups) /\ Len(defers') = Len(defers) - 1 /\ Stacked(defers')
         /\ Len(defers) \in 1..4
         /\ x = "sync" => Len(defers) = 1
         /\ x = "stop" => Len(defers) = 2
         /\ x = "otel" => Len(defers) = 3
         /\ x = "db" => Len(defers) = 4
<1>1. defers \in Seq(Cleanups) /\ Stacked(defers) /\ defers # <<>> /\ defers[Len(defers)] = x
  BY DEF TypeOK, StackTypes, StackInv, Unwinding, Deferred, Cleanups
<1> QED
  BY <1>1, Tops, Pops DEF Pop

(* What the stack is before and after a step, told in the same words.       *)
LEMMA Standing ==
  ASSUME TypeOK, StackInv
  PROVE  defers \in Seq(Cleanups) /\ Len(defers) \in 0..4 /\ Stacked(defers)
<1>1. defers \in Seq(Cleanups) /\ Stacked(defers)
  BY DEF TypeOK, StackTypes, StackInv, Cleanups
<1> QED
  BY <1>1 DEF Stacked

LEMMA Resting ==
  ASSUME TypeOK, StackInv, UNCHANGED defers
  PROVE  /\ defers' \in Seq(Cleanups) /\ Len(defers') \in 0..4 /\ Stacked(defers')
         /\ Len(defers') = Len(defers)
BY Standing

-----------------------------------------------------------------------------
(* Types and the stack.                                                     *)

(* A step keeps the stack in order, and its height in step with main.       *)
LEMMA StackStep ==
  TypeOK /\ StackInv /\ [Next]_vars =>
    StackInv' /\ defers' \in Seq(Cleanups) /\ Len(defers') \in 0..4
<1> DEFINE Goal == StackInv' /\ defers' \in Seq(Cleanups) /\ Len(defers') \in 0..4
<1> SUFFICES ASSUME TypeOK, StackInv, [Next]_vars PROVE Goal
  OBVIOUS
<1> USE DEF startup, http, work, StackInv
<1>0. defers \in Seq(Cleanups) /\ Len(defers) \in 0..4
  BY Standing
<1>1. CASE exit = "running" /\ (Boot \/ BootFails)
  <2>1. UNCHANGED defers
    BY <1>1 DEF Boot, BootFails
  <2> QED
    BY <1>0, <1>1, <2>1, Resting DEF Boot, BootFails, Terminate
<1>2. CASE exit = "running" /\ OpenLog
  <2>1. CASE pc' = "signals" /\ Defer("sync")
    <3>0. Len(defers) = 0 /\ Order[Len(defers) + 1] = "sync"
      BY <1>2, Heights DEF OpenLog
    <3>1. defers' \in Seq(Cleanups) /\ Len(defers') = 1 /\ Stacked(defers')
      BY <1>2, <2>1, <3>0, Deferring DEF OpenLog, Cleanups
    <3> QED
      BY <1>2, <2>1, <3>1 DEF OpenLog
  <2>2. CASE pc' = "unwind" /\ UNCHANGED defers
    BY <1>0, <1>2, <2>2, Resting DEF OpenLog
  <2> QED
    BY <1>2, <2>1, <2>2 DEF OpenLog, Return
<1>3. CASE exit = "running" /\ CatchSignals
  <2>0. Len(defers) = 1 /\ Order[Len(defers) + 1] = "stop"
    BY <1>3, Heights DEF CatchSignals
  <2>1. defers' \in Seq(Cleanups) /\ Len(defers') = 2 /\ Stacked(defers')
    BY <1>3, <2>0, Deferring DEF CatchSignals, Cleanups
  <2> QED
    BY <1>3, <2>1 DEF CatchSignals
<1>4. CASE exit = "running" /\ SetupOTel
  <2>1. CASE pc' = "db" /\ Defer("otel")
    <3>0. Len(defers) = 2 /\ Order[Len(defers) + 1] = "otel"
      BY <1>4, Heights DEF SetupOTel
    <3>1. defers' \in Seq(Cleanups) /\ Len(defers') = 3 /\ Stacked(defers')
      BY <1>4, <2>1, <3>0, Deferring DEF SetupOTel, Cleanups
    <3> QED
      BY <1>4, <2>1, <3>1 DEF SetupOTel
  <2>2. CASE pc' = "unwind" /\ UNCHANGED defers
    BY <1>0, <1>4, <2>2, Resting DEF SetupOTel
  <2> QED
    BY <1>4, <2>1, <2>2 DEF SetupOTel, Return
<1>5. CASE exit = "running" /\ OpenDB
  <2>1. CASE pc' = "start" /\ Defer("db")
    <3>0. Len(defers) = 3 /\ Order[Len(defers) + 1] = "db"
      BY <1>5, Heights DEF OpenDB
    <3>1. defers' \in Seq(Cleanups) /\ Len(defers') = 4 /\ Stacked(defers')
      BY <1>5, <2>1, <3>0, Deferring DEF OpenDB, Cleanups
    <3> QED
      BY <1>5, <2>1, <3>1 DEF OpenDB
  <2>2. CASE pc' = "unwind" /\ UNCHANGED defers
    BY <1>0, <1>5, <2>2, Resting DEF OpenDB
  <2> QED
    BY <1>5, <2>1, <2>2 DEF OpenDB, Return
<1>6. CASE exit = "running" /\ (StartTransport \/ BeginCloseDB)
  <2>1. UNCHANGED <<defers, exit>> /\ (pc' = pc \/ (pc = "start" /\ pc' = "wait"))
    BY <1>6 DEF StartTransport, BeginCloseDB
  <2> QED
    BY <1>0, <2>1, Resting
<1>7. CASE exit = "running" /\ (StdioReturns \/ GroupReturns)
  <2>1. UNCHANGED <<defers, exit>> /\ pc' = "unwind" /\ pc = "wait"
    BY <1>7 DEF StdioReturns, GroupReturns, Return
  <2> QED
    BY <1>0, <1>7, <2>1, Resting
<1>8. CASE exit = "running" /\ (CloseDB \/ ShutdownOTel \/ StopSignals \/ SyncLog)
  <2>1. \E x \in Cleanups : Unwinding(x) /\ Pop /\ UNCHANGED <<pc, exit>>
    BY <1>8 DEF CloseDB, ShutdownOTel, StopSignals, SyncLog, Cleanups
  <2>2. defers' \in Seq(Cleanups) /\ Len(defers') = Len(defers) - 1 /\ Stacked(defers') /\ Len(defers) \in 1..4
    BY <2>1, Popping
  <2>3. pc = "unwind"
    BY <2>1 DEF Unwinding
  <2> QED
    BY <1>8, <2>1, <2>2, <2>3
<1>9. CASE exit = "running" /\ (RunReturns \/ Report)
  <2>1. UNCHANGED defers /\ Len(defers) = 0
    BY <1>9, EmptySeq DEF RunReturns, Report
  <2> QED
    BY <1>0, <1>9, <2>1, Resting DEF RunReturns, Report, Terminate
<1>10. CASE exit = "running" /\ Signal
  <2>1. UNCHANGED defers
    BY <1>10 DEF Signal
  <2> QED
    BY <1>0, <1>10, <2>1, Resting DEF Signal, Terminate
<1>11. CASE UNCHANGED <<defers, pc, exit>>
  BY <1>0, <1>11, Resting
<1>12. CASE exit = "running" /\ (StdioStops \/ GroupStep \/ Stream \/ \E r \in Requests : HandlerStep(r))
  <2>1. UNCHANGED <<defers, pc, exit>>
    BY <1>12 DEF StdioStops, GroupStep, Bind, ServeFails, ServeCloses, StartDrain, Drained, DrainTimesOut,
                 Stream, HandlerStep, Accept, BeginQuery, EndQuery, EndSpan, Ends, Respond, HangUp
  <2> QED
    BY <2>1, <1>11
<1> QED
  <2>1. CASE Gone \/ UNCHANGED vars
    BY <2>1, <1>11 DEF Gone, vars
  <2> QED
    BY <1>1, <1>2, <1>3, <1>4, <1>5, <1>6, <1>7, <1>8, <1>9, <1>10, <1>12, <2>1 DEF Next, MainStep

(* A step keeps every variable in its type.                                 *)
LEMMA TypeStep == TypeOK /\ StackInv /\ [Next]_vars => TypeOK'
<1> SUFFICES ASSUME TypeOK, StackInv, [Next]_vars
             PROVE  MainTypes' /\ HeldTypes' /\ ServingTypes' /\ WorkTypes'
  BY StackStep DEF TypeOK, StackTypes, Cleanups
<1> DEFINE Main == <<cfg, pc, err, ctxDone, reported, exit>>
           Held == <<caught, otel, db>>
           Serving == <<listener, serve, drain, groupErr, timedOut>>
           Work == <<req, queries, lost, gone, stream>>
<1>1. MainTypes /\ HeldTypes /\ ServingTypes /\ WorkTypes
  BY DEF TypeOK
<1>2. /\ UNCHANGED Main => MainTypes'
      /\ UNCHANGED Held => HeldTypes'
      /\ UNCHANGED Serving => ServingTypes'
      /\ UNCHANGED Work => WorkTypes'
  <2>1. UNCHANGED Main => MainTypes'
    BY <1>1 DEF MainTypes
  <2>2. UNCHANGED Held => HeldTypes'
    BY <1>1 DEF HeldTypes
  <2>3. UNCHANGED Serving => ServingTypes'
    BY <1>1 DEF ServingTypes
  <2>4. UNCHANGED Work => WorkTypes'
    BY <1>1 DEF WorkTypes
  <2> QED
    BY <2>1, <2>2, <2>3, <2>4
<1> USE <1>1
<1>3. CASE Boot \/ BootFails \/ OpenLog \/ CatchSignals \/ SetupOTel \/ OpenDB
  <2>1. UNCHANGED Serving /\ UNCHANGED Work
    BY <1>3 DEF Boot, BootFails, OpenLog, CatchSignals, SetupOTel, OpenDB, http, work, clients
  <2>2. HeldTypes'
    BY <1>3 DEF Boot, BootFails, OpenLog, CatchSignals, SetupOTel, OpenDB, startup, HeldTypes
  <2>3. MainTypes'
    BY <1>3 DEF Boot, BootFails, OpenLog, CatchSignals, SetupOTel, OpenDB, MainTypes, Terminate, Return
  <2> QED
    BY <1>2, <2>1, <2>2, <2>3
<1>4. CASE StartTransport \/ StdioStops \/ GroupStep
  <2>1. UNCHANGED Held /\ UNCHANGED Work /\ UNCHANGED <<cfg, err, ctxDone, reported, exit>> /\ pc' \in {pc, "wait"}
    BY <1>4 DEF StartTransport, StdioStops, GroupStep, Bind, ServeFails, ServeCloses, StartDrain, Drained,
                DrainTimesOut, startup, work, clients
  <2>2. ServingTypes'
    BY <1>4 DEF StartTransport, StdioStops, GroupStep, Bind, ServeFails, ServeCloses, StartDrain, Drained,
                DrainTimesOut, GroupError, ServingTypes
  <2> QED
    BY <1>2, <2>1, <2>2 DEF MainTypes
<1>5. CASE StdioReturns \/ GroupReturns \/ RunReturns \/ Report \/ Signal
  <2>1. UNCHANGED Held /\ UNCHANGED Serving /\ UNCHANGED Work
    BY <1>5 DEF StdioReturns, GroupReturns, RunReturns, Report, Signal, startup, http, work, clients
  <2>2. MainTypes'
    BY <1>5 DEF StdioReturns, GroupReturns, RunReturns, Report, Signal, Return, Terminate, MainTypes, ServingTypes
  <2> QED
    BY <1>2, <2>1, <2>2
<1>6. CASE BeginCloseDB \/ CloseDB \/ ShutdownOTel \/ StopSignals \/ SyncLog
  <2>1. UNCHANGED Serving /\ UNCHANGED Work /\ UNCHANGED <<cfg, pc, err, reported, exit>> /\ ctxDone' \in {ctxDone, TRUE}
    BY <1>6 DEF BeginCloseDB, CloseDB, ShutdownOTel, StopSignals, SyncLog, http, work, clients
  <2>2. HeldTypes'
    BY <1>6 DEF BeginCloseDB, CloseDB, ShutdownOTel, StopSignals, SyncLog, HeldTypes
  <2> QED
    BY <1>2, <2>1, <2>2 DEF MainTypes
<1>7. CASE Stream \/ \E r \in Requests : HandlerStep(r)
  <2>1. UNCHANGED Main /\ UNCHANGED Held /\ UNCHANGED Serving
    BY <1>7 DEF Stream, HandlerStep, Accept, BeginQuery, EndQuery, EndSpan, Ends, Respond, HangUp, startup, http
  <2>2. ASSUME Stream PROVE WorkTypes'
    BY <2>2 DEF Stream, WorkTypes
  <2>3. ASSUME NEW r \in Requests, Accept(r) \/ EndQuery(r) \/ EndSpan(r) \/ Respond(r) \/ HangUp(r) PROVE WorkTypes'
    BY <2>3 DEF Accept, EndQuery, EndSpan, Ends, Respond, HangUp, WorkTypes, clients
  <2>4. ASSUME NEW r \in Requests, BeginQuery(r) PROVE WorkTypes'
    <3>1. queries[r] \in 0..MaxQueries /\ queries[r] < MaxQueries
      BY <2>4 DEF BeginQuery, WorkTypes
    <3>2. queries[r] + 1 \in 0..MaxQueries
      BY <3>1, LifecycleAssumption
    <3> QED
      BY <2>4, <3>2 DEF BeginQuery, WorkTypes, clients
  <2> QED
    BY <1>2, <1>7, <2>1, <2>2, <2>3, <2>4 DEF HandlerStep
<1>8. CASE Gone \/ UNCHANGED vars
  <2>1. UNCHANGED Main /\ UNCHANGED Held /\ UNCHANGED Serving /\ UNCHANGED Work
    BY <1>8 DEF Gone, vars, startup, http, work, clients
  <2> QED
    BY <1>2, <2>1
<1> QED
  BY <1>3, <1>4, <1>5, <1>6, <1>7, <1>8 DEF Next, MainStep

-----------------------------------------------------------------------------
(* What is held.                                                            *)

(* A step keeps what is held and the stack that releases it in agreement.   *)
LEMMA HeldStep == TypeOK /\ StackInv /\ HeldInv /\ [Next]_vars => HeldInv'
<1> SUFFICES ASSUME TypeOK, StackInv, HeldInv, [Next]_vars PROVE HeldInv'
  OBVIOUS
<1>0. /\ Len(defers) \in 0..4 /\ Len(defers') \in 0..4
      /\ StackInv'
      /\ UNCHANGED defers => Len(defers') = Len(defers)
  BY StackStep, Standing
<1> USE <1>0 DEF HeldInv
<1>1. CASE Boot \/ BootFails
  BY <1>1 DEF Boot, BootFails, Terminate, startup, StackInv
<1>2. CASE OpenLog \/ CatchSignals \/ SetupOTel \/ OpenDB
  <2>1. Len(defers) = IF pc = "logger" THEN 0 ELSE IF pc = "signals" THEN 1 ELSE IF pc = "otel" THEN 2 ELSE 3
    BY <1>2 DEF OpenLog, CatchSignals, SetupOTel, OpenDB, StackInv
  <2>2. pc' = "unwind" => Len(defers') = Len(defers)
    BY <1>2 DEF OpenLog, CatchSignals, SetupOTel, OpenDB
  <2>3. /\ pc' = "signals" => Len(defers') = 1
        /\ pc' = "otel" => Len(defers') = 2
        /\ pc' = "db" => Len(defers') = 3
        /\ pc' = "start" => Len(defers') = 4
    BY DEF StackInv
  <2>4. CASE OpenLog
    BY <2>1, <2>2, <2>3, <2>4 DEF OpenLog, Return
  <2>5. CASE CatchSignals
    BY <2>1, <2>2, <2>3, <2>5 DEF CatchSignals
  <2>6. CASE SetupOTel
    <3>1. CASE pc' = "db"
      <4>1. otel' \in {"up", "off"} /\ UNCHANGED <<caught, db, reported, exit>>
        BY <2>6, <3>1 DEF SetupOTel, Return
      <4> QED
        BY <2>1, <2>3, <2>6, <3>1, <4>1 DEF SetupOTel
    <3>2. CASE pc' = "unwind"
      BY <2>1, <2>2, <2>6, <3>2 DEF SetupOTel
    <3> QED
      BY <2>6, <3>1, <3>2 DEF SetupOTel, Return
  <2>7. CASE OpenDB
    BY <2>1, <2>2, <2>3, <2>7 DEF OpenDB, Return
  <2> QED
    BY <1>2, <2>4, <2>5, <2>6, <2>7
<1>4. CASE StartTransport \/ StdioReturns \/ GroupReturns
  BY <1>4 DEF StartTransport, StdioReturns, GroupReturns, Return, startup, StackInv
<1>5. CASE BeginCloseDB
  BY <1>5, Tops, Standing DEF BeginCloseDB, Unwinding
<1>6. ASSUME NEW x \in Cleanups, Unwinding(x), Pop
      PROVE  /\ x = "sync" => Len(defers) = 1 /\ Len(defers') = 0
             /\ x = "stop" => Len(defers) = 2 /\ Len(defers') = 1
             /\ x = "otel" => Len(defers) = 3 /\ Len(defers') = 2
             /\ x = "db" => Len(defers) = 4 /\ Len(defers') = 3
  <2>1. /\ Len(defers') = Len(defers) - 1
        /\ x = "sync" => Len(defers) = 1
        /\ x = "stop" => Len(defers) = 2
        /\ x = "otel" => Len(defers) = 3
        /\ x = "db" => Len(defers) = 4
    BY <1>6, Popping
  <2> QED
    BY <2>1
<1>7. CASE CloseDB \/ ShutdownOTel \/ StopSignals \/ SyncLog
  <2>1. CASE CloseDB
    <3>1. Len(defers) = 4 /\ Len(defers') = 3
      BY <2>1, <1>6 DEF CloseDB, Cleanups
    <3> QED
      BY <2>1, <3>1 DEF CloseDB, Unwinding
  <2>2. CASE ShutdownOTel
    <3>1. Len(defers) = 3 /\ Len(defers') = 2
      BY <2>2, <1>6 DEF ShutdownOTel, Cleanups
    <3> QED
      BY <2>2, <3>1 DEF ShutdownOTel, Unwinding
  <2>3. CASE StopSignals
    <3>1. Len(defers) = 2 /\ Len(defers') = 1
      BY <2>3, <1>6 DEF StopSignals, Cleanups
    <3> QED
      BY <2>3, <3>1 DEF StopSignals, Unwinding
  <2>4. CASE SyncLog
    <3>1. Len(defers) = 1 /\ Len(defers') = 0
      BY <2>4, <1>6 DEF SyncLog, Cleanups
    <3> QED
      BY <2>4, <3>1 DEF SyncLog, Unwinding
  <2> QED
    BY <1>7, <2>1, <2>2, <2>3, <2>4
<1>8. CASE RunReturns \/ Report \/ Signal
  BY <1>8 DEF RunReturns, Report, Signal, Terminate, startup, StackInv
<1>9. CASE UNCHANGED <<defers, pc, exit, caught, otel, db, reported>>
  BY <1>9
<1>10. CASE StdioStops \/ GroupStep \/ Stream \/ Gone \/ UNCHANGED vars \/ \E r \in Requests : HandlerStep(r)
  <2>1. UNCHANGED <<defers, pc, exit, caught, otel, db, reported>>
    BY <1>10 DEF StdioStops, GroupStep, Bind, ServeFails, ServeCloses, StartDrain, Drained, DrainTimesOut,
                 Stream, HandlerStep, Accept, BeginQuery, EndQuery, EndSpan, Ends, Respond, HangUp, Gone, vars, startup
  <2> QED
    BY <2>1, <1>9
<1> QED
  BY <1>1, <1>2, <1>4, <1>5, <1>7, <1>8, <1>10 DEF Next, MainStep

(* Handlers and clients change nothing else than their own state.           *)
LEMMA WorkFrame ==
  ASSUME Stream \/ \E r \in Requests : HandlerStep(r)
  PROVE  UNCHANGED <<cfg, pc, err, ctxDone, caught, defers, otel, db, listener, serve, drain, groupErr, timedOut,
                     reported, exit>>
BY DEF Stream, HandlerStep, Accept, BeginQuery, EndQuery, EndSpan, Ends, Respond, HangUp, startup, http

(* Nobody else changes theirs.                                              *)
LEMMA MainFrame ==
  ASSUME [Next]_vars, ~ \E r \in Requests : HandlerStep(r)
  PROVE  UNCHANGED <<req, queries, lost, gone>>
<1>1. CASE Boot \/ BootFails \/ OpenLog \/ CatchSignals \/ SetupOTel \/ OpenDB \/ StartTransport
  BY <1>1 DEF Boot, BootFails, OpenLog, CatchSignals, SetupOTel, OpenDB, StartTransport, work, clients
<1>2. CASE StdioStops \/ StdioReturns \/ GroupStep \/ GroupReturns \/ Signal \/ Stream
  BY <1>2 DEF StdioStops, StdioReturns, GroupStep, Bind, ServeFails, ServeCloses, StartDrain, Drained, DrainTimesOut,
              GroupReturns, Signal, Stream, work, clients
<1>3. CASE BeginCloseDB \/ CloseDB \/ ShutdownOTel \/ StopSignals \/ SyncLog \/ RunReturns \/ Report
  BY <1>3 DEF BeginCloseDB, CloseDB, ShutdownOTel, StopSignals, SyncLog, RunReturns, Report, work, clients
<1>4. CASE Gone \/ UNCHANGED vars
  BY <1>4 DEF Gone, vars, work, clients
<1> QED
  BY <1>1, <1>2, <1>3, <1>4 DEF Next, MainStep

(* Only a pool that is open or waiting to close has lent a connection.      *)
LEMMA QueryStep == TypeOK /\ HeldInv /\ QueryInv /\ [Next]_vars => QueryInv'
<1> SUFFICES ASSUME TypeOK, HeldInv, QueryInv, [Next]_vars PROVE QueryInv'
  OBVIOUS
<1> USE DEF QueryInv
<1>1. ASSUME NEW r \in Requests, HandlerStep(r) PROVE QueryInv'
  <2>1. UNCHANGED db
    BY <1>1, WorkFrame
  <2>2. req \in [Requests -> {"none", "handling", "querying", "returning", "ended"}]
    BY DEF TypeOK, WorkTypes
  <2> QED
    BY <1>1, <2>1, <2>2 DEF HandlerStep, Accept, BeginQuery, EndQuery, EndSpan, Ends, Respond, HangUp
<1>2. CASE ~ \E r \in Requests : HandlerStep(r)
  <2>1. UNCHANGED req
    BY <1>2, MainFrame
  <2>2. CASE CloseDB
    BY <2>1, <2>2 DEF CloseDB
  <2>3. CASE ~CloseDB
    <3>1. db' = db \/ db' \in {"open", "closing"}
      BY <1>2, <2>3 DEF Next, MainStep, Boot, BootFails, OpenLog, CatchSignals, SetupOTel, OpenDB, StartTransport,
         StdioStops, StdioReturns, GroupStep, Bind, ServeFails, ServeCloses, StartDrain, Drained, DrainTimesOut,
         GroupReturns, Signal, Stream, BeginCloseDB, ShutdownOTel, StopSignals, SyncLog, RunReturns, Report,
         Gone, vars, startup
    <3> QED
      BY <2>1, <3>1
  <2> QED
    BY <2>2, <2>3
<1> QED
  BY <1>1, <1>2

(* Before serving there are no requests, afterwards none that the drain did *)
(* not wait for.                                                            *)
LEMMA ServingStep ==
  TypeOK /\ StackInv /\ HeldInv /\ ServingInv /\ [Next]_vars => ServingInv'
<1> SUFFICES ASSUME TypeOK, StackInv, HeldInv, ServingInv, [Next]_vars PROVE ServingInv'
  OBVIOUS
<1> USE DEF ServingInv
<1>1. ASSUME NEW r \in Requests, HandlerStep(r) PROVE ServingInv'
  <2>1. UNCHANGED <<cfg, pc, db, listener, serve, drain, timedOut>>
    BY <1>1, WorkFrame
  <2>2. listener # "open" => Active' \subseteq Active /\ gone \subseteq gone'
    <3>1. req \in [Requests -> {"none", "handling", "querying", "returning", "ended"}]
      BY DEF TypeOK, WorkTypes
    <3> QED
      BY <1>1, <3>1 DEF HandlerStep, Accept, BeginQuery, EndQuery, EndSpan, Ends, Respond, HangUp, Active, clients
  <2>3. listener = "new" => \A s \in Requests : req'[s] = "none"
    BY <1>1 DEF HandlerStep, Accept, BeginQuery, EndQuery, EndSpan, Ends, Respond, HangUp
  <2> QED
    BY <2>1, <2>2, <2>3 DEF Unserved, Served
<1>2. CASE ~ \E r \in Requests : HandlerStep(r)
  <2>1. UNCHANGED <<req, gone>> /\ Active' = Active
    BY <1>2, MainFrame DEF Active
  <2>2. Len(defers) \in 0..4 /\ db \in {"none", "open", "closing", "closed"} /\ cfg.transport \in {"stdio", "http"}
    BY Standing DEF TypeOK, HeldTypes, MainTypes
  <2>3. ASSUME pc \in {"load", "bootstrap", "logger", "signals", "otel", "db"} PROVE db = "none"
    <3>1. Len(defers) # 4
      BY <2>2, <2>3 DEF StackInv
    <3>2. db \notin {"open", "closing", "closed"}
      BY <2>3, <3>1 DEF HeldInv
    <3> QED
      BY <2>2, <3>2
  <2>4. CASE Boot \/ BootFails \/ OpenLog \/ CatchSignals \/ SetupOTel
    <3>1. UNCHANGED <<cfg, db, listener, serve, drain, timedOut>>
      BY <2>4 DEF Boot, BootFails, OpenLog, CatchSignals, SetupOTel, startup, http
    <3>2. pc \in {"load", "bootstrap", "logger", "signals", "otel"}
      BY <2>4 DEF Boot, BootFails, OpenLog, CatchSignals, SetupOTel
    <3>3. pc' \in {"bootstrap", "logger", "signals", "otel", "db", "unwind", "exited"}
      BY <2>4 DEF Boot, BootFails, OpenLog, CatchSignals, SetupOTel, Terminate, Return
    <3> QED
      BY <2>1, <2>3, <3>1, <3>2, <3>3 DEF Unserved
  <2>5. CASE OpenDB
    <3>1. UNCHANGED <<cfg, listener, serve, drain, timedOut>> /\ (pc' = "start" \/ (pc' = "unwind" /\ UNCHANGED db))
      BY <2>5 DEF OpenDB, Return, http
    <3> QED
      BY <2>1, <2>3, <2>5, <3>1 DEF OpenDB, Unserved
  <2>6. CASE StartTransport
    BY <2>1, <2>6 DEF StartTransport
  <2>7. CASE StdioStops
    BY <2>1, <2>7 DEF StdioStops
  <2>8. CASE StdioReturns
    BY <2>1, <2>8 DEF StdioReturns, Return, http, Served
  <2>9. CASE GroupStep
    <3>1. UNCHANGED <<cfg, pc>> /\ pc \notin {"load", "bootstrap", "logger", "signals", "otel", "db", "start"}
      BY <2>9 DEF GroupStep, Bind, ServeFails, ServeCloses, StartDrain, Drained, DrainTimesOut
    <3>2. pc \notin {"unwind", "report", "exited"}
      BY <2>9 DEF GroupStep, Bind, ServeFails, ServeCloses, StartDrain, Drained, DrainTimesOut, Unserved, Served
    <3>3. cfg.transport # "stdio"
      BY <2>9 DEF GroupStep, Bind, ServeFails, ServeCloses, StartDrain, Drained, DrainTimesOut
    <3>4. CASE Bind
      BY <2>1, <3>1, <3>2, <3>3, <3>4 DEF Bind
    <3>5. CASE ServeFails \/ ServeCloses
      BY <2>1, <3>1, <3>2, <3>3, <3>5 DEF ServeFails, ServeCloses
    <3>6. CASE StartDrain
      BY <2>1, <3>1, <3>2, <3>3, <3>6 DEF StartDrain
    <3>7. CASE Drained
      BY <2>1, <3>1, <3>2, <3>3, <3>7 DEF Drained
    <3>8. CASE DrainTimesOut
      BY <2>1, <3>1, <3>2, <3>3, <3>8 DEF DrainTimesOut
    <3> QED
      BY <2>9, <3>4, <3>5, <3>6, <3>7, <3>8 DEF GroupStep
  <2>10. CASE GroupReturns
    <3>1. UNCHANGED <<cfg, listener, serve, drain, timedOut>> /\ pc' = "unwind" /\ serve = "done" /\ drain = "done"
      BY <2>10 DEF GroupReturns, Return, http
    <3>2. Served'
      BY <2>1, <3>1 DEF Served
    <3> QED
      BY <2>1, <3>1, <3>2
  <2>11. CASE BeginCloseDB \/ CloseDB \/ ShutdownOTel \/ StopSignals \/ SyncLog
    <3>1. UNCHANGED <<cfg, pc, listener, serve, drain, timedOut>> /\ pc = "unwind" /\ (db = "none" => db' = "none")
      BY <2>11 DEF BeginCloseDB, CloseDB, ShutdownOTel, StopSignals, SyncLog, Unwinding, http
    <3> QED
      BY <2>1, <3>1 DEF Unserved, Served
  <2>12. CASE RunReturns \/ Report \/ Signal
    <3>1. /\ UNCHANGED <<cfg, db, listener, serve, drain, timedOut>>
          /\ pc' \in {"report", "exited"} \/ pc' = pc
          /\ pc' # pc => pc \in {"unwind", "report"} \/ ~caught
      BY <2>12 DEF RunReturns, Report, Signal, Terminate, startup, http
    <3>2. ~caught => pc \notin {"otel", "db", "start", "wait"}
      BY DEF HeldInv, StackInv
    <3>3. pc \in {"load", "bootstrap", "logger", "signals", "unwind", "report", "exited"} \/ pc' = pc
      BY <3>1, <3>2 DEF TypeOK, MainTypes
    <3> QED
      BY <2>1, <2>3, <3>1, <3>3 DEF Unserved, Served
  <2>13. CASE Stream \/ Gone \/ UNCHANGED vars
    <3>1. UNCHANGED <<cfg, pc, db, listener, serve, drain, timedOut>>
      BY <2>13, WorkFrame DEF Gone, vars, startup, http
    <3> QED
      BY <2>1, <3>1 DEF Unserved, Served
  <2> QED
    BY <1>2, <2>4, <2>5, <2>6, <2>7, <2>8, <2>9, <2>10, <2>11, <2>12, <2>13 DEF Next, MainStep
<1> QED
  BY <1>1, <1>2

-----------------------------------------------------------------------------
(* Lost telemetry, and the report of a failure.                             *)

(* The handlers that end after the providers are those the drain left.      *)
LEMMA LostStep ==
  TypeOK /\ HeldInv /\ ServingInv /\ LostOnlyAfterTimeout /\ [Next]_vars => LostOnlyAfterTimeout'
<1> SUFFICES ASSUME TypeOK, HeldInv, ServingInv, LostOnlyAfterTimeout, [Next]_vars PROVE LostOnlyAfterTimeout'
  OBVIOUS
<1> USE DEF LostOnlyAfterTimeout
<1>1. ASSUME NEW r \in Requests, EndSpan(r) \/ Respond(r), otel = "down" PROVE LostOnlyAfterTimeout'
  <2>1. r \in Active
    BY <1>1 DEF EndSpan, Respond, Active
  <2>2. pc \in {"unwind", "report", "exited"} /\ listener # "new"
    BY <1>1, <2>1 DEF HeldInv, ServingInv, Active
  <2>3. r \in gone \/ timedOut
    BY <2>1, <2>2 DEF ServingInv, Unserved, Served
  <2> QED
    BY <1>1, <2>3 DEF EndSpan, Respond, Ends, clients, http
<1>2. ASSUME NEW r \in Requests, HandlerStep(r), ~((EndSpan(r) \/ Respond(r)) /\ otel = "down") PROVE LostOnlyAfterTimeout'
  <2>1. UNCHANGED <<lost, timedOut>> /\ gone \subseteq gone'
    BY <1>2 DEF HandlerStep, Accept, BeginQuery, EndQuery, EndSpan, Ends, Respond, HangUp, clients, http
  <2> QED
    BY <2>1
<1>3. CASE ~ \E r \in Requests : HandlerStep(r)
  <2>1. UNCHANGED <<lost, gone>>
    BY <1>3, MainFrame
  <2>2. timedOut' \in {timedOut, TRUE}
    BY <1>3 DEF Next, MainStep, Boot, BootFails, OpenLog, CatchSignals, SetupOTel, OpenDB, StartTransport,
         StdioStops, StdioReturns, GroupStep, Bind, ServeFails, ServeCloses, StartDrain, Drained, DrainTimesOut,
         GroupReturns, Signal, Stream, BeginCloseDB, CloseDB, ShutdownOTel, StopSignals, SyncLog, RunReturns, Report,
         Gone, vars, http
  <2> QED
    BY <2>1, <2>2
<1> QED
  BY <1>1, <1>2, <1>3

(* An exit of its own has reported its failure, and reported it once.       *)
LEMMA ReportStep == HeldInv /\ ReportedOnce /\ [Next]_vars => ReportedOnce'
<1> SUFFICES ASSUME HeldInv, ReportedOnce, [Next]_vars PROVE ReportedOnce'
  OBVIOUS
<1> USE DEF ReportedOnce
<1>1. CASE exit = "running" /\ UNCHANGED exit
  BY <1>1
<1>2. CASE UNCHANGED <<exit, reported>>
  BY <1>2
<1>3. CASE exit = "running" /\ BootFails
  BY <1>3 DEF BootFails, Terminate
<1>4. CASE exit = "running" /\ (RunReturns \/ Report \/ Signal)
  BY <1>4 DEF RunReturns, Report, Signal, Terminate, HeldInv
<1>5. CASE exit = "running" /\ ~(BootFails \/ RunReturns \/ Report \/ Signal)
  BY <1>5 DEF Next, MainStep, Boot, OpenLog, CatchSignals, SetupOTel, OpenDB, StartTransport,
       StdioStops, StdioReturns, GroupStep, Bind, ServeFails, ServeCloses, StartDrain, Drained, DrainTimesOut,
       GroupReturns, Stream, BeginCloseDB, CloseDB, ShutdownOTel, StopSignals, SyncLog, HandlerStep,
       Accept, BeginQuery, EndQuery, EndSpan, Ends, Respond, HangUp, Gone, vars
<1> QED
  BY <1>2, <1>3, <1>4, <1>5 DEF Next, Gone, vars

-----------------------------------------------------------------------------
(* The inductive invariant, and what follows from it.                       *)

(* The strengthening holds in every reachable state.                        *)
THEOREM Inductive == Spec => []IInv
<1>1. Init => IInv
  <2> SUFFICES ASSUME Init PROVE IInv
    OBVIOUS
  <2>1. defers \in Seq(Cleanups) /\ Len(defers) = 0
    BY EmptySeq DEF Init
  <2>2. TypeOK
    <3>1. MainTypes /\ HeldTypes /\ ServingTypes
      BY DEF Init, MainTypes, HeldTypes, ServingTypes
    <3>2. StackTypes
      BY <2>1 DEF StackTypes, Cleanups
    <3>3. 0 \in 0..MaxQueries
      BY LifecycleAssumption
    <3>4. WorkTypes
      BY <3>3 DEF Init, WorkTypes
    <3> QED
      BY <3>1, <3>2, <3>4 DEF TypeOK
  <2>3. StackInv /\ HeldInv
    BY <2>1 DEF Init, StackInv, Stacked, HeldInv
  <2>4. ServingInv /\ QueryInv /\ LostOnlyAfterTimeout /\ ReportedOnce
    BY DEF Init, ServingInv, QueryInv, LostOnlyAfterTimeout, ReportedOnce
  <2> QED
    BY <2>2, <2>3, <2>4 DEF IInv
<1>2. IInv /\ [Next]_vars => IInv'
  BY StackStep, TypeStep, HeldStep, ServingStep, QueryStep, LostStep, ReportStep DEF IInv
<1> QED
  BY <1>1, <1>2, PTL DEF Spec

(* Every variable keeps its type.                                           *)
THEOREM TypeCorrect == Spec => []TypeOK
<1>1. IInv => TypeOK
  BY DEF IInv
<1> QED
  BY <1>1, Inductive, PTL

(* However start-up and serving went, an exit of its own finds an empty     *)
(* stack: the pool is closed, telemetry down, the signals as before.        *)
THEOREM CleanExit == Spec => []ExitsClean
<1>1. IInv => ExitsClean
  BY DEF IInv, TypeOK, HeldTypes, StackInv, HeldInv, ExitsClean
<1> QED
  BY <1>1, Inductive, PTL

(* The pool is closed under no handler that the drain waited for.           *)
THEOREM PoolOutlives == Spec => []PoolOutlivesHandlers
<1>1. IInv => PoolOutlivesHandlers
  BY DEF IInv, HeldInv, ServingInv, Unserved, Served, PoolOutlivesHandlers
<1> QED
  BY <1>1, Inductive, PTL

(* Telemetry goes down after the pool, and no statement is at the database  *)
(* then.  The end of a statement's span may still be missing: LossIsBounded *)
(* says of whom.                                                            *)
THEOREM TelemetryOutlives == Spec => []TelemetryOutlivesStatements
<1>1. IInv => TelemetryOutlivesStatements
  BY DEF IInv, TypeOK, HeldTypes, HeldInv, QueryInv, TelemetryOutlivesStatements
<1> QED
  BY <1>1, Inductive, PTL

(* Spans and records are lost only of calls the drain did not wait for, ... *)
THEOREM LossIsBounded == Spec => []LostOnlyAfterTimeout
<1>1. IInv => LostOnlyAfterTimeout
  BY DEF IInv
<1> QED
  BY <1>1, Inductive, PTL

(* ... and a failure is reported in one place.                              *)
THEOREM OneReport == Spec => []ReportedOnce
<1>1. IInv => ReportedOnce
  BY DEF IInv
<1> QED
  BY <1>1, Inductive, PTL

=============================================================================
