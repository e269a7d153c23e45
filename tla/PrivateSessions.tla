--------------------------- MODULE PrivateSessions ---------------------------
(***************************************************************************)
(* What the database layer promises its callers: every call behaves as if   *)
(* it had opened a session of its own.  A call waits, may start its one     *)
(* statement, always on the configured session and never more than Limit at *)
(* a time, and is answered; after the layer is shut down nothing starts and *)
(* nothing runs.                                                            *)
(***************************************************************************)
EXTENDS Naturals, FiniteSets

CONSTANTS Calls, Limit, Configured

VARIABLES up, phase, startedOn

pvars == <<up, phase, startedOn>>

Running == {k \in Calls : phase[k] = "running"}

PInit ==
  /\ up = TRUE
  /\ phase = [k \in Calls |-> "new"]
  /\ startedOn = [k \in Calls |-> {}]

Ask(k) ==
  /\ phase[k] = "new"
  /\ phase' = [phase EXCEPT ![k] = "waiting"]
  /\ UNCHANGED <<up, startedOn>>

Begin(k) ==
  /\ up
  /\ phase[k] = "waiting"
  /\ Cardinality(Running) < Limit
  /\ phase' = [phase EXCEPT ![k] = "running"]
  /\ startedOn' = [startedOn EXCEPT ![k] = {Configured}]
  /\ UNCHANGED up

Succeed(k) ==
  /\ phase[k] = "running"
  /\ phase' = [phase EXCEPT ![k] = "done"]
  /\ UNCHANGED <<up, startedOn>>

Fail(k) ==
  /\ phase[k] \in {"new", "waiting", "running"}
  /\ phase' = [phase EXCEPT ![k] = "failed"]
  /\ UNCHANGED <<up, startedOn>>

ShutDown ==
  /\ up
  /\ Running = {}
  /\ up' = FALSE
  /\ UNCHANGED <<phase, startedOn>>

PNext ==
  \/ \E k \in Calls : Ask(k) \/ Begin(k) \/ Succeed(k) \/ Fail(k)
  \/ ShutDown

PSpec == PInit /\ [][PNext]_pvars

=============================================================================
