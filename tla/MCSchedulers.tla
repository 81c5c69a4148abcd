---------------------------- MODULE MCSchedulers ----------------------------
(***************************************************************************)
(* The three schedulers.  Lockstep and FastPath share a machine: every     *)
(* phase alignment, and every way of cutting a timeline of MaxTick ticks   *)
(* into calls of either, of at most MaxSpan past the position, targets     *)
(* behind it included; runs of zero, one and two whole periods, with every *)
(* length of tail.  ExecPath keeps its own account of time beside them:    *)
(* runs long enough for a batch of several pairs between two interrupts,   *)
(* and Compare values met before, inside and after a batch.  A behaviour   *)
(* explores the one or the other, its part, and leaves the other where it  *)
(* began: the run is their union and not their product.                    *)
(***************************************************************************)
EXTENDS FastPath, ExecPath

VARIABLE part

ASSUME CostsAssumption

schedulers == <<part, fastVars, execVars>>

SchedulersInit ==
  /\ part \in {"clock", "exec"}
  /\ FastInit /\ ExecInit
  /\ part = "exec" => phases = [cpu |-> 0, rcp |-> 0]
  /\ part = "clock" => offsets = [cpu |-> 0, rcp |-> 0]

ClockStep(A) == part = "clock" /\ UNCHANGED <<part, execVars>> /\ A
ExecStep(A) == part = "exec" /\ UNCHANGED <<part, fastVars>> /\ A

SchedulersNext == ClockStep(FastNext) \/ ExecStep(ExecNext)

\* A call, once made, runs to its end: it is one function on one thread.
SchedulersSpec ==
  /\ SchedulersInit /\ [][SchedulersNext]_schedulers
  /\ WF_schedulers(ClockStep(FastRun))
  /\ WF_schedulers(ExecStep(ExecRun))

-----------------------------------------------------------------------------
\* Every call of the three returns, whatever its target, whatever the instructions cost
\* and whoever is frozen (run_until, run_until_fast, run_until_exec).
RunTerminates == (pc # "idle" ~> pc = "idle") /\ (at # "idle" ~> at = "idle")
=============================================================================
