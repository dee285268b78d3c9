----------------------------- MODULE RunLifecycle -----------------------------
(***************************************************************************)
(* What a client of /queue/runs may rely on, without the queue: the life   *)
(* of a run as QUEUE_RUN_STATUSES (packages/shared/src/run.ts) names its   *)
(* stages.  Runs open one at a time; a step is applied only for a running  *)
(* run and one at a time; a run halts or ends only between steps; a closed *)
(* run stays as it is.  QueueExecutor implements this module.              *)
(***************************************************************************)
EXTENDS Naturals

CONSTANT MaxRuns    \* bound: runs opened

Runs == 1 .. MaxRuns
NoRun == 0
Open == {"running", "paused"}
Closed == {"completed", "failed", "cancelled"}

VARIABLES
  phase,      \* the stage of each run, "none" before it opens
  applying    \* the run a step is being applied for, or NoRun

vars == <<phase, applying>>

Init ==
  /\ phase = [r \in Runs |-> "none"]
  /\ applying = NoRun

\* A run opens after every earlier run has closed.
OpenRun(r) ==
  /\ phase[r] = "none"
  /\ \A q \in Runs : (q < r => phase[q] \in Closed) /\ (q > r => phase[q] = "none")
  /\ phase' = [phase EXCEPT ![r] = "running"]
  /\ UNCHANGED applying

ApplyStep(r) ==
  /\ phase[r] = "running" /\ applying = NoRun
  /\ applying' = r
  /\ UNCHANGED phase

\* The step ends, or the process that applied it dies.
EndStep ==
  /\ applying # NoRun
  /\ applying' = NoRun
  /\ UNCHANGED phase

PauseRun(r) ==
  /\ phase[r] = "running" /\ applying = NoRun
  /\ phase' = [phase EXCEPT ![r] = "paused"]
  /\ UNCHANGED applying

ResumeRun(r) ==
  /\ phase[r] = "paused" /\ applying = NoRun
  /\ phase' = [phase EXCEPT ![r] = "running"]
  /\ UNCHANGED applying

\* A running run ends in any of the three ways, a paused one is cancelled.
CloseRun(r, outcome) ==
  /\ outcome \in Closed
  /\ phase[r] = "running" \/ (phase[r] = "paused" /\ outcome = "cancelled")
  /\ phase' = [phase EXCEPT ![r] = outcome]
  /\ applying' = NoRun

Next ==
  \/ \E r \in Runs :
       \/ OpenRun(r) \/ ApplyStep(r) \/ PauseRun(r) \/ ResumeRun(r)
       \/ \E outcome \in Closed : CloseRun(r, outcome)
  \/ EndStep

Spec == Init /\ [][Next]_vars
=============================================================================
