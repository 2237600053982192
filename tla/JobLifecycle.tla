---------------------------- MODULE JobLifecycle ----------------------------
(***************************************************************************)
(* What a runner promises about its job, without commands, processes or    *)
(* rows: the states of job.go and the moves between them.  A job that      *)
(* failed with a retry due is "retrying": it is neither running nor over.  *)
(***************************************************************************)
EXTENDS Naturals

CONSTANT MaxRetries

VARIABLES
  phase,       \* the state of the job
  retries,     \* retries made
  checkpoints  \* checkpoints taken

vars == <<phase, retries, checkpoints>>

Phases == {"pending", "running", "suspended", "pending_retry", "retrying", "completed", "failed"}

\* A runner is made for a new job or for one found in the database, whose next retry may
\* be past the maximum: nobody tests it before a retry that is due.
Init ==
  /\ phase \in {"pending", "running", "suspended", "retrying"}
  /\ retries \in Nat
  /\ checkpoints \in Nat

Move(from, to) == phase \in from /\ phase' = to /\ UNCHANGED <<retries, checkpoints>>

Start == Move({"pending"}, "running")

Wake == Move({"suspended"}, "running")

Checkpoint ==
  /\ phase = "running"
  /\ phase' \in {"running", "suspended"}
  /\ checkpoints' = checkpoints + 1
  /\ UNCHANGED retries

Complete == Move({"running"}, "completed")

\* A failure, and every way to give up: a start or a restore that fails, a kill, a
\* retry the runner did not live to make.
Fail == Move({"pending", "running", "suspended", "retrying"}, "failed")

ScheduleRetry ==
  /\ retries < MaxRetries
  /\ Move({"running"}, "retrying") \/ Move({"running"}, "pending_retry")

Retry ==
  /\ phase = "retrying"
  /\ phase' \in {"running", "failed"}
  /\ retries' = retries + 1
  /\ UNCHANGED checkpoints

Next == Start \/ Wake \/ Checkpoint \/ Complete \/ Fail \/ ScheduleRetry \/ Retry

Spec == Init /\ [][Next]_vars
=============================================================================
