-------------------------------- MODULE Jobs --------------------------------
(***************************************************************************)
(* The data every part of the hypervisor shares: the state of a job        *)
(* (hypervisor/job.go), its row in the jobs table (queries/jobs.sql), the  *)
(* UPDATE statements as functions from rows to rows, the conversion of a   *)
(* row into a job, and the retry decision of a job definition's policy.    *)
(* Timestamps are reduced to whether they are set, results to whether the  *)
(* exit code is zero; texts, environment, parameters and metadata are left *)
(* out, no operation here depends on them.                                 *)
(***************************************************************************)
EXTENDS Naturals

JobStates == {"pending", "running", "suspended", "pending_retry", "completed", "failed"}

JobOps == {"", "checkpointing", "terminating", "exiting", "restarting"}

\* JobResult: nil, a zero exit code, or another one.
Results == {"nil", "zero", "nonzero"}

Job == [state : JobStates, op : JobOps, retryCount : Nat, checkpointCount : Nat,
        resumeAt : BOOLEAN, result : Results]

Row == [state : JobStates, retryCount : Nat, checkpointCount : Nat,
        resumeAt : BOOLEAN, result : Results, checkpointPath : BOOLEAN]

Terminal == {"completed", "failed"}

\* Job.IsTerminal of a job, and the same test on the state of a row.
IsTerminal(j) == j.state \in Terminal

(***************************************************************************)
(* The UPDATE statements of queries/jobs.sql: the columns each one sets.   *)
(***************************************************************************)
\* A freshly inserted job.
InsertJob == [state |-> "pending", retryCount |-> 0, checkpointCount |-> 0,
              resumeAt |-> FALSE, result |-> "nil", checkpointPath |-> FALSE]

UpdateJobState(row, state) == [row EXCEPT !.state = state]

UpdateJobStarted(row) == [row EXCEPT !.state = "running"]

\* Variant: the path is not stored.
UpdateJobCheckpointedNoPath(row, state, resumeAt) ==
  [row EXCEPT !.state = state, !.checkpointCount = @ + 1, !.resumeAt = resumeAt]

UpdateJobCheckpointed(row, state, resumeAt) ==
  [row EXCEPT !.state = state, !.checkpointCount = @ + 1,
              !.resumeAt = resumeAt, !.checkpointPath = TRUE]

UpdateJobCompleted(row, state, result) == [row EXCEPT !.state = state, !.result = result]

\* Variant: the count is not stored.
UpdateJobRetryCountSkipped(row, n) == row

UpdateJobRetryCount(row, n) == [row EXCEPT !.retryCount = n]

\* Variant: no time to resume at.
UpdateJobPendingRetryUntimed(row) == [row EXCEPT !.state = "pending_retry"]

UpdateJobPendingRetry(row) == [row EXCEPT !.state = "pending_retry", !.resumeAt = TRUE]

\* The job a row is loaded as: the transient operation is not stored.
dbJobToJob(row) ==
  [state |-> row.state, op |-> "", retryCount |-> row.retryCount,
   checkpointCount |-> row.checkpointCount, resumeAt |-> row.resumeAt, result |-> row.result]

\* Variant: one retry too many.
ShouldRetryOnceMore(j, maxRetries) == j.retryCount <= maxRetries

\* The decision of the failure callback: setupRetryCallback compares the retries
\* already made with the policy's maximum.
ShouldRetry(j, maxRetries) == j.retryCount < maxRetries
=============================================================================
