---------------------------- MODULE LifecycleProofs ----------------------------
(***************************************************************************)
(* The life of a job, proved: a checkpoint token is worth one checkpoint,  *)
(* for a step that counts a checkpoint records the token that asked for it *)
(* and no other step touches the count or the tokens; and every step of    *)
(* the runner is a step of JobLifecycle or leaves its variables alone.     *)
(*                                                                         *)
(* The refinement needs the invariants of the other modules: a retry is    *)
(* handled while it is the one in flight (RetryInv), an exit or a wake     *)
(* finds the job running or suspended (ProcInv), and a job parked for a    *)
(* retry is not handled any more (RowInv).                                 *)
(***************************************************************************)
EXTENDS ProcessProofs, RowProofs, FiniteSetTheorems

\* Neither the count nor the tokens change.
CountsKept == job'.checkpointCount = job.checkpointCount /\ tokens' = tokens

\* One more checkpoint for one more token.
CountsOneMore ==
  /\ job'.checkpointCount = job.checkpointCount + 1
  /\ \E t \in Tokens \ tokens : tokens' = tokens \cup {t}

\* Of the changes to a job only JobCheckpointed counts a checkpoint.
LEMMA JobCheckpointCounts ==
  ASSUME NEW j \in Job
  PROVE  /\ \A e \in Exits : JobExited(j, e).checkpointCount = j.checkpointCount
         /\ \A b \in BOOLEAN : JobCheckpointed(j, b).checkpointCount = j.checkpointCount + 1
         /\ JobNotCheckpointed(j).checkpointCount = j.checkpointCount
         /\ \A b \in BOOLEAN : JobExiting(j, b).checkpointCount = j.checkpointCount
         /\ JobRetried(j).checkpointCount = j.checkpointCount
         /\ \A s \in JobStates : [j EXCEPT !.state = s].checkpointCount = j.checkpointCount
         /\ \A s \in JobStates, b \in BOOLEAN :
              [j EXCEPT !.state = s, !.resumeAt = b].checkpointCount = j.checkpointCount
         /\ \A o \in JobOps, s \in JobStates :
              [j EXCEPT !.op = o, !.state = s].checkpointCount = j.checkpointCount
         /\ \A o \in JobOps : [j EXCEPT !.op = o].checkpointCount = j.checkpointCount
  BY DEF Job, JobExited, JobCheckpointed, JobNotCheckpointed, JobExiting, JobRetried

LEMMA CheckpointCounts ==
  ASSUME TypeOK, handleCheckpoint
  PROVE  CountsKept \/ CountsOneMore
<1> USE DEF saved
<1> DEFINE cmd == Head(cmdChan)
<1>0. cmd.suspend \in BOOLEAN /\ cmd.token \in Tokens \cup {NoToken}
  <2>1. cmd \in Command
    BY QueueTypes DEF TypeOK, handleCheckpoint, Handling
  <2> QED
    BY <2>1 DEF Command
<1>1. CASE NoEffect
  BY <1>1 DEF NoEffect, CountsKept
<1>2. CASE job' = JobNotCheckpointed(job) /\ UNCHANGED saved
  BY <1>2, JobCheckpointCounts DEF TypeOK, CountsKept
<1>3. CASE /\ cmd.token \notin tokens /\ CheckpointRefusal(cmd) = "nil"
           /\ job' = JobCheckpointed(job, cmd.suspend)
           /\ tokens' = tokens \cup {cmd.token}
  <2>1. cmd.token \in Tokens \ tokens
    BY <1>0, <1>3 DEF CheckpointRefusal
  <2> QED
    BY <1>0, <1>3, <2>1, JobCheckpointCounts DEF TypeOK, CountsOneMore
<1> QED
  BY <1>1, <1>2, <1>3 DEF handleCheckpoint

LEMMA OtherHandlerCounts ==
  ASSUME TypeOK, Loop, ~handleCheckpoint
  PROVE  CountsKept
<1> USE DEF saved
<1>0. job \in Job
  BY DEF TypeOK
<1>1. CASE handleStart
  <2>1. \/ UNCHANGED <<job, saved>>
        \/ UNCHANGED saved /\ \E s \in {"running", "failed"} : job' = [job EXCEPT !.state = s]
    BY <1>1 DEF handleStart, NoEffect
  <2>2. \A s \in {"running", "failed"} :
          [job EXCEPT !.state = s].checkpointCount = job.checkpointCount
    BY <1>0 DEF Job
  <2> QED
    BY <2>1, <2>2 DEF CountsKept
<1>2. CASE handleProcessExited
  <2> DEFINE exited == JobExited(job, Head(cmdChan).exit)
  <2>1. exited \in Job /\ exited.checkpointCount = job.checkpointCount
    <3>1. Head(cmdChan) \in Command
      BY <1>2, QueueTypes DEF TypeOK, handleProcessExited, Handling
    <3>2. Head(cmdChan).exit \in Exits
      BY <3>1 DEF Command
    <3> QED
      BY <3>2, JobTypes, JobCheckpointCounts DEF TypeOK
  <2>2. tokens' = tokens
    BY <1>2 DEF handleProcessExited, NoEffect
  <2>3. job' \in {job, exited, [exited EXCEPT !.state = "pending_retry", !.resumeAt = TRUE]}
    BY <1>2 DEF handleProcessExited, NoEffect
  <2> HIDE DEF exited
  <2> QED
    <3>1. [exited EXCEPT !.state = "pending_retry", !.resumeAt = TRUE].checkpointCount
            = exited.checkpointCount
      BY <2>1 DEF Job
    <3> QED
      BY <2>1, <2>2, <2>3, <3>1 DEF CountsKept
<1>3. CASE handleWake
  <2>1. UNCHANGED saved /\ \E s \in {"running", "failed"} :
                              job' = [job EXCEPT !.state = s, !.resumeAt = FALSE]
    BY <1>3 DEF handleWake
  <2>2. \A s \in {"running", "failed"} :
          [job EXCEPT !.state = s, !.resumeAt = FALSE].checkpointCount = job.checkpointCount
    BY <1>0 DEF Job
  <2> QED
    BY <2>1, <2>2 DEF CountsKept
<1>4. CASE handleKill
  <2>1. \/ UNCHANGED <<job, saved>>
        \/ UNCHANGED saved /\ job' = [job EXCEPT !.op = "terminating"]
        \/ UNCHANGED saved /\ job' = [job EXCEPT !.op = "terminating", !.state = "failed"]
    BY <1>4 DEF handleKill, NoEffect
  <2>2. /\ [job EXCEPT !.op = "terminating"].checkpointCount = job.checkpointCount
        /\ [job EXCEPT !.op = "terminating", !.state = "failed"].checkpointCount
             = job.checkpointCount
    BY <1>0 DEF Job
  <2> QED
    BY <2>1, <2>2 DEF CountsKept
<1>5. CASE handleExit
  BY <1>5, JobCheckpointCounts DEF handleExit, NoEffect, CountsKept, TypeOK
<1>6. CASE handleRetry
  <2>1. JobRetried(job) \in Job /\ JobRetried(job).checkpointCount = job.checkpointCount
    BY JobTypes, JobCheckpointCounts DEF TypeOK
  <2>2. CASE job' = JobRetried(job)
    BY <1>6, <2>1, <2>2 DEF handleRetry, CountsKept
  <2>3. CASE job' = [JobRetried(job) EXCEPT !.state = "running", !.resumeAt = @ /\ ~checkpoint]
    <3>1. job'.checkpointCount = JobRetried(job).checkpointCount
      BY <2>1, <2>3 DEF Job
    <3> QED
      BY <1>6, <2>1, <3>1 DEF handleRetry, CountsKept
  <2> QED
    BY <1>6, <2>2, <2>3 DEF handleRetry
<1>7. CASE handleGetState \/ handleTakeLock \/ handleReleaseLock \/ handleWaitForResult \/ handleStop
  BY <1>7 DEF handleGetState, handleTakeLock, handleReleaseLock, handleWaitForResult, handleStop,
     NoEffect, CountsKept
<1>8. CASE LoopCancelled \/ DrainCommand \/ CloseDone
  BY <1>8 DEF LoopCancelled, DrainCommand, CloseDone, CountsKept
<1> QED
  BY <1>1, <1>2, <1>3, <1>4, <1>5, <1>6, <1>7, <1>8 DEF Loop

LEMMA StepCounts ==
  ASSUME TypeOK, [Next]_vars
  PROVE  CountsKept \/ CountsOneMore
<1> USE DEF saved
<1>1. CASE Loop
  BY <1>1, CheckpointCounts, OtherHandlerCounts
<1>2. CASE (\E p \in DOMAIN procs : ProcessEnds(p) \/ waitForProcessExit(p)) \/ SendRetry
  BY <1>2 DEF ProcessEnds, waitForProcessExit, SendRetry, CountsKept
<1>3. CASE \E c \in Clients : Client(c)
  BY <1>3 DEF Client, Call, CallDone, Return, ReturnDone, Timeout, CountsKept
<1>4. CASE CreatorSteps
  BY <1>4 DEF CreatorSteps, CreatorSends, CreatorStartDone, CreatorReturns, CreatorGivesUp, CountsKept
<1>5. CASE Shutdown \/ Stop \/ DevCrash
  BY <1>5 DEF Shutdown, Stop, DevCrash, CountsKept
<1>6. CASE UNCHANGED vars
  BY <1>6 DEF vars, CountsKept
<1> QED
  BY <1>1, <1>2, <1>3, <1>4, <1>5, <1>6 DEF Next

\* However often a checkpoint request is repeated, refused or fails, the count of
\* checkpoints grows exactly when a new token is recorded.
THEOREM OneCheckpointPerToken == Spec => CheckpointPerToken
<1>1. ASSUME TypeOK, [Next]_vars
      PROVE  job'.checkpointCount - job.checkpointCount
               = Cardinality(tokens') - Cardinality(tokens)
  <2>1. job.checkpointCount \in Nat
    BY <1>1 DEF TypeOK, Job
  <2>2. IsFiniteSet(tokens) /\ Cardinality(tokens) \in Nat
    BY <1>1, ConstantsAssumption, FS_Subset, FS_CardinalityType DEF TypeOK
  <2>3. CASE CountsKept
    BY <2>1, <2>2, <2>3 DEF CountsKept
  <2>4. CASE CountsOneMore
    <3>1. PICK t \in Tokens \ tokens : tokens' = tokens \cup {t}
      BY <2>4 DEF CountsOneMore
    <3>2. Cardinality(tokens') = Cardinality(tokens) + 1
      BY <2>2, <3>1, FS_AddElement
    <3> QED
      BY <2>1, <2>2, <2>4, <3>2 DEF CountsOneMore
  <2> QED
    BY <1>1, <2>3, <2>4, StepCounts
<1>2. TypeOK /\ [Next]_vars
        => [job'.checkpointCount - job.checkpointCount
              = Cardinality(tokens') - Cardinality(tokens)]_vars
  BY <1>1
<1> QED
  BY <1>2, TypeCorrect, PTL DEF Spec, CheckpointPerToken

-----------------------------------------------------------------------------
(***************************************************************************)
(* The refinement.                                                         *)
(***************************************************************************)
LifecycleStep == [Lifecycle!Next]_(Lifecycle!vars)

CountsStay == job'.retryCount = job.retryCount /\ job'.checkpointCount = job.checkpointCount

\* A step that changes neither the state nor the counts: at most, the runner does not
\* live to make the retry.
LEMMA JobStays ==
  ASSUME CountsStay, job'.state = job.state, loop' = "select" => loop = "select",
         RetryInFlight' => RetryInFlight
  PROVE  LifecycleStep
<1>1. Phase' = Phase \/ (Phase = "retrying" /\ Phase' = "failed")
  BY DEF Phase
<1>2. CASE Phase' = Phase
  BY <1>2 DEF CountsStay, LifecycleStep, Lifecycle!vars
<1>3. CASE Phase = "retrying" /\ Phase' = "failed"
  BY <1>3 DEF CountsStay, LifecycleStep, Lifecycle!Next, Lifecycle!Fail, Lifecycle!Move
<1> QED
  BY <1>1, <1>2, <1>3

\* A job that ends or is suspended, started or woken.
LEMMA JobMoves ==
  ASSUME CountsStay, NEW from, NEW to, job.state = from, from # "failed", job'.state = to,
         \/ from = "pending" /\ to \in {"running", "failed"}
         \/ from = "suspended" /\ to \in {"running", "failed"}
         \/ from = "running" /\ to \in {"completed", "failed"},
         ~RetryInFlight'
  PROVE  LifecycleStep
<1>1. Phase = from /\ Phase' = to
  BY DEF Phase
<1> QED
  BY <1>1 DEF CountsStay, LifecycleStep, Lifecycle!Next, Lifecycle!Move, Lifecycle!Start,
     Lifecycle!Wake, Lifecycle!Complete, Lifecycle!Fail

\* What the end of a handler does to the retry in flight.
LEMMA SettledRetry ==
  ASSUME TypeOK, RetryInv, NEW t, Handling(t), NEW err, Reply(err)
  PROVE  /\ loop = "select" /\ cmdChan # <<>>
         /\ RetryInFlight' => RetryInFlight \/ retryGo'
  BY SettleKeepsRetry DEF Handling, Reply, RetryInFlight

LEMMA StartRefines ==
  ASSUME TypeOK, RetryInv, ProcInv, handleStart
  PROVE  LifecycleStep
<1> USE DEF retry
<1>0. PICK err : Handling("start") /\ Reply(err) /\ UNCHANGED retry
  BY DEF handleStart, NoEffect
<1>1. loop = "select" /\ (RetryInFlight' => RetryInFlight)
  BY <1>0, SettledRetry DEF RetryInFlight
<1>2. CASE NoEffect
  BY <1>1, <1>2, JobStays DEF NoEffect, CountsStay
<1>3. CASE job.state = "pending" /\ \E s \in {"running", "failed"} : job' = [job EXCEPT !.state = s]
  <2>1. job'.state \in {"running", "failed"} /\ CountsStay
    BY <1>3 DEF TypeOK, Job, CountsStay
  <2>2. ~RetryInFlight'
    BY <1>1, <1>3, NotFailed
  <2> QED
    BY <1>3, <2>1, <2>2, JobMoves
<1> QED
  BY <1>2, <1>3 DEF handleStart

\* An exit is only handled while the job runs: a pending job has no process yet, and one
\* parked for its retry has no loop any more.
LEMMA ProcessExitedRefines ==
  ASSUME TypeOK, RetryInv, ProcInv, RowInv, handleProcessExited
  PROVE  LifecycleStep
<1> USE DEF retry
<1> DEFINE exited == JobExited(job, Head(cmdChan).exit)
<1>0. Handling("processExited") /\ Reply("nil") /\ loop = "select" /\ cmdChan # <<>>
      /\ (RetryInFlight' => RetryInFlight \/ retryGo')
  BY SettledRetry DEF handleProcessExited
<1>1. CASE NoEffect
  BY <1>0, <1>1, JobStays DEF NoEffect, CountsStay, RetryInFlight
<1>2. exited \in Job /\ exited.state \in {"completed", "failed"}
      /\ exited.retryCount = job.retryCount /\ exited.checkpointCount = job.checkpointCount
  <2>1. Head(cmdChan) \in Command
    BY <1>0, QueueTypes DEF TypeOK
  <2>2. Head(cmdChan).exit \in Exits
    BY <2>1 DEF Command
  <2>3. exited.state \in {"completed", "failed"}
    BY DEF TypeOK, Job, JobExited
  <2> QED
    BY <2>2, <2>3, JobTypes, JobRetryCounts, JobCheckpointCounts DEF TypeOK
<1> HIDE DEF exited
<1>3. ASSUME ~IsTerminal(job), job.state # "suspended"
      PROVE  job.state = "running" /\ ~RetryInFlight
  <2>1. Queued("processExited")
    <3>1. cmdChan \in Seq(Command) /\ cmdChan # <<>> /\ Head(cmdChan).typ = "processExited"
      BY <1>0 DEF TypeOK, Handling
    <3>2. 1 \in DOMAIN cmdChan /\ cmdChan[1].typ = "processExited"
      BY <3>1
    <3> QED
      BY <3>2 DEF Queued
  <2>2. job.state # "pending" /\ job.state # "pending_retry"
    BY <1>0, <2>1 DEF ProcInv, ExitInv, RestInv, RowInv
  <2> QED
    BY <1>3, <2>2, NotFailed DEF TypeOK, Job, JobStates, IsTerminal, Terminal
<1>4. CASE /\ ~IsTerminal(job) /\ job.state # "suspended"
           /\ job' = exited /\ UNCHANGED retry
  <2>1. ~RetryInFlight' /\ CountsStay
    BY <1>0, <1>2, <1>3, <1>4 DEF RetryInFlight, CountsStay
  <2> QED
    BY <1>2, <1>3, <1>4, <2>1, JobMoves
<1>5. CASE /\ ~IsTerminal(job) /\ job.state # "suspended" /\ Retryable(exited)
           /\ job' = [exited EXCEPT !.state = "pending_retry", !.resumeAt = TRUE]
  <2>1. job'.state = "pending_retry" /\ CountsStay
    BY <1>2, <1>5 DEF Job, CountsStay
  <2>2. Phase = "running" /\ Phase' = "pending_retry" /\ job.retryCount < MaxRetries
    BY <1>2, <1>3, <1>5, <2>1 DEF Phase, Retryable, ShouldRetry
  <2> QED
    BY <2>1, <2>2 DEF CountsStay, LifecycleStep, Lifecycle!Next, Lifecycle!ScheduleRetry, Lifecycle!Move
<1>6. CASE /\ ~IsTerminal(job) /\ job.state # "suspended" /\ Retryable(exited)
           /\ job' = exited
           /\ retryPending' = TRUE /\ retryGo' = TRUE
  <2>1. job'.state = "failed" /\ CountsStay
    BY <1>2, <1>6 DEF CountsStay, Retryable
  <2>2. loop' = "select"
    BY <1>0, <1>6, <2>1 DEF Reply, Settle, LoopEnds
  <2>3. Phase = "running" /\ Phase' = "retrying" /\ job.retryCount < MaxRetries
    BY <1>2, <1>3, <1>6, <2>1, <2>2 DEF Phase, RetryInFlight, Retryable, ShouldRetry
  <2> QED
    BY <2>1, <2>3 DEF CountsStay, LifecycleStep, Lifecycle!Next, Lifecycle!ScheduleRetry, Lifecycle!Move
<1> QED
  BY <1>1, <1>4, <1>5, <1>6 DEF handleProcessExited, exited

LEMMA CheckpointRefines ==
  ASSUME TypeOK, RetryInv, ProcInv, handleCheckpoint
  PROVE  LifecycleStep
<1> USE DEF retry
<1> DEFINE cmd == Head(cmdChan)
<1>0. Handling("checkpoint") /\ loop = "select" /\ cmdChan # <<>> /\ UNCHANGED retry
  BY DEF handleCheckpoint, Handling, NoEffect
<1>1. RetryInFlight' => RetryInFlight
  <2>1. CASE \E err : Reply(err)
    BY <1>0, <2>1, SettledRetry DEF RetryInFlight
  <2>2. CASE UNCHANGED <<cmdChan, calls>>
    BY <1>0, <2>2 DEF RetryInFlight, Queued, Unsent
  <2> QED
    BY <2>1, <2>2 DEF handleCheckpoint
<1>2. CASE NoEffect
  BY <1>0, <1>1, <1>2, JobStays DEF NoEffect, CountsStay
<1>3. CASE job' = JobNotCheckpointed(job)
  <2>1. job'.state = job.state /\ CountsStay
    BY <1>3, JobRetryCounts, JobCheckpointCounts DEF TypeOK, CountsStay
  <2> QED
    BY <1>0, <1>1, <2>1, JobStays
<1>4. CASE CheckpointRefusal(cmd) = "nil" /\ job' = JobCheckpointed(job, cmd.suspend)
  <2>1. cmd.suspend \in BOOLEAN
    <3>1. cmd \in Command
      BY <1>0, QueueTypes DEF TypeOK
    <3> QED
      BY <3>1 DEF Command
  <2>2. job.state = "running"
    BY <1>4 DEF CheckpointRefusal
  <2>3. job'.state \in {"running", "suspended"}
    BY <1>4, <2>1, <2>2 DEF TypeOK, Job, JobCheckpointed
  <2>4. job'.retryCount = job.retryCount /\ job'.checkpointCount = job.checkpointCount + 1
    BY <1>4, <2>1, JobRetryCounts, JobCheckpointCounts DEF TypeOK
  <2>5. Phase = "running" /\ Phase' \in {"running", "suspended"}
    BY <2>2, <2>3 DEF Phase
  <2> QED
    BY <2>4, <2>5 DEF LifecycleStep, Lifecycle!Next, Lifecycle!Checkpoint
<1> QED
  BY <1>2, <1>3, <1>4 DEF handleCheckpoint

LEMMA WakeRefines ==
  ASSUME TypeOK, RetryInv, ProcInv, handleWake
  PROVE  LifecycleStep
<1> USE DEF retry
<1>0. PICK err : Handling("wake") /\ Reply(err) /\ UNCHANGED retry /\ job.state = "suspended"
  BY DEF handleWake
<1>1. ~RetryInFlight'
  BY <1>0, NotFailed, SettledRetry DEF RetryInFlight
<1>2. job'.state \in {"running", "failed"} /\ CountsStay
  BY DEF handleWake, TypeOK, Job, CountsStay
<1> QED
  BY <1>0, <1>1, <1>2, JobMoves

LEMMA KillRefines ==
  ASSUME TypeOK, RetryInv, ProcInv, handleKill
  PROVE  LifecycleStep
<1> USE DEF retry
<1>0. PICK err : Handling("kill") /\ Reply(err) /\ UNCHANGED retry
  BY DEF handleKill, NoEffect
<1>1. loop = "select" /\ (RetryInFlight' => RetryInFlight)
  BY <1>0, SettledRetry DEF RetryInFlight
<1>2. CASE NoEffect
  BY <1>1, <1>2, JobStays DEF NoEffect, CountsStay
<1>3. CASE job' = [job EXCEPT !.op = "terminating"]
  <2>1. job'.state = job.state /\ CountsStay
    BY <1>3 DEF TypeOK, Job, CountsStay
  <2> QED
    BY <1>1, <2>1, JobStays
<1>4. CASE KillRefusal(job) = "nil" /\ job' = [job EXCEPT !.op = "terminating", !.state = "failed"]
  <2>1. job.state \in {"running", "suspended"}
    BY <1>4 DEF KillRefusal
  <2>2. job'.state = "failed" /\ CountsStay
    BY <1>4 DEF TypeOK, Job, CountsStay
  <2>3. ~RetryInFlight'
    BY <1>1, <2>1, NotFailed
  <2> QED
    BY <2>1, <2>2, <2>3, JobMoves
<1> QED
  BY <1>2, <1>3, <1>4 DEF handleKill

LEMMA ExitRefines ==
  ASSUME TypeOK, RetryInv, ProcInv, handleExit
  PROVE  LifecycleStep
<1> USE DEF retry
<1>0. PICK err : Handling("exit") /\ Reply(err) /\ UNCHANGED retry
  BY DEF handleExit, NoEffect
<1>1. loop = "select" /\ (RetryInFlight' => RetryInFlight)
  BY <1>0, SettledRetry DEF RetryInFlight
<1>2. CASE NoEffect
  BY <1>1, <1>2, JobStays DEF NoEffect, CountsStay
<1>3. CASE ExitRefusal(job) = "nil" /\ job' = JobExiting(job, Head(cmdChan).exit = "zero")
  <2>1. job.state = "running"
    BY <1>3 DEF ExitRefusal
  <2>2. job'.state \in {"completed", "failed"} /\ CountsStay
    BY <1>3 DEF TypeOK, Job, JobExiting, CountsStay
  <2>3. ~RetryInFlight'
    BY <1>1, <2>1, NotFailed
  <2> QED
    BY <2>1, <2>2, <2>3, JobMoves
<1> QED
  BY <1>2, <1>3 DEF handleExit

\* A retry is handled while it is the one in flight.
LEMMA RetryRefines ==
  ASSUME TypeOK, RetryInv, ProcInv, handleRetry
  PROVE  LifecycleStep
<1>0. PICK err : Handling("retry") /\ Reply(err) /\ retryGo' = retryGo /\ job.state = "failed"
  BY DEF handleRetry
<1>1. loop = "select" /\ cmdChan # <<>> /\ Head(cmdChan).typ = "retry"
  BY <1>0 DEF Handling
<1>2. Queued("retry") /\ ~Queued("retry")' /\ (Unsent("retry")' => Unsent("retry"))
  BY <1>0, <1>1, SettleKeepsRetry DEF Reply
<1>3. ~RetryInFlight' /\ RetryInFlight
  BY <1>0, <1>2 DEF RetryInv, RetryOnce, RetryInFlight
<1>4. JobRetried(job) \in Job /\ JobRetried(job).retryCount = job.retryCount + 1
      /\ JobRetried(job).checkpointCount = job.checkpointCount /\ JobRetried(job).state = "failed"
  BY <1>0, JobTypes, JobRetryCounts, JobCheckpointCounts DEF TypeOK
<1>5. job'.state \in {"running", "failed"} /\ job'.retryCount = job.retryCount + 1
      /\ job'.checkpointCount = job.checkpointCount
  <2>1. CASE job' = JobRetried(job)
    BY <1>4, <2>1
  <2>2. CASE job' = [JobRetried(job) EXCEPT !.state = "running", !.resumeAt = @ /\ ~checkpoint]
    BY <1>4, <2>2 DEF Job
  <2> QED
    BY <2>1, <2>2 DEF handleRetry
<1>6. Phase = "retrying" /\ Phase' \in {"running", "failed"}
  BY <1>0, <1>1, <1>3, <1>5 DEF Phase
<1> QED
  BY <1>5, <1>6 DEF LifecycleStep, Lifecycle!Next, Lifecycle!Retry

\* No other step changes the job or makes a retry.
LEMMA OthersRefine ==
  ASSUME TypeOK, RetryInv, [Next]_vars,
         ~(handleStart \/ handleProcessExited \/ handleCheckpoint \/ handleWake \/ handleKill
           \/ handleExit \/ handleRetry)
  PROVE  LifecycleStep
<1> USE DEF retry, chans
<1>0. ASSUME UNCHANGED job, loop' = "select" => loop = "select", RetryInFlight' => RetryInFlight
      PROVE  LifecycleStep
  BY <1>0, JobStays DEF CountsStay
<1>1. CASE handleGetState \/ handleTakeLock \/ handleReleaseLock \/ handleWaitForResult \/ handleStop
  <2>1. PICK t, to, err, ws : Handling(t) /\ Settle(to, err, ws)
    BY <1>1 DEF handleGetState, handleTakeLock, handleReleaseLock, handleWaitForResult, handleStop, Reply
  <2>2. UNCHANGED <<job, retry>>
    BY <1>1 DEF handleGetState, handleTakeLock, handleReleaseLock, handleWaitForResult, handleStop,
       NoEffect
  <2> QED
    BY <1>0, <2>1, <2>2, SettleKeepsRetry DEF Handling, RetryInFlight
<1>2. CASE LoopCancelled \/ CloseDone \/ UNCHANGED vars
  <2>1. UNCHANGED <<job, retry, cmdChan, calls>> /\ (loop' = "select" => loop = "select")
    BY <1>2 DEF LoopCancelled, CloseDone, vars
  <2> QED
    BY <1>0, <2>1 DEF RetryInFlight, Queued, Unsent
<1>3. CASE DrainCommand
  <2>1. UNCHANGED <<job, retry, loop>> /\ cmdChan # <<>> /\ cmdChan' = Tail(cmdChan)
    BY <1>3 DEF DrainCommand
  <2>2. Unsent("retry")' => Unsent("retry")
    BY <1>3 DEF TypeOK, DrainCommand, Unsent, Callers, CallRecord
  <2>3. Queued("retry")' => Queued("retry")
    BY <2>1, Taken
  <2> QED
    BY <1>0, <2>1, <2>2, <2>3 DEF RetryInFlight
<1>4. ASSUME NEW p \in DOMAIN procs, ProcessEnds(p)
      PROVE  LifecycleStep
  BY <1>0, <1>4 DEF ProcessEnds, RetryInFlight, Queued, Unsent
<1>5. ASSUME NEW p \in DOMAIN procs, waitForProcessExit(p)
      PROVE  LifecycleStep
  <2>1. PICK e \in WaitReturns(procs[p]) :
          Send([Cmd("processExited", Nobody) EXCEPT !.exit = e, !.proc = p])
    BY <1>5 DEF waitForProcessExit
  <2> DEFINE m == [Cmd("processExited", Nobody) EXCEPT !.exit = e, !.proc = p]
  <2>2. m \in Command /\ m.typ # "retry" /\ Send(m)
    <3>1. e \in Exits /\ p \in Nat
      BY <2>1 DEF TypeOK, WaitReturns, Exits
    <3> QED
      BY <2>1, <3>1, CmdTypes DEF Cmd
  <2> HIDE DEF m
  <2>3. Queued("retry")' => Queued("retry")
    BY <2>2, Sent
  <2> QED
    BY <1>0, <1>5, <2>3 DEF waitForProcessExit, RetryInFlight, Unsent
<1>6. CASE SendRetry
  BY <1>0, <1>6 DEF SendRetry, RetryInFlight
<1>7. ASSUME NEW c \in Clients, Client(c)
      PROVE  LifecycleStep
  <2>0. c \in Callers /\ c # Creator /\ Creator \in Callers
    BY ConstantsAssumption DEF Callers
  <2>1. UNCHANGED <<job, retry, loop>>
    BY <1>7 DEF Client, Call, CallDone, Return, ReturnDone, Timeout
  <2>2. calls'[Creator] = calls[Creator]
    BY <1>7, <2>0 DEF Client, Call, CallDone, Return, ReturnDone, Timeout, TypeOK
  <2>3. Queued("retry")' => Queued("retry")
    <3>1. CASE Call(c)
      <4>1. PICK m \in ClientCommands(c) : Send(m)
        BY <3>1 DEF Call
      <4>2. m \in Command /\ m.typ # "retry"
        BY <2>0, CmdTypes DEF ClientCalls
      <4> QED
        BY <4>1, <4>2, Sent
    <3>2. CASE UNCHANGED cmdChan
      BY <3>2 DEF Queued
    <3>3. CASE Timeout(c)
      BY <2>0, <3>3, GivenUp DEF Timeout
    <3> QED
      BY <1>7, <3>1, <3>2, <3>3 DEF Client, CallDone, Return, ReturnDone
  <2> QED
    BY <1>0, <2>1, <2>2, <2>3 DEF RetryInFlight, Unsent
<1>8. CASE CreatorSteps
  <2>0. Creator \in Callers /\ UNCHANGED <<job, retry, loop>>
    BY <1>8 DEF Callers, CreatorSteps, CreatorSends, CreatorStartDone, CreatorReturns, CreatorGivesUp
  <2>1. CASE CreatorSends
    <3> DEFINE m == Cmd(calls[Creator].typ, Creator)
    <3>1. m \in Command /\ m.typ = calls[Creator].typ /\ Send(m) /\ Unsent(m.typ)
      BY <2>0, <2>1, CmdTypes DEF TypeOK, RawSend, CommandTypes, Cmd, CreatorSends, Unsent
    <3> HIDE DEF m
    <3>2. m.typ # "retry" => (Queued("retry")' => Queued("retry"))
      BY <3>1, Sent
    <3>3. Unsent("retry")' => Unsent("retry")
      BY <2>0, <2>1 DEF CreatorSends, Unsent, TypeOK, CallRecord
    <3> QED
      BY <1>0, <2>0, <3>1, <3>2, <3>3 DEF RetryInFlight
  <2>2. CASE CreatorStartDone \/ CreatorReturns \/ CreatorGivesUp
    <3>1. Unsent("retry")' => Unsent("retry")
      BY <2>2, CreatorReturned DEF Unsent
    <3>2. CASE UNCHANGED cmdChan
      BY <1>0, <2>0, <3>1, <3>2 DEF RetryInFlight, Queued
    <3>3. CASE CreatorGivesUp
      <4>1. Queued("retry")' => Queued("retry")
        BY <2>0, <3>3, GivenUp DEF CreatorGivesUp
      <4> QED
        BY <1>0, <2>0, <3>1, <4>1 DEF RetryInFlight
    <3> QED
      BY <2>2, <3>2, <3>3 DEF CreatorStartDone, CreatorReturns
  <2> QED
    BY <1>8, <2>1, <2>2 DEF CreatorSteps
<1>9. CASE Shutdown \/ Stop \/ DevCrash
  <2>1. UNCHANGED <<job, retry, loop, calls>>
    BY <1>9 DEF Shutdown, Stop, DevCrash
  <2>2. Queued("retry")' => Queued("retry")
    <3>1. CASE UNCHANGED cmdChan
      BY <3>1 DEF Queued
    <3>2. CASE Send(Cmd("stop", Nobody))
      <4>1. Cmd("stop", Nobody) \in Command /\ Cmd("stop", Nobody).typ # "retry"
        BY CmdTypes DEF CommandTypes, Cmd
      <4> QED
        BY <3>2, <4>1, Sent
    <3> QED
      BY <1>9, <3>1, <3>2 DEF Shutdown, Stop, DevCrash
  <2> QED
    BY <1>0, <2>1, <2>2 DEF RetryInFlight, Unsent
<1> QED
  BY <1>1, <1>2, <1>3, <1>4, <1>5, <1>6, <1>7, <1>8, <1>9 DEF Next, Loop

LEMMA InitRefines ==
  ASSUME Init
  PROVE  Lifecycle!Init
<1>1. PICK birth \in Births :
        /\ row \in InitialRows(birth)
        /\ job = [dbJobToJob(row) EXCEPT !.state = BornState(birth, row.state)]
        /\ calls = [c \in Callers |->
             IF c = Creator THEN [IdleCall EXCEPT !.typ = CreatorCall(birth)] ELSE IdleCall]
  BY DEF Init
<1>2. birth \in {"spawn", "interrupted", "wake", "retry"} /\ loop = "select" /\ MaxRetries \in Nat
  BY ConstantsAssumption DEF Init
<1>3. job.state = BornState(birth, row.state)
  BY <1>1 DEF dbJobToJob
<1>4. birth = "spawn" => row.state = "pending"
  BY <1>1 DEF InitialRows, InsertJob
<1>5. birth = "interrupted" => row.state = "running"
  <2> SUFFICES ASSUME birth = "interrupted"
               PROVE  row.state = "running"
    OBVIOUS
  <2>1. PICK n \in PastRetries, b \in BOOLEAN : row = InterruptedRow(n, b)
    BY <1>1 DEF InitialRows
  <2> QED
    BY <2>1 DEF InterruptedRow, InsertJob
<1>6. birth = "retry" => RetryInFlight
  BY <1>1 DEF RetryInFlight, Unsent, IdleCall, CreatorCall, RawSend, Callers
<1>7. Phase \in {"pending", "running", "suspended", "retrying"}
  BY <1>2, <1>3, <1>4, <1>5, <1>6 DEF Phase, BornState
<1>8. TypeOK /\ RetryInv
  BY InitTypes, RetryInvInit
<1>9. job.retryCount \in Nat /\ job.checkpointCount \in Nat
  BY <1>8 DEF TypeOK, Job
<1> QED
  BY <1>7, <1>9 DEF Lifecycle!Init

\* Whatever commands, exits, failures, lost writes and shutdowns come, in whatever order,
\* the job of a runner only makes the moves of JobLifecycle: in particular it leaves a
\* final state only for a retry that was due, and never makes more retries than allowed.
THEOREM RunnerImplementsLifecycle == Spec => LifecycleSpec
<1>1. ASSUME TypeOK, RetryInv, ProcInv, RowInv, [Next]_vars
      PROVE  LifecycleStep
  BY <1>1, StartRefines, ProcessExitedRefines, CheckpointRefines, WakeRefines, KillRefines,
     ExitRefines, RetryRefines, OthersRefine
<1>2. TypeOK /\ RetryInv /\ ProcInv /\ RowInv /\ [Next]_vars => [Lifecycle!Next]_(Lifecycle!vars)
  BY <1>1 DEF LifecycleStep
<1>3. Init => Lifecycle!Init
  BY InitRefines
<1> QED
  BY <1>2, <1>3, ProcInvHolds, RowInvHolds, PTL DEF Spec, LifecycleSpec, Lifecycle!Spec
=============================================================================
