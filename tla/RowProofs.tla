------------------------------- MODULE RowProofs -------------------------------
(***************************************************************************)
(* The row of a job, proved: what the row says of the job when no write    *)
(* was lost, what results and states go together, and that a row left for  *)
(* the resume poller is one it can resume.                                 *)
(*                                                                         *)
(* The row of a job that waits for an immediate retry is behind it, and so *)
(* is that of a woken job, yet their counts are not: Counted keeps what    *)
(* the row must still say for it to catch up with the next write.  A       *)
(* result is only written with the state it belongs to because a job that  *)
(* has not ended has none (JobOK), and a row is only overwritten before    *)
(* its job completed (Ahead).                                              *)
(***************************************************************************)
EXTENDS JobRunnerProofs

\* A job that has not ended has no result; one that completed has a zero exit code.
JobOK(j) ==
  /\ j.state = "completed" <=> j.result = "zero"
  /\ j.state \in {"pending", "running", "suspended"} => j.result = "nil"

RowOK(r) ==
  /\ r.state = "completed" <=> r.result = "zero"
  /\ r.state \in {"suspended", "pending_retry"} => r.resumeAt
  /\ r.state = "suspended" => r.checkpointPath

\* The row does not run ahead of the job.
Ahead(r, j) == r.state = "completed" => j.state = "completed"

Counted(r, j, c) ==
  /\ r.retryCount = j.retryCount
  /\ r.checkpointCount = j.checkpointCount
  /\ c => r.checkpointPath

Tracked(r, j, c) ==
  /\ Counted(r, j, c)
  /\ r.state = j.state
  /\ j.state \in {"suspended", "pending_retry"} => r.resumeAt
  /\ IsTerminal(j) => r.result = j.result

RowInv ==
  /\ JobOK(job) /\ RowOK(row) /\ Ahead(row, job)
  /\ lag \cap {"write", "restore"} = {} => Counted(row, job, checkpoint)
  /\ lag = {} => Tracked(row, job, checkpoint)
  /\ job.state = "pending_retry" => loop # "select"

-----------------------------------------------------------------------------
(***************************************************************************)
(* The UPDATE statements.                                                  *)
(***************************************************************************)
\* A row that has not completed stays well formed under every statement.
LEMMA UpdatesKeepRowOK ==
  ASSUME NEW r \in Row, RowOK(r)
  PROVE  /\ r.state # "completed" =>
              /\ RowOK(UpdateJobState(r, "running"))
              /\ RowOK(UpdateJobStarted(r))
              /\ RowOK(UpdateJobPendingRetry(r))
         /\ \A x \in {"nil", "nonzero"} : RowOK(UpdateJobCompleted(r, "failed", x))
         /\ RowOK(UpdateJobCompleted(r, "completed", "zero"))
         /\ \A n \in Nat : RowOK(UpdateJobRetryCount(r, n))
<1>1. r.state # "completed" => RowOK(UpdateJobState(r, "running")) /\ RowOK(UpdateJobStarted(r))
  BY DEF Row, RowOK, UpdateJobState, UpdateJobStarted
<1>2. r.state # "completed" => RowOK(UpdateJobPendingRetry(r))
  BY DEF Row, RowOK, UpdateJobPendingRetry
<1>3. \A x \in {"nil", "nonzero"} : RowOK(UpdateJobCompleted(r, "failed", x))
  BY DEF Row, RowOK, UpdateJobCompleted
<1>4. RowOK(UpdateJobCompleted(r, "completed", "zero"))
  BY DEF Row, RowOK, UpdateJobCompleted
<1>5. \A n \in Nat : RowOK(UpdateJobRetryCount(r, n))
  BY DEF Row, RowOK, UpdateJobRetryCount
<1> QED
  BY <1>1, <1>2, <1>3, <1>4, <1>5

LEMMA CheckpointedKeepsRowOK ==
  ASSUME NEW r \in Row, RowOK(r), r.state # "completed",
         NEW s \in {"running", "suspended"}, NEW b \in BOOLEAN, s = "suspended" => b
  PROVE  RowOK(UpdateJobCheckpointed(r, s, b))
<1> DEFINE u == UpdateJobCheckpointed(r, s, b)
<1>1. u.state = s /\ u.resumeAt = b /\ u.checkpointPath = TRUE /\ u.result = r.result
  BY DEF Row, UpdateJobCheckpointed
<1>2. u.state # "completed" /\ u.result # "zero"
  BY <1>1 DEF RowOK
<1> HIDE DEF u
<1>3. RowOK(u)
  BY <1>1, <1>2 DEF RowOK
<1> QED
  BY <1>3 DEF u

-----------------------------------------------------------------------------
(***************************************************************************)
(* A write, lost or not.                                                   *)
(***************************************************************************)
\* A lost write leaves the row well formed and behind; one that arrives makes it say what
\* the intended row says.
LEMMA WriteKeeps ==
  ASSUME JobOK(job'), RowOK(row'), Ahead(row', job'),
         NEW reasons, NEW new, lag' = Lagging(reasons, new),
         reasons \cap {"write", "restore"} = {} => Counted(new, job', checkpoint'),
         reasons = {} => Tracked(new, job', checkpoint'),
         job'.state = "pending_retry" => loop' # "select"
  PROVE  RowInv'
<1>1. CASE row' = new
  <2>1. lag' = reasons
    BY <1>1 DEF Lagging
  <2> QED
    BY <1>1, <2>1 DEF RowInv
<1>2. CASE row' # new
  <2>1. "write" \in lag'
    BY <1>2 DEF Lagging
  <2> QED
    BY <2>1 DEF RowInv
<1> QED
  BY <1>1, <1>2

LEMMA PersistKeeps ==
  ASSUME TypeOK, RowInv, NEW new, Persist(new), JobOK(job'), RowOK(new), Ahead(new, job'),
         job.state # "completed",
         lag \cap {"write", "restore"} = {} => Counted(new, job', checkpoint'),
         lag = {} => Tracked(new, job', checkpoint'),
         job'.state = "pending_retry" => loop' # "select"
  PROVE  RowInv'
<1>1. row' = row \/ row' = new
  BY WrittenIsOldOrNew DEF Persist
<1>2. RowOK(row') /\ Ahead(row', job')
  BY <1>1 DEF RowInv, Ahead
<1> QED
  BY <1>2, WriteKeeps DEF Persist

\* A step that leaves the row and what it says of the job alone.
LEMMA SameKeeps ==
  ASSUME RowInv, UNCHANGED <<row, lag, checkpoint>>,
         job'.state = job.state, job'.result = job.result,
         job'.retryCount = job.retryCount, job'.checkpointCount = job.checkpointCount,
         loop' = "select" => loop = "select"
  PROVE  RowInv'
  BY DEF RowInv, JobOK, Ahead, Counted, Tracked, IsTerminal

\* A job that is to be retried after a delay is not handled any more.
LEMMA SettleParks ==
  ASSUME NEW to, NEW err, NEW ws, Settle(to, err, ws)
  PROVE  job'.state = "pending_retry" => loop' # "select"
  BY DEF Settle, LoopEnds

\* The end of a job is written down with its result.
LEMMA EndedKeeps ==
  ASSUME TypeOK, RowInv, job.state # "completed", NEW s, NEW x,
         (s = "completed" /\ x = "zero") \/ (s = "failed" /\ x \in {"nil", "nonzero"}),
         Persist(UpdateJobCompleted(row, s, x)),
         job'.state = s, job'.result = x, UNCHANGED checkpoint,
         job'.retryCount = job.retryCount, job'.checkpointCount = job.checkpointCount
  PROVE  RowInv'
<1> DEFINE new == UpdateJobCompleted(row, s, x)
<1>1. new.state = s /\ new.result = x /\ new.retryCount = row.retryCount
      /\ new.checkpointCount = row.checkpointCount /\ new.checkpointPath = row.checkpointPath
  <2>1. row \in Row /\ s \in JobStates /\ x \in Results
    BY DEF TypeOK, JobStates, Results
  <2> QED
    BY <2>1 DEF Row, UpdateJobCompleted
<1>2. RowOK(new)
  BY UpdatesKeepRowOK DEF TypeOK, RowInv
<1> HIDE DEF new
<1>3. JobOK(job') /\ Ahead(new, job')
  BY <1>1 DEF JobOK, Ahead
<1>4. lag \cap {"write", "restore"} = {} => Counted(new, job', checkpoint')
  BY <1>1 DEF RowInv, Counted
<1>5. lag = {} => Tracked(new, job', checkpoint')
  BY <1>1, <1>4 DEF Tracked
<1> QED
  BY <1>2, <1>3, <1>4, <1>5, PersistKeeps DEF new

-----------------------------------------------------------------------------
(***************************************************************************)
(* The handlers.                                                           *)
(***************************************************************************)
LEMMA StartKeepsRow ==
  ASSUME TypeOK, RowInv, handleStart
  PROVE  RowInv'
<1> USE DEF disk, saved
<1>0. loop = "select"
  BY DEF handleStart, Handling
<1>1. CASE NoEffect
  BY <1>0, <1>1, SameKeeps DEF NoEffect
<1>2. CASE /\ job.state = "pending" /\ job' = [job EXCEPT !.state = "running"]
           /\ Persist(UpdateJobStarted(row)) /\ UNCHANGED checkpoint
           /\ Reply("nil")
  <2> DEFINE new == UpdateJobStarted(row)
  <2>1. job'.state = "running" /\ job'.result = "nil" /\ row.state # "completed"
        /\ job'.retryCount = job.retryCount /\ job'.checkpointCount = job.checkpointCount
    BY <1>2 DEF TypeOK, Job, RowInv, JobOK, Ahead
  <2>2. new.state = "running" /\ new.retryCount = row.retryCount
        /\ new.checkpointCount = row.checkpointCount /\ new.checkpointPath = row.checkpointPath
    BY DEF TypeOK, Row, UpdateJobStarted
  <2>3. RowOK(new)
    BY <2>1, UpdatesKeepRowOK DEF TypeOK, RowInv
  <2> HIDE DEF new
  <2>4. JobOK(job') /\ Ahead(new, job')
    BY <2>1, <2>2 DEF JobOK, Ahead
  <2>5. lag \cap {"write", "restore"} = {} => Counted(new, job', checkpoint')
    BY <1>2, <2>1, <2>2 DEF RowInv, Counted
  <2>6. lag = {} => Tracked(new, job', checkpoint')
    BY <2>1, <2>2, <2>5 DEF Tracked, IsTerminal, Terminal
  <2> QED
    BY <1>2, <2>1, <2>3, <2>4, <2>5, <2>6, PersistKeeps DEF new
<1>3. CASE /\ job.state = "pending" /\ job' = [job EXCEPT !.state = "failed"]
           /\ Persist(UpdateJobCompleted(row, "failed", "nil")) /\ UNCHANGED checkpoint
           /\ Reply("runtime")
  <2>1. job'.state = "failed" /\ job'.result = "nil"
        /\ job'.retryCount = job.retryCount /\ job'.checkpointCount = job.checkpointCount
    BY <1>3 DEF TypeOK, Job, RowInv, JobOK
  <2> QED
    BY <1>3, <2>1, EndedKeeps
<1> QED
  BY <1>1, <1>2, <1>3 DEF handleStart

LEMMA ProcessExitedKeepsRow ==
  ASSUME TypeOK, RowInv, handleProcessExited
  PROVE  RowInv'
<1> USE DEF disk, saved
<1> DEFINE exited == JobExited(job, Head(cmdChan).exit)
<1>0. loop = "select" /\ cmdChan # <<>> /\ Reply("nil")
  BY DEF handleProcessExited, Handling
<1>1. Head(cmdChan).exit \in Exits
  <2>1. Head(cmdChan) \in Command
    BY <1>0, QueueTypes DEF TypeOK
  <2> QED
    BY <2>1 DEF Command
<1>2. CASE NoEffect
  BY <1>0, <1>2, SameKeeps DEF NoEffect
<1>3. ASSUME ~IsTerminal(job), job.state # "suspended"
      PROVE  /\ exited \in Job /\ job.state \in {"pending", "running"} /\ row.state # "completed"
             /\ \/ exited.state = "completed" /\ exited.result = "zero"
                \/ exited.state = "failed" /\ exited.result \in {"nil", "nonzero"}
             /\ exited.retryCount = job.retryCount /\ exited.checkpointCount = job.checkpointCount
  <2>1. job.state \in {"pending", "running"} /\ job.result = "nil" /\ row.state # "completed"
    BY <1>0, <1>3 DEF TypeOK, Job, JobStates, RowInv, JobOK, Ahead, IsTerminal, Terminal
  <2>2. exited \in Job
    BY <1>1, JobTypes DEF TypeOK
  <2>3. exited.retryCount = job.retryCount /\ exited.checkpointCount = job.checkpointCount
    BY DEF JobExited, TypeOK, Job
  <2>4. exited.state = IF Head(cmdChan).exit = "zero" THEN "completed" ELSE "failed"
    BY DEF JobExited, TypeOK, Job
  <2>5. exited.result = CASE Head(cmdChan).exit = "error" -> "nil"
                          [] Head(cmdChan).exit = "nonzero" -> "nonzero"
                          [] Head(cmdChan).exit = "zero" -> "zero"
    BY <1>1, <2>1 DEF JobExited, TypeOK, Job, Exits
  <2> QED
    BY <1>1, <2>1, <2>2, <2>3, <2>4, <2>5 DEF Exits
<1> HIDE DEF exited
<1>4. CASE /\ ~IsTerminal(job) /\ job.state # "suspended"
           /\ job' = exited
           /\ Persist(UpdateJobCompleted(row, exited.state, exited.result))
           /\ UNCHANGED checkpoint
  BY <1>3, <1>4, EndedKeeps
<1>5. CASE /\ ~IsTerminal(job) /\ job.state # "suspended" /\ Retryable(exited)
           /\ job' = [exited EXCEPT !.state = "pending_retry", !.resumeAt = TRUE]
           /\ Persist(UpdateJobPendingRetry(row))
           /\ UNCHANGED checkpoint
  <2> DEFINE new == UpdateJobPendingRetry(row)
  <2>1. job'.state = "pending_retry" /\ job'.result = exited.result
        /\ job'.retryCount = job.retryCount /\ job'.checkpointCount = job.checkpointCount
    BY <1>3, <1>5 DEF Job
  <2>2. new.state = "pending_retry" /\ new.retryCount = row.retryCount /\ new.resumeAt = TRUE
        /\ new.checkpointCount = row.checkpointCount /\ new.checkpointPath = row.checkpointPath
    BY DEF TypeOK, Row, UpdateJobPendingRetry
  <2>3. RowOK(new)
    BY <1>3, <1>5, UpdatesKeepRowOK DEF TypeOK, RowInv
  <2> HIDE DEF new
  <2>4. JobOK(job') /\ Ahead(new, job')
    BY <1>3, <1>5, <2>1, <2>2 DEF JobOK, Ahead, Retryable
  <2>5. lag \cap {"write", "restore"} = {} => Counted(new, job', checkpoint')
    BY <1>5, <2>1, <2>2 DEF RowInv, Counted
  <2>6. lag = {} => Tracked(new, job', checkpoint')
    BY <2>1, <2>2, <2>5 DEF Tracked, IsTerminal, Terminal
  <2>7. job'.state = "pending_retry" => loop' # "select"
    BY <1>0, SettleParks DEF Reply
  <2>8. job.state # "completed"
    BY <1>5 DEF IsTerminal, Terminal
  <2> QED
    BY <1>5, <2>3, <2>4, <2>5, <2>6, <2>7, <2>8, PersistKeeps DEF new
<1>6. CASE /\ ~IsTerminal(job) /\ job.state # "suspended" /\ Retryable(exited)
           /\ job' = exited
           /\ lag' = lag \cup {"retry"}
           /\ UNCHANGED <<row, checkpoint>>
  <2>1. JobOK(job') /\ Ahead(row', job') /\ job'.state = "failed"
    BY <1>3, <1>6 DEF JobOK, Ahead, Retryable
  <2>2. lag' \cap {"write", "restore"} = {} => Counted(row', job', checkpoint')
    BY <1>3, <1>6 DEF RowInv, Counted
  <2> QED
    BY <1>6, <2>1, <2>2 DEF RowInv
<1> QED
  BY <1>2, <1>4, <1>5, <1>6 DEF handleProcessExited, exited

LEMMA CheckpointKeepsRow ==
  ASSUME TypeOK, RowInv, handleCheckpoint
  PROVE  RowInv'
<1> USE DEF disk, saved
<1> DEFINE cmd == Head(cmdChan)
<1>0. loop = "select" /\ cmdChan # <<>>
  BY DEF handleCheckpoint, Handling
<1>1. cmd.suspend \in BOOLEAN
  <2>1. cmd \in Command
    BY <1>0, QueueTypes DEF TypeOK
  <2> QED
    BY <2>1 DEF Command
<1>2. CASE NoEffect
  BY <1>0, <1>2, SameKeeps DEF NoEffect
<1>3. CASE job' = JobNotCheckpointed(job) /\ UNCHANGED <<disk, saved>>
  <2>1. job'.state = job.state /\ job'.result = job.result
        /\ job'.retryCount = job.retryCount /\ job'.checkpointCount = job.checkpointCount
    BY <1>3 DEF TypeOK, Job, JobNotCheckpointed
  <2> QED
    BY <1>0, <1>3, <2>1, SameKeeps
<1>4. CASE /\ CheckpointRefusal(cmd) = "nil"
           /\ job' = JobCheckpointed(job, cmd.suspend)
           /\ checkpoint' = TRUE
           /\ Persist(UpdateJobCheckpointed(row, job'.state, job'.resumeAt))
  <2> DEFINE new == UpdateJobCheckpointed(row, job'.state, job'.resumeAt)
  <2>1. job.state = "running" /\ job.result = "nil" /\ row.state # "completed"
    BY <1>4 DEF CheckpointRefusal, RowInv, JobOK, Ahead
  <2>2. job' \in Job
    BY <1>1, <1>4, JobTypes DEF TypeOK
  <2>3. job'.state = (IF cmd.suspend THEN "suspended" ELSE "running") /\ job'.result = "nil"
        /\ job'.retryCount = job.retryCount /\ job'.checkpointCount = job.checkpointCount + 1
    BY <1>1, <1>4, <2>1 DEF TypeOK, Job, JobCheckpointed
  <2>4. job'.state = "suspended" => job'.resumeAt
    <3>1. job'.resumeAt = (job.resumeAt \/ cmd.suspend)
      BY <1>4, Zenon DEF TypeOK, Job, JobCheckpointed
    <3> QED
      BY <2>3, <3>1
  <2>5. new.state = job'.state /\ new.resumeAt = job'.resumeAt /\ new.checkpointPath = TRUE
        /\ new.retryCount = row.retryCount /\ new.checkpointCount = row.checkpointCount + 1
    <3>1. row \in Row /\ job'.state \in JobStates /\ job'.resumeAt \in BOOLEAN
      BY <2>2 DEF TypeOK, Job
    <3> QED
      BY <3>1 DEF Row, UpdateJobCheckpointed
  <2>6. RowOK(new)
    <3>1. job'.state \in {"running", "suspended"} /\ job'.resumeAt \in BOOLEAN
      BY <2>2, <2>3 DEF Job
    <3> QED
      BY <2>1, <2>4, <3>1, CheckpointedKeepsRowOK DEF TypeOK, RowInv
  <2> HIDE DEF new
  <2>7. JobOK(job') /\ Ahead(new, job') /\ job'.state # "pending_retry"
    BY <2>3, <2>5 DEF JobOK, Ahead
  <2>8. lag \cap {"write", "restore"} = {} => Counted(new, job', checkpoint')
    BY <2>3, <2>5 DEF RowInv, Counted
  <2>9. lag = {} => Tracked(new, job', checkpoint')
    BY <2>3, <2>4, <2>5, <2>8 DEF Tracked, IsTerminal, Terminal
  <2> QED
    BY <1>4, <2>1, <2>6, <2>7, <2>8, <2>9, PersistKeeps DEF new
<1> QED
  BY <1>2, <1>3, <1>4 DEF handleCheckpoint

LEMMA WakeKeepsRow ==
  ASSUME TypeOK, RowInv, handleWake
  PROVE  RowInv'
<1> USE DEF disk, saved
<1> DEFINE awake == UpdateJobState(row, "running")
           ended(r) == UpdateJobCompleted(r, "failed", "nil")
           why == lag \ {"birth"}
<1>0. job.state = "suspended" /\ job.result = "nil" /\ row.state # "completed"
      /\ RowOK(row) /\ row \in Row /\ UNCHANGED checkpoint
  BY DEF handleWake, RowInv, JobOK, Ahead, TypeOK
<1>1. awake \in Row /\ RowOK(awake) /\ awake.state = "running"
      /\ awake.retryCount = row.retryCount
      /\ awake.checkpointCount = row.checkpointCount /\ awake.checkpointPath = row.checkpointPath
  <2>1. awake \in Row /\ RowOK(awake)
    BY <1>0, RowTypes, UpdatesKeepRowOK DEF JobStates
  <2> QED
    BY <1>0, <2>1 DEF Row, UpdateJobState
<1> HIDE DEF awake
<1>2. CASE /\ job' = [job EXCEPT !.state = "running", !.resumeAt = FALSE]
           /\ row' \in Written(row, awake)
           /\ lag' = Lagging(why, awake)
  <2>1. job'.state = "running" /\ job'.result = "nil"
        /\ job'.retryCount = job.retryCount /\ job'.checkpointCount = job.checkpointCount
    BY <1>0, <1>2 DEF TypeOK, Job
  <2>2. RowOK(row') /\ Ahead(row', job') /\ JobOK(job')
    BY <1>0, <1>1, <1>2, <2>1, WrittenIsOldOrNew DEF Ahead, JobOK
  <2>3. why \cap {"write", "restore"} = {} => Counted(awake, job', checkpoint')
    BY <1>0, <1>1, <2>1 DEF RowInv, Counted
  <2>4. why = {} => Tracked(awake, job', checkpoint')
    BY <1>1, <2>1, <2>3 DEF Tracked, IsTerminal, Terminal
  <2> HIDE DEF why
  <2> QED
    BY <1>2, <2>1, <2>2, <2>3, <2>4, WriteKeeps
<1>3. CASE /\ job' = [job EXCEPT !.state = "failed", !.resumeAt = FALSE]
           /\ row' \in UNION {Written(r, ended(r)) : r \in Written(row, awake)}
           /\ lag' = Lagging(why, ended(awake))
  <2>1. job'.state = "failed" /\ job'.result = "nil"
        /\ job'.retryCount = job.retryCount /\ job'.checkpointCount = job.checkpointCount
    BY <1>0, <1>3 DEF TypeOK, Job
  <2>2. \A r \in Row : RowOK(r) => RowOK(ended(r)) /\ ended(r).state = "failed"
    BY UpdatesKeepRowOK DEF Row, UpdateJobCompleted
  <2>3. ended(awake).state = "failed" /\ ended(awake).result = "nil"
        /\ ended(awake).retryCount = row.retryCount
        /\ ended(awake).checkpointCount = row.checkpointCount
        /\ ended(awake).checkpointPath = row.checkpointPath
    BY <1>1 DEF Row, UpdateJobCompleted
  <2> HIDE DEF ended
  <2>4. RowOK(row') /\ Ahead(row', job') /\ JobOK(job')
    <3>1. PICK r \in Written(row, awake) : row' \in Written(r, ended(r))
      BY <1>3
    <3>2. r \in Row /\ RowOK(r) /\ r.state # "completed"
      BY <1>0, <1>1, WrittenIsOldOrNew
    <3>3. RowOK(row') /\ row'.state # "completed"
      BY <2>2, <3>1, <3>2, WrittenIsOldOrNew
    <3> QED
      BY <2>1, <3>3 DEF Ahead, JobOK
  <2>5. why \cap {"write", "restore"} = {} => Counted(ended(awake), job', checkpoint')
    BY <1>0, <2>1, <2>3 DEF RowInv, Counted
  <2>6. why = {} => Tracked(ended(awake), job', checkpoint')
    BY <2>1, <2>3, <2>5 DEF Tracked
  <2> HIDE DEF why
  <2> QED
    BY <1>3, <2>1, <2>4, <2>5, <2>6, WriteKeeps
<1> QED
  BY <1>2, <1>3 DEF handleWake, awake

LEMMA KillKeepsRow ==
  ASSUME TypeOK, RowInv, handleKill
  PROVE  RowInv'
<1> USE DEF disk, saved
<1>0. loop = "select"
  BY DEF handleKill, Handling
<1>1. CASE NoEffect
  BY <1>0, <1>1, SameKeeps DEF NoEffect
<1>2. CASE job' = [job EXCEPT !.op = "terminating"] /\ UNCHANGED <<disk, saved>>
  <2>1. job'.state = job.state /\ job'.result = job.result
        /\ job'.retryCount = job.retryCount /\ job'.checkpointCount = job.checkpointCount
    BY <1>2 DEF TypeOK, Job
  <2> QED
    BY <1>0, <1>2, <2>1, SameKeeps
<1>3. CASE /\ KillRefusal(job) = "nil"
           /\ job' = [job EXCEPT !.op = "terminating", !.state = "failed"]
           /\ Persist(UpdateJobCompleted(row, "failed", "nil"))
           /\ UNCHANGED saved
  <2>1. job.state \in {"running", "suspended"}
    BY <1>3 DEF KillRefusal
  <2>2. job'.state = "failed" /\ job'.result = "nil"
        /\ job'.retryCount = job.retryCount /\ job'.checkpointCount = job.checkpointCount
    BY <1>3, <2>1 DEF TypeOK, Job, RowInv, JobOK
  <2> QED
    BY <1>3, <2>1, <2>2, EndedKeeps
<1> QED
  BY <1>1, <1>2, <1>3 DEF handleKill

LEMMA ExitKeepsRow ==
  ASSUME TypeOK, RowInv, handleExit
  PROVE  RowInv'
<1> USE DEF disk, saved
<1>0. loop = "select"
  BY DEF handleExit, Handling
<1>1. CASE NoEffect
  BY <1>0, <1>1, SameKeeps DEF NoEffect
<1>2. CASE /\ ExitRefusal(job) = "nil"
           /\ job' = JobExiting(job, Head(cmdChan).exit = "zero")
           /\ Persist(UpdateJobCompleted(row, job'.state, job'.result))
           /\ UNCHANGED saved
  <2>1. job.state = "running"
    BY <1>2 DEF ExitRefusal
  <2>2. /\ \/ job'.state = "completed" /\ job'.result = "zero"
           \/ job'.state = "failed" /\ job'.result = "nonzero"
        /\ job'.retryCount = job.retryCount /\ job'.checkpointCount = job.checkpointCount
    BY <1>2 DEF TypeOK, Job, JobExiting
  <2> QED
    BY <1>2, <2>1, <2>2, EndedKeeps
<1> QED
  BY <1>1, <1>2 DEF handleExit

\* A retry writes its count and then its outcome, and either write may be lost.
LEMMA RetryKeepsRow ==
  ASSUME TypeOK, RowInv, handleRetry
  PROVE  RowInv'
<1> USE DEF disk, saved
<1> DEFINE counted == UpdateJobRetryCount(row, job.retryCount + 1)
           ended(r) == UpdateJobCompleted(r, "failed", "nil")
           why == lag \ {"birth", "retry"}
<1>0. job.state = "failed" /\ row.state # "completed" /\ RowOK(row) /\ row \in Row
      /\ UNCHANGED checkpoint /\ job.retryCount + 1 \in Nat
  BY DEF handleRetry, RowInv, Ahead, TypeOK, Job
<1>1. counted \in Row /\ RowOK(counted) /\ counted.state # "completed"
      /\ counted.retryCount = job.retryCount + 1
      /\ counted.checkpointCount = row.checkpointCount /\ counted.checkpointPath = row.checkpointPath
  <2>1. counted \in Row /\ RowOK(counted)
    BY <1>0, RowTypes, UpdatesKeepRowOK
  <2> QED
    BY <1>0, <2>1 DEF Row, UpdateJobRetryCount
<1>2. JobRetried(job) \in Job /\ JobRetried(job).state = "failed" /\ JobRetried(job).result = "nil"
      /\ JobRetried(job).retryCount = job.retryCount + 1
      /\ JobRetried(job).checkpointCount = job.checkpointCount
  BY <1>0, JobTypes DEF TypeOK, Job, JobRetried
<1>3. \A r \in Written(row, counted) : r \in Row /\ RowOK(r) /\ r.state # "completed"
  BY <1>0, <1>1, WrittenIsOldOrNew
<1> HIDE DEF counted
<1>4. CASE /\ job' = [JobRetried(job) EXCEPT !.state = "running", !.resumeAt = @ /\ ~checkpoint]
           /\ row' \in UNION {Written(r, UpdateJobStarted(r)) : r \in Written(row, counted)}
           /\ lag' = Lagging(why, UpdateJobStarted(counted))
  <2> DEFINE new == UpdateJobStarted(counted)
  <2>1. job'.state = "running" /\ job'.result = "nil"
        /\ job'.retryCount = job.retryCount + 1 /\ job'.checkpointCount = job.checkpointCount
    BY <1>2, <1>4 DEF Job
  <2>2. new.state = "running" /\ new.retryCount = job.retryCount + 1
        /\ new.checkpointCount = row.checkpointCount /\ new.checkpointPath = row.checkpointPath
    BY <1>1 DEF Row, UpdateJobStarted
  <2>3. \A r \in Row : RowOK(r) /\ r.state # "completed" =>
          RowOK(UpdateJobStarted(r)) /\ UpdateJobStarted(r).state = "running"
    BY UpdatesKeepRowOK DEF Row, UpdateJobStarted
  <2>4. RowOK(row') /\ Ahead(row', job') /\ JobOK(job')
    <3>1. PICK r \in Written(row, counted) : row' \in Written(r, UpdateJobStarted(r))
      BY <1>4
    <3>2. RowOK(row') /\ row'.state # "completed"
      BY <1>3, <2>3, <3>1, WrittenIsOldOrNew
    <3> QED
      BY <2>1, <3>2 DEF Ahead, JobOK
  <2>5. lag' = Lagging(why, new)
    BY <1>4
  <2> HIDE DEF new
  <2>6. why \cap {"write", "restore"} = {} => Counted(new, job', checkpoint')
    BY <1>0, <2>1, <2>2 DEF RowInv, Counted
  <2>7. why = {} => Tracked(new, job', checkpoint')
    BY <2>1, <2>2, <2>6 DEF Tracked, IsTerminal, Terminal
  <2> HIDE DEF why
  <2> QED
    BY <2>1, <2>4, <2>5, <2>6, <2>7, WriteKeeps
<1>5. CASE /\ job' = JobRetried(job)
           /\ row' \in UNION {Written(r, ended(r)) : r \in Written(row, counted)}
           /\ lag' = Lagging(why, ended(counted))
  <2>1. ended(counted).state = "failed" /\ ended(counted).result = "nil"
        /\ ended(counted).retryCount = job.retryCount + 1
        /\ ended(counted).checkpointCount = row.checkpointCount
        /\ ended(counted).checkpointPath = row.checkpointPath
    BY <1>1 DEF Row, UpdateJobCompleted
  <2>2. \A r \in Row : RowOK(r) => RowOK(ended(r)) /\ ended(r).state = "failed"
    BY UpdatesKeepRowOK DEF Row, UpdateJobCompleted
  <2> HIDE DEF ended
  <2>3. RowOK(row') /\ Ahead(row', job') /\ JobOK(job')
    <3>1. PICK r \in Written(row, counted) : row' \in Written(r, ended(r))
      BY <1>5
    <3>2. RowOK(row') /\ row'.state # "completed"
      BY <1>3, <2>2, <3>1, WrittenIsOldOrNew
    <3> QED
      BY <1>2, <1>5, <3>2 DEF Ahead, JobOK
  <2>4. why \cap {"write", "restore"} = {} => Counted(ended(counted), job', checkpoint')
    BY <1>0, <1>2, <1>5, <2>1 DEF RowInv, Counted
  <2>5. why = {} => Tracked(ended(counted), job', checkpoint')
    BY <1>2, <1>5, <2>1, <2>4 DEF Tracked
  <2> HIDE DEF why
  <2> QED
    BY <1>2, <1>5, <2>3, <2>4, <2>5, WriteKeeps
<1>6. CASE /\ job' = JobRetried(job)
           /\ row' \in Written(row, counted)
           /\ lag' = Lagging(why \cup {"restore"}, counted)
  <2>1. RowOK(row') /\ Ahead(row', job') /\ JobOK(job')
    BY <1>2, <1>3, <1>6 DEF Ahead, JobOK
  <2>2. "restore" \in lag'
    BY <1>6 DEF Lagging
  <2> QED
    BY <1>2, <1>6, <2>1, <2>2 DEF RowInv
<1> QED
  BY <1>4, <1>5, <1>6 DEF handleRetry, counted

-----------------------------------------------------------------------------
\* A runner is born with a row that says what its job is, or with the lag its creator
\* causes.
LEMMA RowInvInit ==
  ASSUME Init
  PROVE  RowInv
<1>1. PICK birth \in Births :
        /\ row \in InitialRows(birth)
        /\ job = [dbJobToJob(row) EXCEPT !.state = BornState(birth, row.state)]
        /\ lag = IF birth \in RawSend THEN {"birth"} ELSE {}
        /\ checkpoint \in Reconstructed(birth, row.checkpointPath)
  BY DEF Init
<1>2. birth \in {"spawn", "interrupted", "wake", "retry"}
  BY ConstantsAssumption
<1>3. /\ job.state = BornState(birth, row.state) /\ job.result = row.result
      /\ job.retryCount = row.retryCount /\ job.checkpointCount = row.checkpointCount
  BY <1>1 DEF dbJobToJob
<1>4. checkpoint => row.checkpointPath
  <2>1. row.checkpointPath \in BOOLEAN
    BY InitTypes DEF TypeOK, Row
  <2> QED
    BY <1>1, <2>1 DEF Reconstructed
<1>5. /\ row.result = "nil" /\ RowOK(row)
      /\ row.state \in {"pending", "running", "suspended", "pending_retry"}
      /\ birth \in {"spawn", "interrupted"} => row.state \in {"pending", "running"}
  <2>1. CASE birth = "spawn"
    BY <1>1, <2>1 DEF InitialRows, InsertJob, RowOK
  <2>2. CASE birth = "interrupted"
    <3>1. PICK n \in PastRetries, b \in BOOLEAN : row = InterruptedRow(n, b)
      BY <1>1, <2>2 DEF InitialRows
    <3> QED
      BY <2>2, <3>1 DEF InterruptedRow, InsertJob, RowOK
  <2>3. CASE birth = "wake"
    <3>1. PICK s \in {"suspended", "running"}, n \in PastRetries, b \in BOOLEAN :
            /\ row = [state |-> s, retryCount |-> n, checkpointCount |-> 1, resumeAt |-> b,
                      result |-> "nil", checkpointPath |-> TRUE]
            /\ row.state = "suspended" => row.resumeAt
      BY <1>1, <2>3 DEF InitialRows
    <3> QED
      BY <2>3, <3>1 DEF RowOK
  <2>4. CASE birth = "retry"
    BY <1>1, <2>4 DEF InitialRows, RowOK
  <2> QED
    BY <1>2, <2>1, <2>2, <2>3, <2>4
<1>6. job.state \in {"pending", "running", "suspended", "failed"}
      /\ (birth \in {"spawn", "interrupted"} => job.state = row.state)
  BY <1>2, <1>3, <1>5 DEF BornState
<1>7. JobOK(job) /\ Ahead(row, job) /\ Counted(row, job, checkpoint)
  BY <1>3, <1>4, <1>5, <1>6 DEF JobOK, Ahead, Counted
<1>8. lag = {} => Tracked(row, job, checkpoint)
  BY <1>1, <1>2, <1>3, <1>5, <1>6, <1>7 DEF Tracked, RawSend, RowOK, IsTerminal
<1> QED
  BY <1>5, <1>6, <1>7, <1>8 DEF RowInv

LEMMA RowInvStep ==
  ASSUME TypeOK, RowInv, [Next]_vars
  PROVE  RowInv'
<1> USE DEF disk, saved, chans
<1>1. CASE handleStart \/ handleProcessExited \/ handleCheckpoint \/ handleWake \/ handleKill
           \/ handleExit \/ handleRetry
  BY <1>1, StartKeepsRow, ProcessExitedKeepsRow, CheckpointKeepsRow, WakeKeepsRow, KillKeepsRow,
     ExitKeepsRow, RetryKeepsRow
<1>2. CASE UNCHANGED <<job, row, lag, checkpoint>> /\ (loop' = "select" => loop = "select")
  BY <1>2, SameKeeps
<1>3. CASE handleGetState \/ handleTakeLock \/ handleReleaseLock \/ handleWaitForResult \/ handleStop
  BY <1>2, <1>3 DEF handleGetState, handleTakeLock, handleReleaseLock, handleWaitForResult,
     handleStop, NoEffect, Handling
<1>4. CASE LoopCancelled \/ DrainCommand \/ CloseDone
  BY <1>2, <1>4 DEF LoopCancelled, DrainCommand, CloseDone
<1>5. CASE \/ \E p \in DOMAIN procs : ProcessEnds(p) \/ waitForProcessExit(p)
           \/ SendRetry \/ \E c \in Clients : Client(c)
  BY <1>2, <1>5 DEF ProcessEnds, waitForProcessExit, SendRetry, Client, Call, CallDone, Return,
     ReturnDone, Timeout
<1>6. CASE CreatorSteps \/ Shutdown \/ Stop \/ DevCrash
  BY <1>2, <1>6 DEF CreatorSteps, CreatorSends, CreatorStartDone, CreatorReturns, CreatorGivesUp,
     Shutdown, Stop, DevCrash
<1>7. CASE UNCHANGED vars
  BY <1>2, <1>7 DEF vars
<1> QED
  BY <1>1, <1>3, <1>4, <1>5, <1>6, <1>7 DEF Next, Loop

LEMMA RowInvHolds == Spec => []RowInv
<1>1. TypeOK /\ RowInv /\ [Next]_vars => RowInv'
  BY RowInvStep
<1> QED
  BY <1>1, RowInvInit, TypeCorrect, PTL DEF Spec

\* When no write was lost and no immediate retry is due, the row says what the job is: a
\* runner evicted from memory, or lost in a crash, is rebuilt from it as it was.
THEOREM RowsTrackJobs == Spec => []RowTracksJob
<1>1. RowInv => RowTracksJob
  BY DEF RowInv, Tracked, Counted, RowTracksJob
<1> QED
  BY <1>1, RowInvHolds, PTL

\* A zero exit code belongs to a completed job and to no other, in memory and in the row,
\* whichever of handleExit, handleProcessExited and handleKill came first and whatever
\* writes were lost.
THEOREM ResultsMatchStates == Spec => []ResultMatchesState
<1>1. RowInv => ResultMatchesState
  BY DEF RowInv, JobOK, RowOK, ResultMatchesState
<1> QED
  BY <1>1, RowInvHolds, PTL

\* A row left for the resume poller has a time to resume at and, if it is suspended, a
\* checkpoint, even when writes before or after it were lost.
THEOREM ParkedRowsAreResumable == Spec => []ParkedRowsResumable
<1>1. RowInv => ParkedRowsResumable
  BY DEF RowInv, RowOK, ParkedRowsResumable
<1> QED
  BY <1>1, RowInvHolds, PTL
=============================================================================
