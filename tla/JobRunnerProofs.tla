--------------------------- MODULE JobRunnerProofs ---------------------------
(***************************************************************************)
(* Proofs about JobRunner, for every set of clients and tokens, every      *)
(* retry policy, every channel capacity and every set of faults: its       *)
(* types, and its retries.                                                 *)
(***************************************************************************)
EXTENDS JobRunner, SequenceTheorems, TLAPS

-----------------------------------------------------------------------------
(***************************************************************************)
(* What the operators of Jobs and JobRunner return.                        *)
(***************************************************************************)
\* The UPDATE statements map rows to rows.
LEMMA RowTypes ==
  ASSUME NEW r \in Row
  PROVE  /\ \A s \in JobStates : UpdateJobState(r, s) \in Row
         /\ UpdateJobStarted(r) \in Row
         /\ \A s \in JobStates, b \in BOOLEAN : UpdateJobCheckpointed(r, s, b) \in Row
         /\ \A s \in JobStates, x \in Results : UpdateJobCompleted(r, s, x) \in Row
         /\ \A n \in Nat : UpdateJobRetryCount(r, n) \in Row
         /\ UpdateJobPendingRetry(r) \in Row
<1>1. \A s \in JobStates : UpdateJobState(r, s) \in Row
  BY DEF Row, UpdateJobState
<1>2. UpdateJobStarted(r) \in Row /\ UpdateJobPendingRetry(r) \in Row
  BY DEF Row, JobStates, UpdateJobStarted, UpdateJobPendingRetry
<1>3. \A s \in JobStates, b \in BOOLEAN : UpdateJobCheckpointed(r, s, b) \in Row
  <2>1. r.checkpointCount + 1 \in Nat
    BY DEF Row
  <2> QED
    BY <2>1, Zenon DEF Row, UpdateJobCheckpointed
<1>4. \A s \in JobStates, x \in Results : UpdateJobCompleted(r, s, x) \in Row
  BY DEF Row, UpdateJobCompleted
<1>5. \A n \in Nat : UpdateJobRetryCount(r, n) \in Row
  BY DEF Row, UpdateJobRetryCount
<1> QED
  BY <1>1, <1>2, <1>3, <1>4, <1>5

\* The handlers' changes map jobs to jobs.
LEMMA JobTypes ==
  ASSUME NEW j \in Job
  PROVE  /\ \A e \in Exits : JobExited(j, e) \in Job
         /\ \A b \in BOOLEAN : JobCheckpointed(j, b) \in Job
         /\ JobNotCheckpointed(j) \in Job
         /\ \A b \in BOOLEAN : JobExiting(j, b) \in Job
         /\ JobRetried(j) \in Job
         /\ \A s \in JobStates : [j EXCEPT !.state = s] \in Job
         /\ \A s \in JobStates, b \in BOOLEAN : [j EXCEPT !.state = s, !.resumeAt = b] \in Job
         /\ \A o \in JobOps, s \in JobStates : [j EXCEPT !.op = o, !.state = s] \in Job
         /\ \A o \in JobOps : [j EXCEPT !.op = o] \in Job
<1>0. j.checkpointCount + 1 \in Nat /\ j.retryCount + 1 \in Nat
  BY DEF Job
<1>1. \A e \in Exits : JobExited(j, e) \in Job
  BY DEF Job, JobStates, Results, JobExited, Exits
<1>2. \A b \in BOOLEAN : JobCheckpointed(j, b) \in Job
  <2>1. \A b \in BOOLEAN : (IF b THEN "suspended" ELSE j.state) \in JobStates
    BY DEF Job, JobStates
  <2> QED
    BY <1>0, <2>1, Zenon DEF Job, JobOps, JobCheckpointed
<1>3. JobNotCheckpointed(j) \in Job /\ JobRetried(j) \in Job
  BY <1>0, Zenon DEF Job, JobOps, Results, JobNotCheckpointed, JobRetried
<1>4. \A b \in BOOLEAN : JobExiting(j, b) \in Job
  BY DEF Job, JobOps, JobStates, Results, JobExiting
<1>5. \A s \in JobStates : [j EXCEPT !.state = s] \in Job
  BY DEF Job
<1>6. \A s \in JobStates, b \in BOOLEAN : [j EXCEPT !.state = s, !.resumeAt = b] \in Job
  BY Zenon DEF Job
<1>7. \A o \in JobOps, s \in JobStates : [j EXCEPT !.op = o, !.state = s] \in Job
  BY DEF Job
<1>8. \A o \in JobOps : [j EXCEPT !.op = o] \in Job
  BY DEF Job
<1> QED
  BY <1>1, <1>2, <1>3, <1>4, <1>5, <1>6, <1>7, <1>8

\* A write leaves the old row or the new one.
LEMMA WrittenIsOldOrNew ==
  ASSUME NEW old, NEW new, NEW r \in Written(old, new)
  PROVE  r = old \/ r = new
  BY DEF Written

LEMMA PersistTypes ==
  ASSUME TypeOK, NEW new \in Row, Persist(new)
  PROVE  row' \in Row /\ lag' \subseteq {"birth", "write", "retry", "restore"}
  BY WrittenIsOldOrNew DEF TypeOK, Persist, Lagging

\* The head of a non-empty queue is a command and the rest a queue.
LEMMA QueueTypes ==
  ASSUME NEW q \in Seq(Command), q # <<>>
  PROVE  Head(q) \in Command /\ Tail(q) \in Seq(Command)
  OBVIOUS

LEMMA SettleTypes ==
  ASSUME TypeOK, cmdChan # <<>>, NEW to, NEW err \in Errors,
         NEW ws \in SUBSET Callers, Settle(to, err, ws)
  PROVE  /\ cmdChan' \in Seq(Command)
         /\ loop' \in {"select", "draining", "done", "panicked"}
         /\ waiters' \subseteq Callers
         /\ calls' \in [Callers -> CallRecord]
         /\ calls'[Creator].typ = calls[Creator].typ
<1>1. cmdChan' \in Seq(Command)
  BY QueueTypes DEF TypeOK, Settle
<1>2. loop' \in {"select", "draining", "done", "panicked"} /\ waiters' \subseteq Callers
  BY DEF Settle
<1>3. calls' \in [Callers -> CallRecord]
  <2>1. ASSUME NEW c \in Callers, NEW e \in Errors
        PROVE  [calls[c] EXCEPT !.st = "answered", !.err = e] \in CallRecord
    BY DEF TypeOK, CallRecord
  <2>2. "nil" \in Errors
    BY DEF Errors
  <2> QED
    BY <2>1, <2>2 DEF TypeOK, Settle
<1>4. calls'[Creator].typ = calls[Creator].typ
  BY DEF TypeOK, Settle, Callers, CallRecord
<1> QED
  BY <1>1, <1>2, <1>3, <1>4

\* The rows a runner may be created from.
LEMMA InitialRowTypes ==
  ASSUME NEW birth \in {"spawn", "interrupted", "wake", "retry"}, NEW r \in InitialRows(birth)
  PROVE  r \in Row
<1>1. CASE birth = "spawn"
  <2>1. r = [state |-> "pending", retryCount |-> 0, checkpointCount |-> 0,
             resumeAt |-> FALSE, result |-> "nil", checkpointPath |-> FALSE]
    BY <1>1 DEF InitialRows, InsertJob
  <2> QED
    BY <2>1 DEF Row, JobStates, Results
<1>2. CASE birth = "interrupted"
  <2>1. PICK n \in PastRetries, b \in BOOLEAN : r = InterruptedRow(n, b)
    BY <1>2 DEF InitialRows
  <2>2. n \in Nat
    BY ConstantsAssumption
  <2> QED
    BY <2>1, <2>2, Zenon DEF InterruptedRow, InsertJob, Row, JobStates, Results
<1>3. CASE birth = "wake"
  <2>1. PICK s \in {"suspended", "running"}, n \in PastRetries, b \in BOOLEAN :
          r = [state |-> s, retryCount |-> n, checkpointCount |-> 1, resumeAt |-> b,
               result |-> "nil", checkpointPath |-> TRUE]
    BY <1>3 DEF InitialRows
  <2>2. n \in Nat
    BY ConstantsAssumption
  <2> QED
    BY <2>1, <2>2, Zenon DEF Row, JobStates, Results
<1>4. CASE birth = "retry"
  <2>1. PICK n \in PastRetries, p \in BOOLEAN :
          r = [state |-> "pending_retry", retryCount |-> n,
               checkpointCount |-> IF p THEN 1 ELSE 0,
               resumeAt |-> TRUE, result |-> "nil", checkpointPath |-> p]
    BY <1>4 DEF InitialRows
  <2>2. n \in Nat
    BY ConstantsAssumption
  <2> QED
    BY <2>1, <2>2 DEF Row, JobStates, Results
<1> QED
  BY <1>1, <1>2, <1>3, <1>4

\* The initial states.
LEMMA InitTypes ==
  ASSUME Init
  PROVE  TypeOK
<1>1. PICK birth \in Births :
        /\ row \in InitialRows(birth)
        /\ job = [dbJobToJob(row) EXCEPT !.state = BornState(birth, row.state)]
        /\ lag = IF birth \in RawSend THEN {"birth"} ELSE {}
        /\ budget = Budget(birth, row.retryCount)
        /\ checkpoint \in Reconstructed(birth, row.checkpointPath)
        /\ calls = [c \in Callers |->
             IF c = Creator THEN [IdleCall EXCEPT !.typ = CreatorCall(birth)] ELSE IdleCall]
  BY DEF Init
<1>2. birth \in {"spawn", "interrupted", "wake", "retry"}
  BY ConstantsAssumption
<1>3. row \in Row
  BY <1>1, <1>2, InitialRowTypes
<1>4. job \in Job
  BY <1>1, <1>2, <1>3, Zenon DEF dbJobToJob, BornState, Job, Row, JobStates, JobOps
<1>5. lag \subseteq {"birth", "write", "retry", "restore"}
  BY <1>1
<1>6. checkpoint \in BOOLEAN
  BY <1>1, <1>3, Zenon DEF Reconstructed, Row
<1>7. calls \in [Callers -> CallRecord]
  BY <1>1, <1>2 DEF IdleCall, CreatorCall, RawSend, CallRecord, CommandTypes, ClientCalls, Errors
<1>10. calls[Creator].typ \in {"start"} \cup RawSend
  BY <1>1 DEF IdleCall, CreatorCall, Callers
<1>8. procs \in Seq({"running", "exited", "removed"}) /\ cmdChan \in Seq(Command)
  BY DEF Init
<1>9. delayed \in BOOLEAN
  BY ConstantsAssumption DEF Init
<1>11. budget \in Nat
  <2>1. row.retryCount \in Nat /\ MaxRetries \in Nat
    BY <1>3, ConstantsAssumption DEF Row
  <2>2. budget = Budget(birth, row.retryCount)
    BY <1>1
  <2> QED
    BY <2>1, <2>2 DEF Budget
<1> QED
  BY <1>3, <1>4, <1>5, <1>6, <1>7, <1>8, <1>9, <1>10, <1>11 DEF Init, TypeOK

-----------------------------------------------------------------------------
(***************************************************************************)
(* Type correctness: one lemma per handler.                                *)
(***************************************************************************)
LEMMA ReplyTypes ==
  ASSUME TypeOK, NEW t, Handling(t), NEW err \in Errors, Reply(err)
  PROVE  /\ cmdChan' \in Seq(Command)
         /\ loop' \in {"select", "draining", "done", "panicked"}
         /\ waiters' \subseteq Callers
         /\ calls' \in [Callers -> CallRecord]
         /\ calls'[Creator].typ = calls[Creator].typ
  BY SettleTypes DEF TypeOK, Handling, Reply

LEMMA NewProcessTypes ==
  ASSUME TypeOK, NewProcess
  PROVE  procs' \in Seq({"running", "exited", "removed"}) /\ watching' \subseteq DOMAIN procs'
  BY DEF TypeOK, NewProcess

LEMMA RestoreTypes ==
  ASSUME TypeOK, RestoredProcess \/ NotRestored
  PROVE  procs' \in Seq({"running", "exited", "removed"}) /\ watching' \subseteq DOMAIN procs'
<1> DEFINE S == {"running", "exited", "removed"}
<1>1. procs \in Seq(S) /\ watching \subseteq DOMAIN procs
      /\ Len(procs) \in Nat /\ DOMAIN procs = 1..Len(procs)
  BY LenProperties DEF TypeOK
<1>2. [p \in DOMAIN procs |-> "removed"] \in [1..Len(procs) -> S]
  BY <1>1
<1>3. \A left \in Leftovers : left \in Seq(S) /\ Len(left) = Len(procs)
  BY <1>1, <1>2, SeqDef, LenProperties DEF Leftovers
<1>4. CASE NotRestored
  BY <1>1, <1>3, <1>4, LenProperties DEF NotRestored
<1>5. CASE RestoredProcess
  <2>1. PICK left \in Leftovers : procs' = Append(left, "running")
    BY <1>5 DEF RestoredProcess
  <2> QED
    BY <1>1, <1>3, <1>5, <2>1, AppendProperties, LenProperties DEF RestoredProcess
<1> QED
  BY <1>4, <1>5

\* Changing the status of the current process keeps the sequence of processes.
LEMMA LastProcTypes ==
  ASSUME TypeOK, NEW s \in {"running", "exited", "removed"}
  PROVE  /\ [procs EXCEPT ![Len(procs)] = s] \in Seq({"running", "exited", "removed"})
         /\ DOMAIN [procs EXCEPT ![Len(procs)] = s] = DOMAIN procs
<1> DEFINE S == {"running", "exited", "removed"}
<1>1. procs \in [1..Len(procs) -> S] /\ Len(procs) \in Nat
  BY LenProperties DEF TypeOK
<1>2. [procs EXCEPT ![Len(procs)] = s] \in [1..Len(procs) -> S]
  BY <1>1
<1> QED
  BY <1>1, <1>2, SeqDef

LEMMA StartTypes ==
  ASSUME TypeOK, handleStart
  PROVE  TypeOK'
<1> USE DEF disk, world, saved, retry, ctxs
<1>0. Handling("start") /\ {"nil", "state", "runtime"} \subseteq Errors
  BY DEF handleStart, Errors
<1>1. CASE NoEffect /\ Reply("state")
  BY <1>0, <1>1, ReplyTypes DEF TypeOK, NoEffect
<1>2. CASE /\ job' = [job EXCEPT !.state = "running"]
           /\ Persist(UpdateJobStarted(row))
           /\ NewProcess
           /\ UNCHANGED <<saved, retry, ctxs>>
           /\ Reply("nil")
  <2>1. job' \in Job
    BY <1>2, JobTypes DEF TypeOK, JobStates
  <2>2. row' \in Row /\ lag' \subseteq {"birth", "write", "retry", "restore"}
    BY <1>2, RowTypes, PersistTypes DEF TypeOK
  <2> QED
    BY <1>0, <1>2, <2>1, <2>2, NewProcessTypes, ReplyTypes DEF TypeOK
<1>3. CASE /\ job' = [job EXCEPT !.state = "failed"]
           /\ Persist(UpdateJobCompleted(row, "failed", "nil"))
           /\ UNCHANGED <<world, saved, retry, ctxs>>
           /\ Reply("runtime")
  <2>1. job' \in Job
    BY <1>3, JobTypes DEF TypeOK, JobStates
  <2>2. row' \in Row /\ lag' \subseteq {"birth", "write", "retry", "restore"}
    BY <1>3, RowTypes, PersistTypes DEF TypeOK, JobStates, Results
  <2> QED
    BY <1>0, <1>3, <2>1, <2>2, ReplyTypes DEF TypeOK
<1> QED
  BY <1>1, <1>2, <1>3 DEF handleStart

LEMMA ProcessExitedTypes ==
  ASSUME TypeOK, handleProcessExited
  PROVE  TypeOK'
<1> USE DEF disk, world, saved, retry, ctxs
<1> DEFINE cmd == Head(cmdChan)
           exited == JobExited(job, cmd.exit)
<1>0. Handling("processExited") /\ Reply("nil") /\ "nil" \in Errors
  BY DEF handleProcessExited, Errors
<1>1. /\ cmdChan' \in Seq(Command)
      /\ loop' \in {"select", "draining", "done", "panicked"}
      /\ waiters' \subseteq Callers
      /\ calls' \in [Callers -> CallRecord]
      /\ calls'[Creator].typ = calls[Creator].typ
  BY <1>0, ReplyTypes
<1>2. CASE NoEffect
  BY <1>1, <1>2 DEF TypeOK, NoEffect
<1>3. CASE /\ ~IsTerminal(job) /\ job.state # "suspended"
           /\ Cleanup
           /\ UNCHANGED <<watching, saved, ctxs>>
  <2>1. exited \in Job
    <3>1. cmd \in Command
      BY <1>0, QueueTypes DEF TypeOK, Handling
    <3>2. cmd.exit \in Exits
      BY <3>1 DEF Command
    <3> QED
      BY <3>2, JobTypes DEF TypeOK
  <2>2. procs' \in Seq({"running", "exited", "removed"}) /\ watching' \subseteq DOMAIN procs'
    <3>1. CASE procs' = [procs EXCEPT ![Len(procs)] = "removed"]
      BY <1>3, <3>1, LastProcTypes DEF TypeOK
    <3>2. CASE procs' = [procs EXCEPT ![Len(procs)] = LastProc]
      <4>1. procs' = procs
        BY <3>2 DEF TypeOK, LastProc
      <4> QED
        BY <1>3, <4>1 DEF TypeOK
    <3> QED
      BY <1>3, <3>1, <3>2 DEF Cleanup
  <2>3. CASE /\ job' = exited
             /\ Persist(UpdateJobCompleted(row, exited.state, exited.result))
             /\ UNCHANGED retry
    <3>1. row' \in Row /\ lag' \subseteq {"birth", "write", "retry", "restore"}
      <4>1. exited.state \in JobStates /\ exited.result \in Results
        BY <2>1 DEF Job
      <4> QED
        BY <2>3, <4>1, RowTypes, PersistTypes DEF TypeOK
    <3> QED
      BY <1>1, <1>3, <2>1, <2>2, <2>3, <3>1 DEF TypeOK
  <2>4. CASE /\ job' = [exited EXCEPT !.state = "pending_retry", !.resumeAt = TRUE]
             /\ Persist(UpdateJobPendingRetry(row))
             /\ UNCHANGED retry
    <3>1. job' \in Job
      BY <2>1, <2>4, JobTypes DEF JobStates
    <3>2. row' \in Row /\ lag' \subseteq {"birth", "write", "retry", "restore"}
      BY <2>4, RowTypes, PersistTypes DEF TypeOK
    <3> QED
      BY <1>1, <1>3, <2>2, <2>4, <3>1, <3>2 DEF TypeOK
  <2>5. CASE /\ job' = exited
             /\ retryPending' = TRUE /\ retryGo' = TRUE
             /\ lag' = lag \cup {"retry"}
             /\ UNCHANGED row
    BY <1>1, <1>3, <2>1, <2>2, <2>5 DEF TypeOK
  <2> QED
    BY <1>0, <1>2, <1>3, <2>3, <2>4, <2>5 DEF handleProcessExited
<1> QED
  BY <1>2, <1>3 DEF handleProcessExited

LEMMA CheckpointTypes ==
  ASSUME TypeOK, handleCheckpoint
  PROVE  TypeOK'
<1> USE DEF disk, world, saved, retry, ctxs
<1> DEFINE cmd == Head(cmdChan)
<1>0. /\ Handling("checkpoint") /\ {"nil", "runtime"} \subseteq Errors
      /\ CheckpointRefusal(cmd) \in Errors
  BY DEF handleCheckpoint, Errors, CheckpointRefusal
<1>1. cmd \in Command
  BY <1>0, QueueTypes DEF TypeOK, Handling
<1>2. cmd.suspend \in BOOLEAN /\ cmd.token \in Tokens \cup {NoToken}
  BY <1>1 DEF Command
<1>3. CASE NoEffect /\ \E err \in Errors : Reply(err)
  BY <1>0, <1>3, ReplyTypes DEF TypeOK, NoEffect
<1>4. CASE NoEffect /\ loop' = "panicked" /\ UNCHANGED <<cmdChan, waiters, calls>>
  BY <1>4 DEF TypeOK, NoEffect
<1>5. CASE /\ job' = JobNotCheckpointed(job)
           /\ procs' \in ProcsNotCheckpointed(cmd.suspend)
           /\ UNCHANGED <<watching, disk, saved, retry, ctxs>>
           /\ Reply("runtime")
  <2>1. job' \in Job
    BY <1>5, JobTypes DEF TypeOK
  <2>2. procs' \in Seq({"running", "exited", "removed"}) /\ watching' \subseteq DOMAIN procs'
    BY <1>5, LastProcTypes DEF TypeOK, ProcsNotCheckpointed
  <2> QED
    BY <1>0, <1>5, <2>1, <2>2, ReplyTypes DEF TypeOK
<1>6. CASE /\ CheckpointRefusal(cmd) = "nil"
           /\ job' = JobCheckpointed(job, cmd.suspend)
           /\ procs' \in ProcsCheckpointed(cmd.suspend)
           /\ checkpoint' = TRUE
           /\ tokens' = tokens \cup {cmd.token}
           /\ Persist(UpdateJobCheckpointed(row, job'.state, job'.resumeAt))
           /\ UNCHANGED <<watching, locks, lockCounter, retry, ctxs>>
           /\ Reply("nil")
  <2>1. job' \in Job
    BY <1>2, <1>6, JobTypes DEF TypeOK
  <2>2. procs' \in Seq({"running", "exited", "removed"}) /\ watching' \subseteq DOMAIN procs'
    BY <1>6, LastProcTypes DEF TypeOK, ProcsCheckpointed
  <2>3. row' \in Row /\ lag' \subseteq {"birth", "write", "retry", "restore"}
    <3>1. job'.state \in JobStates /\ job'.resumeAt \in BOOLEAN
      BY <2>1 DEF Job
    <3> QED
      BY <1>6, <3>1, RowTypes, PersistTypes DEF TypeOK
  <2>4. tokens' \subseteq Tokens
    BY <1>2, <1>6 DEF TypeOK, CheckpointRefusal
  <2> QED
    BY <1>0, <1>6, <2>1, <2>2, <2>3, <2>4, ReplyTypes DEF TypeOK
<1> QED
  BY <1>0, <1>3, <1>4, <1>5, <1>6 DEF handleCheckpoint

LEMMA WakeTypes ==
  ASSUME TypeOK, handleWake
  PROVE  TypeOK'
<1> USE DEF disk, world, saved, retry, ctxs
<1> DEFINE awake == UpdateJobState(row, "running")
           failed == UpdateJobCompleted(awake, "failed", "nil")
<1>0. Handling("wake") /\ {"nil", "runtime"} \subseteq Errors /\ UNCHANGED <<saved, retry, ctxs>>
  BY DEF handleWake, Errors
<1>1. /\ awake \in Row /\ failed \in Row
      /\ UpdateJobCompleted(row, "failed", "nil") \in Row
  BY RowTypes DEF TypeOK, JobStates, Results
<1>2. CASE /\ job' = [job EXCEPT !.state = "running", !.resumeAt = FALSE]
           /\ row' \in Written(row, awake)
           /\ lag' = Lagging(lag \ {"birth"}, awake)
           /\ RestoredProcess
           /\ Reply("nil")
  <2>1. job' \in Job
    BY <1>2, JobTypes DEF TypeOK, JobStates
  <2>2. row' \in Row /\ lag' \subseteq {"birth", "write", "retry", "restore"}
    BY <1>1, <1>2, WrittenIsOldOrNew DEF TypeOK, Lagging
  <2> QED
    BY <1>0, <1>2, <2>1, <2>2, RestoreTypes, ReplyTypes DEF TypeOK
<1>3. CASE /\ job' = [job EXCEPT !.state = "failed", !.resumeAt = FALSE]
           /\ row' \in UNION {Written(r, UpdateJobCompleted(r, "failed", "nil")) :
                                r \in Written(row, awake)}
           /\ lag' = Lagging(lag \ {"birth"}, failed)
           /\ NotRestored
           /\ Reply("runtime")
  <2>1. job' \in Job
    BY <1>3, JobTypes DEF TypeOK, JobStates
  <2>2. row' \in Row
    <3>1. PICK r \in Written(row, awake) : row' \in Written(r, UpdateJobCompleted(r, "failed", "nil"))
      BY <1>3
    <3> QED
      BY <1>1, <3>1, WrittenIsOldOrNew DEF TypeOK
  <2>3. lag' \subseteq {"birth", "write", "retry", "restore"}
    BY <1>3 DEF TypeOK, Lagging
  <2> QED
    BY <1>0, <1>3, <2>1, <2>2, <2>3, RestoreTypes, ReplyTypes DEF TypeOK
<1> QED
  BY <1>2, <1>3 DEF handleWake

LEMMA KillTypes ==
  ASSUME TypeOK, handleKill
  PROVE  TypeOK'
<1> USE DEF disk, world, saved, retry, ctxs
<1>0. /\ Handling("kill") /\ {"nil", "runtime"} \subseteq Errors
      /\ KillRefusal(job) \in Errors
  BY DEF handleKill, Errors, KillRefusal
<1>1. CASE NoEffect /\ Reply(KillRefusal(job))
  BY <1>0, <1>1, ReplyTypes DEF TypeOK, NoEffect
<1>2. CASE /\ job' = [job EXCEPT !.op = "terminating"]
           /\ UNCHANGED <<disk, world, saved, retry, ctxs>>
           /\ Reply("runtime")
  <2>1. job' \in Job
    BY <1>2, JobTypes DEF TypeOK, JobOps
  <2> QED
    BY <1>0, <1>2, <2>1, ReplyTypes DEF TypeOK
<1>3. CASE /\ job' = [job EXCEPT !.op = "terminating", !.state = "failed"]
           /\ procs' = ProcsKilled
           /\ Persist(UpdateJobCompleted(row, "failed", "nil"))
           /\ UNCHANGED <<watching, saved, retry, ctxs>>
           /\ Reply("nil")
  <2>1. job' \in Job
    BY <1>3, JobTypes DEF TypeOK, JobStates, JobOps
  <2>2. procs' \in Seq({"running", "exited", "removed"}) /\ watching' \subseteq DOMAIN procs'
    BY <1>3, LastProcTypes DEF TypeOK, ProcsKilled
  <2>3. row' \in Row /\ lag' \subseteq {"birth", "write", "retry", "restore"}
    BY <1>3, RowTypes, PersistTypes DEF TypeOK, JobStates, Results
  <2> QED
    BY <1>0, <1>3, <2>1, <2>2, <2>3, ReplyTypes DEF TypeOK
<1> QED
  BY <1>1, <1>2, <1>3 DEF handleKill

LEMMA ExitTypes ==
  ASSUME TypeOK, handleExit
  PROVE  TypeOK'
<1> USE DEF disk, world, saved, retry, ctxs
<1>0. Handling("exit") /\ "nil" \in Errors /\ ExitRefusal(job) \in Errors
  BY DEF handleExit, Errors, ExitRefusal
<1>1. CASE NoEffect /\ Reply(ExitRefusal(job))
  BY <1>0, <1>1, ReplyTypes DEF TypeOK, NoEffect
<1>2. CASE /\ job' = JobExiting(job, Head(cmdChan).exit = "zero")
           /\ Persist(UpdateJobCompleted(row, job'.state, job'.result))
           /\ UNCHANGED <<world, saved, retry, ctxs>>
           /\ Reply("nil")
  <2>1. job' \in Job
    BY <1>2, JobTypes DEF TypeOK
  <2>2. row' \in Row /\ lag' \subseteq {"birth", "write", "retry", "restore"}
    <3>1. job'.state \in JobStates /\ job'.result \in Results
      BY <2>1 DEF Job
    <3> QED
      BY <1>2, <3>1, RowTypes, PersistTypes DEF TypeOK
  <2> QED
    BY <1>0, <1>2, <2>1, <2>2, ReplyTypes DEF TypeOK
<1> QED
  BY <1>1, <1>2 DEF handleExit

\* getState, takeLock, releaseLock, waitForResult and stop leave the job alone.
LEMMA QuietHandlerTypes ==
  ASSUME TypeOK,
         handleGetState \/ handleTakeLock \/ handleReleaseLock \/ handleWaitForResult \/ handleStop
  PROVE  TypeOK'
<1> USE DEF disk, world, saved, retry, ctxs
<1>0. {"nil", "terminal", "lock"} \subseteq Errors
  BY DEF Errors
<1>1. CASE handleGetState
  BY <1>0, <1>1, ReplyTypes DEF TypeOK, handleGetState, NoEffect
<1>2. CASE handleTakeLock
  <2>1. Handling("takeLock")
    BY <1>2 DEF handleTakeLock
  <2>2. CASE NoEffect /\ Reply("terminal")
    BY <1>0, <2>1, <2>2, ReplyTypes DEF TypeOK, NoEffect
  <2>3. CASE /\ NewLock
             /\ UNCHANGED <<job, disk, world, checkpoint, tokens, retry, ctxs>>
             /\ Reply("nil")
    <3>1. lockCounter' \in Nat /\ locks' \subseteq 1..lockCounter'
      BY <2>3 DEF TypeOK, NewLock
    <3> QED
      BY <1>0, <2>1, <2>3, <3>1, ReplyTypes DEF TypeOK
  <2> QED
    BY <1>2, <2>2, <2>3 DEF handleTakeLock
<1>3. CASE handleReleaseLock
  <2>1. Handling("releaseLock")
    BY <1>3 DEF handleReleaseLock
  <2>2. CASE NoEffect /\ Reply("lock")
    BY <1>0, <2>1, <2>2, ReplyTypes DEF TypeOK, NoEffect
  <2>3. CASE /\ locks' = locks \ {Head(cmdChan).lock}
             /\ UNCHANGED <<job, disk, world, checkpoint, tokens, lockCounter, retry, ctxs>>
             /\ Reply("nil")
    BY <1>0, <2>1, <2>3, ReplyTypes DEF TypeOK
  <2> QED
    BY <1>3, <2>2, <2>3 DEF handleReleaseLock
<1>4. CASE handleWaitForResult
  <2>1. Handling("waitForResult") /\ NoEffect
    BY <1>4 DEF handleWaitForResult
  <2>2. CASE Reply("nil")
    BY <1>0, <2>1, <2>2, ReplyTypes DEF TypeOK, NoEffect
  <2>3. CASE Settle(Nobody, "nil", waiters \cup ({Head(cmdChan).from} \ {Nobody}))
    <3>1. Head(cmdChan) \in Command /\ cmdChan # <<>>
      BY <2>1, QueueTypes DEF TypeOK, Handling
    <3>2. waiters \cup ({Head(cmdChan).from} \ {Nobody}) \in SUBSET Callers
      BY <3>1 DEF TypeOK, Command
    <3>3. /\ cmdChan' \in Seq(Command)
          /\ loop' \in {"select", "draining", "done", "panicked"}
          /\ waiters' \subseteq Callers
          /\ calls' \in [Callers -> CallRecord]
          /\ calls'[Creator].typ = calls[Creator].typ
      BY <1>0, <2>3, <3>1, <3>2, SettleTypes
    <3>4. UNCHANGED <<job, row, lag, procs, watching, checkpoint, tokens, locks, lockCounter,
                      retryPending, retryGo, cancelled, delayed, budget, hv>>
      BY <2>1 DEF NoEffect
    <3> QED
      BY <3>3, <3>4 DEF TypeOK
  <2> QED
    BY <1>4, <2>2, <2>3 DEF handleWaitForResult
<1>5. CASE handleStop
  BY <1>0, <1>5, ReplyTypes DEF TypeOK, handleStop
<1> QED
  BY <1>1, <1>2, <1>3, <1>4, <1>5

LEMMA RetryTypes ==
  ASSUME TypeOK, handleRetry
  PROVE  TypeOK'
<1> USE DEF disk, world, saved, retry, ctxs
<1> DEFINE counted == UpdateJobRetryCount(row, job.retryCount + 1)
           because == lag \ {"birth", "retry"}
<1>0. /\ Handling("retry") /\ retryPending' = FALSE /\ UNCHANGED <<saved, retryGo, ctxs>>
      /\ {"nil", "runtime"} \subseteq Errors
  BY DEF handleRetry, Errors
<1>1. JobRetried(job) \in Job
  BY JobTypes DEF TypeOK
<1>2. counted \in Row
  <2>1. job.retryCount + 1 \in Nat
    BY DEF TypeOK, Job
  <2> QED
    BY <2>1, RowTypes DEF TypeOK
<1>3. /\ UpdateJobStarted(row) \in Row /\ UpdateJobStarted(counted) \in Row
      /\ UpdateJobCompleted(row, "failed", "nil") \in Row
      /\ UpdateJobCompleted(counted, "failed", "nil") \in Row
  BY <1>2, RowTypes DEF TypeOK, JobStates, Results
<1>4. CASE /\ job' = [JobRetried(job) EXCEPT !.state = "running",
                                             !.resumeAt = @ /\ ~checkpoint]
           /\ row' \in UNION {Written(r, UpdateJobStarted(r)) : r \in Written(row, counted)}
           /\ lag' = Lagging(because, UpdateJobStarted(counted))
           /\ IF checkpoint THEN RestoredProcess ELSE NewProcess
           /\ Reply("nil")
  <2>1. job' \in Job
    BY <1>1, <1>4, Zenon DEF Job, JobStates
  <2>2. row' \in Row
    <3>1. PICK r \in Written(row, counted) : row' \in Written(r, UpdateJobStarted(r))
      BY <1>4
    <3> QED
      BY <1>2, <1>3, <3>1, WrittenIsOldOrNew DEF TypeOK
  <2>3. lag' \subseteq {"birth", "write", "retry", "restore"}
    BY <1>4 DEF TypeOK, Lagging
  <2> QED
    BY <1>0, <1>4, <2>1, <2>2, <2>3, NewProcessTypes, RestoreTypes, ReplyTypes DEF TypeOK
<1>5. CASE /\ job' = JobRetried(job)
           /\ row' \in UNION {Written(r, UpdateJobCompleted(r, "failed", "nil")) :
                                r \in Written(row, counted)}
           /\ lag' = Lagging(because, UpdateJobCompleted(counted, "failed", "nil"))
           /\ UNCHANGED world
           /\ Reply("runtime")
  <2>1. row' \in Row
    <3>1. PICK r \in Written(row, counted) :
            row' \in Written(r, UpdateJobCompleted(r, "failed", "nil"))
      BY <1>5
    <3> QED
      BY <1>2, <1>3, <3>1, WrittenIsOldOrNew DEF TypeOK
  <2>2. lag' \subseteq {"birth", "write", "retry", "restore"}
    BY <1>5 DEF TypeOK, Lagging
  <2> QED
    BY <1>0, <1>1, <1>5, <2>1, <2>2, ReplyTypes DEF TypeOK
<1>6. CASE /\ job' = JobRetried(job)
           /\ row' \in Written(row, counted)
           /\ lag' = Lagging(because \cup {"restore"}, counted)
           /\ NotRestored
           /\ Reply("runtime")
  <2>1. row' \in Row /\ lag' \subseteq {"birth", "write", "retry", "restore"}
    BY <1>2, <1>6, WrittenIsOldOrNew DEF TypeOK, Lagging
  <2> QED
    BY <1>0, <1>1, <1>6, <2>1, RestoreTypes, ReplyTypes DEF TypeOK
<1> QED
  BY <1>4, <1>5, <1>6 DEF handleRetry

\* The end of the loop.
LEMMA EndTypes ==
  ASSUME TypeOK, LoopCancelled \/ DrainCommand \/ CloseDone
  PROVE  TypeOK'
<1> USE DEF disk, world, saved, retry, ctxs
<1>1. CASE LoopCancelled
  BY <1>1 DEF TypeOK, LoopCancelled
<1>2. CASE DrainCommand
  <2>1. cmdChan' \in Seq(Command)
    BY <1>2, QueueTypes DEF TypeOK, DrainCommand
  <2>2. calls' \in [Callers -> CallRecord]
    <3>1. \A c \in Callers : [calls[c] EXCEPT !.st = "answered", !.err = "stopped"] \in CallRecord
      BY DEF TypeOK, CallRecord, Errors
    <3> QED
      BY <1>2, <3>1 DEF TypeOK, DrainCommand
  <2>3. calls'[Creator].typ = calls[Creator].typ
    <3>1. calls[Creator] \in CallRecord /\ Creator \in Callers
      BY DEF TypeOK, Callers
    <3>2. [calls[Creator] EXCEPT !.st = "answered", !.err = "stopped"].typ = calls[Creator].typ
      BY <3>1 DEF CallRecord
    <3> QED
      BY <1>2, <3>1, <3>2 DEF DrainCommand
  <2> QED
    BY <1>2, <2>1, <2>2, <2>3 DEF TypeOK, DrainCommand
<1>3. CASE CloseDone
  BY <1>3 DEF TypeOK, CloseDone
<1> QED
  BY <1>1, <1>2, <1>3

\* Every command that is built is a command.
LEMMA CmdTypes ==
  /\ \A t \in CommandTypes, c \in Callers \cup {Nobody} : Cmd(t, c) \in Command
  /\ \A e \in Exits, p \in Nat :
       [Cmd("processExited", Nobody) EXCEPT !.exit = e, !.proc = p] \in Command
  /\ \A c \in Callers : \A m \in ClientCommands(c) : m \in Command /\ m.typ \in ClientCalls
<1>1. \A t \in CommandTypes, c \in Callers \cup {Nobody} : Cmd(t, c) \in Command
  BY DEF Cmd, Command, Exits
<1>2. \A e \in Exits, p \in Nat :
        [Cmd("processExited", Nobody) EXCEPT !.exit = e, !.proc = p] \in Command
  BY DEF Cmd, Command, CommandTypes
<1>3. ASSUME NEW c \in Callers, NEW m \in ClientCommands(c)
      PROVE  m \in Command /\ m.typ \in ClientCalls
  <2>1. m.typ \in ClientCalls
    BY ConstantsAssumption DEF ClientCommands
  <2>2. CASE m \in {Cmd(t, c) : t \in ClientCalls \ {"checkpoint", "exit", "releaseLock"}}
    BY <1>1, <2>1, <2>2 DEF CommandTypes
  <2>3. CASE m \in UNION {{[Cmd("checkpoint", c) EXCEPT !.token = k, !.suspend = s] :
                             s \in BOOLEAN} : k \in Tokens \cup {NoToken}}
    <3>1. PICK k \in Tokens \cup {NoToken}, s \in BOOLEAN :
            m = [Cmd("checkpoint", c) EXCEPT !.token = k, !.suspend = s]
      BY <2>3, Zenon
    <3>2. Cmd("checkpoint", c) \in Command
      BY <1>1 DEF CommandTypes, ClientCalls
    <3> QED
      BY <2>1, <3>1, <3>2, Zenon DEF Command
  <2>4. CASE m \in {[Cmd("exit", c) EXCEPT !.exit = e] : e \in {"zero", "nonzero"}}
    <3>1. PICK e \in {"zero", "nonzero"} : m = [Cmd("exit", c) EXCEPT !.exit = e]
      BY <2>4
    <3>2. Cmd("exit", c) \in Command
      BY <1>1 DEF CommandTypes, ClientCalls
    <3> QED
      BY <2>1, <3>1, <3>2 DEF Command, Exits
  <2>5. CASE m \in {[Cmd("releaseLock", c) EXCEPT !.lock = l] : l \in 1..MaxLocks}
    <3>1. PICK l \in 1..MaxLocks : m = [Cmd("releaseLock", c) EXCEPT !.lock = l]
      BY <2>5
    <3>2. Cmd("releaseLock", c) \in Command
      BY <1>1 DEF CommandTypes, ClientCalls
    <3>3. l \in Nat
      BY ConstantsAssumption
    <3> QED
      BY <2>1, <3>1, <3>2, <3>3 DEF Command
  <2> QED
    BY <2>2, <2>3, <2>4, <2>5, Zenon DEF ClientCommands
<1> QED
  BY <1>1, <1>2, <1>3

\* Sending a command keeps the queue a queue.
LEMMA SendTypes ==
  ASSUME TypeOK, NEW m \in Command, Send(m)
  PROVE  cmdChan' \in Seq(Command)
  BY DEF TypeOK, Send

\* The goroutines beside the loop.
LEMMA GoroutineTypes ==
  ASSUME TypeOK,
         (\E p \in DOMAIN procs : ProcessEnds(p) \/ waitForProcessExit(p)) \/ SendRetry
  PROVE  TypeOK'
<1> USE DEF disk, world, saved, retry, chans, ctxs
<1>1. ASSUME NEW p \in DOMAIN procs, ProcessEnds(p)
      PROVE  TypeOK'
  <2> DEFINE S == {"running", "exited", "removed"}
  <2>1. procs \in [1..Len(procs) -> S] /\ Len(procs) \in Nat
    BY LenProperties DEF TypeOK
  <2>2. procs' \in [1..Len(procs) -> S]
    BY <1>1, <2>1 DEF ProcessEnds
  <2>3. procs' \in Seq(S) /\ DOMAIN procs' = DOMAIN procs
    BY <2>1, <2>2, SeqDef
  <2> QED
    BY <1>1, <2>3 DEF TypeOK, ProcessEnds
<1>2. ASSUME NEW p \in DOMAIN procs, waitForProcessExit(p)
      PROVE  TypeOK'
  <2>1. PICK e \in WaitReturns(procs[p]) :
          Send([Cmd("processExited", Nobody) EXCEPT !.exit = e, !.proc = p])
    BY <1>2 DEF waitForProcessExit
  <2>2. e \in Exits /\ p \in Nat
    <3>1. p \in Nat
      BY DEF TypeOK
    <3> QED
      BY <2>1, <3>1 DEF WaitReturns, Exits
  <2>3. cmdChan' \in Seq(Command)
    BY <2>1, <2>2, CmdTypes, SendTypes
  <2> QED
    BY <1>2, <2>3 DEF TypeOK, waitForProcessExit
<1>3. CASE SendRetry
  <2>1. Cmd("retry", Nobody) \in Command
    BY CmdTypes DEF CommandTypes
  <2>2. cmdChan' \in Seq(Command)
    BY <1>3, <2>1, SendTypes DEF TypeOK, SendRetry
  <2> QED
    BY <1>3, <2>2 DEF TypeOK, SendRetry
<1> QED
  BY <1>1, <1>2, <1>3

\* A command whose sender is gone is still a command.
LEMMA AbandonedTypes ==
  ASSUME TypeOK, NEW c \in Callers
  PROVE  Abandoned(c) \in Seq(Command)
<1>1. cmdChan \in [1..Len(cmdChan) -> Command] /\ Len(cmdChan) \in Nat
  BY LenProperties DEF TypeOK
<1>2. \A m \in Command : [m EXCEPT !.from = Nobody] \in Command
  BY DEF Command
<1>3. Abandoned(c) \in [1..Len(cmdChan) -> Command]
  BY <1>1, <1>2 DEF Abandoned
<1> QED
  BY <1>1, <1>3, SeqDef

\* Clients and the creator.
LEMMA CallTypes ==
  /\ IdleCall \in CallRecord
  /\ \A t \in CommandTypes : [st |-> "waiting", typ |-> t, err |-> "nil"] \in CallRecord
  /\ \A r \in CallRecord :
       /\ DoneReply(r) \in CallRecord /\ DoneReply(r).typ = r.typ
       /\ \A t \in CommandTypes : [r EXCEPT !.typ = t] \in CallRecord
<1>1. IdleCall \in CallRecord
  BY DEF IdleCall, CallRecord, Errors
<1>2. \A t \in CommandTypes : [st |-> "waiting", typ |-> t, err |-> "nil"] \in CallRecord
  BY DEF CallRecord, Errors
<1>3. ASSUME NEW r \in CallRecord
      PROVE  /\ DoneReply(r) \in CallRecord /\ DoneReply(r).typ = r.typ
             /\ \A t \in CommandTypes : [r EXCEPT !.typ = t] \in CallRecord
  BY DEF DoneReply, CallRecord, Errors
<1> QED
  BY <1>1, <1>2, <1>3

LEMMA ClientTypes ==
  ASSUME TypeOK, NEW c \in Clients, Client(c)
  PROVE  TypeOK'
<1> USE DEF disk, world, saved, retry, ctxs
<1>0. c \in Callers /\ c # Creator /\ Creator \in Callers /\ calls[c] \in CallRecord
  BY ConstantsAssumption DEF Callers, TypeOK
<1>1. CASE Call(c)
  <2>1. PICK m \in ClientCommands(c) :
          /\ Send(m)
          /\ calls' = [calls EXCEPT ![c] = [st |-> "waiting", typ |-> m.typ, err |-> "nil"]]
    BY <1>1 DEF Call
  <2>2. m \in Command /\ m.typ \in CommandTypes
    BY <1>0, CmdTypes DEF CommandTypes
  <2>3. calls' \in [Callers -> CallRecord] /\ calls'[Creator] = calls[Creator]
    BY <1>0, <2>1, <2>2, CallTypes DEF TypeOK
  <2> QED
    BY <1>1, <2>1, <2>2, <2>3, SendTypes DEF TypeOK, Call
<1>2. CASE CallDone(c)
  <2>1. PICK t \in Calls : calls' = [calls EXCEPT ![c] = DoneReply([calls[c] EXCEPT !.typ = t])]
    BY <1>2 DEF CallDone
  <2>2. t \in CommandTypes
    BY ConstantsAssumption DEF CommandTypes
  <2>3. calls' \in [Callers -> CallRecord] /\ calls'[Creator] = calls[Creator]
    BY <1>0, <2>1, <2>2, CallTypes DEF TypeOK
  <2> QED
    BY <1>2, <2>3 DEF TypeOK, CallDone
<1>3. CASE Return(c)
  BY <1>0, <1>3, CallTypes DEF TypeOK, Return
<1>4. CASE ReturnDone(c)
  BY <1>0, <1>4, CallTypes DEF TypeOK, ReturnDone
<1>5. CASE Timeout(c)
  BY <1>0, <1>5, CallTypes, AbandonedTypes DEF TypeOK, Timeout
<1> QED
  BY <1>1, <1>2, <1>3, <1>4, <1>5 DEF Client

LEMMA CreatorTypes ==
  ASSUME TypeOK, CreatorSteps
  PROVE  TypeOK'
<1> USE DEF disk, world, saved, retry, ctxs
<1>0. Creator \in Callers /\ calls[Creator] \in CallRecord
  BY DEF Callers, TypeOK
<1>1. \A x \in {"waiting", "returned"} :
        /\ [calls[Creator] EXCEPT !.st = x] \in CallRecord
        /\ [calls[Creator] EXCEPT !.st = x].typ = calls[Creator].typ
        /\ [calls[Creator] EXCEPT !.st = x, !.err = "ctx"] \in CallRecord
        /\ [calls[Creator] EXCEPT !.st = x, !.err = "ctx"].typ = calls[Creator].typ
  BY <1>0 DEF CallRecord, Errors
<1>2. CASE CreatorSends
  <2>1. calls' = [calls EXCEPT ![Creator] = [calls[Creator] EXCEPT !.st = "waiting"]]
    BY <1>2, Zenon DEF CreatorSends
  <2>2. calls' \in [Callers -> CallRecord] /\ calls'[Creator].typ = calls[Creator].typ
    BY <1>0, <1>1, <2>1 DEF TypeOK
  <2>3. Cmd(calls[Creator].typ, Creator) \in Command
    BY <1>0, CmdTypes DEF TypeOK, RawSend, CommandTypes
  <2>4. cmdChan' \in Seq(Command)
    BY <1>2, <2>3, SendTypes DEF CreatorSends
  <2> QED
    BY <1>2, <2>2, <2>4 DEF TypeOK, CreatorSends
<1>3. CASE CreatorStartDone
  BY <1>0, <1>3, CallTypes DEF TypeOK, CreatorStartDone
<1>4. CASE CreatorReturns
  <2>1. calls' = [calls EXCEPT ![Creator] = [calls[Creator] EXCEPT !.st = "returned"]]
    BY <1>4, Zenon DEF CreatorReturns
  <2>2. calls' \in [Callers -> CallRecord] /\ calls'[Creator].typ = calls[Creator].typ
    BY <1>0, <1>1, <2>1 DEF TypeOK
  <2>3. cancelled' \in BOOLEAN
    BY <1>4, Zenon DEF TypeOK, CreatorReturns
  <2> QED
    BY <1>4, <2>2, <2>3 DEF TypeOK, CreatorReturns
<1>5. CASE CreatorGivesUp
  <2>1. calls' = [calls EXCEPT ![Creator] =
                    [calls[Creator] EXCEPT !.st = "returned", !.err = "ctx"]]
    BY <1>5, Zenon DEF CreatorGivesUp
  <2>2. calls' \in [Callers -> CallRecord] /\ calls'[Creator].typ = calls[Creator].typ
    BY <1>0, <1>1, <2>1 DEF TypeOK
  <2> QED
    BY <1>0, <1>5, <2>2, AbandonedTypes DEF TypeOK, CreatorGivesUp
<1> QED
  BY <1>2, <1>3, <1>4, <1>5 DEF CreatorSteps

-----------------------------------------------------------------------------
\* A step of the runner, of a goroutine beside it, of a caller or of the hypervisor.
LEMMA StepTypes ==
  ASSUME TypeOK, [Next]_vars
  PROVE  TypeOK'
<1>1. CASE Loop
  BY <1>1, StartTypes, ProcessExitedTypes, CheckpointTypes, WakeTypes, KillTypes, ExitTypes,
     QuietHandlerTypes, RetryTypes, EndTypes DEF Loop
<1>2. CASE (\E p \in DOMAIN procs : ProcessEnds(p) \/ waitForProcessExit(p)) \/ SendRetry
  BY <1>2, GoroutineTypes
<1>3. CASE \E c \in Clients : Client(c)
  BY <1>3, ClientTypes
<1>4. CASE CreatorSteps
  BY <1>4, CreatorTypes
<1>5. CASE Shutdown \/ Stop \/ DevCrash
  <2> USE DEF disk, world, saved, retry, chans, ctxs
  <2>1. CASE Shutdown \/ DevCrash
    BY <2>1 DEF TypeOK, Shutdown, DevCrash
  <2>2. CASE Stop
    <3>1. cmdChan' \in Seq(Command)
      <4>1. Cmd("stop", Nobody) \in Command
        BY CmdTypes DEF CommandTypes
      <4> QED
        BY <2>2, <4>1, SendTypes DEF TypeOK, Stop
    <3> QED
      BY <2>2, <3>1 DEF TypeOK, Stop
  <2> QED
    BY <1>5, <2>1, <2>2
<1>6. CASE UNCHANGED vars
  BY <1>6 DEF TypeOK, vars, disk, world, saved, retry, chans, ctxs
<1> QED
  BY <1>1, <1>2, <1>3, <1>4, <1>5, <1>6 DEF Next

\* Every variable keeps its type, whatever is called, whatever fails and whatever the order.
THEOREM TypeCorrect == Spec => []TypeOK
<1>1. Init => TypeOK
  BY InitTypes
<1>2. TypeOK /\ [Next]_vars => TypeOK'
  BY StepTypes
<1> QED
  BY <1>1, <1>2, PTL DEF Spec

-----------------------------------------------------------------------------
(***************************************************************************)
(* The retry budget of a job: the runner never makes more retries than the *)
(* policy allows, but the one it was made for, whatever commands, failures *)
(* and lost writes come between a failure and its retry.                   *)
(*                                                                         *)
(* RetryBudget alone is not inductive: a second retry in the queue would   *)
(* be made after the first one, and a retry of a job that is not failed    *)
(* would not be the one the failure callback allowed.  RetryOnce excludes  *)
(* both; together they are inductive.                                      *)
(***************************************************************************)
RetryInv == RetryOnce /\ RetryBudget /\ MaxRetries <= budget

\* Of RetryOnce: the queue holds one retry at most.
OneRetryQueued ==
  \A i, j \in DOMAIN cmdChan : cmdChan[i].typ = "retry" /\ cmdChan[j].typ = "retry" => i = j

-----------------------------------------------------------------------------
(***************************************************************************)
(* The queue.                                                              *)
(***************************************************************************)
\* Taking the first command off the queue: the retry that is taken was the only one.
LEMMA TakenFromQueue ==
  ASSUME TypeOK, cmdChan # <<>>, cmdChan' = Tail(cmdChan), OneRetryQueued
  PROVE  /\ OneRetryQueued'
         /\ Queued("retry")' => Queued("retry")
         /\ Head(cmdChan).typ = "retry" => Queued("retry") /\ ~Queued("retry")'
<1>1. /\ cmdChan \in Seq(Command) /\ Len(cmdChan) \in Nat \ {0}
      /\ DOMAIN cmdChan = 1..Len(cmdChan)
      /\ Head(cmdChan) = cmdChan[1]
  BY DEF TypeOK
<1>2. DOMAIN cmdChan' = 1..(Len(cmdChan) - 1)
  BY <1>1
<1>3. \A i \in DOMAIN cmdChan' : i + 1 \in DOMAIN cmdChan /\ cmdChan'[i] = cmdChan[i + 1]
  BY <1>1, <1>2
<1>4. OneRetryQueued'
  <2> SUFFICES ASSUME NEW i \in DOMAIN cmdChan', NEW j \in DOMAIN cmdChan',
                      cmdChan'[i].typ = "retry", cmdChan'[j].typ = "retry"
               PROVE  i = j
    BY DEF OneRetryQueued
  <2>1. i + 1 = j + 1
    BY <1>3 DEF OneRetryQueued
  <2> QED
    BY <1>1, <1>2, <2>1
<1>5. Queued("retry")' => Queued("retry")
  BY <1>3 DEF Queued
<1>6. ASSUME Head(cmdChan).typ = "retry"
      PROVE  Queued("retry") /\ ~Queued("retry")'
  <2>1. 1 \in DOMAIN cmdChan /\ cmdChan[1].typ = "retry"
    BY <1>1, <1>6
  <2>2. \A i \in DOMAIN cmdChan' : i + 1 # 1
    BY <1>1, <1>2
  <2> QED
    BY <1>3, <2>1, <2>2 DEF Queued, OneRetryQueued
<1> QED
  BY <1>4, <1>5, <1>6

\* Sending a command: another one leaves the retries as they are, and a retry sent when
\* none is queued is the only one.
LEMMA SentToQueue ==
  ASSUME TypeOK, NEW m \in Command, Send(m), OneRetryQueued
  PROVE  /\ m.typ # "retry" => OneRetryQueued' /\ (Queued("retry")' => Queued("retry"))
         /\ ~Queued("retry") => OneRetryQueued'
<1>1. /\ cmdChan \in Seq(Command) /\ Len(cmdChan) \in Nat
      /\ DOMAIN cmdChan = 1..Len(cmdChan)
      /\ cmdChan' = Append(cmdChan, m)
  BY DEF TypeOK, Send
<1>2. /\ DOMAIN cmdChan' = 1..(Len(cmdChan) + 1)
      /\ cmdChan'[Len(cmdChan) + 1] = m
      /\ \A i \in DOMAIN cmdChan : cmdChan'[i] = cmdChan[i]
  BY <1>1
<1>3. \A i \in DOMAIN cmdChan' : i \in DOMAIN cmdChan \/ (i = Len(cmdChan) + 1 /\ cmdChan'[i] = m)
  BY <1>1, <1>2
<1>4. ASSUME m.typ # "retry"
      PROVE  OneRetryQueued' /\ (Queued("retry")' => Queued("retry"))
  BY <1>2, <1>3, <1>4 DEF OneRetryQueued, Queued
<1>5. ASSUME ~Queued("retry")
      PROVE  OneRetryQueued'
  BY <1>2, <1>3, <1>5 DEF OneRetryQueued, Queued
<1> QED
  BY <1>4, <1>5

\* A caller that stops listening leaves the commands where they are.
LEMMA AbandonedInQueue ==
  ASSUME TypeOK, NEW c \in Callers, cmdChan' = Abandoned(c), OneRetryQueued
  PROVE  OneRetryQueued' /\ (Queued("retry")' => Queued("retry"))
<1>1. DOMAIN cmdChan' = DOMAIN cmdChan
  BY DEF Abandoned
<1>2. \A i \in DOMAIN cmdChan : cmdChan'[i].typ = cmdChan[i].typ
  <2> TAKE i \in DOMAIN cmdChan
  <2>1. cmdChan[i] \in Command
    BY DEF TypeOK
  <2>2. [cmdChan[i] EXCEPT !.from = Nobody].typ = cmdChan[i].typ
    BY <2>1 DEF Command
  <2> QED
    BY <2>2 DEF Abandoned
<1> QED
  BY <1>1, <1>2 DEF OneRetryQueued, Queued

-----------------------------------------------------------------------------
(***************************************************************************)
(* The counts of retries.                                                  *)
(***************************************************************************)
\* Of the UPDATE statements only UpdateJobRetryCount touches the count.
LEMMA RowRetryCounts ==
  ASSUME NEW r \in Row
  PROVE  /\ \A s \in JobStates : UpdateJobState(r, s).retryCount = r.retryCount
         /\ UpdateJobStarted(r).retryCount = r.retryCount
         /\ \A s \in JobStates, b \in BOOLEAN :
              UpdateJobCheckpointed(r, s, b).retryCount = r.retryCount
         /\ \A s \in JobStates, x \in Results :
              UpdateJobCompleted(r, s, x).retryCount = r.retryCount
         /\ \A n \in Nat : UpdateJobRetryCount(r, n).retryCount = n
         /\ UpdateJobPendingRetry(r).retryCount = r.retryCount
  BY DEF Row, UpdateJobState, UpdateJobStarted, UpdateJobCheckpointed, UpdateJobCompleted,
         UpdateJobRetryCount, UpdateJobPendingRetry

\* Of the changes to a job only JobRetried does; it leaves a failed job failed.
LEMMA JobRetryCounts ==
  ASSUME NEW j \in Job
  PROVE  /\ \A e \in Exits : JobExited(j, e).retryCount = j.retryCount
         /\ \A b \in BOOLEAN : JobCheckpointed(j, b).retryCount = j.retryCount
         /\ JobNotCheckpointed(j).retryCount = j.retryCount
         /\ JobNotCheckpointed(j).state = j.state
         /\ \A b \in BOOLEAN : JobExiting(j, b).retryCount = j.retryCount
         /\ JobRetried(j).retryCount = j.retryCount + 1
         /\ JobRetried(j).state = j.state
  BY DEF Job, JobExited, JobCheckpointed, JobNotCheckpointed, JobExiting, JobRetried

\* A write that keeps the count keeps it whether it is lost or not.
LEMMA PersistKeepsCount ==
  ASSUME NEW new, Persist(new), new.retryCount = row.retryCount
  PROVE  row'.retryCount = row.retryCount
  BY WrittenIsOldOrNew DEF Persist

-----------------------------------------------------------------------------
(***************************************************************************)
(* Steps that make no retry and allow none.                                *)
(***************************************************************************)
LEMMA RetryInvKept ==
  ASSUME TypeOK, RetryInv, TypeOK', budget' = budget,
         OneRetryQueued',
         retryGo' => retryGo,
         retryPending' => retryPending,
         Queued("retry")' => Queued("retry"),
         Unsent("retry")' => Unsent("retry"),
         job.state = "failed" => job'.state = "failed",
         job'.retryCount = job.retryCount,
         row'.retryCount = row.retryCount
  PROVE  RetryInv'
<1>1. RetryInFlight' => RetryInFlight
  BY DEF RetryInFlight
<1>2. RetryOnce'
  BY <1>1 DEF RetryInv, RetryOnce, OneRetryQueued
<1>3. RetryBudget'
  <2>1. job.retryCount \in Nat /\ row.retryCount \in Nat /\ budget \in Nat
    BY DEF TypeOK, Job, Row
  <2> QED
    BY <1>1, <2>1 DEF RetryInv, RetryBudget
<1> QED
  BY <1>2, <1>3 DEF RetryInv

\* The end of a handler other than handleRetry takes its command off the queue and sends
\* no command of the creator's.
LEMMA SettleKeepsRetry ==
  ASSUME TypeOK, RetryInv, cmdChan # <<>>, NEW to, NEW err, NEW ws, Settle(to, err, ws)
  PROVE  /\ OneRetryQueued'
         /\ Queued("retry")' => Queued("retry")
         /\ Unsent("retry")' => Unsent("retry")
         /\ Head(cmdChan).typ = "retry" => Queued("retry") /\ ~Queued("retry")'
<1>1. cmdChan' = Tail(cmdChan) /\ OneRetryQueued
  BY DEF Settle, RetryInv, RetryOnce, OneRetryQueued
<1>2. Unsent("retry")' => Unsent("retry")
  BY DEF TypeOK, Settle, Unsent, Callers, CallRecord
<1> QED
  BY <1>1, <1>2, TakenFromQueue

LEMMA ReplyKeepsRetry ==
  ASSUME TypeOK, RetryInv, budget' = budget, TypeOK', NEW t, Handling(t), NEW err, Reply(err),
         retryGo' => retryGo, retryPending' => retryPending,
         job.state = "failed" => job'.state = "failed",
         job'.retryCount = job.retryCount,
         row'.retryCount = row.retryCount
  PROVE  RetryInv'
  BY SettleKeepsRetry, RetryInvKept DEF Handling, Reply

-----------------------------------------------------------------------------
(***************************************************************************)
(* The handlers.                                                           *)
(***************************************************************************)
LEMMA StartKeepsRetry ==
  ASSUME TypeOK, RetryInv, budget' = budget, handleStart
  PROVE  RetryInv'
<1> USE DEF disk, retry
<1>0. TypeOK' /\ Handling("start")
  BY StartTypes DEF handleStart
<1>1. CASE NoEffect /\ Reply("state")
  BY <1>0, <1>1, ReplyKeepsRetry DEF NoEffect
<1>2. ASSUME job.state = "pending", UNCHANGED retry, NEW s, job' = [job EXCEPT !.state = s],
             NEW new, Persist(new), new.retryCount = row.retryCount, NEW err, Reply(err)
      PROVE  RetryInv'
  <2>1. job'.retryCount = job.retryCount
    BY <1>2 DEF TypeOK, Job
  <2>2. row'.retryCount = row.retryCount
    BY <1>2, PersistKeepsCount
  <2> QED
    BY <1>0, <1>2, <2>1, <2>2, ReplyKeepsRetry
<1>3. /\ UpdateJobStarted(row).retryCount = row.retryCount
      /\ UpdateJobCompleted(row, "failed", "nil").retryCount = row.retryCount
  BY RowRetryCounts DEF TypeOK, JobStates, Results
<1> QED
  BY <1>1, <1>2, <1>3 DEF handleStart

\* The retry a failure schedules is the only one: none was in flight, for the job had not
\* failed.
LEMMA ProcessExitedKeepsRetry ==
  ASSUME TypeOK, RetryInv, budget' = budget, handleProcessExited
  PROVE  RetryInv'
<1> USE DEF disk, retry
<1> DEFINE exited == JobExited(job, Head(cmdChan).exit)
<1>0. TypeOK' /\ Handling("processExited") /\ Reply("nil")
  BY ProcessExitedTypes DEF handleProcessExited
<1>1. Head(cmdChan).exit \in Exits
  <2>1. Head(cmdChan) \in Command
    BY <1>0, QueueTypes DEF TypeOK, Handling
  <2> QED
    BY <2>1 DEF Command
<1>2. exited \in Job /\ exited.retryCount = job.retryCount
  BY <1>1, JobTypes, JobRetryCounts DEF TypeOK
<1>3. CASE NoEffect
  BY <1>0, <1>3, ReplyKeepsRetry DEF NoEffect
<1>4. CASE /\ ~IsTerminal(job)
           /\ job' = exited
           /\ Persist(UpdateJobCompleted(row, exited.state, exited.result))
           /\ UNCHANGED retry
  <2>1. row'.retryCount = row.retryCount
    <3>1. exited.state \in JobStates /\ exited.result \in Results
      BY <1>2 DEF Job
    <3> QED
      BY <1>4, <3>1, RowRetryCounts, PersistKeepsCount DEF TypeOK
  <2> QED
    BY <1>0, <1>2, <1>4, <2>1, ReplyKeepsRetry DEF IsTerminal, Terminal
<1>5. CASE /\ ~IsTerminal(job)
           /\ job' = [exited EXCEPT !.state = "pending_retry", !.resumeAt = TRUE]
           /\ Persist(UpdateJobPendingRetry(row))
           /\ UNCHANGED retry
  <2>1. row'.retryCount = row.retryCount
    BY <1>5, RowRetryCounts, PersistKeepsCount DEF TypeOK
  <2>2. job'.retryCount = job.retryCount
    BY <1>2, <1>5 DEF Job
  <2> QED
    BY <1>0, <1>5, <2>1, <2>2, ReplyKeepsRetry DEF IsTerminal, Terminal
<1>6. CASE /\ ~IsTerminal(job) /\ Retryable(exited)
           /\ job' = exited
           /\ retryGo' = TRUE
           /\ UNCHANGED row
  <2>1. ~RetryInFlight
    BY <1>6 DEF RetryInv, RetryOnce, IsTerminal, Terminal
  <2>2. OneRetryQueued' /\ ~Queued("retry")' /\ ~Unsent("retry")'
    BY <1>0, <2>1, SettleKeepsRetry DEF Handling, Reply, RetryInFlight
  <2>3. job'.state = "failed" /\ job'.retryCount = job.retryCount /\ job'.retryCount < MaxRetries
    BY <1>2, <1>6 DEF Retryable, ShouldRetry
  <2>4. RetryOnce'
    BY <2>2, <2>3 DEF RetryOnce, OneRetryQueued
  <2>5. RetryBudget'
    <3>1. job.retryCount \in Nat /\ MaxRetries \in Nat /\ budget \in Nat /\ MaxRetries <= budget
      BY ConstantsAssumption DEF TypeOK, Job, RetryInv
    <3>2. row'.retryCount <= job'.retryCount
      BY <1>6, <2>3 DEF RetryInv, RetryBudget
    <3> QED
      BY <2>3, <3>1, <3>2 DEF RetryBudget
  <2> QED
    BY <2>4, <2>5 DEF RetryInv
<1> QED
  BY <1>3, <1>4, <1>5, <1>6 DEF handleProcessExited

LEMMA CheckpointKeepsRetry ==
  ASSUME TypeOK, RetryInv, budget' = budget, handleCheckpoint
  PROVE  RetryInv'
<1> USE DEF disk, retry
<1> DEFINE cmd == Head(cmdChan)
<1>0. TypeOK' /\ Handling("checkpoint")
  BY CheckpointTypes DEF handleCheckpoint
<1>1. ASSUME NEW err, NoEffect, Reply(err)
      PROVE  RetryInv'
  BY <1>0, <1>1, ReplyKeepsRetry DEF NoEffect
<1>2. CASE NoEffect /\ loop' = "panicked" /\ UNCHANGED <<cmdChan, waiters, calls>>
  <2>1. OneRetryQueued'
    BY <1>2 DEF RetryInv, RetryOnce, OneRetryQueued
  <2> QED
    BY <1>0, <1>2, <2>1, RetryInvKept DEF NoEffect, Queued, Unsent
<1>3. CASE /\ job' = JobNotCheckpointed(job)
           /\ UNCHANGED <<disk, retry>>
           /\ Reply("runtime")
  BY <1>0, <1>3, JobRetryCounts, ReplyKeepsRetry DEF TypeOK
<1>4. CASE /\ CheckpointRefusal(cmd) = "nil"
           /\ job' = JobCheckpointed(job, cmd.suspend)
           /\ Persist(UpdateJobCheckpointed(row, job'.state, job'.resumeAt))
           /\ UNCHANGED retry
           /\ Reply("nil")
  <2>1. cmd.suspend \in BOOLEAN
    <3>1. cmd \in Command
      BY <1>0, QueueTypes DEF TypeOK, Handling
    <3> QED
      BY <3>1 DEF Command
  <2>2. job'.retryCount = job.retryCount
    BY <1>4, <2>1, JobRetryCounts DEF TypeOK
  <2>3. row'.retryCount = row.retryCount
    <3>1. job'.state \in JobStates /\ job'.resumeAt \in BOOLEAN
      BY <1>0 DEF TypeOK, Job
    <3> QED
      BY <1>4, <3>1, RowRetryCounts, PersistKeepsCount DEF TypeOK
  <2>4. job.state # "failed"
    BY <1>4 DEF CheckpointRefusal, IsTerminal, Terminal
  <2> QED
    BY <1>0, <1>4, <2>2, <2>3, <2>4, ReplyKeepsRetry
<1> QED
  BY <1>1, <1>2, <1>3, <1>4 DEF handleCheckpoint

LEMMA WakeKeepsRetry ==
  ASSUME TypeOK, RetryInv, budget' = budget, handleWake
  PROVE  RetryInv'
<1> USE DEF disk, retry
<1> DEFINE awake == UpdateJobState(row, "running")
<1>0. TypeOK' /\ Handling("wake") /\ job.state = "suspended" /\ UNCHANGED retry
  BY WakeTypes DEF handleWake
<1>1. awake \in Row /\ awake.retryCount = row.retryCount
  BY RowTypes, RowRetryCounts DEF TypeOK, JobStates
<1>2. \A r \in Row : UpdateJobCompleted(r, "failed", "nil").retryCount = r.retryCount
  BY RowRetryCounts DEF JobStates, Results
<1>3. job'.retryCount = job.retryCount
  BY DEF handleWake, TypeOK, Job
<1>4. row'.retryCount = row.retryCount
  <2>1. CASE row' \in Written(row, awake)
    BY <1>1, <2>1, WrittenIsOldOrNew
  <2>2. CASE row' \in UNION {Written(r, UpdateJobCompleted(r, "failed", "nil")) :
                               r \in Written(row, awake)}
    <3>1. PICK r \in Written(row, awake) : row' \in Written(r, UpdateJobCompleted(r, "failed", "nil"))
      BY <2>2
    <3>2. r \in Row /\ r.retryCount = row.retryCount
      BY <1>1, <3>1, WrittenIsOldOrNew DEF TypeOK
    <3> QED
      BY <1>2, <3>1, <3>2, WrittenIsOldOrNew
  <2> QED
    BY <2>1, <2>2 DEF handleWake
<1>5. PICK err : Reply(err)
  BY DEF handleWake
<1> QED
  BY <1>0, <1>3, <1>4, <1>5, ReplyKeepsRetry

LEMMA KillKeepsRetry ==
  ASSUME TypeOK, RetryInv, budget' = budget, handleKill
  PROVE  RetryInv'
<1> USE DEF disk, retry
<1>0. TypeOK' /\ Handling("kill")
  BY KillTypes DEF handleKill
<1>1. CASE NoEffect /\ Reply(KillRefusal(job))
  BY <1>0, <1>1, ReplyKeepsRetry DEF NoEffect
<1>2. CASE /\ job' = [job EXCEPT !.op = "terminating"]
           /\ UNCHANGED <<disk, retry>>
           /\ Reply("runtime")
  <2>1. job'.retryCount = job.retryCount /\ job'.state = job.state
    BY <1>2 DEF TypeOK, Job
  <2> QED
    BY <1>0, <1>2, <2>1, ReplyKeepsRetry
<1>3. CASE /\ job' = [job EXCEPT !.op = "terminating", !.state = "failed"]
           /\ Persist(UpdateJobCompleted(row, "failed", "nil"))
           /\ UNCHANGED retry
           /\ Reply("nil")
  <2>1. job'.retryCount = job.retryCount /\ job'.state = "failed"
    BY <1>3 DEF TypeOK, Job
  <2>2. row'.retryCount = row.retryCount
    BY <1>3, RowRetryCounts, PersistKeepsCount DEF TypeOK, JobStates, Results
  <2> QED
    BY <1>0, <1>3, <2>1, <2>2, ReplyKeepsRetry
<1> QED
  BY <1>1, <1>2, <1>3 DEF handleKill

LEMMA ExitKeepsRetry ==
  ASSUME TypeOK, RetryInv, budget' = budget, handleExit
  PROVE  RetryInv'
<1> USE DEF disk, retry
<1>0. TypeOK' /\ Handling("exit")
  BY ExitTypes DEF handleExit
<1>1. CASE NoEffect /\ Reply(ExitRefusal(job))
  BY <1>0, <1>1, ReplyKeepsRetry DEF NoEffect
<1>2. CASE /\ ExitRefusal(job) = "nil"
           /\ job' = JobExiting(job, Head(cmdChan).exit = "zero")
           /\ Persist(UpdateJobCompleted(row, job'.state, job'.result))
           /\ UNCHANGED retry
           /\ Reply("nil")
  <2>1. job'.retryCount = job.retryCount
    BY <1>2, JobRetryCounts DEF TypeOK
  <2>2. row'.retryCount = row.retryCount
    <3>1. job'.state \in JobStates /\ job'.result \in Results
      BY <1>0 DEF TypeOK, Job
    <3> QED
      BY <1>2, <3>1, RowRetryCounts, PersistKeepsCount DEF TypeOK
  <2>3. job.state # "failed"
    BY <1>2 DEF ExitRefusal, IsTerminal, Terminal
  <2> QED
    BY <1>0, <1>2, <2>1, <2>2, <2>3, ReplyKeepsRetry
<1> QED
  BY <1>1, <1>2 DEF handleExit

LEMMA QuietHandlersKeepRetry ==
  ASSUME TypeOK, RetryInv, budget' = budget,
         handleGetState \/ handleTakeLock \/ handleReleaseLock \/ handleWaitForResult \/ handleStop
  PROVE  RetryInv'
<1> USE DEF disk, retry
<1>0. TypeOK'
  BY QuietHandlerTypes
<1>1. PICK t, to, err, ws : Handling(t) /\ Settle(to, err, ws)
  BY DEF handleGetState, handleTakeLock, handleReleaseLock, handleWaitForResult, handleStop, Reply
<1>2. UNCHANGED <<job, disk, retry>>
  BY DEF handleGetState, handleTakeLock, handleReleaseLock, handleWaitForResult, handleStop, NoEffect
<1> QED
  BY <1>0, <1>1, <1>2, SettleKeepsRetry, RetryInvKept DEF Handling

\* The retry that is made was the only one in flight, and there was one left to make.
LEMMA RetryKeepsRetry ==
  ASSUME TypeOK, RetryInv, budget' = budget, handleRetry
  PROVE  RetryInv'
<1> USE DEF disk, retry
<1> DEFINE counted == UpdateJobRetryCount(row, job.retryCount + 1)
<1>0. TypeOK' /\ Handling("retry") /\ retryGo' = retryGo
  BY RetryTypes DEF handleRetry
<1>1. PICK err : Reply(err)
  BY DEF handleRetry
<1>2. /\ OneRetryQueued' /\ Queued("retry") /\ ~Queued("retry")'
      /\ Unsent("retry")' => Unsent("retry")
  BY <1>0, <1>1, SettleKeepsRetry DEF Handling, Reply
<1>3. ~RetryInFlight' /\ RetryInFlight
  BY <1>0, <1>2 DEF RetryInv, RetryOnce, RetryInFlight
<1>4. /\ job.retryCount \in Nat /\ row.retryCount \in Nat /\ budget \in Nat
      /\ row.retryCount <= job.retryCount /\ job.retryCount + 1 <= budget
  BY <1>3 DEF TypeOK, Job, Row, RetryInv, RetryBudget
<1>5. job'.retryCount = job.retryCount + 1
  <2>1. JobRetried(job) \in Job /\ JobRetried(job).retryCount = job.retryCount + 1
    BY JobTypes, JobRetryCounts DEF TypeOK
  <2>2. CASE job' = JobRetried(job)
    BY <2>1, <2>2
  <2>3. CASE job' = [JobRetried(job) EXCEPT !.state = "running", !.resumeAt = @ /\ ~checkpoint]
    BY <2>1, <2>3 DEF Job
  <2> QED
    BY <2>2, <2>3 DEF handleRetry
<1>6. row'.retryCount \in {row.retryCount, job.retryCount + 1}
  <2>1. counted \in Row /\ counted.retryCount = job.retryCount + 1
    <3>1. job.retryCount + 1 \in Nat
      BY <1>4
    <3> QED
      BY <3>1, RowTypes, RowRetryCounts DEF TypeOK
  <2>2. \A r \in Row : /\ UpdateJobStarted(r).retryCount = r.retryCount
                       /\ UpdateJobCompleted(r, "failed", "nil").retryCount = r.retryCount
    BY RowRetryCounts DEF JobStates, Results
  <2>3. \A r \in Written(row, counted) :
          r \in Row /\ r.retryCount \in {row.retryCount, job.retryCount + 1}
    BY <2>1, WrittenIsOldOrNew DEF TypeOK
  <2>4. CASE row' \in Written(row, counted)
    BY <2>3, <2>4
  <2>5. CASE row' \in UNION {Written(r, UpdateJobStarted(r)) : r \in Written(row, counted)}
    <3>1. PICK r \in Written(row, counted) : row' \in Written(r, UpdateJobStarted(r))
      BY <2>5
    <3> QED
      BY <2>2, <2>3, <3>1, WrittenIsOldOrNew
  <2>6. CASE row' \in UNION {Written(r, UpdateJobCompleted(r, "failed", "nil")) :
                               r \in Written(row, counted)}
    <3>1. PICK r \in Written(row, counted) :
            row' \in Written(r, UpdateJobCompleted(r, "failed", "nil"))
      BY <2>6
    <3> QED
      BY <2>2, <2>3, <3>1, WrittenIsOldOrNew
  <2> QED
    BY <2>4, <2>5, <2>6 DEF handleRetry
<1>7. RetryOnce'
  BY <1>2, <1>3 DEF RetryOnce, RetryInFlight, OneRetryQueued
<1>8. RetryBudget'
  BY <1>3, <1>4, <1>5, <1>6 DEF RetryBudget
<1> QED
  BY <1>7, <1>8 DEF RetryInv

-----------------------------------------------------------------------------
(***************************************************************************)
(* The steps beside the handlers: none changes the job or the row.         *)
(***************************************************************************)
LEMMA EndKeepsRetry ==
  ASSUME TypeOK, RetryInv, budget' = budget, LoopCancelled \/ DrainCommand \/ CloseDone
  PROVE  RetryInv'
<1> USE DEF disk, retry
<1>0. TypeOK' /\ UNCHANGED <<job, disk, retry>> /\ OneRetryQueued
  BY EndTypes DEF LoopCancelled, DrainCommand, CloseDone, RetryInv, RetryOnce, OneRetryQueued
<1>1. CASE UNCHANGED <<cmdChan, calls>>
  BY <1>0, <1>1, RetryInvKept DEF Queued, Unsent, OneRetryQueued
<1>2. CASE DrainCommand
  <2>1. Unsent("retry")' => Unsent("retry")
    BY <1>2 DEF TypeOK, DrainCommand, Unsent, Callers, CallRecord
  <2>2. OneRetryQueued' /\ (Queued("retry")' => Queued("retry"))
    BY <1>0, <1>2, TakenFromQueue DEF DrainCommand
  <2> QED
    BY <1>0, <2>1, <2>2, RetryInvKept
<1> QED
  BY <1>1, <1>2 DEF LoopCancelled, CloseDone

LEMMA GoroutinesKeepRetry ==
  ASSUME TypeOK, RetryInv, budget' = budget,
         (\E p \in DOMAIN procs : ProcessEnds(p) \/ waitForProcessExit(p)) \/ SendRetry
  PROVE  RetryInv'
<1> USE DEF disk, retry, chans
<1>0. TypeOK' /\ OneRetryQueued
  BY GoroutineTypes DEF RetryInv, RetryOnce, OneRetryQueued
<1>1. ASSUME NEW p \in DOMAIN procs, ProcessEnds(p)
      PROVE  RetryInv'
  BY <1>0, <1>1, RetryInvKept DEF ProcessEnds, Queued, Unsent, OneRetryQueued
<1>2. ASSUME NEW p \in DOMAIN procs, waitForProcessExit(p)
      PROVE  RetryInv'
  <2>1. PICK e \in WaitReturns(procs[p]) :
          Send([Cmd("processExited", Nobody) EXCEPT !.exit = e, !.proc = p])
    BY <1>2 DEF waitForProcessExit
  <2> DEFINE m == [Cmd("processExited", Nobody) EXCEPT !.exit = e, !.proc = p]
  <2>2. m \in Command /\ m.typ # "retry"
    <3>1. e \in Exits /\ p \in Nat
      BY <2>1 DEF TypeOK, WaitReturns, Exits
    <3> QED
      BY <3>1, CmdTypes DEF Cmd
  <2>3. OneRetryQueued' /\ (Queued("retry")' => Queued("retry"))
    <3> HIDE DEF m
    <3> QED
      BY <1>0, <2>1, <2>2, SentToQueue DEF m
  <2> QED
    BY <1>0, <1>2, <2>3, RetryInvKept DEF waitForProcessExit, Unsent
<1>3. CASE SendRetry
  <2>1. /\ ~Queued("retry") /\ ~Unsent("retry") /\ retryGo' = FALSE
        /\ RetryInFlight /\ UNCHANGED <<job, row, retryPending, calls>>
    BY <1>3 DEF SendRetry, RetryInv, RetryOnce, RetryInFlight
  <2>2. OneRetryQueued'
    <3>1. Cmd("retry", Nobody) \in Command
      BY CmdTypes DEF CommandTypes
    <3> QED
      BY <1>0, <1>3, <2>1, <3>1, SentToQueue DEF SendRetry, OneRetryQueued
  <2>3. RetryOnce'
    BY <2>1, <2>2 DEF RetryInv, RetryOnce, OneRetryQueued, Unsent
  <2>4. RetryBudget'
    <3>1. job.retryCount \in Nat /\ budget \in Nat
      BY DEF TypeOK, Job
    <3> QED
      BY <2>1, <3>1 DEF RetryInv, RetryBudget
  <2> QED
    BY <2>3, <2>4 DEF RetryInv
<1> QED
  BY <1>1, <1>2, <1>3

LEMMA ClientKeepsRetry ==
  ASSUME TypeOK, RetryInv, budget' = budget, NEW c \in Clients, Client(c)
  PROVE  RetryInv'
<1> USE DEF disk, retry
<1>0. TypeOK' /\ OneRetryQueued /\ c \in Callers /\ c # Creator /\ Creator \in Callers
  BY ClientTypes, ConstantsAssumption DEF RetryInv, RetryOnce, OneRetryQueued, Callers
<1>1. UNCHANGED <<job, row, retryGo, retryPending>>
  BY DEF Client, Call, CallDone, Return, ReturnDone, Timeout
<1>2. calls'[Creator] = calls[Creator]
  BY <1>0 DEF Client, Call, CallDone, Return, ReturnDone, Timeout, TypeOK
<1>3. OneRetryQueued' /\ (Queued("retry")' => Queued("retry"))
  <2>1. CASE Call(c)
    <3>1. PICK m \in ClientCommands(c) : Send(m)
      BY <2>1 DEF Call
    <3>2. m \in Command /\ m.typ # "retry"
      BY <1>0, CmdTypes DEF ClientCalls
    <3> QED
      BY <1>0, <3>1, <3>2, SentToQueue
  <2>2. CASE UNCHANGED cmdChan
    BY <1>0, <2>2 DEF Queued, OneRetryQueued
  <2>3. CASE Timeout(c)
    BY <1>0, <2>3, AbandonedInQueue DEF Timeout
  <2> QED
    BY <2>1, <2>2, <2>3 DEF Client, CallDone, Return, ReturnDone
<1> QED
  BY <1>0, <1>1, <1>2, <1>3, RetryInvKept DEF Unsent

\* The creator's retry moves from its hands to the queue.
LEMMA CreatorKeepsRetry ==
  ASSUME TypeOK, RetryInv, budget' = budget, CreatorSteps
  PROVE  RetryInv'
<1> USE DEF disk, retry
<1>0. TypeOK' /\ OneRetryQueued /\ Creator \in Callers
      /\ UNCHANGED <<job, row, retryGo, retryPending>>
  BY CreatorTypes DEF RetryInv, RetryOnce, OneRetryQueued, Callers, CreatorSteps,
     CreatorSends, CreatorStartDone, CreatorReturns, CreatorGivesUp
<1>1. calls[Creator] \in CallRecord
  BY <1>0 DEF TypeOK
<1>2. CASE CreatorSends
  <2>1. calls'[Creator].st = "waiting"
    <3>1. calls' = [calls EXCEPT ![Creator] = [calls[Creator] EXCEPT !.st = "waiting"]]
      BY <1>2, Zenon DEF CreatorSends
    <3> QED
      BY <1>0, <1>1, <3>1 DEF TypeOK, CallRecord
  <2>2. ~Unsent("retry")'
    BY <2>1 DEF Unsent
  <2>3. Cmd(calls[Creator].typ, Creator) \in Command
    BY <1>0, CmdTypes DEF TypeOK, RawSend, CommandTypes
  <2>4. CASE calls[Creator].typ # "retry"
    <3>1. Cmd(calls[Creator].typ, Creator).typ # "retry"
      BY <2>4 DEF Cmd
    <3>2. OneRetryQueued' /\ (Queued("retry")' => Queued("retry"))
      BY <1>0, <1>2, <2>3, <3>1, SentToQueue DEF CreatorSends
    <3> QED
      BY <1>0, <2>2, <3>2, RetryInvKept
  <2>5. CASE calls[Creator].typ = "retry"
    <3>1. Unsent("retry")
      BY <1>2, <2>5 DEF Unsent, CreatorSends
    <3>2. ~retryGo /\ ~Queued("retry") /\ RetryInFlight
      BY <3>1 DEF RetryInv, RetryOnce, RetryInFlight
    <3>3. OneRetryQueued'
      BY <1>0, <1>2, <2>3, <3>2, SentToQueue DEF CreatorSends
    <3>4. RetryOnce'
      BY <1>0, <2>2, <3>2, <3>3 DEF RetryInv, RetryOnce, OneRetryQueued
    <3>5. RetryBudget'
      <4>1. job.retryCount \in Nat /\ budget \in Nat
        BY DEF TypeOK, Job
      <4> QED
        BY <1>0, <3>2, <4>1 DEF RetryInv, RetryBudget
    <3> QED
      BY <3>4, <3>5 DEF RetryInv
  <2> QED
    BY <2>4, <2>5
<1>3. CASE CreatorStartDone \/ CreatorReturns \/ CreatorGivesUp
  <2>1. calls'[Creator].st = "returned"
    <3>1. CASE CreatorStartDone
      BY <1>0, <1>1, <3>1 DEF CreatorStartDone, DoneReply, TypeOK, CallRecord
    <3>2. CASE CreatorReturns
      <4>1. calls' = [calls EXCEPT ![Creator] = [calls[Creator] EXCEPT !.st = "returned"]]
        BY <3>2, Zenon DEF CreatorReturns
      <4> QED
        BY <1>0, <1>1, <4>1 DEF TypeOK, CallRecord
    <3>3. CASE CreatorGivesUp
      <4>1. calls' = [calls EXCEPT ![Creator] =
                        [calls[Creator] EXCEPT !.st = "returned", !.err = "ctx"]]
        BY <3>3, Zenon DEF CreatorGivesUp
      <4> QED
        BY <1>0, <1>1, <4>1 DEF TypeOK, CallRecord
    <3> QED
      BY <1>3, <3>1, <3>2, <3>3
  <2>2. OneRetryQueued' /\ (Queued("retry")' => Queued("retry"))
    <3>1. CASE UNCHANGED cmdChan
      BY <1>0, <3>1 DEF Queued, OneRetryQueued
    <3>2. CASE CreatorGivesUp
      BY <1>0, <3>2, AbandonedInQueue DEF CreatorGivesUp
    <3> QED
      BY <1>3, <3>1, <3>2 DEF CreatorStartDone, CreatorReturns
  <2> QED
    BY <1>0, <2>1, <2>2, RetryInvKept DEF Unsent
<1> QED
  BY <1>2, <1>3 DEF CreatorSteps

LEMMA HypervisorKeepsRetry ==
  ASSUME TypeOK, RetryInv, budget' = budget, Shutdown \/ Stop \/ DevCrash, TypeOK'
  PROVE  RetryInv'
<1> USE DEF disk, retry, chans
<1>0. OneRetryQueued /\ UNCHANGED <<job, row, retryGo, retryPending, calls>>
  BY DEF RetryInv, RetryOnce, OneRetryQueued, Shutdown, Stop, DevCrash
<1>1. OneRetryQueued' /\ (Queued("retry")' => Queued("retry"))
  <2>1. CASE UNCHANGED cmdChan
    BY <1>0, <2>1 DEF Queued, OneRetryQueued
  <2>2. CASE Send(Cmd("stop", Nobody))
    <3>1. Cmd("stop", Nobody) \in Command /\ Cmd("stop", Nobody).typ # "retry"
      BY CmdTypes DEF CommandTypes, Cmd
    <3> QED
      BY <1>0, <2>2, <3>1, SentToQueue
  <2> QED
    BY <2>1, <2>2 DEF Shutdown, Stop, DevCrash
<1> QED
  BY <1>0, <1>1, RetryInvKept DEF Unsent

-----------------------------------------------------------------------------
\* A new runner holds one retry at most, the one its creator is about to send.
LEMMA RetryInvInit ==
  ASSUME Init
  PROVE  RetryInv
<1>0. TypeOK
  BY InitTypes
<1>1. PICK birth \in Births :
        /\ row \in InitialRows(birth)
        /\ job = [dbJobToJob(row) EXCEPT !.state = BornState(birth, row.state)]
        /\ calls = [c \in Callers |->
             IF c = Creator THEN [IdleCall EXCEPT !.typ = CreatorCall(birth)] ELSE IdleCall]
        /\ budget = Budget(birth, row.retryCount)
  BY DEF Init
<1>2. cmdChan = <<>> /\ retryGo = FALSE /\ retryPending = FALSE
  BY DEF Init
<1>3. row \in Row /\ row.retryCount \in Nat /\ MaxRetries \in Nat
  BY <1>0, ConstantsAssumption DEF TypeOK, Row
<1>4. job.retryCount = row.retryCount /\ job.state = BornState(birth, row.state)
  BY <1>1 DEF dbJobToJob
<1>5. /\ row.retryCount <= budget /\ MaxRetries <= budget
      /\ birth = "retry" => row.retryCount + 1 <= budget
  BY <1>1, <1>3 DEF Budget
<1>6. Unsent("retry") => birth = "retry"
  BY <1>1 DEF Unsent, IdleCall, CreatorCall, RawSend, Callers
<1>7. ~Queued("retry")
  BY <1>2 DEF Queued
<1>8. RetryInFlight => job.state = "failed" /\ birth = "retry"
  BY <1>2, <1>4, <1>6, <1>7 DEF RetryInFlight, BornState
<1>9. RetryOnce
  BY <1>2, <1>7, <1>8 DEF RetryOnce
<1>10. RetryBudget
  BY <1>3, <1>4, <1>5, <1>8 DEF RetryBudget
<1> QED
  BY <1>5, <1>9, <1>10 DEF RetryInv

\* Nothing changes the budget.
LEMMA BudgetFixed ==
  ASSUME [Next]_vars
  PROVE  budget' = budget
<1> USE DEF ctxs
<1>1. CASE Loop
  BY <1>1 DEF Loop, handleStart, handleProcessExited, handleCheckpoint, handleWake, handleKill,
     handleExit, handleGetState, handleTakeLock, handleReleaseLock, handleWaitForResult,
     handleRetry, handleStop, LoopCancelled, DrainCommand, CloseDone, NoEffect
<1>2. CASE (\E p \in DOMAIN procs : ProcessEnds(p) \/ waitForProcessExit(p)) \/ SendRetry
  BY <1>2 DEF ProcessEnds, waitForProcessExit, SendRetry
<1>3. CASE \E c \in Clients : Client(c)
  BY <1>3 DEF Client, Call, CallDone, Return, ReturnDone, Timeout
<1>4. CASE CreatorSteps
  BY <1>4 DEF CreatorSteps, CreatorSends, CreatorStartDone, CreatorReturns, CreatorGivesUp
<1>5. CASE Shutdown \/ Stop \/ DevCrash
  BY <1>5 DEF Shutdown, Stop, DevCrash
<1>6. CASE UNCHANGED vars
  BY <1>6 DEF vars
<1> QED
  BY <1>1, <1>2, <1>3, <1>4, <1>5, <1>6 DEF Next

LEMMA RetryInvStep ==
  ASSUME TypeOK, RetryInv, [Next]_vars
  PROVE  RetryInv'
<1>0. TypeOK' /\ budget' = budget
  BY StepTypes, BudgetFixed
<1>1. CASE Loop
  BY <1>0, <1>1, StartKeepsRetry, ProcessExitedKeepsRetry, CheckpointKeepsRetry, WakeKeepsRetry,
     KillKeepsRetry, ExitKeepsRetry, QuietHandlersKeepRetry, RetryKeepsRetry, EndKeepsRetry
  DEF Loop
<1>2. CASE (\E p \in DOMAIN procs : ProcessEnds(p) \/ waitForProcessExit(p)) \/ SendRetry
  BY <1>0, <1>2, GoroutinesKeepRetry
<1>3. CASE \E c \in Clients : Client(c)
  BY <1>0, <1>3, ClientKeepsRetry
<1>4. CASE CreatorSteps
  BY <1>0, <1>4, CreatorKeepsRetry
<1>5. CASE Shutdown \/ Stop \/ DevCrash
  BY <1>0, <1>5, HypervisorKeepsRetry
<1>6. CASE UNCHANGED vars
  <2>1. OneRetryQueued' /\ UNCHANGED <<job, row, retryGo, retryPending, cmdChan, calls>>
    BY <1>6 DEF vars, disk, retry, chans, RetryInv, RetryOnce, OneRetryQueued
  <2> QED
    BY <1>0, <2>1, RetryInvKept DEF Queued, Unsent
<1> QED
  BY <1>1, <1>2, <1>3, <1>4, <1>5, <1>6 DEF Next

\* At most one retry of a job is ever in flight, and only while the job is failed; its
\* policy has a retry left when the runner decided on it.
THEOREM RetryIsUnique == Spec => []RetryOnce
<1>1. Init => TypeOK /\ RetryInv
  BY InitTypes, RetryInvInit
<1>2. TypeOK /\ RetryInv /\ [Next]_vars => (TypeOK /\ RetryInv)'
  BY StepTypes, RetryInvStep
<1>3. TypeOK /\ RetryInv => RetryOnce
  BY DEF RetryInv
<1> QED
  BY <1>1, <1>2, <1>3, PTL DEF Spec

\* Whatever row a runner was made from, even one past the policy's MaxRetries, it brings
\* the retries of its job to MaxRetries at most, the one in flight included, or to the one
\* retry it was made for; and the row never claims more than were made.
THEOREM RetriesWithinBudget == Spec => []RetryBudget
<1>1. Init => TypeOK /\ RetryInv
  BY InitTypes, RetryInvInit
<1>2. TypeOK /\ RetryInv /\ [Next]_vars => (TypeOK /\ RetryInv)'
  BY StepTypes, RetryInvStep
<1>3. TypeOK /\ RetryInv => RetryBudget
  BY DEF RetryInv
<1> QED
  BY <1>1, <1>2, <1>3, PTL DEF Spec
=============================================================================
