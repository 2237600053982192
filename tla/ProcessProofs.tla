---------------------------- MODULE ProcessProofs ----------------------------
(***************************************************************************)
(* The processes of a job, proved: an exit that is awaited or queued is    *)
(* that of the current process, a job that is not running has no process,  *)
(* the branches of the handlers that JobRunner leaves out are not reached, *)
(* and a loop that outlives a failure has a retry to handle.               *)
(*                                                                         *)
(* None of the four is inductive.  A process is only started when no exit  *)
(* is due, because the job is pending and never had a process, because its *)
(* one wake has not been handled, or because a retry is in flight: that    *)
(* these three exclude an exit that is due is what ProcInv adds.           *)
(***************************************************************************)
EXTENDS JobRunnerProofs

\* The queue holds one command of this type at most.
Only(t) == \A i, j \in DOMAIN cmdChan : cmdChan[i].typ = t /\ cmdChan[j].typ = t => i = j

ExitInv == ExitIsCurrent /\ (Queued("processExited") => procs # <<>>)

\* The wake of a woken runner is sent once, and finds the job as it was made.
WakeInv ==
  /\ Only("wake")
  /\ Queued("wake") => ~Unsent("wake")
  /\ loop = "select" /\ (Queued("wake") \/ Unsent("wake")) => job.state = "suspended" /\ procs = <<>>

\* No exit is due when a process may be started.
RestInv ==
  /\ RetryInFlight => watching = {} /\ ~Queued("processExited")
  /\ job.state = "pending" => procs = <<>>

\* A job that reported its own end is not handled any more.
OpInv == job.op # "checkpointing" /\ (job.op = "exiting" => loop # "select")

ProcInv == ExitInv /\ WakeInv /\ RestInv /\ OpInv /\ RetryPendingIsInFlight

-----------------------------------------------------------------------------
(***************************************************************************)
(* The queue.                                                              *)
(***************************************************************************)
\* Every exit in the queue was there before the step.
ExitsFrom ==
  \A i \in DOMAIN cmdChan' : cmdChan'[i].typ = "processExited" =>
    \E k \in DOMAIN cmdChan : cmdChan[k].typ = "processExited" /\ cmdChan[k].proc = cmdChan'[i].proc

LEMMA Taken ==
  ASSUME TypeOK, cmdChan # <<>>, cmdChan' = Tail(cmdChan), NEW t
  PROVE  /\ Only(t) => Only(t)'
         /\ Queued(t)' => Queued(t)
         /\ Head(cmdChan).typ # t /\ Queued(t) => Queued(t)'
         /\ Head(cmdChan).typ = t => Queued(t)
         /\ Head(cmdChan).typ = t /\ Only(t) => ~Queued(t)'
         /\ ExitsFrom
<1>1. /\ cmdChan \in Seq(Command) /\ Len(cmdChan) \in Nat \ {0}
      /\ DOMAIN cmdChan = 1..Len(cmdChan)
      /\ Head(cmdChan) = cmdChan[1]
  BY DEF TypeOK
<1>2. DOMAIN cmdChan' = 1..(Len(cmdChan) - 1)
  BY <1>1
<1>3. \A i \in DOMAIN cmdChan' : i + 1 \in DOMAIN cmdChan /\ cmdChan'[i] = cmdChan[i + 1]
  BY <1>1, <1>2
<1>4. \A k \in DOMAIN cmdChan \ {1} : k - 1 \in DOMAIN cmdChan' /\ cmdChan'[k - 1] = cmdChan[k]
  BY <1>1, <1>2
<1>5. Only(t) => Only(t)'
  <2> SUFFICES ASSUME Only(t), NEW i \in DOMAIN cmdChan', NEW j \in DOMAIN cmdChan',
                      cmdChan'[i].typ = t, cmdChan'[j].typ = t
               PROVE  i = j
    BY DEF Only
  <2>1. i + 1 = j + 1
    BY <1>3 DEF Only
  <2> QED
    BY <1>1, <1>2, <2>1
<1>6. Queued(t)' => Queued(t)
  BY <1>3 DEF Queued
<1>7. Head(cmdChan).typ # t /\ Queued(t) => Queued(t)'
  BY <1>1, <1>4 DEF Queued
<1>8. Head(cmdChan).typ = t => Queued(t)
  BY <1>1 DEF Queued
<1>9. Head(cmdChan).typ = t /\ Only(t) => ~Queued(t)'
  <2>1. \A i \in DOMAIN cmdChan' : i + 1 # 1
    BY <1>1, <1>2
  <2> QED
    BY <1>1, <1>3, <2>1 DEF Queued, Only
<1>10. ExitsFrom
  BY <1>3 DEF ExitsFrom
<1> QED
  BY <1>5, <1>6, <1>7, <1>8, <1>9, <1>10

LEMMA Sent ==
  ASSUME TypeOK, NEW m \in Command, Send(m), NEW t
  PROVE  /\ Queued(t) => Queued(t)'
         /\ m.typ # t => (Only(t) => Only(t)') /\ (Queued(t)' => Queued(t))
         /\ m.typ = t => Queued(t)' /\ (~Queued(t) => Only(t)')
         /\ m.typ # "processExited" => ExitsFrom
<1>1. /\ cmdChan \in Seq(Command) /\ Len(cmdChan) \in Nat
      /\ DOMAIN cmdChan = 1..Len(cmdChan)
      /\ cmdChan' = Append(cmdChan, m)
  BY DEF TypeOK, Send
<1>2. /\ DOMAIN cmdChan' = 1..(Len(cmdChan) + 1)
      /\ cmdChan'[Len(cmdChan) + 1] = m
      /\ \A i \in DOMAIN cmdChan : cmdChan'[i] = cmdChan[i]
  BY <1>1
<1>3. \A i \in DOMAIN cmdChan' : i \in DOMAIN cmdChan \/ (i = Len(cmdChan) + 1 /\ cmdChan'[i] = m)
  BY <1>1, <1>2
<1>4. \A i \in DOMAIN cmdChan : i \in DOMAIN cmdChan'
  BY <1>1, <1>2
<1>5. Len(cmdChan) + 1 \in DOMAIN cmdChan'
  BY <1>1, <1>2
<1>6. Queued(t) => Queued(t)'
  BY <1>2, <1>4 DEF Queued
<1>7. m.typ # t => (Only(t) => Only(t)') /\ (Queued(t)' => Queued(t))
  BY <1>2, <1>3 DEF Only, Queued
<1>8. m.typ = t => Queued(t)' /\ (~Queued(t) => Only(t)')
  BY <1>2, <1>3, <1>5 DEF Only, Queued
<1>9. m.typ # "processExited" => ExitsFrom
  BY <1>2, <1>3 DEF ExitsFrom
<1> QED
  BY <1>6, <1>7, <1>8, <1>9

LEMMA GivenUp ==
  ASSUME TypeOK, NEW c \in Callers, cmdChan' = Abandoned(c), NEW t
  PROVE  /\ Only(t) => Only(t)'
         /\ Queued(t)' <=> Queued(t)
         /\ ExitsFrom
<1>1. DOMAIN cmdChan' = DOMAIN cmdChan
  BY DEF Abandoned
<1>2. \A i \in DOMAIN cmdChan : cmdChan'[i].typ = cmdChan[i].typ /\ cmdChan'[i].proc = cmdChan[i].proc
  <2> TAKE i \in DOMAIN cmdChan
  <2>1. cmdChan[i] \in Command
    BY DEF TypeOK
  <2>2. [cmdChan[i] EXCEPT !.from = Nobody].typ = cmdChan[i].typ
        /\ [cmdChan[i] EXCEPT !.from = Nobody].proc = cmdChan[i].proc
    BY <2>1 DEF Command
  <2> QED
    BY <2>2 DEF Abandoned
<1> QED
  BY <1>1, <1>2 DEF Only, Queued, ExitsFrom

-----------------------------------------------------------------------------
(***************************************************************************)
(* A calm step starts no process and brings no exit, no wake and no retry. *)
(***************************************************************************)
Calm ==
  /\ Len(procs') = Len(procs) /\ watching' \subseteq watching
  /\ ExitsFrom /\ (Only("processExited") => Only("processExited")')
  /\ (Only("wake") => Only("wake")') /\ (Queued("wake")' => Queued("wake"))
  /\ Unsent("wake")' => Unsent("wake")
  /\ RetryInFlight' => RetryInFlight
  /\ loop' = "select" => loop = "select"
  /\ job'.state = "pending" => job.state = "pending"
  /\ loop' = "select" /\ job.state = "suspended" => job'.state = "suspended"
  /\ loop' = "select" /\ retryPending' => retryPending
  /\ loop' = "select" /\ retryPending' /\ (retryGo \/ Queued("retry")) => (retryGo \/ Queued("retry"))'
  /\ job'.op # "checkpointing" /\ (job'.op = "exiting" => loop' # "select")

LEMMA CalmKeeps ==
  ASSUME TypeOK, TypeOK', ProcInv, Calm
  PROVE  ProcInv'
<1>1. Len(procs') = Len(procs) /\ watching' \subseteq watching /\ ExitsFrom
  BY DEF Calm
<1>2. (Only("processExited") => Only("processExited")') /\ (Only("wake") => Only("wake")')
      /\ (Queued("wake")' => Queued("wake")) /\ (Unsent("wake")' => Unsent("wake"))
      /\ (RetryInFlight' => RetryInFlight)
  BY DEF Calm
<1>3. procs = <<>> => procs' = <<>>
  BY <1>1 DEF TypeOK
<1>4. Queued("processExited")' => Queued("processExited")
  BY <1>1 DEF ExitsFrom, Queued
<1>5. ExitInv'
  <2>1. \A p \in watching' : p = Len(procs')
    BY <1>1 DEF ProcInv, ExitInv, ExitIsCurrent
  <2>2. \A i \in DOMAIN cmdChan' :
          cmdChan'[i].typ = "processExited" => cmdChan'[i].proc = Len(procs') /\ watching' = {}
    BY <1>1 DEF ProcInv, ExitInv, ExitIsCurrent, ExitsFrom
  <2>3. Only("processExited")'
    BY <1>2 DEF ProcInv, ExitInv, ExitIsCurrent, Only
  <2>4. procs' = <<>> => procs = <<>>
    BY <1>1 DEF TypeOK
  <2> QED
    BY <1>4, <2>1, <2>2, <2>3, <2>4 DEF ProcInv, ExitInv, ExitIsCurrent, Only
<1>6. WakeInv'
  BY <1>2, <1>3 DEF ProcInv, WakeInv, Calm
<1>7. RestInv'
  BY <1>1, <1>2, <1>3, <1>4 DEF ProcInv, RestInv, Calm
<1>8. OpInv' /\ RetryPendingIsInFlight'
  BY DEF ProcInv, OpInv, RetryPendingIsInFlight, Calm
<1> QED
  BY <1>5, <1>6, <1>7, <1>8 DEF ProcInv

\* A running, pending, suspended or completed job has no retry to wait for.
LEMMA NotFailed ==
  ASSUME RetryInv, ProcInv, job.state # "failed"
  PROVE  ~RetryInFlight /\ (loop = "select" => ~retryPending)
  BY DEF RetryInv, RetryOnce, ProcInv, RetryPendingIsInFlight, RetryInFlight

\* A wake that is due finds the job suspended.
LEMMA NotSuspended ==
  ASSUME ProcInv, loop = "select", job.state # "suspended"
  PROVE  ~Queued("wake") /\ ~Unsent("wake")
  BY DEF ProcInv, WakeInv

-----------------------------------------------------------------------------
(***************************************************************************)
(* The end of a handler.                                                   *)
(***************************************************************************)
LEMMA Settled ==
  ASSUME TypeOK, cmdChan # <<>>, NEW to, NEW err, NEW ws, Settle(to, err, ws)
  PROVE  /\ cmdChan' = Tail(cmdChan)
         /\ \A t : Unsent(t)' => Unsent(t)
         /\ loop' = "select" => ~LoopEnds(job', retryPending')
  BY DEF TypeOK, Settle, Unsent, Callers, CallRecord

\* A handler that starts no process and allows no retry is calm.
LEMMA HandlerIsCalm ==
  ASSUME TypeOK, ProcInv, NEW t, Handling(t), NEW to, NEW err, NEW ws, Settle(to, err, ws),
         Len(procs') = Len(procs), UNCHANGED <<watching, retryGo>>,
         retryPending' => retryPending /\ t # "retry",
         job'.state = "pending" => job.state = "pending",
         loop' = "select" /\ job.state = "suspended" => job'.state = "suspended",
         job'.op # "checkpointing",
         job'.op = "exiting" => loop' # "select"
  PROVE  Calm
<1>1. loop = "select" /\ cmdChan # <<>> /\ Head(cmdChan).typ = t
  BY DEF Handling
<1>3. cmdChan' = Tail(cmdChan) /\ (Unsent("retry")' => Unsent("retry"))
      /\ (Unsent("wake")' => Unsent("wake"))
  BY <1>1, Settled
<1>4. ExitsFrom /\ (Only("processExited") => Only("processExited")')
  BY <1>1, <1>3, Taken
<1>5. (Only("wake") => Only("wake")') /\ (Queued("wake")' => Queued("wake"))
  BY <1>1, <1>3, Taken
<1>6. (Queued("retry")' => Queued("retry")) /\ (t # "retry" /\ Queued("retry") => Queued("retry")')
  BY <1>1, <1>3, Taken
<1>7. RetryInFlight' => RetryInFlight
  BY <1>3, <1>6 DEF RetryInFlight
<1> QED
  BY <1>1, <1>3, <1>4, <1>5, <1>6, <1>7 DEF Calm

\* A process is started when no exit is due and nothing is left to start another.
LEMMA StartedKeeps ==
  ASSUME TypeOK, TypeOK', ProcInv, cmdChan # <<>>, cmdChan' = Tail(cmdChan),
         watching = {}, ~Queued("processExited"),
         Len(procs') = Len(procs) + 1, watching' = watching \cup {Len(procs) + 1},
         ~Queued("wake")', ~Unsent("wake")', ~RetryInFlight', ~retryPending',
         job'.state = "running", job'.op \notin {"checkpointing", "exiting"}
  PROVE  ProcInv'
<1>1. ~Queued("processExited")' /\ Only("wake")'
  BY Taken DEF ProcInv, WakeInv
<1>2. ExitInv'
  BY <1>1 DEF ExitInv, ExitIsCurrent, Queued
<1>3. WakeInv' /\ RestInv' /\ OpInv' /\ RetryPendingIsInFlight'
  BY <1>1 DEF WakeInv, RestInv, OpInv, RetryPendingIsInFlight
<1> QED
  BY <1>2, <1>3 DEF ProcInv

\* What becomes of the processes is a list as long as before, or one longer.
LEMMA ProcsLengths ==
  ASSUME TypeOK
  PROVE  /\ \A s : Len([procs EXCEPT ![Len(procs)] = s]) = Len(procs)
         /\ \A p \in Leftovers : Len(p) = Len(procs) /\ Len(Append(p, "running")) = Len(procs) + 1
         /\ Len(Append(procs, "running")) = Len(procs) + 1
<1> DEFINE removed == [p \in DOMAIN procs |-> "removed"]
           S == {"running", "exited", "removed"}
<1>1. procs \in Seq(S) /\ Len(procs) \in Nat /\ DOMAIN procs = 1..Len(procs)
  BY DEF TypeOK
<1>2. removed \in Seq(S) /\ Len(removed) = Len(procs)
  BY <1>1
<1>3. \A s : Len([procs EXCEPT ![Len(procs)] = s]) = Len(procs)
  BY <1>1
<1>4. \A p \in Seq(S) : Len(Append(p, "running")) = Len(p) + 1
  OBVIOUS
<1> HIDE DEF removed, S
<1> QED
  BY <1>1, <1>2, <1>3, <1>4 DEF Leftovers, removed

-----------------------------------------------------------------------------
(***************************************************************************)
(* The handlers.                                                           *)
(***************************************************************************)
\* A command that is refused, or answered without doing anything.
LEMMA NoEffectIsCalm ==
  ASSUME TypeOK, ProcInv, NEW t, Handling(t), t # "retry", NEW to, NEW err, NEW ws,
         Settle(to, err, ws), UNCHANGED <<job, procs, watching, retryPending, retryGo>>
  PROVE  Calm
<1>1. job'.op # "checkpointing" /\ job'.op # "exiting"
  BY DEF ProcInv, OpInv, Handling
<1> QED
  BY <1>1, HandlerIsCalm

LEMMA StartKeepsProc ==
  ASSUME TypeOK, TypeOK', RetryInv, ProcInv, handleStart
  PROVE  ProcInv'
<1> USE DEF disk, world, saved, retry, ctxs
<1>0. Handling("start") /\ loop = "select" /\ cmdChan # <<>>
  BY DEF handleStart, Handling
<1>1. job.op # "checkpointing" /\ job.op # "exiting"
  BY <1>0 DEF ProcInv, OpInv
<1>2. CASE NoEffect /\ Reply("state")
  BY <1>0, <1>2, NoEffectIsCalm, CalmKeeps DEF NoEffect, Reply
<1>3. CASE /\ job.state = "pending"
           /\ job' = [job EXCEPT !.state = "running"]
           /\ NewProcess /\ UNCHANGED retry
           /\ Reply("nil")
  <2>1. procs = <<>> /\ watching = {} /\ ~Queued("processExited")
    BY <1>3 DEF ProcInv, RestInv, ExitInv, TypeOK
  <2>2. cmdChan' = Tail(cmdChan) /\ (\A t : Unsent(t)' => Unsent(t))
    BY <1>0, <1>3, Settled DEF Reply
  <2>3. (\A t : Queued(t)' => Queued(t))
    BY <1>0, <2>2, Taken
  <2>4. ~Queued("wake") /\ ~Unsent("wake") /\ ~RetryInFlight /\ ~retryPending
    BY <1>0, <1>3, NotFailed, NotSuspended
  <2>5. ~Queued("wake")' /\ ~Unsent("wake")' /\ ~RetryInFlight' /\ ~retryPending'
    BY <1>3, <2>2, <2>3, <2>4 DEF RetryInFlight
  <2>6. job'.state = "running" /\ job'.op = job.op
    BY <1>3 DEF TypeOK, Job
  <2>7. Len(procs') = Len(procs) + 1 /\ watching' = watching \cup {Len(procs) + 1}
    BY <1>3, ProcsLengths DEF NewProcess
  <2> QED
    BY <1>0, <1>1, <2>1, <2>2, <2>5, <2>6, <2>7, StartedKeeps
<1>4. CASE /\ job' = [job EXCEPT !.state = "failed"]
           /\ job.state = "pending"
           /\ UNCHANGED <<world, retry>>
           /\ Reply("runtime")
  <2>1. job'.state = "failed" /\ job'.op = job.op
    BY <1>4 DEF TypeOK, Job
  <2> QED
    BY <1>0, <1>1, <1>4, <2>1, HandlerIsCalm, CalmKeeps DEF Reply
<1> QED
  BY <1>2, <1>3, <1>4 DEF handleStart

\* The exit that fails a job was the last one due, so none is when the retry is handled.
LEMMA ProcessExitedKeepsProc ==
  ASSUME TypeOK, TypeOK', RetryInv, ProcInv, handleProcessExited
  PROVE  ProcInv'
<1> USE DEF disk, world, saved, retry, ctxs
<1> DEFINE exited == JobExited(job, Head(cmdChan).exit)
<1>0. Handling("processExited") /\ loop = "select" /\ cmdChan # <<>> /\ Reply("nil")
      /\ Head(cmdChan).typ = "processExited"
  BY DEF handleProcessExited, Handling
<1>1. job.op # "checkpointing" /\ job.op # "exiting"
  BY <1>0 DEF ProcInv, OpInv
<1>2. exited \in Job /\ exited.state \in {"completed", "failed"} /\ exited.op = job.op
  <2>1. Head(cmdChan) \in Command
    BY <1>0, QueueTypes DEF TypeOK
  <2>2. Head(cmdChan).exit \in Exits
    BY <2>1 DEF Command
  <2> QED
    BY <2>2, JobTypes DEF TypeOK, Job, JobExited
<1>3. CASE NoEffect
  BY <1>0, <1>3, NoEffectIsCalm, CalmKeeps DEF NoEffect, Reply
<1> HIDE DEF exited
<1>4. CASE /\ job.state # "suspended" /\ Cleanup
           /\ job' \in {exited, [exited EXCEPT !.state = "pending_retry", !.resumeAt = TRUE]}
           /\ UNCHANGED <<watching, retry>>
  <2>1. job'.state # "pending" /\ job'.op = job.op
    <3>1. CASE job' = exited
      BY <1>2, <3>1
    <3>2. CASE job' = [exited EXCEPT !.state = "pending_retry", !.resumeAt = TRUE]
      BY <1>2, <3>2 DEF Job
    <3> QED
      BY <1>4, <3>1, <3>2
  <2>2. Len(procs') = Len(procs)
    BY <1>4, ProcsLengths DEF Cleanup
  <2> QED
    BY <1>0, <1>1, <1>4, <2>1, <2>2, HandlerIsCalm, CalmKeeps DEF Reply
<1>5. CASE /\ ~IsTerminal(job) /\ job.state # "suspended" /\ Cleanup
           /\ job' = exited
           /\ retryPending' = TRUE /\ retryGo' = TRUE
           /\ UNCHANGED watching
  <2>1. cmdChan' = Tail(cmdChan) /\ (\A t : Unsent(t)' => Unsent(t))
    BY <1>0, Settled DEF Reply
  <2>2. Queued("processExited") /\ Only("processExited") /\ ~Queued("processExited")'
    <3>1. Queued("processExited") /\ Only("processExited")
      BY <1>0, <2>1, Taken DEF ProcInv, ExitInv, ExitIsCurrent, Only
    <3> QED
      BY <1>0, <2>1, <3>1, Taken
  <2>3. watching = {}
    BY <2>2 DEF ProcInv, ExitInv, ExitIsCurrent, Queued
  <2>4. ~Queued("wake") /\ ~Unsent("wake")
    BY <1>0, <1>5, NotSuspended
  <2>5. ~Queued("wake")' /\ ~Unsent("wake")' /\ Only("wake")'
    BY <1>0, <2>1, <2>4, Taken DEF ProcInv, WakeInv
  <2>6. ExitInv'
    BY <1>5, <2>2, <2>3 DEF ExitInv, ExitIsCurrent, Queued
  <2>7. WakeInv' /\ RestInv' /\ OpInv' /\ RetryPendingIsInFlight'
    BY <1>1, <1>2, <1>5, <2>2, <2>3, <2>5 DEF WakeInv, RestInv, OpInv, RetryPendingIsInFlight
  <2> QED
    BY <2>6, <2>7 DEF ProcInv
<1> QED
  BY <1>3, <1>4, <1>5 DEF handleProcessExited, exited

LEMMA CheckpointKeepsProc ==
  ASSUME TypeOK, TypeOK', RetryInv, ProcInv, handleCheckpoint
  PROVE  ProcInv'
<1> USE DEF disk, world, saved, retry, ctxs
<1> DEFINE cmd == Head(cmdChan)
<1>0. Handling("checkpoint") /\ loop = "select" /\ cmdChan # <<>>
  BY DEF handleCheckpoint, Handling
<1>1. job.op # "checkpointing" /\ job.op # "exiting"
  BY <1>0 DEF ProcInv, OpInv
<1>2. cmd.suspend \in BOOLEAN
  <2>1. cmd \in Command
    BY <1>0, QueueTypes DEF TypeOK
  <2> QED
    BY <2>1 DEF Command
<1>3. ASSUME NEW err, NoEffect, Reply(err)
      PROVE  ProcInv'
  BY <1>0, <1>3, NoEffectIsCalm, CalmKeeps DEF NoEffect, Reply
<1>4. CASE NoEffect /\ loop' = "panicked" /\ UNCHANGED <<cmdChan, waiters, calls>>
  <2>1. UNCHANGED <<job, procs, watching, retryPending, retryGo, cmdChan, calls>>
    BY <1>4 DEF NoEffect
  <2>2. ExitsFrom /\ (Only("processExited") => Only("processExited")')
        /\ (Only("wake") => Only("wake")') /\ (\A t : Queued(t)' => Queued(t))
    BY <2>1 DEF ExitsFrom, Only, Queued
  <2>3. Calm
    BY <1>1, <1>4, <2>1, <2>2 DEF Calm, RetryInFlight, Unsent
  <2> QED
    BY <2>3, CalmKeeps
<1>5. CASE /\ CheckpointRefusal(cmd) = "nil"
           /\ job' = JobNotCheckpointed(job)
           /\ procs' \in ProcsNotCheckpointed(cmd.suspend)
           /\ UNCHANGED <<watching, retry>>
           /\ Reply("runtime")
  <2>1. job'.state = job.state /\ job'.op \notin {"checkpointing", "exiting"}
    <3>1. job'.op = ""
      BY <1>5 DEF TypeOK, Job, JobNotCheckpointed
    <3>2. job'.state = job.state
      BY <1>5 DEF TypeOK, Job, JobNotCheckpointed
    <3> QED
      BY <3>1, <3>2, Zenon
  <2>2. Len(procs') = Len(procs)
    BY <1>5, ProcsLengths DEF ProcsNotCheckpointed
  <2>3. UNCHANGED <<watching, retryPending, retryGo>> /\ Reply("runtime")
    BY <1>5
  <2>4. Calm
    BY <1>0, <2>1, <2>2, <2>3, HandlerIsCalm DEF Reply
  <2> QED
    BY <2>4, CalmKeeps
<1>6. CASE /\ CheckpointRefusal(cmd) = "nil"
           /\ job' = JobCheckpointed(job, cmd.suspend)
           /\ procs' \in ProcsCheckpointed(cmd.suspend)
           /\ UNCHANGED <<watching, retry>>
           /\ Reply("nil")
  <2>1. job.state = "running"
    BY <1>6 DEF CheckpointRefusal
  <2>2. job'.state \in {"running", "suspended"} /\ job'.op \notin {"checkpointing", "exiting"}
    <3>1. job'.op = ""
      BY <1>6 DEF TypeOK, Job, JobCheckpointed
    <3>2. job'.state \in {"running", "suspended"}
      BY <1>2, <1>6, <2>1 DEF TypeOK, Job, JobCheckpointed
    <3> QED
      BY <3>1, <3>2, Zenon
  <2>3. Len(procs') = Len(procs)
    BY <1>6, ProcsLengths DEF ProcsCheckpointed
  <2>4. UNCHANGED <<watching, retryPending, retryGo>> /\ Reply("nil")
    BY <1>6
  <2>5. Calm
    BY <1>0, <2>1, <2>2, <2>3, <2>4, HandlerIsCalm DEF Reply
  <2> QED
    BY <2>5, CalmKeeps
<1> QED
  BY <1>3, <1>4, <1>5, <1>6 DEF handleCheckpoint

\* A restore that fails ends the loop: the suspended job has no retry to wait for.
LEMMA WakeKeepsProc ==
  ASSUME TypeOK, TypeOK', RetryInv, ProcInv, handleWake
  PROVE  ProcInv'
<1> USE DEF disk, world, saved, retry, ctxs
<1>0. Handling("wake") /\ loop = "select" /\ cmdChan # <<>> /\ Head(cmdChan).typ = "wake"
      /\ job.state = "suspended" /\ UNCHANGED <<retryPending, retryGo>>
  BY DEF handleWake, Handling
<1>1. job.op # "checkpointing" /\ job.op # "exiting" /\ ~retryPending /\ ~RetryInFlight
  BY <1>0, NotFailed DEF ProcInv, OpInv
<1>2. PICK err : Reply(err)
  BY DEF handleWake
<1>3. cmdChan' = Tail(cmdChan) /\ (\A t : Unsent(t)' => Unsent(t))
      /\ (loop' = "select" => ~LoopEnds(job', retryPending'))
  BY <1>0, <1>2, Settled DEF Reply
<1>4. Queued("wake") /\ ~Queued("wake")' /\ (\A t : Queued(t)' => Queued(t))
  BY <1>0, <1>3, Taken DEF ProcInv, WakeInv
<1>5. procs = <<>> /\ watching = {} /\ ~Queued("processExited") /\ ~Unsent("wake")
  BY <1>0, <1>4 DEF ProcInv, WakeInv, ExitInv, TypeOK
<1>6. CASE job' = [job EXCEPT !.state = "running", !.resumeAt = FALSE] /\ RestoredProcess
  <2>1. job'.state = "running" /\ job'.op = job.op
    BY <1>6 DEF TypeOK, Job
  <2>2. Len(procs') = Len(procs) + 1 /\ watching' = watching \cup {Len(procs) + 1}
    BY <1>6, ProcsLengths DEF RestoredProcess
  <2>3. ~Unsent("wake")' /\ ~RetryInFlight' /\ ~retryPending'
    BY <1>0, <1>1, <1>3, <1>4, <1>5 DEF RetryInFlight
  <2> QED
    BY <1>0, <1>1, <1>3, <1>4, <1>5, <2>1, <2>2, <2>3, StartedKeeps
<1>7. CASE job' = [job EXCEPT !.state = "failed", !.resumeAt = FALSE] /\ NotRestored
  <2>1. job'.state = "failed" /\ job'.op = job.op
    BY <1>7 DEF TypeOK, Job
  <2>2. Len(procs') = Len(procs) /\ UNCHANGED watching
    BY <1>7, ProcsLengths DEF NotRestored
  <2>3. loop' # "select"
    BY <1>0, <1>1, <1>3, <2>1 DEF LoopEnds, IsTerminal, Terminal
  <2>4. Calm
    BY <1>0, <1>1, <1>2, <2>1, <2>2, <2>3, HandlerIsCalm DEF Reply
  <2> QED
    BY <2>4, CalmKeeps
<1> QED
  BY <1>6, <1>7 DEF handleWake

LEMMA KillKeepsProc ==
  ASSUME TypeOK, TypeOK', RetryInv, ProcInv, handleKill
  PROVE  ProcInv'
<1> USE DEF disk, world, saved, retry, ctxs
<1>0. Handling("kill") /\ loop = "select" /\ cmdChan # <<>>
  BY DEF handleKill, Handling
<1>1. CASE NoEffect /\ Reply(KillRefusal(job))
  BY <1>0, <1>1, NoEffectIsCalm, CalmKeeps DEF NoEffect, Reply
<1>2. CASE /\ job' = [job EXCEPT !.op = "terminating"]
           /\ UNCHANGED <<world, retry>>
           /\ Reply("runtime")
  <2>1. job'.state = job.state /\ job'.op = "terminating"
    BY <1>2 DEF TypeOK, Job
  <2>2. Calm
    BY <1>0, <1>2, <2>1, HandlerIsCalm DEF Reply
  <2> QED
    BY <2>2, CalmKeeps
<1>3. CASE /\ KillRefusal(job) = "nil"
           /\ job' = [job EXCEPT !.op = "terminating", !.state = "failed"]
           /\ procs' = ProcsKilled
           /\ UNCHANGED <<watching, retry>>
           /\ Reply("nil")
  <2>1. job'.state = "failed" /\ job'.op = "terminating"
    BY <1>3 DEF TypeOK, Job
  <2>2. Len(procs') = Len(procs)
    BY <1>3, ProcsLengths DEF ProcsKilled
  <2>3. ~retryPending
    BY <1>0, <1>3, NotFailed DEF KillRefusal, IsTerminal, Terminal
  <2>4. loop' # "select"
    BY <1>0, <1>3, <2>1, <2>3, Settled DEF Reply, LoopEnds, IsTerminal, Terminal
  <2>5. Calm
    BY <1>0, <1>3, <2>1, <2>2, <2>4, HandlerIsCalm DEF Reply
  <2> QED
    BY <2>5, CalmKeeps
<1> QED
  BY <1>1, <1>2, <1>3 DEF handleKill

\* A job that reports its own end ends the loop, its process may run on.
LEMMA ExitKeepsProc ==
  ASSUME TypeOK, TypeOK', RetryInv, ProcInv, handleExit
  PROVE  ProcInv'
<1> USE DEF disk, world, saved, retry, ctxs
<1>0. Handling("exit") /\ loop = "select" /\ cmdChan # <<>>
  BY DEF handleExit, Handling
<1>1. CASE NoEffect /\ Reply(ExitRefusal(job))
  BY <1>0, <1>1, NoEffectIsCalm, CalmKeeps DEF NoEffect, Reply
<1>2. CASE /\ ExitRefusal(job) = "nil"
           /\ job' = JobExiting(job, Head(cmdChan).exit = "zero")
           /\ UNCHANGED <<world, retry>>
           /\ Reply("nil")
  <2>1. job'.state \in {"completed", "failed"} /\ job'.op = "exiting"
    BY <1>2 DEF TypeOK, Job, JobExiting
  <2>2. ~retryPending
    BY <1>0, <1>2, NotFailed DEF ExitRefusal, IsTerminal, Terminal
  <2>3. loop' # "select"
    BY <1>0, <1>2, <2>1, <2>2, Settled DEF Reply, LoopEnds, IsTerminal, Terminal
  <2>4. Calm
    BY <1>0, <1>2, <2>1, <2>3, HandlerIsCalm DEF Reply
  <2> QED
    BY <2>4, CalmKeeps
<1> QED
  BY <1>1, <1>2 DEF handleExit

LEMMA QuietHandlersKeepProc ==
  ASSUME TypeOK, TypeOK', RetryInv, ProcInv,
         handleGetState \/ handleTakeLock \/ handleReleaseLock \/ handleWaitForResult \/ handleStop
  PROVE  ProcInv'
<1> USE DEF disk, world, saved, retry, ctxs
<1>1. PICK t, to, err, ws : Handling(t) /\ t # "retry" /\ Settle(to, err, ws)
  BY DEF handleGetState, handleTakeLock, handleReleaseLock, handleWaitForResult, handleStop, Reply
<1>2. UNCHANGED <<job, world, retry>>
  BY DEF handleGetState, handleTakeLock, handleReleaseLock, handleWaitForResult, handleStop, NoEffect
<1> QED
  BY <1>1, <1>2, NoEffectIsCalm, CalmKeeps

\* The retry that starts a process was the only one, and no exit was due while it was.
LEMMA RetryKeepsProc ==
  ASSUME TypeOK, TypeOK', RetryInv, ProcInv, handleRetry
  PROVE  ProcInv'
<1> USE DEF disk, world, saved, retry, ctxs
<1>0. Handling("retry") /\ loop = "select" /\ cmdChan # <<>> /\ Head(cmdChan).typ = "retry"
      /\ job.state = "failed" /\ retryPending' = FALSE /\ retryGo' = retryGo
  BY DEF handleRetry, Handling
<1>1. PICK err : Reply(err)
  BY DEF handleRetry
<1>2. cmdChan' = Tail(cmdChan) /\ (\A t : Unsent(t)' => Unsent(t))
  BY <1>0, <1>1, Settled DEF Reply
<1>3. Queued("retry") /\ ~Queued("retry")'
  BY <1>0, <1>1, SettleKeepsRetry DEF Reply
<1>4. ~RetryInFlight' /\ RetryInFlight
  BY <1>0, <1>2, <1>3 DEF RetryInv, RetryOnce, RetryInFlight
<1>5. JobRetried(job) \in Job /\ JobRetried(job).op = "restarting" /\ JobRetried(job).state = "failed"
  BY <1>0, JobTypes DEF TypeOK, Job, JobRetried
<1>6. CASE /\ job' = [JobRetried(job) EXCEPT !.state = "running", !.resumeAt = @ /\ ~checkpoint]
           /\ IF checkpoint THEN RestoredProcess ELSE NewProcess
  <2>1. job'.state = "running" /\ job'.op = "restarting"
    BY <1>5, <1>6 DEF Job
  <2>2. Len(procs') = Len(procs) + 1 /\ watching' = watching \cup {Len(procs) + 1}
    BY <1>6, ProcsLengths DEF RestoredProcess, NewProcess
  <2>3. watching = {} /\ ~Queued("processExited")
    BY <1>4 DEF ProcInv, RestInv
  <2>4. ~Queued("wake") /\ ~Unsent("wake")
    BY <1>0, NotSuspended
  <2>5. ~Queued("wake")' /\ ~Unsent("wake")'
    BY <1>0, <1>2, <2>4, Taken
  <2> QED
    BY <1>0, <1>2, <1>4, <2>1, <2>2, <2>3, <2>5, StartedKeeps
<1>7. CASE job' = JobRetried(job) /\ (UNCHANGED world \/ NotRestored)
  <2>1. Len(procs') = Len(procs) /\ UNCHANGED watching
    BY <1>7, ProcsLengths DEF NotRestored
  <2>2. Calm
    BY <1>0, <1>1, <1>5, <1>7, <2>1, HandlerIsCalm DEF Reply
  <2> QED
    BY <2>2, CalmKeeps
<1> QED
  BY <1>6, <1>7 DEF handleRetry

-----------------------------------------------------------------------------
(***************************************************************************)
(* The steps beside the handlers: none changes the job.                    *)
(***************************************************************************)
\* Nothing is sent, or something that is no exit, no wake and no retry.
QuietQueue ==
  /\ ExitsFrom /\ (Only("processExited") => Only("processExited")') /\ (Only("wake") => Only("wake")')
  /\ (Queued("wake")' => Queued("wake")) /\ (Queued("retry")' <=> Queued("retry"))

LEMMA QueueUnchanged ==
  ASSUME UNCHANGED cmdChan
  PROVE  QuietQueue
  BY DEF QuietQueue, ExitsFrom, Only, Queued

LEMMA QuietlySent ==
  ASSUME TypeOK, NEW m \in Command, Send(m), m.typ \notin {"processExited", "wake", "retry"}
  PROVE  QuietQueue
<1>1. ExitsFrom /\ (Only("processExited") => Only("processExited")')
  BY Sent
<1>2. (Only("wake") => Only("wake")') /\ (Queued("wake")' => Queued("wake"))
  BY Sent
<1>3. Queued("retry")' <=> Queued("retry")
  BY Sent
<1> QED
  BY <1>1, <1>2, <1>3 DEF QuietQueue

LEMMA QuietlyGivenUp ==
  ASSUME TypeOK, NEW c \in Callers, cmdChan' = Abandoned(c)
  PROVE  QuietQueue
  BY GivenUp DEF QuietQueue

LEMMA QuietQueueIsCalm ==
  ASSUME ProcInv, QuietQueue, UNCHANGED <<job, retry, watching>>, Len(procs') = Len(procs),
         loop' = "select" => loop = "select",
         \A t : Unsent(t)' => Unsent(t)
  PROVE  Calm
<1>1. RetryInFlight' => RetryInFlight
  BY DEF QuietQueue, RetryInFlight, retry
<1> QED
  BY <1>1 DEF Calm, QuietQueue, ProcInv, OpInv, retry

LEMMA EndKeepsProc ==
  ASSUME TypeOK, TypeOK', ProcInv, LoopCancelled \/ DrainCommand \/ CloseDone
  PROVE  ProcInv'
<1> USE DEF world, retry
<1>1. CASE LoopCancelled \/ CloseDone
  <2>1. QuietQueue
    BY <1>1, QueueUnchanged DEF LoopCancelled, CloseDone
  <2>2. UNCHANGED <<job, world, retry, calls>> /\ loop' # "select"
    BY <1>1 DEF LoopCancelled, CloseDone
  <2> QED
    BY <2>1, <2>2, QuietQueueIsCalm, CalmKeeps DEF Unsent
<1>2. CASE DrainCommand
  <2>1. UNCHANGED <<job, world, retry>> /\ loop' # "select" /\ cmdChan # <<>> /\ cmdChan' = Tail(cmdChan)
    BY <1>2 DEF DrainCommand
  <2>2. \A t : Unsent(t)' => Unsent(t)
    BY <1>2 DEF TypeOK, DrainCommand, Unsent, Callers, CallRecord
  <2>3. ExitsFrom /\ (Only("processExited") => Only("processExited")')
    BY <2>1, Taken
  <2>4. (Only("wake") => Only("wake")') /\ (Queued("wake")' => Queued("wake"))
        /\ (Queued("retry")' => Queued("retry"))
    BY <2>1, Taken
  <2>5. RetryInFlight' => RetryInFlight
    BY <2>1, <2>2, <2>4 DEF RetryInFlight
  <2>6. Calm
    BY <2>1, <2>2, <2>3, <2>4, <2>5 DEF Calm, ProcInv, OpInv
  <2> QED
    BY <2>6, CalmKeeps
<1> QED
  BY <1>1, <1>2

LEMMA ProcessEndsKeepsProc ==
  ASSUME TypeOK, TypeOK', ProcInv, NEW p \in DOMAIN procs, ProcessEnds(p)
  PROVE  ProcInv'
<1>1. QuietQueue /\ UNCHANGED <<job, watching, retry, loop, calls>>
  BY QueueUnchanged DEF ProcessEnds, chans
<1>2. Len(procs') = Len(procs)
  BY DEF ProcessEnds, TypeOK
<1> QED
  BY <1>1, <1>2, QuietQueueIsCalm, CalmKeeps DEF Unsent

\* The exit that is sent was awaited: no other is awaited or queued.
LEMMA WaitKeepsProc ==
  ASSUME TypeOK, TypeOK', ProcInv, NEW p \in DOMAIN procs, waitForProcessExit(p)
  PROVE  ProcInv'
<1> USE DEF retry
<1>0. /\ p \in watching /\ watching' = watching \ {p}
      /\ UNCHANGED <<job, procs, retry, loop, calls>>
  BY DEF waitForProcessExit
<1>1. PICK e \in WaitReturns(procs[p]) :
        Send([Cmd("processExited", Nobody) EXCEPT !.exit = e, !.proc = p])
  BY DEF waitForProcessExit
<1> DEFINE m == [Cmd("processExited", Nobody) EXCEPT !.exit = e, !.proc = p]
<1>2. m \in Command /\ m.typ = "processExited" /\ m.proc = p
  <2>1. e \in Exits /\ p \in Nat
    BY <1>1 DEF TypeOK, WaitReturns, Exits
  <2> QED
    BY <2>1, CmdTypes DEF Cmd
<1>3. Send(m)
  BY <1>1
<1> HIDE DEF m
<1>4. p = Len(procs) /\ watching' = {} /\ ~Queued("processExited") /\ ~RetryInFlight
  BY <1>0 DEF ProcInv, ExitInv, ExitIsCurrent, RestInv, Queued
<1>5. Only("processExited")' /\ Queued("processExited")'
  BY <1>2, <1>3, <1>4, Sent
<1>6. (Only("wake") => Only("wake")') /\ (Queued("wake")' => Queued("wake"))
      /\ (Queued("retry")' <=> Queued("retry"))
  BY <1>2, <1>3, Sent
<1>7. \A i \in DOMAIN cmdChan' : cmdChan'[i].typ = "processExited" => cmdChan'[i].proc = p
  <2>1. cmdChan \in Seq(Command) /\ cmdChan' = Append(cmdChan, m)
    BY <1>3 DEF TypeOK, Send
  <2>2. \A i \in DOMAIN cmdChan' : cmdChan'[i] = m \/ (i \in DOMAIN cmdChan /\ cmdChan'[i] = cmdChan[i])
    BY <2>1
  <2> QED
    BY <1>2, <1>4, <2>2 DEF Queued
<1>8. procs' # <<>>
  BY <1>0 DEF TypeOK
<1>9. ExitInv'
  BY <1>0, <1>4, <1>5, <1>7, <1>8 DEF ExitInv, ExitIsCurrent, Only
<1>10. WakeInv'
  BY <1>0, <1>6 DEF ProcInv, WakeInv, Unsent
<1>11. ~RetryInFlight'
  BY <1>0, <1>4, <1>6 DEF RetryInFlight, Unsent
<1>12. RestInv' /\ OpInv' /\ RetryPendingIsInFlight'
  BY <1>0, <1>6, <1>11 DEF ProcInv, RestInv, OpInv, RetryPendingIsInFlight
<1> QED
  BY <1>9, <1>10, <1>12 DEF ProcInv

\* The immediate retry moves from its goroutine to the queue.
LEMMA SendRetryKeepsProc ==
  ASSUME TypeOK, TypeOK', ProcInv, SendRetry
  PROVE  ProcInv'
<1> USE DEF world
<1>0. retryGo /\ retryGo' = FALSE /\ UNCHANGED <<job, world, retryPending, loop, calls>>
  BY DEF SendRetry
<1>1. CASE Send(Cmd("retry", Nobody))
  <2>1. Cmd("retry", Nobody) \in Command /\ Cmd("retry", Nobody).typ = "retry"
    BY CmdTypes DEF CommandTypes, Cmd
  <2>2. ExitsFrom /\ (Only("processExited") => Only("processExited")')
    BY <1>1, <2>1, Sent
  <2>3. (Only("wake") => Only("wake")') /\ (Queued("wake")' => Queued("wake")) /\ Queued("retry")'
    BY <1>1, <2>1, Sent
  <2>4. Calm
    BY <1>0, <2>2, <2>3 DEF Calm, ProcInv, OpInv, RetryInFlight, Unsent
  <2> QED
    BY <2>4, CalmKeeps
<1>2. CASE loop = "done" /\ UNCHANGED cmdChan
  <2>1. QuietQueue
    BY <1>2, QueueUnchanged
  <2>2. Calm
    BY <1>0, <1>2, <2>1 DEF Calm, QuietQueue, ProcInv, OpInv, RetryInFlight, Unsent
  <2> QED
    BY <2>2, CalmKeeps
<1> QED
  BY <1>1, <1>2 DEF SendRetry

LEMMA ClientKeepsProc ==
  ASSUME TypeOK, TypeOK', ProcInv, NEW c \in Clients, Client(c)
  PROVE  ProcInv'
<1> USE DEF world
<1>0. c \in Callers /\ c # Creator /\ Creator \in Callers
  BY ConstantsAssumption DEF Callers
<1>1. UNCHANGED <<job, world, retry, loop>>
  BY DEF Client, Call, CallDone, Return, ReturnDone, Timeout
<1>2. calls'[Creator] = calls[Creator]
  BY <1>0 DEF Client, Call, CallDone, Return, ReturnDone, Timeout, TypeOK
<1>3. QuietQueue
  <2>1. CASE Call(c)
    <3>1. PICK m \in ClientCommands(c) : Send(m)
      BY <2>1 DEF Call
    <3>2. m \in Command /\ m.typ \in ClientCalls
      BY <1>0, CmdTypes
    <3>3. m.typ \notin {"processExited", "wake", "retry"}
      BY <3>2 DEF ClientCalls
    <3> QED
      BY <3>1, <3>2, <3>3, QuietlySent
  <2>2. CASE UNCHANGED cmdChan
    BY <2>2, QueueUnchanged
  <2>3. CASE Timeout(c)
    BY <1>0, <2>3, QuietlyGivenUp DEF Timeout
  <2> QED
    BY <2>1, <2>2, <2>3 DEF Client, CallDone, Return, ReturnDone
<1> QED
  BY <1>1, <1>2, <1>3, QuietQueueIsCalm, CalmKeeps DEF Unsent

LEMMA CreatorReturned ==
  ASSUME TypeOK, CreatorStartDone \/ CreatorReturns \/ CreatorGivesUp
  PROVE  calls'[Creator].st = "returned"
<1>0. Creator \in Callers /\ calls[Creator] \in CallRecord
  BY DEF TypeOK, Callers
<1>1. CASE CreatorStartDone
  BY <1>0, <1>1 DEF CreatorStartDone, DoneReply, TypeOK, CallRecord
<1>2. CASE CreatorReturns
  <2>1. calls' = [calls EXCEPT ![Creator] = [calls[Creator] EXCEPT !.st = "returned"]]
    BY <1>2, Zenon DEF CreatorReturns
  <2> QED
    BY <1>0, <2>1 DEF TypeOK, CallRecord
<1>3. CASE CreatorGivesUp
  <2>1. calls' = [calls EXCEPT ![Creator] =
                    [calls[Creator] EXCEPT !.st = "returned", !.err = "ctx"]]
    BY <1>3, Zenon DEF CreatorGivesUp
  <2> QED
    BY <1>0, <2>1 DEF TypeOK, CallRecord
<1> QED
  BY <1>1, <1>2, <1>3

\* The creator's wake moves from its hands to the queue, and so does its retry.
LEMMA CreatorKeepsProc ==
  ASSUME TypeOK, TypeOK', ProcInv, CreatorSteps
  PROVE  ProcInv'
<1> USE DEF world, retry
<1>0. Creator \in Callers /\ calls[Creator] \in CallRecord /\ UNCHANGED <<job, world, retry, loop>>
  BY DEF TypeOK, Callers, CreatorSteps, CreatorSends, CreatorStartDone, CreatorReturns, CreatorGivesUp
<1>1. CASE CreatorSends
  <2> DEFINE m == Cmd(calls[Creator].typ, Creator)
  <2>1. \A t : ~Unsent(t)'
    <3>1. calls' = [calls EXCEPT ![Creator] = [calls[Creator] EXCEPT !.st = "waiting"]]
      BY <1>1, Zenon DEF CreatorSends
    <3>2. calls'[Creator].st = "waiting"
      BY <1>0, <3>1 DEF TypeOK, CallRecord
    <3> QED
      BY <3>2 DEF Unsent
  <2>2. m \in Command /\ m.typ = calls[Creator].typ /\ m.typ \in {"start", "wake", "retry"} /\ Send(m)
        /\ Unsent(m.typ)
    BY <1>0, <1>1, CmdTypes DEF TypeOK, RawSend, CommandTypes, Cmd, CreatorSends, Unsent
  <2> HIDE DEF m
  <2>3. ExitsFrom /\ (Only("processExited") => Only("processExited")')
    BY <2>2, Sent
  <2>4. CASE m.typ # "wake"
    <3>1. (Only("wake") => Only("wake")') /\ (Queued("wake")' => Queued("wake"))
      BY <2>2, <2>4, Sent
    <3>2. (m.typ # "retry" => (Queued("retry")' => Queued("retry"))) /\ (Queued("retry") => Queued("retry")')
      BY <2>2, Sent
    <3>3. RetryInFlight' => RetryInFlight
      BY <1>0, <2>1, <2>2, <3>2 DEF RetryInFlight
    <3>4. Calm
      BY <1>0, <2>1, <2>3, <3>1, <3>2, <3>3 DEF Calm, ProcInv, OpInv
    <3> QED
      BY <3>4, CalmKeeps
  <2>5. CASE m.typ = "wake"
    <3>1. Queued("wake")' /\ Only("wake")' /\ (loop = "select" => job.state = "suspended" /\ procs = <<>>)
      BY <2>2, <2>5, Sent DEF ProcInv, WakeInv
    <3>2. Queued("retry")' <=> Queued("retry")
      BY <2>2, <2>5, Sent
    <3>3. RetryInFlight' => RetryInFlight
      BY <1>0, <2>1, <3>2 DEF RetryInFlight
    <3>4. WakeInv'
      BY <1>0, <2>1, <3>1 DEF WakeInv
    <3>5. Queued("processExited")' => Queued("processExited")
      BY <2>3 DEF ExitsFrom, Queued
    <3>6. Only("processExited")'
      BY <2>3 DEF ProcInv, ExitInv, ExitIsCurrent, Only
    <3>7. ExitInv'
      BY <1>0, <2>3, <3>5, <3>6 DEF ProcInv, ExitInv, ExitIsCurrent, ExitsFrom, Only
    <3>8. RestInv' /\ OpInv' /\ RetryPendingIsInFlight'
      BY <1>0, <3>2, <3>3, <3>5 DEF ProcInv, RestInv, OpInv, RetryPendingIsInFlight
    <3> QED
      BY <3>4, <3>7, <3>8 DEF ProcInv
  <2> QED
    BY <2>4, <2>5
<1>2. CASE CreatorStartDone \/ CreatorReturns \/ CreatorGivesUp
  <2>1. calls'[Creator].st = "returned"
    BY <1>2, CreatorReturned
  <2>2. QuietQueue
    <3>1. CASE UNCHANGED cmdChan
      BY <3>1, QueueUnchanged
    <3>2. CASE CreatorGivesUp
      BY <1>0, <3>2, QuietlyGivenUp DEF CreatorGivesUp
    <3> QED
      BY <1>2, <3>1, <3>2 DEF CreatorStartDone, CreatorReturns
  <2> QED
    BY <1>0, <2>1, <2>2, QuietQueueIsCalm, CalmKeeps DEF Unsent
<1> QED
  BY <1>1, <1>2 DEF CreatorSteps

LEMMA HypervisorKeepsProc ==
  ASSUME TypeOK, TypeOK', ProcInv, Shutdown \/ Stop \/ DevCrash
  PROVE  ProcInv'
<1> USE DEF world, retry, chans
<1>0. UNCHANGED <<job, world, retry, loop, calls>>
  BY DEF Shutdown, Stop, DevCrash
<1>1. QuietQueue
  <2>1. CASE UNCHANGED cmdChan
    BY <2>1, QueueUnchanged
  <2>2. CASE Send(Cmd("stop", Nobody))
    <3>1. Cmd("stop", Nobody) \in Command /\ Cmd("stop", Nobody).typ = "stop"
      BY CmdTypes DEF CommandTypes, Cmd
    <3> QED
      BY <2>2, <3>1, QuietlySent
  <2> QED
    BY <2>1, <2>2 DEF Shutdown, Stop, DevCrash
<1> QED
  BY <1>0, <1>1, QuietQueueIsCalm, CalmKeeps DEF Unsent

-----------------------------------------------------------------------------
LEMMA ProcInvInit ==
  ASSUME Init
  PROVE  ProcInv
<1>1. PICK birth \in Births :
        /\ job = [dbJobToJob(row) EXCEPT !.state = BornState(birth, row.state)]
        /\ calls = [c \in Callers |->
             IF c = Creator THEN [IdleCall EXCEPT !.typ = CreatorCall(birth)] ELSE IdleCall]
  BY DEF Init
<1>2. cmdChan = <<>> /\ procs = <<>> /\ watching = {} /\ retryPending = FALSE
  BY DEF Init
<1>3. birth \in {"spawn", "interrupted", "wake", "retry"}
  BY ConstantsAssumption
<1>4. job.op # "checkpointing" /\ job.op # "exiting"
  <2>1. job.op = ""
    BY <1>1 DEF dbJobToJob
  <2> QED
    BY <2>1, Zenon
<1>5. Unsent("wake") => job.state = "suspended"
  BY <1>1, <1>3 DEF Unsent, IdleCall, CreatorCall, RawSend, Callers, BornState, dbJobToJob
<1>6. \A t : ~Queued(t) /\ Only(t)
  BY <1>2 DEF Queued, Only
<1> QED
  BY <1>2, <1>4, <1>5, <1>6 DEF ProcInv, ExitInv, ExitIsCurrent, WakeInv, RestInv, OpInv,
     RetryPendingIsInFlight, Queued

LEMMA ProcInvStep ==
  ASSUME TypeOK, RetryInv, ProcInv, [Next]_vars
  PROVE  ProcInv'
<1>0. TypeOK'
  BY StepTypes
<1>1. CASE Loop
  BY <1>0, <1>1, StartKeepsProc, ProcessExitedKeepsProc, CheckpointKeepsProc, WakeKeepsProc,
     KillKeepsProc, ExitKeepsProc, QuietHandlersKeepProc, RetryKeepsProc, EndKeepsProc
  DEF Loop
<1>2. CASE (\E p \in DOMAIN procs : ProcessEnds(p) \/ waitForProcessExit(p)) \/ SendRetry
  BY <1>0, <1>2, ProcessEndsKeepsProc, WaitKeepsProc, SendRetryKeepsProc
<1>3. CASE \E c \in Clients : Client(c)
  BY <1>0, <1>3, ClientKeepsProc
<1>4. CASE CreatorSteps
  BY <1>0, <1>4, CreatorKeepsProc
<1>5. CASE Shutdown \/ Stop \/ DevCrash
  BY <1>0, <1>5, HypervisorKeepsProc
<1>6. CASE UNCHANGED vars
  <2>1. UNCHANGED <<job, procs, watching, retry, cmdChan, loop, calls>>
    BY <1>6 DEF vars, world, chans
  <2>2. QuietQueue
    BY <2>1, QueueUnchanged
  <2> QED
    BY <1>0, <2>1, <2>2, QuietQueueIsCalm, CalmKeeps DEF Unsent
<1> QED
  BY <1>1, <1>2, <1>3, <1>4, <1>5, <1>6 DEF Next

\* The strengthened invariant holds throughout.
LEMMA ProcInvHolds == Spec => [](TypeOK /\ RetryInv /\ ProcInv)
<1>1. Init => TypeOK /\ RetryInv /\ ProcInv
  BY InitTypes, RetryInvInit, ProcInvInit
<1>2. TypeOK /\ RetryInv /\ ProcInv /\ [Next]_vars => (TypeOK /\ RetryInv /\ ProcInv)'
  BY StepTypes, RetryInvStep, ProcInvStep
<1> QED
  BY <1>1, <1>2, PTL DEF Spec

\* The exit of a process never reaches the job when another process was started since:
\* waitForProcessExit of the one has been answered before handleRetry starts the next.
THEOREM ExitsAreCurrent == Spec => []ExitIsCurrent
<1>1. ProcInv => ExitIsCurrent
  BY DEF ProcInv, ExitInv
<1> QED
  BY <1>1, ProcInvHolds, PTL

\* The branches of handleCheckpoint, handleWake and handleRetry the model leaves out are
\* dead code as long as the runner is used the way the hypervisor uses it.
THEOREM NoUnreachableBranch == Spec => []UnreachableBranches
<1>1. TypeOK /\ RetryInv /\ ProcInv => UnreachableBranches
  <2> SUFFICES ASSUME TypeOK, RetryInv, ProcInv
               PROVE  UnreachableBranches
    OBVIOUS
  <2>1. Handling("checkpoint") => job.op # "checkpointing"
    BY DEF ProcInv, OpInv
  <2>2. ASSUME NEW t, Handling(t)
        PROVE  Queued(t) /\ loop = "select"
    <3>1. cmdChan # <<>> /\ cmdChan \in Seq(Command) /\ Head(cmdChan).typ = t /\ loop = "select"
      BY <2>2 DEF Handling, TypeOK
    <3>2. 1 \in DOMAIN cmdChan /\ cmdChan[1].typ = t
      BY <3>1
    <3> QED
      BY <3>1, <3>2 DEF Queued
  <2>3. Handling("wake") => job.state = "suspended"
    BY <2>2 DEF ProcInv, WakeInv
  <2>4. Handling("retry") => job.state = "failed"
    BY <2>2 DEF RetryInv, RetryOnce, RetryInFlight
  <2> QED
    BY <2>1, <2>3, <2>4 DEF UnreachableBranches
<1> QED
  BY <1>1, ProcInvHolds, PTL

\* commandLoop outlives a failure only for a retry that will come: retryPending is never
\* left set by a kill, an exit, a failed restore or a retry that was handled.
THEOREM PendingRetryComes == Spec => []RetryPendingIsInFlight
<1>1. ProcInv => RetryPendingIsInFlight
  BY DEF ProcInv
<1> QED
  BY <1>1, ProcInvHolds, PTL

-----------------------------------------------------------------------------
(***************************************************************************)
(* The running process and the state of the job.                           *)
(***************************************************************************)
NothingRuns == \A p \in DOMAIN procs : procs[p] # "running"

\* The job may have a process: it runs, or it reported its own end.
MayRun == job.state = "running" \/ job.op = "exiting"

\* A handler finds no process running when the job is not.
LEMMA AtRest ==
  ASSUME ProcInv, ProcessMatchesState, loop = "select", job.state # "running"
  PROVE  NothingRuns
  BY DEF ProcInv, OpInv, ProcessMatchesState, NothingRuns

LEMMA LastReplaced ==
  ASSUME TypeOK, ProcessMatchesState, NEW s \in {"exited", "removed"},
         procs' = [procs EXCEPT ![Len(procs)] = s]
  PROVE  NothingRuns'
<1>1. \A p \in DOMAIN procs' : p \in DOMAIN procs /\ procs'[p] = IF p = Len(procs) THEN s ELSE procs[p]
  BY DEF TypeOK
<1> QED
  BY <1>1 DEF ProcessMatchesState, NothingRuns

LEMMA MatchKept ==
  ASSUME ProcessMatchesState, UNCHANGED procs, MayRun => MayRun'
  PROVE  ProcessMatchesState'
  BY DEF ProcessMatchesState, MayRun

LEMMA StartedMatches ==
  ASSUME TypeOK, NothingRuns, NEW left \in Leftovers, procs' = Append(left, "running"),
         job'.state = "running"
  PROVE  ProcessMatchesState'
<1> DEFINE S == {"running", "exited", "removed"}
<1>1. procs \in Seq(S) /\ DOMAIN procs = 1..Len(procs) /\ Len(procs) \in Nat
  BY DEF TypeOK
<1>2. left \in Seq(S) /\ Len(left) = Len(procs) /\ \A p \in 1..Len(left) : left[p] # "running"
  BY <1>1 DEF Leftovers, NothingRuns
<1>3. Len(procs') = Len(left) + 1 /\ \A p \in DOMAIN procs' : p \in 1..(Len(left) + 1)
  BY <1>2
<1>4. \A p \in 1..Len(left) : procs'[p] = left[p]
  BY <1>2
<1>5. \A p \in DOMAIN procs' : procs'[p] = "running" => p = Len(procs')
  BY <1>2, <1>3, <1>4
<1> QED
  BY <1>5 DEF ProcessMatchesState

LEMMA NotRestoredRest ==
  ASSUME NothingRuns, NotRestored
  PROVE  NothingRuns'
  BY DEF NothingRuns, NotRestored, Leftovers

LEMMA HandlersMatch ==
  ASSUME "cleanup" \notin Faults, TypeOK, TypeOK', RetryInv, ProcInv, ProcessMatchesState,
         handleStart \/ handleProcessExited \/ handleCheckpoint \/ handleWake \/ handleKill
         \/ handleExit \/ handleRetry
  PROVE  ProcessMatchesState'
<1> USE DEF disk, world, saved, retry, ctxs
<1>0. loop = "select" /\ cmdChan # <<>>
  BY DEF handleStart, handleProcessExited, handleCheckpoint, handleWake, handleKill, handleExit,
     handleRetry, Handling
<1>1. job.op # "exiting" /\ (job.state # "running" => NothingRuns) /\ procs \in Leftovers
  BY <1>0, AtRest DEF ProcInv, OpInv, Leftovers
<1>2. CASE UNCHANGED <<job, procs>>
  BY <1>2, MatchKept DEF MayRun
<1>3. ASSUME NothingRuns'
      PROVE  ProcessMatchesState'
  BY <1>3 DEF ProcessMatchesState, NothingRuns
<1>4. ASSUME job.state # "running", UNCHANGED procs
      PROVE  ProcessMatchesState'
  BY <1>1, <1>3, <1>4 DEF NothingRuns
<1>5. CASE handleStart
  <2>1. CASE job.state = "pending" /\ job' = [job EXCEPT !.state = "running"] /\ NewProcess
    <3>1. job'.state = "running"
      BY <2>1 DEF TypeOK, Job
    <3> QED
      BY <1>1, <2>1, <3>1, StartedMatches DEF NewProcess
  <2>2. CASE job.state = "pending" /\ UNCHANGED procs
    BY <1>4, <2>2
  <2> QED
    BY <1>2, <1>5, <2>1, <2>2 DEF handleStart, NoEffect
<1>6. CASE handleProcessExited
  <2>1. CASE Cleanup
    BY <1>3, <2>1, LastReplaced DEF Cleanup
  <2> QED
    BY <1>2, <1>6, <2>1 DEF handleProcessExited, NoEffect
<1>7. CASE handleCheckpoint
  <2> DEFINE cmd == Head(cmdChan)
  <2>0. cmd.suspend \in BOOLEAN
    <3>1. cmd \in Command
      BY <1>0, QueueTypes DEF TypeOK
    <3> QED
      BY <3>1 DEF Command
  <2>1. CASE /\ CheckpointRefusal(cmd) = "nil" /\ job' = JobNotCheckpointed(job)
             /\ procs' \in ProcsNotCheckpointed(cmd.suspend)
    <3>1. job.state = "running" /\ job'.state = job.state
      BY <2>1 DEF CheckpointRefusal, TypeOK, Job, JobNotCheckpointed
    <3>2. CASE UNCHANGED procs
      BY <3>1, <3>2, MatchKept DEF MayRun
    <3>3. CASE procs' = [procs EXCEPT ![Len(procs)] = "exited"]
      BY <1>3, <3>3, LastReplaced
    <3> QED
      BY <2>1, <3>2, <3>3 DEF ProcsNotCheckpointed
  <2>2. CASE /\ CheckpointRefusal(cmd) = "nil" /\ job' = JobCheckpointed(job, cmd.suspend)
             /\ procs' \in ProcsCheckpointed(cmd.suspend)
    <3>1. CASE cmd.suspend
      BY <1>3, <2>2, <3>1, LastReplaced DEF ProcsCheckpointed
    <3>2. CASE ~cmd.suspend
      <4>1. job.state = "running" /\ job'.state = job.state
        BY <2>2, <3>2 DEF CheckpointRefusal, TypeOK, Job, JobCheckpointed
      <4> QED
        BY <2>2, <3>2, <4>1, MatchKept DEF ProcsCheckpointed, MayRun
    <3> QED
      BY <3>1, <3>2
  <2> QED
    BY <1>2, <1>7, <2>1, <2>2 DEF handleCheckpoint, NoEffect
<1>8. CASE handleWake
  <2>0. job.state = "suspended" /\ NothingRuns
    BY <1>1, <1>8 DEF handleWake
  <2>1. CASE job' = [job EXCEPT !.state = "running", !.resumeAt = FALSE] /\ RestoredProcess
    <3>1. job'.state = "running"
      BY <2>1 DEF TypeOK, Job
    <3> QED
      BY <2>0, <2>1, <3>1, StartedMatches DEF RestoredProcess
  <2>2. CASE NotRestored
    BY <1>3, <2>0, <2>2, NotRestoredRest
  <2> QED
    BY <1>8, <2>1, <2>2 DEF handleWake
<1>9. CASE handleKill
  <2>1. CASE job' = [job EXCEPT !.op = "terminating"] /\ UNCHANGED procs
    <3>1. job'.state = job.state
      BY <2>1 DEF TypeOK, Job
    <3> QED
      BY <1>1, <2>1, <3>1, MatchKept DEF MayRun
  <2>2. CASE procs' = ProcsKilled
    <3>1. CASE procs = <<>>
      BY <1>3, <2>2, <3>1 DEF ProcsKilled, NothingRuns
    <3>2. CASE procs # <<>>
      BY <1>3, <2>2, <3>2, LastReplaced DEF ProcsKilled
    <3> QED
      BY <3>1, <3>2
  <2> QED
    BY <1>2, <1>9, <2>1, <2>2 DEF handleKill, NoEffect
<1>10. CASE handleExit
  <2>1. CASE job' = JobExiting(job, Head(cmdChan).exit = "zero") /\ UNCHANGED procs
    <3>1. job'.op = "exiting"
      BY <2>1 DEF TypeOK, Job, JobExiting
    <3> QED
      BY <2>1, <3>1, MatchKept DEF MayRun
  <2> QED
    BY <1>2, <1>10, <2>1 DEF handleExit, NoEffect
<1>11. CASE handleRetry
  <2>0. job.state = "failed" /\ NothingRuns
    BY <1>1, <1>11 DEF handleRetry
  <2>1. CASE /\ job' = [JobRetried(job) EXCEPT !.state = "running", !.resumeAt = @ /\ ~checkpoint]
             /\ IF checkpoint THEN RestoredProcess ELSE NewProcess
    <3>1. job'.state = "running"
      <4>1. JobRetried(job) \in Job
        BY JobTypes DEF TypeOK
      <4> QED
        BY <2>1, <4>1 DEF Job
    <3> QED
      BY <1>1, <2>0, <2>1, <3>1, StartedMatches DEF RestoredProcess, NewProcess
  <2>2. CASE UNCHANGED procs
    BY <1>4, <2>0, <2>2
  <2>3. CASE NotRestored
    BY <1>3, <2>0, <2>3, NotRestoredRest
  <2> QED
    BY <1>11, <2>1, <2>2, <2>3 DEF handleRetry
<1> QED
  BY <1>5, <1>6, <1>7, <1>8, <1>9, <1>10, <1>11

LEMMA MatchStep ==
  ASSUME "cleanup" \notin Faults, TypeOK, RetryInv, ProcInv, ProcessMatchesState, [Next]_vars
  PROVE  ProcessMatchesState'
<1> USE DEF world
<1>0. TypeOK'
  BY StepTypes
<1>1. CASE handleStart \/ handleProcessExited \/ handleCheckpoint \/ handleWake \/ handleKill
           \/ handleExit \/ handleRetry
  BY <1>0, <1>1, HandlersMatch
<1>2. CASE UNCHANGED <<job, procs>>
  BY <1>2, MatchKept DEF MayRun
<1>3. CASE handleGetState \/ handleTakeLock \/ handleReleaseLock \/ handleWaitForResult \/ handleStop
           \/ LoopCancelled \/ DrainCommand \/ CloseDone
  BY <1>2, <1>3 DEF handleGetState, handleTakeLock, handleReleaseLock, handleWaitForResult,
     handleStop, LoopCancelled, DrainCommand, CloseDone, NoEffect
<1>4. ASSUME NEW p \in DOMAIN procs, ProcessEnds(p)
      PROVE  ProcessMatchesState'
  <2>1. UNCHANGED job /\ procs' = [procs EXCEPT ![p] = "exited"]
    BY <1>4 DEF ProcessEnds
  <2>2. Len(procs') = Len(procs) /\ DOMAIN procs' = DOMAIN procs
        /\ \A q \in DOMAIN procs : procs'[q] = "running" => procs[q] = "running"
    BY <2>1 DEF TypeOK
  <2> QED
    BY <2>1, <2>2 DEF ProcessMatchesState
<1>5. CASE \/ \E p \in DOMAIN procs : waitForProcessExit(p)
           \/ SendRetry \/ (\E c \in Clients : Client(c)) \/ CreatorSteps
           \/ Shutdown \/ Stop \/ DevCrash
  BY <1>2, <1>5 DEF waitForProcessExit, SendRetry, Client, Call, CallDone, Return, ReturnDone, Timeout,
     CreatorSteps, CreatorSends, CreatorStartDone, CreatorReturns, CreatorGivesUp, Shutdown, Stop, DevCrash
<1>6. CASE UNCHANGED vars
  BY <1>2, <1>6 DEF vars
<1> QED
  BY <1>1, <1>3, <1>4, <1>5, <1>6 DEF Next, Loop

\* A job that is not running has no process running, save one that reported its own end,
\* and a running job has one at most: nothing is lost sight of when a job is killed,
\* suspended, woken or retried.  It rests on Cleanup removing the process: when Wait fails
\* on a process that still runs and Cleanup fails too, the process outlives its job.
THEOREM ProcessesMatchStates ==
  ASSUME "cleanup" \notin Faults
  PROVE  Spec => []ProcessMatchesState
<1>1. Init => ProcessMatchesState
  BY DEF Init, ProcessMatchesState
<1>2. TypeOK /\ RetryInv /\ ProcInv /\ ProcessMatchesState /\ [Next]_vars => ProcessMatchesState'
  BY MatchStep
<1> QED
  BY <1>1, <1>2, ProcInvHolds, PTL DEF Spec
=============================================================================
