------------------------------ MODULE JobRunner ------------------------------
(***************************************************************************)
(* One JobRunner (hypervisor/job_runner.go): the goroutine that owns a job *)
(* and handles, one at a time, the commands queued in its channel, the     *)
(* goroutines around it (callers, the goroutine that waits for the         *)
(* process, the one that sends an immediate retry), the job's row and the  *)
(* processes the runtime started for it.                                   *)
(*                                                                         *)
(* A handler runs to its end before the next command is taken, and nobody  *)
(* else reads the runner's fields before doneChan is closed, so a whole    *)
(* handler is one step.  A caller blocked on a full channel has had no     *)
(* effect: it is a caller that has not called yet.                         *)
(***************************************************************************)
EXTENDS Jobs, Sequences, FiniteSets

CONSTANTS
  Clients,       \* goroutines calling the runner: HTTP requests, GetResult, ...
  Creator,       \* the goroutine that made the runner: Spawn, recovery, resume poller
  Nobody,        \* no reply is expected (resultChan nil, or its reader is gone)
  Tokens,        \* checkpoint idempotency tokens
  NoToken,       \* the empty token
  MaxRetries,    \* RetryPolicy.MaxRetries of the job definition
  PastRetries,   \* retries that a job found in the database may have behind it
  RetryDelays,   \* whether RetryPolicy.RetryDelay may be zero (FALSE), positive (TRUE)
  ChanCap,       \* capacity of cmdChan (16 in the code)
  MaxLocks,      \* bound: checkpoint locks taken in a behaviour
  Births,        \* how the runner may come to life, see InitialRows
  Calls,         \* the commands Clients may send
  Faults         \* what may fail

Callers == Clients \cup {Creator}

ClientCalls ==
  {"checkpoint", "kill", "exit", "getState", "takeLock", "releaseLock", "waitForResult"}

CommandTypes == ClientCalls \cup {"start", "processExited", "retry", "wake", "stop"}

FaultKinds ==
  {"db", "start", "restore", "checkpoint", "kill", "wait", "cleanup", "shutdown", "timeout"}

ASSUME ConstantsAssumption ==
  /\ Creator \notin Clients
  /\ Nobody \notin Callers
  /\ NoToken \notin Tokens
  /\ IsFiniteSet(Tokens)
  /\ MaxRetries \in Nat
  /\ PastRetries \subseteq Nat
  /\ RetryDelays \subseteq BOOLEAN
  /\ ChanCap \in Nat \ {0}
  /\ MaxLocks \in Nat
  /\ Births \subseteq {"spawn", "interrupted", "wake", "retry"}
  /\ Calls \subseteq ClientCalls
  /\ Faults \subseteq FaultKinds

VARIABLES
  job,           \* r.job
  row,           \* the job's row in the database
  lag,           \* auxiliary: why the row may differ from the job, see Persist
  procs,         \* processes started by this runner; r.process is the last one
  watching,      \* processes whose waitForProcessExit goroutine is in Wait
  checkpoint,    \* whether r.checkpoint is set
  tokens,        \* r.checkpointTokens
  locks,         \* r.activeLocks
  lockCounter,   \* r.lockCounter
  retryPending,  \* r.retryPending
  retryGo,       \* the goroutine that sends an immediate retry has not sent it yet
  waiters,       \* callers with an entry in r.resultWaiters
  cmdChan,       \* r.cmdChan
  loop,          \* where commandLoop is
  cancelled,     \* r.ctx is cancelled
  delayed,       \* the job definition's policy: retries wait for a delay
  budget,        \* auxiliary: the retries this runner may bring the job to
  hv,            \* the hypervisor: up, shutting down, done stopping the runner
  calls          \* the call each caller is in

disk  == <<row, lag>>
world == <<procs, watching>>
saved == <<checkpoint, tokens, locks, lockCounter>>
retry == <<retryPending, retryGo>>
chans == <<cmdChan, loop, waiters, calls>>
ctxs  == <<cancelled, delayed, budget, hv>>
vars  == <<job, disk, world, saved, retry, chans, ctxs>>

-----------------------------------------------------------------------------
(***************************************************************************)
(* Commands and calls.                                                     *)
(***************************************************************************)
Exits == {"zero", "nonzero", "error"}

Command == [typ : CommandTypes, from : Callers \cup {Nobody}, token : Tokens \cup {NoToken},
            suspend : BOOLEAN, exit : Exits, lock : Nat, proc : Nat]

Cmd(typ, from) ==
  [typ |-> typ, from |-> from, token |-> NoToken, suspend |-> FALSE,
   exit |-> "zero", lock |-> 0, proc |-> 0]

\* The commands a client may send: what the caller and runtime APIs pass on.
ClientCommands(c) ==
  {m \in {Cmd(t, c) : t \in ClientCalls \ {"checkpoint", "exit", "releaseLock"}}
         \cup (UNION {{[Cmd("checkpoint", c) EXCEPT !.token = k, !.suspend = s] :
                          s \in BOOLEAN} : k \in Tokens \cup {NoToken}})
         \cup {[Cmd("exit", c) EXCEPT !.exit = e] : e \in {"zero", "nonzero"}}
         \cup {[Cmd("releaseLock", c) EXCEPT !.lock = l] : l \in 1..MaxLocks} :
     m.typ \in Calls}

Errors == {"nil", "stopped", "ctx", "terminal", "state", "token", "locked", "runtime", "lock"}

\* A call: not made yet, its command sent, its reply in resultChan, returned.  A
\* client whose call returned with a reply or an ended context may call again; one that
\* found the runner done keeps what it was told.
CallRecord == [st : {"idle", "waiting", "answered", "returned"},
               typ : CommandTypes \cup {"none"}, err : Errors]

IdleCall == [st |-> "idle", typ |-> "none", err |-> "nil"]

\* sendCommandGraceful: a runner that is done answers with the state of its job;
\* sendCommand and sendCommandWithCtx make it an error.
Graceful == {"getState", "kill", "exit", "releaseLock", "waitForResult"}

DoneReply(call) ==
  [call EXCEPT !.st = "returned", !.err = IF call.typ \in Graceful THEN "nil" ELSE "stopped"]

\* The creator of a woken or retried runner bypasses sendCommand: it sends on the
\* channel and waits for the reply without looking at doneChan.
RawSend == {"wake", "retry"}

Queued(t) == \E i \in DOMAIN cmdChan : cmdChan[i].typ = t

\* The creator's command, not sent or not handled yet.
Unsent(t) == calls[Creator].st = "idle" /\ calls[Creator].typ = t

RetryInFlight == retryGo \/ Queued("retry") \/ Unsent("retry")

-----------------------------------------------------------------------------
(***************************************************************************)
(* A runner is created for a new job (spawn), for an interrupted job       *)
(* without checkpoint (interrupted), to restore a job from its checkpoint  *)
(* (wake) or to retry one whose delay has passed (retry).  A pending job   *)
(* found at start-up is restarted from a row equal to a new one.           *)
(***************************************************************************)
\* resume_at stays set in a row that was retried after a delay.  The poller does not test
\* the maximum: a retry that failed to restore left the row waiting for another.
InterruptedRow(n, b) ==
  [InsertJob EXCEPT !.state = "running", !.retryCount = n, !.resumeAt = b]

InitialRows(birth) ==
  CASE birth = "spawn" -> {InsertJob}
    [] birth = "interrupted" ->
         {InterruptedRow(n, b) : n \in {k \in PastRetries : k < MaxRetries}, b \in BOOLEAN}
    [] birth = "wake" ->
         {r \in {[state |-> s, retryCount |-> n, checkpointCount |-> 1, resumeAt |-> b,
                  result |-> "nil", checkpointPath |-> TRUE] :
                   s \in {"suspended", "running"}, n \in PastRetries, b \in BOOLEAN} :
            r.state = "suspended" => r.resumeAt}
    [] birth = "retry" ->
         {[state |-> "pending_retry", retryCount |-> n, checkpointCount |-> IF p THEN 1 ELSE 0,
           resumeAt |-> TRUE, result |-> "nil", checkpointPath |-> p] :
            n \in PastRetries, p \in BOOLEAN}

\* The state the creator gives the loaded job.
BornState(birth, state) ==
  CASE birth = "wake" -> "suspended"
    [] birth = "retry" -> "failed"
    [] OTHER -> state

\* The policy's maximum, but the retry a runner is made for is made in any case.
Budget(birth, n) ==
  LET sure == n + (IF birth = "retry" THEN 1 ELSE 0)
  IN  IF sure > MaxRetries THEN sure ELSE MaxRetries

CreatorCall(birth) == IF birth \in RawSend THEN birth ELSE "start"

\* retryJob goes on without the checkpoint when it cannot be reconstructed.
Reconstructed(birth, path) ==
  {path} \cup IF birth = "retry" /\ "restore" \in Faults THEN {FALSE} ELSE {}

Init ==
  /\ \E birth \in Births :
       /\ row \in InitialRows(birth)
       /\ job = [dbJobToJob(row) EXCEPT !.state = BornState(birth, row.state)]
       /\ lag = IF birth \in RawSend THEN {"birth"} ELSE {}
       /\ budget = Budget(birth, row.retryCount)
       /\ checkpoint \in Reconstructed(birth, row.checkpointPath)
       /\ calls = [c \in Callers |->
                     IF c = Creator THEN [IdleCall EXCEPT !.typ = CreatorCall(birth)] ELSE IdleCall]
  /\ procs = <<>> /\ watching = {}
  /\ tokens = {} /\ locks = {} /\ lockCounter = 0
  /\ retryPending = FALSE /\ retryGo = FALSE
  /\ waiters = {} /\ cmdChan = <<>> /\ loop = "select"
  /\ cancelled = FALSE /\ hv = "up" /\ delayed \in RetryDelays

-----------------------------------------------------------------------------
(***************************************************************************)
(* The database.  A write fails once r.ctx is cancelled, and may fail      *)
(* otherwise when the database does; the code logs the error and goes on.  *)
(*                                                                         *)
(* lag names why the row may differ from the job: the creator gave the     *)
(* loaded job another state ("birth"), a write was lost ("write"), an      *)
(* immediate retry is due, which is not written down ("retry"), or a retry *)
(* failed to restore, whose failure is not written down ("restore").       *)
(***************************************************************************)
Written(old, new) ==
  IF cancelled THEN {old} ELSE IF "db" \in Faults THEN {old, new} ELSE {new}

Lagging(reasons, intended) == IF row' = intended THEN reasons ELSE reasons \cup {"write"}

Persist(new) == row' \in Written(row, new) /\ lag' = Lagging(lag, new)

(***************************************************************************)
(* The end of an iteration of commandLoop: the reply to the command, and   *)
(* whether the loop goes on.                                               *)
(***************************************************************************)
\* Variant: the loop does not look at terminal states.
LoopGoesOn(j, pending) == j.state = "pending_retry"

LoopEnds(j, pending) == (IsTerminal(j) /\ ~pending) \/ j.state = "pending_retry"

Settle(replyTo, err, waiting) ==
  LET ends == LoopEnds(job', retryPending')
  IN /\ cmdChan' = Tail(cmdChan)
     /\ loop' = IF ends THEN "draining" ELSE "select"
     /\ waiters' = IF ends THEN {} ELSE waiting
     /\ calls' = [c \in Callers |->
                    IF c = replyTo
                    THEN [calls[c] EXCEPT !.st = "answered", !.err = err]
                    ELSE IF ends /\ c \in waiting
                    THEN [calls[c] EXCEPT !.st = "answered", !.err = "nil"]
                    ELSE calls[c]]

\* Variant: the reply is forgotten.
ReplyForgotten(err) == Settle(Nobody, err, waiters)

Reply(err) == Settle(Head(cmdChan).from, err, waiters)

Handling(t) == loop = "select" /\ cmdChan # <<>> /\ Head(cmdChan).typ = t

\* A command refused with an error, or answered without doing anything.
NoEffect == UNCHANGED <<job, disk, world, saved, retry, ctxs>>

-----------------------------------------------------------------------------
(***************************************************************************)
(* The runtime (external: podman or firecracker): a process is running,    *)
(* has exited, or has been removed.                                        *)
(***************************************************************************)
LastProc == procs[Len(procs)]

\* Variant: the goroutine waits for the process before the new one is stored.
NewProcessWatchedEarly ==
  procs' = Append(procs, "running") /\ watching' = watching \cup {Len(procs)}

NewProcess ==
  /\ procs' = Append(procs, "running")
  /\ watching' = watching \cup {Len(procs) + 1}

\* Restore may first remove what is left of earlier processes (podman does, firecracker
\* does not), and has done so when it fails.
Leftovers == {procs, [p \in DOMAIN procs |-> "removed"]}

RestoredProcess ==
  /\ procs' \in {Append(left, "running") : left \in Leftovers}
  /\ watching' = watching \cup {Len(procs) + 1}

NotRestored == procs' \in Leftovers /\ UNCHANGED watching

\* Start and Restore use r.ctx; starting afresh finds the name of a container that
\* was not removed in use.
StartMayFail == cancelled \/ "start" \in Faults \/ \E p \in DOMAIN procs : procs[p] # "removed"

RestoreMayFail == cancelled \/ "restore" \in Faults

\* Variant: the process is not removed.
CleanupSkipped == UNCHANGED procs

Cleanup == procs' \in {[procs EXCEPT ![Len(procs)] = s] :
                         s \in {"removed"} \cup IF "cleanup" \in Faults THEN {LastProc} ELSE {}}

\* What Wait may return: the exit code of a process that ended, an error when its
\* context is cancelled, when the process is gone, or when the runtime fails.
WaitReturns(status) ==
  (IF status = "running" THEN {} ELSE {"zero", "nonzero"})
    \cup IF cancelled \/ "wait" \in Faults \/ status = "removed" THEN {"error"} ELSE {}

-----------------------------------------------------------------------------
(***************************************************************************)
(* The handlers.                                                           *)
(***************************************************************************)
handleStart ==
  /\ Handling("start")
  /\ \/ /\ job.state # "pending"
        /\ NoEffect
        /\ Reply("state")
     \/ /\ job.state = "pending"
        /\ ~cancelled
        /\ job' = [job EXCEPT !.state = "running"]
        /\ Persist(UpdateJobStarted(row))
        /\ NewProcess
        /\ UNCHANGED <<saved, retry, ctxs>>
        /\ Reply("nil")
     \/ /\ job.state = "pending"
        /\ StartMayFail
        /\ job' = [job EXCEPT !.state = "failed"]
        /\ Persist(UpdateJobCompleted(row, "failed", "nil"))
        /\ UNCHANGED <<world, saved, retry, ctxs>>
        /\ Reply("runtime")

\* Variant: the exit code is not looked at.
JobExitedAnyCode(j, exit) ==
  [j EXCEPT !.state = IF exit = "error" THEN "failed" ELSE "completed",
            !.result = IF exit = "error" THEN @ ELSE exit]

\* The job after its process ended with the given exit.
JobExited(j, exit) ==
  [j EXCEPT !.state = IF exit = "zero" THEN "completed" ELSE "failed",
            !.result = CASE exit = "error" -> @
                         [] exit = "nonzero" -> "nonzero"
                         [] exit = "zero" -> IF @ = "nil" THEN "zero" ELSE @]

Retryable(j) == j.state = "failed" /\ ShouldRetry(j, MaxRetries)

handleProcessExited ==
  /\ Handling("processExited")
  /\ \/ /\ IsTerminal(job) \/ job.state = "suspended"
        /\ NoEffect
     \/ /\ ~IsTerminal(job) /\ job.state # "suspended"
        /\ Cleanup
        /\ LET exited == JobExited(job, Head(cmdChan).exit)
           IN \/ /\ ~Retryable(exited)
                 /\ job' = exited
                 /\ Persist(UpdateJobCompleted(row, exited.state, exited.result))
                 /\ UNCHANGED retry
              \/ /\ Retryable(exited) /\ delayed
                 /\ job' = [exited EXCEPT !.state = "pending_retry", !.resumeAt = TRUE]
                 /\ Persist(UpdateJobPendingRetry(row))
                 /\ UNCHANGED retry
              \/ /\ Retryable(exited) /\ ~delayed
                 /\ job' = exited
                 /\ retryPending' = TRUE /\ retryGo' = TRUE
                 /\ lag' = lag \cup {"retry"}
                 /\ UNCHANGED row
        /\ UNCHANGED <<watching, saved, ctxs>>
  /\ Reply("nil")

\* The first reason to refuse a checkpoint, in the order the code looks for one.
\* Requests are never collapsed: see UnreachableBranches.
CheckpointRefusal(cmd) ==
  IF cmd.token = NoToken THEN "token"
  ELSE IF IsTerminal(job) THEN "terminal"
  ELSE IF locks # {} THEN "locked"
  ELSE IF job.state # "running" THEN "state"
  ELSE "nil"

\* Variants: the operation is not cleared, the checkpoint is not counted.
JobStillCheckpointing(j, suspend) ==
  [j EXCEPT !.op = "checkpointing", !.checkpointCount = @ + 1, !.resumeAt = @ \/ suspend,
            !.state = IF suspend THEN "suspended" ELSE @]

JobCheckpointUncounted(j, suspend) ==
  [j EXCEPT !.op = "", !.resumeAt = @ \/ suspend, !.state = IF suspend THEN "suspended" ELSE @]

\* A successful checkpoint: counted, and the job suspended unless it is kept running.
JobCheckpointed(j, suspend) ==
  [j EXCEPT !.op = "", !.checkpointCount = @ + 1,
            !.resumeAt = @ \/ suspend, !.state = IF suspend THEN "suspended" ELSE @]

\* Variant: a failed checkpoint stays counted.
JobCheckpointNotUndone(j) == [j EXCEPT !.op = "", !.resumeAt = FALSE, !.checkpointCount = @ + 1]

\* A failed one: counted back, and no time to resume at.
JobNotCheckpointed(j) == [j EXCEPT !.op = "", !.resumeAt = FALSE]

\* Process.Checkpoint: one that suspends the process stops it and then removes it, which
\* may fail; one that fails may have stopped the process it was to suspend.
ProcsCheckpointed(suspend) ==
  IF suspend THEN {[procs EXCEPT ![Len(procs)] = s] : s \in {"exited", "removed"}} ELSE {procs}

ProcsNotCheckpointed(suspend) ==
  {procs} \cup IF suspend /\ LastProc = "running"
              THEN {[procs EXCEPT ![Len(procs)] = "exited"]} ELSE {}

\* It uses the caller's context and so fails when the caller gave up.
handleCheckpoint ==
  /\ Handling("checkpoint")
  /\ LET cmd == Head(cmdChan)
         refusal == CheckpointRefusal(cmd)
     IN \/ /\ cmd.token \in tokens
           /\ NoEffect
           /\ Reply("nil")
        \/ /\ cmd.token \notin tokens /\ refusal # "nil"
           /\ NoEffect
           /\ Reply(refusal)
        \/ /\ cmd.token \notin tokens /\ refusal = "nil" /\ procs = <<>>
           /\ loop' = "panicked"                       \* r.process is nil
           /\ UNCHANGED <<cmdChan, waiters, calls>>
           /\ NoEffect
        \/ /\ cmd.token \notin tokens /\ refusal = "nil" /\ procs # <<>>
           /\ LastProc # "running" \/ "checkpoint" \in Faults \/ cmd.from = Nobody
           /\ job' = JobNotCheckpointed(job)
           /\ procs' \in ProcsNotCheckpointed(cmd.suspend)
           /\ UNCHANGED <<watching, disk, saved, retry, ctxs>>
           /\ Reply("runtime")
        \/ /\ cmd.token \notin tokens /\ refusal = "nil" /\ procs # <<>>
           /\ LastProc = "running" /\ cmd.from # Nobody
           /\ job' = JobCheckpointed(job, cmd.suspend)
           /\ procs' \in ProcsCheckpointed(cmd.suspend)
           /\ checkpoint' = TRUE
           /\ tokens' = tokens \cup {cmd.token}
           /\ Persist(UpdateJobCheckpointed(row, job'.state, job'.resumeAt))
           /\ UNCHANGED <<watching, locks, lockCounter, retry, ctxs>>
           /\ Reply("nil")

\* The other branch, a job that is not suspended, is not reached: UnreachableBranches.
handleWake ==
  /\ Handling("wake")
  /\ job.state = "suspended"
  /\ UNCHANGED <<saved, retry, ctxs>>
  /\ \/ /\ ~cancelled
        /\ job' = [job EXCEPT !.state = "running", !.resumeAt = FALSE]
        /\ row' \in Written(row, UpdateJobState(row, "running"))
        /\ lag' = Lagging(lag \ {"birth"}, UpdateJobState(row, "running"))
        /\ RestoredProcess
        /\ Reply("nil")
     \/ /\ RestoreMayFail
        /\ job' = [job EXCEPT !.state = "failed", !.resumeAt = FALSE]
        /\ LET awake == UpdateJobState(row, "running")
           IN /\ row' \in UNION {Written(r, UpdateJobCompleted(r, "failed", "nil")) :
                                   r \in Written(row, awake)}
              /\ lag' = Lagging(lag \ {"birth"}, UpdateJobCompleted(awake, "failed", "nil"))
        /\ NotRestored
        /\ Reply("runtime")

KillRefusal(j) ==
  IF IsTerminal(j) THEN "terminal" ELSE IF j.state \in {"running", "suspended"} THEN "nil" ELSE "state"

\* Variant: the process is left alone.
ProcsLeftAlone == procs

ProcsKilled == IF procs = <<>> THEN procs ELSE [procs EXCEPT ![Len(procs)] = "exited"]

\* Process.Kill succeeds on a running process, may succeed on one that has exited, and
\* fails on one that was removed.
handleKill ==
  /\ Handling("kill")
  /\ \/ /\ KillRefusal(job) # "nil"
        /\ NoEffect
        /\ Reply(KillRefusal(job))
     \/ /\ KillRefusal(job) = "nil" /\ procs # <<>>
        /\ LastProc # "running" \/ "kill" \in Faults \/ Head(cmdChan).from = Nobody
        /\ job' = [job EXCEPT !.op = "terminating"]
        /\ UNCHANGED <<disk, world, saved, retry, ctxs>>
        /\ Reply("runtime")
     \/ /\ KillRefusal(job) = "nil" /\ (procs # <<>> => LastProc # "removed")
        /\ job' = [job EXCEPT !.op = "terminating", !.state = "failed"]
        /\ procs' = ProcsKilled
        /\ Persist(UpdateJobCompleted(row, "failed", "nil"))
        /\ UNCHANGED <<watching, saved, retry, ctxs>>
        /\ Reply("nil")

\* Variant: a job that is not running may exit.
ExitRefusalLoose(j) == IF IsTerminal(j) THEN "terminal" ELSE "nil"

ExitRefusal(j) ==
  IF IsTerminal(j) THEN "terminal" ELSE IF j.state = "running" THEN "nil" ELSE "state"

JobExiting(j, ok) ==
  [j EXCEPT !.op = "exiting", !.result = IF ok THEN "zero" ELSE "nonzero",
            !.state = IF ok THEN "completed" ELSE "failed"]

handleExit ==
  /\ Handling("exit")
  /\ \/ /\ ExitRefusal(job) # "nil"
        /\ NoEffect
        /\ Reply(ExitRefusal(job))
     \/ /\ ExitRefusal(job) = "nil"
        /\ job' = JobExiting(job, Head(cmdChan).exit = "zero")
        /\ Persist(UpdateJobCompleted(row, job'.state, job'.result))
        /\ UNCHANGED <<world, saved, retry, ctxs>>
        /\ Reply("nil")

handleGetState == Handling("getState") /\ NoEffect /\ Reply("nil")

\* Variant: the counter is not advanced.
NewLockUncounted == UNCHANGED lockCounter /\ locks' = locks \cup {lockCounter + 1}

NewLock == lockCounter' = lockCounter + 1 /\ locks' = locks \cup {lockCounter + 1}

handleTakeLock ==
  /\ Handling("takeLock")
  /\ \/ /\ IsTerminal(job)
        /\ NoEffect
        /\ Reply("terminal")
     \/ /\ ~IsTerminal(job)
        /\ NewLock
        /\ UNCHANGED <<job, disk, world, checkpoint, tokens, retry, ctxs>>
        /\ Reply("nil")

handleReleaseLock ==
  /\ Handling("releaseLock")
  /\ \/ /\ Head(cmdChan).lock \notin locks
        /\ NoEffect
        /\ Reply("lock")
     \/ /\ Head(cmdChan).lock \in locks
        /\ locks' = locks \ {Head(cmdChan).lock}
        /\ UNCHANGED <<job, disk, world, checkpoint, tokens, lockCounter, retry, ctxs>>
        /\ Reply("nil")

handleWaitForResult ==
  /\ Handling("waitForResult")
  /\ NoEffect
  /\ \/ IsTerminal(job) /\ Reply("nil")
     \/ ~IsTerminal(job) /\ Settle(Nobody, "nil", waiters \cup ({Head(cmdChan).from} \ {Nobody}))

\* Variant: the retry is not counted.
JobRetriedUncounted(j) == [j EXCEPT !.op = "restarting", !.result = "nil"]

\* The bookkeeping of a retry, before the process is started again.
JobRetried(j) == [j EXCEPT !.op = "restarting", !.retryCount = @ + 1, !.result = "nil"]

\* A retry that fails to start the process afresh is written down as a failure; one
\* that fails to restore it is not.
handleRetry ==
  /\ Handling("retry")
  /\ job.state = "failed"                 \* see UnreachableBranches
  /\ retryPending' = FALSE
  /\ UNCHANGED <<saved, retryGo, ctxs>>
  /\ LET counted == UpdateJobRetryCount(row, job.retryCount + 1)
         because == lag \ {"birth", "retry"}
     IN \/ /\ ~cancelled
           /\ job' = [JobRetried(job) EXCEPT !.state = "running",
                                             !.resumeAt = @ /\ ~checkpoint]
           /\ row' \in UNION {Written(r, UpdateJobStarted(r)) : r \in Written(row, counted)}
           /\ lag' = Lagging(because, UpdateJobStarted(counted))
           /\ IF checkpoint THEN RestoredProcess ELSE NewProcess
           /\ Reply("nil")
        \/ /\ ~checkpoint /\ StartMayFail
           /\ job' = JobRetried(job)
           /\ row' \in UNION {Written(r, UpdateJobCompleted(r, "failed", "nil")) :
                                r \in Written(row, counted)}
           /\ lag' = Lagging(because, UpdateJobCompleted(counted, "failed", "nil"))
           /\ UNCHANGED world
           /\ Reply("runtime")
        \/ /\ checkpoint /\ RestoreMayFail
           /\ job' = JobRetried(job)
           /\ row' \in Written(row, counted)
           /\ lag' = Lagging(because \cup {"restore"}, counted)
           /\ NotRestored
           /\ Reply("runtime")

handleStop ==
  /\ Handling("stop")
  /\ cancelled' = TRUE
  /\ UNCHANGED <<job, disk, world, saved, retry, delayed, budget, hv>>
  /\ Reply("nil")

-----------------------------------------------------------------------------
(***************************************************************************)
(* The loop ends: when the job does, or when r.ctx is cancelled.  It then  *)
(* answers what is queued and closes doneChan.                             *)
(***************************************************************************)
LoopCancelled ==
  /\ loop = "select" /\ cancelled
  /\ loop' = "draining"
  /\ UNCHANGED <<job, disk, world, saved, retry, cmdChan, waiters, calls, ctxs>>

DrainCommand ==
  /\ loop = "draining" /\ cmdChan # <<>>
  /\ cmdChan' = Tail(cmdChan)
  /\ calls' = [c \in Callers |->
                 IF c = Head(cmdChan).from
                 THEN [calls[c] EXCEPT !.st = "answered", !.err = "stopped"] ELSE calls[c]]
  /\ UNCHANGED <<job, disk, world, saved, retry, loop, waiters, ctxs>>

CloseDone ==
  /\ loop = "draining" /\ cmdChan = <<>>
  /\ loop' = "done"
  /\ UNCHANGED <<job, disk, world, saved, retry, cmdChan, waiters, calls, ctxs>>

(***************************************************************************)
(* The goroutines beside the loop.                                         *)
(***************************************************************************)
HasRoom == Len(cmdChan) < ChanCap

Send(m) == HasRoom /\ cmdChan' = Append(cmdChan, m)

ProcessEnds(p) ==
  /\ procs[p] = "running"
  /\ procs' = [procs EXCEPT ![p] = "exited"]
  /\ UNCHANGED <<job, disk, watching, saved, retry, chans, ctxs>>

\* Variants: the exit is sent again, the exit is dropped when the channel is full.
ExitSentAgain(p) ==
  /\ p \in watching
  /\ \E exit \in WaitReturns(procs[p]) :
       Send([Cmd("processExited", Nobody) EXCEPT !.exit = exit, !.proc = p])
  /\ UNCHANGED <<job, disk, world, saved, retry, loop, waiters, calls, ctxs>>

ExitDropped(p) ==
  /\ p \in watching
  /\ \E exit \in WaitReturns(procs[p]) :
       \/ Send([Cmd("processExited", Nobody) EXCEPT !.exit = exit, !.proc = p])
       \/ ~HasRoom /\ UNCHANGED cmdChan
  /\ watching' = watching \ {p}
  /\ UNCHANGED <<job, disk, procs, saved, retry, loop, waiters, calls, ctxs>>

waitForProcessExit(p) ==
  /\ p \in watching
  /\ \E exit \in WaitReturns(procs[p]) :
       Send([Cmd("processExited", Nobody) EXCEPT !.exit = exit, !.proc = p])
  /\ watching' = watching \ {p}
  /\ UNCHANGED <<job, disk, procs, saved, retry, loop, waiters, calls, ctxs>>

\* Variants: the retry is sent again, the retry is dropped when the channel is full.
RetrySentAgain ==
  retryGo /\ Send(Cmd("retry", Nobody))
    /\ UNCHANGED <<job, disk, world, saved, retry, loop, waiters, calls, ctxs>>

RetryDropped ==
  /\ retryGo
  /\ Send(Cmd("retry", Nobody)) \/ (~HasRoom /\ UNCHANGED cmdChan)
  /\ retryGo' = FALSE
  /\ UNCHANGED <<job, disk, world, saved, retryPending, loop, waiters, calls, ctxs>>

SendRetry ==
  /\ retryGo
  /\ \/ Send(Cmd("retry", Nobody))
     \/ loop = "done" /\ UNCHANGED cmdChan
  /\ retryGo' = FALSE
  /\ UNCHANGED <<job, disk, world, saved, retryPending, loop, waiters, calls, ctxs>>

(***************************************************************************)
(* A client's call.  It returns with the reply, or because the runner is   *)
(* done, or because its context ends: the command stays queued then, and   *)
(* nobody reads its reply.                                                 *)
(***************************************************************************)
LocksAskedFor == Cardinality({i \in DOMAIN cmdChan : cmdChan[i].typ = "takeLock"})

Call(c) ==
  /\ calls[c].st = "idle"
  /\ loop # "done"
  /\ \E m \in ClientCommands(c) :
       /\ m.typ = "takeLock" => lockCounter + LocksAskedFor < MaxLocks
       /\ Send(m)
       /\ calls' = [calls EXCEPT ![c] = [st |-> "waiting", typ |-> m.typ, err |-> "nil"]]
  /\ UNCHANGED <<job, disk, world, saved, retry, loop, waiters, ctxs>>

CallDone(c) ==
  /\ calls[c].st \in {"idle", "returned"}
  /\ loop = "done"
  /\ \E t \in Calls : calls' = [calls EXCEPT ![c] = DoneReply([@ EXCEPT !.typ = t])]
  /\ UNCHANGED <<job, disk, world, saved, retry, cmdChan, loop, waiters, ctxs>>

Return(c) ==
  /\ calls[c].st = "answered"
  /\ calls' = [calls EXCEPT ![c] = IdleCall]
  /\ UNCHANGED <<job, disk, world, saved, retry, cmdChan, loop, waiters, ctxs>>

ReturnDone(c) ==
  /\ calls[c].st \in {"waiting", "answered"}
  /\ loop = "done"
  /\ calls' = [calls EXCEPT ![c] = DoneReply(@)]
  /\ UNCHANGED <<job, disk, world, saved, retry, cmdChan, loop, waiters, ctxs>>

\* The command, or the waiter, of a caller that stopped listening.
Abandoned(c) == [i \in DOMAIN cmdChan |->
                   IF cmdChan[i].from = c THEN [cmdChan[i] EXCEPT !.from = Nobody] ELSE cmdChan[i]]

Timeout(c) ==
  /\ "timeout" \in Faults
  /\ calls[c].st \in {"waiting", "answered"}
  /\ calls' = [calls EXCEPT ![c] = IdleCall]
  /\ cmdChan' = Abandoned(c)
  /\ waiters' = waiters \ {c}
  /\ UNCHANGED <<job, disk, world, saved, retry, loop, ctxs>>

(***************************************************************************)
(* The creator: Start of a new runner, or the command wakeJob and retryJob *)
(* send; they cancel the runner when it fails or when their context ends:  *)
(* the hypervisor's, or the one RecoverState was given, which is taken to  *)
(* end no earlier.                                                         *)
(***************************************************************************)
CreatorSends ==
  /\ calls[Creator].st = "idle"
  /\ calls[Creator].typ = "start" => loop # "done"
  /\ Send(Cmd(calls[Creator].typ, Creator))
  /\ calls' = [calls EXCEPT ![Creator].st = "waiting"]
  /\ UNCHANGED <<job, disk, world, saved, retry, loop, waiters, ctxs>>

CreatorStartDone ==
  /\ calls[Creator].typ = "start" /\ calls[Creator].st # "returned"
  /\ loop = "done"
  /\ calls' = [calls EXCEPT ![Creator] = DoneReply(@)]
  /\ UNCHANGED <<job, disk, world, saved, retry, cmdChan, loop, waiters, ctxs>>

CreatorReturns ==
  /\ calls[Creator].st = "answered"
  /\ calls' = [calls EXCEPT ![Creator].st = "returned"]
  /\ cancelled' = (cancelled \/ (calls[Creator].typ \in RawSend /\ calls[Creator].err # "nil"))
  /\ UNCHANGED <<job, disk, world, saved, retry, cmdChan, loop, waiters, delayed, budget, hv>>

CreatorGivesUp ==
  /\ hv # "up"
  /\ calls[Creator].typ \in RawSend /\ calls[Creator].st \in {"waiting", "answered"}
  /\ calls' = [calls EXCEPT ![Creator].st = "returned", ![Creator].err = "ctx"]
  /\ cmdChan' = Abandoned(Creator)
  /\ cancelled' = TRUE
  /\ UNCHANGED <<job, disk, world, saved, retry, loop, waiters, delayed, budget, hv>>

(***************************************************************************)
(* The hypervisor shuts down (Shutdown: its own context, then Stop) or is  *)
(* closed at once (DevCrash: its own context, then Cancel).                *)
(***************************************************************************)
Shutdown ==
  /\ hv = "up" /\ "shutdown" \in Faults
  /\ hv' = "stopping"
  /\ UNCHANGED <<job, disk, world, saved, retry, chans, cancelled, delayed, budget>>

Stop ==
  /\ hv = "stopping"
  /\ \/ Send(Cmd("stop", Nobody))
     \/ loop = "done" /\ UNCHANGED cmdChan
  /\ hv' = "stopped"
  /\ UNCHANGED <<job, disk, world, saved, retry, loop, waiters, calls, cancelled, delayed, budget>>

DevCrash ==
  /\ hv = "up" /\ "shutdown" \in Faults
  /\ hv' = "stopped" /\ cancelled' = TRUE
  /\ UNCHANGED <<job, disk, world, saved, retry, chans, delayed, budget>>

-----------------------------------------------------------------------------
\* The steps of commandLoop.
Loop ==
  \/ handleStart \/ handleProcessExited \/ handleCheckpoint \/ handleWake \/ handleKill
  \/ handleExit \/ handleGetState \/ handleTakeLock \/ handleReleaseLock
  \/ handleWaitForResult \/ handleRetry \/ handleStop
  \/ LoopCancelled \/ DrainCommand \/ CloseDone

CreatorSteps == CreatorSends \/ CreatorStartDone \/ CreatorReturns \/ CreatorGivesUp

Client(c) == Call(c) \/ CallDone(c) \/ Return(c) \/ ReturnDone(c) \/ Timeout(c)

\* A panic ends the whole hypervisor.
Next ==
  /\ loop # "panicked"
  /\ \/ Loop
     \/ \E p \in DOMAIN procs : ProcessEnds(p) \/ waitForProcessExit(p)
     \/ SendRetry
     \/ \E c \in Clients : Client(c)
     \/ CreatorSteps
     \/ Shutdown \/ Stop \/ DevCrash

Spec == Init /\ [][Next]_vars

(***************************************************************************)
(* Fairness: the Go scheduler runs every goroutine that can run, and a     *)
(* channel serves the senders blocked on it in order, so a send that is    *)
(* possible again and again happens.  Nothing is assumed of clients (they  *)
(* need not call), of processes (they need not end), of contexts (they     *)
(* need not time out) or of the operator.                                  *)
(***************************************************************************)
Fairness ==
  /\ WF_vars(Loop)
  /\ SF_vars(SendRetry)
  /\ SF_vars(CreatorSends) /\ WF_vars(CreatorSteps)
  /\ \A c \in Clients : WF_vars(Return(c)) /\ WF_vars(ReturnDone(c))
  /\ SF_vars(\E p \in DOMAIN procs : waitForProcessExit(p))

FairSpec == Spec /\ Fairness

-----------------------------------------------------------------------------
(***************************************************************************)
(* Properties.                                                             *)
(***************************************************************************)
\* Every variable has its type; r.process, when there is one, is the last started.
TypeOK ==
  /\ job \in Job
  /\ row \in Row
  /\ lag \subseteq {"birth", "write", "retry", "restore"}
  /\ procs \in Seq({"running", "exited", "removed"})
  /\ watching \subseteq DOMAIN procs
  /\ checkpoint \in BOOLEAN
  /\ tokens \subseteq Tokens
  /\ lockCounter \in Nat
  /\ locks \subseteq 1..lockCounter
  /\ retryPending \in BOOLEAN /\ retryGo \in BOOLEAN
  /\ waiters \subseteq Callers
  /\ cmdChan \in Seq(Command)
  /\ loop \in {"select", "draining", "done", "panicked"}
  /\ cancelled \in BOOLEAN /\ delayed \in BOOLEAN /\ budget \in Nat
  /\ hv \in {"up", "stopping", "stopped"}
  /\ calls \in [Callers -> CallRecord]
  /\ calls[Creator].typ \in {"start"} \cup RawSend

\* At most one retry is in flight, in the goroutine that will send it, in the queue or in
\* the hands of the creator; while it is, the job is failed, and a retry is left to it when
\* this runner decided on the retry (the creator's may be past the maximum).
RetryOnce ==
  /\ \A i, j \in DOMAIN cmdChan :
       cmdChan[i].typ = "retry" /\ cmdChan[j].typ = "retry" => i = j
  /\ retryGo => ~Queued("retry") /\ ~Unsent("retry")
  /\ Queued("retry") => ~Unsent("retry")
  /\ RetryInFlight => job.state = "failed" /\ (retryPending => job.retryCount < MaxRetries)

\* The policy's budget (setupRetryCallback, handleRetry): counting the retry in flight, a
\* runner brings the retries of its job to MaxRetries at most; beyond that it makes only
\* the retry it was made for, once, and none of its own.  The row does not say otherwise.
RetryBudget ==
  /\ job.retryCount + (IF RetryInFlight THEN 1 ELSE 0) <= budget
  /\ row.retryCount <= job.retryCount

\* The loop outlives a failure only for a retry that is really on its way: retryPending
\* is never left set without one (commandLoop would then never end).
RetryPendingIsInFlight == retryPending /\ loop = "select" => retryGo \/ Queued("retry")

\* A process exit that is awaited or queued is that of the current process and there is
\* one at most: the exit of an earlier process never ends a job that was retried since.
ExitIsCurrent ==
  /\ \A p \in watching : p = Len(procs)
  /\ \A i \in DOMAIN cmdChan :
       cmdChan[i].typ = "processExited" => cmdChan[i].proc = Len(procs) /\ watching = {}
  /\ \A i, j \in DOMAIN cmdChan :
       cmdChan[i].typ = "processExited" /\ cmdChan[j].typ = "processExited" => i = j

\* The branches of the handlers this module leaves out are not reached: no checkpoint
\* request finds another one in progress (handleCheckpoint would collapse it), no wake
\* finds a job that is not suspended, no retry one that has not failed.
UnreachableBranches ==
  /\ Handling("checkpoint") => job.op # "checkpointing"
  /\ Handling("wake") => job.state = "suspended"
  /\ Handling("retry") => job.state = "failed"

\* A job that is not running has no process running, save one that reported its own end
\* through the exit API; a running job has one at most, its last.
ProcessMatchesState ==
  \A p \in DOMAIN procs :
    procs[p] = "running" => p = Len(procs) /\ (job.state = "running" \/ job.op = "exiting")

\* When no write was lost, the row says what the job is, whatever order the commands came
\* in: a runner evicted from memory can be rebuilt from it.
RowTracksJob ==
  lag = {} =>
    /\ row.state = job.state
    /\ row.retryCount = job.retryCount
    /\ row.checkpointCount = job.checkpointCount
    /\ checkpoint => row.checkpointPath
    /\ job.state \in {"suspended", "pending_retry"} => row.resumeAt
    /\ IsTerminal(job) => row.result = job.result

\* Even when writes are lost, a row that waits for the resume poller is one it can resume:
\* GetJobsToResume finds it, and a suspended one has a checkpoint.
ParkedRowsResumable ==
  /\ row.state \in {"suspended", "pending_retry"} => row.resumeAt
  /\ row.state = "suspended" => row.checkpointPath

\* A completed job has a zero exit code, and no other one does.
ResultMatchesState ==
  /\ job.state = "completed" <=> job.result = "zero"
  /\ row.state = "completed" <=> row.result = "zero"

\* A token is worth one checkpoint: the count and the tokens grow together, however often
\* a request is repeated or fails.
CheckpointPerToken ==
  [][job'.checkpointCount - job.checkpointCount = Cardinality(tokens') - Cardinality(tokens)]_vars

\* The job of a runner moves as JobLifecycle says.
Phase ==
  IF job.state = "failed" /\ loop = "select" /\ RetryInFlight THEN "retrying" ELSE job.state

Lifecycle == INSTANCE JobLifecycle
  WITH phase <- Phase, retries <- job.retryCount, checkpoints <- job.checkpointCount

LifecycleSpec == Lifecycle!Spec

(***************************************************************************)
(* Liveness, under Fairness.                                               *)
(***************************************************************************)
\* A client's call returns, unless it waits for the result of a job that goes on.
CallsReturn ==
  \A c \in Clients :
    (calls[c].st = "waiting" /\ calls[c].typ # "waitForResult") ~> (calls[c].st # "waiting")

\* A job that ended releases whoever waits for its result.
ResultDelivered ==
  \A c \in Clients :
    (calls[c].st = "waiting" /\ IsTerminal(job) /\ ~RetryInFlight) ~> (calls[c].st # "waiting")

\* An immediate retry is made, or the runner stops.
RetryMade == retryPending ~> (~retryPending \/ loop # "select")

\* A process that ended is noticed: its job does not stay running, unless the runner stops.
ExitNoticed ==
  (job.state = "running" /\ procs # <<>> /\ LastProc # "running")
    ~> (job.state # "running" \/ LastProc = "running" \/ loop # "select")

(***************************************************************************)
(* What comments of the code say and the code does not do: each is checked *)
(* by a run that finds it violated.                                        *)
(***************************************************************************)
\* job_runner.go:911: the channel of WaitForResult "will be closed when the job completes".
WaitEndsWithJob ==
  \A c \in Clients :
    calls[c].st = "answered" /\ calls[c].typ = "waitForResult" /\ calls[c].err = "nil"
      => IsTerminal(job) /\ ~RetryInFlight

\* hypervisor.go:807: the resume poller handles parked jobs "on its normal schedule"; it
\* wakes them one after the other, so the call it is in must return.
CreatorReleased == (calls[Creator].st \in {"idle", "waiting"}) ~> (calls[Creator].st = "returned")

\* hypervisor.go:806: an interrupted job without checkpoint is retried "if policy allows".
InterruptedJobStarts == calls[Creator].typ = "start" => calls[Creator].err # "state"
=============================================================================
