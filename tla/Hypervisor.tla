----------------------------- MODULE Hypervisor -----------------------------
(***************************************************************************)
(* The hypervisor (hypervisor/hypervisor.go): the runners map, the rows of *)
(* the jobs table, RecoverState, the resume poller, eviction, and a crash  *)
(* at any moment.  A job goes through several runners, one per start,      *)
(* wake-up or delayed retry.                                               *)
(*                                                                         *)
(* JobRunner models one runner in detail.  Here a runner is reduced to the *)
(* order in which a handler acts on the container and on the row, one      *)
(* operation a step, so that a crash, the poller and other callers come    *)
(* between any two of them.  Left to JobRunner: locks, result waiters,     *)
(* lost writes, immediate retries (the policy here has a delay), Stop and  *)
(* Cancel.  The runtime is podman, the only one main.go registers: a       *)
(* container bears the name of its job and outlives the hypervisor.        *)
(*                                                                         *)
(* New starts the HTTP servers and the poller before main.go calls         *)
(* RecoverState.  The module assumes that no call and no round comes       *)
(* before RecoverState has read the rows (Open).  A checkpoint file, once  *)
(* written, is not lost.                                                   *)
(***************************************************************************)
EXTENDS Jobs, Sequences, FiniteSets

CONSTANTS
  JobIds,      \* the jobs that may be spawned
  Clients,     \* goroutines of the caller and runtime APIs
  Poller,      \* the goroutine of startResumePoller
  Recovery,    \* the goroutine of RecoverState
  None,        \* no caller, no job, no token
  Tokens,      \* checkpoint idempotency tokens
  MaxRetries,  \* RetryPolicy.MaxRetries of the job definition
  Commands,    \* the commands clients may send
  MaxCalls,    \* bound: commands clients send in a behaviour
  MaxCrashes,  \* bound: crashes of the hypervisor in a behaviour
  Faults       \* which restores may fail: those of a wake-up, those of a retry

Callers == Clients \cup {Poller, Recovery}

ASSUME HypervisorAssumption ==
  /\ Poller \notin Clients /\ Recovery \notin Clients /\ Poller # Recovery
  /\ None \notin Callers \cup JobIds \cup Tokens
  /\ MaxRetries \in Nat /\ MaxCalls \in Nat /\ MaxCrashes \in Nat
  /\ Commands \subseteq {"suspend", "snapshot", "kill", "exit"}
  /\ Faults \subseteq {"wake", "retry"}

VARIABLES
  table,       \* ids with a row in the jobs table
  rows,        \* the row of each
  container,   \* podman's container of each job
  defined,     \* the job definition is registered
  stage,       \* whether RecoverState has read the rows
  found,       \* rows RecoverState has read and not handled yet
  due,         \* rows the poller has read and not handled yet
  runners,     \* the runners made since the hypervisor started
  inMap,       \* h.runners: the index of a job's runner, 0 when there is none
  calls,       \* what each caller is doing
  gaveUp,      \* auxiliary: jobs whose suspending caller left before the reply
  made,        \* bound: commands sent so far
  crashes      \* bound: crashes so far

db == <<table, rows, defined>>
reads == <<stage, found, due>>
bounds == <<made, crashes>>
vars == <<db, container, reads, runners, inMap, calls, gaveUp, bounds>>

-----------------------------------------------------------------------------
(***************************************************************************)
(* Runners and calls.                                                      *)
(***************************************************************************)
\* What a handler does to the container and to the row.
Ops == {"create", "restore", "suspend", "snapshot", "stop", "remove",
        "saveStarted", "saveRunning", "saveCount", "saveCheckpointed",
        "savePendingRetry", "saveCompleted"}

\* todo: what the handler in progress still has to do, for the caller from, who will
\* be answered ok or not.  watched: waitForProcessExit waits for the container.
\* evictor: the goroutine that waits for Done has been started.
Runner ==
  [job : JobIds, state : JobStates, retries : Nat, resumeAt : BOOLEAN, result : Results,
   checkpoint : BOOLEAN, tokens : SUBSET Tokens, process : BOOLEAN, watched : BOOLEAN,
   loop : {"on", "done"}, todo : Seq(Ops), from : Callers \cup {None}, ok : BOOLEAN,
   evictor : BOOLEAN]

\* A call: its job has a row but no runner yet (Spawn), its command is on its way to a
\* runner, is being handled, has been answered with a copy of the job in state seen.
Call == [pc : {"idle", "inserted", "sent", "handling", "answered"},
         op : {"none", "start", "wake", "retry", "suspend", "snapshot", "kill", "exit"},
         job : JobIds \cup {None}, runner : Nat, token : Tokens \cup {None},
         ok : BOOLEAN, seen : JobStates]

AtRest == [pc |-> "idle", op |-> "none", job |-> None, runner |-> 0, token |-> None,
           ok |-> TRUE, seen |-> "pending"]

Idle(c) == calls[c].pc = "idle"

Found == [id : JobIds, row : Row]

Init ==
  /\ table = {} /\ rows = [j \in JobIds |-> InsertJob] /\ defined = TRUE
  /\ container = [j \in JobIds |-> "none"]
  /\ stage = "starting" /\ found = {} /\ due = {}
  /\ runners = <<>> /\ inMap = [j \in JobIds |-> 0]
  /\ calls = [c \in Callers |-> AtRest]
  /\ gaveUp = {} /\ made = 0 /\ crashes = 0

\* The job is loaded from the row; wakeJob and retryJob set the state their command
\* needs, and the checkpoint.
NewJobRunner(op, j, row) ==
  [job |-> j,
   state |-> CASE op = "wake" -> "suspended" [] op = "retry" -> "failed" [] OTHER -> row.state,
   retries |-> row.retryCount, resumeAt |-> row.resumeAt, result |-> row.result,
   checkpoint |-> op \in {"wake", "retry"} /\ row.checkpointPath,
   tokens |-> {}, process |-> FALSE, watched |-> FALSE, loop |-> "on",
   todo |-> <<>>, from |-> None, ok |-> TRUE, evictor |-> FALSE]

\* A creator puts the runner in the map and then sends its command.
MakeRunner(c, op, j, row) ==
  /\ runners' = Append(runners, NewJobRunner(op, j, row))
  /\ inMap' = [inMap EXCEPT ![j] = Len(runners) + 1]
  /\ calls' = [calls EXCEPT ![c] = [AtRest EXCEPT !.pc = "sent", !.op = op, !.job = j,
                                                  !.runner = Len(runners) + 1]]

-----------------------------------------------------------------------------
(***************************************************************************)
(* commandLoop: a runner with nothing to do takes the command of some      *)
(* caller that has sent it one, then does its operations one by one.       *)
(***************************************************************************)
Ready(r) == runners[r].loop = "on" /\ runners[r].todo = <<>>

\* Variant: the loop goes on when the job is terminal.
EndedForRetry(q) == IF q.state = "pending_retry" THEN [q EXCEPT !.loop = "done"] ELSE q

\* The loop ends after a command that leaves the job terminal or waiting for a retry.
Ended(q) == IF q.state \in Terminal \cup {"pending_retry"} THEN [q EXCEPT !.loop = "done"] ELSE q

\* Runner r becomes q; with nothing left to do it answers its caller.
Advance(r, q) ==
  IF q.todo # <<>>
  THEN /\ runners' = [runners EXCEPT ![r] = q]
       /\ calls' = [c \in Callers |->
                      IF c = q.from THEN [calls[c] EXCEPT !.pc = "handling"] ELSE calls[c]]
  ELSE /\ runners' = [runners EXCEPT ![r] = [Ended(q) EXCEPT !.from = None, !.ok = TRUE]]
       /\ calls' = [c \in Callers |->
                      IF c = q.from
                      THEN [calls[c] EXCEPT !.pc = "answered", !.ok = q.ok, !.seen = q.state]
                      ELSE calls[c]]

\* How a handler begins: what it has to do, and what it changes in the job at once.
Refused(q) == [q EXCEPT !.ok = FALSE]

HandleStart(q) ==
  IF q.state = "pending" THEN [q EXCEPT !.todo = <<"create", "saveStarted">>] ELSE Refused(q)

\* Variant: the job is restored before the row says that it runs.
HandleWakeLate(q) ==
  IF q.state = "suspended"
  THEN [q EXCEPT !.state = "running", !.resumeAt = FALSE, !.todo = <<"restore", "saveRunning">>]
  ELSE Refused(q)

\* Variant: the row still says suspended after the wake-up.
HandleWakeUnsaved(q) ==
  IF q.state = "suspended"
  THEN [q EXCEPT !.state = "running", !.resumeAt = FALSE, !.todo = <<"restore">>]
  ELSE Refused(q)

HandleWake(q) ==
  IF q.state = "suspended"
  THEN [q EXCEPT !.state = "running", !.resumeAt = FALSE, !.todo = <<"saveRunning", "restore">>]
  ELSE Refused(q)

HandleRetry(q) ==
  IF q.state \notin {"failed", "pending_retry"} THEN Refused(q)
  ELSE [q EXCEPT !.retries = @ + 1, !.result = "nil",
                 !.todo = <<"saveCount", IF q.checkpoint THEN "restore" ELSE "create",
                            "saveStarted">>]

HandleCheckpoint(q, op, token) ==
  IF token \in q.tokens THEN q
  ELSE IF q.state # "running" THEN Refused(q)
  ELSE [q EXCEPT !.todo = <<op, "saveCheckpointed">>]

HandleKill(q) ==
  IF q.state \notin {"running", "suspended"} THEN Refused(q)
  ELSE IF q.process THEN [q EXCEPT !.todo = <<"stop", "saveCompleted">>]
  ELSE [q EXCEPT !.state = "failed", !.todo = <<"saveCompleted">>]

HandleExit(q, code) ==
  IF q.state # "running" THEN Refused(q)
  ELSE [q EXCEPT !.state = IF code = "zero" THEN "completed" ELSE "failed",
                 !.result = code, !.todo = <<"saveCompleted">>]

Handled(call, q) ==
  CASE call.op = "start" -> {HandleStart(q)}
    [] call.op = "wake" -> {HandleWake(q)}
    [] call.op = "retry" -> {HandleRetry(q)}
    [] call.op \in {"suspend", "snapshot"} -> {HandleCheckpoint(q, call.op, call.token)}
    [] call.op = "kill" -> {HandleKill(q)}
    [] call.op = "exit" -> {HandleExit(q, code) : code \in {"zero", "nonzero"}}

\* handleCheckpoint uses the process without a test: a runner whose job is running and
\* that has started nothing panics, and the hypervisor with it.
Panics(c) ==
  /\ calls[c].pc = "sent" /\ calls[c].op \in {"suspend", "snapshot"}
  /\ Ready(calls[c].runner)
  /\ runners[calls[c].runner].state = "running" /\ ~runners[calls[c].runner].process

Take(c) ==
  LET r == calls[c].runner IN
  /\ calls[c].pc = "sent" /\ Ready(r) /\ ~Panics(c)
  /\ \E q \in Handled(calls[c], runners[r]) : Advance(r, [q EXCEPT !.from = c])
  /\ UNCHANGED <<db, container, reads, inMap, gaveUp, bounds>>

\* A command sent to a runner whose loop has ended is answered by the drain or by
\* doneChan.  The raw sends of wakeJob and retryJob do not look at doneChan: they may
\* wait for ever, so nothing makes this step happen for them.
Stopped(c) ==
  /\ calls[c].pc = "sent" /\ runners[calls[c].runner].loop = "done"
  /\ calls' = [calls EXCEPT ![c].pc = "answered", ![c].ok = FALSE,
                            ![c].seen = runners[calls[c].runner].state]
  /\ UNCHANGED <<db, container, reads, runners, inMap, gaveUp, bounds>>

-----------------------------------------------------------------------------
(***************************************************************************)
(* The operations of a handler.  Each yields the runner, and the           *)
(* containers or the row it changes.                                       *)
(***************************************************************************)
\* A start or a restore that fails: the handler ends; only the failure of a restore in
\* a retry is not written to the row.
Fails(q) ==
  [q EXCEPT !.state = "failed", !.ok = FALSE,
            !.todo = IF q.todo = <<"restore", "saveStarted">> THEN <<>> ELSE <<"saveCompleted">>]

Begins(q) == [q EXCEPT !.state = "running", !.process = TRUE, !.watched = TRUE, !.todo = Tail(@)]

\* podman run: the name must be free.
Create(r, q) ==
  /\ Head(q.todo) = "create"
  /\ IF container[q.job] = "none"
     THEN /\ container' = [container EXCEPT ![q.job] = "running"]
          /\ Advance(r, Begins(q))
     ELSE Advance(r, Fails(q)) /\ UNCHANGED container

\* Restore removes the job's container, and prunes every container that has exited,
\* whoever's it is; a failed restore leaves none.
Restore(r, q) ==
  LET kind == IF Len(q.todo) = 1 THEN "wake" ELSE "retry"
      pruned == [j \in JobIds |-> IF container[j] = "exited" THEN "none" ELSE container[j]] IN
  /\ Head(q.todo) = "restore"
  /\ \E fails \in {FALSE} \cup {TRUE : f \in Faults \cap {kind}} :
       /\ container' = [pruned EXCEPT ![q.job] = IF fails THEN "none" ELSE "running"]
       /\ Advance(r, IF fails THEN Fails(q) ELSE [Begins(q) EXCEPT !.resumeAt = FALSE])

\* podman container checkpoint; a suspended job's container is removed.  What
\* waitForProcessExit then reports finds the job suspended and changes nothing.
Checkpoint(r, q) ==
  /\ Head(q.todo) \in {"suspend", "snapshot"}
  /\ IF container[q.job] # "running"
     THEN /\ Advance(r, [q EXCEPT !.ok = FALSE, !.resumeAt = FALSE, !.todo = <<>>])
          /\ UNCHANGED container
     ELSE /\ container' = [container EXCEPT ![q.job] = IF Head(q.todo) = "suspend"
                                                       THEN "none" ELSE @]
          /\ Advance(r, [q EXCEPT !.tokens = @ \cup {calls[q.from].token}, !.checkpoint = TRUE,
                                  !.state = IF Head(q.todo) = "suspend" THEN "suspended" ELSE @,
                                  !.resumeAt = @ \/ Head(q.todo) = "suspend",
                                  !.watched = @ /\ Head(q.todo) # "suspend",
                                  !.todo = Tail(@)])

\* Kill: podman stop, which fails when there is no container.  A restored container has
\* the id it had before, so the handle of an earlier runner stops it too.
Stop(r, q) ==
  /\ Head(q.todo) = "stop"
  /\ IF container[q.job] = "none"
     THEN Advance(r, [q EXCEPT !.ok = FALSE, !.todo = <<>>]) /\ UNCHANGED container
     ELSE /\ container' = [container EXCEPT ![q.job] = "exited"]
          /\ Advance(r, [q EXCEPT !.state = "failed", !.todo = Tail(@)])

\* Cleanup: podman rm -f.
Remove(r, q) ==
  /\ Head(q.todo) = "remove"
  /\ container' = [container EXCEPT ![q.job] = "none"]
  /\ Advance(r, [q EXCEPT !.todo = Tail(@)])

Persist(op, q, row) ==
  CASE op = "saveStarted" -> UpdateJobStarted(row)
    [] op = "saveRunning" -> UpdateJobState(row, "running")
    [] op = "saveCount" -> UpdateJobRetryCount(row, q.retries)
    [] op = "saveCheckpointed" -> UpdateJobCheckpointed(row, q.state, q.resumeAt)
    [] op = "savePendingRetry" -> UpdateJobPendingRetry(row)
    [] op = "saveCompleted" -> UpdateJobCompleted(row, q.state, q.result)

Save(r, q) ==
  /\ Head(q.todo) \in {"saveStarted", "saveRunning", "saveCount", "saveCheckpointed",
                       "savePendingRetry", "saveCompleted"}
  /\ rows' = [rows EXCEPT ![q.job] = Persist(Head(q.todo), q, @)]
  /\ Advance(r, [q EXCEPT !.todo = Tail(@)])

Step(r) ==
  LET q == runners[r] IN
  /\ q.todo # <<>>
  /\ \/ Create(r, q) /\ UNCHANGED rows
     \/ Restore(r, q) /\ UNCHANGED rows
     \/ Checkpoint(r, q) /\ UNCHANGED rows
     \/ Stop(r, q) /\ UNCHANGED rows
     \/ Remove(r, q) /\ UNCHANGED rows
     \/ Save(r, q) /\ UNCHANGED container
  /\ UNCHANGED <<table, defined, reads, inMap, gaveUp, bounds>>

\* The job's process ends by itself.
ContainerEnds(j) ==
  /\ container[j] = "running"
  /\ container' = [container EXCEPT ![j] = "exited"]
  /\ UNCHANGED <<db, reads, runners, inMap, calls, gaveUp, bounds>>

\* handleProcessExited: podman wait has returned the exit code, or an error when the
\* container is gone.
ProcessExited(q, exit) ==
  LET failed == IF exit = "nonzero" THEN [q EXCEPT !.state = "failed", !.result = "nonzero"]
                                    ELSE [q EXCEPT !.state = "failed"] IN
  IF exit = "zero"
  THEN [q EXCEPT !.state = "completed", !.result = IF @ = "nil" THEN "zero" ELSE @,
                 !.todo = <<"remove", "saveCompleted">>]
  ELSE IF ShouldRetry([retryCount |-> q.retries], MaxRetries)
  THEN [failed EXCEPT !.state = "pending_retry", !.resumeAt = TRUE,
                      !.todo = <<"remove", "savePendingRetry">>]
  ELSE [failed EXCEPT !.todo = <<"remove", "saveCompleted">>]

Notice(r) ==
  /\ Ready(r) /\ runners[r].watched /\ container[runners[r].job] # "running"
  /\ \E exit \in IF container[runners[r].job] = "none" THEN {"error"} ELSE {"zero", "nonzero"} :
       Advance(r, [ProcessExited(runners[r], exit) EXCEPT !.watched = FALSE])
  /\ UNCHANGED <<db, container, reads, inMap, gaveUp, bounds>>

-----------------------------------------------------------------------------
(***************************************************************************)
(* Callers of the two APIs.                                                *)
(***************************************************************************)
Open == stage = "recovering"

\* Spawn: the row is inserted, then the runner is made and started.
Spawn(c, j) ==
  /\ Open /\ Idle(c) /\ defined /\ j \notin table
  /\ table' = table \cup {j} /\ rows' = [rows EXCEPT ![j] = InsertJob]
  /\ calls' = [calls EXCEPT ![c] = [AtRest EXCEPT !.pc = "inserted", !.op = "start", !.job = j]]
  /\ UNCHANGED <<defined, container, reads, runners, inMap, gaveUp, bounds>>

SpawnRunner(c) ==
  /\ calls[c].pc = "inserted"
  /\ MakeRunner(c, "start", calls[c].job, InsertJob)
  /\ UNCHANGED <<db, container, reads, gaveUp, bounds>>

\* CheckpointJob, KillJob, Exit: the runner is looked up once; by the time it gets the
\* command it may have been evicted.
SendCommand(c, j, op, token) ==
  /\ Open /\ Idle(c) /\ inMap[j] # 0 /\ made < MaxCalls
  /\ calls' = [calls EXCEPT ![c] = [AtRest EXCEPT !.pc = "sent", !.op = op, !.job = j,
                                                  !.runner = inMap[j], !.token = token]]
  /\ made' = made + 1
  /\ UNCHANGED <<db, container, reads, runners, inMap, gaveUp, crashes>>

\* The 30 seconds of CheckpointJob's context are over while the suspension is being
\* written: it returns the error, and evicts nothing.
GiveUp(c) ==
  LET r == calls[c].runner IN
  /\ calls[c].pc = "handling" /\ calls[c].op = "suspend"
  /\ Head(runners[r].todo) = "saveCheckpointed"
  /\ runners' = [runners EXCEPT ![r].from = None]
  /\ calls' = [calls EXCEPT ![c] = AtRest]
  /\ gaveUp' = gaveUp \cup {runners[r].job}
  /\ UNCHANGED <<db, container, reads, inMap, bounds>>

UnregisterJobDefinition ==
  /\ Open /\ defined
  /\ defined' = FALSE
  /\ UNCHANGED <<table, rows, container, reads, runners, inMap, calls, gaveUp, bounds>>

-----------------------------------------------------------------------------
(***************************************************************************)
(* Eviction, by job id: whatever runner the map holds is removed.          *)
(***************************************************************************)
\* Variant: a job waiting for a retry is kept in the map.
EvictableExceptRetries(state) == state \in Terminal \cup {"suspended"}

\* maybeEvictJob's cases; a suspended job has a time to resume at.
Evictable(state) == state \in Terminal \cup {"suspended", "pending_retry"}

Evict(j) == inMap' = [inMap EXCEPT ![j] = 0]

\* What the caller does with the reply: CheckpointJob evicts a suspended job; a creator
\* starts the eviction goroutine, or takes the runner it made out of the map (wakeJob
\* and retryJob also cancel it).
Conclude(c) ==
  LET call == calls[c]  r == calls[c].runner IN
  /\ call.pc = "answered"
  /\ calls' = [calls EXCEPT ![c] = AtRest]
  /\ CASE call.op \in {"suspend", "snapshot"} /\ call.ok /\ Evictable(call.seen) ->
            Evict(call.job) /\ UNCHANGED runners
       [] call.op \in {"start", "wake", "retry"} /\ call.ok ->
            runners' = [runners EXCEPT ![r].evictor = TRUE] /\ UNCHANGED inMap
       [] call.op \in {"start", "wake", "retry"} /\ ~call.ok ->
            /\ Evict(call.job)
            /\ runners' = [runners EXCEPT ![r].loop = IF call.op = "start" THEN @ ELSE "done"]
       [] OTHER -> UNCHANGED <<runners, inMap>>
  /\ UNCHANGED <<db, container, reads, gaveUp, bounds>>

\* The goroutine that waits for Done.
EvictDone(r) ==
  /\ runners[r].evictor /\ runners[r].loop = "done"
  /\ runners' = [runners EXCEPT ![r].evictor = FALSE]
  /\ IF Evictable(runners[r].state) THEN Evict(runners[r].job) ELSE UNCHANGED inMap
  /\ UNCHANGED <<db, container, reads, calls, gaveUp, bounds>>

-----------------------------------------------------------------------------
(***************************************************************************)
(* The resume poller and recovery.                                         *)
(***************************************************************************)
Parked(row) == row.state \in {"suspended", "pending_retry"} /\ row.resumeAt

\* GetJobsToResume; any time to resume at may have passed.
Round ==
  /\ Open /\ Idle(Poller) /\ due = {}
  /\ \E S \in SUBSET {j \in table : Parked(rows[j])} :
       S # {} /\ due' = {[id |-> j, row |-> rows[j]] : j \in S}
  /\ UNCHANGED <<db, container, stage, found, runners, inMap, calls, gaveUp, bounds>>

\* wakeJob: without definition or checkpoint the row is left as it is.
WakeJob(c, d) ==
  IF defined /\ d.row.checkpointPath THEN MakeRunner(c, "wake", d.id, d.row)
                                     ELSE UNCHANGED <<runners, inMap, calls>>

markJobAsFailed(d) == rows' = [rows EXCEPT ![d.id] = UpdateJobCompleted(@, "failed", "nil")]

\* retryJob and restartPendingJob: without definition the job has failed.
MakeOrFail(c, op, d) ==
  IF defined THEN MakeRunner(c, op, d.id, d.row) /\ UNCHANGED rows
             ELSE markJobAsFailed(d) /\ UNCHANGED <<runners, inMap, calls>>

\* One turn of resumeReadyJobs.
resumeReadyJob(d) ==
  /\ Idle(Poller) /\ due' = due \ {d}
  /\ CASE inMap[d.id] # 0 -> UNCHANGED <<rows, runners, inMap, calls>>
       [] inMap[d.id] = 0 /\ d.row.state = "suspended" -> WakeJob(Poller, d) /\ UNCHANGED rows
       [] inMap[d.id] = 0 /\ d.row.state = "pending_retry" -> MakeOrFail(Poller, "retry", d)
  /\ UNCHANGED <<table, defined, container, stage, found, gaveUp, bounds>>

\* Variant: only interrupted jobs are recovered.
ReadRunningRows ==
  /\ stage = "starting"
  /\ stage' = "recovering"
  /\ found' = {[id |-> j, row |-> rows[j]] : j \in {i \in table : rows[i].state = "running"}}
  /\ UNCHANGED <<db, container, due, runners, inMap, calls, gaveUp, bounds>>

\* GetNonTerminalJobs.
ReadRows ==
  /\ stage = "starting"
  /\ stage' = "recovering"
  /\ found' = {[id |-> j, row |-> rows[j]] : j \in {i \in table : rows[i].state \notin Terminal}}
  /\ UNCHANGED <<db, container, due, runners, inMap, calls, gaveUp, bounds>>

\* recoverRunningJob: restored from its checkpoint; else restarted when the policy
\* leaves a retry.
recoverRunningJob(d) ==
  CASE d.row.checkpointPath -> WakeJob(Recovery, d) /\ UNCHANGED rows
    [] ~d.row.checkpointPath /\ (~defined \/ ~ShouldRetry(d.row, MaxRetries)) ->
         markJobAsFailed(d) /\ UNCHANGED <<runners, inMap, calls>>
    [] ~d.row.checkpointPath /\ defined /\ ShouldRetry(d.row, MaxRetries) ->
         MakeOrFail(Recovery, "start", d)

\* One turn of recoverJobs.
recoverJob(d) ==
  /\ Idle(Recovery) /\ found' = found \ {d}
  /\ CASE d.row.state = "running" -> recoverRunningJob(d)
       [] d.row.state = "pending" -> MakeOrFail(Recovery, "start", d)
       [] OTHER -> UNCHANGED <<rows, runners, inMap, calls>>
  /\ UNCHANGED <<table, defined, container, stage, due, gaveUp, bounds>>

\* Variant: the runners map survives.
CrashKeepsMap ==
  /\ crashes < MaxCrashes
  /\ crashes' = crashes + 1
  /\ stage' = "starting" /\ found' = {} /\ due' = {}
  /\ runners' = <<>> /\ UNCHANGED inMap
  /\ calls' = [c \in Callers |-> AtRest]
  /\ gaveUp' = {}
  /\ UNCHANGED <<db, container, made>>

\* Everything in memory is lost; the rows and the containers stay.
Crash ==
  /\ crashes < MaxCrashes \/ \E c \in Clients : Panics(c)
  /\ crashes' = IF crashes < MaxCrashes THEN crashes + 1 ELSE crashes
  /\ stage' = "starting" /\ found' = {} /\ due' = {}
  /\ runners' = <<>> /\ inMap' = [j \in JobIds |-> 0]
  /\ calls' = [c \in Callers |-> AtRest]
  /\ gaveUp' = {}
  /\ UNCHANGED <<db, container, made>>

-----------------------------------------------------------------------------
Requests ==
  {<<op, None>> : op \in Commands \cap {"kill", "exit"}}
    \cup ((Commands \cap {"suspend", "snapshot"}) \X Tokens)

Next ==
  \/ \E c \in Callers : Take(c) \/ Stopped(c) \/ Conclude(c)
  \/ \E r \in DOMAIN runners : Step(r) \/ Notice(r) \/ EvictDone(r)
  \/ \E j \in JobIds : ContainerEnds(j)
  \/ \E c \in Clients : \/ \E j \in JobIds : Spawn(c, j)
                        \/ SpawnRunner(c)
                        \/ GiveUp(c)
                        \/ \E j \in JobIds : \E m \in Requests : SendCommand(c, j, m[1], m[2])
  \/ UnregisterJobDefinition
  \/ Round
  \/ \E d \in due : resumeReadyJob(d)
  \/ ReadRows
  \/ \E d \in found : recoverJob(d)
  \/ Crash

Spec == Init /\ [][Next]_vars

\* What the code schedules.  A runner's handler goes on, an idle runner takes a queued
\* command, a caller handles its reply, the ticker fires, recovery runs to its end.
\* Nothing is assumed of clients, of the containers or of the raw sends to a runner
\* that is done.
Fairness ==
  /\ WF_vars(\E r \in DOMAIN runners : Step(r))
  /\ WF_vars(\E r \in DOMAIN runners : EvictDone(r))
  /\ WF_vars(\E c \in Callers : Take(c))
  /\ WF_vars(\E c \in Callers : Conclude(c))
  /\ WF_vars(\E c \in Clients : SpawnRunner(c))
  /\ WF_vars(\E c \in Clients : Stopped(c))
  /\ WF_vars(Round)
  /\ WF_vars(\E d \in due : resumeReadyJob(d))
  /\ WF_vars(ReadRows)
  /\ WF_vars(\E d \in found : recoverJob(d))

FairSpec == Spec /\ Fairness

-----------------------------------------------------------------------------
(***************************************************************************)
(* Properties.                                                             *)
(***************************************************************************)
\* Every variable has the values the code can give it.
TypeOK ==
  /\ table \subseteq JobIds /\ rows \in [JobIds -> Row] /\ defined \in BOOLEAN
  /\ container \in [JobIds -> {"none", "running", "exited"}]
  /\ stage \in {"starting", "recovering"} /\ found \subseteq Found /\ due \subseteq Found
  /\ \A r \in DOMAIN runners : runners[r] \in Runner
  /\ inMap \in [JobIds -> 0..Len(runners)]
  /\ calls \in [Callers -> Call]
  /\ gaveUp \subseteq JobIds /\ made \in 0..MaxCalls /\ crashes \in 0..MaxCrashes

RunnersOf(j) == {r \in DOMAIN runners : runners[r].job = j}

\* Nobody but the current runner believes that it runs the job: whatever the order of
\* checkpoints, evictions, poller rounds and recovery, two runners of one job are
\* never both in state running with their loop on (they would both watch one
\* container, and both write the row).
OneRunning ==
  \A j \in JobIds : \A r, s \in RunnersOf(j) :
    /\ runners[r].loop = "on" /\ runners[r].state = "running"
    /\ runners[s].loop = "on" /\ runners[s].state = "running"
    => r = s

\* A creator that waits for a reply that nobody will send: its runner was ended by
\* another command first (see the run poller_hang).
Stuck(c) == calls[c].pc = "sent" /\ runners[calls[c].runner].loop = "done"

\* Who will change the row of job j: RecoverState, a creator, a handler or the
\* goroutine watching the container, the poller (now, or after a pending eviction).
Attended(j) ==
  \/ stage = "starting" \/ \E d \in found : d.id = j
  \/ \E c \in Callers : calls[c].job = j /\ calls[c].op \in {"start", "wake", "retry"} /\ ~Stuck(c)
  \/ \E r \in RunnersOf(j) :
       runners[r].loop = "on" /\ (runners[r].todo # <<>> \/ runners[r].watched)
  \/ /\ Parked(rows[j])
     /\ rows[j].state = "suspended" => rows[j].checkpointPath
     /\ \/ inMap[j] = 0
        \/ \E r \in RunnersOf(j) : runners[r].evictor /\ runners[r].loop = "done"
        \/ \E c \in Clients : /\ calls[c].job = j /\ calls[c].op = "suspend"
                              /\ calls[c].pc = "answered" /\ calls[c].ok

\* Jobs the code leaves behind, each for a known reason: the creator is stuck; the
\* caller of the suspension left and nobody evicts the runner; the job was interrupted
\* by a crash, and has no checkpoint (its restart is refused, see the run interrupted)
\* or no definition any more.
LeftBehind(j) ==
  \/ \E c \in Callers : calls[c].job = j /\ Stuck(c)
  \/ j \in gaveUp
  \/ /\ crashes > 0 /\ rows[j].state = "running"
     /\ ~rows[j].checkpointPath \/ ~defined

\* A job whose row is not final is never forgotten: in every state, after any crash
\* between an operation on the container and the write that reports it, somebody is
\* going to move it on, except for the known reasons.
NoJobForgotten ==
  \A j \in table : rows[j].state \notin Terminal => Attended(j) \/ LeftBehind(j)

\* A suspended job's container does not run: the row says so only after the container
\* is gone, and no longer does when the restore begins.
SuspendedIsStopped == \A j \in table : rows[j].state = "suspended" => container[j] # "running"

\* A final row stays final while the job has had only one runner.  (A kill through a
\* runner looked up before the job was suspended and woken again is written by the old
\* runner, and the new one then reports its own end.)
TerminalIsFinal ==
  [][\A j \in table : rows[j].state \in Terminal /\ rows'[j].state # rows[j].state
       => Cardinality(RunnersOf(j)) > 1]_vars

\* A job that waits for its start, for its time to resume or for its retry gets on: its
\* row changes state, across crashes, unless it is left behind for a known reason or a
\* stuck creator or a missing definition is in the way.
WaitingJobGetsOn ==
  \A j \in JobIds :
    (j \in table /\ (rows[j].state = "pending" \/ Parked(rows[j])))
      ~> \/ rows[j].state \in Terminal \cup {"running"}
         \/ LeftBehind(j) \/ ~defined \/ Stuck(Poller) \/ Stuck(Recovery)

\* What the token is for: "Idempotency token for retry after restore", so that a job
\* makes at most one checkpoint per token.
TokenOnce == \A j \in JobIds : rows[j].checkpointCount <= Cardinality(Tokens)

\* "MaxRetries is the maximum number of retry attempts", over all runners of the job.
RetryBudgetOverLives == \A j \in JobIds : rows[j].retryCount <= MaxRetries

=============================================================================
