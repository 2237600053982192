# Verification of the checker hypervisor

checker runs jobs (containers or micro-VMs) that checkpoint their memory, may be suspended for
a while, and are restored or retried after a failure or a crash of the hypervisor. This
directory holds TLA+ modules that model its core, configurations with which TLC checks them on
small instances, and proofs, checked by TLAPS, of what holds for every instance. Paths below are
relative to the repository's root.

## 1. Inventory

| Component | State | Operations | Modelled by |
|---|---|---|---|
| Job runner (`hypervisor/job_runner.go`) | the job, `cmdChan` (16 slots), process, checkpoint, tokens, locks, `retryPending`, result waiters, `doneChan`, a context | twelve commands handled one at a time, process watcher, immediate retry, drain, stop | `JobRunner` |
| Job state (`hypervisor/job.go`) | state, transient operation, counters, result, resume time | `IsTerminal` | `Jobs`, `JobLifecycle` |
| Jobs table (`queries/jobs.sql`) | one row per job | insert, six updates, four selects | `Jobs`; the selects in `Hypervisor` and `CallerAPI` |
| Database access (`utils/utils.go`, `query/`) | none | transactions with retries and timeouts | `Attempt` in `CallerAPI`, `Written` in `JobRunner` |
| Hypervisor (`hypervisor/hypervisor.go`) | runners map, runtimes, definitions, a context | spawn, calls passed to runners, eviction, recovery, resume poller, shutdown | `Hypervisor`; creation and shutdown of one runner also in `JobRunner` |
| Job definitions (`hypervisor/job_definition.go`) | definitions by name and version, latest version | register, unregister, get | `CallerAPI`; a policy is two constants of `JobRunner` |
| Podman runtime (`runtime/podman`) | containers, checkpoint files | start, restore, checkpoint, kill, wait, cleanup | `Hypervisor` by container name; effect and failures in `JobRunner` |
| Firecracker runtime (`runtime/firecracker`) | machines, TAP devices, snapshots | the same | `Firecracker`; effect and failures in `JobRunner` |
| APIs (`hypervisor/caller_api.go`, `runtime_api.go`) | none | HTTP requests | callers of `CallerAPI`, clients of `Hypervisor` and `JobRunner` |
| HTTP server, logging, migrations, demos, scripts | none of interest | | not modelled |

**Interaction.** An HTTP handler looks a runner up in the hypervisor's map and sends it a command
on a buffered channel, then waits for the reply, for the runner to be done, or for its context.
The runner's goroutine takes one command at a time; it calls the runtime and writes the row from
inside the handler. Two more goroutines send commands to it: one waits for the process it started,
one sends an immediate retry. A job that is suspended or waits for a delayed retry leaves memory;
every five seconds the resume poller reads the rows that are due and makes new runners for them,
bypassing the ordinary way of sending a command.

**What is hard here.** Commands of several callers, exits, retries and cancellation meet in one
queue in any order; the loop's end depends on two flags set by different goroutines; writes fail
silently after the in-memory state has changed; a context is the caller's for checkpoints and
kills, and the runner's for starts, restores and writes; the same job lives in several runners,
one after the other. `PROJECT.json` lists the hazards, each at its line.

**What makes the parts correct.** Runner: a retry is made once and within the policy's budget; an
exit is never taken for that of another process; nothing runs for a job that is over; a token is
worth one checkpoint; every call returns. Row: it follows the job, and a row that waits for the
poller can be resumed. Hypervisor: one runner at a time runs a job, no job is forgotten, every
parked job is resumed, across crashes. Caller API: what a caller was told of a definition holds,
the latest version is the greatest, a listing misses nothing. Firecracker: a running machine keeps
its device, and devices, machines and paused guests are left behind only in the ways that can be
named.

## 2. Modules

* `Jobs` - the states of a job, the record of a job and of a row, each SQL update as a function
  from rows to rows, `dbJobToJob`, the retry decision. A timestamp is whether it is set, a result
  whether its exit code is zero.
* `JobLifecycle` - the abstract specification: the moves between states a client of the hypervisor
  may see, with the numbers of retries and checkpoints. A failed job whose retry is due is
  `retrying`.
* `JobRunner` - one runner, from its creation to the end of its loop, with its row, its processes,
  its callers and the shutdown of the hypervisor.
* `Hypervisor` - several runners of a job over time, with the runners map, the rows, the
  containers, the clients, the poller, recovery and crashes. It uses `Jobs`.
* `CallerAPI` - definitions in the table and in the registry, inserts and listings, over a database
  that fails.
* `Firecracker` - machines and TAP devices of several executions.
* `MCJobRunner`, `MCCallerAPI`, `MCFirecracker` - symmetry and sets of constants, for TLC.
* `JobRunnerProofs` (types and retries), `ProcessProofs` (processes and their exits), `RowProofs`
  (the row), `LifecycleProofs` (checkpoints and the refinement of `JobLifecycle`) - theorems about
  `JobRunner`.
* `HypervisorProofs` (what a runner may never do to another), `AttendedProofs` (that no job is
  forgotten) - theorems about `Hypervisor`.
* `CallerAPIProofs`, `FirecrackerProofs` - theorems about these modules.

### JobRunner and the code

| Variable | Code |
|---|---|
| `job`, `checkpoint`, `tokens`, `locks`, `lockCounter`, `retryPending`, `waiters`, `cmdChan` | the fields of `JobRunner` |
| `row` | the job's row; `lag` (auxiliary) says why it may differ from the job: a state given by the creator, a lost write, a retry that is due, a failed restore |
| `procs`, `watching` | the processes the runtime started for this runner, the last one being `r.process`, and those whose `waitForProcessExit` has not returned |
| `retryGo` | the goroutine of an immediate retry has not sent it yet |
| `loop` | `select`, `draining`, `done` (`doneChan` closed), or `panicked` (nil `r.process`) |
| `cancelled`, `hv`, `delayed` | `r.ctx`, how far a shutdown is, whether the policy has a delay |
| `budget` (auxiliary) | how many retries the job may have had when this runner is done: the policy's maximum, or one more than the row had if the runner was made for a retry of a row at or past the maximum |
| `calls` | for each caller whether it has sent a command and got a reply |

A handler is one step: it runs to its end before the next command is taken, and nobody else reads
the runner's fields before `doneChan` is closed. It is modelled whole: the change of the job, what the runtime does,
the write with its possible failure, the reply, and the test at the end of the iteration that may
end the loop (`Settle`). A caller blocked on a full channel has had no effect and is a caller that
has not called yet. Three branches no state reaches (collapsed checkpoint requests, a wake of a job
that is not suspended, a retry of one that has not failed) are left out, and `UnreachableBranches`
checks that they are not reached.

A client's call is `Call` (the send), then `Return`, `ReturnDone` (`doneChan`) or `Timeout` (its
context). After a timeout its command stays queued without a reader; a checkpoint or kill handled
then fails, its context being over. `CallDone` is a call on a runner that is done. The creator is
`Spawn` or recovery (a `start` through `sendCommand`) or `wakeJob`/`retryJob` (`CreatorSends`,
`CreatorReturns`, `CreatorGivesUp`: a plain send, a wait that does not look at `doneChan`).

The runtime is nondeterministic: a process may end at any time; `Wait` gives the exit code of one
that ended, or an error when its context is cancelled, the process is gone, or the runtime fails;
`Checkpoint` may stop the process and still fail; `Restore` may or may not remove what is left of
earlier processes (podman does, firecracker does not); a fresh start fails when a container of the
same name is left over. `Faults` says which of the failures a run admits.

A runner is made from any row its creator accepts (`InitialRows`): one for a wake-up or a delayed
retry may have any number of retries behind it (`PastRetries`), also the maximum and more, because
`retryJob` does not test it and a retry that failed to restore leaves its row waiting (finding 4);
only recovery of an interrupted job without a checkpoint tests it.

### Hypervisor and the code

| Variable | Code |
|---|---|
| `table`, `rows` | the ids with a row, and the rows (`Jobs`) |
| `container` | podman's container of the job's name: none, running, exited |
| `runners`, `inMap` | the `JobRunner`s made since the start, and which of them `h.runners` holds |
| `stage`, `found` | whether `RecoverState` has read the rows, and the rows it has not handled |
| `due` | the rows `resumeReadyJobs` has read and not handled |
| `calls` | the clients, the poller and recovery: what command they sent to which runner, and the reply |
| `defined` | the definition is registered |

A handler is not one step here: `HandleWake` and the others say what it changes at once and which
operations follow (`todo`), and `Step` does one of them: an operation on the container (`Create`,
`Restore`, `Checkpoint`, `Stop`, `Remove`) or a write (`Save`). A crash, the poller, an eviction or
another caller comes between any two. A caller looks the runner up once (`SendCommand`) and may hold
one that has been evicted; eviction (`Conclude`, `EvictDone`) is by job id, so it removes whatever
runner is in the map. `Crash` empties everything in memory, and happens by itself when a checkpoint
reaches a runner whose job is running and that has no process (`Panics`).

It is a reduction of `JobRunner`, not a composition with it: locks, waiters, lost writes, immediate
retries and shutdown are there. Assumed: no call and no poller round comes before `RecoverState` has
read the rows (`Open`; `New` starts both first, and five seconds are normally enough); a checkpoint
file is not lost; the retry policy has a delay; a start fails only on a name that is taken. Restores
fail as `Faults` says.

### CallerAPI and the code

`stored` is the `job_definitions` table, `definitions` and `latest` the registry, for one name;
`jobs` is the jobs table reduced to what `ListJobs` orders by. A write is `Define` or `Spawn`, then
attempts of `reliableExec` (`Attempt`: answered, lost after the commit, lost before it, permanent),
then `Finish`, which changes the registry. `Crash`, `ReadDefinitions`, `RegisterRecovered` and
`Recovered` are the loss of the registry and `recoverJobDefinitions`, with callers coming in
between, since the HTTP server is up before. `promised` (auxiliary) is what callers were told:
`Unknown` while a call is under way and after one that failed or was not alone. `StartListing` and
`ListJobs` are a caller that asks for page after page. Versions are numbers in the order of their
strings; an attempt that timed out has no effect later.

### Firecracker and the code

| Variable | Code |
|---|---|
| `taps`, `vms` | the host's devices, each with the machine it was made for; the machines in the order of their devices, with the device made for each (`tap`) and the one its guest is attached to (`nic`) |
| `phase` | what the runner of the execution is about: there is none, recovery has still to make one, it is to start or retry, to wake, or holds a machine |
| `work` | the step of the operation in progress and the local variables it needs |
| `saved` | the `tapDeviceName` of the checkpoint in the runner's memory |
| `row`, `recorded` | the state in the database, and whether it has the path of a snapshot |
| `snapshot` | the device named in the snapshot file |
| `leaky`, `undeleted`, `loose`, `cut` (auxiliary) | machines whose runner ended without `Cleanup`; whose device could not be deleted; left running by `Exit` or a crash; whose pause was not answered or whose resume failed |
| `contended`, `renamed` (auxiliary) | numbered names whose device was taken from another execution; executions whose checkpoint was reconstructed under another name than the one in their snapshot |

`wakeJob` and `retryJob` make a runner with a checkpoint reconstructed from the row, which it keeps,
name included, so that an immediate retry restores from it; without one `wakeJob` makes none and
`retryJob` starts from scratch. `Start` or `Restore` choose a name; `createTAPDevice`, `Launch` and
`Configure` do the rest of `startVM` or `Restore`, each of which may fail and then undoes what the
code undoes. A failure ends the runner (`Fails`): the row is final, but stays as it is when the
restore of a retry failed, so that the poller repeats it. The deletion of a device may fail wherever
it is called (`deleteTAPDevice`), and the caller goes on.

`Pause`, `Snapshot`, `KeepsRunning` and `Suspends` are `Checkpoint`, with the caller's context ending
at any time (`ContextEnds`). A pause may take effect and be reported as an error, after which nobody
resumes the guest. A restored machine is attached to the device its snapshot names, since
`snapshot/load` passes no other. `Cleanup` is called by `handleProcessExited` only, which also
decides whether the job is retried, and comes also for a machine that still runs (`Wait` gave up);
`Kill`, `Exit` and `Suspends` leave the device behind, as does `Stop`, the end of a runner that is
cancelled. `Crash` ends all runners and leaves the machines; recovery then starts, wakes or leaves
each job as its row says.

The ids of the executions share their first characters, as those of jobs made one after the other
do: each has one device name of its own and shares the numbered ones (1..99 in the code, 1..2
here). A killed machine is gone at once. Of the writes to the row only that of a checkpoint fails.

## 3. Runs

Deadlock is not checked: a runner that is done, a job that is suspended or over with nobody calling,
a machine nobody uses, really stop.

| Run | Instance | Shows |
|---|---|---|
| `commands` | `JobRunner`: 2 clients, all commands, spawn/wake/retry, no fault (2.7 M states) | `TypeOK`, `RetryOnce`, `ExitIsCurrent`, `UnreachableBranches`, `ProcessMatchesState`, `RowTracksJob`, `ResultMatchesState`, `CheckpointPerToken`, refinement of `JobLifecycle` |
| `faults` | `JobRunner`: 1 client, all births, immediate and delayed retries, rows at and below the maximum, everything may fail but the hypervisor stays up (6.2 M) | `RetryBudget`, `RowTracksJob`, `ParkedRowsResumable`, `CheckpointPerToken` |
| `shutdown` | `JobRunner`: 1 client, shutdown or close at any moment, restores and callers failing (4.9 M) | `RetryPendingIsInFlight`, `ExitIsCurrent`, `ProcessMatchesState`, refinement of `JobLifecycle` |
| `liveness` | `JobRunner`: 1 client, channel of one slot, shutdown at any moment | `CallsReturn`, `ResultDelivered`, `RetryMade`, `ExitNoticed` |
| `lives` | `Hypervisor`: 1 job, 2 clients with 2 commands between them, 1 token, 1 retry, 1 crash, wake-ups may fail (0.33 M) | `TypeOK`, `OneRunning`, `NoJobForgotten`, `SuspendedIsStopped`, `TerminalIsFinal`, `WaitingJobGetsOn` |
| `caller_api` | 2 callers, 2 versions, 2 bodies, 3 writes of 2 attempts, 1 crash, 2 old jobs and a new one, pages of one (2.0 M) | `TypeOK`, `LatestIsGreatest`, `PromiseKept`, `ListingComplete` |
| `firecracker` | 2 executions, 2 numbered names, 3 devices made, 1 crash (5.7 M) | `TypeOK`, `DeviceIntact`, `GuestOnItsDevice`, `OnlyKnownLeaks`, `NoOrphanMachine`, `PausedOnlyWhenCut` |
| `poller_hang` | `JobRunner`: wake/retry, kill and getState | violates `CreatorReleased` |
| `early_result` | `JobRunner`: spawn, waitForResult | violates `WaitEndsWithJob` |
| `interrupted` | `JobRunner`: an interrupted job without checkpoint | violates `InterruptedJobStarts` |
| `retry_forever` | `Hypervisor`: snapshots, restores of a retry may fail | violates `RetryBudgetOverLives` |
| `token_after_restore` | `Hypervisor`: a suspension repeated with its token | violates `TokenOnce` |

The properties name their exceptions, because the code has them. `RetryBudget` does not say that a
job is never retried more than `MaxRetries` times, which is false (`retry_forever`); it says what one
runner adds: up to the maximum, or the one retry it was made for. `NoJobForgotten`
lists what leaves a job behind (`LeftBehind`): a stuck creator, a suspension whose caller's context
ended before the reply (the runner stays in the map and the poller skips the job), a job interrupted
without a checkpoint or whose definition is gone. `TerminalIsFinal` is for jobs that have had one
runner: a kill through a runner looked up before a suspension is written by the old runner, stops
the restored container, and the new runner then writes its end. `DeviceIntact` excepts numbered
device names taken from another execution; it is about the device made for a machine, and
`GuestOnItsDevice` about whether its guest uses that one, which excepts executions whose checkpoint
was reconstructed from the row under another name than the one in their snapshot. `OnlyKnownLeaks` excepts the devices that could not
be deleted and those of machines that were suspended, killed, ended by `Exit`, cancelled or
interrupted; what is left of it is that every failed start or restore, and every exit that is
handled, tries to delete the device. `PausedOnlyWhenCut` excepts a pause that was not answered, a
resume that failed and a crash. What is outside these exceptions is checked, and a mutant breaks each.

**Bounds.** `ChanCap` is 1 or 2 where the code has 16: with at most four senders besides the
clients (creator, process watcher, retry, stop) a channel of 2 is full in many states and empty in
others, which is all the senders can tell; a larger one only postpones blocking. `MaxRetries = 1`
gives an attempt, a retry and an exhausted budget; `PastRetries = {0, 1}` rows below the maximum
and at it, and a retry of the latter goes past it. One token, repeated by the clients, shows
idempotency; the empty token is refused. `MaxLocks = 1` in `commands` bounds the counter of locks
and lets a checkpoint meet a held and a released one. Nothing else is bounded: the number of
processes follows from the number of retries. A second client is needed in `commands` for two
requests queued at once; in the other runs the creator, the exits, the retry and the stop already
compete with one client, and the faults multiply the states.

In `lives` two commands are what a stale call needs (one suspends, the other, sent before, comes to
the old or the new runner), two clients what a repeated token needs, and one crash per behaviour
what recovery handles at a time; the number of runners is not bounded, it follows. Two jobs interact
only through the poller, recovery and the prune of exited containers: the instance with two jobs, one
client and one command (5.9 M states) holds too, and is too long for a run. In `caller_api` three
writes give a call, one that overlaps it and one after; one retry an attempt lost and one repeated;
`MaxClock = 1` two creation times, with ties. In `firecracker` three devices are what two executions
and a restore or retry of one need, so that all names of one execution are taken; one crash shows
every step that is interrupted and what recovery makes of it.

**Fairness** (`liveness`, `poller_hang`). Weak fairness of the loop and of the callers' returns:
the Go scheduler runs what can run. Strong fairness of the sends on the channel (immediate retry,
exit of the process, creator): senders blocked on a channel are served first come, first served,
so one that can send again and again does. Nothing is assumed of clients, of processes ending, of
contexts timing out or of a shutdown, and the properties hold without: `CallsReturn` excludes a
wait for the result of a job that goes on.

In `lives` (`WaitingJobGetsOn`): weak fairness of a handler's steps, of the taking of a queued
command, of what a caller does with its reply, of the eviction goroutines, of the poller's ticker
and of its turns, and of recovery: each is a goroutine that can go on. Nothing is assumed of the
clients, of containers ending, of `Notice`, nor of the plain sends of `wakeJob` and `retryJob` to a
runner that is done: these may wait for ever (`poller_hang`), and the property excepts them.

**Findings.** Five statements of the code's comments and docs are not what the code does; each has
a run that ends in a counterexample, and an entry under `findings` in `PROJECT.json` with the lines.

1. `poller_hang`: the resume poller waits for ever for a runner that ended before it received the
   wake or retry command; no other parked job is resumed then.
2. `early_result`: a wait for the result is answered between a failure and its immediate retry.
3. `interrupted`: a job interrupted before its first checkpoint is not retried as the comment on
   recovery says, `handleStart` refuses it. (A checkpoint request for that job in the moment its
   runner is in the map finds a nil process: `loop = "panicked"`, `Panics`.)
4. `retry_forever`: a restore that fails during a delayed retry is not written to the database, and
   the poller repeats it without looking at the maximum. (`RetryBudget` of `JobRunner` counts what one
   runner adds: the retry it was made for and no other past the maximum.)
5. `token_after_restore`: the idempotency token of a checkpoint is forgotten when the job is woken in
   a new runner, which is when a worker repeats its request.

Three more statements differ from the code in a way the models contain and no run is spent on:

* `hypervisor/hypervisor.go:413` says that a checkpoint "Will block until all currently held locks
  are released". `handleCheckpoint` does not wait: with a lock held it answers with an error
  (`job_runner.go:383-388`), and so does the model.
* `runtime/runtime.go:54-55` says that `Cleanup` "releases any resources held by the process" and is
  "Called by the job runner after the process has exited". The only call is in
  `handleProcessExited` (`job_runner.go:308`), after the early returns for a job that is terminal or
  suspended: after a kill, a suspension, an `Exit` or a cancellation nobody calls it. These are the
  exceptions (`leaky`) of `OnlyKnownLeaks`.
* `runtime/firecracker/LINUX_SETUP.md:288` says of a restore that "The TAP device is recreated with
  the same name". It is for a checkpoint in memory (`runtime_linux.go:723`); one reconstructed from
  the row gets the first name that is free (`:816`), and since the suspended machine has left its
  device, that is another one, while `snapshot/load` (`:779-787`) passes none. This is the exception
  (`renamed`) of `GuestOnItsDevice`.

Every property of a passing run has a mutant, a variant of one definition as a plausible bug would
have it, under which TLC finds the property violated. The variants stand before the definitions
they replace.

## 4. Proofs

The theorems are about each module's `Spec`, for every value of its constants that meets the
module's named assumption: any clients, tokens, executions, versions and jobs, any choice of calls
and faults, and any value of the bounds that make TLC's instances finite. The assumptions say that
callers and null values are distinct, that tokens and the jobs of an old table are finitely many
(the proofs count them), that the numbers are naturals and capacities are not zero. No code runs
outside them.

### JobRunner

* `TypeCorrect`: `Spec => []TypeOK`. `TypeOK` is inductive. The lemmas at the head of
  `JobRunnerProofs` say that the updates of jobs, rows, processes and the queue keep their types;
  then there is one lemma per handler and per goroutine.
* `RetryIsUnique`, `RetriesWithinBudget`: neither property is inductive alone: that the retry in
  flight stays within the budget needs that there is only one and that the job has not moved since
  it was sent, and uniqueness needs that a failed job with a retry in flight admits no second
  failure. `RetryInv`, their conjunction with `MaxRetries <= budget`, is inductive together with
  `TypeOK`. The argument: a retry is born only in `handleProcessExited`, which needs a job that is
  not terminal and a count below the maximum, or with the runner, whose budget counts it; a retry in
  flight needs a failed job; every other handler leaves a failed job alone or is refused;
  `handleRetry` takes the only retry off the queue and counts it. Rows past the maximum are covered:
  `PastRetries` is any set of naturals.
* `ExitsAreCurrent`, `NoUnreachableBranch`, `PendingRetryComes`: from `ProcInv`. A process starts in
  three places, and in each no exit may be due: the job is pending and never had a process, its one
  wake finds it as it was made (`WakeInv`), or a retry is in flight (`RestInv`); and a job that
  reported its own end is not handled any more (`OpInv`). `StartedKeeps` is about these three;
  every other step is `Calm`: it starts nothing and brings no exit, wake or retry (`CalmKeeps`).
* `ProcessesMatchStates`: `ProcessMatchesState` holds if `"cleanup"` is not among the faults. The
  hypothesis is needed: when `Wait` fails on a process that still runs, the job is failed and
  `Cleanup` is what stops the process; when that fails as well, `handleProcessExited` only logs it
  and the process outlives its job. The runs `commands` and `shutdown`, which check the property, are
  without that fault; the theorem adds every other one.
* `RowsTrackJobs`, `ResultsMatchStates`, `ParkedRowsAreResumable`: from `RowInv`. The row is at most
  behind the job (`Ahead`), counts are equal unless a write was lost (`Counted`), and everything is
  when there is no reason for a difference (`Tracked`); job and row are each well formed (`JobOK`,
  `RowOK`), which is what survives lost writes.
* `OneCheckpointPerToken`: `Spec => CheckpointPerToken`, an action property. Only `handleCheckpoint`
  changes the count or the tokens; the successful branch adds a token that is not there yet, so
  the cardinality grows by one with the count, and every other branch leaves both.
* `RunnerImplementsLifecycle`: `Spec => LifecycleSpec`. The initial states map to initial states and
  every step to a step of `JobLifecycle` or a stutter: one lemma per handler, under `RetryInv`
  (a failed job leaves its state only for the retry that is due, whatever the count in its row), `ProcInv` (a wake finds a
  suspended job) and `RowInv` (a job that waits for a delayed retry has no loop that selects).

### Hypervisor

`TypeCorrect`, `OneRunnerRuns`, `SuspendedJobsAreStopped`, from one inductive invariant, `IInv`, and
the action property `FinalRowsStay`, from `FinalInv` on top of it. None of the properties is inductive alone, because nothing in the code makes two runners exclude one
another: the map is by job id, evictions come late, callers keep runners they looked up. The reason
is that a job has one claim at most (`ClaimInv`). A claim is a row that recovery or the poller has
read and not handled yet, a row just inserted, or a runner that runs the job, is going to, or has
still to write where it left it (`Active`); the other runners can only end the job. Claims are
made out of nothing in three places only: a new row (`SpawnKeeps`), recovery with an empty memory
(`ReadRowsKeeps`, `FreshInv`), and a row that is parked (`RoundKeeps`). The last needs `RowInv`: the
row of a job with a claim is not parked, unless the claim is the runner the poller itself waits for;
then it reads no rows. Everywhere else a claim is handed on (`Made`) or kept (`MovesClaims`). The
rest of the invariant: how the state of a runner goes with the operations it has still to do
(`Shape`), who a handler works for (`CallShape`, `RunnerShape`), that the runner of a wake-up or a
retry that was sent has done nothing yet (`WakeInv`), that a runner watches its container only while
its job is under way (`WatchInv`, so an exit that is noticed comes to a claim), and that a container
runs only under a claim whose row does not say suspended (`StoppedInv`).

The proof has one lemma per action, and three for the kinds of steps: a handler goes on (`MovesInv`),
a step that changes no job and no row (`Aside`), a runner is made (`Made`).

`FinalRowsStay` needs to know who still holds an old view of a row that has become final
(`FinalInv`): while a job has had only one runner (`~Shared`), that runner is done by then; a row
read by recovery or just inserted is not final; a row the poller has read may become final only
through a runner the job has already, so the one the poller makes is its second; and the poller
fails a job for want of its definition only when the row it read still waits for its retry. The last
is the delicate one: the row waits for its retry while a runner is at work only for the poller
(`Holds`, `Alone`), and then the poller reads no rows (`FinalRound`). `FinalMoves`, `FinalDropped`
and `FinalMade` are the kinds of steps.

`NobodyForgotten`: `Spec => []NoJobForgotten`, from `CareInv` on top of `IInv`. `IInv` gives that a
job has one claim at most; here it must be shown that it has one, and that the claim is going to
act, which depends on who made the runner and on who evicts it.

* A row that is pending or running is held by somebody (`HeldInv`): recovery has its row, a caller
  has inserted it, or a runner is at work that will write it (`Working`: operations to do, a
  container watched, or the start or wake-up it was made for still on its way). Else the job was
  interrupted and is abandoned for want of a checkpoint or a definition. When a runner stops
  working, it has written a row that is neither pending nor running, or its restore belonged to a
  retry, whose row still waits (`RetriedCare`), or it was interrupted by a crash
  (`InterruptedCare`): an interrupted job has a runner with nothing to do because `handleStart`
  refuses it. `CallCare` says that a start finds its runner untouched and is the only one, so that
  no other start can use up the claim.
* A row that is suspended or waits for its retry has a time to resume at and a checkpoint
  (`Resumable`), so the poller finds it as soon as no runner is in the map. While one is, either
  somebody will take it out when its loop has ended, its creator or the eviction goroutine
  (`MapCare`; eviction is by job id, so what matters is the runner the map holds, not the one
  that ended), or its loop goes on because the job was suspended: then the caller who asked for the
  suspension has the reply and evicts, or has given up (`LeftCare`, with `ReplyCare` for the
  suspension still being written).
* After a crash recovery has read every row that is neither final nor parked (`CareReadRows`), and
  what it has read of an interrupted job is still true when it acts on it (`FoundCare`).

`Fit` is what a runner says by itself: a loop that has ended left the job final or waiting for a
retry, a job that was started is watched. The lemmas again follow the kinds of steps: a handler goes
on (`CareMoves`), nobody's job or row changes (`CareAside`), a runner is made (`CareMade`), a row that
was read is dropped (`CareDropped`). TLC found `CareInv` to hold on the instance of the run `lives`
and on that of two jobs (5.9 M states) before it was proved.

### CallerAPI

* `TypeCorrect`, from `TypeInv`: `TypeOK` and what an operation says of the other fields of a call.
* `LatestCorrect`: `LatestIsGreatest` is inductive over `TypeInv`; the lemmas on `Greatest` say what
  it does when a version is added or taken away, which is how the registry computes it.
* `PromisesKept`, from `PromiseInv`: a promise is made by a call that was alone on its version; what
  must be carried is that the commit of a call that is still alone is still in the table, and that
  recovery has read nothing that is not there any more.
* `ListingsComplete`, an action property, from `ListInv`: what was listed is not behind the cursor,
  nothing was listed twice, and what was there at the beginning was listed or is behind the cursor.
  The lemmas on `Page` say that it takes the first rows after the cursor, in order; the last page is
  not full, and so it is all there is.

### Firecracker

`TypeCorrect`, `DevicesStayIntact`, `LeaksAreKnown`, `NoMachineOrphaned`, `GuestsAreResumed`, these
from one inductive invariant, `Inv`: how the step an operation is at (`work[e].pc`) constrains the
runner and its current machine (`Shape`), a device belongs to a machine that knows its name
(`DeviceInv`), not only running machines but also those a runner holds have their device
(`NetworkInv`), the names chosen, or saved in the checkpoint of a runner, are not those of another
machine that still runs (`NameInv`), only a current machine is paused by a checkpoint (`PauseInv`),
with `OnlyKnownLeaks` and `NoOrphanMachine`. A wake-up does not delete the device of a machine a crash
left running because its name is in use when the checkpoint is reconstructed; an immediate retry does
delete the device of its own name, but its machine is dead by then. `RunnerStep(e)` summarises what a
step that makes no device may do to the machines and devices of others: nothing. `CreateTypes` and
`CreateKeeps` are about the one that does.

`GuestsUseTheirDevice`: `Spec => []GuestOnItsDevice`, from `NicInv` on top of `Inv`. What must be
carried, for an execution that was not renamed, is that the name in the runner's checkpoint, the one
a restore is about to use and the one in the snapshot file are the same, and that the guest of a
machine a runner holds is on that machine's device (`Kept`): then a snapshot names the device of the
machine, a checkpoint kept in memory agrees with it even when a later snapshot was written and failed,
and a restore makes the device its guest asks for. One lemma per kind of step (`KeptMade`,
`KeptConfigured`, `KeptSnapshot`, ...), and `OthersKeepNics` for the other executions.

### Only model-checked

Liveness under fairness (`CallsReturn`, `ResultDelivered`, `RetryMade`, `ExitNoticed`,
`WaitingJobGetsOn`), which is out of the prover's reach. The violations need no proof. Every other
property of the passing runs, invariant, action property or refinement, is a theorem
(`ProcessMatchesState` under the hypothesis above).

## 5. Not modelled

Request parsing, HTTP, logging, migrations, configuration records; command lines, images, disks and
addresses of the runtimes; the contents of results, parameters, environment and metadata; clock
time (a resume time is due or not set). Calls that only read (get a job, its parameters, metadata
or definition). The window between `New` and `RecoverState` for the poller (see `Open`); the limit
of 100 rows per round; lost writes over several runners of a job (`JobRunner` has them for one);
`checkpoint_count` counted twice by a repeated transaction; locks and waiters over several runners;
versions as strings.

## 6. Plan

Nothing of the first plan is left. What would extend the development: `JobRunner` with the rows of
several runners, so that lost writes and immediate retries meet eviction and recovery; the poller
before `RecoverState` (see `Open`); the limit of 100 rows per round.
