----------------------------- MODULE Firecracker -----------------------------
(***************************************************************************)
(* The firecracker runtime (runtime/firecracker/runtime_linux.go): the     *)
(* virtual machines and TAP devices of several executions whose runners    *)
(* work at the same time, each one operation after the other, with what    *)
(* makes and ends those runners: retries, wake-ups, shutdown, and crashes  *)
(* of the hypervisor, which machines and devices survive.                  *)
(*                                                                         *)
(* The executions' ids differ only in their last three characters, as     *)
(* those of jobs made one after the other do: an execution has a device    *)
(* name of its own, and shares the numbered names, made from the first     *)
(* characters, with the others.  A killed machine is gone at once.  Of the *)
(* writes to the row only that of a checkpoint fails.                      *)
(***************************************************************************)
EXTENDS Naturals, Sequences, FiniteSets

CONSTANTS
  Executions,  \* execution ids; also their own device names
  None,        \* no name
  MaxSuffix,   \* findUniqueTAPName tries the suffixes 1..99
  MaxVMs,      \* bound: devices created in a behaviour
  MaxCrashes   \* bound: crashes of the hypervisor

Names == Executions \cup (1..MaxSuffix)

ASSUME FirecrackerAssumption ==
  /\ None \notin Names
  /\ Executions \cap (1..MaxSuffix) = {}
  /\ MaxSuffix \in Nat /\ MaxVMs \in Nat /\ MaxCrashes \in Nat

VARIABLES
  taps,       \* devices: 0 when the name is free, else the machine it was made for
  vms,        \* machines, in the order their devices were made
  phase,      \* what the runner of the execution is about, or none
  work,       \* the operation its runner is in
  saved,      \* the tapDeviceName of the checkpoint in the runner's memory
  row,        \* the state in the database
  recorded,   \* executions whose row has the path of their snapshot
  snapshot,   \* the device named in the snapshot file of the execution
  leaky,      \* auxiliary: machines whose runner ended without cleaning up
  undeleted,  \* auxiliary: machines whose runner could not delete their device
  loose,      \* auxiliary: machines left running by Exit or a crash
  cut,        \* auxiliary: machines whose pause was not answered, or resume failed
  contended,  \* auxiliary: numbered names whose device was taken from another execution
  renamed,    \* auxiliary: executions given another device name than their snapshot's
  crashes     \* bound: crashes so far

aux == <<leaky, undeleted, loose, cut, contended, renamed, crashes>>
vars == <<taps, vms, phase, work, saved, row, recorded, snapshot, aux>>

-----------------------------------------------------------------------------
\* A machine: its process not started yet, running, its guest paused, gone.  tap is the
\* device made for it, nic the one its guest is attached to.
VM == [exec : Executions, tap : Names, nic : Names \cup {None},
       proc : {"none", "running", "paused", "dead"}]

\* An operation: none; a device name has been chosen; the device made; the process
\* started; the guest paused for a checkpoint, its snapshot written.
Work == [pc : {"idle", "named", "tapped", "launched", "paused", "written"},
         tap : Names \cup {None}, ctx : BOOLEAN]

Idle == [pc |-> "idle", tap |-> None, ctx |-> TRUE]

\* Of a runner: there is none; recovery has to make one; it is about to start or retry, or
\* to wake the job; it holds a machine.
Phases == {"none", "recover", "due", "waking", "up"}
Rows == {"pending", "running", "suspended", "pending_retry", "done"}

Init ==
  /\ taps = [n \in Names |-> 0] /\ vms = <<>>
  /\ phase = [e \in Executions |-> "due"]
  /\ work = [e \in Executions |-> Idle]
  /\ saved = [e \in Executions |-> None]
  /\ row = [e \in Executions |-> "pending"] /\ recorded = {}
  /\ snapshot = [e \in Executions |-> None]
  /\ leaky = {} /\ undeleted = {} /\ loose = {} /\ cut = {}
  /\ contended = {} /\ renamed = {} /\ crashes = 0

\* The machine of e's current process handle: the last one made for it.
Mine(e) == {i \in DOMAIN vms : vms[i].exec = e}
Current(e) == CHOOSE i \in Mine(e) : \A k \in Mine(e) : k <= i

SetProc(e, p) == vms' = [vms EXCEPT ![Current(e)].proc = p]

Live(i) == vms[i].proc \in {"running", "paused"}

At(e, pc) == [work EXCEPT ![e].pc = pc]

\* The operation ends and the runner stays.
Ends(e, p) ==
  work' = [work EXCEPT ![e] = Idle] /\ phase' = [phase EXCEPT ![e] = p] /\ UNCHANGED saved

\* The operation ends, and so does the runner, which leaves the row in state r.
Leaves(e, r) ==
  /\ work' = [work EXCEPT ![e] = Idle] /\ phase' = [phase EXCEPT ![e] = "none"]
  /\ saved' = [saved EXCEPT ![e] = None] /\ row' = [row EXCEPT ![e] = r]

\* A start or a restore fails, and with it the job; but handleRetry writes nothing when
\* a restore fails.
Fails(e) == Leaves(e, IF phase[e] = "waking" \/ saved[e] = None THEN "done" ELSE row[e])

-----------------------------------------------------------------------------
(***************************************************************************)
(* Start and Restore.                                                      *)
(***************************************************************************)
Candidates(e) == <<e>> \o [i \in 1..MaxSuffix |-> i]

\* Variant: the existence of the device is not tested.
findUniqueTAPNameFirst(e) == {e}

\* The first candidate that does not exist; none when all do.
findUniqueTAPName(e) ==
  {Candidates(e)[i] : i \in {k \in DOMAIN Candidates(e) :
     /\ taps[Candidates(e)[k]] = 0
     /\ \A m \in 1..(k - 1) : taps[Candidates(e)[m]] # 0}}

\* A checkpoint made from the row gets a name of its own; or it cannot be made.
ReconstructCheckpoint(e) == findUniqueTAPName(e) \cup {None}

\* The checkpoint in the runner's memory is the one reconstructed with name n, or none.
Reconstructed(e, n) ==
  /\ saved' = [saved EXCEPT ![e] = n]
  /\ renamed' = IF n \in {None, snapshot[e]} THEN renamed ELSE renamed \cup {e}

\* A runner for a suspended job, or a running one that recovery found with a snapshot.
\* Without a checkpoint none is made.
wakeJob(e) ==
  /\ phase[e] = "recover" \/ (phase[e] = "none" /\ row[e] = "suspended")
  /\ \E n \in ReconstructCheckpoint(e) :
       /\ Reconstructed(e, n)
       /\ phase' = [phase EXCEPT ![e] = IF n = None THEN "none" ELSE "waking"]
  /\ UNCHANGED <<taps, vms, work, row, recorded, snapshot,
                 leaky, undeleted, loose, cut, contended, crashes>>

\* A runner for a delayed retry; without a checkpoint it will start from scratch.
retryJob(e) ==
  /\ phase[e] = "none" /\ row[e] = "pending_retry"
  /\ \E n \in ReconstructCheckpoint(e) :
       /\ e \in recorded \/ n = None
       /\ Reconstructed(e, n)
  /\ phase' = [phase EXCEPT ![e] = "due"]
  /\ UNCHANGED <<taps, vms, work, row, recorded, snapshot,
                 leaky, undeleted, loose, cut, contended, crashes>>

\* startVM chooses a name, for a new execution or a retry from scratch; or it fails.
Start(e) ==
  /\ phase[e] = "due" /\ work[e] = Idle /\ saved[e] = None
  /\ \/ /\ \E n \in findUniqueTAPName(e) : work' = [work EXCEPT ![e].pc = "named", ![e].tap = n]
        /\ UNCHANGED <<phase, saved, row>>
     \/ Fails(e)
  /\ UNCHANGED <<taps, vms, recorded, snapshot, aux>>

\* Variant: Restore takes a name that is free.
RestoreRenames(e) ==
  /\ phase[e] \in {"due", "waking"} /\ work[e] = Idle /\ saved[e] # None
  /\ \/ /\ \E n \in findUniqueTAPName(e) : work' = [work EXCEPT ![e].pc = "named", ![e].tap = n]
        /\ row' = [row EXCEPT ![e] = IF phase[e] = "waking" THEN "running" ELSE @]
        /\ UNCHANGED <<phase, saved>>
     \/ Fails(e)
  /\ UNCHANGED <<taps, vms, recorded, snapshot, aux>>

\* Restore takes the name in the checkpoint; or it fails.  handleWake has the row running
\* before.
Restore(e) ==
  /\ phase[e] \in {"due", "waking"} /\ work[e] = Idle /\ saved[e] # None
  /\ \/ /\ work' = [work EXCEPT ![e].pc = "named", ![e].tap = saved[e]]
        /\ row' = [row EXCEPT ![e] = IF phase[e] = "waking" THEN "running" ELSE @]
        /\ UNCHANGED <<phase, saved>>
     \/ Fails(e)
  /\ UNCHANGED <<taps, vms, recorded, snapshot, aux>>

\* A new machine, for which device n was made.
Made(e, n, p) == Append(vms, [exec |-> e, tap |-> n, nic |-> None, proc |-> p])

\* Variant: the machine the device is for is not recorded.
createTAPDeviceUnrecorded(e) ==
  /\ work[e].pc = "named" /\ Len(vms) < MaxVMs
  /\ taps' = [taps EXCEPT ![work[e].tap] = Len(vms) + 1]
  /\ work' = At(e, "tapped")
  /\ UNCHANGED <<vms, phase, saved, row, recorded, snapshot, aux>>

\* An existing device of that name is deleted, whoever's it is; then it is made.  When
\* that fails none is left, but the old one when it could not be deleted, or the new one
\* when it could not be set up, nor deleted.
createTAPDevice(e) ==
  LET n == work[e].tap  new == Len(vms) + 1 IN
  /\ work[e].pc = "named"
  /\ \/ /\ taps' = [taps EXCEPT ![n] = new] /\ vms' = Made(e, n, "none")
        /\ work' = At(e, "tapped") /\ UNCHANGED <<phase, saved, row, undeleted>>
     \/ /\ taps' = [taps EXCEPT ![n] = 0] \/ UNCHANGED taps
        /\ Fails(e) /\ UNCHANGED <<vms, undeleted>>
     \/ /\ taps' = [taps EXCEPT ![n] = new] /\ vms' = Made(e, n, "dead")
        /\ undeleted' = undeleted \cup {new} /\ Fails(e)
  /\ contended' = IF taps[n] # 0 /\ taps'[n] # taps[n] /\ vms[taps[n]].exec # e
                  THEN contended \cup {n} ELSE contended
  /\ Len(vms') <= MaxVMs
  /\ UNCHANGED <<recorded, snapshot, leaky, loose, cut, renamed, crashes>>

\* The device n of e's machine is deleted, whoever's it is now.  The callers go on when
\* that fails.
deleteTAPDevice(e, n) ==
  \/ taps' = [taps EXCEPT ![n] = 0] /\ UNCHANGED undeleted
  \/ taps[n] # 0 /\ undeleted' = undeleted \cup {Current(e)} /\ UNCHANGED taps

\* The firecracker process is started, or its device is deleted again.
Launch(e) ==
  /\ work[e].pc = "tapped"
  /\ \/ /\ SetProc(e, "running") /\ work' = At(e, "launched")
        /\ UNCHANGED <<taps, phase, saved, row, undeleted>>
     \/ SetProc(e, "dead") /\ deleteTAPDevice(e, work[e].tap) /\ Fails(e)
  /\ UNCHANGED <<recorded, snapshot, leaky, loose, cut, contended, renamed, crashes>>

\* The machine is set up: a new one with the device made for it, a restored one with the
\* device named in the snapshot, since loading that passes no other.
SetUp(e) ==
  /\ Ends(e, "up") /\ row' = [row EXCEPT ![e] = "running"]
  /\ vms' = [vms EXCEPT ![Current(e)].nic = IF saved[e] = None THEN work[e].tap ELSE snapshot[e]]

\* Variant: a machine that cannot be set up keeps its device.
ConfigureKeepsTAP(e) ==
  /\ work[e].pc = "launched"
  /\ SetUp(e) \/ (SetProc(e, "dead") /\ Fails(e))
  /\ UNCHANGED <<taps, recorded, snapshot, aux>>

\* Variant: its process is not killed.
ConfigureKeepsProcess(e) ==
  /\ work[e].pc = "launched"
  /\ \/ SetUp(e) /\ UNCHANGED <<taps, undeleted>>
     \/ deleteTAPDevice(e, work[e].tap) /\ Fails(e) /\ UNCHANGED vms
  /\ UNCHANGED <<recorded, snapshot, leaky, loose, cut, contended, renamed, crashes>>

\* waitForSocket and the API calls that set the machine up, or load its snapshot: all
\* succeed, or the process is killed and its device deleted.
Configure(e) ==
  /\ work[e].pc = "launched"
  /\ \/ SetUp(e) /\ UNCHANGED <<taps, undeleted>>
     \/ SetProc(e, "dead") /\ deleteTAPDevice(e, work[e].tap) /\ Fails(e)
  /\ UNCHANGED <<recorded, snapshot, leaky, loose, cut, contended, renamed, crashes>>

-----------------------------------------------------------------------------
(***************************************************************************)
(* Checkpoint: pause, write the snapshot, resume or kill.  Every call uses *)
(* the caller's context: once it has ended they all fail.                  *)
(***************************************************************************)
\* The guest is paused; or Checkpoint returns an error (context, timeout, API), although
\* the pause may have taken effect.  A guest left paused can be checkpointed again.
\* (Whether it is to be kept running is said when it matters.)
Pause(e) ==
  /\ phase[e] = "up" /\ work[e] = Idle /\ Live(Current(e))
  /\ SetProc(e, "paused")
  /\ \/ work' = At(e, "paused") /\ UNCHANGED cut
     \/ cut' = cut \cup {Current(e)} /\ UNCHANGED work
  /\ UNCHANGED <<taps, phase, saved, row, recorded, snapshot,
                 leaky, undeleted, loose, contended, renamed, crashes>>

\* The caller's context ends.
ContextEnds(e) ==
  /\ work[e].pc \in {"paused", "written"} /\ work[e].ctx
  /\ work' = [work EXCEPT ![e].ctx = FALSE]
  /\ UNCHANGED <<taps, vms, phase, saved, row, recorded, snapshot, aux>>

\* apiPatch("vm", Resumed): it may fail, and does when the context has ended or
\* the machine is gone.
Resume(e, ok) ==
  /\ ok => work[e].ctx /\ Live(Current(e))
  /\ IF ok THEN SetProc(e, "running") /\ cut' = cut \ {Current(e)}
           ELSE cut' = cut \cup {Current(e)} /\ UNCHANGED vms

\* The snapshot file names the device of the guest.
Write(e) == snapshot' = [snapshot EXCEPT ![e] = vms[Current(e)].nic]

\* Variant: a machine whose snapshot failed is not resumed.
SnapshotAbandoned(e) ==
  /\ work[e].pc = "paused"
  /\ \/ /\ work[e].ctx /\ Live(Current(e)) /\ Write(e)
        /\ work' = At(e, "written") /\ UNCHANGED <<vms, phase, saved, cut>>
     \/ (Write(e) \/ UNCHANGED snapshot) /\ UNCHANGED <<vms, cut>> /\ Ends(e, "up")
  /\ UNCHANGED <<taps, row, recorded, leaky, undeleted, loose, contended, renamed, crashes>>

\* The snapshot is written; or the call fails, having written it or not.
Snapshot(e) ==
  /\ work[e].pc = "paused"
  /\ \/ /\ work[e].ctx /\ Live(Current(e)) /\ Write(e)
        /\ work' = At(e, "written") /\ UNCHANGED <<vms, phase, saved, cut>>
     \/ /\ Write(e) \/ UNCHANGED snapshot
        /\ (\E ok \in BOOLEAN : Resume(e, ok)) /\ Ends(e, "up")
  /\ UNCHANGED <<taps, row, recorded, leaky, undeleted, loose, contended, renamed, crashes>>

\* After the snapshot the machine is resumed: the runner keeps a checkpoint with the
\* device's name, unless that failed.
KeepsRunning(e) ==
  /\ work[e].pc = "written"
  /\ work' = [work EXCEPT ![e] = Idle]
  /\ \E ok \in BOOLEAN, w \in SUBSET {e} :
       /\ Resume(e, ok)
       /\ saved' = [saved EXCEPT ![e] = IF ok THEN vms[Current(e)].tap ELSE @]
       /\ recorded' = IF ok THEN recorded \cup w ELSE recorded
  /\ UNCHANGED <<taps, phase, row, snapshot, leaky, undeleted, loose, contended, renamed, crashes>>

\* Or it is killed and the job suspended: no runner holds it, its device stays.
Suspends(e) ==
  /\ work[e].pc = "written"
  /\ SetProc(e, "dead")
  /\ \/ Leaves(e, "suspended") /\ recorded' = recorded \cup {e}
     \/ Leaves(e, row[e]) /\ UNCHANGED recorded
  /\ leaky' = leaky \cup {Current(e)}
  /\ UNCHANGED <<taps, snapshot, undeleted, loose, cut, contended, renamed, crashes>>

-----------------------------------------------------------------------------
(***************************************************************************)
(* The end of a machine.                                                   *)
(***************************************************************************)
\* The guest shuts down, or the process dies, whether or not a runner holds it.
Exits(i) ==
  /\ Live(i)
  /\ vms' = [vms EXCEPT ![i].proc = "dead"]
  /\ UNCHANGED <<taps, phase, work, saved, row, recorded, snapshot, aux>>

\* What handleProcessExited decides: the job has ended, is retried after a delay by
\* another runner, or by this one.
Decide(e) ==
  \/ Leaves(e, "done")
  \/ Leaves(e, "pending_retry")
  \/ Ends(e, "due") /\ UNCHANGED row

\* handleProcessExited calls Cleanup, which kills a process that Wait has given up on
\* and deletes the device.
Cleanup(e) ==
  /\ phase[e] = "up" /\ work[e] = Idle
  /\ SetProc(e, "dead")
  /\ deleteTAPDevice(e, vms[Current(e)].tap)
  /\ Decide(e)
  /\ UNCHANGED <<recorded, snapshot, leaky, loose, cut, contended, renamed, crashes>>

\* handleKill kills the process and ends the job, handleExit only ends the job: the
\* runner is done, and nobody cleans up.
Kill(e) ==
  /\ phase[e] = "up" /\ work[e] = Idle
  /\ SetProc(e, "dead") /\ Leaves(e, "done")
  /\ leaky' = leaky \cup {Current(e)}
  /\ UNCHANGED <<taps, recorded, snapshot, undeleted, loose, cut, contended, renamed, crashes>>

Exit(e) ==
  /\ phase[e] = "up" /\ work[e] = Idle
  /\ Leaves(e, "done")
  /\ leaky' = leaky \cup {Current(e)} /\ loose' = loose \cup {Current(e)}
  /\ UNCHANGED <<taps, vms, recorded, snapshot, undeleted, cut, contended, renamed, crashes>>

\* The runner is stopped or cancelled: its context kills the process, and its loop may
\* end before the exit arrives, without cleaning up.  The row stays as it is.
Stop(e) ==
  /\ work[e] = Idle /\ Leaves(e, row[e])
  /\ \/ phase[e] = "up" /\ SetProc(e, "dead") /\ leaky' = leaky \cup {Current(e)}
     \/ phase[e] \in {"due", "waking"} /\ UNCHANGED <<vms, leaky>>
  /\ UNCHANGED <<taps, recorded, snapshot, undeleted, loose, cut, contended, renamed, crashes>>

\* The machine a runner holds or is making.
Held(i) ==
  /\ i = Current(vms[i].exec)
  /\ phase[vms[i].exec] = "up" \/ work[vms[i].exec].pc \in {"tapped", "launched"}

\* The hypervisor crashes and starts again: operations stop half-way, the machines run
\* on.  Recovery starts the pending jobs and wakes the running ones whose row has the
\* path of a snapshot; it starts no other running one, and leaves the rest to the poller.
Crash ==
  LET held == {i \in DOMAIN vms : Held(i)} IN
  /\ crashes < MaxCrashes /\ crashes' = crashes + 1
  /\ leaky' = leaky \cup held /\ loose' = loose \cup held
  /\ cut' = cut \cup {i \in DOMAIN vms : vms[i].proc = "paused"}
  /\ work' = [e \in Executions |-> Idle]
  /\ saved' = [e \in Executions |-> None]
  /\ phase' = [e \in Executions |->
                 CASE row[e] = "pending" -> "due"
                   [] row[e] = "running" /\ e \in recorded -> "recover"
                   [] OTHER -> "none"]
  /\ UNCHANGED <<taps, vms, row, recorded, snapshot, undeleted, contended, renamed>>

Next ==
  \/ \E e \in Executions :
       \/ wakeJob(e) \/ retryJob(e) \/ Start(e) \/ Restore(e)
       \/ createTAPDevice(e) \/ Launch(e) \/ Configure(e)
       \/ Pause(e) \/ ContextEnds(e) \/ Snapshot(e) \/ KeepsRunning(e) \/ Suspends(e)
       \/ Cleanup(e) \/ Kill(e) \/ Exit(e) \/ Stop(e)
  \/ \E i \in DOMAIN vms : Exits(i)
  \/ Crash

Spec == Init /\ [][Next]_vars

-----------------------------------------------------------------------------
(***************************************************************************)
(* Properties.                                                             *)
(***************************************************************************)
\* Every variable has the values the code can give it.
TypeOK ==
  /\ taps \in [Names -> 0..Len(vms)]
  /\ \A i \in DOMAIN vms : vms[i] \in VM
  /\ phase \in [Executions -> Phases]
  /\ work \in [Executions -> Work]
  /\ saved \in [Executions -> Names \cup {None}]
  /\ row \in [Executions -> Rows] /\ recorded \subseteq Executions
  /\ snapshot \in [Executions -> Names \cup {None}]
  /\ leaky \cup undeleted \cup loose \cup cut \subseteq DOMAIN vms
  /\ contended \subseteq Names /\ renamed \subseteq Executions /\ crashes \in 0..MaxCrashes

\* The device made for a machine that runs stays: nobody deletes it or makes it anew,
\* across retries, wake-ups, failed starts, failed deletions, shutdowns and crashes of the
\* hypervisor, unless two executions chose one numbered name before either had made the
\* device, or one retries with the numbered name in its checkpoint, which another has
\* taken since.  (GuestOnItsDevice is about whether the guest uses it.)
DeviceIntact ==
  \A i \in DOMAIN vms : Live(i) => taps[vms[i].tap] = i \/ vms[i].tap \in contended

\* "When restoring from snapshot with networking: 1. The TAP device is recreated with the
\* same name" (LINUX_SETUP.md:287): the device made for a machine has the name its guest
\* knows, across checkpoints that fail half-way, retries and restores.  It is not so once
\* a checkpoint was reconstructed from the row while that name was in use, which a
\* suspension and a crash bring about.
GuestOnItsDevice ==
  \A i \in DOMAIN vms : Live(i) /\ vms[i].nic # None =>
    vms[i].nic = vms[i].tap \/ vms[i].exec \in renamed

\* A device is left without a runner only when deleting it failed, or by a runner that
\* ended without cleaning up: its machine was suspended, killed, ended by Exit, or the
\* runner was cancelled or crashed.  Every failure of a start or a restore, at any step,
\* and every exit the runner handles, tries to delete the device.  (runtime/runtime.go:54
\* says more, "Cleanup releases any resources held by the process [...] Called by the job
\* runner after the process has exited": it is not after a kill or a suspension.)
OnlyKnownLeaks ==
  \A n \in Names : taps[n] # 0 => Held(taps[n]) \/ taps[n] \in leaky \cup undeleted

\* A machine runs without a runner only after Exit or a crash: no failed start or
\* restore, no suspension, no cancellation and no retry leaves the process of an earlier
\* machine.
NoOrphanMachine == \A i \in DOMAIN vms : Live(i) => Held(i) \/ i \in loose

\* A guest that nobody is checkpointing is paused only when its last pause was not
\* answered, its last resume failed (with the caller's context: it always fails when the
\* snapshot failed because that had ended), or the hypervisor crashed: a checkpoint whose
\* snapshot fails tries to resume it.
PausedOnlyWhenCut ==
  \A i \in DOMAIN vms : vms[i].proc = "paused" =>
    i \in cut \/ work[vms[i].exec].pc \in {"paused", "written"}
=============================================================================
