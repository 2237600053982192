--------------------------- MODULE AttendedProofs ---------------------------
(***************************************************************************)
(* No job of Hypervisor is forgotten, for every set of jobs, clients and   *)
(* tokens, any number of calls and of crashes, and whichever restores      *)
(* fail.                                                                   *)
(*                                                                         *)
(* HypervisorProofs shows that a job has one claim at most; here, that it  *)
(* has one.  While its row is pending or running somebody is at work on it *)
(* (HeldInv): recovery, a caller about to make its runner, or a runner     *)
(* that is going to write the row.  While its row waits, for a time to     *)
(* resume at or for a retry, the runner in the map is going to be taken    *)
(* out of it (MapCare, LeftCare), and then the poller finds the row.       *)
(***************************************************************************)
EXTENDS HypervisorProofs

-----------------------------------------------------------------------------
(***************************************************************************)
(* The inductive invariant.                                                *)
(***************************************************************************)
\* What a runner says by itself: a loop that has ended left the job final or waiting for
\* its retry; a job that was started is watched while it runs; a suspension about to be
\* written has a time to resume at.
Fit(q) ==
  /\ q.loop = "done" => q.state \in Terminal \cup {"pending_retry"}
  /\ q.watched => q.process
  /\ q.state = "running" /\ q.process => q.watched
  /\ q.todo = <<"saveStarted">> => q.process
  /\ q.state = "suspended" /\ q.todo = <<"saveCheckpointed">> => q.resumeAt

\* A row that waits says until when, and there is a checkpoint to resume from.
Resumable(row) ==
  /\ row.state \in {"suspended", "pending_retry"} => row.resumeAt
  /\ row.state = "suspended" => row.checkpointPath

\* The runner of a job that was interrupted by a crash and that nobody can start.
Interrupted(q) ==
  q.loop = "on" /\ q.state = "running" /\ ~q.process /\ q.todo = <<>>

InterruptedCare(r) ==
  LET row == rows[runners[r].job] IN
  Interrupted(runners[r]) =>
    crashes > 0 /\ row.state \in {"running"} \cup Terminal /\ ~row.checkpointPath

\* A runner made to retry its job, until the job is started or fails.
Retried(q) == Active(q) /\ q.state = "failed" /\ q.todo # <<"remove", "saveCompleted">>

RetriedCare(r) ==
  Retried(runners[r]) => rows[runners[r].job].state \in {"pending_retry"} \cup Terminal

\* Who has asked for the suspension that is under way, or has given up.
ReplyCare(r) ==
  LET q == runners[r] IN
  /\ q.todo = <<"suspend", "saveCheckpointed">> => calls[q.from].op = "suspend"
  /\ q.state = "suspended" /\ q.todo = <<"saveCheckpointed">> =>
       IF q.from = None THEN q.job \in gaveUp ELSE calls[q.from].op = "suspend"

\* A runner left over when its job was suspended: who will take it out of the map.
Left(q) ==
  /\ q.loop = "on" /\ q.state = "suspended" /\ q.process
  /\ q.todo # <<"saveCheckpointed">>

Evicts(c, j) ==
  /\ calls[c].job = j /\ calls[c].op = "suspend"
  /\ calls[c].pc = "answered" /\ calls[c].ok /\ calls[c].seen = "suspended"

LeftCare(r) ==
  LET j == runners[r].job IN
  Left(runners[r]) /\ inMap[j] = r => j \in gaveUp \/ \E c \in Clients : Evicts(c, j)

\* The runner in the map will be taken out, by its creator or by the goroutine that
\* waits for its end.
Creates(c, j, r) ==
  calls[c].job = j /\ calls[c].op \in {"start", "wake", "retry"} /\ calls[c].runner = r

MapCare(j) ==
  inMap[j] # 0 =>
    /\ runners[inMap[j]].job = j
    /\ runners[inMap[j]].evictor \/ \E c \in Callers : Creates(c, j, inMap[j])

\* A command goes to a runner of its job; a start to one that has done nothing.
Starting(c) == calls[c].pc = "sent" /\ calls[c].op = "start"

CallCare(c) ==
  LET q == runners[calls[c].runner] IN
  /\ calls[c].pc \in {"sent", "handling", "answered"} => q.job = calls[c].job
  /\ calls[c].op = "suspend" => c \in Clients
  /\ Starting(c) /\ q.loop = "on" =>
       \/ q.todo = <<>> /\ (q.state = "pending" \/ Interrupted(q))
       \/ q.todo = <<"saveCompleted">>
  /\ Starting(c) => \A b \in Callers : Starting(b) /\ calls[b].runner = calls[c].runner => b = c

\* What recovery has read was there before a crash, and nobody else changes it.
FoundCare ==
  /\ crashes = 0 => found = {} /\ (stage = "starting" => table = {})
  /\ \A d \in found : d.row.state = "running" =>
       rows[d.id].checkpointPath = d.row.checkpointPath

\* A runner that is going to write the row of its job.
Starts(r) ==
  \E c \in Callers : /\ calls[c].pc = "sent" /\ calls[c].op \in {"start", "wake"}
                     /\ calls[c].runner = r

Working(r) ==
  LET q == runners[r] IN
  /\ q.loop = "on"
  /\ q.todo = <<"saveCompleted">> \/ (Active(q) /\ (q.todo # <<>> \/ q.watched \/ Starts(r)))

\* A job that was interrupted, and has no checkpoint or no definition.
Abandoned(j) ==
  /\ crashes > 0 /\ rows[j].state = "running"
  /\ ~rows[j].checkpointPath \/ ~defined

\* Somebody is at work on a job whose row is pending or running.
Held(j) ==
  \/ \E d \in found : Claimed(d) /\ d.id = j
  \/ \E c \in Callers : Inserting(c, j)
  \/ \E r \in RunnersOf(j) : Working(r)
  \/ Abandoned(j)

HeldInv ==
  stage = "recovering" =>
    \A j \in table : rows[j].state \in {"pending", "running"} => Held(j)

CareInv ==
  /\ \A j \in JobIds : Resumable(rows[j]) /\ MapCare(j)
  /\ \A r \in DOMAIN runners :
       /\ Fit(runners[r]) /\ InterruptedCare(r) /\ RetriedCare(r)
       /\ ReplyCare(r) /\ LeftCare(r)
  /\ \A c \in Callers : CallCare(c)
  /\ FoundCare
  /\ HeldInv

-----------------------------------------------------------------------------
(***************************************************************************)
(* Nobody is forgotten.                                                    *)
(***************************************************************************)
\* Whoever is at work on a job attends to it.
LEMMA HeldAttended ==
  ASSUME IInv, CareInv, NEW j \in table, Held(j)
  PROVE  Attended(j) \/ LeftBehind(j)
<1>1. CASE \E d \in found : Claimed(d) /\ d.id = j
  BY <1>1 DEF Attended
<1>2. ASSUME NEW c \in Callers, calls[c].job = j, calls[c].op \in {"start", "wake", "retry"}
      PROVE  Attended(j) \/ LeftBehind(j)
  BY <1>2 DEF Attended, LeftBehind
<1>3. CASE \E c \in Callers : Inserting(c, j)
  <2>1. PICK c \in Callers : calls[c].pc = "inserted" /\ calls[c].job = j
    BY <1>3 DEF Inserting
  <2>2. calls[c].op = "start"
    BY <2>1 DEF IInv, Inv, TypeInv, CallShape
  <2> QED
    BY <1>2, <2>1, <2>2
<1>4. CASE \E r \in RunnersOf(j) : Working(r)
  <2>1. PICK r \in RunnersOf(j) : Working(r)
    BY <1>4
  <2>2. CASE runners[r].todo # <<>> \/ runners[r].watched
    BY <2>1, <2>2 DEF Working, Attended
  <2>3. CASE Starts(r)
    <3>1. PICK c \in Callers : /\ calls[c].pc = "sent" /\ calls[c].op \in {"start", "wake"}
                               /\ calls[c].runner = r
      BY <2>3 DEF Starts
    <3>2. calls[c].job = j
      BY <2>1, <3>1 DEF CareInv, CallCare, RunnersOf
    <3> QED
      BY <1>2, <3>1, <3>2
  <2>4. <<"saveCompleted">> # <<>>
    OBVIOUS
  <2> QED
    BY <2>1, <2>2, <2>3, <2>4 DEF Working
<1>5. CASE Abandoned(j)
  BY <1>5 DEF Abandoned, LeftBehind
<1> QED
  BY <1>1, <1>3, <1>4, <1>5 DEF Held

\* A job whose row waits is found by the poller, or somebody still has its runner.
LEMMA ParkedAttended ==
  ASSUME IInv, CareInv, NEW j \in table, rows[j].state \in {"suspended", "pending_retry"}
  PROVE  Attended(j) \/ LeftBehind(j)
<1> DEFINE s == inMap[j]
           q == runners[s]
<1>1. j \in JobIds
  BY DEF IInv, Inv, TypeInv, TypeOK
<1>2. Parked(rows[j]) /\ (rows[j].state = "suspended" => rows[j].checkpointPath)
  BY <1>1 DEF CareInv, Resumable, Parked
<1>3. CASE s = 0
  BY <1>2, <1>3 DEF Attended
<1>4. ASSUME NEW c \in Callers, calls[c].job = j, calls[c].op \in {"start", "wake", "retry"}
      PROVE  Attended(j) \/ LeftBehind(j)
  BY <1>4 DEF Attended, LeftBehind
<1>5. CASE s # 0
  <2>1. s \in DOMAIN runners /\ q \in Runner /\ q.job = j
    <3>1. s \in 0..Len(runners) /\ runners \in Seq(Runner)
      BY <1>1 DEF IInv, Inv, TypeInv, TypeOK
    <3>2. s \in DOMAIN runners
      BY <1>5, <3>1
    <3> QED
      BY <1>1, <1>5, <3>1, <3>2 DEF CareInv, MapCare
  <2>2. s \in RunnersOf(j)
    BY <2>1 DEF RunnersOf
  <2>3. CASE ~q.evictor
    <3>1. PICK c \in Callers : Creates(c, j, s)
      BY <1>1, <1>5, <2>3 DEF CareInv, MapCare
    <3> QED
      BY <1>4, <3>1 DEF Creates
  <2>4. CASE q.evictor /\ q.loop = "done"
    BY <1>2, <2>2, <2>4 DEF Attended
  <2>5. CASE q.loop = "on" /\ q.todo # <<>>
    BY <2>2, <2>5 DEF Attended
  <2>6. CASE q.loop = "on" /\ Active(q)
    <3>1. PICK op \in {"wake", "retry"} : PolledFor(s, op)
      BY <2>1, <2>6 DEF IInv, Inv, RowInv
    <3>2. Poller \in Callers
      BY DEF Callers
    <3>3. /\ calls[Poller].op \in {"start", "wake", "retry"} /\ calls[Poller].runner = s
          /\ calls[Poller].pc \in {"sent", "handling", "answered"}
      BY <3>1 DEF PolledFor
    <3>4. calls[Poller].job = j
      BY <2>1, <3>2, <3>3 DEF CareInv, CallCare
    <3> QED
      BY <1>4, <3>2, <3>3, <3>4
  <2>7. CASE q.loop = "on" /\ q.todo = <<>> /\ ~Active(q)
    <3>1. q.todo # <<"saveCheckpointed">> /\ q.todo # <<"saveCompleted">>
      BY <2>7
    <3>2. q.state = "suspended" /\ q.process
      BY <2>1, <2>7, <3>1 DEF Active, Runner, JobStates, Terminal
    <3>3. j \in gaveUp \/ \E c \in Clients : Evicts(c, j)
      BY <2>1, <2>7, <3>1, <3>2 DEF CareInv, LeftCare, Left
    <3>4. CASE j \in gaveUp
      BY <3>4 DEF LeftBehind
    <3>5. CASE \E c \in Clients : Evicts(c, j)
      BY <1>2, <3>5 DEF Evicts, Attended
    <3> QED
      BY <3>3, <3>4, <3>5
  <2>8. q.loop \in {"on", "done"} /\ q.evictor \in BOOLEAN
    BY <2>1 DEF Runner
  <2> QED
    BY <2>3, <2>4, <2>5, <2>6, <2>7, <2>8
<1> QED
  BY <1>3, <1>5

\* The invariant says it.
LEMMA CareSuffices == IInv /\ CareInv => NoJobForgotten
<1> SUFFICES ASSUME IInv, CareInv, NEW j \in table, rows[j].state \notin Terminal
             PROVE  Attended(j) \/ LeftBehind(j)
  BY DEF NoJobForgotten
<1>1. rows[j].state \in JobStates /\ stage \in {"starting", "recovering"}
  BY DEF IInv, Inv, TypeInv, TypeOK, Row
<1>2. CASE stage = "starting"
  BY <1>2 DEF Attended
<1>3. CASE stage = "recovering" /\ rows[j].state \in {"pending", "running"}
  BY <1>3, HeldAttended DEF CareInv, HeldInv
<1>4. CASE rows[j].state \in {"suspended", "pending_retry"}
  BY <1>4, ParkedAttended
<1> QED
  BY <1>1, <1>2, <1>3, <1>4 DEF JobStates, Terminal

-----------------------------------------------------------------------------
(***************************************************************************)
(* A handler goes on.                                                      *)
(***************************************************************************)
\* A step of runner r, which leaves it as q, writes the row of its own job only, and,
\* when it does not claim the job, only that the job has ended.
Goes(r, q) ==
  LET k == runners[r].job IN
  /\ runners[r].loop = "on" /\ q \in Runner /\ q.loop = "on" /\ q.job = k
  /\ q.evictor = runners[r].evictor
  /\ WorksFor(r, q) /\ Advance(r, q)
  /\ UNCHANGED <<table, defined, stage, found, inMap, gaveUp, crashes>>
  /\ rows' \in [JobIds -> Row] /\ \A j \in JobIds : j # k => rows'[j] = rows[j]
  /\ ~Active(runners[r]) =>
       \/ rows'[k] = rows[k]
       \/ rows'[k].state \in Terminal /\ rows'[k].checkpointPath = rows[k].checkpointPath

\* What such a step has to see to.
Cares(r, q) ==
  LET p == runners[r]
      k == runners[r].job
      row == rows'[k] IN
  /\ q.watched => q.process
  /\ q.state = "running" /\ q.process => q.watched
  /\ q.todo = <<"saveStarted">> => q.process
  /\ q.state = "suspended" /\ q.todo = <<"saveCheckpointed">> => q.resumeAt
  /\ Resumable(row)
  /\ Interrupted(q) =>
       crashes > 0 /\ row.state \in {"running"} \cup Terminal /\ ~row.checkpointPath
  /\ Retried(q) /\ q.todo # <<>> => row.state \in {"pending_retry"} \cup Terminal
  /\ \/ q.todo = <<"suspend", "saveCheckpointed">>
     \/ q.state = "suspended" /\ q.todo = <<"saveCheckpointed">>
     => q.from # None /\ calls[q.from].op = "suspend"
  /\ Left(q) =>
       \/ Left(p)
       \/ /\ q.todo = <<>> /\ q.ok
          /\ IF q.from = None THEN k \in gaveUp ELSE calls[q.from].op = "suspend"
  /\ \A c \in Callers : Starting(c) /\ calls[c].runner = r /\ c # q.from =>
       \/ q.todo = <<>> /\ (q.state \in {"pending"} \cup Terminal \/ Interrupted(q))
       \/ q.todo = <<"saveCompleted">>

\* The runners and the calls after such a step.
LEMMA Gone ==
  ASSUME IInv, NEW r \in DOMAIN runners, NEW q, Goes(r, q)
  PROVE  /\ DOMAIN runners' = DOMAIN runners /\ runners'[r] = Settled(q)
         /\ \A s \in DOMAIN runners : s # r => runners'[s] = runners[s]
         /\ \A s \in DOMAIN runners : runners'[s].job = runners[s].job /\ runners[s].job \in JobIds
         /\ \A c \in Callers : c # q.from => calls'[c] = calls[c]
         /\ \A c \in Callers : c = q.from =>
              /\ calls'[c].op = calls[c].op /\ calls'[c].job = calls[c].job
              /\ calls'[c].runner = calls[c].runner /\ calls[c].runner = r
              /\ calls[c].pc \in {"sent", "handling"} /\ calls'[c].pc \in {"handling", "answered"}
              /\ q.todo = <<>> => /\ calls'[c].pc = "answered" /\ calls'[c].ok = q.ok
                                  /\ calls'[c].seen = q.state
         /\ q.from \in Callers \cup {None} /\ None \notin Callers
<1>1. TypeInv /\ q \in Runner /\ Advance(r, q) /\ WorksFor(r, q) /\ q.job = runners[r].job
      /\ calls \in [Callers -> Call]
  BY DEF IInv, Inv, Goes, TypeInv, TypeOK
<1>2. /\ DOMAIN runners' = DOMAIN runners /\ runners'[r] = Settled(q)
      /\ \A s \in DOMAIN runners : s # r => runners'[s] = runners[s]
      /\ \A c \in Callers : c # q.from => calls'[c] = calls[c]
      /\ \A c \in Callers : c = q.from =>
           /\ calls'[c].op = calls[c].op /\ calls'[c].job = calls[c].job
           /\ calls'[c].runner = calls[c].runner
           /\ calls'[c].pc \in {"handling", "answered"}
           /\ q.todo = <<>> => calls'[c].pc = "answered" /\ calls'[c].ok = q.ok
  BY <1>1, Advanced
<1>3. Settled(q).job = q.job
  BY <1>1, SettledFields
<1>4. \A s \in DOMAIN runners : runners'[s].job = runners[s].job /\ runners[s].job \in JobIds
  BY <1>1, <1>2, <1>3 DEF TypeInv, TypeOK, Runner
<1>5. q.from \in Callers \cup {None} /\ None \notin Callers
  BY <1>1, HypervisorAssumption DEF Runner
<1>6. \A c \in Callers : c = q.from => calls[c].runner = r /\ calls[c].pc \in {"sent", "handling"}
  BY <1>1, <1>5 DEF WorksFor, TypeInv, RunnerShape
<1>7. \A c \in Callers : c = q.from /\ q.todo = <<>> => calls'[c].seen = q.state
  <2> SUFFICES ASSUME NEW c \in Callers, c = q.from, q.todo = <<>>
               PROVE  calls'[c].seen = q.state
    OBVIOUS
  <2>1. calls'[c] = [calls[c] EXCEPT !.pc = "answered", !.ok = q.ok, !.seen = q.state]
    BY <1>1 DEF Advance
  <2> QED
    BY <1>1, <2>1 DEF Call
<1> QED
  BY <1>2, <1>4, <1>5, <1>6, <1>7

\* What is left of the runner.
LEMMA SettledRest ==
  ASSUME NEW q \in Runner
  PROVE  /\ Settled(q).watched = q.watched /\ Settled(q).resumeAt = q.resumeAt
         /\ Settled(q).evictor = q.evictor
         /\ q.loop = "on" /\ Settled(q).loop = "done" => q.state \in Terminal \cup {"pending_retry"}
         /\ Settled(q).loop = "on" => q.loop = "on"
         /\ Settled(q).from \in {q.from, None} /\ (q.todo # <<>> => Settled(q).from = q.from)
  BY DEF Settled, Ended, Runner

\* The runner itself after the step.
LEMMA GoneFits ==
  ASSUME IInv, CareInv, NEW r \in DOMAIN runners, NEW q, Goes(r, q), Cares(r, q)
  PROVE  Fit(runners[r])' /\ InterruptedCare(r)' /\ RetriedCare(r)' /\ ReplyCare(r)' /\ LeftCare(r)'
<1> DEFINE z == Settled(q)
           k == runners[r].job
<1>1. q \in Runner /\ q.loop = "on" /\ q.job = k /\ UNCHANGED <<gaveUp, crashes, inMap>>
  BY DEF Goes
<1>2. /\ z.state = q.state /\ z.process = q.process /\ z.todo = q.todo /\ z.job = k
      /\ z.watched = q.watched /\ z.resumeAt = q.resumeAt
      /\ z.loop = "done" => q.state \in Terminal \cup {"pending_retry"}
      /\ q.todo # <<>> => z = q
      /\ q.todo = <<>> /\ q.state \in Terminal => z.loop = "done"
  BY <1>1, SettledFields, SettledRest
<1>3. /\ runners'[r] = z
      /\ \A c \in Callers : c # q.from => calls'[c] = calls[c]
      /\ \A c \in Callers : c = q.from =>
           /\ calls'[c].op = calls[c].op /\ calls'[c].job = calls[c].job
           /\ calls[c].runner = r
           /\ calls[c].pc \in {"sent", "handling"} /\ calls'[c].pc \in {"handling", "answered"}
           /\ q.todo = <<>> => /\ calls'[c].pc = "answered" /\ calls'[c].ok = q.ok
                               /\ calls'[c].seen = q.state
      /\ q.from \in Callers \cup {None} /\ None \notin Callers
  BY Gone
<1> HIDE DEF z
<1>4. Fit(z)
  BY <1>2 DEF Fit, Cares
<1>5. Interrupted(z) => Interrupted(q)
  BY <1>1, <1>2 DEF Interrupted
<1>6. Retried(z) => Retried(q) /\ q.todo # <<>>
  <2>1. Retried(z) => z.state = "failed" /\ z.loop = "on"
    BY DEF Retried, Active
  <2>2. z.loop # "done" => z.loop = "on"
    <3>1. z \in Runner
      BY <1>1, SettledFields DEF z
    <3> QED
      BY <3>1 DEF Runner
  <2> QED
    BY <1>2, <2>1 DEF Terminal
<1>7. InterruptedCare(r)'
  BY <1>1, <1>2, <1>3, <1>5 DEF InterruptedCare, Cares
<1>8. RetriedCare(r)'
  BY <1>1, <1>2, <1>3, <1>6 DEF RetriedCare, Cares
<1>9. ReplyCare(r)'
  <2> SUFFICES ASSUME \/ z.todo = <<"suspend", "saveCheckpointed">>
                      \/ z.state = "suspended" /\ z.todo = <<"saveCheckpointed">>
               PROVE  z.from # None /\ calls'[z.from].op = "suspend"
    BY <1>3 DEF ReplyCare
  <2>1. q.todo # <<>>
    <3>1. <<"suspend", "saveCheckpointed">> # <<>> /\ <<"saveCheckpointed">> # <<>>
      OBVIOUS
    <3> QED
      BY <1>2, <3>1, Zenon
  <2>2. z = q /\ q.from \in Callers /\ calls[q.from].op = "suspend"
    BY <1>2, <1>3, <2>1 DEF Cares
  <2> QED
    BY <1>3, <2>2
<1>10. LeftCare(r)'
  <2> SUFFICES ASSUME Left(z), inMap[k] = r
               PROVE  k \in gaveUp \/ \E c \in Clients : Evicts(c, k)'
    BY <1>1, <1>2, <1>3 DEF LeftCare
  <2>1. Left(q)
    BY <1>1, <1>2 DEF Left
  <2>2. CASE Left(runners[r])
    <3>1. k \in gaveUp \/ \E c \in Clients : Evicts(c, k)
      BY <2>2 DEF CareInv, LeftCare
    <3>2. ASSUME NEW c \in Clients, Evicts(c, k) PROVE Evicts(c, k)'
      <4>1. c \in Callers /\ c # q.from
        BY <1>3, <3>2 DEF Evicts, Callers
      <4> QED
        BY <1>2, <1>3, <3>2, <4>1 DEF Evicts
    <3> QED
      BY <3>1, <3>2
  <2>3. CASE /\ q.todo = <<>> /\ q.ok
             /\ IF q.from = None THEN k \in gaveUp ELSE calls[q.from].op = "suspend"
    <3>1. CASE q.from = None
      BY <2>3, <3>1
    <3>2. CASE q.from # None
      <4>1. q.from \in Callers /\ calls[q.from].op = "suspend"
        BY <1>3, <2>3, <3>2
      <4>2. q.from \in Clients /\ calls[q.from].job = k
        BY <1>3, <4>1 DEF CareInv, CallCare
      <4>3. Evicts(q.from, k)'
        BY <1>2, <1>3, <2>1, <2>3, <4>1, <4>2 DEF Evicts, Left
      <4> QED
        BY <4>2, <4>3
    <3> QED
      BY <3>1, <3>2
  <2> QED
    BY <2>1, <2>2, <2>3 DEF Cares
<1> QED
  BY <1>3, <1>4, <1>7, <1>8, <1>9, <1>10

\* The other runners: one that claims the job of r is its only claim.
LEMMA GoneOthers ==
  ASSUME IInv, CareInv, NEW r \in DOMAIN runners, NEW q, Goes(r, q),
         NEW s \in DOMAIN runners, s # r
  PROVE  Fit(runners[s])' /\ InterruptedCare(s)' /\ RetriedCare(s)' /\ ReplyCare(s)' /\ LeftCare(s)'
<1> DEFINE t == runners[s]
           k == runners[r].job
<1>1. /\ runners'[s] = t /\ t.job \in JobIds /\ UNCHANGED <<gaveUp, crashes, inMap>>
      /\ \A c \in Callers : c # q.from => calls'[c] = calls[c]
      /\ \A c \in Callers : c = q.from =>
           calls'[c].op = calls[c].op /\ calls[c].pc \in {"sent", "handling"}
  BY Gone DEF Goes
<1>2. Fit(t) /\ InterruptedCare(s) /\ RetriedCare(s) /\ ReplyCare(s) /\ LeftCare(s)
  BY DEF CareInv
<1>3. ASSUME Active(t)
      PROVE  \/ rows'[t.job] = rows[t.job]
             \/ /\ rows'[t.job].state \in Terminal
                /\ rows'[t.job].checkpointPath = rows[t.job].checkpointPath
  <2>1. CASE t.job = k
    <3>1. ~Active(runners[r])
      BY <1>3, <2>1 DEF IInv, Inv, ClaimInv
    <3> QED
      BY <2>1, <3>1 DEF Goes
  <2>2. CASE t.job # k
    BY <1>1, <2>2 DEF Goes
  <2> QED
    BY <2>1, <2>2
<1>4. InterruptedCare(s)'
  <2>1. Interrupted(t) => Active(t)
    BY DEF Interrupted, Active
  <2> QED
    BY <1>1, <1>2, <1>3, <2>1 DEF InterruptedCare
<1>5. RetriedCare(s)'
  BY <1>1, <1>2, <1>3 DEF RetriedCare, Retried
<1>6. ReplyCare(s)'
  <2> SUFFICES ASSUME \/ t.todo = <<"suspend", "saveCheckpointed">>
                      \/ t.state = "suspended" /\ t.todo = <<"saveCheckpointed">>,
                      t.from # None
               PROVE  calls'[t.from].op = calls[t.from].op
    <3>1. t.todo = <<"suspend", "saveCheckpointed">> => t.from # None
      <4>1. RunnerShape(s) /\ Shape(t)
        BY DEF IInv, Inv, TypeInv, RunnerShape
      <4> QED
        BY <4>1 DEF Shape
    <3> QED
      BY <1>1, <1>2, <3>1 DEF ReplyCare
  <2>1. t.from \in Callers
    BY DEF IInv, Inv, TypeInv, TypeOK, Runner
  <2> QED
    BY <1>1, <2>1
<1>7. LeftCare(s)'
  <2>1. ASSUME NEW c \in Clients, Evicts(c, t.job) PROVE Evicts(c, t.job)'
    <3>1. c \in Callers /\ c # q.from
      BY <1>1, <2>1 DEF Evicts, Callers
    <3> QED
      BY <1>1, <2>1, <3>1 DEF Evicts
  <2> QED
    BY <1>1, <1>2, <2>1 DEF LeftCare
<1> QED
  BY <1>1, <1>2, <1>4, <1>5, <1>6, <1>7

\* The calls.
LEMMA GoneCalls ==
  ASSUME IInv, CareInv, NEW r \in DOMAIN runners, NEW q, Goes(r, q), Cares(r, q),
         NEW c \in Callers
  PROVE  CallCare(c)'
<1> DEFINE z == Settled(q)
<1>1. /\ DOMAIN runners' = DOMAIN runners /\ runners'[r] = z
      /\ \A s \in DOMAIN runners : s # r => runners'[s] = runners[s]
      /\ \A s \in DOMAIN runners : runners'[s].job = runners[s].job
      /\ \A b \in Callers : b # q.from => calls'[b] = calls[b]
      /\ \A b \in Callers : b = q.from =>
           /\ calls'[b].op = calls[b].op /\ calls'[b].job = calls[b].job
           /\ calls'[b].runner = calls[b].runner
           /\ calls[b].pc \in {"sent", "handling"} /\ calls'[b].pc \in {"handling", "answered"}
  BY Gone
<1>2. /\ q \in Runner /\ q.loop = "on" /\ z.state = q.state /\ z.process = q.process
      /\ z.todo = q.todo
      /\ q.todo = <<>> /\ q.state \in Terminal => z.loop = "done"
  BY SettledFields DEF Goes
<1>3. CallCare(c) /\ CallShape(c)
  BY DEF CareInv, IInv, Inv, TypeInv
<1>4. calls[c].pc \in {"sent", "handling", "answered"} => calls[c].runner \in DOMAIN runners
  BY <1>3 DEF CallShape
<1>5. \A b \in Callers : Starting(b)' => b # q.from /\ Starting(b) /\ calls'[b] = calls[b]
  BY <1>1 DEF Starting
<1> HIDE DEF z
<1>6. CASE c = q.from
  <2>1. ~Starting(c)'
    BY <1>5, <1>6
  <2>2. calls[c].pc \in {"sent", "handling", "answered"} => runners[calls[c].runner].job = calls[c].job
    BY <1>3 DEF CallCare
  <2>3. calls[c].op = "suspend" => c \in Clients
    BY <1>3 DEF CallCare
  <2> QED
    BY <1>1, <1>4, <1>6, <2>1, <2>2, <2>3 DEF CallCare
<1>7. CASE c # q.from
  <2>1. calls'[c] = calls[c]
    BY <1>1, <1>7
  <2>2. /\ calls'[c].pc \in {"sent", "handling", "answered"} =>
             runners'[calls'[c].runner].job = calls'[c].job
        /\ calls'[c].op = "suspend" => c \in Clients
    BY <1>1, <1>3, <1>4, <2>1 DEF CallCare
  <2>3. Starting(c)' => \A b \in Callers :
          Starting(b)' /\ calls'[b].runner = calls'[c].runner => b = c
    BY <1>3, <1>5 DEF CallCare
  <2>4. ASSUME Starting(c)', runners'[calls[c].runner].loop = "on"
        PROVE  LET t == runners'[calls[c].runner] IN
               \/ t.todo = <<>> /\ (t.state = "pending" \/ Interrupted(t))
               \/ t.todo = <<"saveCompleted">>
    <3>1. Starting(c) /\ calls[c].runner \in DOMAIN runners
      BY <1>4, <1>5, <2>4 DEF Starting
    <3>2. CASE calls[c].runner # r
      BY <1>1, <1>3, <2>4, <3>1, <3>2 DEF CallCare
    <3>3. CASE calls[c].runner = r
      <4>1. z.loop = "on" /\ ~(q.todo = <<>> /\ q.state \in Terminal)
        BY <1>1, <1>2, <2>4, <3>3
      <4>2. \/ q.todo = <<>> /\ (q.state \in {"pending"} \cup Terminal \/ Interrupted(q))
            \/ q.todo = <<"saveCompleted">>
        BY <1>7, <3>1, <3>3 DEF Cares
      <4>3. Interrupted(q) => Interrupted(z)
        BY <1>2, <4>1 DEF Interrupted
      <4> QED
        BY <1>1, <1>2, <3>3, <4>1, <4>2, <4>3
    <3> QED
      BY <3>2, <3>3
  <2> QED
    BY <2>1, <2>2, <2>3, <2>4 DEF CallCare
<1> QED
  BY <1>6, <1>7

\* The map and what recovery has read.
LEMMA GoneRest ==
  ASSUME IInv, CareInv, NEW r \in DOMAIN runners, NEW q, Goes(r, q), Cares(r, q)
  PROVE  FoundCare' /\ \A j \in JobIds : Resumable(rows[j])' /\ MapCare(j)'
<1> DEFINE k == runners[r].job
<1>1. /\ DOMAIN runners' = DOMAIN runners
      /\ \A s \in DOMAIN runners : s # r => runners'[s] = runners[s]
      /\ \A s \in DOMAIN runners : runners'[s].job = runners[s].job
      /\ \A b \in Callers : b # q.from => calls'[b] = calls[b]
      /\ \A b \in Callers : b = q.from =>
           calls'[b].op = calls[b].op /\ calls'[b].job = calls[b].job
           /\ calls'[b].runner = calls[b].runner
      /\ runners'[r] = Settled(q)
      /\ UNCHANGED <<inMap, found, stage, table, crashes>>
  BY Gone DEF Goes
<1>2. \A d \in found : d.row.state = "running" =>
        rows'[d.id].checkpointPath = rows[d.id].checkpointPath
  <2> SUFFICES ASSUME NEW d \in found, d.row.state = "running"
               PROVE  rows'[d.id].checkpointPath = rows[d.id].checkpointPath
    OBVIOUS
  <2>1. d.id \in JobIds /\ Claimed(d)
    BY DEF IInv, Inv, TypeInv, TypeOK, Found, Claimed
  <2>2. CASE d.id = k
    <3>1. ~Active(runners[r])
      BY <2>1, <2>2 DEF IInv, Inv, ClaimInv
    <3> QED
      BY <2>2, <3>1 DEF Goes
  <2>3. CASE d.id # k
    BY <2>1, <2>3 DEF Goes
  <2> QED
    BY <2>2, <2>3
<1>3. FoundCare'
  BY <1>1, <1>2 DEF CareInv, FoundCare
<1>4. runners'[r].evictor = runners[r].evictor
  BY <1>1, SettledRest DEF Goes
<1>5. \A j \in JobIds : MapCare(j)'
  <2> SUFFICES ASSUME NEW j \in JobIds, inMap[j] # 0
               PROVE  /\ runners'[inMap[j]].job = j
                      /\ runners'[inMap[j]].evictor \/ \E c \in Callers : Creates(c, j, inMap[j])'
    BY <1>1 DEF MapCare
  <2>1. inMap[j] \in DOMAIN runners
    <3>1. inMap[j] \in 0..Len(runners) /\ runners \in Seq(Runner)
      BY DEF IInv, Inv, TypeInv, TypeOK
    <3> QED
      BY <3>1
  <2>2. /\ runners[inMap[j]].job = j
        /\ runners[inMap[j]].evictor \/ \E c \in Callers : Creates(c, j, inMap[j])
    BY DEF CareInv, MapCare
  <2>3. runners'[inMap[j]].evictor = runners[inMap[j]].evictor
    BY <1>1, <1>4, <2>1
  <2>4. ASSUME NEW c \in Callers, Creates(c, j, inMap[j]) PROVE Creates(c, j, inMap[j])'
    BY <1>1, <2>4 DEF Creates
  <2> QED
    BY <1>1, <2>1, <2>2, <2>3, <2>4
<1>6. \A j \in JobIds : Resumable(rows[j])'
  <2>1. \A j \in JobIds : j # k => rows'[j] = rows[j]
    BY DEF Goes
  <2> QED
    BY <2>1 DEF CareInv, Cares
<1> QED
  BY <1>3, <1>5, <1>6

\* Who is at work: the job of r needs somebody still.
LEMMA GoneHeld ==
  ASSUME IInv, CareInv, NEW r \in DOMAIN runners, NEW q, Goes(r, q),
         LET k == runners[r].job IN
         rows'[k].state \in {"pending", "running"} =>
           \/ Working(r)' \/ Abandoned(k)'
           \/ rows'[k] = rows[k] /\ ~Working(r)
  PROVE  HeldInv'
<1> DEFINE k == runners[r].job
<1>1. /\ DOMAIN runners' = DOMAIN runners
      /\ \A s \in DOMAIN runners : s # r => runners'[s] = runners[s]
      /\ \A s \in DOMAIN runners : runners'[s].job = runners[s].job
      /\ \A b \in Callers : b # q.from => calls'[b] = calls[b]
      /\ \A b \in Callers : b = q.from => calls[b].runner = r /\ calls[b].pc \in {"sent", "handling"}
      /\ UNCHANGED <<defined, found, stage, table, crashes>>
  BY Gone DEF Goes
<1>2. \A j : RunnersOf(j)' = RunnersOf(j)
  BY <1>1 DEF RunnersOf
<1>3. ASSUME NEW s \in DOMAIN runners, s # r, Working(s) PROVE Working(s)'
  <2>1. Starts(s) => Starts(s)'
    <3> SUFFICES ASSUME NEW c \in Callers, calls[c].pc = "sent", calls[c].op \in {"start", "wake"},
                        calls[c].runner = s
                 PROVE  Starts(s)'
      BY DEF Starts
    <3>1. calls'[c] = calls[c]
      BY <1>1, <1>3
    <3> QED
      BY <3>1 DEF Starts
  <2> QED
    BY <1>1, <1>3, <2>1 DEF Working
<1>4. ASSUME NEW j \in JobIds, rows'[j] = rows[j], Held(j), ~Working(r) \/ j # k PROVE Held(j)'
  <2>1. CASE \E d \in found : Claimed(d) /\ d.id = j
    BY <1>1, <2>1 DEF Held
  <2>2. CASE \E c \in Callers : Inserting(c, j)
    <3>1. PICK c \in Callers : Inserting(c, j)
      BY <2>2
    <3>2. Inserting(c, j)'
      BY <1>1, <3>1 DEF Inserting
    <3> QED
      BY <3>2 DEF Held
  <2>3. CASE \E s \in RunnersOf(j) : Working(s)
    <3>1. PICK s \in RunnersOf(j) : Working(s)
      BY <2>3
    <3>2. s \in DOMAIN runners /\ s # r
      BY <1>4, <3>1 DEF RunnersOf
    <3> QED
      BY <1>2, <1>3, <3>1, <3>2 DEF Held
  <2>4. CASE Abandoned(j)
    <3>1. Abandoned(j)'
      BY <1>1, <1>4, <2>4 DEF Abandoned
    <3> QED
      BY <3>1 DEF Held
  <2> QED
    BY <1>4, <2>1, <2>2, <2>3, <2>4 DEF Held
<1>5. ASSUME NEW j \in table, stage = "recovering", rows'[j].state \in {"pending", "running"}
      PROVE  Held(j)'
  <2>1. j \in JobIds
    BY DEF IInv, Inv, TypeInv, TypeOK
  <2>2. CASE j # k
    <3>1. rows'[j] = rows[j]
      BY <2>1, <2>2 DEF Goes
    <3> QED
      BY <1>4, <1>5, <2>1, <2>2, <3>1 DEF CareInv, HeldInv
  <2>3. CASE j = k
    <3>1. CASE Working(r)'
      <4>1. r \in RunnersOf(j)'
        BY <1>1, <2>3 DEF RunnersOf
      <4> QED
        BY <3>1, <4>1 DEF Held
    <3>2. CASE Abandoned(k)'
      <4>1. Abandoned(j)'
        BY <1>1, <2>3, <3>2 DEF Abandoned
      <4> QED
        BY <4>1 DEF Held
    <3>3. CASE rows'[k] = rows[k] /\ ~Working(r)
      BY <1>4, <1>5, <2>1, <2>3, <3>3 DEF CareInv, HeldInv
    <3> QED
      BY <1>5, <2>3, <3>1, <3>2, <3>3
  <2> QED
    BY <2>2, <2>3
<1> QED
  BY <1>1, <1>5 DEF HeldInv

\* All together.
LEMMA CareMoves ==
  ASSUME IInv, CareInv, NEW r \in DOMAIN runners, NEW q, Goes(r, q), Cares(r, q),
         LET k == runners[r].job IN
         rows'[k].state \in {"pending", "running"} =>
           \/ Working(r)' \/ Abandoned(k)'
           \/ rows'[k] = rows[k] /\ ~Working(r)
  PROVE  CareInv'
<1>1. DOMAIN runners' = DOMAIN runners
  BY Gone
<1>2. \A s \in DOMAIN runners :
        Fit(runners[s])' /\ InterruptedCare(s)' /\ RetriedCare(s)' /\ ReplyCare(s)' /\ LeftCare(s)'
  BY GoneFits, GoneOthers
<1>3. \A c \in Callers : CallCare(c)'
  BY GoneCalls
<1>4. HeldInv'
  BY GoneHeld
<1> QED
  BY <1>1, <1>2, <1>3, <1>4, GoneRest DEF CareInv

\* A runner that is still at work.
LEMMA GoneWorks ==
  ASSUME IInv, NEW r \in DOMAIN runners, NEW q, Goes(r, q),
         \/ q.todo = <<"saveCompleted">>
         \/ Active(q) /\ (q.todo # <<>> \/ (q.watched /\ q.state = "running"))
  PROVE  Working(r)'
<1> DEFINE z == Settled(q)
<1>1. runners'[r] = z /\ q \in Runner /\ q.loop = "on"
  BY Gone DEF Goes
<1>2. /\ z.state = q.state /\ z.todo = q.todo /\ z.watched = q.watched /\ z.process = q.process
      /\ q.todo # <<>> => z = q
      /\ q.todo = <<>> /\ q.state = "running" => z.loop = "on"
  BY <1>1, SettledFields, SettledRest DEF Terminal
<1>3. CASE q.todo # <<>>
  BY <1>1, <1>2, <1>3 DEF Working
<1>4. CASE q.todo = <<>> /\ Active(q) /\ q.watched /\ q.state = "running"
  BY <1>1, <1>2, <1>4 DEF Working, Active
<1>5. <<"saveCompleted">> # <<>>
  OBVIOUS
<1> QED
  BY <1>3, <1>4, <1>5

-----------------------------------------------------------------------------
(***************************************************************************)
(* The operations of a handler.                                            *)
(***************************************************************************)
\* A handler in progress, and who else has sent something to its runner.
LEMMA Busy ==
  ASSUME IInv, CareInv, NEW r \in DOMAIN runners, runners[r].todo # <<>>
  PROVE  LET p == runners[r] IN
         /\ p \in Runner /\ p.loop = "on" /\ p.todo \in Plans /\ Shape(p) /\ p.job \in JobIds
         /\ Fit(p) /\ RetriedCare(r) /\ ReplyCare(r) /\ Resumable(rows[p.job])
         /\ rows[p.job] \in Row
         /\ p.from \in Callers \cup {None}
         /\ \A c \in Callers : Starting(c) /\ calls[c].runner = r => p.todo = <<"saveCompleted">>
<1>1. Inv
  BY DEF IInv
<1>2. /\ runners[r] \in Runner /\ runners[r].loop = "on" /\ runners[r].todo \in Plans
      /\ Shape(runners[r]) /\ runners[r].job \in JobIds
  BY <1>1, Underway
<1>3. rows[runners[r].job] \in Row
  BY <1>2 DEF IInv, Inv, TypeInv, TypeOK
<1>4. \A c \in Callers : Starting(c) /\ calls[c].runner = r => runners[r].todo = <<"saveCompleted">>
  BY <1>2 DEF CareInv, CallCare
<1> QED
  BY <1>2, <1>3, <1>4 DEF CareInv, Runner

\* What a step of a handler has to see to when it changes no row and leaves something
\* to do, or leaves the job running.
LEMMA OperationGoes ==
  ASSUME IInv, NEW r \in DOMAIN runners, runners[r].todo # <<>>, Step(r),
         NEW q \in Runner, Advance(r, q), q.job = runners[r].job, q.from = runners[r].from,
         q.loop = "on", q.evictor = runners[r].evictor, UNCHANGED rows
  PROVE  Goes(r, q)
<1>1. Inv /\ runners[r].loop = "on" /\ rows \in [JobIds -> Row]
  BY Underway DEF IInv, Inv, TypeInv, TypeOK
<1>2. UNCHANGED <<table, defined, stage, found, inMap, gaveUp, crashes>>
  BY DEF Step, reads, bounds
<1> QED
  BY <1>1, <1>2 DEF Goes, WorksFor

\* A start or a restore.
LEMMA CareBegin ==
  ASSUME IInv, CareInv, NEW r \in DOMAIN runners, Step(r),
         Create(r, runners[r]) \/ Restore(r, runners[r]), UNCHANGED rows
  PROVE  CareInv'
<1> DEFINE p == runners[r]
<1>1. /\ p.todo # <<>>
      /\ p \in Runner /\ p.loop = "on" /\ p.todo \in Plans /\ Shape(p) /\ p.job \in JobIds
      /\ Fit(p) /\ RetriedCare(r) /\ Resumable(rows[p.job]) /\ p.from \in Callers \cup {None}
      /\ \A c \in Callers : Starting(c) /\ calls[c].runner = r => p.todo = <<"saveCompleted">>
  BY Busy DEF Step
<1>2. PICK q \in {Begins(p), [Begins(p) EXCEPT !.resumeAt = FALSE], Fails(p)} : Advance(r, q)
  BY DEF Create, Restore
<1>3. p.todo \in {<<"create", "saveStarted">>, <<"restore">>, <<"restore", "saveStarted">>}
  <2>1. Head(p.todo) \in {"create", "restore"}
    BY DEF Create, Restore
  <2> HIDE DEF p
  <2> QED
    BY <1>1, <2>1, PlanSteps
<1>4. \A c \in Callers : ~(Starting(c) /\ calls[c].runner = r)
  <2>1. p.todo # <<"saveCompleted">>
    BY <1>3
  <2> QED
    BY <1>1, <2>1
<1> HIDE DEF p
<1>5. <<"saveStarted">> \in Seq(Ops) /\ <<"saveCompleted">> \in Seq(Ops) /\ <<>> \in Seq(Ops)
  <2>1. <<"saveStarted">> \in Plans /\ <<"saveCompleted">> \in Plans
    BY Zenon DEF Plans
  <2> QED
    BY <2>1, PlanSteps
<1>6. CASE q # Fails(p)
  <2>1. Tail(p.todo) \in {<<"saveStarted">>, <<>>}
    BY <1>3, PlanTails
  <2>2. /\ Begins(p) \in Runner /\ Begins(p).job = p.job /\ Begins(p).loop = "on"
        /\ Begins(p).from = p.from /\ Begins(p).evictor = p.evictor
        /\ Begins(p).state = "running" /\ Begins(p).process /\ Begins(p).watched
        /\ Begins(p).todo \in {<<"saveStarted">>, <<>>}
    BY <1>1, <1>5, <2>1 DEF Begins, Runner, JobStates
  <2>3. /\ q \in Runner /\ q.job = p.job /\ q.loop = "on" /\ q.from = p.from
        /\ q.evictor = p.evictor /\ q.state = "running" /\ q.process /\ q.watched
        /\ q.todo \in {<<"saveStarted">>, <<>>}
    BY <1>2, <1>6, <2>2 DEF Runner
  <2> USE DEF p
  <2>4. Goes(r, q)
    BY <1>1, <1>2, <2>3, OperationGoes
  <2>5. q.todo # <<"suspend", "saveCheckpointed">>
    <3>1. /\ <<"saveStarted">> # <<"suspend", "saveCheckpointed">>
          /\ <<>> # <<"suspend", "saveCheckpointed">>
      OBVIOUS
    <3> QED
      BY <2>3, <3>1, Zenon
  <2>6. Cares(r, q)
    BY <1>1, <1>4, <2>3, <2>5 DEF Cares, Interrupted, Retried, Left
  <2>7. Working(r)'
    BY <2>3, <2>4, GoneWorks DEF Active
  <2> QED
    BY <2>4, <2>6, <2>7, CareMoves
<1>7. CASE q = Fails(p)
  <2>1. /\ q \in Runner /\ q.job = p.job /\ q.loop = "on" /\ q.from = p.from
        /\ q.evictor = p.evictor /\ q.state = "failed" /\ q.process = p.process
        /\ q.watched = p.watched
        /\ \/ q.todo = <<"saveCompleted">>
           \/ q.todo = <<>> /\ p.todo = <<"restore", "saveStarted">>
    BY <1>1, <1>5, <1>7 DEF Fails, Runner, JobStates
  <2> HIDE <1>7
  <2>2. Goes(r, q)
    BY <1>1, <1>2, <2>1, OperationGoes DEF p
  <2>3. q.todo \notin {<<"suspend", "saveCheckpointed">>, <<"saveStarted">>, <<"saveCheckpointed">>}
    <3>1. /\ <<"saveCompleted">> \notin {<<"suspend", "saveCheckpointed">>, <<"saveStarted">>,
                                         <<"saveCheckpointed">>}
          /\ <<>> \notin {<<"suspend", "saveCheckpointed">>, <<"saveStarted">>, <<"saveCheckpointed">>}
      OBVIOUS
    <3> QED
      BY <2>1, <3>1, Zenon
  <2>4. Cares(r, q)
    BY <1>1, <1>4, <2>1, <2>3 DEF p, Cares, Interrupted, Retried, Active, Left, Fit, Terminal
  <2>5. CASE q.todo = <<"saveCompleted">>
    <3>1. Working(r)'
      BY <2>2, <2>5, GoneWorks
    <3> QED
      BY <2>2, <2>4, <3>1, CareMoves
  <2>6. CASE p.todo = <<"restore", "saveStarted">>
    <3>1. p.state = "failed" /\ p.todo # <<"remove", "saveCompleted">> /\ p.todo # <<"saveCompleted">>
      BY <1>1, <2>6 DEF Shape
    <3>2. Retried(p)
      BY <1>1, <3>1 DEF Retried, Active, Terminal
    <3>3. rows[p.job].state \notin {"pending", "running"}
      BY <1>1, <3>2 DEF p, RetriedCare, Terminal
    <3> QED
      BY <2>2, <2>4, <3>3, CareMoves DEF p
  <2> QED
    BY <2>1, <2>5, <2>6
<1> QED
  BY <1>6, <1>7

\* An operation after which the handler writes that the job has ended.
LEMMA CareEnds ==
  ASSUME IInv, CareInv, NEW r \in DOMAIN runners, runners[r].todo # <<>>, Step(r),
         NEW q \in Runner, Advance(r, q), q.job = runners[r].job, q.from = runners[r].from,
         q.loop = "on", q.evictor = runners[r].evictor, UNCHANGED rows,
         q.state \in Terminal, q.todo = <<"saveCompleted">>, q.watched => q.process
  PROVE  CareInv'
<1>1. Goes(r, q)
  BY OperationGoes
<1>2. /\ q.todo # <<"suspend", "saveCheckpointed">> /\ q.todo # <<"saveStarted">>
      /\ q.todo # <<"saveCheckpointed">>
  OBVIOUS
<1>3. Resumable(rows[runners[r].job])
  BY Busy
<1>4. q.state \notin {"running", "suspended"}
  BY DEF Terminal
<1>5. Cares(r, q)
  BY <1>2, <1>3, <1>4 DEF Cares, Interrupted, Retried, Active, Left
<1>6. Working(r)'
  BY <1>1, GoneWorks
<1> QED
  BY <1>1, <1>5, <1>6, CareMoves

\* A checkpoint: whoever asked for a suspension is the one to be answered.
LEMMA CareCheckpoint ==
  ASSUME IInv, CareInv, NEW r \in DOMAIN runners, Step(r), Checkpoint(r, runners[r]),
         UNCHANGED rows
  PROVE  CareInv'
<1> DEFINE p == runners[r]
           op == Head(p.todo)
           bad == [p EXCEPT !.ok = FALSE, !.resumeAt = FALSE, !.todo = <<>>]
           good == [p EXCEPT !.tokens = @ \cup {calls[p.from].token}, !.checkpoint = TRUE,
                             !.state = IF op = "suspend" THEN "suspended" ELSE @,
                             !.resumeAt = @ \/ op = "suspend",
                             !.watched = @ /\ op # "suspend",
                             !.todo = Tail(@)]
<1>1. /\ p.todo # <<>>
      /\ p \in Runner /\ p.loop = "on" /\ p.todo \in Plans /\ Shape(p) /\ p.job \in JobIds
      /\ Fit(p) /\ ReplyCare(r) /\ Resumable(rows[p.job]) /\ p.from \in Callers \cup {None}
      /\ \A c \in Callers : Starting(c) /\ calls[c].runner = r => p.todo = <<"saveCompleted">>
  BY Busy DEF Step
<1>2. /\ op \in {"suspend", "snapshot"}
      /\ p.todo \in {<<"suspend", "saveCheckpointed">>, <<"snapshot", "saveCheckpointed">>}
  <2>1. op \in {"suspend", "snapshot"}
    BY DEF Checkpoint
  <2> HIDE DEF p
  <2> QED
    BY <1>1, <2>1, PlanSteps
<1>3. p.state = "running" /\ p.process /\ p.watched /\ p.from \in Callers /\ p.from # None
  <2>1. p.state = "running" /\ p.process /\ p.from # None
    BY <1>1, <1>2 DEF Shape
  <2> QED
    BY <1>1, <2>1 DEF Fit
<1>4. \A c \in Callers : ~(Starting(c) /\ calls[c].runner = r)
  <2>1. p.todo # <<"saveCompleted">>
    BY <1>2
  <2> QED
    BY <1>1, <2>1
<1>5. <<"saveCheckpointed">> \in Seq(Ops) /\ <<>> \in Seq(Ops)
  <2>1. <<"saveCheckpointed">> \in Plans
    BY Zenon DEF Plans
  <2> QED
    BY <2>1, PlanSteps
<1>6. CASE container[p.job] # "running"
  <2>1. Advance(r, bad)
    BY <1>6 DEF Checkpoint
  <2> HIDE DEF p
  <2>2. /\ bad \in Runner /\ bad.job = p.job /\ bad.from = p.from /\ bad.loop = "on"
        /\ bad.evictor = p.evictor /\ bad.state = "running" /\ bad.process /\ bad.watched
        /\ bad.todo = <<>>
    BY <1>1, <1>3, <1>5 DEF Runner
  <2> HIDE DEF bad
  <2>3. Goes(r, bad)
    BY <1>1, <2>1, <2>2, OperationGoes DEF p
  <2>4. bad.todo # <<"suspend", "saveCheckpointed">> /\ bad.todo # <<"saveStarted">>
    BY <2>2
  <2>5. Cares(r, bad)
    BY <1>1, <1>4, <2>2, <2>4 DEF p, Cares, Interrupted, Retried, Left
  <2>6. Working(r)'
    BY <2>2, <2>3, GoneWorks DEF Active
  <2> QED
    BY <2>3, <2>5, <2>6, CareMoves
<1>7. CASE container[p.job] = "running"
  <2>1. Advance(r, good)
    BY <1>7 DEF Checkpoint
  <2>2. calls[p.from].op \in {"suspend", "snapshot"} /\ calls[p.from].token \in Tokens
    BY <1>2, <1>3 DEF IInv, Inv, TypeInv, RunnerShape, CallShape
  <2>3. op = "suspend" => calls[p.from].op = "suspend"
    <3>1. op = "suspend" => p.todo = <<"suspend", "saveCheckpointed">>
      <4> HIDE DEF p
      <4> QED
        BY <1>1, PlanSteps
    <3> QED
      BY <1>1, <3>1 DEF ReplyCare
  <2>4. Tail(p.todo) = <<"saveCheckpointed">>
    BY <1>2, PlanTails
  <2> HIDE DEF p, op
  <2>5. /\ good \in Runner /\ good.job = p.job /\ good.from = p.from /\ good.loop = "on"
        /\ good.evictor = p.evictor /\ good.process
        /\ good.state = IF op = "suspend" THEN "suspended" ELSE "running"
        /\ op = "suspend" => good.resumeAt
        /\ good.watched = (op # "suspend")
        /\ good.todo = <<"saveCheckpointed">>
    BY <1>1, <1>3, <1>5, <2>2, <2>4 DEF Runner, JobStates
  <2> HIDE DEF good
  <2>6. Goes(r, good)
    BY <1>1, <2>1, <2>5, OperationGoes DEF p
  <2>7. /\ good.todo # <<"suspend", "saveCheckpointed">> /\ good.todo # <<"saveStarted">>
        /\ good.todo # <<>>
    BY <2>5
  <2>8. Cares(r, good)
    BY <1>1, <1>3, <1>4, <2>3, <2>5, <2>7 DEF p, Cares, Interrupted, Retried, Left
  <2>9. Working(r)'
    BY <2>5, <2>6, <2>7, GoneWorks DEF Active
  <2> QED
    BY <2>6, <2>8, <2>9, CareMoves
<1> QED
  BY <1>6, <1>7

\* podman stop: a failed kill leaves a suspended job to whoever was to evict its runner.
LEMMA CareStop ==
  ASSUME IInv, CareInv, NEW r \in DOMAIN runners, Step(r), Stop(r, runners[r]), UNCHANGED rows
  PROVE  CareInv'
<1> DEFINE p == runners[r]
           bad == [p EXCEPT !.ok = FALSE, !.todo = <<>>]
           good == [p EXCEPT !.state = "failed", !.todo = Tail(@)]
<1>1. /\ p.todo # <<>>
      /\ p \in Runner /\ p.loop = "on" /\ p.todo \in Plans /\ Shape(p) /\ p.job \in JobIds
      /\ Fit(p) /\ Resumable(rows[p.job]) /\ p.from \in Callers \cup {None}
      /\ \A c \in Callers : Starting(c) /\ calls[c].runner = r => p.todo = <<"saveCompleted">>
  BY Busy DEF Step
<1>2. p.todo = <<"stop", "saveCompleted">>
  <2>1. Head(p.todo) = "stop"
    BY DEF Stop
  <2> HIDE DEF p
  <2> QED
    BY <1>1, <2>1, PlanSteps
<1>3. p.state \in {"running", "suspended"} /\ p.process /\ (p.state = "running" => p.watched)
  <2>1. p.state \in {"running", "suspended"} /\ p.process
    BY <1>1, <1>2 DEF Shape
  <2> QED
    BY <1>1, <2>1 DEF Fit
<1>4. p.todo # <<"saveCompleted">> /\ p.todo # <<"saveCheckpointed">>
  BY <1>2
<1>5. \A c \in Callers : ~(Starting(c) /\ calls[c].runner = r)
  BY <1>1, <1>4
<1>6. <<"saveCompleted">> \in Seq(Ops) /\ <<>> \in Seq(Ops)
  <2>1. <<"saveCompleted">> \in Plans
    BY Zenon DEF Plans
  <2> QED
    BY <2>1, PlanSteps
<1>7. CASE container[p.job] = "none"
  <2>1. Advance(r, bad)
    BY <1>7 DEF Stop
  <2> HIDE DEF p
  <2>2. /\ bad \in Runner /\ bad.job = p.job /\ bad.from = p.from /\ bad.loop = "on"
        /\ bad.evictor = p.evictor /\ bad.state = p.state /\ bad.process
        /\ bad.watched = p.watched /\ bad.todo = <<>>
    BY <1>1, <1>3, <1>6 DEF Runner
  <2> HIDE DEF bad
  <2>3. Goes(r, bad)
    BY <1>1, <2>1, <2>2, OperationGoes DEF p
  <2>4. /\ bad.todo # <<"suspend", "saveCheckpointed">> /\ bad.todo # <<"saveStarted">>
        /\ bad.todo # <<"saveCheckpointed">>
    BY <2>2
  <2>5. Left(bad) => Left(p)
    BY <1>1, <1>3, <1>4, <2>2 DEF Left
  <2>6. bad.watched => bad.process
    BY <2>2
  <2>7. Cares(r, bad)
    BY <1>1, <1>3, <1>5, <2>2, <2>4, <2>5, <2>6 DEF p, Cares, Interrupted, Retried
  <2>8. CASE p.state = "running"
    <3>1. Working(r)'
      BY <1>3, <2>2, <2>3, <2>8, GoneWorks DEF Active
    <3> QED
      BY <2>3, <2>7, <3>1, CareMoves
  <2>9. CASE p.state = "suspended"
    <3>1. ~Working(r)
      BY <1>3, <1>4, <2>9 DEF p, Working, Active, Terminal
    <3> QED
      BY <2>3, <2>7, <3>1, CareMoves DEF p
  <2> QED
    BY <1>3, <2>8, <2>9
<1>8. CASE container[p.job] # "none"
  <2>1. Advance(r, good)
    BY <1>8 DEF Stop
  <2>2. Tail(p.todo) = <<"saveCompleted">>
    BY <1>2, PlanTails
  <2> HIDE DEF p
  <2>3. /\ good \in Runner /\ good.job = p.job /\ good.from = p.from /\ good.loop = "on"
        /\ good.evictor = p.evictor /\ good.state = "failed" /\ good.process
        /\ good.todo = <<"saveCompleted">>
    BY <1>1, <1>3, <1>6, <2>2 DEF Runner, JobStates
  <2> HIDE DEF good
  <2>4. good.state \in Terminal
    BY <2>3 DEF Terminal
  <2> QED
    BY <1>1, <2>1, <2>3, <2>4, CareEnds DEF p
<1> QED
  BY <1>7, <1>8

\* podman rm.
LEMMA CareRemove ==
  ASSUME IInv, CareInv, NEW r \in DOMAIN runners, Step(r), Remove(r, runners[r]), UNCHANGED rows
  PROVE  CareInv'
<1> DEFINE p == runners[r]
           q == [p EXCEPT !.todo = Tail(@)]
<1>1. /\ p.todo # <<>>
      /\ p \in Runner /\ p.loop = "on" /\ p.todo \in Plans /\ Shape(p) /\ p.job \in JobIds
      /\ Fit(p) /\ Resumable(rows[p.job]) /\ p.from \in Callers \cup {None}
      /\ \A c \in Callers : Starting(c) /\ calls[c].runner = r => p.todo = <<"saveCompleted">>
  BY Busy DEF Step
<1>2. p.todo \in {<<"remove", "saveCompleted">>, <<"remove", "savePendingRetry">>}
  <2>1. Head(p.todo) = "remove"
    BY DEF Remove
  <2> HIDE DEF p
  <2> QED
    BY <1>1, <2>1, PlanSteps
<1>3. \A c \in Callers : ~(Starting(c) /\ calls[c].runner = r)
  <2>1. p.todo # <<"saveCompleted">>
    BY <1>2
  <2> QED
    BY <1>1, <2>1
<1>4. Tail(p.todo) \in Seq(Ops)
  <2>1. Tail(p.todo) \in Plans
    BY <1>2, PlanTails DEF Plans
  <2> QED
    BY <2>1, PlanSteps
<1>5. Advance(r, q)
  BY DEF Remove
<1> HIDE DEF p
<1>6. /\ q \in Runner /\ q.job = p.job /\ q.from = p.from /\ q.loop = "on"
      /\ q.evictor = p.evictor /\ q.state = p.state /\ q.process = p.process
      /\ q.watched = p.watched /\ q.todo = Tail(p.todo)
  BY <1>1, <1>4 DEF Runner
<1>7. q.watched => q.process
  BY <1>1, <1>6 DEF Fit
<1> HIDE DEF q
<1>8. CASE p.todo = <<"remove", "saveCompleted">>
  <2>1. q.todo = <<"saveCompleted">> /\ q.state \in Terminal
    BY <1>1, <1>6, <1>8, PlanTails DEF Shape
  <2> QED
    BY <1>1, <1>5, <1>6, <1>7, <2>1, CareEnds DEF p
<1>9. CASE p.todo = <<"remove", "savePendingRetry">>
  <2>1. q.todo = <<"savePendingRetry">> /\ q.state = "pending_retry"
    BY <1>1, <1>6, <1>9, PlanTails DEF Shape
  <2>2. Goes(r, q)
    BY <1>1, <1>5, <1>6, OperationGoes DEF p
  <2>3. /\ q.todo # <<"suspend", "saveCheckpointed">> /\ q.todo # <<"saveStarted">>
        /\ q.todo # <<"saveCheckpointed">> /\ q.todo # <<>>
    BY <2>1
  <2>4. Cares(r, q)
    BY <1>1, <1>3, <1>7, <2>1, <2>3 DEF p, Cares, Interrupted, Retried, Left
  <2>5. Working(r)'
    BY <1>6, <2>1, <2>2, <2>3, GoneWorks DEF Active
  <2> QED
    BY <2>2, <2>4, <2>5, CareMoves
<1> QED
  BY <1>2, <1>8, <1>9

\* The columns a handler writes besides the state.
LEMMA WrittenColumns ==
  ASSUME Inv, NEW r \in DOMAIN runners, runners[r].todo # <<>>, Save(r, runners[r])
  PROVE  LET p == runners[r]
             old == rows[p.job]
             new == rows'[p.job] IN
         /\ Head(p.todo) \in {"saveStarted", "saveRunning", "saveCount", "saveCompleted"} =>
              new.resumeAt = old.resumeAt /\ new.checkpointPath = old.checkpointPath
         /\ Head(p.todo) = "saveCheckpointed" => new.resumeAt = p.resumeAt /\ new.checkpointPath
         /\ Head(p.todo) = "savePendingRetry" => new.resumeAt
<1> DEFINE p == runners[r]
           op == Head(p.todo)
           old == rows[p.job]
           new == Persist(op, p, old)
<1>1. p.job \in JobIds /\ rows \in [JobIds -> Row] /\ old \in Row
  BY Underway DEF Inv, TypeInv, TypeOK
<1>2. rows'[p.job] = new
  BY <1>1 DEF Save
<1>3. op = "saveStarted" => new.resumeAt = old.resumeAt /\ new.checkpointPath = old.checkpointPath
  BY <1>1 DEF Persist, UpdateJobStarted, Row
<1>4. op = "saveRunning" => new.resumeAt = old.resumeAt /\ new.checkpointPath = old.checkpointPath
  BY <1>1 DEF Persist, UpdateJobState, Row
<1>5. op = "saveCount" => new.resumeAt = old.resumeAt /\ new.checkpointPath = old.checkpointPath
  BY <1>1 DEF Persist, UpdateJobRetryCount, Row
<1>6. op = "saveCompleted" => new.resumeAt = old.resumeAt /\ new.checkpointPath = old.checkpointPath
  BY <1>1 DEF Persist, UpdateJobCompleted, Row
<1>7. op = "saveCheckpointed" => new.resumeAt = p.resumeAt /\ new.checkpointPath
  BY <1>1 DEF Persist, UpdateJobCheckpointed, Row
<1>8. op = "savePendingRetry" => new.resumeAt
  BY <1>1 DEF Persist, UpdateJobPendingRetry, Row
<1> HIDE DEF new, op, old
<1> QED
  BY <1>2, <1>3, <1>4, <1>5, <1>6, <1>7, <1>8 DEF op, old

\* A write of the row: of a suspension, it comes with a time to resume at, and leaves the
\* runner to whoever is going to evict it.
LEMMA CareSave ==
  ASSUME IInv, CareInv, NEW r \in DOMAIN runners, Step(r), Save(r, runners[r])
  PROVE  CareInv'
<1> DEFINE p == runners[r]
           q == [p EXCEPT !.todo = Tail(@)]
           op == Head(p.todo)
           old == rows[p.job]
           new == rows'[p.job]
<1>1. /\ p.todo # <<>>
      /\ p \in Runner /\ p.loop = "on" /\ p.todo \in Plans /\ Shape(p) /\ p.job \in JobIds
      /\ Fit(p) /\ ReplyCare(r) /\ RetriedCare(r) /\ Resumable(old) /\ p.from \in Callers \cup {None}
      /\ \A c \in Callers : Starting(c) /\ calls[c].runner = r => p.todo = <<"saveCompleted">>
  BY Busy DEF Step
<1>2. /\ rows' \in [JobIds -> Row]
      /\ \A j \in JobIds : j # p.job => rows'[j] = rows[j]
      /\ op = "saveCount" => new.state = old.state
      /\ op \in {"saveStarted", "saveRunning"} => new.state = "running"
      /\ op \in {"saveCheckpointed", "saveCompleted"} => new.state = p.state
      /\ op = "savePendingRetry" => new.state = "pending_retry"
  BY <1>1, Written DEF IInv
<1>3. /\ op \in {"saveStarted", "saveRunning", "saveCount", "saveCompleted"} =>
           new.resumeAt = old.resumeAt /\ new.checkpointPath = old.checkpointPath
      /\ op = "saveCheckpointed" => new.resumeAt = p.resumeAt /\ new.checkpointPath
      /\ op = "savePendingRetry" => new.resumeAt
  BY <1>1, WrittenColumns DEF IInv
<1>4. op \in {"saveStarted", "saveRunning", "saveCount", "saveCheckpointed",
              "savePendingRetry", "saveCompleted"}
      /\ Advance(r, q)
  BY DEF Save
<1>5. UNCHANGED <<table, defined, stage, found, inMap, gaveUp, crashes>>
  BY DEF Step, reads, bounds
<1> HIDE DEF p, old, new
<1>6. /\ op = "saveStarted" => p.todo = <<"saveStarted">> /\ Tail(p.todo) = <<>>
      /\ op = "saveRunning" => p.todo = <<"saveRunning", "restore">> /\ Tail(p.todo) = <<"restore">>
      /\ op = "saveCount" =>
           /\ p.todo \in {<<"saveCount", "create", "saveStarted">>,
                          <<"saveCount", "restore", "saveStarted">>}
           /\ Tail(p.todo) \in {<<"create", "saveStarted">>, <<"restore", "saveStarted">>}
      /\ op = "saveCheckpointed" => p.todo = <<"saveCheckpointed">> /\ Tail(p.todo) = <<>>
      /\ op = "savePendingRetry" => p.todo = <<"savePendingRetry">> /\ Tail(p.todo) = <<>>
      /\ op = "saveCompleted" => p.todo = <<"saveCompleted">> /\ Tail(p.todo) = <<>>
  <2>1. /\ op = "saveStarted" => p.todo = <<"saveStarted">>
        /\ op = "saveRunning" => p.todo = <<"saveRunning", "restore">>
        /\ op = "saveCount" => p.todo \in {<<"saveCount", "create", "saveStarted">>,
                                           <<"saveCount", "restore", "saveStarted">>}
        /\ op = "saveCheckpointed" => p.todo = <<"saveCheckpointed">>
        /\ op = "savePendingRetry" => p.todo = <<"savePendingRetry">>
        /\ op = "saveCompleted" => p.todo = <<"saveCompleted">>
    BY <1>1, PlanSteps
  <2> QED
    BY <2>1, PlanTails, Zenon
<1>7. Tail(p.todo) \in Seq(Ops)
  <2>1. <<"restore">> \in Plans /\ <<"create", "saveStarted">> \in Plans
        /\ <<"restore", "saveStarted">> \in Plans
    BY Zenon DEF Plans
  <2>2. <<"restore">> \in Seq(Ops) /\ <<"create", "saveStarted">> \in Seq(Ops)
        /\ <<"restore", "saveStarted">> \in Seq(Ops)
    BY <2>1, PlanSteps
  <2>3. <<>> \in Seq(Ops)
    OBVIOUS
  <2> HIDE DEF op
  <2> QED
    BY <1>4, <1>6, <2>2, <2>3, Zenon
<1>8. /\ q \in Runner /\ q.job = p.job /\ q.from = p.from /\ q.loop = "on"
      /\ q.evictor = p.evictor /\ q.state = p.state /\ q.process = p.process
      /\ q.watched = p.watched /\ q.ok = p.ok /\ q.todo = Tail(p.todo)
  BY <1>1, <1>7 DEF Runner
<1> HIDE DEF q, op
<1>9. ~Active(p) => new.state \in Terminal /\ new.checkpointPath = old.checkpointPath
  <2>1. CASE op \in {"saveStarted", "saveRunning"}
    BY <1>1, <1>6, <2>1 DEF Shape, Active
  <2>2. CASE op = "saveCount"
    <3>1. p.state = "failed" /\ p.todo # <<"saveCompleted">>
      BY <1>1, <1>6, <2>2 DEF Shape
    <3> QED
      BY <1>1, <3>1 DEF Active, Terminal
  <2>3. CASE op = "saveCheckpointed"
    BY <1>1, <1>6, <2>3 DEF Shape, Active
  <2>4. CASE op = "savePendingRetry"
    BY <1>1, <1>6, <2>4 DEF Shape, Active
  <2>5. CASE op = "saveCompleted"
    BY <1>1, <1>2, <1>3, <1>6, <2>5 DEF Shape
  <2> QED
    BY <1>4, <2>1, <2>2, <2>3, <2>4, <2>5
<1>10. Goes(r, q)
  BY <1>1, <1>2, <1>4, <1>5, <1>8, <1>9 DEF Goes, WorksFor, p, new, old
<1>11. p.watched => p.process
  BY <1>1 DEF Fit
<1>12. CASE op = "saveStarted"
  <2>1. p.state = "running" /\ p.process /\ p.watched /\ q.todo = <<>> /\ p.todo # <<"saveCompleted">>
    BY <1>1, <1>6, <1>8, <1>12 DEF Shape, Fit
  <2>2. q.todo # <<"suspend", "saveCheckpointed">>
    BY <2>1
  <2>3. Cares(r, q)
    BY <1>1, <1>2, <1>8, <1>12, <2>1, <2>2 DEF p, new, Cares, Resumable, Interrupted, Retried, Left
  <2>4. Working(r)'
    BY <1>8, <1>10, <2>1, GoneWorks DEF Active
  <2> QED
    BY <1>10, <2>3, <2>4, CareMoves
<1>13. CASE op = "saveRunning"
  <2>1. /\ p.state = "running" /\ (p.process => p.watched) /\ p.todo # <<"saveCompleted">>
        /\ q.todo = <<"restore">>
    <3>1. p.todo = <<"saveRunning", "restore">> /\ q.todo = <<"restore">>
      BY <1>6, <1>8, <1>13
    <3>2. p.state = "running"
      BY <1>1, <3>1 DEF Shape
    <3> QED
      BY <1>1, <3>1, <3>2 DEF Fit
  <2>2. /\ q.todo # <<"suspend", "saveCheckpointed">> /\ q.todo # <<"saveStarted">> /\ q.todo # <<>>
    BY <2>1
  <2>3. Cares(r, q)
    BY <1>1, <1>2, <1>8, <1>11, <1>13, <2>1, <2>2
       DEF p, new, Cares, Resumable, Interrupted, Retried, Left
  <2>4. Working(r)'
    BY <1>8, <1>10, <2>1, <2>2, GoneWorks DEF Active
  <2> QED
    BY <1>10, <2>3, <2>4, CareMoves
<1>14. CASE op = "saveCount"
  <2>1. /\ p.state = "failed" /\ p.todo # <<"saveCompleted">> /\ p.todo # <<"remove", "saveCompleted">>
        /\ q.todo \in {<<"create", "saveStarted">>, <<"restore", "saveStarted">>}
    BY <1>1, <1>6, <1>8, <1>14 DEF Shape
  <2>2. /\ q.todo # <<"suspend", "saveCheckpointed">> /\ q.todo # <<"saveStarted">>
    BY <2>1
  <2>3. Retried(p)
    BY <1>1, <2>1 DEF Retried, Active, Terminal
  <2>4. new.state \in {"pending_retry"} \cup Terminal /\ Resumable(new)
    BY <1>1, <1>2, <1>3, <1>14, <2>3 DEF p, old, RetriedCare, Resumable
  <2>5. Cares(r, q)
    BY <1>1, <1>8, <1>11, <2>1, <2>2, <2>4 DEF p, new, Cares, Interrupted, Left
  <2> QED
    BY <1>10, <2>4, <2>5, CareMoves DEF p, new, Terminal
<1>15. CASE op = "saveCheckpointed"
  <2>1. /\ p.todo = <<"saveCheckpointed">> /\ q.todo = <<>> /\ p.todo # <<"saveCompleted">>
        /\ p.state \in {"running", "suspended"} /\ p.process
    BY <1>1, <1>6, <1>8, <1>15 DEF Shape
  <2>2. p.ok
    BY <1>1, <2>1 DEF Shape
  <2>3. /\ q.todo # <<"suspend", "saveCheckpointed">> /\ q.todo # <<"saveStarted">>
        /\ q.todo # <<"saveCheckpointed">>
    BY <2>1
  <2>4. /\ p.state = "suspended" => p.resumeAt
        /\ p.state = "suspended" =>
             IF p.from = None THEN p.job \in gaveUp ELSE calls[p.from].op = "suspend"
    BY <1>1, <2>1 DEF p, Fit, ReplyCare
  <2>5. Resumable(new)
    BY <1>2, <1>3, <1>15, <2>1, <2>4 DEF Resumable
  <2>6. p.state = "running" => p.watched
    BY <1>1, <2>1 DEF Fit
  <2>7. Cares(r, q)
    BY <1>1, <1>8, <1>11, <2>1, <2>2, <2>3, <2>4, <2>5, <2>6
       DEF p, new, Cares, Interrupted, Retried, Left
  <2>8. CASE p.state = "running"
    <3>1. Working(r)'
      BY <1>8, <1>10, <2>6, <2>8, GoneWorks DEF Active
    <3> QED
      BY <1>10, <2>7, <3>1, CareMoves
  <2>9. CASE p.state = "suspended"
    <3>1. new.state = "suspended"
      BY <1>2, <1>15, <2>9
    <3> QED
      BY <1>10, <2>7, <3>1, CareMoves DEF p, new
  <2> QED
    BY <2>1, <2>8, <2>9
<1>16. CASE op \in {"savePendingRetry", "saveCompleted"}
  <2>1. q.todo = <<>> /\ p.state \in {"pending_retry"} \cup Terminal
    BY <1>1, <1>6, <1>8, <1>16 DEF Shape
  <2>2. /\ q.todo # <<"suspend", "saveCheckpointed">> /\ q.todo # <<"saveStarted">>
        /\ q.todo # <<"saveCheckpointed">>
    BY <2>1
  <2>3. new.state \in {"pending_retry"} \cup Terminal
    BY <1>1, <1>2, <1>6, <1>16 DEF Shape
  <2>4. new.state = "pending_retry" => new.resumeAt
    BY <1>1, <1>2, <1>3, <1>6, <1>16 DEF Shape, Terminal
  <2>5. p.state \in Terminal \/ p.todo # <<"saveCompleted">>
    BY <1>1, <1>6, <1>16 DEF Shape
  <2>6. Cares(r, q)
    BY <1>1, <1>8, <1>11, <2>1, <2>2, <2>3, <2>4, <2>5
       DEF p, new, Cares, Resumable, Interrupted, Retried, Left, Terminal
  <2> QED
    BY <1>10, <2>3, <2>6, CareMoves DEF p, new, Terminal
<1> QED
  BY <1>4, <1>12, <1>13, <1>14, <1>15, <1>16

\* An operation of a handler.
LEMMA CareStep ==
  ASSUME IInv, CareInv, NEW r \in DOMAIN runners, Step(r)
  PROVE  CareInv'
  BY CareBegin, CareCheckpoint, CareStop, CareRemove, CareSave DEF Step

-----------------------------------------------------------------------------
(***************************************************************************)
(* A command is taken.                                                     *)
(***************************************************************************)
\* An idle runner, and who else has sent it a start.
LEMMA Awaiting ==
  ASSUME IInv, CareInv, NEW c \in Callers, calls[c].pc = "sent", NEW r, r = calls[c].runner, Ready(r)
  PROVE  LET p == runners[r] IN
         /\ r \in DOMAIN runners /\ p \in Runner /\ p.job \in JobIds /\ p.loop = "on"
         /\ p.todo = <<>> /\ p.from = None /\ p.ok
         /\ p.state \notin {"completed", "pending_retry"}
         /\ Fit(p) /\ InterruptedCare(r) /\ RetriedCare(r) /\ Resumable(rows[p.job])
         /\ p.watched => p.state = "running"
         /\ calls[c].op = "wake" => p.state = "suspended" /\ ~p.process
         /\ calls[c].op = "retry" => p.state = "failed"
         /\ \A b \in Callers : calls[b].pc = "sent" /\ calls[b].runner = r =>
              /\ calls[b].op = "wake" => p.state = "suspended"
              /\ calls[b].op = "start" => p.state = "pending" \/ Interrupted(p)
              /\ calls[b].op = "start" /\ calls[c].op = "start" => b = c
<1> DEFINE p == runners[r]
<1>1. /\ r \in DOMAIN runners /\ p \in Runner /\ Shape(p) /\ p.job \in JobIds /\ p.ok
      /\ p.state \notin {"completed", "pending_retry"}
      /\ calls[c].op = "wake" => p.state = "suspended" /\ ~p.process
      /\ calls[c].op = "retry" => p.state = "failed"
      /\ \A b \in Callers : calls[b].pc = "sent" /\ calls[b].runner = r /\ calls[b].op = "wake" =>
           p.state = "suspended"
  BY Taking DEF IInv
<1>2. p.loop = "on" /\ p.todo = <<>>
  BY DEF Ready
<1>3. p.from = None
  BY <1>1, <1>2 DEF Shape
<1>4. Fit(p) /\ InterruptedCare(r) /\ RetriedCare(r) /\ Resumable(rows[p.job])
  BY <1>1 DEF CareInv
<1>5. p.watched => p.state = "running"
  BY <1>1, <1>2 DEF IInv, WatchInv, Watching
<1>6. p.todo # <<"saveCompleted">>
  BY <1>2
<1>7. \A b \in Callers : calls[b].pc = "sent" /\ calls[b].runner = r =>
        /\ calls[b].op = "start" => p.state = "pending" \/ Interrupted(p)
        /\ calls[b].op = "start" /\ calls[c].op = "start" => b = c
  <2> SUFFICES ASSUME NEW b \in Callers, calls[b].pc = "sent", calls[b].runner = r,
                      calls[b].op = "start"
               PROVE  /\ p.state = "pending" \/ Interrupted(p)
                      /\ calls[c].op = "start" => b = c
    OBVIOUS
  <2>1. Starting(b) /\ (calls[c].op = "start" => Starting(c))
    BY DEF Starting
  <2>2. CallCare(b) /\ CallCare(c)
    BY DEF CareInv
  <2>3. p.state = "pending" \/ Interrupted(p)
    BY <1>2, <1>6, <2>1, <2>2 DEF CallCare
  <2>4. calls[c].op = "start" => b = c
    BY <2>1, <2>2 DEF CallCare
  <2> QED
    BY <2>3, <2>4
<1> QED
  BY <1>1, <1>2, <1>3, <1>4, <1>5, <1>7

\* A command that is taken leaves the rows alone.
LEMMA TakeGoes ==
  ASSUME IInv, CareInv, NEW c \in Callers, Take(c), NEW r, r = calls[c].runner,
         NEW q \in Runner, Advance(r, q), q.job = runners[r].job, q.from = c,
         q.loop = "on", q.evictor = runners[r].evictor
  PROVE  Goes(r, q)
<1>1. calls[c].pc = "sent" /\ Ready(r)
  BY DEF Take
<1>2. runners[r].loop = "on" /\ runners[r].todo = <<>>
  BY DEF Take, Ready
<1>3. UNCHANGED <<rows, table, defined, stage, found, inMap, gaveUp, crashes>>
  BY DEF Take, db, reads, bounds
<1>4. rows \in [JobIds -> Row]
  BY DEF IInv, Inv, TypeInv, TypeOK
<1> QED
  BY <1>1, <1>2, <1>3, <1>4 DEF Goes, WorksFor

\* A command that is refused, or was handled before: a job that nobody can start was
\* interrupted by a crash.
LEMMA CareRefused ==
  ASSUME IInv, CareInv, NEW c \in Callers, Take(c), NEW r, r = calls[c].runner,
         NEW h \in {runners[r], Refused(runners[r])}, Advance(r, [h EXCEPT !.from = c]),
         calls[c].op # "wake", calls[c].op = "start" => runners[r].state # "pending"
  PROVE  CareInv'
<1> DEFINE p == runners[r]
           q == [h EXCEPT !.from = c]
           z == Settled(q)
           row == rows[p.job]
<1>1. /\ r \in DOMAIN runners /\ p \in Runner /\ p.job \in JobIds /\ p.loop = "on"
      /\ p.todo = <<>> /\ p.state \notin {"completed", "pending_retry"}
      /\ Fit(p) /\ InterruptedCare(r) /\ Resumable(row)
      /\ p.watched => p.state = "running"
      /\ \A b \in Callers : calls[b].pc = "sent" /\ calls[b].runner = r =>
           /\ calls[b].op = "wake" => p.state = "suspended"
           /\ calls[b].op = "start" => p.state = "pending" \/ Interrupted(p)
  BY Awaiting DEF Take
<1>2. Advance(r, q)
  OBVIOUS
<1>3. h \in {p, Refused(p)} /\ UNCHANGED <<rows, crashes, defined>>
  BY DEF Take, db, bounds
<1>4. c # None
  BY HypervisorAssumption
<1> HIDE DEF p
<1>5. /\ q \in Runner /\ q.job = p.job /\ q.from = c /\ q.loop = "on" /\ q.evictor = p.evictor
      /\ q.state = p.state /\ q.process = p.process /\ q.watched = p.watched /\ q.todo = <<>>
  BY <1>1, <1>3 DEF Refused, Runner
<1> HIDE DEF q
<1>6. Goes(r, q)
  BY <1>2, <1>5, TakeGoes DEF p
<1>7. /\ q.todo # <<"suspend", "saveCheckpointed">> /\ q.todo # <<"saveStarted">>
      /\ q.todo # <<"saveCheckpointed">> /\ p.todo # <<"saveCheckpointed">>
      /\ p.todo # <<"saveCompleted">>
  BY <1>1, <1>5
<1>8. Interrupted(q) => Interrupted(p)
  BY <1>1, <1>5 DEF Interrupted
<1>9. Interrupted(p) => crashes > 0 /\ row.state \in {"running"} \cup Terminal /\ ~row.checkpointPath
  BY <1>1 DEF p, InterruptedCare
<1>10. Left(q) => Left(p)
  BY <1>1, <1>5, <1>7 DEF Left
<1>11. \A b \in Callers : Starting(b) /\ calls[b].runner = r =>
         q.state = "pending" \/ Interrupted(q)
  BY <1>1, <1>5 DEF Starting, Interrupted
<1>12. (q.watched => q.process) /\ (q.state = "running" /\ q.process => q.watched)
  BY <1>1, <1>5 DEF Fit
<1>13. Cares(r, q)
  BY <1>1, <1>3, <1>5, <1>7, <1>8, <1>9, <1>10, <1>11, <1>12 DEF p, Cares
<1>14. ASSUME Working(r), row.state \in {"pending", "running"}
       PROVE  Working(r)' \/ Abandoned(p.job)'
  <2>1. Active(p) /\ (p.watched \/ Starts(r))
    BY <1>1, <1>7, <1>14 DEF p, Working
  <2>2. CASE p.watched
    BY <1>1, <1>5, <1>6, <2>2, GoneWorks DEF Active, p
  <2>3. CASE Starts(r)
    <3>1. PICK b \in Callers : /\ calls[b].pc = "sent" /\ calls[b].op \in {"start", "wake"}
                               /\ calls[b].runner = r
      BY <2>3 DEF Starts
    <3>2. p.state \in {"pending", "running", "suspended"}
      BY <1>1, <3>1 DEF Interrupted
    <3>3. CASE b # c
      <4>1. calls'[b] = calls[b] /\ runners'[r] = z
        BY <1>1, <1>5, <1>6, <3>3, Gone
      <4>2. Starts(r)'
        BY <3>1, <4>1 DEF Starts
      <4>3. z.loop = "on" /\ z.state = p.state /\ z.process = p.process /\ z.todo = <<>>
        BY <1>5, <3>2, SettledFields DEF Terminal
      <4>4. Active(z)
        BY <1>1, <1>7, <2>1, <3>2, <4>3 DEF Active, Terminal
      <4> HIDE DEF z
      <4> QED
        BY <4>1, <4>2, <4>3, <4>4 DEF Working
    <3>4. CASE b = c
      <4>1. Interrupted(p)
        BY <1>1, <3>1, <3>4 DEF p
      <4> QED
        <5>1. crashes > 0 /\ row.state = "running" /\ ~row.checkpointPath
          BY <1>9, <1>14, <4>1 DEF Terminal
        <5>2. Abandoned(p.job)
          BY <5>1 DEF Abandoned
        <5>3. runners'[r].job = p.job
          BY <1>1, <1>6, Gone DEF p
        <5> QED
          BY <1>3, <5>2, <5>3 DEF Abandoned, p
    <3> QED
      BY <3>3, <3>4
  <2> QED
    BY <2>1, <2>2, <2>3
<1> QED
  BY <1>1, <1>3, <1>6, <1>13, <1>14, CareMoves, Gone DEF p

\* A command after which the handler writes that the job has ended.
LEMMA CareTakesEnd ==
  ASSUME IInv, CareInv, NEW c \in Callers, Take(c), NEW r, r = calls[c].runner,
         NEW q \in Runner, Advance(r, q), q.job = runners[r].job, q.from = c,
         q.loop = "on", q.evictor = runners[r].evictor,
         q.state \in Terminal, q.todo = <<"saveCompleted">>, q.watched => q.process
  PROVE  CareInv'
<1>1. r \in DOMAIN runners /\ Resumable(rows[runners[r].job])
  BY Awaiting DEF Take
<1>2. Goes(r, q) /\ UNCHANGED rows
  BY TakeGoes DEF Take, db
<1>3. /\ q.todo # <<"suspend", "saveCheckpointed">> /\ q.todo # <<"saveStarted">>
      /\ q.todo # <<"saveCheckpointed">>
  OBVIOUS
<1>4. q.state \notin {"running", "suspended"}
  BY DEF Terminal
<1>5. Cares(r, q)
  BY <1>1, <1>2, <1>3, <1>4 DEF Cares, Interrupted, Retried, Active, Left
<1>6. Working(r)'
  BY <1>1, <1>2, GoneWorks
<1> QED
  BY <1>1, <1>2, <1>5, <1>6, CareMoves

\* A start: nobody else has sent one to this runner.
LEMMA CareTakeStart ==
  ASSUME IInv, CareInv, NEW c \in Callers, Take(c), NEW r, r = calls[c].runner,
         calls[c].op = "start"
  PROVE  CareInv'
<1> DEFINE p == runners[r]
           q == [HandleStart(p) EXCEPT !.from = c]
<1>1. /\ r \in DOMAIN runners /\ p \in Runner /\ p.job \in JobIds /\ p.loop = "on"
      /\ Fit(p) /\ Resumable(rows[p.job])
      /\ \A b \in Callers : calls[b].pc = "sent" /\ calls[b].runner = r /\ calls[b].op = "start" =>
           b = c
  BY Awaiting DEF Take
<1>2. Advance(r, q) /\ UNCHANGED rows
  BY DEF Take, Handled, db
<1>3. CASE p.state # "pending"
  <2>1. HandleStart(p) = Refused(p)
    BY <1>3 DEF HandleStart
  <2> QED
    BY <1>2, <1>3, <2>1, CareRefused
<1>4. CASE p.state = "pending"
  <2>1. <<"create", "saveStarted">> \in Seq(Ops)
    <3>1. <<"create", "saveStarted">> \in Plans
      BY Zenon DEF Plans
    <3> QED
      BY <3>1, PlanSteps
  <2> HIDE DEF p
  <2>2. /\ q \in Runner /\ q.job = p.job /\ q.from = c /\ q.loop = "on"
        /\ q.evictor = p.evictor /\ q.state = "pending" /\ q.process = p.process
        /\ q.watched = p.watched /\ q.todo = <<"create", "saveStarted">>
    BY <1>1, <1>4, <2>1 DEF HandleStart, Runner
  <2> HIDE DEF q
  <2>3. Goes(r, q)
    BY <1>2, <2>2, TakeGoes DEF p
  <2>4. /\ q.todo # <<"suspend", "saveCheckpointed">> /\ q.todo # <<"saveStarted">> /\ q.todo # <<>>
    BY <2>2
  <2>5. \A b \in Callers : ~(Starting(b) /\ calls[b].runner = r /\ b # c)
    BY <1>1 DEF Starting
  <2>6. Cares(r, q)
    BY <1>1, <1>2, <2>2, <2>4, <2>5 DEF p, Cares, Fit, Interrupted, Retried, Left
  <2>7. Working(r)'
    BY <1>1, <2>2, <2>3, <2>4, GoneWorks DEF Active
  <2> QED
    BY <1>1, <2>3, <2>6, <2>7, CareMoves
<1> QED
  BY <1>3, <1>4

\* A wake-up.
LEMMA CareTakeWake ==
  ASSUME IInv, CareInv, NEW c \in Callers, Take(c), NEW r, r = calls[c].runner,
         calls[c].op = "wake"
  PROVE  CareInv'
<1> DEFINE p == runners[r]
           q == [HandleWake(p) EXCEPT !.from = c]
<1>1. /\ r \in DOMAIN runners /\ p \in Runner /\ p.job \in JobIds /\ p.loop = "on"
      /\ Fit(p) /\ Resumable(rows[p.job]) /\ p.state = "suspended" /\ ~p.process
      /\ \A b \in Callers : calls[b].pc = "sent" /\ calls[b].runner = r /\ calls[b].op = "start" =>
           p.state = "pending" \/ Interrupted(p)
  BY Awaiting DEF Take
<1>2. Advance(r, q) /\ UNCHANGED rows
  BY DEF Take, Handled, db
<1>3. <<"saveRunning", "restore">> \in Seq(Ops)
  <2>1. <<"saveRunning", "restore">> \in Plans
    BY Zenon DEF Plans
  <2> QED
    BY <2>1, PlanSteps
<1> HIDE DEF p
<1>4. /\ q \in Runner /\ q.job = p.job /\ q.from = c /\ q.loop = "on"
      /\ q.evictor = p.evictor /\ q.state = "running" /\ q.process = p.process
      /\ q.watched = p.watched /\ q.todo = <<"saveRunning", "restore">>
  BY <1>1, <1>3 DEF HandleWake, Runner, JobStates
<1> HIDE DEF q
<1>5. Goes(r, q)
  BY <1>2, <1>4, TakeGoes DEF p
<1>6. /\ q.todo # <<"suspend", "saveCheckpointed">> /\ q.todo # <<"saveStarted">> /\ q.todo # <<>>
  BY <1>4
<1>7. \A b \in Callers : ~(Starting(b) /\ calls[b].runner = r)
  BY <1>1 DEF Starting, Interrupted
<1>8. Cares(r, q)
  BY <1>1, <1>2, <1>4, <1>6, <1>7 DEF p, Cares, Fit, Interrupted, Retried, Left
<1>9. Working(r)'
  BY <1>1, <1>4, <1>5, <1>6, GoneWorks DEF Active
<1> QED
  BY <1>1, <1>5, <1>8, <1>9, CareMoves

\* A retry: the row waits for it, or is final.
LEMMA CareTakeRetry ==
  ASSUME IInv, CareInv, NEW c \in Callers, Take(c), NEW r, r = calls[c].runner,
         calls[c].op = "retry"
  PROVE  CareInv'
<1> DEFINE p == runners[r]
           plan == <<"saveCount", IF p.checkpoint THEN "restore" ELSE "create", "saveStarted">>
           h == [p EXCEPT !.retries = @ + 1, !.result = "nil", !.todo = plan]
           q == [h EXCEPT !.from = c]
<1>1. /\ r \in DOMAIN runners /\ p \in Runner /\ p.job \in JobIds /\ p.loop = "on" /\ p.todo = <<>>
      /\ Fit(p) /\ Resumable(rows[p.job]) /\ RetriedCare(r) /\ p.state = "failed"
      /\ \A b \in Callers : calls[b].pc = "sent" /\ calls[b].runner = r /\ calls[b].op = "start" =>
           p.state = "pending" \/ Interrupted(p)
  BY Awaiting DEF Take
<1>2. HandleRetry(p) = h
  BY <1>1 DEF HandleRetry
<1>3. Advance(r, q) /\ UNCHANGED rows
  BY <1>2 DEF Take, Handled, db
<1>4. /\ plan \in Seq(Ops) /\ plan # <<"suspend", "saveCheckpointed">> /\ plan # <<"saveStarted">>
      /\ plan # <<>> /\ plan # <<"saveCheckpointed">>
  <2>1. plan \in {<<"saveCount", "create", "saveStarted">>, <<"saveCount", "restore", "saveStarted">>}
    OBVIOUS
  <2>2. plan # <<"suspend", "saveCheckpointed">> /\ plan # <<"saveStarted">>
        /\ plan # <<>> /\ plan # <<"saveCheckpointed">>
    OBVIOUS
  <2> HIDE DEF plan
  <2>3. plan \in Plans
    BY <2>1, Zenon DEF Plans
  <2> QED
    BY <2>2, <2>3, PlanSteps
<1>5. Retried(p)
  <2>1. p.todo # <<"saveCompleted">> /\ p.todo # <<"remove", "saveCompleted">>
    BY <1>1
  <2> QED
    BY <1>1, <2>1 DEF Retried, Active, Terminal
<1>6. rows[p.job].state \in {"pending_retry"} \cup Terminal
  BY <1>1, <1>5 DEF RetriedCare
<1> HIDE DEF p, plan
<1>7. p.retries + 1 \in Nat /\ "nil" \in Results
  BY <1>1 DEF Runner, Results
<1>8. /\ q \in Runner /\ q.job = p.job /\ q.from = c /\ q.loop = "on"
      /\ q.evictor = p.evictor /\ q.state = "failed" /\ q.process = p.process
      /\ q.watched = p.watched /\ q.todo = plan
  BY <1>1, <1>4, <1>7 DEF Runner
<1> HIDE DEF q
<1>9. Goes(r, q)
  BY <1>3, <1>8, TakeGoes DEF p
<1>10. \A b \in Callers : ~(Starting(b) /\ calls[b].runner = r)
  BY <1>1 DEF Starting, Interrupted
<1>11. Cares(r, q)
  BY <1>1, <1>3, <1>4, <1>6, <1>8, <1>10 DEF p, Cares, Fit, Interrupted, Left
<1> QED
  BY <1>1, <1>3, <1>6, <1>9, <1>11, CareMoves DEF p, Terminal

\* A checkpoint; a runner whose job runs without a container panics.
LEMMA CareTakeCheckpoint ==
  ASSUME IInv, CareInv, NEW c \in Callers, Take(c), NEW r, r = calls[c].runner,
         calls[c].op \in {"suspend", "snapshot"}
  PROVE  CareInv'
<1> DEFINE p == runners[r]
           plan == <<calls[c].op, "saveCheckpointed">>
           h == HandleCheckpoint(p, calls[c].op, calls[c].token)
           q == [h EXCEPT !.from = c]
<1>1. /\ r \in DOMAIN runners /\ p \in Runner /\ p.job \in JobIds /\ p.loop = "on" /\ p.todo = <<>>
      /\ Fit(p) /\ Resumable(rows[p.job])
      /\ \A b \in Callers : calls[b].pc = "sent" /\ calls[b].runner = r /\ calls[b].op = "start" =>
           p.state = "pending" \/ Interrupted(p)
  BY Awaiting DEF Take
<1>2. Advance(r, q) /\ UNCHANGED rows
  BY DEF Take, Handled, db
<1>3. h \in {p, Refused(p)} \/ (p.state = "running" /\ h = [p EXCEPT !.todo = plan])
  BY DEF HandleCheckpoint
<1>4. CASE h \in {p, Refused(p)}
  BY <1>2, <1>4, CareRefused
<1>5. CASE p.state = "running" /\ h = [p EXCEPT !.todo = plan]
  <2>1. p.process
    BY <1>1, <1>5 DEF Take, Panics, Runner
  <2>2. /\ plan \in Seq(Ops) /\ (plan = <<"suspend", "saveCheckpointed">> => calls[c].op = "suspend")
        /\ plan # <<"saveStarted">> /\ plan # <<>> /\ plan # <<"saveCheckpointed">>
    <3>1. <<"suspend", "saveCheckpointed">> \in Plans /\ <<"snapshot", "saveCheckpointed">> \in Plans
      BY Zenon DEF Plans
    <3>2. plan \in Seq(Ops)
      BY <3>1, PlanSteps
    <3>3. /\ plan = <<"suspend", "saveCheckpointed">> => calls[c].op = "suspend"
          /\ plan # <<"saveStarted">> /\ plan # <<>> /\ plan # <<"saveCheckpointed">>
      OBVIOUS
    <3> QED
      BY <3>2, <3>3
  <2> HIDE DEF p, plan, h
  <2>3. /\ q \in Runner /\ q.job = p.job /\ q.from = c /\ q.loop = "on"
        /\ q.evictor = p.evictor /\ q.state = "running" /\ q.process
        /\ q.watched = p.watched /\ q.todo = plan
    BY <1>1, <1>5, <2>1, <2>2 DEF Runner
  <2> HIDE DEF q
  <2>4. Goes(r, q)
    BY <1>2, <2>3, TakeGoes DEF p
  <2>5. \A b \in Callers : ~(Starting(b) /\ calls[b].runner = r)
    BY <1>1, <1>5, <2>1 DEF Starting, Interrupted
  <2>6. c # None
    BY HypervisorAssumption
  <2>7. Cares(r, q)
    BY <1>1, <1>2, <1>5, <2>1, <2>2, <2>3, <2>5, <2>6
       DEF p, Cares, Fit, Interrupted, Retried, Left
  <2>8. Working(r)'
    BY <1>1, <2>2, <2>3, <2>4, GoneWorks DEF Active
  <2> QED
    BY <1>1, <2>4, <2>7, <2>8, CareMoves
<1> QED
  BY <1>3, <1>4, <1>5

\* A kill: of a suspended job, through the runner it left.
LEMMA CareTakeKill ==
  ASSUME IInv, CareInv, NEW c \in Callers, Take(c), NEW r, r = calls[c].runner,
         calls[c].op = "kill"
  PROVE  CareInv'
<1> DEFINE p == runners[r]
           h == HandleKill(p)
           q == [h EXCEPT !.from = c]
<1>1. /\ r \in DOMAIN runners /\ p \in Runner /\ p.job \in JobIds /\ p.loop = "on" /\ p.todo = <<>>
      /\ Fit(p) /\ Resumable(rows[p.job])
      /\ \A b \in Callers : calls[b].pc = "sent" /\ calls[b].runner = r /\ calls[b].op = "start" =>
           p.state = "pending" \/ Interrupted(p)
  BY Awaiting DEF Take
<1>2. Advance(r, q) /\ UNCHANGED rows
  BY DEF Take, Handled, db
<1>3. <<"stop", "saveCompleted">> \in Seq(Ops) /\ <<"saveCompleted">> \in Seq(Ops)
  <2>1. <<"stop", "saveCompleted">> \in Plans /\ <<"saveCompleted">> \in Plans
    BY Zenon DEF Plans
  <2> QED
    BY <2>1, PlanSteps
<1>4. CASE p.state \notin {"running", "suspended"}
  <2>1. h = Refused(p)
    BY <1>4 DEF HandleKill
  <2> QED
    BY <1>2, <2>1, CareRefused
<1>5. CASE p.state \in {"running", "suspended"} /\ p.process
  <2>1. h = [p EXCEPT !.todo = <<"stop", "saveCompleted">>]
    BY <1>5 DEF HandleKill
  <2> HIDE DEF p, h
  <2>2. /\ q \in Runner /\ q.job = p.job /\ q.from = c /\ q.loop = "on"
        /\ q.evictor = p.evictor /\ q.state = p.state /\ q.process
        /\ q.watched = p.watched /\ q.todo = <<"stop", "saveCompleted">>
    BY <1>1, <1>3, <1>5, <2>1 DEF Runner
  <2> HIDE DEF q
  <2>3. Goes(r, q)
    BY <1>2, <2>2, TakeGoes DEF p
  <2>4. /\ q.todo # <<"suspend", "saveCheckpointed">> /\ q.todo # <<"saveStarted">> /\ q.todo # <<>>
        /\ q.todo # <<"saveCheckpointed">>
    BY <2>2
  <2>5. p.todo # <<"saveCheckpointed">> /\ p.todo # <<"saveCompleted">>
    BY <1>1
  <2>6. \A b \in Callers : ~(Starting(b) /\ calls[b].runner = r)
    BY <1>1, <1>5 DEF Starting, Interrupted
  <2>7. Left(q) => Left(p)
    BY <1>1, <1>5, <2>2, <2>5 DEF Left
  <2>8. q.state \notin Terminal /\ q.state # "failed"
    BY <1>5, <2>2 DEF Terminal
  <2>9. Cares(r, q)
    BY <1>1, <1>2, <1>5, <2>2, <2>4, <2>6, <2>7, <2>8 DEF p, Cares, Fit, Interrupted, Retried
  <2>10. CASE p.state = "running"
    <3>1. Working(r)'
      BY <1>1, <2>2, <2>3, <2>4, <2>10, GoneWorks DEF Active
    <3> QED
      BY <1>1, <2>3, <2>9, <3>1, CareMoves
  <2>11. CASE p.state = "suspended"
    <3>1. ~Working(r)
      BY <1>5, <2>5, <2>11 DEF p, Working, Active, Terminal
    <3> QED
      BY <1>1, <1>2, <2>3, <2>9, <3>1, CareMoves DEF p
  <2> QED
    BY <1>5, <2>10, <2>11
<1>6. CASE p.state \in {"running", "suspended"} /\ ~p.process
  <2>1. h = [p EXCEPT !.state = "failed", !.todo = <<"saveCompleted">>]
    BY <1>6 DEF HandleKill
  <2> HIDE DEF p, h
  <2>2. /\ q \in Runner /\ q.job = p.job /\ q.from = c /\ q.loop = "on"
        /\ q.evictor = p.evictor /\ q.state = "failed" /\ q.process = p.process
        /\ q.watched = p.watched /\ q.todo = <<"saveCompleted">>
    BY <1>1, <1>3, <1>6, <2>1 DEF Runner, JobStates
  <2> HIDE DEF q
  <2>3. q.state \in Terminal /\ (q.watched => q.process)
    BY <1>1, <2>2 DEF Terminal, Fit
  <2> QED
    BY <1>2, <2>2, <2>3, CareTakesEnd DEF p
<1> QED
  BY <1>1, <1>4, <1>5, <1>6 DEF Runner

\* An exit the job has reported.
LEMMA CareTakeExit ==
  ASSUME IInv, CareInv, NEW c \in Callers, Take(c), NEW r, r = calls[c].runner,
         calls[c].op = "exit"
  PROVE  CareInv'
<1> DEFINE p == runners[r]
<1>1. /\ r \in DOMAIN runners /\ p \in Runner /\ p.job \in JobIds /\ p.loop = "on" /\ p.todo = <<>>
      /\ Fit(p)
  BY Awaiting DEF Take
<1>2. PICK code \in {"zero", "nonzero"} : Advance(r, [HandleExit(p, code) EXCEPT !.from = c])
  BY DEF Take, Handled
<1> DEFINE end == IF code = "zero" THEN "completed" ELSE "failed"
           h == [p EXCEPT !.state = end, !.result = code, !.todo = <<"saveCompleted">>]
           q == [h EXCEPT !.from = c]
<1>3. CASE p.state # "running"
  <2>1. HandleExit(p, code) = Refused(p)
    BY <1>3 DEF HandleExit
  <2> QED
    BY <1>2, <2>1, CareRefused
<1>4. CASE p.state = "running"
  <2>1. Advance(r, q)
    BY <1>2, <1>4 DEF HandleExit
  <2>2. <<"saveCompleted">> \in Seq(Ops)
    <3>1. <<"saveCompleted">> \in Plans
      BY Zenon DEF Plans
    <3> QED
      BY <3>1, PlanSteps
  <2>3. end \in Terminal /\ end \in JobStates /\ code \in Results
    BY DEF Terminal, JobStates, Results
  <2> HIDE DEF p, end
  <2>4. /\ q \in Runner /\ q.job = p.job /\ q.from = c /\ q.loop = "on"
        /\ q.evictor = p.evictor /\ q.state = end /\ q.process = p.process
        /\ q.watched = p.watched /\ q.todo = <<"saveCompleted">>
    BY <1>1, <2>2, <2>3 DEF Runner
  <2> HIDE DEF q
  <2>5. q.state \in Terminal /\ (q.watched => q.process)
    BY <1>1, <2>3, <2>4 DEF Fit
  <2> QED
    BY <2>1, <2>4, <2>5, CareTakesEnd DEF p
<1> QED
  BY <1>3, <1>4

\* Any of them.
LEMMA CareTake ==
  ASSUME IInv, CareInv, NEW c \in Callers, Take(c)
  PROVE  CareInv'
<1>1. calls[c].op \in {"start", "wake", "retry", "suspend", "snapshot", "kill", "exit"}
  BY DEF Take, IInv, Inv, TypeInv, TypeOK, CallShape, Call
<1> QED
  BY <1>1, CareTakeStart, CareTakeWake, CareTakeRetry, CareTakeCheckpoint, CareTakeKill, CareTakeExit

-----------------------------------------------------------------------------
(***************************************************************************)
(* The end of the container is noticed.                                    *)
(***************************************************************************)
\* handleProcessExited: the runner goes on until the row says what became of the job.
LEMMA CareNotice ==
  ASSUME IInv, CareInv, NEW r \in DOMAIN runners, Notice(r)
  PROVE  CareInv'
<1> DEFINE p == runners[r]
           done == <<"remove", "saveCompleted">>
           again == <<"remove", "savePendingRetry">>
<1>1. /\ p \in Runner /\ p.job \in JobIds /\ p.loop = "on" /\ p.todo = <<>> /\ p.watched
      /\ UNCHANGED <<rows, table, defined, stage, found, inMap, gaveUp, crashes>>
      /\ rows \in [JobIds -> Row] /\ Fit(p) /\ Resumable(rows[p.job])
  <2>1. /\ p \in Runner /\ p.loop = "on" /\ p.todo = <<>> /\ p.watched
        /\ UNCHANGED <<rows, table, defined, stage, found, inMap, gaveUp, crashes>>
        /\ rows \in [JobIds -> Row] /\ Fit(p)
    BY DEF Notice, Ready, IInv, Inv, TypeInv, TypeOK, CareInv, reads, db, bounds
  <2>2. p.job \in JobIds
    BY <2>1 DEF Runner
  <2> QED
    BY <2>1, <2>2 DEF CareInv
<1>2. p.state = "running" /\ p.process
  BY <1>1 DEF IInv, WatchInv, Watching, Fit
<1>3. PICK exit \in {"error", "zero", "nonzero"} :
        Advance(r, [ProcessExited(p, exit) EXCEPT !.watched = FALSE])
  BY DEF Notice
<1> DEFINE q == [ProcessExited(p, exit) EXCEPT !.watched = FALSE]
<1>4. /\ done \in Seq(Ops) /\ again \in Seq(Ops) /\ done # <<>> /\ again # <<>>
  <2>1. done \in Plans /\ again \in Plans
    BY Zenon DEF Plans
  <2> QED
    BY <2>1, PlanSteps
<1>5. /\ done # <<"suspend", "saveCheckpointed">> /\ done # <<"saveStarted">>
      /\ done # <<"saveCheckpointed">>
      /\ again # <<"suspend", "saveCheckpointed">> /\ again # <<"saveStarted">>
      /\ again # <<"saveCheckpointed">>
      /\ done # <<"saveCompleted">> /\ again # <<"saveCompleted">>
  OBVIOUS
<1> HIDE DEF done, again
<1>6. /\ q \in Runner /\ q.job = p.job /\ q.loop = "on" /\ q.from = p.from /\ ~q.watched
      /\ q.evictor = p.evictor
      /\ \/ q.todo = done /\ q.state \in Terminal
         \/ q.todo = again /\ q.state = "pending_retry"
  <2>1. /\ q \in Runner /\ q.job = p.job /\ q.loop = p.loop /\ q.from = p.from /\ ~q.watched
        /\ q.evictor = p.evictor
        /\ \/ q.todo = done /\ q.state \in Terminal
           \/ q.todo = again /\ q.state = "pending_retry"
    <3>1. p \in Runner
      BY <1>1
    <3> HIDE DEF p
    <3> QED
      BY <3>1, Exited, Zenon DEF done, again
  <2> HIDE DEF p, q
  <2> QED
    BY <1>1, <2>1
<1>7. Advance(r, q)
  BY <1>3
<1> HIDE DEF q, p
<1>8. Goes(r, q)
  BY <1>1, <1>6, <1>7 DEF p, Goes, WorksFor
<1>9. /\ q.todo # <<"suspend", "saveCheckpointed">> /\ q.todo # <<"saveStarted">>
      /\ q.todo # <<"saveCheckpointed">> /\ q.todo # <<>> /\ q.todo # <<"saveCompleted">>
  BY <1>4, <1>5, <1>6, Zenon
<1>10. q.state \notin {"running", "suspended"} /\ Active(q)
  BY <1>6, <1>9 DEF Active, Terminal
<1>11. ~Retried(q)
  BY <1>6 DEF Retried, Terminal, done
<1>12. \A b \in Callers : ~(Starting(b) /\ calls[b].runner = r)
  <2>1. p.todo # <<"saveCompleted">>
    BY <1>1
  <2> QED
    BY <1>1, <1>2, <2>1 DEF CareInv, CallCare, Interrupted, p
<1>13. Cares(r, q)
  BY <1>1, <1>6, <1>9, <1>10, <1>11, <1>12 DEF p, Cares, Interrupted, Left
<1>14. Working(r)'
  BY <1>8, <1>9, <1>10, GoneWorks
<1> QED
  BY <1>8, <1>13, <1>14, CareMoves

-----------------------------------------------------------------------------
(***************************************************************************)
(* Steps that leave the rows and what the runners do alone.                *)
(***************************************************************************)
\* The runners do what they did.
Alike ==
  /\ DOMAIN runners' = DOMAIN runners
  /\ \A s \in DOMAIN runners :
       /\ runners'[s].job = runners[s].job /\ runners'[s].state = runners[s].state
       /\ runners'[s].process = runners[s].process /\ runners'[s].watched = runners[s].watched
       /\ runners'[s].todo = runners[s].todo /\ runners'[s].loop = runners[s].loop
       /\ runners'[s].resumeAt = runners[s].resumeAt

\* What callers that do something leave in place: the jobs they insert and the starts they
\* have sent, commands to runners of their jobs, and the evictions they owe.
CallsAside ==
  \A c \in Callers :
    \/ calls'[c] = calls[c]
    \/ /\ calls[c].pc # "inserted"
       /\ calls[c].pc = "sent" => runners[calls[c].runner].loop = "done"
       /\ ~Starting(c)'
       /\ calls'[c].pc \in {"sent", "handling", "answered"} =>
            calls'[c].runner \in DOMAIN runners /\ runners[calls'[c].runner].job = calls'[c].job
       /\ calls'[c].op = "suspend" => c \in Clients
       /\ \A j \in JobIds : Evicts(c, j) => inMap'[j] = 0

\* Such a step keeps the invariant when it sees to the map and to the suspensions under way.
LEMMA CareAside ==
  ASSUME IInv, CareInv, Alike, CallsAside, UNCHANGED <<rows, table, found, stage, crashes>>,
         defined' => defined, gaveUp \subseteq gaveUp',
         \A j \in JobIds : inMap'[j] \in {0, inMap[j]},
         \A j \in JobIds : inMap'[j] # 0 =>
            runners'[inMap[j]].evictor \/ \E c \in Callers : Creates(c, j, inMap[j])',
         \A s \in DOMAIN runners : ReplyCare(s)'
  PROVE  CareInv'
<1>1. /\ DOMAIN runners' = DOMAIN runners
      /\ \A s \in DOMAIN runners :
           /\ runners[s] \in Runner /\ runners[s].job \in JobIds
           /\ runners'[s].job = runners[s].job /\ runners'[s].loop = runners[s].loop
           /\ runners'[s].state = runners[s].state /\ runners'[s].todo = runners[s].todo
           /\ runners'[s].watched = runners[s].watched
           /\ Fit(runners'[s]) <=> Fit(runners[s])
           /\ Interrupted(runners'[s]) <=> Interrupted(runners[s])
           /\ Active(runners'[s]) <=> Active(runners[s])
           /\ Retried(runners'[s]) <=> Retried(runners[s])
           /\ Left(runners'[s]) <=> Left(runners[s])
  <2>1. runners \in Seq(Runner)
    BY DEF IInv, Inv, TypeInv, TypeOK
  <2>2. \A s \in DOMAIN runners : runners[s] \in Runner /\ runners[s].job \in JobIds
    <3> SUFFICES ASSUME NEW s \in DOMAIN runners
                 PROVE  runners[s] \in Runner /\ runners[s].job \in JobIds
      OBVIOUS
    <3>1. runners[s] \in Runner
      BY <2>1
    <3> QED
      BY <3>1, Zenon DEF Runner
  <2>3. ASSUME NEW s \in DOMAIN runners
        PROVE  /\ Fit(runners'[s]) <=> Fit(runners[s])
               /\ Interrupted(runners'[s]) <=> Interrupted(runners[s])
               /\ Active(runners'[s]) <=> Active(runners[s])
               /\ Retried(runners'[s]) <=> Retried(runners[s])
               /\ Left(runners'[s]) <=> Left(runners[s])
    <3> DEFINE p == runners[s]
               q == runners'[s]
    <3>1. /\ q.loop = p.loop /\ q.state = p.state /\ q.todo = p.todo /\ q.process = p.process
          /\ q.watched = p.watched /\ q.resumeAt = p.resumeAt
      BY <2>3 DEF Alike
    <3> HIDE DEF p, q
    <3>2. Fit(q) <=> Fit(p)
      BY <3>1, Zenon DEF Fit
    <3>3. Active(q) <=> Active(p)
      BY <3>1, Zenon DEF Active
    <3>4. Retried(q) <=> Retried(p)
      BY <3>1, <3>3, Zenon DEF Retried
    <3>5. (Interrupted(q) <=> Interrupted(p)) /\ (Left(q) <=> Left(p))
      BY <3>1, Zenon DEF Interrupted, Left
    <3> QED
      BY <3>2, <3>3, <3>4, <3>5 DEF p, q
  <2> QED
    BY <2>2, <2>3 DEF Alike
<1>2. \A j \in JobIds : Resumable(rows[j])' /\ MapCare(j)'
  <2> SUFFICES ASSUME NEW j \in JobIds PROVE Resumable(rows[j])' /\ MapCare(j)'
    OBVIOUS
  <2>1. inMap[j] # 0 => inMap[j] \in DOMAIN runners /\ runners[inMap[j]].job = j
    <3>1. inMap[j] \in 0..Len(runners) /\ runners \in Seq(Runner)
      BY DEF IInv, Inv, TypeInv, TypeOK
    <3> QED
      BY <3>1 DEF CareInv, MapCare
  <2>2. MapCare(j)'
    BY <1>1, <2>1 DEF MapCare
  <2> QED
    BY <2>2 DEF CareInv
<1>3. \A s \in DOMAIN runners :
        Fit(runners[s])' /\ InterruptedCare(s)' /\ RetriedCare(s)'
  BY <1>1 DEF CareInv, InterruptedCare, RetriedCare
<1>4. \A s \in DOMAIN runners : LeftCare(s)'
  <2> SUFFICES ASSUME NEW s \in DOMAIN runners, NEW j, j = runners[s].job,
                      Left(runners[s]), inMap'[j] = s
               PROVE  j \in gaveUp' \/ \E c \in Clients : Evicts(c, j)'
    BY <1>1 DEF LeftCare
  <2>1. s # 0 /\ j \in JobIds
    <3>1. runners \in Seq(Runner)
      BY DEF IInv, Inv, TypeInv
    <3> QED
      BY <1>1, <3>1
  <2>2. inMap[j] = s
    BY <2>1
  <2>3. CASE j \in gaveUp
    BY <2>3
  <2>4. CASE \E c \in Clients : Evicts(c, j)
    <3>1. PICK c \in Clients : Evicts(c, j)
      BY <2>4
    <3>2. calls'[c] = calls[c]
      BY <2>1, <3>1 DEF CallsAside, Callers
    <3> QED
      BY <3>1, <3>2 DEF Evicts
  <2> QED
    BY <2>2, <2>3, <2>4 DEF CareInv, LeftCare
<1>5. \A c \in Callers : CallCare(c)'
  <2> SUFFICES ASSUME NEW c \in Callers PROVE CallCare(c)'
    OBVIOUS
  <2>1. CallCare(c) /\ CallShape(c)
    BY DEF CareInv, IInv, Inv, TypeInv
  <2>2. CASE calls'[c] = calls[c]
    <3>1. calls[c].pc \in {"sent", "handling", "answered"} => calls[c].runner \in DOMAIN runners
      BY <2>1 DEF CallShape
    <3>2. \A b \in Callers : Starting(b)' => calls'[b] = calls[b] /\ Starting(b)
      BY DEF CallsAside, Starting
    <3>3. Starting(c)' => \A b \in Callers :
            Starting(b)' /\ calls'[b].runner = calls'[c].runner => b = c
      BY <2>1, <3>2 DEF CallCare
    <3>4. /\ calls'[c].pc \in {"sent", "handling", "answered"} =>
               runners'[calls'[c].runner].job = calls'[c].job
          /\ calls'[c].op = "suspend" => c \in Clients
      BY <1>1, <2>1, <2>2, <3>1 DEF CallCare
    <3>5. ASSUME Starting(c)', runners'[calls'[c].runner].loop = "on"
          PROVE  LET t == runners'[calls'[c].runner] IN
                 \/ t.todo = <<>> /\ (t.state = "pending" \/ Interrupted(t))
                 \/ t.todo = <<"saveCompleted">>
      BY <1>1, <2>1, <2>2, <3>1, <3>2, <3>5 DEF CallCare, Starting
    <3> QED
      BY <3>3, <3>4, <3>5 DEF CallCare
  <2>3. CASE calls'[c] # calls[c]
    <3>1. /\ ~Starting(c)'
          /\ calls'[c].pc \in {"sent", "handling", "answered"} =>
               calls'[c].runner \in DOMAIN runners /\ runners[calls'[c].runner].job = calls'[c].job
          /\ calls'[c].op = "suspend" => c \in Clients
      BY <2>3 DEF CallsAside
    <3> QED
      BY <1>1, <3>1 DEF CallCare
  <2> QED
    BY <2>2, <2>3
<1>6. FoundCare'
  BY DEF CareInv, FoundCare
<1>7. HeldInv'
  <2> SUFFICES ASSUME NEW j \in table, Held(j) PROVE Held(j)'
    BY DEF CareInv, HeldInv
  <2>1. CASE \E d \in found : Claimed(d) /\ d.id = j
    BY <2>1 DEF Held
  <2>2. CASE \E c \in Callers : Inserting(c, j)
    <3>1. PICK c \in Callers : Inserting(c, j)
      BY <2>2
    <3>2. Inserting(c, j)'
      BY <3>1 DEF Inserting, CallsAside
    <3> QED
      BY <3>2 DEF Held
  <2>3. CASE \E s \in RunnersOf(j) : Working(s)
    <3>1. PICK s \in RunnersOf(j) : Working(s)
      BY <2>3
    <3>2. s \in DOMAIN runners /\ runners[s].loop = "on" /\ s \in RunnersOf(j)'
      BY <1>1, <3>1 DEF RunnersOf, Working
    <3>3. Starts(s) => Starts(s)'
      <4> SUFFICES ASSUME NEW c \in Callers, calls[c].pc = "sent", calls[c].op \in {"start", "wake"},
                          calls[c].runner = s
                   PROVE  Starts(s)'
        BY DEF Starts
      <4>1. calls'[c] = calls[c]
        BY <3>2 DEF CallsAside
      <4> QED
        BY <4>1 DEF Starts
    <3>4. Working(s)'
      BY <1>1, <3>1, <3>2, <3>3 DEF Working
    <3> QED
      BY <3>2, <3>4 DEF Held
  <2>4. CASE Abandoned(j)
    <3>1. Abandoned(j)'
      BY <2>4 DEF Abandoned
    <3> QED
      BY <3>1 DEF Held
  <2> QED
    BY <2>1, <2>2, <2>3, <2>4 DEF Held
<1> QED
  BY <1>1, <1>2, <1>3, <1>4, <1>5, <1>6, <1>7 DEF CareInv

\* The suspensions under way, when the handlers and whoever they work for go on.
LEMMA RepliesAside ==
  ASSUME IInv, CareInv, Alike, \A s \in DOMAIN runners : runners'[s].from = runners[s].from,
         \A c \in Callers : calls[c].pc = "handling" => calls'[c] = calls[c],
         gaveUp \subseteq gaveUp'
  PROVE  \A s \in DOMAIN runners : ReplyCare(s)'
<1> TAKE s \in DOMAIN runners
<1> DEFINE q == runners[s]
<1>1. ReplyCare(s) /\ RunnerShape(s) /\ q \in Runner
  BY DEF CareInv, IInv, Inv, TypeInv, TypeOK
<1>2. q.from # None => q.from \in Callers /\ calls'[q.from] = calls[q.from]
  BY <1>1 DEF RunnerShape, Runner
<1>3. q.todo = <<"suspend", "saveCheckpointed">> => q.from # None
  BY <1>1 DEF RunnerShape, Shape
<1>4. /\ runners'[s].from = q.from /\ runners'[s].todo = q.todo /\ runners'[s].state = q.state
      /\ runners'[s].job = q.job
  BY DEF Alike
<1> QED
  BY <1>1, <1>2, <1>3, <1>4 DEF ReplyCare

\* Steps in which the callers do nothing.
LEMMA CareIdle ==
  ASSUME IInv, CareInv,
         (\E j \in JobIds : ContainerEnds(j)) \/ UnregisterJobDefinition \/ Round \/ UNCHANGED vars
  PROVE  CareInv'
<1>1. /\ UNCHANGED <<table, rows, stage, found, runners, inMap, calls, gaveUp, crashes>>
      /\ defined' => defined
  BY DEF ContainerEnds, UnregisterJobDefinition, Round, vars, db, reads, bounds
<1>2. Alike
  BY <1>1 DEF Alike
<1>3. CallsAside
  BY <1>1 DEF CallsAside
<1>4. \A s \in DOMAIN runners : ReplyCare(s)'
  BY <1>1, <1>2, RepliesAside
<1>5. \A j \in JobIds : inMap[j] # 0 =>
        runners[inMap[j]].evictor \/ \E c \in Callers : Creates(c, j, inMap[j])
  BY DEF CareInv, MapCare
<1>6. \A j \in JobIds : inMap'[j] # 0 =>
        runners'[inMap[j]].evictor \/ \E c \in Callers : Creates(c, j, inMap[j])'
  BY <1>1, <1>5 DEF Creates
<1> QED
  BY <1>1, <1>2, <1>3, <1>4, <1>6, CareAside

\* A command that comes when the loop has ended.
LEMMA CareStopped ==
  ASSUME IInv, CareInv, NEW c \in Callers, Stopped(c)
  PROVE  CareInv'
<1>1. /\ calls[c].pc = "sent" /\ runners[calls[c].runner].loop = "done"
      /\ calls' = [calls EXCEPT ![c] = [calls[c] EXCEPT !.pc = "answered", !.ok = FALSE,
                                                        !.seen = runners[calls[c].runner].state]]
      /\ UNCHANGED <<table, rows, defined, stage, found, runners, inMap, gaveUp, crashes>>
  BY DEF Stopped, db, reads, bounds
<1>2. calls \in [Callers -> Call] /\ CallShape(c) /\ CallCare(c)
  BY DEF IInv, Inv, TypeInv, TypeOK, CareInv
<1>3. /\ calls'[c].pc = "answered" /\ calls'[c].op = calls[c].op /\ calls'[c].job = calls[c].job
      /\ calls'[c].runner = calls[c].runner
      /\ \A b \in Callers : b # c => calls'[b] = calls[b]
  <2>1. calls[c] \in Call /\ calls'[c] = [calls[c] EXCEPT !.pc = "answered", !.ok = FALSE,
                                                          !.seen = runners[calls[c].runner].state]
    BY <1>1, <1>2
  <2> QED
    BY <1>1, <1>2, <2>1 DEF Call
<1>4. Alike
  BY <1>1 DEF Alike
<1>5. CallsAside
  <2>1. calls[c].runner \in DOMAIN runners /\ runners[calls[c].runner].job = calls[c].job
        /\ (calls[c].op = "suspend" => c \in Clients)
    BY <1>1, <1>2 DEF CallShape, CallCare
  <2> QED
    BY <1>1, <1>3, <2>1 DEF CallsAside, Starting, Evicts
<1>6. \A s \in DOMAIN runners : ReplyCare(s)'
  <2>1. \A b \in Callers : calls[b].pc = "handling" => calls'[b] = calls[b]
    BY <1>1, <1>3
  <2> QED
    BY <1>1, <1>4, <2>1, RepliesAside
<1>7. \A j \in JobIds : inMap[j] # 0 =>
        runners[inMap[j]].evictor \/ \E b \in Callers : Creates(b, j, inMap[j])
  BY DEF CareInv, MapCare
<1>8. \A b \in Callers, j \in JobIds : Creates(b, j, inMap[j]) => Creates(b, j, inMap[j])'
  BY <1>1, <1>3 DEF Creates
<1>9. \A j \in JobIds : inMap'[j] # 0 =>
        runners'[inMap[j]].evictor \/ \E b \in Callers : Creates(b, j, inMap[j])'
  BY <1>1, <1>7, <1>8
<1> QED
  BY <1>1, <1>4, <1>5, <1>6, <1>9, CareAside

\* What callers do with the reply: the eviction they owe, or the goroutine that will do it.
LEMMA CareConclude ==
  ASSUME IInv, CareInv, NEW c \in Callers, Conclude(c)
  PROVE  CareInv'
<1> DEFINE call == calls[c]
<1>0. PICK r : r = calls[c].runner
  OBVIOUS
<1>1. /\ call.pc = "answered" /\ calls' = [calls EXCEPT ![c] = AtRest]
      /\ UNCHANGED <<table, rows, defined, stage, found, gaveUp, crashes>>
  BY DEF Conclude, db, reads, bounds
<1>2. /\ calls \in [Callers -> Call] /\ CallShape(c) /\ CallCare(c) /\ call \in Call
      /\ runners \in Seq(Runner) /\ inMap \in [JobIds -> 0..Len(runners)]
  BY DEF IInv, Inv, TypeInv, TypeOK, CareInv
<1>3. r \in DOMAIN runners /\ runners[r] \in Runner /\ call.job \in JobIds /\ runners[r].job = call.job
  BY <1>0, <1>1, <1>2 DEF CallShape, CallCare
<1>4. /\ calls'[c] = AtRest /\ AtRest.pc = "idle" /\ AtRest.op = "none"
      /\ \A b \in Callers : b # c => calls'[b] = calls[b]
  BY <1>1, <1>2 DEF AtRest
<1>5. \/ /\ call.op \in {"suspend", "snapshot"} /\ call.ok /\ Evictable(call.seen)
         /\ Evict(call.job) /\ runners' = runners
      \/ /\ call.op \in {"start", "wake", "retry"} /\ call.ok
         /\ runners' = [runners EXCEPT ![r] = [runners[r] EXCEPT !.evictor = TRUE]]
         /\ inMap' = inMap
      \/ /\ call.op \in {"start", "wake", "retry"} /\ ~call.ok
         /\ Evict(call.job) /\ runners' = runners
      \/ /\ call.op \notin {"start", "wake", "retry"}
         /\ ~(call.op \in {"suspend", "snapshot"} /\ call.ok /\ Evictable(call.seen))
         /\ runners' = runners /\ inMap' = inMap
  <2>1. CASE call.op \in {"suspend", "snapshot"} /\ call.ok /\ Evictable(call.seen)
    BY <2>1 DEF Conclude
  <2>2. CASE call.op \in {"start", "wake", "retry"} /\ call.ok
    <3>1. runners' = [runners EXCEPT ![calls[c].runner].evictor = TRUE] /\ inMap' = inMap
      BY <2>2 DEF Conclude
    <3> QED
      BY <1>0, <2>2, <3>1
  <2>3. CASE call.op \in {"start", "wake", "retry"} /\ ~call.ok
    <3>1. call.op # "start" => runners[r].loop = "done"
      BY <1>0, <1>1, <1>2, <2>3 DEF CallShape
    <3>2. /\ Evict(call.job)
          /\ runners' = [runners EXCEPT ![calls[c].runner].loop = IF call.op = "start" THEN @ ELSE "done"]
      BY <2>3 DEF Conclude
    <3>3. runners' = [runners EXCEPT ![r] = [runners[r] EXCEPT !.loop = runners[r].loop]]
      BY <1>0, <3>1, <3>2
    <3>4. [runners[r] EXCEPT !.loop = runners[r].loop] = runners[r]
      BY <1>3 DEF Runner
    <3>5. runners' = runners
      BY <1>2, <1>3, <3>3, <3>4
    <3> QED
      BY <2>3, <3>2, <3>5
  <2>4. CASE /\ ~(call.op \in {"suspend", "snapshot"} /\ call.ok /\ Evictable(call.seen))
             /\ ~(call.op \in {"start", "wake", "retry"} /\ call.ok)
             /\ ~(call.op \in {"start", "wake", "retry"} /\ ~call.ok)
    <3>1. runners' = runners /\ inMap' = inMap
      BY <2>4 DEF Conclude
    <3> QED
      BY <2>4, <3>1
  <2> QED
    BY <2>1, <2>2, <2>3, <2>4
<1>6. /\ DOMAIN runners' = DOMAIN runners
      /\ \A s \in DOMAIN runners : s # r => runners'[s] = runners[s]
      /\ runners'[r] = runners[r] \/ runners'[r] = [runners[r] EXCEPT !.evictor = TRUE]
      /\ call.op \in {"start", "wake", "retry"} /\ call.ok => runners'[r].evictor
  <2>1. CASE runners' = runners
    BY <1>3, <1>5, <2>1 DEF Runner
  <2>2. CASE runners' = [runners EXCEPT ![r] = [runners[r] EXCEPT !.evictor = TRUE]]
    BY <1>2, <1>3, <2>2 DEF Runner
  <2> QED
    BY <1>5, <2>1, <2>2
<1>7. Alike /\ \A s \in DOMAIN runners : runners'[s].from = runners[s].from
  BY <1>3, <1>6 DEF Alike, Runner
<1>8. \A j \in JobIds : /\ inMap'[j] \in {0, inMap[j]}
                        /\ Evict(call.job) /\ j = call.job => inMap'[j] = 0
                        /\ j # call.job => inMap'[j] = inMap[j]
  BY <1>2, <1>3, <1>5 DEF Evict
<1>9. CallsAside
  <2>1. ASSUME NEW j \in JobIds, Evicts(c, j) PROVE inMap'[j] = 0
    <3>1. call.job = j /\ call.op = "suspend" /\ call.ok /\ Evictable(call.seen)
      BY <2>1 DEF Evicts, Evictable
    <3>2. Evict(call.job)
      BY <1>5, <3>1
    <3> QED
      BY <1>8, <3>1, <3>2
  <2> QED
    BY <1>1, <1>4, <2>1 DEF CallsAside, Starting
<1>10. \A s \in DOMAIN runners : ReplyCare(s)'
  <2>1. \A b \in Callers : calls[b].pc = "handling" => calls'[b] = calls[b]
    BY <1>1, <1>4
  <2> QED
    BY <1>1, <1>7, <2>1, RepliesAside
<1>11. ASSUME NEW j \in JobIds, inMap'[j] # 0
       PROVE  runners'[inMap[j]].evictor \/ \E b \in Callers : Creates(b, j, inMap[j])'
  <2>1. inMap'[j] = inMap[j] /\ inMap[j] # 0
    BY <1>8, <1>11
  <2>2. inMap[j] \in DOMAIN runners
    BY <1>2, <2>1
  <2>3. runners[inMap[j]].evictor \/ \E b \in Callers : Creates(b, j, inMap[j])
    BY <2>1 DEF CareInv, MapCare
  <2>4. CASE runners[inMap[j]].evictor
    <3>1. runners'[inMap[j]].evictor
      BY <1>3, <1>6, <2>2, <2>4 DEF Runner
    <3> QED
      BY <3>1
  <2>5. ASSUME NEW b \in Callers, b # c, Creates(b, j, inMap[j]) PROVE Creates(b, j, inMap[j])'
    BY <1>4, <2>1, <2>5 DEF Creates
  <2>6. CASE Creates(c, j, inMap[j])
    <3>1. call.job = j /\ call.op \in {"start", "wake", "retry"} /\ inMap[j] = r
      BY <1>0, <2>6 DEF Creates
    <3>2. call.ok
      BY <1>5, <1>8, <1>11, <3>1
    <3>3. runners'[r].evictor
      BY <1>6, <3>1, <3>2
    <3> QED
      BY <3>1, <3>3
  <2> QED
    BY <2>3, <2>4, <2>5, <2>6
<1> QED
  BY <1>1, <1>7, <1>8, <1>9, <1>10, <1>11, CareAside

\* The goroutine that waits for Done: a runner that is done can be evicted.
LEMMA CareEvictDone ==
  ASSUME IInv, CareInv, NEW r \in DOMAIN runners, EvictDone(r)
  PROVE  CareInv'
<1> DEFINE k == runners[r].job
<1>1. /\ runners[r].loop = "done"
      /\ runners' = [runners EXCEPT ![r] = [runners[r] EXCEPT !.evictor = FALSE]]
      /\ Evictable(runners[r].state) => inMap' = [inMap EXCEPT ![k] = 0]
      /\ UNCHANGED <<table, rows, defined, stage, found, calls, gaveUp, crashes>>
  BY DEF EvictDone, Evict, db, reads, bounds
<1>2. /\ runners \in Seq(Runner) /\ runners[r] \in Runner /\ k \in JobIds
      /\ inMap \in [JobIds -> 0..Len(runners)] /\ Fit(runners[r])
  BY DEF IInv, Inv, TypeInv, TypeOK, CareInv, Runner
<1>3. inMap' = [inMap EXCEPT ![k] = 0]
  BY <1>1, <1>2 DEF Fit, Evictable
<1>4. /\ DOMAIN runners' = DOMAIN runners
      /\ \A s \in DOMAIN runners : s # r => runners'[s] = runners[s]
      /\ runners'[r] = [runners[r] EXCEPT !.evictor = FALSE]
  BY <1>1, <1>2
<1>5. Alike /\ \A s \in DOMAIN runners : runners'[s].from = runners[s].from
  <2>1. /\ runners'[r].job = runners[r].job /\ runners'[r].state = runners[r].state
        /\ runners'[r].process = runners[r].process /\ runners'[r].watched = runners[r].watched
        /\ runners'[r].todo = runners[r].todo /\ runners'[r].loop = runners[r].loop
        /\ runners'[r].resumeAt = runners[r].resumeAt /\ runners'[r].from = runners[r].from
    BY <1>2, <1>4 DEF Runner
  <2>2. \A s \in DOMAIN runners : s = r \/ runners'[s] = runners[s]
    BY <1>4
  <2> QED
    BY <1>4, <2>1, <2>2, Zenon DEF Alike
<1>6. CallsAside
  BY <1>1 DEF CallsAside
<1>7. \A s \in DOMAIN runners : ReplyCare(s)'
  BY <1>1, <1>5, RepliesAside
<1>8. \A j \in JobIds : inMap'[j] \in {0, inMap[j]}
  BY <1>2, <1>3
<1>9. ASSUME NEW j \in JobIds, inMap'[j] # 0
      PROVE  runners'[inMap[j]].evictor \/ \E b \in Callers : Creates(b, j, inMap[j])'
  <2>1. j # k /\ inMap[j] # 0 /\ inMap[j] \in DOMAIN runners /\ inMap'[j] = inMap[j]
    BY <1>2, <1>3, <1>9
  <2>2. /\ runners[inMap[j]].job = j
        /\ runners[inMap[j]].evictor \/ \E b \in Callers : Creates(b, j, inMap[j])
    BY <2>1 DEF CareInv, MapCare
  <2>3. inMap[j] # r
    BY <2>1, <2>2
  <2>4. \A b \in Callers : Creates(b, j, inMap[j]) => Creates(b, j, inMap[j])'
    BY <1>1, <2>1 DEF Creates
  <2> QED
    BY <1>4, <2>1, <2>2, <2>3, <2>4
<1> QED
  BY <1>1, <1>5, <1>6, <1>7, <1>8, <1>9, CareAside

\* A client sends a command to the runner in the map.
LEMMA CareSendCommand ==
  ASSUME IInv, CareInv, NEW c \in Clients, NEW j \in JobIds, NEW m \in Requests,
         SendCommand(c, j, m[1], m[2])
  PROVE  CareInv'
<1>1. /\ calls' = [calls EXCEPT ![c] = [AtRest EXCEPT !.pc = "sent", !.op = m[1], !.job = j,
                                                      !.runner = inMap[j], !.token = m[2]]]
      /\ calls[c].pc = "idle" /\ inMap[j] # 0
      /\ UNCHANGED <<table, rows, defined, stage, found, runners, inMap, gaveUp, crashes>>
  BY DEF SendCommand, Idle, db, reads
<1>2. /\ calls \in [Callers -> Call] /\ c \in Callers /\ CallShape(c)
      /\ runners \in Seq(Runner) /\ inMap \in [JobIds -> 0..Len(runners)]
  BY DEF IInv, Inv, TypeInv, TypeOK, Callers
<1>3. m[1] \in {"suspend", "snapshot", "kill", "exit"}
  BY HypervisorAssumption DEF Requests
<1>4. /\ calls'[c].pc = "sent" /\ calls'[c].op = m[1] /\ calls'[c].job = j
      /\ calls'[c].runner = inMap[j]
      /\ \A b \in Callers : b # c => calls'[b] = calls[b]
      /\ calls[c].op = "none"
  BY <1>1, <1>2 DEF AtRest, CallShape
<1>5. inMap[j] \in DOMAIN runners /\ runners[inMap[j]].job = j
  BY <1>1, <1>2 DEF CareInv, MapCare
<1>6. Alike
  BY <1>1 DEF Alike
<1>7. CallsAside
  BY <1>1, <1>3, <1>4, <1>5 DEF CallsAside, Starting, Evicts
<1>8. \A s \in DOMAIN runners : ReplyCare(s)'
  <2>1. \A b \in Callers : calls[b].pc = "handling" => calls'[b] = calls[b]
    BY <1>1, <1>4
  <2> QED
    BY <1>1, <1>6, <2>1, RepliesAside
<1>9. \A i \in JobIds : inMap[i] # 0 =>
        runners[inMap[i]].evictor \/ \E b \in Callers : Creates(b, i, inMap[i])
  BY DEF CareInv, MapCare
<1>10. \A b \in Callers, i \in JobIds : Creates(b, i, inMap[i]) => Creates(b, i, inMap[i])'
  BY <1>1, <1>4 DEF Creates
<1>11. \A i \in JobIds : inMap'[i] # 0 =>
         runners'[inMap[i]].evictor \/ \E b \in Callers : Creates(b, i, inMap[i])'
  BY <1>1, <1>9, <1>10
<1> QED
  BY <1>1, <1>6, <1>7, <1>8, <1>11, CareAside

\* A client leaves before the suspension is written: it has given up.
LEMMA CareGiveUp ==
  ASSUME IInv, CareInv, NEW c \in Clients, GiveUp(c)
  PROVE  CareInv'
<1>0. PICK r : r = calls[c].runner
  OBVIOUS
<1> DEFINE p == runners[r]
           q == [p EXCEPT !.from = None]
<1>1. /\ calls[c].pc = "handling" /\ Head(p.todo) = "saveCheckpointed" /\ calls[c].op = "suspend"
      /\ runners' = [runners EXCEPT ![r] = q]
      /\ calls' = [calls EXCEPT ![c] = AtRest]
      /\ gaveUp' = gaveUp \cup {p.job}
      /\ UNCHANGED <<table, rows, defined, stage, found, inMap, crashes>>
  BY <1>0 DEF GiveUp, db, reads, bounds
<1>2. /\ runners \in Seq(Runner) /\ calls \in [Callers -> Call] /\ c \in Callers /\ CallShape(c)
      /\ inMap \in [JobIds -> 0..Len(runners)]
  BY DEF IInv, Inv, TypeInv, TypeOK, Callers
<1>3. r \in DOMAIN runners /\ p \in Runner /\ p.from = c
  BY <1>0, <1>1, <1>2 DEF CallShape, IInv, Inv, TypeInv, TypeOK
<1>4. p.todo = <<"saveCheckpointed">>
  <2>1. p.todo \in Plans \/ p.todo = <<>>
    BY <1>3 DEF IInv, Inv, TypeInv, RunnerShape, Shape
  <2>2. p.todo # <<>>
    <3>1. Shape(p) /\ c # None
      BY <1>2, <1>3, HypervisorAssumption DEF IInv, Inv, TypeInv, RunnerShape
    <3> QED
      BY <1>3, <3>1 DEF Shape
  <2> QED
    BY <1>1, <2>1, <2>2, PlanSteps
<1>5. /\ q.job = p.job /\ q.state = p.state /\ q.process = p.process /\ q.todo = p.todo
      /\ q.loop = p.loop /\ q.watched = p.watched /\ q.resumeAt = p.resumeAt /\ q.from = None
      /\ q.evictor = p.evictor
  BY <1>3 DEF Runner
<1> HIDE DEF q, p
<1>6. /\ DOMAIN runners' = DOMAIN runners /\ runners'[r] = q
      /\ \A s \in DOMAIN runners : s # r => runners'[s] = runners[s]
  BY <1>1, <1>2, <1>3
<1>7. /\ calls'[c] = AtRest /\ AtRest.pc = "idle" /\ AtRest.op = "none"
      /\ \A b \in Callers : b # c => calls'[b] = calls[b]
  BY <1>1, <1>2 DEF AtRest
<1>8. Alike
  BY <1>5, <1>6 DEF p, Alike
<1>9. CallsAside
  BY <1>1, <1>7 DEF CallsAside, Starting, Evicts
<1>10. ASSUME NEW s \in DOMAIN runners PROVE ReplyCare(s)'
  <2>1. CASE s = r
    <3>1. q.todo # <<"suspend", "saveCheckpointed">>
      BY <1>4, <1>5
    <3> QED
      BY <1>1, <1>5, <1>6, <2>1, <3>1 DEF ReplyCare
  <2>2. CASE s # r
    <3>1. runners'[s] = runners[s] /\ ReplyCare(s) /\ RunnerShape(s) /\ runners[s] \in Runner
      BY <1>6, <2>2 DEF CareInv, IInv, Inv, TypeInv, TypeOK
    <3>2. runners[s].from # None => runners[s].from \in Callers /\ runners[s].from # c
      BY <1>0, <2>2, <3>1 DEF RunnerShape, Runner
    <3>3. runners[s].from # None => calls'[runners[s].from] = calls[runners[s].from]
      BY <1>7, <3>2
    <3>4. runners[s].todo = <<"suspend", "saveCheckpointed">> => runners[s].from # None
      BY <3>1 DEF RunnerShape, Shape
    <3> QED
      BY <1>1, <3>1, <3>3, <3>4 DEF ReplyCare
  <2> QED
    BY <2>1, <2>2
<1>11. ASSUME NEW j \in JobIds, inMap'[j] # 0
       PROVE  runners'[inMap[j]].evictor \/ \E b \in Callers : Creates(b, j, inMap[j])'
  <2>1. inMap[j] # 0 /\ inMap[j] \in DOMAIN runners
    BY <1>1, <1>2, <1>11
  <2>2. runners[inMap[j]].evictor \/ \E b \in Callers : Creates(b, j, inMap[j])
    BY <2>1 DEF CareInv, MapCare
  <2>3. runners[inMap[j]].evictor => runners'[inMap[j]].evictor
    BY <1>5, <1>6, <2>1 DEF p
  <2>4. \A b \in Callers : Creates(b, j, inMap[j]) => Creates(b, j, inMap[j])'
    BY <1>1, <1>7 DEF Creates
  <2> QED
    BY <2>2, <2>3, <2>4
<1> QED
  BY <1>1, <1>8, <1>9, <1>10, <1>11, CareAside

-----------------------------------------------------------------------------
(***************************************************************************)
(* Runners are made, and rows that were read are dropped.                  *)
(***************************************************************************)
\* Caller c makes a runner: it is at work on the job, and c sees to the map.
LEMMA CareMade ==
  ASSUME IInv, CareInv, NEW c \in Callers, NEW op \in {"start", "wake", "retry"},
         NEW j \in JobIds, NEW row \in Row, MakeRunner(c, op, j, row),
         calls[c].pc = "idle" \/ (calls[c].pc = "inserted" /\ calls[c].job = j),
         op = "start" => row.state \in {"pending", "running"},
         op = "start" /\ row.state = "running" =>
           crashes > 0 /\ rows[j].state \in {"running"} \cup Terminal /\ ~rows[j].checkpointPath,
         op = "retry" => rows[j].state \in {"pending_retry"} \cup Terminal,
         found' \subseteq found, \A d \in found : d.id = j \/ d \in found',
         UNCHANGED <<table, rows, defined, stage, gaveUp, crashes>>
  PROVE  CareInv'
<1>0. PICK n \in Nat : n = Len(runners) + 1
  BY DEF IInv, Inv, TypeInv
<1> DEFINE q == NewJobRunner(op, j, row)
           call == [AtRest EXCEPT !.pc = "sent", !.op = op, !.job = j, !.runner = n]
<1>1. /\ runners \in Seq(Runner) /\ calls \in [Callers -> Call]
      /\ inMap \in [JobIds -> 0..Len(runners)]
      /\ \A s \in DOMAIN runners : runners[s] \in Runner /\ runners[s].job \in JobIds
  BY DEF IInv, Inv, TypeInv, TypeOK, Runner
<1>2. runners' = Append(runners, q) /\ inMap' = [inMap EXCEPT ![j] = n]
      /\ calls' = [calls EXCEPT ![c] = call]
  BY <1>0 DEF MakeRunner
<1>3. /\ q.job = j /\ ~q.process /\ ~q.watched /\ q.loop = "on" /\ q.todo = <<>>
      /\ op = "start" => q.state \in {"pending", "running"} /\ q.state = row.state
      /\ op = "wake" => q.state = "suspended"
      /\ op = "retry" => q.state = "failed"
  BY DEF NewJobRunner
<1>4. call.pc = "sent" /\ call.op = op /\ call.job = j /\ call.runner = n
  BY DEF AtRest
<1> HIDE DEF q, call
<1>5. /\ DOMAIN runners' = DOMAIN runners \cup {n} /\ n \notin DOMAIN runners /\ n # 0
      /\ runners'[n] = q /\ \A s \in DOMAIN runners : runners'[s] = runners[s]
  BY <1>0, <1>1, <1>2
<1>6. /\ calls'[c] = call /\ \A b \in Callers : b # c => calls'[b] = calls[b]
      /\ inMap'[j] = n /\ \A i \in JobIds : i # j => inMap'[i] = inMap[i]
  BY <1>1, <1>2
<1>7. q.todo # <<"saveStarted">> /\ q.todo # <<"saveCheckpointed">>
      /\ q.todo # <<"suspend", "saveCheckpointed">>
  BY <1>3
<1>8. \A b \in Callers : calls[b].pc \in {"sent", "handling", "answered"} =>
        b # c /\ calls[b].runner \in DOMAIN runners
  BY DEF IInv, Inv, TypeInv, CallShape
<1>9. \A i \in JobIds : Resumable(rows[i])' /\ MapCare(i)'
  <2> SUFFICES ASSUME NEW i \in JobIds PROVE MapCare(i)'
    BY DEF CareInv
  <2>1. CASE i = j
    <3>1. Creates(c, j, n)'
      BY <1>4, <1>6 DEF Creates
    <3> QED
      BY <1>3, <1>5, <1>6, <2>1, <3>1 DEF MapCare
  <2>2. CASE i # j
    <3>1. inMap'[i] = inMap[i] /\ (inMap[i] # 0 => inMap[i] \in DOMAIN runners)
      BY <1>1, <1>6, <2>2
    <3>2. \A b \in Callers : Creates(b, i, inMap[i]) => Creates(b, i, inMap[i])'
      <4> SUFFICES ASSUME NEW b \in Callers, Creates(b, i, inMap[i]) PROVE Creates(b, i, inMap[i])'
        OBVIOUS
      <4>1. b # c
        BY <2>2 DEF Creates, IInv, Inv, TypeInv, CallShape, AtRest
      <4> QED
        BY <1>6, <3>1, <4>1 DEF Creates
    <3> QED
      BY <1>5, <3>1, <3>2 DEF CareInv, MapCare
  <2> QED
    BY <2>1, <2>2
<1>10. ASSUME NEW s \in DOMAIN runners'
       PROVE  /\ Fit(runners[s])' /\ InterruptedCare(s)' /\ RetriedCare(s)'
              /\ ReplyCare(s)' /\ LeftCare(s)'
  <2>1. CASE s = n
    <3>1. Fit(q) /\ ~Left(q)
      BY <1>3, <1>7 DEF Fit, Left
    <3>2. Interrupted(q) => op = "start" /\ row.state = "running"
      BY <1>3 DEF Interrupted
    <3>3. Retried(q) => op = "retry"
      BY <1>3 DEF Retried
    <3> QED
      BY <1>3, <1>5, <1>7, <2>1, <3>1, <3>2, <3>3
         DEF InterruptedCare, RetriedCare, ReplyCare, LeftCare
  <2>2. CASE s # n
    <3>1. s \in DOMAIN runners /\ runners'[s] = runners[s] /\ runners[s].job \in JobIds
      BY <1>1, <1>5, <2>2
    <3>2. RunnerShape(s) /\ runners[s] \in Runner
      BY <1>1, <3>1 DEF IInv, Inv, TypeInv
    <3>3. runners[s].from # None => runners[s].from \in Callers /\ runners[s].from # c
      BY <1>8, <3>2 DEF RunnerShape, Runner
    <3>4. runners[s].from # None => calls'[runners[s].from] = calls[runners[s].from]
      BY <1>6, <3>3
    <3>5. runners[s].todo = <<"suspend", "saveCheckpointed">> => runners[s].from # None
      BY <3>2 DEF RunnerShape, Shape
    <3>6. ReplyCare(s)'
      BY <3>1, <3>4, <3>5 DEF CareInv, ReplyCare
    <3>7. LeftCare(s)'
      <4> SUFFICES ASSUME NEW i \in JobIds, i = runners[s].job, Left(runners[s]), inMap'[i] = s
                   PROVE  i \in gaveUp \/ \E b \in Clients : Evicts(b, i)'
        BY <3>1 DEF LeftCare
      <4>1. inMap[i] = s
        BY <1>6, <2>2
      <4>2. i \in gaveUp \/ \E b \in Clients : Evicts(b, i)
        BY <3>1, <4>1 DEF CareInv, LeftCare
      <4>3. \A b \in Clients : Evicts(b, i) => calls'[b] = calls[b]
        BY <1>6, <1>8 DEF Evicts, Callers
      <4> QED
        BY <4>2, <4>3 DEF Evicts
    <3> QED
      BY <3>1, <3>6, <3>7 DEF CareInv, InterruptedCare, RetriedCare
  <2> QED
    BY <2>1, <2>2
<1>11. ASSUME NEW b \in Callers PROVE CallCare(b)'
  <2>1. \A e \in Callers : Starting(e) => e # c /\ calls[e].runner \in DOMAIN runners
    BY <1>8 DEF Starting
  <2>2. CASE b = c
    <3>1. \A e \in Callers : e # c /\ Starting(e)' => calls'[e].runner # n
      BY <1>5, <1>6, <2>1 DEF Starting
    <3>2. Starting(c)' => q.state = "pending" \/ Interrupted(q)
      BY <1>3, <1>4, <1>6 DEF Starting, Interrupted
    <3> QED
      BY <1>3, <1>4, <1>5, <1>6, <2>2, <3>1, <3>2 DEF CallCare
  <2>3. CASE b # c
    <3>1. /\ calls'[b] = calls[b] /\ CallCare(b)
          /\ calls[b].pc \in {"sent", "handling", "answered"} => calls[b].runner \in DOMAIN runners
      BY <1>6, <1>8, <2>3 DEF CareInv
    <3>2. ASSUME Starting(b)', NEW e \in Callers, Starting(e)', calls'[e].runner = calls'[b].runner
          PROVE  e = b
      <4>1. Starting(b)
        BY <3>1, <3>2 DEF Starting
      <4>2. e # c
        BY <1>4, <1>5, <1>6, <2>1, <3>1, <3>2, <4>1
      <4> QED
        BY <1>6, <3>1, <3>2, <4>1, <4>2 DEF CallCare, Starting
    <3>3. ASSUME Starting(b)', runners'[calls'[b].runner].loop = "on"
          PROVE  LET t == runners'[calls'[b].runner] IN
                 \/ t.todo = <<>> /\ (t.state = "pending" \/ Interrupted(t))
                 \/ t.todo = <<"saveCompleted">>
      BY <1>5, <3>1, <3>3 DEF CallCare, Starting
    <3>4. /\ calls'[b].pc \in {"sent", "handling", "answered"} =>
               runners'[calls'[b].runner].job = calls'[b].job
          /\ calls'[b].op = "suspend" => b \in Clients
      BY <1>5, <3>1 DEF CallCare
    <3> QED
      BY <3>2, <3>3, <3>4 DEF CallCare
  <2> QED
    BY <2>2, <2>3
<1>12. FoundCare'
  BY DEF CareInv, FoundCare
<1>13. ASSUME stage = "recovering", NEW i \in table, rows[i].state \in {"pending", "running"}
       PROVE  Held(i)'
  <2>1. CASE i = j
    <3>1. op \in {"start", "wake"}
      BY <1>13, <2>1 DEF Terminal
    <3>2. Starts(n)'
      BY <1>4, <1>6, <3>1 DEF Starts
    <3>3. Active(q)
      BY <1>3, <3>1 DEF Active
    <3>4. Working(n)' /\ n \in RunnersOf(i)'
      BY <1>3, <1>5, <2>1, <3>2, <3>3 DEF Working, RunnersOf
    <3> QED
      BY <3>4 DEF Held
  <2>2. CASE i # j
    <3>1. Held(i)
      BY <1>13 DEF CareInv, HeldInv
    <3>2. CASE \E d \in found : Claimed(d) /\ d.id = i
      BY <2>2, <3>2 DEF Held
    <3>3. CASE \E b \in Callers : Inserting(b, i)
      <4>1. PICK b \in Callers : Inserting(b, i)
        BY <3>3
      <4>2. b # c
        BY <2>2, <4>1 DEF Inserting
      <4>3. Inserting(b, i)'
        BY <1>6, <4>1, <4>2 DEF Inserting
      <4> QED
        BY <4>3 DEF Held
    <3>4. CASE \E s \in RunnersOf(i) : Working(s)
      <4>1. PICK s \in RunnersOf(i) : Working(s)
        BY <3>4
      <4>2. s \in DOMAIN runners' /\ runners'[s] = runners[s] /\ s \in RunnersOf(i)'
        BY <1>5, <4>1 DEF RunnersOf
      <4>3. Starts(s) => Starts(s)'
        <5> SUFFICES ASSUME NEW b \in Callers, calls[b].pc = "sent",
                            calls[b].op \in {"start", "wake"}, calls[b].runner = s
                     PROVE  Starts(s)'
          BY DEF Starts
        <5>1. calls'[b] = calls[b]
          BY <1>6, <1>8
        <5> QED
          BY <5>1 DEF Starts
      <4>4. Working(s)'
        BY <4>1, <4>2, <4>3 DEF Working
      <4> QED
        BY <4>2, <4>4 DEF Held
    <3>5. CASE Abandoned(i)
      <4>1. Abandoned(i)'
        BY <3>5 DEF Abandoned
      <4> QED
        BY <4>1 DEF Held
    <3> QED
      BY <3>1, <3>2, <3>3, <3>4, <3>5 DEF Held
  <2> QED
    BY <2>1, <2>2
<1>14. HeldInv'
  BY <1>13 DEF HeldInv
<1> QED
  BY <1>9, <1>10, <1>11, <1>12, <1>14 DEF CareInv

\* A row that was read is left as it is, or its job is marked as failed: whoever dropped
\* it had no claim, or nothing has to be done, or nothing can be.
LEMMA CareDropped ==
  ASSUME IInv, CareInv, NEW k \in JobIds,
         UNCHANGED <<table, defined, stage, runners, inMap, calls, gaveUp, crashes>>,
         \A j \in JobIds : j # k => rows'[j] = rows[j],
         \/ rows'[k] = rows[k]
         \/ rows'[k].state = "failed" /\ rows'[k].checkpointPath = rows[k].checkpointPath,
         found' \subseteq found, \A d \in found : d.id = k \/ d \in found',
         \/ found' = found \/ (\A d \in found : Claimed(d) => d \in found')
         \/ rows'[k].state \notin {"pending", "running"} \/ Abandoned(k)'
  PROVE  CareInv'
<1>1. \A s \in DOMAIN runners : runners[s].job \in JobIds
  BY DEF IInv, Inv, TypeInv, TypeOK, Runner
<1>2. /\ table \subseteq JobIds /\ \A d \in found : d.id \in JobIds
  BY DEF IInv, Inv, TypeInv, TypeOK, Found
<1>3. \A j \in JobIds : /\ rows'[j].checkpointPath = rows[j].checkpointPath
                        /\ rows'[j] = rows[j] \/ rows'[j].state = "failed"
  OBVIOUS
<1>4. \A j \in JobIds : Resumable(rows[j])' /\ MapCare(j)'
  BY <1>3 DEF CareInv, Resumable, MapCare, Creates
<1>5. \A s \in DOMAIN runners : /\ Fit(runners[s])' /\ InterruptedCare(s)' /\ RetriedCare(s)'
                                /\ ReplyCare(s)' /\ LeftCare(s)'
  <2> SUFFICES ASSUME NEW s \in DOMAIN runners
               PROVE  /\ Fit(runners[s])' /\ InterruptedCare(s)' /\ RetriedCare(s)'
                      /\ ReplyCare(s)' /\ LeftCare(s)'
    OBVIOUS
  <2>1. Fit(runners[s]) /\ InterruptedCare(s) /\ RetriedCare(s) /\ ReplyCare(s) /\ LeftCare(s)
    BY DEF CareInv
  <2>2. InterruptedCare(s)' /\ RetriedCare(s)'
    BY <1>1, <1>3, <2>1 DEF InterruptedCare, RetriedCare, Terminal
  <2>3. ReplyCare(s)' /\ LeftCare(s)'
    BY <2>1 DEF ReplyCare, LeftCare, Evicts
  <2> QED
    BY <2>1, <2>2, <2>3
<1>6. \A c \in Callers : CallCare(c)'
  BY DEF CareInv, CallCare, Starting
<1>7. FoundCare'
  BY <1>2, <1>3 DEF CareInv, FoundCare
<1>8. ASSUME stage = "recovering", NEW j \in table, rows'[j].state \in {"pending", "running"}
      PROVE  Held(j)'
  <2>1. rows'[j] = rows[j] /\ j \in JobIds
    BY <1>2, <1>3, <1>8
  <2>2. Held(j)
    BY <1>8, <2>1 DEF CareInv, HeldInv
  <2>3. CASE \E d \in found : Claimed(d) /\ d.id = j
    <3>1. CASE \E d \in found' : Claimed(d) /\ d.id = j
      BY <3>1 DEF Held
    <3>2. CASE ~\E d \in found' : Claimed(d) /\ d.id = j
      BY <1>8, <2>3, <3>2 DEF Held
    <3> QED
      BY <3>1, <3>2
  <2>4. CASE \E c \in Callers : Inserting(c, j)
    BY <2>4 DEF Held, Inserting
  <2>5. CASE \E s \in RunnersOf(j) : Working(s)
    <3>1. PICK s \in RunnersOf(j) : Working(s)
      BY <2>5
    <3>2. Working(s)' /\ s \in RunnersOf(j)'
      BY <3>1 DEF Working, RunnersOf, Starts
    <3> QED
      BY <3>2 DEF Held
  <2>6. CASE Abandoned(j)
    <3>1. Abandoned(j)'
      BY <2>1, <2>6 DEF Abandoned
    <3> QED
      BY <3>1 DEF Held
  <2> QED
    BY <2>2, <2>3, <2>4, <2>5, <2>6 DEF Held
<1>9. HeldInv'
  BY <1>8 DEF HeldInv
<1> QED
  BY <1>4, <1>5, <1>6, <1>7, <1>9 DEF CareInv

\* A turn of the poller.
LEMMA CareResume ==
  ASSUME IInv, CareInv, NEW d \in due, resumeReadyJob(d)
  PROVE  CareInv'
<1>1. /\ calls[Poller].pc = "idle" /\ Poller \in Callers
      /\ UNCHANGED <<table, defined, stage, found, gaveUp, crashes>>
  BY DEF resumeReadyJob, Idle, Callers, bounds
<1>2. d.id \in JobIds /\ d.row \in Row /\ rows \in [JobIds -> Row]
  BY DEF IInv, Inv, TypeInv, TypeOK, Found
<1>3. /\ d.row.state \in {"suspended", "pending_retry"}
      /\ rows[d.id].state \in {d.row.state} \cup Terminal
  BY DEF IInv, Inv, RowInv
<1>4. CASE UNCHANGED <<rows, runners, inMap, calls>>
  BY <1>1, <1>2, <1>4, CareDropped
<1>5. ASSUME markJobAsFailed(d), UNCHANGED <<runners, inMap, calls>> PROVE CareInv'
  <2>1. /\ rows'[d.id].state = "failed" /\ rows'[d.id].checkpointPath = rows[d.id].checkpointPath
        /\ \A j \in JobIds : j # d.id => rows'[j] = rows[j]
    BY <1>2, <1>5 DEF markJobAsFailed, UpdateJobCompleted, Row
  <2> QED
    BY <1>1, <1>2, <1>5, <2>1, CareDropped
<1>6. ASSUME NEW op \in {"wake", "retry"}, MakeRunner(Poller, op, d.id, d.row), UNCHANGED rows,
             op = "retry" => d.row.state = "pending_retry"
      PROVE  CareInv'
  BY <1>1, <1>2, <1>3, <1>6, CareMade
<1>7. CASE inMap[d.id] = 0 /\ d.row.state = "suspended"
  <2>1. WakeJob(Poller, d) /\ UNCHANGED rows
    BY <1>7 DEF resumeReadyJob
  <2> QED
    BY <1>4, <1>6, <2>1 DEF WakeJob
<1>8. CASE inMap[d.id] = 0 /\ d.row.state = "pending_retry"
  <2>1. MakeOrFail(Poller, "retry", d)
    BY <1>8 DEF resumeReadyJob
  <2> QED
    BY <1>5, <1>6, <1>8, <2>1 DEF MakeOrFail
<1>9. CASE inMap[d.id] # 0
  BY <1>4, <1>9 DEF resumeReadyJob
<1> QED
  BY <1>3, <1>7, <1>8, <1>9

\* A turn of recovery: a row it has read was there before a crash.
LEMMA CareRecover ==
  ASSUME IInv, CareInv, NEW d \in found, recoverJob(d)
  PROVE  CareInv'
<1>1. /\ calls[Recovery].pc = "idle" /\ found' = found \ {d} /\ Recovery \in Callers
      /\ UNCHANGED <<table, defined, stage, gaveUp, crashes>>
  BY DEF recoverJob, Idle, Callers, bounds
<1>2. d.id \in JobIds /\ d.row \in Row /\ rows \in [JobIds -> Row] /\ crashes \in Nat
  BY HypervisorAssumption DEF IInv, Inv, TypeInv, TypeOK, Found
<1>3. /\ crashes > 0
      /\ d.row.state = "running" => rows[d.id].checkpointPath = d.row.checkpointPath
      /\ Claimed(d) => rows[d.id].state \in {d.row.state} \cup Terminal
  BY <1>2 DEF CareInv, FoundCare, IInv, Inv, RowInv
<1>4. found' \subseteq found /\ \A e \in found : e.id = d.id \/ e \in found'
  BY <1>1
<1>5. ASSUME UNCHANGED <<rows, runners, inMap, calls>>,
             ~Claimed(d) \/ (d.row.state = "running" /\ ~defined)
      PROVE  CareInv'
  <2>1. CASE ~Claimed(d)
    <3>1. \A e \in found : Claimed(e) => e \in found'
      BY <1>1, <2>1
    <3> QED
      BY <1>1, <1>2, <1>4, <1>5, <3>1, CareDropped
  <2>2. CASE d.row.state = "running" /\ ~defined
    <3>1. rows[d.id].state \in {"running"} \cup Terminal
      BY <1>3, <2>2 DEF Claimed
    <3>2. rows'[d.id].state \notin {"pending", "running"} \/ Abandoned(d.id)'
      BY <1>1, <1>3, <1>5, <2>2, <3>1 DEF Abandoned, Terminal
    <3> QED
      BY <1>1, <1>2, <1>4, <1>5, <3>2, CareDropped
  <2> QED
    BY <1>5, <2>1, <2>2
<1>6. ASSUME markJobAsFailed(d), UNCHANGED <<runners, inMap, calls>> PROVE CareInv'
  <2>1. /\ rows'[d.id].state = "failed" /\ rows'[d.id].checkpointPath = rows[d.id].checkpointPath
        /\ \A j \in JobIds : j # d.id => rows'[j] = rows[j]
    BY <1>2, <1>6 DEF markJobAsFailed, UpdateJobCompleted, Row
  <2>2. rows'[d.id].state \notin {"pending", "running"}
    BY <2>1
  <2> QED
    BY <1>1, <1>2, <1>4, <1>6, <2>1, <2>2, CareDropped
<1>7. ASSUME NEW op \in {"start", "wake"}, MakeRunner(Recovery, op, d.id, d.row), UNCHANGED rows,
             Claimed(d), op = "start" /\ d.row.state = "running" => ~d.row.checkpointPath
      PROVE  CareInv'
  <2>1. op = "start" => d.row.state \in {"pending", "running"}
    BY <1>7 DEF Claimed
  <2>2. op = "start" /\ d.row.state = "running" =>
          crashes > 0 /\ rows[d.id].state \in {"running"} \cup Terminal /\ ~rows[d.id].checkpointPath
    BY <1>3, <1>7
  <2> QED
    BY <1>1, <1>2, <1>4, <1>7, <2>1, <2>2, CareMade
<1>8. CASE d.row.state = "running"
  <2>1. recoverRunningJob(d) /\ Claimed(d)
    BY <1>8 DEF recoverJob, Claimed
  <2>2. CASE d.row.checkpointPath
    <3>1. WakeJob(Recovery, d) /\ UNCHANGED rows
      BY <2>1, <2>2 DEF recoverRunningJob
    <3>2. CASE defined
      <4>1. MakeRunner(Recovery, "wake", d.id, d.row)
        BY <2>2, <3>1, <3>2 DEF WakeJob
      <4> QED
        BY <1>7, <2>1, <3>1, <4>1
    <3>3. CASE ~defined
      <4>1. UNCHANGED <<runners, inMap, calls>>
        BY <3>1, <3>3 DEF WakeJob
      <4> QED
        BY <1>5, <1>8, <3>1, <3>3, <4>1
    <3> QED
      BY <3>2, <3>3
  <2>3. CASE ~d.row.checkpointPath /\ (~defined \/ ~ShouldRetry(d.row, MaxRetries))
    <3>1. markJobAsFailed(d) /\ UNCHANGED <<runners, inMap, calls>>
      BY <2>1, <2>3 DEF recoverRunningJob
    <3> QED
      BY <1>6, <3>1
  <2>4. CASE ~d.row.checkpointPath /\ defined /\ ShouldRetry(d.row, MaxRetries)
    <3>1. MakeOrFail(Recovery, "start", d)
      BY <2>1, <2>4 DEF recoverRunningJob
    <3> QED
      BY <1>6, <1>7, <2>1, <2>4, <3>1 DEF MakeOrFail
  <2> QED
    BY <2>2, <2>3, <2>4
<1>9. CASE d.row.state = "pending"
  <2>1. MakeOrFail(Recovery, "start", d) /\ Claimed(d)
    BY <1>9 DEF recoverJob, Claimed
  <2> QED
    BY <1>6, <1>7, <1>9, <2>1 DEF MakeOrFail
<1>10. CASE d.row.state \notin {"running", "pending"}
  <2>1. UNCHANGED <<rows, runners, inMap, calls>> /\ ~Claimed(d)
    BY <1>10 DEF recoverJob, Claimed
  <2> QED
    BY <1>5, <2>1
<1> QED
  BY <1>8, <1>9, <1>10

\* The second half of Spawn.
LEMMA CareSpawnRunner ==
  ASSUME IInv, CareInv, NEW c \in Clients, SpawnRunner(c)
  PROVE  CareInv'
<1>0. PICK j : j = calls[c].job
  OBVIOUS
<1>1. calls[c].pc = "inserted" /\ MakeRunner(c, "start", j, InsertJob) /\ c \in Callers
      /\ UNCHANGED <<table, rows, defined, stage, found, gaveUp, crashes>>
  BY <1>0 DEF SpawnRunner, Callers, db, reads, bounds
<1>2. j \in JobIds
  BY <1>0, <1>1 DEF IInv, Inv, TypeInv, CallShape
<1>3. InsertJob \in Row /\ InsertJob.state = "pending"
  BY DEF InsertJob, Row, JobStates, Results
<1> QED
  BY <1>0, <1>1, <1>2, <1>3, CareMade

-----------------------------------------------------------------------------
(***************************************************************************)
(* Rows are inserted and read.                                             *)
(***************************************************************************)
\* The first half of Spawn: the job is new, and its caller is going to make its runner.
LEMMA CareSpawn ==
  ASSUME IInv, CareInv, NEW c \in Clients, NEW j \in JobIds, Spawn(c, j)
  PROVE  CareInv'
<1> DEFINE call == [AtRest EXCEPT !.pc = "inserted", !.op = "start", !.job = j]
<1>1. /\ j \notin table /\ table' = table \cup {j} /\ c \in Callers /\ calls[c].pc = "idle"
      /\ rows' = [rows EXCEPT ![j] = InsertJob] /\ calls' = [calls EXCEPT ![c] = call]
      /\ stage = "recovering"
      /\ UNCHANGED <<defined, stage, found, runners, inMap, gaveUp, crashes>>
  BY DEF Spawn, Open, Idle, reads, bounds, Callers
<1>2. /\ rows \in [JobIds -> Row] /\ calls \in [Callers -> Call] /\ table \subseteq JobIds
      /\ inMap \in [JobIds -> 0..Len(runners)] /\ runners \in Seq(Runner)
  BY DEF IInv, Inv, TypeInv, TypeOK
<1>3. call.pc = "inserted" /\ call.op = "start" /\ call.job = j
  BY DEF AtRest
<1> HIDE DEF call
<1>4. /\ rows'[j] = InsertJob /\ \A i \in JobIds : i # j => rows'[i] = rows[i]
      /\ calls'[c] = call /\ \A b \in Callers : b # c => calls'[b] = calls[b]
  BY <1>1, <1>2
<1>5. /\ \A s \in DOMAIN runners :
           /\ runners[s] \in Runner /\ runners[s].job \in JobIds
           /\ Active(runners[s]) => runners[s].job # j
      /\ \A d \in found : d.id \in JobIds /\ (Claimed(d) => d.id # j)
  BY <1>1, <1>2 DEF IInv, Inv, ClaimInv, TypeInv, TypeOK, Runner, Found
<1>6. \A i \in JobIds : Resumable(rows[i])' /\ MapCare(i)'
  <2> SUFFICES ASSUME NEW i \in JobIds PROVE Resumable(rows[i])' /\ MapCare(i)'
    OBVIOUS
  <2>1. Resumable(rows[i])'
    BY <1>4 DEF CareInv, Resumable, InsertJob
  <2>2. \A b \in Callers : b # c /\ Creates(b, i, inMap[i]) => Creates(b, i, inMap[i])'
    BY <1>1, <1>4 DEF Creates
  <2>3. ~Creates(c, i, inMap[i])
    BY <1>1 DEF Creates, IInv, Inv, TypeInv, CallShape, AtRest
  <2>4. MapCare(i)'
    BY <1>1, <2>2, <2>3 DEF CareInv, MapCare
  <2> QED
    BY <2>1, <2>4
<1>7. ASSUME NEW s \in DOMAIN runners
      PROVE  /\ Fit(runners[s])' /\ InterruptedCare(s)' /\ RetriedCare(s)'
             /\ ReplyCare(s)' /\ LeftCare(s)'
  <2>1. /\ Fit(runners[s]) /\ InterruptedCare(s) /\ RetriedCare(s) /\ ReplyCare(s) /\ LeftCare(s)
        /\ RunnerShape(s)
    BY <1>7 DEF CareInv, IInv, Inv, TypeInv
  <2>2. Interrupted(runners[s]) \/ Retried(runners[s]) => rows'[runners[s].job] = rows[runners[s].job]
    BY <1>4, <1>5 DEF Interrupted, Retried, Active
  <2>3. InterruptedCare(s)' /\ RetriedCare(s)'
    BY <1>1, <2>1, <2>2 DEF InterruptedCare, RetriedCare
  <2>4. runners[s].from # None => calls'[runners[s].from] = calls[runners[s].from]
    <3>1. runners[s].from # None => runners[s].from \in Callers /\ runners[s].from # c
      BY <1>1, <1>5, <2>1 DEF RunnerShape, Runner
    <3> QED
      BY <1>4, <3>1
  <2>5. runners[s].todo = <<"suspend", "saveCheckpointed">> => runners[s].from # None
    BY <2>1 DEF RunnerShape, Shape
  <2>6. ReplyCare(s)'
    BY <1>1, <2>1, <2>4, <2>5 DEF ReplyCare
  <2>7. \A b \in Clients, i \in JobIds : Evicts(b, i) => Evicts(b, i)'
    BY <1>1, <1>4 DEF Evicts, Callers
  <2>8. LeftCare(s)'
    BY <1>1, <1>5, <2>1, <2>7 DEF LeftCare
  <2> QED
    BY <1>1, <2>1, <2>3, <2>6, <2>8
<1>8. ASSUME NEW b \in Callers PROVE CallCare(b)'
  <2>1. CASE b = c
    BY <1>3, <1>4, <2>1 DEF CallCare, Starting
  <2>2. CASE b # c
    <3>1. calls'[b] = calls[b] /\ CallCare(b)
      BY <1>4, <2>2 DEF CareInv
    <3>2. \A e \in Callers : Starting(e)' => calls'[e] = calls[e] /\ Starting(e)
      BY <1>3, <1>4 DEF Starting
    <3>3. Starting(b)' => \A e \in Callers :
            Starting(e)' /\ calls'[e].runner = calls'[b].runner => e = b
      BY <3>1, <3>2 DEF CallCare
    <3>4. ASSUME Starting(b)', runners'[calls'[b].runner].loop = "on"
          PROVE  LET t == runners'[calls'[b].runner] IN
                 \/ t.todo = <<>> /\ (t.state = "pending" \/ Interrupted(t))
                 \/ t.todo = <<"saveCompleted">>
      BY <1>1, <3>1, <3>2, <3>4 DEF CallCare
    <3>5. /\ calls'[b].pc \in {"sent", "handling", "answered"} =>
               runners'[calls'[b].runner].job = calls'[b].job
          /\ calls'[b].op = "suspend" => b \in Clients
      BY <1>1, <3>1 DEF CallCare
    <3> QED
      BY <3>3, <3>4, <3>5 DEF CallCare
  <2> QED
    BY <2>1, <2>2
<1>9. FoundCare'
  BY <1>1, <1>4, <1>5 DEF CareInv, FoundCare, Claimed
<1>10. ASSUME NEW i \in table', rows'[i].state \in {"pending", "running"}
       PROVE  Held(i)'
  <2>1. CASE i = j
    <3>1. Inserting(c, i)'
      BY <1>3, <1>4, <2>1 DEF Inserting
    <3> QED
      BY <1>1, <3>1 DEF Held
  <2>2. CASE i # j
    <3>1. i \in table /\ rows'[i] = rows[i]
      BY <1>1, <1>2, <1>4, <2>2
    <3>2. Held(i)
      BY <1>1, <1>10, <3>1 DEF CareInv, HeldInv
    <3>3. \A b \in Callers : Inserting(b, i) => Inserting(b, i)'
      BY <1>1, <1>4 DEF Inserting
    <3>4. ASSUME NEW s \in RunnersOf(i), Working(s) PROVE Working(s)' /\ s \in RunnersOf(i)'
      <4>1. Starts(s) => Starts(s)'
        BY <1>1, <1>4 DEF Starts
      <4> QED
        BY <1>1, <3>4, <4>1 DEF Working, RunnersOf
    <3>5. Abandoned(i) => Abandoned(i)'
      BY <1>1, <3>1 DEF Abandoned
    <3> QED
      BY <1>1, <3>2, <3>3, <3>4, <3>5 DEF Held
  <2> QED
    BY <2>1, <2>2
<1>11. HeldInv'
  BY <1>10 DEF HeldInv
<1> QED
  BY <1>1, <1>6, <1>7, <1>8, <1>9, <1>11 DEF CareInv

\* Recovery reads the rows: from now on every job that is neither final nor parked is its
\* concern.
LEMMA CareReadRows ==
  ASSUME IInv, CareInv, ReadRows
  PROVE  CareInv'
<1>1. /\ found' = {[id |-> j, row |-> rows[j]] : j \in {i \in table : rows[i].state \notin Terminal}}
      /\ UNCHANGED <<table, rows, defined, runners, inMap, calls, gaveUp, crashes>>
      /\ stage = "starting"
  BY DEF ReadRows, db, bounds
<1>2. DOMAIN runners = {}
  BY <1>1 DEF IInv, FreshInv
<1>3. \A j \in JobIds : Resumable(rows[j])' /\ MapCare(j)'
  BY <1>1 DEF CareInv, Resumable, MapCare, Creates
<1>4. \A c \in Callers : CallCare(c)'
  BY <1>1 DEF CareInv, CallCare, Starting
<1>5. FoundCare'
  BY <1>1 DEF CareInv, FoundCare, ReadRows
<1>6. HeldInv'
  <2> SUFFICES ASSUME NEW j \in table, rows[j].state \in {"pending", "running"} PROVE Held(j)'
    BY <1>1 DEF HeldInv
  <2> DEFINE d == [id |-> j, row |-> rows[j]]
  <2>1. d \in found'
    BY <1>1 DEF Terminal
  <2>2. Claimed(d) /\ d.id = j
    BY DEF Claimed
  <2> QED
    BY <2>1, <2>2 DEF Held
<1> QED
  BY <1>1, <1>2, <1>3, <1>4, <1>5, <1>6 DEF CareInv

-----------------------------------------------------------------------------
(***************************************************************************)
(* The hypervisor starts, for the first time or after a crash.             *)
(***************************************************************************)
\* Nothing is in memory; the rows are those of before the crash.
Restarted ==
  /\ runners = <<>> /\ found = {} /\ stage = "starting"
  /\ \A j \in JobIds : inMap[j] = 0 /\ Resumable(rows[j])
  /\ \A c \in Callers : calls[c] = AtRest
  /\ crashes = 0 => table = {}

\* Then nobody has anything to do but recovery.
LEMMA CareStarts == Restarted => CareInv
<1> SUFFICES ASSUME Restarted PROVE CareInv
  OBVIOUS
<1> USE DEF Restarted
<1>1. DOMAIN runners = {}
  OBVIOUS
<1>2. \A c \in Callers : calls[c].pc = "idle" /\ calls[c].op = "none"
  BY DEF AtRest
<1>3. \A c \in Callers : CallCare(c)
  BY <1>2 DEF CallCare, Starting
<1>4. \A j \in JobIds : MapCare(j)
  BY DEF MapCare
<1>5. FoundCare /\ HeldInv
  BY DEF FoundCare, HeldInv
<1> QED
  BY <1>1, <1>3, <1>4, <1>5 DEF CareInv

\* The first start.
LEMMA CareInit == Init => CareInv
<1> SUFFICES ASSUME Init PROVE CareInv
  OBVIOUS
<1>1. \A j \in JobIds : inMap[j] = 0 /\ Resumable(rows[j])
  BY DEF Init, Resumable, InsertJob
<1>2. /\ runners = <<>> /\ found = {} /\ stage = "starting" /\ table = {}
      /\ \A c \in Callers : calls[c] = AtRest
  BY DEF Init
<1> QED
  BY <1>1, <1>2, CareStarts DEF Restarted

\* A crash, of the machine or of a runner that panics: one that was interrupted by an
\* earlier crash.
LEMMA CareCrash ==
  ASSUME IInv, CareInv, Crash
  PROVE  CareInv'
<1>1. /\ runners' = <<>> /\ found' = {} /\ stage' = "starting"
      /\ inMap' = [j \in JobIds |-> 0] /\ calls' = [c \in Callers |-> AtRest]
      /\ UNCHANGED <<table, rows>>
      /\ crashes' = IF crashes < MaxCrashes THEN crashes + 1 ELSE crashes
      /\ crashes < MaxCrashes \/ \E c \in Clients : Panics(c)
  BY DEF Crash, db
<1>2. crashes \in Nat /\ MaxCrashes \in Nat
  BY HypervisorAssumption DEF IInv, Inv, TypeInv, TypeOK
<1>3. ASSUME NEW c \in Clients, Panics(c) PROVE crashes > 0
  <2>1. /\ c \in Callers /\ calls[c].pc = "sent" /\ Ready(calls[c].runner)
        /\ runners[calls[c].runner].state = "running" /\ ~runners[calls[c].runner].process
    BY <1>3 DEF Panics, Callers
  <2>2. calls[c].runner \in DOMAIN runners
    BY <2>1 DEF IInv, Inv, TypeInv, CallShape
  <2>3. Interrupted(runners[calls[c].runner])
    BY <2>1 DEF Ready, Interrupted
  <2> QED
    BY <2>2, <2>3 DEF CareInv, InterruptedCare
<1>4. crashes' # 0
  BY <1>1, <1>2, <1>3
<1>5. Restarted'
  BY <1>1, <1>4 DEF CareInv, Resumable, Restarted
<1>6. (Restarted => CareInv)'
  BY CareStarts, PTL
<1> QED
  BY <1>5, <1>6

-----------------------------------------------------------------------------
(***************************************************************************)
(* The theorem.                                                            *)
(***************************************************************************)
\* Every step keeps the invariant.
LEMMA CareNext ==
  ASSUME IInv, CareInv, [Next]_vars
  PROVE  CareInv'
<1>1. ASSUME NEW c \in Callers, Take(c) \/ Stopped(c) \/ Conclude(c) PROVE CareInv'
  BY <1>1, CareTake, CareStopped, CareConclude
<1>2. ASSUME NEW r \in DOMAIN runners, Step(r) \/ Notice(r) \/ EvictDone(r) PROVE CareInv'
  BY <1>2, CareStep, CareNotice, CareEvictDone
<1>3. ASSUME (\E j \in JobIds : ContainerEnds(j)) \/ UnregisterJobDefinition \/ Round
             \/ UNCHANGED vars
      PROVE  CareInv'
  BY <1>3, CareIdle
<1>4. ASSUME NEW c \in Clients, NEW j \in JobIds, Spawn(c, j) PROVE CareInv'
  BY <1>4, CareSpawn
<1>5. ASSUME NEW c \in Clients, SpawnRunner(c) \/ GiveUp(c) PROVE CareInv'
  BY <1>5, CareSpawnRunner, CareGiveUp
<1>6. ASSUME NEW c \in Clients, NEW j \in JobIds, NEW m \in Requests, SendCommand(c, j, m[1], m[2])
      PROVE  CareInv'
  BY <1>6, CareSendCommand
<1>7. ASSUME NEW d \in due, resumeReadyJob(d) PROVE CareInv'
  BY <1>7, CareResume
<1>8. ASSUME ReadRows PROVE CareInv'
  BY <1>8, CareReadRows
<1>9. ASSUME NEW d \in found, recoverJob(d) PROVE CareInv'
  BY <1>9, CareRecover
<1>10. ASSUME Crash PROVE CareInv'
  BY <1>10, CareCrash
<1> QED
  BY <1>1, <1>2, <1>3, <1>4, <1>5, <1>6, <1>7, <1>8, <1>9, <1>10 DEF Next

\* It holds in every state.
LEMMA CareAlways == Spec => [](IInv /\ CareInv)
<1>1. IInv /\ CareInv /\ [Next]_vars => CareInv'
  BY CareNext
<1> QED
  BY <1>1, CareInit, InvAlways, PTL DEF Spec

\* A job whose row is not final is never forgotten, across crashes between any operation
\* on the container and the write that reports it: recovery, a caller, a runner or the
\* poller is going to move it on, unless it is one of those the code is known to leave
\* behind.
THEOREM NobodyForgotten == Spec => []NoJobForgotten
  BY CareAlways, CareSuffices, PTL
=============================================================================
