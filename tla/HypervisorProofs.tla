-------------------------- MODULE HypervisorProofs --------------------------
(***************************************************************************)
(* Proofs about Hypervisor, for every set of jobs, clients and tokens, any *)
(* number of calls and of crashes, and whichever restores fail.            *)
(*                                                                         *)
(* A job goes through several runners, and nothing in the code makes two   *)
(* of them exclude one another: the map is by job id, evictions come late, *)
(* and callers keep runners they looked up.  What does is that a job has   *)
(* one claim at a time: a row that recovery or the poller has read and not *)
(* handled yet, a row just inserted, or one runner that runs the job or is *)
(* going to.  The row says parked only when there is no claim, or when the *)
(* poller, which reads no rows meanwhile, waits for the claimant.          *)
(***************************************************************************)
EXTENDS Hypervisor, FiniteSetTheorems, TLAPS

-----------------------------------------------------------------------------
(***************************************************************************)
(* The inductive invariant.                                                *)
(***************************************************************************)
\* What a handler may have before it.
Plans ==
  {<<"create", "saveStarted">>, <<"saveStarted">>,
   <<"saveRunning", "restore">>, <<"restore">>,
   <<"saveCount", "create", "saveStarted">>, <<"saveCount", "restore", "saveStarted">>,
   <<"restore", "saveStarted">>,
   <<"suspend", "saveCheckpointed">>, <<"snapshot", "saveCheckpointed">>, <<"saveCheckpointed">>,
   <<"stop", "saveCompleted">>, <<"remove", "saveCompleted">>, <<"saveCompleted">>,
   <<"remove", "savePendingRetry">>, <<"savePendingRetry">>}

\* How the plan and the state go together.
Shape(q) ==
  /\ q.todo \in Plans \cup {<<>>}
  /\ q.todo = <<>> => q.from = None
  /\ q.loop = "done" => q.todo = <<>>
  /\ ~q.ok => q.todo = <<"saveCompleted">>
  /\ q.todo = <<"create", "saveStarted">> => q.state \in {"pending", "failed"}
  /\ q.todo = <<"saveStarted">> => q.state = "running"
  /\ q.todo \in {<<"saveRunning", "restore">>, <<"restore">>} => q.state = "running"
  /\ q.todo \in {<<"saveCount", "create", "saveStarted">>,
                 <<"saveCount", "restore", "saveStarted">>, <<"restore", "saveStarted">>}
       => q.state = "failed"
  /\ q.todo \in {<<"suspend", "saveCheckpointed">>, <<"snapshot", "saveCheckpointed">>}
       => q.state = "running" /\ q.process /\ q.from # None
  /\ q.todo = <<"saveCheckpointed">> => q.state \in {"running", "suspended"} /\ q.process
  /\ q.todo = <<"stop", "saveCompleted">>
       => q.state \in {"running", "suspended"} /\ q.process /\ q.from # None
  /\ q.todo \in {<<"remove", "saveCompleted">>, <<"saveCompleted">>} => q.state \in Terminal
  /\ q.todo \in {<<"remove", "savePendingRetry">>, <<"savePendingRetry">>}
       => q.state = "pending_retry"
  /\ q.loop = "on" /\ q.todo = <<>> => q.state \notin {"completed", "pending_retry"}

CallShape(c) ==
  LET call == calls[c] IN
  /\ call.pc = "idle" => call = AtRest
  /\ call.pc = "inserted" => call.op = "start"
  /\ call.pc # "idle" => call.job \in JobIds /\ call.op # "none"
  /\ call.pc \in {"sent", "handling", "answered"} => call.runner \in DOMAIN runners
  /\ call.op \in {"suspend", "snapshot"} => call.token \in Tokens
  /\ call.pc = "handling" => runners[call.runner].from = c
  /\ call.op = "wake" => c \in {Poller, Recovery}
  /\ call.op = "retry" => c = Poller
  /\ call.pc = "answered" /\ call.op \in {"wake", "retry"} /\ ~call.ok =>
       runners[call.runner].loop = "done"

RunnerShape(r) ==
  LET q == runners[r] IN
  /\ Shape(q)
  /\ q.from # None => calls[q.from].pc = "handling" /\ calls[q.from].runner = r
  /\ q.todo \in {<<"suspend", "saveCheckpointed">>, <<"snapshot", "saveCheckpointed">>}
       => calls[q.from].op \in {"suspend", "snapshot"}
  /\ q.todo = <<"stop", "saveCompleted">> => calls[q.from].op = "kill"

TypeInv ==
  /\ TypeOK /\ runners \in Seq(Runner)
  /\ \A c \in Callers : CallShape(c)
  /\ \A r \in DOMAIN runners : RunnerShape(r)

\* A runner that runs its job, is going to, or has still to report where it left it.
\* The others can only end the job: those of jobs suspended earlier, and those that have
\* a final state to write.
Active(q) ==
  /\ q.loop = "on"
  /\ \/ q.state \in {"pending", "running", "pending_retry"}
     \/ q.state = "suspended" /\ (~q.process \/ q.todo = <<"saveCheckpointed">>)
     \/ q.state \in Terminal /\ q.todo # <<"saveCompleted">>

\* A row recovery has read and will act upon.
Claimed(d) == d.row.state \in {"pending", "running"}

Inserting(c, j) == calls[c].pc = "inserted" /\ calls[c].job = j

\* A job has one claim at most, and has a row.
ClaimInv ==
  /\ \A r, s \in DOMAIN runners :
       Active(runners[r]) /\ Active(runners[s]) /\ runners[r].job = runners[s].job => r = s
  /\ \A r \in DOMAIN runners : Active(runners[r]) =>
       /\ runners[r].job \in table
       /\ \A d \in due : d.id # runners[r].job
       /\ \A d \in found : Claimed(d) => d.id # runners[r].job
       /\ \A c \in Callers : ~Inserting(c, runners[r].job)
  /\ \A d \in due :
       /\ d.id \in table
       /\ \A e \in due : d.id = e.id => d = e
       /\ \A e \in found : Claimed(e) => d.id # e.id
       /\ \A c \in Callers : ~Inserting(c, d.id)
  /\ \A d \in found : Claimed(d) =>
       /\ d.id \in table
       /\ \A e \in found : d.id = e.id => d = e
       /\ \A c \in Callers : ~Inserting(c, d.id)
  /\ \A b, c \in Callers : calls[b].pc = "inserted" /\ Inserting(c, calls[b].job) => b = c
  /\ \A c \in Callers : calls[c].pc = "inserted" => calls[c].job \in table

\* A runner that was made to wake or to retry its job has not done anything else, and
\* nobody else is going to wake it.
WakeInv ==
  /\ \A c \in Callers : calls[c].pc = "sent" /\ runners[calls[c].runner].loop = "on" =>
       LET q == runners[calls[c].runner] IN
       /\ calls[c].op = "wake" =>
            \/ q.state = "suspended" /\ ~q.process /\ q.todo = <<>>
            \/ q.state = "failed" /\ q.todo = <<"saveCompleted">>
       /\ calls[c].op = "retry" => q.state = "failed" /\ q.todo = <<>>
  /\ \A b, c \in Callers :
       /\ calls[b].pc = "sent" /\ calls[b].op = "wake"
       /\ calls[c].pc = "sent" /\ calls[c].op = "wake" /\ calls[b].runner = calls[c].runner
       => b = c

Waking(q) ==
  \/ q.state = "suspended" /\ ~q.process /\ q.todo = <<>>
  \/ q.state = "running" /\ q.todo = <<"saveRunning", "restore">>

Retrying(q) ==
  \/ q.state = "failed" /\ q.todo # <<"saveCompleted">> /\ q.todo # <<"remove", "saveCompleted">>
  \/ q.state = "running" /\ q.todo = <<"saveStarted">>

\* The poller waits for runner r to do what it was made for.
PolledFor(r, op) ==
  /\ calls[Poller].pc \in {"sent", "handling"} /\ calls[Poller].op = op
  /\ calls[Poller].runner = r
  /\ calls[Poller].pc = "sent" => runners[r].todo = <<>>
  /\ calls[Poller].pc = "handling" => runners[r].todo # <<>>

\* Where there is a claim the row is not parked, except for the poller's own one.
RowInv ==
  /\ \A r \in DOMAIN runners : Active(runners[r]) =>
       LET s == rows[runners[r].job].state IN
       /\ s = "suspended" => Waking(runners[r]) /\ PolledFor(r, "wake")
       /\ s = "pending_retry" => Retrying(runners[r]) /\ PolledFor(r, "retry")
  /\ \A d \in found : Claimed(d) => rows[d.id].state \in {d.row.state} \cup Terminal
  /\ \A d \in due : /\ d.row.state \in {"suspended", "pending_retry"}
                    /\ rows[d.id].state \in {d.row.state} \cup Terminal
  /\ \A c \in Callers : calls[c].pc = "inserted" =>
       rows[calls[c].job].state \in {"pending"} \cup Terminal

\* The container of a job that is suspended, in the row or in its runner, does not run.
StoppedInv ==
  /\ SuspendedIsStopped
  /\ \A r \in DOMAIN runners :
       runners[r].state = "suspended" /\ runners[r].todo = <<"saveCheckpointed">>
         => container[runners[r].job] # "running"

Inv == TypeInv /\ ClaimInv /\ WakeInv /\ RowInv /\ StoppedInv

\* The job has had more than one runner.
Shared(j) == \E r, s \in RunnersOf(j) : r # s

\* A runner that will write the row of a job waiting for its retry only once it has
\* started the job, or on behalf of the poller.
Holds(q) ==
  \/ q.loop = "done" \/ Active(q)
  \/ q.todo = <<"saveCompleted">> /\ q.from = Poller

\* While a job has had only one runner that runner is done when the row is final, and
\* whoever holds a row he has read, or has inserted it, knows what it says.
FinalInv ==
  /\ \A r \in DOMAIN runners : runners[r].job \in table
  /\ \A d \in found : Claimed(d) => RunnersOf(d.id) = {} /\ rows[d.id].state \notin Terminal
  /\ \A c \in Callers : calls[c].pc = "inserted" =>
       RunnersOf(calls[c].job) = {} /\ rows[calls[c].job].state \notin Terminal
  /\ \A d \in due :
       /\ rows[d.id].state \in Terminal => RunnersOf(d.id) # {}
       /\ d.row.state = "pending_retry" /\ ~Shared(d.id) =>
            /\ rows[d.id].state = "pending_retry"
            /\ \A r \in RunnersOf(d.id) : runners[r].loop = "done"
  /\ \A r \in DOMAIN runners : ~Shared(runners[r].job) =>
       /\ rows[runners[r].job].state \in Terminal => runners[r].loop = "done"
       /\ rows[runners[r].job].state = "pending_retry" => Holds(runners[r])

-----------------------------------------------------------------------------
(***************************************************************************)
(* Plans.                                                                  *)
(***************************************************************************)
\* The first operation tells where the handler is, and what is left after it.
LEMMA PlanSteps ==
  ASSUME NEW t \in Plans
  PROVE  /\ t # <<>> /\ t \in Seq(Ops)
         /\ Head(t) = "create" => t = <<"create", "saveStarted">>
         /\ Head(t) = "saveStarted" => t = <<"saveStarted">>
         /\ Head(t) = "saveRunning" => t = <<"saveRunning", "restore">>
         /\ Head(t) = "restore" => t \in {<<"restore">>, <<"restore", "saveStarted">>}
         /\ Head(t) = "saveCount" => t \in {<<"saveCount", "create", "saveStarted">>,
                                            <<"saveCount", "restore", "saveStarted">>}
         /\ Head(t) = "suspend" => t = <<"suspend", "saveCheckpointed">>
         /\ Head(t) = "snapshot" => t = <<"snapshot", "saveCheckpointed">>
         /\ Head(t) = "saveCheckpointed" => t = <<"saveCheckpointed">>
         /\ Head(t) = "stop" => t = <<"stop", "saveCompleted">>
         /\ Head(t) = "remove" => t \in {<<"remove", "saveCompleted">>,
                                         <<"remove", "savePendingRetry">>}
         /\ Head(t) = "saveCompleted" => t = <<"saveCompleted">>
         /\ Head(t) = "savePendingRetry" => t = <<"savePendingRetry">>
<1>1. t # <<>> /\ t \in Seq(Ops)
  <2>1. t # <<>>
    BY DEF Plans
  <2>2. \A a, b, c \in Ops : <<a>> \in Seq(Ops) /\ <<a, b>> \in Seq(Ops) /\ <<a, b, c>> \in Seq(Ops)
    OBVIOUS
  <2>3. {"create", "restore", "suspend", "snapshot", "stop", "remove", "saveStarted", "saveRunning",
         "saveCount", "saveCheckpointed", "savePendingRetry", "saveCompleted"} \subseteq Ops
    BY DEF Ops
  <2>4. /\ <<"create", "saveStarted">> \in Seq(Ops) /\ <<"saveStarted">> \in Seq(Ops)
        /\ <<"saveRunning", "restore">> \in Seq(Ops) /\ <<"restore">> \in Seq(Ops)
        /\ <<"saveCount", "create", "saveStarted">> \in Seq(Ops)
        /\ <<"saveCount", "restore", "saveStarted">> \in Seq(Ops)
        /\ <<"restore", "saveStarted">> \in Seq(Ops)
    BY <2>2, <2>3, Zenon
  <2>5. /\ <<"suspend", "saveCheckpointed">> \in Seq(Ops)
        /\ <<"snapshot", "saveCheckpointed">> \in Seq(Ops) /\ <<"saveCheckpointed">> \in Seq(Ops)
        /\ <<"stop", "saveCompleted">> \in Seq(Ops) /\ <<"remove", "saveCompleted">> \in Seq(Ops)
        /\ <<"saveCompleted">> \in Seq(Ops) /\ <<"remove", "savePendingRetry">> \in Seq(Ops)
        /\ <<"savePendingRetry">> \in Seq(Ops)
    BY <2>2, <2>3, Zenon
  <2>6. t \in Seq(Ops)
    BY <2>4, <2>5, Zenon DEF Plans
  <2> QED
    BY <2>1, <2>6
<1>2. \/ t = <<"create", "saveStarted">> /\ Head(t) = "create"
      \/ t = <<"saveStarted">> /\ Head(t) = "saveStarted"
      \/ t = <<"saveRunning", "restore">> /\ Head(t) = "saveRunning"
      \/ t \in {<<"restore">>, <<"restore", "saveStarted">>} /\ Head(t) = "restore"
      \/ t \in {<<"saveCount", "create", "saveStarted">>,
                <<"saveCount", "restore", "saveStarted">>} /\ Head(t) = "saveCount"
      \/ t = <<"suspend", "saveCheckpointed">> /\ Head(t) = "suspend"
      \/ t = <<"snapshot", "saveCheckpointed">> /\ Head(t) = "snapshot"
      \/ t = <<"saveCheckpointed">> /\ Head(t) = "saveCheckpointed"
      \/ t = <<"stop", "saveCompleted">> /\ Head(t) = "stop"
      \/ t \in {<<"remove", "saveCompleted">>,
                <<"remove", "savePendingRetry">>} /\ Head(t) = "remove"
      \/ t = <<"saveCompleted">> /\ Head(t) = "saveCompleted"
      \/ t = <<"savePendingRetry">> /\ Head(t) = "savePendingRetry"
  BY DEF Plans
<1> QED
  BY <1>1, <1>2, Zenon

LEMMA PlanTails ==
  /\ Tail(<<"create", "saveStarted">>) = <<"saveStarted">>
  /\ Tail(<<"saveStarted">>) = <<>>
  /\ Tail(<<"saveRunning", "restore">>) = <<"restore">>
  /\ Tail(<<"restore">>) = <<>>
  /\ Tail(<<"restore", "saveStarted">>) = <<"saveStarted">>
  /\ Tail(<<"saveCount", "create", "saveStarted">>) = <<"create", "saveStarted">>
  /\ Tail(<<"saveCount", "restore", "saveStarted">>) = <<"restore", "saveStarted">>
  /\ Tail(<<"suspend", "saveCheckpointed">>) = <<"saveCheckpointed">>
  /\ Tail(<<"snapshot", "saveCheckpointed">>) = <<"saveCheckpointed">>
  /\ Tail(<<"saveCheckpointed">>) = <<>>
  /\ Tail(<<"stop", "saveCompleted">>) = <<"saveCompleted">>
  /\ Tail(<<"saveCompleted">>) = <<>>
  /\ Tail(<<"remove", "saveCompleted">>) = <<"saveCompleted">>
  /\ Tail(<<"remove", "savePendingRetry">>) = <<"savePendingRetry">>
  /\ Tail(<<"savePendingRetry">>) = <<>>
  OBVIOUS

-----------------------------------------------------------------------------
(***************************************************************************)
(* What Advance does.                                                      *)
(***************************************************************************)
\* The runner after a step of its handler that leaves it as q.
Settled(q) == IF q.todo # <<>> THEN q ELSE [Ended(q) EXCEPT !.from = None, !.ok = TRUE]

\* What is left of a runner when its step is over.
LEMMA SettledFields ==
  ASSUME NEW q \in Runner
  PROVE  /\ Settled(q) \in Runner
         /\ Settled(q).job = q.job /\ Settled(q).state = q.state /\ Settled(q).todo = q.todo
         /\ Settled(q).process = q.process
         /\ q.todo # <<>> => Settled(q) = q
         /\ q.todo = <<>> => /\ Settled(q).from = None /\ Settled(q).ok
                             /\ q.state \in Terminal \cup {"pending_retry"} => Settled(q).loop = "done"
                             /\ q.state \notin Terminal \cup {"pending_retry"} => Settled(q).loop = q.loop
<1>1. CASE q.todo # <<>>
  BY <1>1 DEF Settled
<1>2. CASE q.todo = <<>>
  BY <1>2 DEF Settled, Ended, Runner
<1> QED
  BY <1>1, <1>2

\* A runner whose step is over has the shape again.
LEMMA SettledShape ==
  ASSUME NEW q \in Runner, q.loop = "on", q.todo # <<>> => Shape(q)
  PROVE  Shape(Settled(q))
<1>1. CASE q.todo # <<>>
  BY <1>1, SettledFields
<1>2. CASE q.todo = <<>>
  <2> DEFINE p == Settled(q)
  <2>1. /\ p.todo = <<>> /\ p.from = None /\ p.ok
        /\ p.loop = "on" => p.state \notin {"completed", "pending_retry"}
    BY <1>2, SettledFields DEF Terminal
  <2>2. \A t \in Plans : t # <<>>
    BY PlanSteps
  <2> HIDE DEF p
  <2>4. Shape(p)
    BY <2>1 DEF Shape
  <2> QED
    BY <2>4 DEF p
<1> QED
  BY <1>1, <1>2

\* Who the handler works for: the caller it worked for, or one whose command an idle
\* runner takes.
WorksFor(r, q) ==
  \/ q.from = runners[r].from
  \/ /\ runners[r].todo = <<>> /\ q.from \in Callers
     /\ calls[q.from].pc = "sent" /\ calls[q.from].runner = r

\* The runners and the calls after a step of runner r.
LEMMA Advanced ==
  ASSUME TypeInv, NEW r \in DOMAIN runners, NEW q \in Runner, Advance(r, q)
  PROVE  /\ runners' \in Seq(Runner) /\ DOMAIN runners' = DOMAIN runners
         /\ Len(runners') = Len(runners)
         /\ runners'[r] = Settled(q)
         /\ \A s \in DOMAIN runners : s # r => runners'[s] = runners[s]
         /\ calls' \in [Callers -> Call]
         /\ \A c \in Callers : c # q.from => calls'[c] = calls[c]
         /\ \A c \in Callers : c = q.from =>
              /\ calls'[c].op = calls[c].op /\ calls'[c].job = calls[c].job
              /\ calls'[c].runner = calls[c].runner /\ calls'[c].token = calls[c].token
              /\ q.todo # <<>> => calls'[c].pc = "handling"
              /\ q.todo = <<>> => calls'[c].pc = "answered" /\ calls'[c].ok = q.ok
<1>1. runners \in Seq(Runner) /\ calls \in [Callers -> Call]
  BY DEF TypeInv, TypeOK
<1>2. Settled(q) \in Runner
  BY SettledFields
<1>3. runners' = [runners EXCEPT ![r] = Settled(q)]
  BY DEF Advance, Settled
<1>4. \A c \in Callers : c # q.from => calls'[c] = calls[c]
  BY DEF Advance
<1>5. \A c \in Callers : c = q.from =>
        /\ calls'[c] \in Call
        /\ calls'[c].op = calls[c].op /\ calls'[c].job = calls[c].job
        /\ calls'[c].runner = calls[c].runner /\ calls'[c].token = calls[c].token
        /\ q.todo # <<>> => calls'[c].pc = "handling"
        /\ q.todo = <<>> => calls'[c].pc = "answered" /\ calls'[c].ok = q.ok
  <2> SUFFICES ASSUME NEW c \in Callers, c = q.from
               PROVE  /\ calls'[c] \in Call
                      /\ calls'[c].op = calls[c].op /\ calls'[c].job = calls[c].job
                      /\ calls'[c].runner = calls[c].runner /\ calls'[c].token = calls[c].token
                      /\ q.todo # <<>> => calls'[c].pc = "handling"
                      /\ q.todo = <<>> => calls'[c].pc = "answered" /\ calls'[c].ok = q.ok
    OBVIOUS
  <2>1. calls[c] \in Call /\ q.ok \in BOOLEAN /\ q.state \in JobStates
    BY <1>1 DEF Runner
  <2>2. CASE q.todo # <<>>
    <3>1. calls'[c] = [calls[c] EXCEPT !.pc = "handling"]
      BY <2>2 DEF Advance
    <3> QED
      BY <2>1, <2>2, <3>1 DEF Call
  <2>3. CASE q.todo = <<>>
    <3>1. calls'[c] = [calls[c] EXCEPT !.pc = "answered", !.ok = q.ok, !.seen = q.state]
      BY <2>3 DEF Advance
    <3> QED
      BY <2>1, <2>3, <3>1 DEF Call
  <2> QED
    BY <2>2, <2>3
<1>6. DOMAIN calls' = Callers /\ calls' = [c \in Callers |-> calls'[c]]
  BY DEF Advance
<1>7. calls' \in [Callers -> Call]
  BY <1>1, <1>4, <1>5, <1>6
<1>8. runners' \in Seq(Runner) /\ DOMAIN runners' = DOMAIN runners /\ Len(runners') = Len(runners)
  BY <1>1, <1>2, <1>3
<1>9. runners'[r] = Settled(q) /\ \A s \in DOMAIN runners : s # r => runners'[s] = runners[s]
  BY <1>1, <1>3
<1> QED
  BY <1>4, <1>5, <1>7, <1>8, <1>9

\* A step of a handler, which leaves its runner as q, before it settles.
Moves(r, q) ==
  /\ q \in Runner /\ q.job = runners[r].job /\ q.loop = "on" /\ runners[r].loop = "on"
  /\ q.todo # <<>> => Shape(q)
  /\ WorksFor(r, q)
  /\ q.todo \in {<<"suspend", "saveCheckpointed">>, <<"snapshot", "saveCheckpointed">>}
       => calls[q.from].op \in {"suspend", "snapshot"}
  /\ q.todo = <<"stop", "saveCompleted">> => calls[q.from].op = "kill"
  /\ q.todo = <<>> /\ ~q.ok /\ q.from # None /\ calls[q.from].op \in {"wake", "retry"}
       => q.state \in Terminal
  /\ Advance(r, q)
  /\ UNCHANGED <<table, defined, stage, found, due, inMap, gaveUp, made, crashes>>

\* The types hold after a step of a runner.
LEMMA MovesTypes ==
  ASSUME TypeInv, NEW r \in DOMAIN runners, NEW q, Moves(r, q),
         rows' \in [JobIds -> Row], container' \in [JobIds -> {"none", "running", "exited"}]
  PROVE  TypeInv'
<1> DEFINE p == Settled(q)
<1>1. q \in Runner /\ q.loop = "on" /\ WorksFor(r, q) /\ Advance(r, q)
  BY DEF Moves
<1>2. TypeOK /\ RunnerShape(r) /\ Shape(runners[r]) /\ runners[r] \in Runner
  BY DEF TypeInv, RunnerShape, TypeOK
<1>3. Shape(p) /\ p \in Runner /\ p.todo = q.todo /\ p.state = q.state
  BY <1>1, SettledShape, SettledFields DEF Moves
<1>4. runners' \in Seq(Runner) /\ DOMAIN runners' = DOMAIN runners /\ Len(runners') = Len(runners)
      /\ runners'[r] = p /\ \A s \in DOMAIN runners : s # r => runners'[s] = runners[s]
  BY <1>1, Advanced
<1>5. /\ calls' \in [Callers -> Call]
      /\ \A c \in Callers : c # q.from => calls'[c] = calls[c]
      /\ \A c \in Callers : c = q.from =>
           /\ calls'[c].op = calls[c].op /\ calls'[c].job = calls[c].job
           /\ calls'[c].runner = calls[c].runner /\ calls'[c].token = calls[c].token
           /\ q.todo # <<>> => calls'[c].pc = "handling"
           /\ q.todo = <<>> => calls'[c].pc = "answered" /\ calls'[c].ok = q.ok
  BY <1>1, Advanced
<1>6. q.from \in Callers \cup {None} /\ None \notin Callers
  BY <1>1, HypervisorAssumption DEF Runner
<1>7. q.from # None => calls[q.from].pc \in {"sent", "handling"} /\ calls[q.from].runner = r
  BY <1>1, <1>2, <1>6, HypervisorAssumption DEF WorksFor, RunnerShape
<1>8. runners[r].from # None => q.from = runners[r].from
  BY <1>1, <1>2 DEF WorksFor, Shape
<1> HIDE DEF p
<1>9. TypeOK'
  <2>1. \A s \in DOMAIN runners' : runners'[s] \in Runner
    BY <1>4
  <2> QED
    BY <1>2, <1>4, <1>5, <2>1 DEF TypeOK, Moves
<1>10. \A c \in Callers : CallShape(c)'
  <2> TAKE c \in Callers
  <2>1. CallShape(c) /\ calls[c] \in Call
    BY <1>2 DEF TypeInv, TypeOK
  <2>2. CASE c = q.from
    <3>1. /\ calls[c].pc \in {"sent", "handling"} /\ calls[c].runner = r
          /\ calls'[c].pc \in {"handling", "answered"}
      BY <1>5, <1>6, <1>7, <2>2
    <3>2. calls'[c].pc = "handling" => p.from = c
      BY <1>1, <1>5, <2>2, SettledFields DEF p
    <3>3. calls'[c].pc = "answered" /\ calls'[c].op \in {"wake", "retry"} /\ ~calls'[c].ok =>
            p.loop = "done"
      <4>1. calls'[c].pc = "answered" => q.todo = <<>>
        BY <1>5, <2>2
      <4>2. q.todo = <<>> /\ q.state \in Terminal => p.loop = "done"
        BY <1>1, SettledFields DEF p
      <4> QED
        BY <1>5, <1>6, <2>2, <4>1, <4>2 DEF Moves
    <3> QED
      BY <1>4, <1>5, <2>1, <2>2, <3>1, <3>2, <3>3 DEF CallShape
  <2>3. CASE c # q.from
    <3>1. calls'[c] = calls[c]
      BY <1>5, <2>3
    <3>2. calls[c].pc = "handling" => calls[c].runner # r
      BY <1>6, <1>8, <2>1, <2>3, HypervisorAssumption DEF CallShape
    <3>3. calls[c].pc = "answered" /\ calls[c].op \in {"wake", "retry"} /\ ~calls[c].ok =>
            calls[c].runner # r
      <4>1. runners[r].loop = "on"
        BY DEF Moves
      <4> QED
        BY <2>1, <4>1 DEF CallShape
    <3> QED
      BY <1>4, <2>1, <3>1, <3>2, <3>3 DEF CallShape
  <2> QED
    BY <2>2, <2>3
<1>11. \A s \in DOMAIN runners' : RunnerShape(s)'
  <2> TAKE s \in DOMAIN runners'
  <2>1. CASE s = r
    <3>1. p.from # None => p.from = q.from /\ q.todo # <<>> /\ p.from \in Callers
      BY <1>1, <1>6, SettledFields DEF p
    <3>2. p.from # None => calls'[p.from].pc = "handling" /\ calls'[p.from].runner = r
      BY <1>5, <1>7, <3>1
    <3>3. p.from # None => calls'[p.from].op = calls[q.from].op
      BY <1>5, <3>1
    <3>4. p.todo \in {<<"suspend", "saveCheckpointed">>, <<"snapshot", "saveCheckpointed">>}
            => calls'[p.from].op \in {"suspend", "snapshot"}
      BY <1>3, <3>3 DEF Moves, Shape
    <3>5. p.todo = <<"stop", "saveCompleted">> => calls'[p.from].op = "kill"
      BY <1>3, <3>3 DEF Moves, Shape
    <3> QED
      BY <1>3, <1>4, <2>1, <3>2, <3>4, <3>5 DEF RunnerShape
  <2>2. CASE s # r
    <3>1. RunnerShape(s) /\ runners'[s] = runners[s] /\ runners[s] \in Runner /\ Shape(runners[s])
      BY <1>2, <1>4, <2>2 DEF TypeInv, TypeOK, RunnerShape
    <3>2. runners[s].from # None => runners[s].from # q.from /\ runners[s].from \in Callers
      BY <1>7, <2>2, <3>1 DEF RunnerShape, Runner
    <3>3. runners[s].from # None => calls'[runners[s].from] = calls[runners[s].from]
      BY <1>5, <3>2
    <3>4. runners[s].todo \in {<<"suspend", "saveCheckpointed">>, <<"snapshot", "saveCheckpointed">>,
                               <<"stop", "saveCompleted">>} => runners[s].from # None
      BY <3>1 DEF Shape
    <3> QED
      BY <3>1, <3>3, <3>4 DEF RunnerShape
  <2> QED
    BY <2>1, <2>2
<1> QED
  BY <1>4, <1>9, <1>10, <1>11 DEF TypeInv

-----------------------------------------------------------------------------
(***************************************************************************)
(* Claims, when a runner moves.                                            *)
(***************************************************************************)
\* A runner that moves does not become a claim that it was not.
LEMMA MovesClaims ==
  ASSUME TypeInv, ClaimInv, NEW r \in DOMAIN runners, NEW q, Moves(r, q),
         Active(Settled(q)) => Active(runners[r])
  PROVE  ClaimInv'
<1>1. q \in Runner /\ q.job = runners[r].job /\ Advance(r, q) /\ UNCHANGED <<table, found, due>>
  BY DEF Moves
<1>2. DOMAIN runners' = DOMAIN runners
      /\ runners'[r] = Settled(q) /\ \A s \in DOMAIN runners : s # r => runners'[s] = runners[s]
  BY <1>1, Advanced
<1>3. \A s \in DOMAIN runners : runners'[s].job = runners[s].job
                                /\ (Active(runners'[s]) => Active(runners[s]))
  BY <1>1, <1>2, SettledFields
<1>4. \A c \in Callers : calls'[c].pc = "inserted" => calls'[c] = calls[c]
  <2>1. \A c \in Callers : c # q.from => calls'[c] = calls[c]
    BY <1>1, Advanced
  <2>2. \A c \in Callers : c = q.from => calls'[c].pc \in {"handling", "answered"}
    BY <1>1, Advanced
  <2> QED
    BY <2>1, <2>2
<1>5. \A c \in Callers, j \in JobIds : Inserting(c, j)' => Inserting(c, j)
  BY <1>4 DEF Inserting
<1> QED
  BY <1>1, <1>2, <1>3, <1>4 DEF ClaimInv, Inserting

\* Runners that wake or retry, when a runner moves.
LEMMA MovesWakes ==
  ASSUME TypeInv, WakeInv, NEW r \in DOMAIN runners, NEW q, Moves(r, q),
         \A c \in Callers : calls[c].pc = "sent" /\ calls[c].runner = r /\ c # q.from =>
           LET p == Settled(q) IN
           p.loop = "on" =>
             /\ calls[c].op = "wake" =>
                  \/ p.state = "suspended" /\ ~p.process /\ p.todo = <<>>
                  \/ p.state = "failed" /\ p.todo = <<"saveCompleted">>
             /\ calls[c].op = "retry" => p.state = "failed" /\ p.todo = <<>>
  PROVE  WakeInv'
<1>1. q \in Runner /\ Advance(r, q)
  BY DEF Moves
<1>2. DOMAIN runners' = DOMAIN runners
      /\ runners'[r] = Settled(q) /\ \A s \in DOMAIN runners : s # r => runners'[s] = runners[s]
  BY <1>1, Advanced
<1>3. \A c \in Callers : c # q.from => calls'[c] = calls[c]
  BY <1>1, Advanced
<1>4. \A c \in Callers : c = q.from => calls'[c].pc \in {"handling", "answered"}
  BY <1>1, Advanced
<1>5. \A c \in Callers : calls'[c].pc = "sent" =>
        c # q.from /\ calls'[c] = calls[c] /\ calls[c].runner \in DOMAIN runners
  BY <1>3, <1>4 DEF TypeInv, CallShape
<1> QED
  BY <1>2, <1>5 DEF WakeInv

\* The row fits the runner, if the runner claims its job.
RowFits(r) ==
  Active(runners[r]) =>
    LET s == rows[runners[r].job].state IN
    /\ s = "suspended" => Waking(runners[r]) /\ PolledFor(r, "wake")
    /\ s = "pending_retry" => Retrying(runners[r]) /\ PolledFor(r, "retry")

\* The rows, when a runner moves and changes none but that of its job: one that is not
\* a claim writes only that the job has ended.
LEMMA MovesRows ==
  ASSUME TypeInv, ClaimInv, RowInv, NEW r \in DOMAIN runners, NEW q, Moves(r, q),
         Active(Settled(q)) => Active(runners[r]),
         \A j \in JobIds : j # runners[r].job => rows'[j] = rows[j],
         ~Active(runners[r]) =>
           rows'[runners[r].job].state \in {rows[runners[r].job].state} \cup Terminal,
         RowFits(r)'
  PROVE  RowInv'
<1>1. q \in Runner /\ q.job = runners[r].job /\ Advance(r, q) /\ UNCHANGED <<found, due>>
      /\ runners[r].job \in JobIds
  BY DEF Moves, Runner
<1>2. DOMAIN runners' = DOMAIN runners
      /\ runners'[r] = Settled(q) /\ \A s \in DOMAIN runners : s # r => runners'[s] = runners[s]
  BY <1>1, Advanced
<1>3. \A c \in Callers : c # q.from => calls'[c] = calls[c]
  BY <1>1, Advanced
<1>4. \A c \in Callers : c = q.from => calls'[c].pc \in {"handling", "answered"}
  BY <1>1, Advanced
<1>5. q.from # None => calls[q.from].runner = r
  BY DEF Moves, WorksFor, TypeInv, RunnerShape
<1>6. \A j \in JobIds :
        \/ rows'[j].state \in {rows[j].state} \cup Terminal
        \/ j = runners[r].job /\ Active(runners[r])
  BY <1>1
<1>7. \A s \in DOMAIN runners : RowFits(s)'
  <2> TAKE s \in DOMAIN runners
  <2>1. CASE s = r
    BY <2>1
  <2>2. CASE s # r
    <3>1. runners'[s] = runners[s] /\ RowFits(s) /\ runners[s].job \in JobIds
      BY <1>2, <2>2 DEF RowInv, RowFits, TypeInv, TypeOK, Runner
    <3> SUFFICES ASSUME Active(runners[s]) PROVE RowFits(s)'
      BY <3>1 DEF RowFits
    <3>2. rows'[runners[s].job].state \in {rows[runners[s].job].state} \cup Terminal
      BY <1>6, <2>2, <3>1 DEF ClaimInv
    <3>3. PolledFor(s, "wake") \/ PolledFor(s, "retry") => q.from # Poller
      BY <1>5, <2>2, HypervisorAssumption DEF PolledFor, Callers
    <3>4. \A op : PolledFor(s, op) /\ q.from # Poller => PolledFor(s, op)'
      BY <1>3, <3>1 DEF PolledFor, Callers
    <3> QED
      BY <3>1, <3>2, <3>3, <3>4 DEF RowFits, Terminal
  <2> QED
    BY <2>1, <2>2
<1>8. \A d \in found : Claimed(d) => rows'[d.id].state \in {d.row.state} \cup Terminal
  BY <1>6 DEF RowInv, ClaimInv, TypeInv, TypeOK, Found
<1>9. \A d \in due : rows'[d.id].state \in {d.row.state} \cup Terminal
  BY <1>6 DEF RowInv, ClaimInv, TypeInv, TypeOK, Found
<1>10. \A c \in Callers : calls'[c].pc = "inserted" =>
         rows'[calls'[c].job].state \in {"pending"} \cup Terminal
  <2> SUFFICES ASSUME NEW c \in Callers, calls'[c].pc = "inserted"
               PROVE  rows'[calls'[c].job].state \in {"pending"} \cup Terminal
    OBVIOUS
  <2>1. calls'[c] = calls[c] /\ calls[c].job \in JobIds
    BY <1>3, <1>4 DEF TypeInv, CallShape
  <2>2. ~(calls[c].job = runners[r].job /\ Active(runners[r]))
    BY <2>1 DEF ClaimInv, Inserting
  <2> QED
    BY <1>6, <2>1, <2>2 DEF RowInv
<1> QED
  BY <1>1, <1>2, <1>7, <1>8, <1>9, <1>10 DEF RowInv, RowFits

\* The containers, when a runner moves: only a claim starts one, and not while its row
\* says suspended.
LEMMA MovesStops ==
  ASSUME TypeInv, ClaimInv, StoppedInv, NEW r \in DOMAIN runners, NEW q, Moves(r, q),
         \A j \in JobIds : j # runners[r].job => rows'[j] = rows[j],
         \A j \in JobIds : container'[j] = "running" =>
           container[j] = "running" \/ (j = runners[r].job /\ Active(runners[r])),
         runners[r].job \in table /\ rows'[runners[r].job].state = "suspended"
           => container'[runners[r].job] # "running",
         q.state = "suspended" /\ q.todo = <<"saveCheckpointed">>
           => container'[runners[r].job] # "running"
  PROVE  StoppedInv'
<1>1. q \in Runner /\ q.job = runners[r].job /\ Advance(r, q) /\ UNCHANGED table
  BY DEF Moves
<1>2. DOMAIN runners' = DOMAIN runners
      /\ runners'[r] = Settled(q) /\ \A s \in DOMAIN runners : s # r => runners'[s] = runners[s]
  BY <1>1, Advanced
<1>3. SuspendedIsStopped'
  <2> SUFFICES ASSUME NEW j \in table, rows'[j].state = "suspended"
               PROVE  container'[j] # "running"
    BY <1>1 DEF SuspendedIsStopped
  <2>1. j \in JobIds
    BY DEF TypeInv, TypeOK
  <2> QED
    BY <2>1 DEF StoppedInv, SuspendedIsStopped
<1>4. ASSUME NEW s \in DOMAIN runners, runners'[s].state = "suspended",
             runners'[s].todo = <<"saveCheckpointed">>
      PROVE  container'[runners'[s].job] # "running"
  <2>1. CASE s = r
    BY <1>1, <1>2, <1>4, <2>1, SettledFields
  <2>2. CASE s # r
    <3>1. runners'[s] = runners[s] /\ runners[s].job \in JobIds /\ Shape(runners[s])
          /\ runners[s] \in Runner
      BY <1>2, <2>2 DEF TypeInv, TypeOK, Runner, RunnerShape
    <3>2. runners[s].loop = "on"
      <4>1. runners[s].todo # <<>>
        BY <1>4, <3>1
      <4> QED
        BY <3>1, <4>1 DEF Shape, Runner
    <3>3. Active(runners[s])
      BY <1>4, <3>1, <3>2 DEF Active
    <3>4. ~(runners[s].job = runners[r].job /\ Active(runners[r]))
      BY <2>2, <3>3 DEF ClaimInv
    <3> QED
      BY <1>4, <3>1, <3>4 DEF StoppedInv
  <2> QED
    BY <2>1, <2>2
<1> QED
  BY <1>2, <1>3, <1>4 DEF StoppedInv

\* All together.
LEMMA MovesInv ==
  ASSUME Inv, NEW r \in DOMAIN runners, NEW q, Moves(r, q),
         rows' \in [JobIds -> Row], container' \in [JobIds -> {"none", "running", "exited"}],
         Active(Settled(q)) => Active(runners[r]),
         \A c \in Callers : calls[c].pc = "sent" /\ calls[c].runner = r /\ c # q.from =>
           LET p == Settled(q) IN
           p.loop = "on" =>
             /\ calls[c].op = "wake" =>
                  \/ p.state = "suspended" /\ ~p.process /\ p.todo = <<>>
                  \/ p.state = "failed" /\ p.todo = <<"saveCompleted">>
             /\ calls[c].op = "retry" => p.state = "failed" /\ p.todo = <<>>,
         \A j \in JobIds : j # runners[r].job => rows'[j] = rows[j],
         ~Active(runners[r]) =>
           rows'[runners[r].job].state \in {rows[runners[r].job].state} \cup Terminal,
         RowFits(r)',
         \A j \in JobIds : container'[j] = "running" =>
           container[j] = "running" \/ (j = runners[r].job /\ Active(runners[r])),
         runners[r].job \in table /\ rows'[runners[r].job].state = "suspended"
           => container'[runners[r].job] # "running",
         q.state = "suspended" /\ q.todo = <<"saveCheckpointed">>
           => container'[runners[r].job] # "running"
  PROVE  Inv'
<1>1. TypeInv'
  BY MovesTypes DEF Inv
<1>2. ClaimInv'
  BY MovesClaims DEF Inv
<1>3. WakeInv'
  BY MovesWakes DEF Inv
<1>4. RowInv'
  BY MovesRows DEF Inv
<1>5. StoppedInv'
  BY MovesStops DEF Inv
<1> QED
  BY <1>1, <1>2, <1>3, <1>4, <1>5 DEF Inv

-----------------------------------------------------------------------------
(***************************************************************************)
(* The operations of a handler.                                            *)
(***************************************************************************)
\* A handler in progress.
LEMMA Underway ==
  ASSUME Inv, NEW r \in DOMAIN runners, runners[r].todo # <<>>
  PROVE  /\ runners[r] \in Runner /\ runners[r].loop = "on" /\ runners[r].todo \in Plans
         /\ Shape(runners[r]) /\ runners[r].job \in JobIds
         /\ \A c \in Callers : calls[c].pc = "sent" /\ calls[c].runner = r =>
              /\ calls[c].op = "wake" => runners[r].todo = <<"saveCompleted">>
              /\ calls[c].op # "retry"
         /\ runners[r].from # None => calls[runners[r].from].pc = "handling"
         /\ RowFits(r)
<1>1. runners[r] \in Runner /\ Shape(runners[r])
  BY DEF Inv, TypeInv, TypeOK, RunnerShape
<1>2. runners[r].loop = "on" /\ runners[r].todo \in Plans
  BY <1>1 DEF Shape, Runner
<1>3. \A c \in Callers : calls[c].pc = "sent" /\ calls[c].runner = r =>
        /\ calls[c].op = "wake" => runners[r].todo = <<"saveCompleted">>
        /\ calls[c].op # "retry"
  BY <1>2 DEF Inv, WakeInv
<1>4. runners[r].from # None => calls[runners[r].from].pc = "handling"
  BY DEF Inv, TypeInv, RunnerShape
<1>5. RowFits(r)
  BY DEF Inv, RowInv, RowFits
<1> QED
  BY <1>1, <1>2, <1>3, <1>4, <1>5 DEF Runner

\* The poller still waits for a handler that goes on.
LEMMA StillPolled ==
  ASSUME Inv, NEW r \in DOMAIN runners, NEW q, Moves(r, q), q.from = runners[r].from,
         runners[r].todo # <<>>, q.todo # <<>>, NEW op, PolledFor(r, op)
  PROVE  PolledFor(r, op)'
<1>1. q \in Runner /\ Advance(r, q) /\ Poller \in Callers
  BY DEF Moves, Callers
<1>2. calls[Poller].pc = "handling" /\ q.from = Poller
  BY <1>1 DEF PolledFor, Inv, TypeInv, CallShape
<1>3. runners'[r] = q /\ calls'[Poller].pc = "handling" /\ calls'[Poller].op = calls[Poller].op
      /\ calls'[Poller].runner = calls[Poller].runner
  BY <1>1, <1>2, Advanced, SettledFields DEF Inv
<1> QED
  BY <1>2, <1>3 DEF PolledFor

\* A handler that has nothing left to do but to write that the job has ended, or whose
\* runner is done, or whose job stays suspended.
LEMMA Quits ==
  ASSUME Inv, NEW r \in DOMAIN runners, runners[r].todo \notin {<<>>, <<"saveCompleted">>},
         NEW q, Moves(r, q), q.from = runners[r].from, ~Active(Settled(q)),
         UNCHANGED rows, container' \in [JobIds -> {"none", "running", "exited"}],
         \A j \in JobIds : container'[j] = "running" => container[j] = "running"
  PROVE  Inv'
<1>1. /\ runners[r] \in Runner /\ runners[r].job \in JobIds
      /\ \A c \in Callers : calls[c].pc = "sent" /\ calls[c].runner = r =>
           calls[c].op # "wake" /\ calls[c].op # "retry"
  BY Underway
<1>2. q \in Runner /\ q.loop = "on" /\ Advance(r, q)
  BY DEF Moves
<1>3. runners'[r] = Settled(q)
  BY <1>2, Advanced DEF Inv
<1>4. RowFits(r)'
  BY <1>3 DEF RowFits
<1>5. ~(q.state = "suspended" /\ q.todo = <<"saveCheckpointed">>)
  <2>1. q.todo = <<"saveCheckpointed">> => q.todo # <<>>
    OBVIOUS
  <2> QED
    BY <1>2, <2>1, SettledFields DEF Active
<1>6. rows' \in [JobIds -> Row]
  BY DEF Inv, TypeInv, TypeOK
<1>7. runners[r].job \in table /\ rows'[runners[r].job].state = "suspended"
        => container'[runners[r].job] # "running"
  BY <1>1 DEF Inv, StoppedInv, SuspendedIsStopped
<1> QED
  BY <1>1, <1>4, <1>5, <1>6, <1>7, MovesInv

\* A handler of a claim that goes on, and may start the container.
LEMMA GoesOn ==
  ASSUME Inv, NEW r \in DOMAIN runners, runners[r].todo \notin {<<>>, <<"saveCompleted">>},
         NEW q, Moves(r, q), q.from = runners[r].from, q.todo # <<>>,
         Active(runners[r]), rows[runners[r].job].state # "suspended",
         rows[runners[r].job].state = "pending_retry" => Retrying(q),
         UNCHANGED rows, container' \in [JobIds -> {"none", "running", "exited"}],
         \A j \in JobIds : j # runners[r].job /\ container'[j] = "running" => container[j] = "running",
         q.state = "suspended" /\ q.todo = <<"saveCheckpointed">>
           => container'[runners[r].job] # "running"
  PROVE  Inv'
<1>1. /\ runners[r] \in Runner /\ runners[r].job \in JobIds /\ RowFits(r)
      /\ \A c \in Callers : calls[c].pc = "sent" /\ calls[c].runner = r =>
           calls[c].op # "wake" /\ calls[c].op # "retry"
  BY Underway
<1>2. q \in Runner /\ q.job = runners[r].job /\ Advance(r, q)
  BY DEF Moves
<1>3. runners'[r] = q
  BY <1>2, Advanced, SettledFields DEF Inv
<1>4. RowFits(r)'
  <2>1. rows[runners[r].job].state = "pending_retry" => PolledFor(r, "retry")'
    BY <1>1, StillPolled DEF RowFits
  <2> QED
    BY <1>2, <1>3, <2>1 DEF RowFits
<1>5. rows' \in [JobIds -> Row]
  BY DEF Inv, TypeInv, TypeOK
<1> QED
  BY <1>1, <1>4, <1>5, MovesInv

\* What Step leaves alone.
StepFrame == UNCHANGED <<table, defined, stage, found, due, inMap, gaveUp, made, crashes>>

\* A start or a restore that fails.
LEMMA Failing ==
  ASSUME Inv, NEW r \in DOMAIN runners,
         Head(runners[r].todo) \in {"create", "restore"}, runners[r].todo # <<>>,
         Advance(r, Fails(runners[r])), UNCHANGED rows, StepFrame,
         container' \in [JobIds -> {"none", "running", "exited"}],
         \A j \in JobIds : container'[j] = "running" => container[j] = "running"
  PROVE  Inv'
<1> DEFINE p == runners[r]
           q == Fails(p)
<1>1. p \in Runner /\ p.loop = "on" /\ p.todo \in Plans /\ Shape(p)
  BY Underway
<1>2. p.todo \in {<<"create", "saveStarted">>, <<"restore">>, <<"restore", "saveStarted">>}
  BY <1>1, PlanSteps
<1>3. p.todo \notin {<<>>, <<"saveCompleted">>}
  BY <1>2
<1>4. <<"saveCompleted">> \in Seq(Ops) /\ <<"saveCompleted">> \in Plans /\ <<>> \in Seq(Ops)
  BY PlanSteps DEF Plans
<1>5. /\ q \in Runner /\ q.job = p.job /\ q.loop = "on" /\ q.from = p.from /\ q.state = "failed"
      /\ q.todo \in {<<>>, <<"saveCompleted">>}
  BY <1>1, <1>4 DEF Fails, Runner, JobStates
<1> HIDE DEF q
<1>6. q.todo # <<>> => Shape(q)
  BY <1>4, <1>5, PlanTails DEF Shape, Plans, Terminal
<1>7. Moves(r, q)
  BY <1>1, <1>5, <1>6 DEF Moves, StepFrame, WorksFor, Terminal, q
<1>8. ~Active(Settled(q))
  BY <1>5, SettledFields DEF Active, Terminal
<1> QED
  BY <1>3, <1>5, <1>7, <1>8, Quits

\* A start or a restore, within a start or a retry, that succeeds.
LEMMA Beginning ==
  ASSUME Inv, NEW r \in DOMAIN runners, runners[r].todo # <<>>,
         Head(runners[r].todo) = "create" \/ runners[r].todo = <<"restore", "saveStarted">>,
         NEW q, q.todo = <<"saveStarted">>, q.state = "running", q.job = runners[r].job,
         q.from = runners[r].from, q.ok = runners[r].ok, q.loop = runners[r].loop, q \in Runner,
         Advance(r, q), UNCHANGED rows, StepFrame,
         container' \in [JobIds -> {"none", "running", "exited"}],
         \A j \in JobIds : j # runners[r].job /\ container'[j] = "running" => container[j] = "running"
  PROVE  Inv'
<1> DEFINE p == runners[r]
<1>1. p \in Runner /\ p.loop = "on" /\ p.todo \in Plans /\ Shape(p) /\ RowFits(r)
  BY Underway
<1>2. p.todo \in {<<"create", "saveStarted">>, <<"restore", "saveStarted">>}
  BY <1>1, PlanSteps
<1>3. p.state \in {"pending", "failed"} /\ p.ok
  BY <1>1, <1>2 DEF Shape, Runner
<1>4. Active(p) /\ rows[p.job].state # "suspended" /\ p.todo \notin {<<>>, <<"saveCompleted">>}
  BY <1>1, <1>2, <1>3 DEF Active, RowFits, Waking, Terminal
<1>5. <<"saveStarted">> \in Plans
  BY DEF Plans
<1>6. Shape(q)
  BY <1>1, <1>3, <1>5, PlanTails DEF Shape, Runner
<1>7. Moves(r, q)
  BY <1>1, <1>3, <1>6 DEF Moves, StepFrame, WorksFor
<1>8. Retrying(q) /\ q.todo # <<>>
  BY DEF Retrying
<1> QED
  BY <1>4, <1>7, <1>8, GoesOn

\* One operation of a handler keeps the invariant: podman run,
LEMMA CreateKeeps ==
  ASSUME Inv, NEW r \in DOMAIN runners, runners[r].todo # <<>>, Create(r, runners[r]),
         UNCHANGED rows, StepFrame
  PROVE  Inv'
<1> DEFINE p == runners[r]
<1>1. /\ p \in Runner /\ p.loop = "on" /\ p.todo \in Plans /\ Shape(p) /\ p.job \in JobIds
      /\ container \in [JobIds -> {"none", "running", "exited"}]
  BY Underway DEF Inv, TypeInv, TypeOK
<1>2. p.todo = <<"create", "saveStarted">>
  BY <1>1, PlanSteps DEF Create
<1>3. CASE container[p.job] = "none"
  <2>1. Advance(r, Begins(p)) /\ container' = [container EXCEPT ![p.job] = "running"]
    BY <1>3 DEF Create
  <2>2. <<"saveStarted">> \in Seq(Ops) /\ Tail(p.todo) = <<"saveStarted">>
    BY <1>2, PlanSteps, PlanTails DEF Plans
  <2>3. /\ Begins(p) \in Runner /\ Begins(p).job = p.job /\ Begins(p).from = p.from
        /\ Begins(p).ok = p.ok /\ Begins(p).loop = p.loop
        /\ Begins(p).todo = <<"saveStarted">> /\ Begins(p).state = "running"
    BY <1>1, <2>2 DEF Begins, Runner, JobStates
  <2> QED
    BY <1>1, <2>1, <2>3, Beginning DEF Create
<1>4. CASE container[p.job] # "none"
  BY <1>1, <1>4, Failing DEF Create
<1> QED
  BY <1>3, <1>4

\* A handler that ends.
LEMMA Rests ==
  ASSUME Inv, NEW r \in DOMAIN runners, runners[r].todo \notin {<<>>, <<"saveCompleted">>},
         NEW q, Moves(r, q), q.from = runners[r].from, q.todo = <<>>,
         Active(Settled(q)) => Active(runners[r]),
         Active(runners[r]) => rows[runners[r].job].state \notin {"suspended", "pending_retry"},
         UNCHANGED rows, container' \in [JobIds -> {"none", "running", "exited"}],
         \A j \in JobIds : container'[j] = "running" =>
           container[j] = "running" \/ (j = runners[r].job /\ Active(runners[r]))
  PROVE  Inv'
<1>1. /\ runners[r] \in Runner /\ runners[r].job \in JobIds
      /\ \A c \in Callers : calls[c].pc = "sent" /\ calls[c].runner = r =>
           calls[c].op # "wake" /\ calls[c].op # "retry"
  BY Underway
<1>2. q \in Runner /\ q.job = runners[r].job /\ Advance(r, q)
  BY DEF Moves
<1>3. runners'[r] = Settled(q) /\ Settled(q).job = runners[r].job
  BY <1>2, Advanced, SettledFields DEF Inv
<1>4. RowFits(r)'
  BY <1>3 DEF RowFits
<1>5. rows' \in [JobIds -> Row]
  BY DEF Inv, TypeInv, TypeOK
<1>6. runners[r].job \in table /\ rows'[runners[r].job].state = "suspended"
        => container'[runners[r].job] # "running"
  BY <1>1 DEF Inv, StoppedInv, SuspendedIsStopped
<1>7. q.todo # <<"saveCheckpointed">>
  OBVIOUS
<1> QED
  BY <1>1, <1>4, <1>5, <1>6, <1>7, MovesInv

\* podman container restore,
LEMMA RestoreKeeps ==
  ASSUME Inv, NEW r \in DOMAIN runners, runners[r].todo # <<>>, Restore(r, runners[r]),
         UNCHANGED rows, StepFrame
  PROVE  Inv'
<1> DEFINE p == runners[r]
           pruned == [j \in JobIds |-> IF container[j] = "exited" THEN "none" ELSE container[j]]
           q == [Begins(p) EXCEPT !.resumeAt = FALSE]
<1>1. /\ p \in Runner /\ p.loop = "on" /\ p.todo \in Plans /\ Shape(p) /\ p.job \in JobIds
      /\ container \in [JobIds -> {"none", "running", "exited"}] /\ RowFits(r)
  BY Underway DEF Inv, TypeInv, TypeOK
<1>2. p.todo \in {<<"restore">>, <<"restore", "saveStarted">>} /\ Head(p.todo) = "restore"
  BY <1>1, PlanSteps DEF Restore
<1>3. PICK fails \in {FALSE, TRUE} :
        /\ container' = [pruned EXCEPT ![p.job] = IF fails THEN "none" ELSE "running"]
        /\ Advance(r, IF fails THEN Fails(p) ELSE q)
  BY DEF Restore
<1>4. /\ container' \in [JobIds -> {"none", "running", "exited"}]
      /\ \A j \in JobIds : j # p.job /\ container'[j] = "running" => container[j] = "running"
  BY <1>1, <1>3
<1>5. CASE fails
  <2>1. Advance(r, Fails(p)) /\ \A j \in JobIds : container'[j] = "running" => container[j] = "running"
    BY <1>1, <1>3, <1>4, <1>5
  <2> QED
    BY <1>2, <1>4, <2>1, Failing
<1>6. CASE ~fails /\ p.todo = <<"restore", "saveStarted">>
  <2>1. <<"saveStarted">> \in Seq(Ops) /\ Tail(p.todo) = <<"saveStarted">>
    BY <1>6, PlanSteps, PlanTails DEF Plans
  <2>2. /\ q \in Runner /\ q.job = p.job /\ q.from = p.from
        /\ q.ok = p.ok /\ q.loop = p.loop
        /\ q.todo = <<"saveStarted">> /\ q.state = "running"
    BY <1>1, <2>1 DEF Begins, Runner, JobStates
  <2>3. Advance(r, q)
    BY <1>3, <1>6
  <2> HIDE DEF q
  <2> QED
    BY <1>4, <1>6, <2>2, <2>3, Beginning
<1>7. CASE ~fails /\ p.todo = <<"restore">>
  <2>1. <<>> \in Seq(Ops) /\ Tail(p.todo) = <<>>
    BY <1>7, PlanTails
  <2>2. /\ q \in Runner /\ q.job = p.job /\ q.from = p.from
        /\ q.ok = p.ok /\ q.loop = p.loop /\ q.todo = <<>>
    BY <1>1, <2>1 DEF Begins, Runner, JobStates
  <2>3. Advance(r, q)
    BY <1>3, <1>7
  <2>4. p.state = "running" /\ p.ok /\ p.todo \notin {<<>>, <<"saveCompleted">>}
        /\ p.todo # <<"saveRunning", "restore">> /\ p.todo # <<"saveStarted">>
    BY <1>1, <1>7 DEF Shape, Runner
  <2>5. Active(p) /\ rows[p.job].state \notin {"suspended", "pending_retry"}
    BY <1>1, <2>4 DEF Active, RowFits, Waking, Retrying
  <2> HIDE DEF q
  <2>6. q.todo # <<"suspend", "saveCheckpointed">> /\ q.todo # <<"snapshot", "saveCheckpointed">>
        /\ q.todo # <<"stop", "saveCompleted">>
    BY <2>2
  <2>7. Moves(r, q)
    BY <1>1, <2>2, <2>3, <2>4, <2>6 DEF Moves, StepFrame, WorksFor
  <2> QED
    BY <1>4, <2>2, <2>4, <2>5, <2>7, Rests
<1> QED
  BY <1>2, <1>5, <1>6, <1>7

\* podman container checkpoint,
LEMMA CheckpointKeeps ==
  ASSUME Inv, NEW r \in DOMAIN runners, runners[r].todo # <<>>, Checkpoint(r, runners[r]),
         UNCHANGED rows, StepFrame
  PROVE  Inv'
<1> DEFINE p == runners[r]
           op == Head(p.todo)
           bad == [p EXCEPT !.ok = FALSE, !.resumeAt = FALSE, !.todo = <<>>]
           q == [p EXCEPT !.tokens = @ \cup {calls[p.from].token}, !.checkpoint = TRUE,
                          !.state = IF op = "suspend" THEN "suspended" ELSE @,
                          !.resumeAt = @ \/ op = "suspend",
                          !.watched = @ /\ op # "suspend",
                          !.todo = Tail(@)]
<1>1. /\ p \in Runner /\ p.loop = "on" /\ p.todo \in Plans /\ Shape(p) /\ p.job \in JobIds
      /\ container \in [JobIds -> {"none", "running", "exited"}] /\ RowFits(r)
  BY Underway DEF Inv, TypeInv, TypeOK
<1>2. op \in {"suspend", "snapshot"}
      /\ p.todo \in {<<"suspend", "saveCheckpointed">>, <<"snapshot", "saveCheckpointed">>}
  BY <1>1, PlanSteps DEF Checkpoint
<1>3. /\ p.state = "running" /\ p.process /\ p.ok /\ p.from \in Callers
      /\ p.todo \notin {<<>>, <<"saveCompleted">>, <<"saveRunning", "restore">>, <<"saveStarted">>}
  BY <1>1, <1>2 DEF Shape, Runner
<1>4. Active(p) /\ rows[p.job].state \notin {"suspended", "pending_retry"}
  BY <1>1, <1>3 DEF Active, RowFits, Waking, Retrying
<1>5. calls[p.from].op \in {"suspend", "snapshot"} /\ calls[p.from].token \in Tokens
  BY <1>2, <1>3 DEF Inv, TypeInv, RunnerShape, CallShape
<1>6. CASE container[p.job] # "running"
  <2>1. Advance(r, bad) /\ UNCHANGED container
    BY <1>6 DEF Checkpoint
  <2>2. bad \in Runner /\ bad.job = p.job /\ bad.from = p.from /\ bad.loop = p.loop /\ bad.todo = <<>>
    <3>1. <<>> \in Seq(Ops)
      OBVIOUS
    <3> QED
      BY <1>1, <3>1 DEF Runner
  <2> HIDE DEF bad
  <2>3. bad.todo # <<"suspend", "saveCheckpointed">> /\ bad.todo # <<"snapshot", "saveCheckpointed">>
        /\ bad.todo # <<"stop", "saveCompleted">>
    BY <2>2
  <2>4. Moves(r, bad)
    BY <1>1, <1>5, <2>1, <2>2, <2>3 DEF Moves, StepFrame, WorksFor
  <2> QED
    BY <1>1, <1>3, <1>4, <2>1, <2>2, <2>4, Rests
<1>7. CASE container[p.job] = "running"
  <2>1. Advance(r, q)
        /\ container' = [container EXCEPT ![p.job] = IF op = "suspend" THEN "none" ELSE @]
    BY <1>7 DEF Checkpoint
  <2>2. <<"saveCheckpointed">> \in Seq(Ops) /\ <<"saveCheckpointed">> \in Plans
        /\ Tail(p.todo) = <<"saveCheckpointed">>
    BY <1>2, PlanSteps, PlanTails DEF Plans
  <2>3. /\ q \in Runner /\ q.job = p.job /\ q.from = p.from /\ q.ok = p.ok /\ q.loop = p.loop
        /\ q.todo = <<"saveCheckpointed">> /\ q.process = p.process
        /\ q.state = IF op = "suspend" THEN "suspended" ELSE "running"
    <3> DEFINE state == IF op = "suspend" THEN "suspended" ELSE p.state
               until == p.resumeAt \/ op = "suspend"
               watched == p.watched /\ op # "suspend"
               with == p.tokens \cup {calls[p.from].token}
    <3>1. q = [p EXCEPT !.tokens = with, !.checkpoint = TRUE, !.state = state,
                        !.resumeAt = until, !.watched = watched, !.todo = <<"saveCheckpointed">>]
      BY <2>2
    <3>2. state \in JobStates /\ with \in SUBSET Tokens
      BY <1>1, <1>5 DEF Runner, JobStates
    <3>3. until \in BOOLEAN /\ watched \in BOOLEAN
      OBVIOUS
    <3>4. state = IF op = "suspend" THEN "suspended" ELSE "running"
      BY <1>3
    <3> HIDE DEF state, until, watched, with, p, q
    <3>5. /\ q \in Runner /\ q.job = p.job /\ q.from = p.from /\ q.ok = p.ok /\ q.loop = p.loop
          /\ q.todo = <<"saveCheckpointed">> /\ q.process = p.process /\ q.state = state
      BY <1>1, <2>2, <3>1, <3>2, <3>3 DEF Runner
    <3> QED
      BY <3>4, <3>5
  <2>4. container'[p.job] = IF op = "suspend" THEN "none" ELSE container[p.job]
    BY <1>1, <2>1
  <2>5. container' \in [JobIds -> {"none", "running", "exited"}]
        /\ \A j \in JobIds : j # p.job => container'[j] = container[j]
    BY <1>1, <2>1
  <2> HIDE DEF q
  <2>6. Shape(q)
    BY <1>1, <1>3, <2>2, <2>3 DEF Shape, Runner
  <2>7. Moves(r, q)
    BY <1>1, <1>3, <2>1, <2>3, <2>6 DEF Moves, StepFrame, WorksFor
  <2>8. q.todo # <<>>
    BY <2>3
  <2>9. q.state = "suspended" => container'[p.job] # "running"
    BY <2>3, <2>4
  <2> QED
    BY <1>3, <1>4, <2>3, <2>5, <2>7, <2>8, <2>9, GoesOn
<1> QED
  BY <1>6, <1>7

\* podman stop,
LEMMA StopKeeps ==
  ASSUME Inv, NEW r \in DOMAIN runners, runners[r].todo # <<>>, Stop(r, runners[r]),
         UNCHANGED rows, StepFrame
  PROVE  Inv'
<1> DEFINE p == runners[r]
           bad == [p EXCEPT !.ok = FALSE, !.todo = <<>>]
           q == [p EXCEPT !.state = "failed", !.todo = Tail(@)]
<1>1. /\ p \in Runner /\ p.loop = "on" /\ p.todo \in Plans /\ Shape(p) /\ p.job \in JobIds
      /\ container \in [JobIds -> {"none", "running", "exited"}] /\ RowFits(r)
  BY Underway DEF Inv, TypeInv, TypeOK
<1>2. p.todo = <<"stop", "saveCompleted">>
  BY <1>1, PlanSteps DEF Stop
<1>3. /\ p.state \in {"running", "suspended"} /\ p.process /\ p.ok /\ p.from \in Callers
      /\ p.todo \notin {<<>>, <<"saveCompleted">>, <<"saveRunning", "restore">>, <<"saveStarted">>}
  BY <1>1, <1>2 DEF Shape, Runner
<1>4. Active(p) => rows[p.job].state \notin {"suspended", "pending_retry"}
  BY <1>1, <1>3 DEF Active, RowFits, Waking, Retrying
<1>5. calls[p.from].op = "kill"
  BY <1>2, <1>3 DEF Inv, TypeInv, RunnerShape
<1>6. CASE container[p.job] = "none"
  <2>1. Advance(r, bad) /\ UNCHANGED container
    BY <1>6 DEF Stop
  <2>2. /\ bad \in Runner /\ bad.job = p.job /\ bad.from = p.from /\ bad.loop = p.loop
        /\ bad.todo = <<>> /\ bad.state = p.state /\ bad.process = p.process
    <3>1. <<>> \in Seq(Ops)
      OBVIOUS
    <3> QED
      BY <1>1, <3>1 DEF Runner
  <2> HIDE DEF bad
  <2>3. bad.todo # <<"suspend", "saveCheckpointed">> /\ bad.todo # <<"snapshot", "saveCheckpointed">>
        /\ bad.todo # <<"stop", "saveCompleted">>
    BY <2>2
  <2>4. Moves(r, bad)
    BY <1>1, <1>5, <2>1, <2>2, <2>3 DEF Moves, StepFrame, WorksFor
  <2>5. Active(Settled(bad)) => Active(p)
    <3>1. bad.todo # <<"saveCheckpointed">>
      BY <2>2
    <3> QED
      BY <1>1, <1>3, <2>2, <3>1, SettledFields DEF Active, Terminal
  <2> QED
    BY <1>1, <1>3, <1>4, <2>1, <2>2, <2>4, <2>5, Rests
<1>7. CASE container[p.job] # "none"
  <2>1. Advance(r, q) /\ container' = [container EXCEPT ![p.job] = "exited"]
    BY <1>7 DEF Stop
  <2>2. <<"saveCompleted">> \in Seq(Ops) /\ <<"saveCompleted">> \in Plans
        /\ Tail(p.todo) = <<"saveCompleted">>
    BY <1>2, PlanSteps, PlanTails DEF Plans
  <2>3. /\ q \in Runner /\ q.job = p.job /\ q.from = p.from /\ q.ok = p.ok /\ q.loop = p.loop
        /\ q.todo = <<"saveCompleted">> /\ q.state = "failed"
    BY <1>1, <2>2 DEF Runner, JobStates
  <2>4. container' \in [JobIds -> {"none", "running", "exited"}]
        /\ \A j \in JobIds : container'[j] = "running" => container[j] = "running"
    BY <1>1, <2>1
  <2> HIDE DEF q
  <2>5. Shape(q)
    BY <1>1, <1>3, <2>2, <2>3 DEF Shape, Runner, Terminal
  <2>6. Moves(r, q)
    BY <1>1, <1>3, <2>1, <2>3, <2>5 DEF Moves, StepFrame, WorksFor
  <2>7. q.todo # <<>>
    BY <2>3
  <2>8. ~Active(Settled(q))
    BY <1>1, <2>3, <2>7, SettledFields DEF Active, Terminal
  <2> QED
    BY <1>3, <2>3, <2>4, <2>6, <2>8, Quits
<1> QED
  BY <1>6, <1>7

\* podman rm,
LEMMA RemoveKeeps ==
  ASSUME Inv, NEW r \in DOMAIN runners, runners[r].todo # <<>>, Remove(r, runners[r]),
         UNCHANGED rows, StepFrame
  PROVE  Inv'
<1> DEFINE p == runners[r]
           q == [p EXCEPT !.todo = Tail(@)]
<1>1. /\ p \in Runner /\ p.loop = "on" /\ p.todo \in Plans /\ Shape(p) /\ p.job \in JobIds
      /\ container \in [JobIds -> {"none", "running", "exited"}] /\ RowFits(r)
  BY Underway DEF Inv, TypeInv, TypeOK
<1>2. p.todo \in {<<"remove", "saveCompleted">>, <<"remove", "savePendingRetry">>}
  BY <1>1, PlanSteps DEF Remove
<1>3. Advance(r, q) /\ container' = [container EXCEPT ![p.job] = "none"]
  BY DEF Remove
<1>4. /\ container' \in [JobIds -> {"none", "running", "exited"}]
      /\ container'[p.job] = "none"
      /\ \A j \in JobIds : container'[j] = "running" => container[j] = "running"
  BY <1>1, <1>3
<1>5. Tail(p.todo) \in Plans /\ Tail(p.todo) \in Seq(Ops)
  BY <1>2, PlanSteps, PlanTails DEF Plans
<1>6. /\ q \in Runner /\ q.job = p.job /\ q.from = p.from /\ q.ok = p.ok /\ q.loop = p.loop
      /\ q.todo = Tail(p.todo) /\ q.state = p.state /\ q.process = p.process
  BY <1>1, <1>5 DEF Runner
<1>7. p.todo \notin {<<>>, <<"saveCompleted">>} /\ q.todo # <<>>
  <2>1. q.todo # <<>>
    BY <1>5, <1>6, PlanSteps
  <2>2. p.todo \notin {<<>>, <<"saveCompleted">>}
    BY <1>2
  <2> QED
    BY <2>1, <2>2
<1>8. CASE p.todo = <<"remove", "saveCompleted">>
  <2>1. q.todo = <<"saveCompleted">> /\ q.state \in Terminal
    BY <1>1, <1>6, <1>8, PlanTails DEF Shape
  <2> HIDE DEF q
  <2>2. Shape(q)
    BY <1>1, <1>5, <1>6, <1>8, <2>1 DEF Shape, Runner, Terminal
  <2>3. Moves(r, q)
    BY <1>1, <1>3, <1>6, <2>1, <2>2 DEF Moves, StepFrame, WorksFor
  <2>4. ~Active(Settled(q))
    BY <1>6, <1>7, <2>1, SettledFields DEF Active, Terminal
  <2> QED
    BY <1>4, <1>6, <1>7, <2>3, <2>4, Quits
<1>9. CASE p.todo = <<"remove", "savePendingRetry">>
  <2>1. q.todo = <<"savePendingRetry">> /\ q.state = "pending_retry" /\ p.ok
    BY <1>1, <1>6, <1>9, PlanTails DEF Shape, Runner
  <2> HIDE DEF q
  <2>2. Shape(q)
    <3>1. q.ok /\ q.loop = "on" /\ q.todo \in Plans /\ q.todo # <<>>
      BY <1>1, <1>5, <1>6, <1>7, <2>1
    <3> QED
      BY <2>1, <3>1 DEF Shape
  <2>3. Moves(r, q)
    BY <1>1, <1>3, <1>6, <2>1, <2>2 DEF Moves, StepFrame, WorksFor
  <2>4. Active(p) /\ rows[p.job].state \notin {"suspended", "pending_retry"}
    BY <1>1, <1>6, <2>1 DEF Active, RowFits, Waking, Retrying
  <2> QED
    BY <1>4, <1>6, <1>7, <2>1, <2>3, <2>4, GoesOn
<1> QED
  BY <1>2, <1>8, <1>9

\* The row a handler writes has the state of the job, save for the count of retries.
LEMMA Written ==
  ASSUME Inv, NEW r \in DOMAIN runners, runners[r].todo # <<>>, Save(r, runners[r])
  PROVE  LET p == runners[r]
             s == rows'[p.job].state IN
         /\ rows' \in [JobIds -> Row]
         /\ \A j \in JobIds : j # p.job => rows'[j] = rows[j]
         /\ Head(p.todo) = "saveCount" => s = rows[p.job].state
         /\ Head(p.todo) \in {"saveStarted", "saveRunning"} => s = "running"
         /\ Head(p.todo) \in {"saveCheckpointed", "saveCompleted"} => s = p.state
         /\ Head(p.todo) = "savePendingRetry" => s = "pending_retry"
<1> DEFINE p == runners[r]
           op == Head(p.todo)
           row == rows[p.job]
           new == Persist(op, p, row)
<1>1. p \in Runner /\ p.job \in JobIds /\ rows \in [JobIds -> Row] /\ row \in Row
  BY Underway DEF Inv, TypeInv, TypeOK
<1>2. rows' = [rows EXCEPT ![p.job] = new]
  BY DEF Save
<1>3. op \in {"saveStarted", "saveRunning", "saveCount", "saveCheckpointed",
              "savePendingRetry", "saveCompleted"}
  BY DEF Save
<1>4. p.state \in JobStates /\ p.retries \in Nat /\ p.resumeAt \in BOOLEAN /\ p.result \in Results
  BY <1>1 DEF Runner
<1>5. /\ new \in Row
      /\ op = "saveCount" => new.state = row.state
      /\ op \in {"saveStarted", "saveRunning"} => new.state = "running"
      /\ op \in {"saveCheckpointed", "saveCompleted"} => new.state = p.state
      /\ op = "savePendingRetry" => new.state = "pending_retry"
  <2>1. CASE op = "saveStarted"
    BY <1>1, <1>4, <2>1 DEF Persist, UpdateJobStarted, Row, JobStates
  <2>2. CASE op = "saveRunning"
    BY <1>1, <1>4, <2>2 DEF Persist, UpdateJobState, Row, JobStates
  <2>3. CASE op = "saveCount"
    BY <1>1, <1>4, <2>3 DEF Persist, UpdateJobRetryCount, Row
  <2>4. CASE op = "saveCheckpointed"
    <3>1. new = UpdateJobCheckpointed(row, p.state, p.resumeAt)
      BY <2>4 DEF Persist
    <3> HIDE DEF new, row
    <3>2. row.checkpointCount + 1 \in Nat
      BY <1>1 DEF Row
    <3>3. new = [row EXCEPT !.state = p.state, !.checkpointCount = row.checkpointCount + 1,
                            !.resumeAt = p.resumeAt, !.checkpointPath = TRUE]
      BY <3>1 DEF UpdateJobCheckpointed
    <3>4. new \in Row /\ new.state = p.state
      BY <1>1, <1>4, <3>2, <3>3 DEF Row
    <3> QED
      BY <2>4, <3>4
  <2>5. CASE op = "savePendingRetry"
    BY <1>1, <1>4, <2>5 DEF Persist, UpdateJobPendingRetry, Row, JobStates
  <2>6. CASE op = "saveCompleted"
    BY <1>1, <1>4, <2>6 DEF Persist, UpdateJobCompleted, Row
  <2> HIDE DEF new, op, row
  <2> QED
    BY <1>3, <2>1, <2>2, <2>3, <2>4, <2>5, <2>6
<1> HIDE DEF new
<1>6. rows' \in [JobIds -> Row] /\ rows'[p.job] = new /\ \A j \in JobIds : j # p.job => rows'[j] = rows[j]
  BY <1>1, <1>2, <1>5
<1> QED
  BY <1>5, <1>6

\* a write of the row.
LEMMA SaveKeeps ==
  ASSUME Inv, NEW r \in DOMAIN runners, runners[r].todo # <<>>, Save(r, runners[r]),
         UNCHANGED container, StepFrame
  PROVE  Inv'
<1> DEFINE p == runners[r]
           q == [p EXCEPT !.todo = Tail(@)]
           s == rows'[p.job].state
<1>1. /\ p \in Runner /\ p.loop = "on" /\ p.todo \in Plans /\ Shape(p) /\ p.job \in JobIds
      /\ RowFits(r)
      /\ container' \in [JobIds -> {"none", "running", "exited"}]
      /\ \A c \in Callers : calls[c].pc = "sent" /\ calls[c].runner = r =>
           /\ calls[c].op = "wake" => p.todo = <<"saveCompleted">>
           /\ calls[c].op # "retry"
  BY Underway DEF Inv, TypeInv, TypeOK
<1>2. Advance(r, q)
  BY DEF Save
<1>3. /\ rows' \in [JobIds -> Row]
      /\ \A j \in JobIds : j # p.job => rows'[j] = rows[j]
  BY Written
<1>4. p.todo \in {<<"saveStarted">>, <<"saveRunning", "restore">>,
                  <<"saveCount", "create", "saveStarted">>, <<"saveCount", "restore", "saveStarted">>,
                  <<"saveCheckpointed">>, <<"savePendingRetry">>, <<"saveCompleted">>}
  BY <1>1, PlanSteps, Zenon DEF Save
<1>5. /\ p.todo = <<"saveStarted">> => s = "running"
      /\ p.todo = <<"saveRunning", "restore">> => s = "running"
      /\ p.todo \in {<<"saveCount", "create", "saveStarted">>,
                     <<"saveCount", "restore", "saveStarted">>} => s = rows[p.job].state
      /\ p.todo \in {<<"saveCheckpointed">>, <<"saveCompleted">>} => s = p.state
      /\ p.todo = <<"savePendingRetry">> => s = "pending_retry"
  BY Written
<1>6. /\ Tail(p.todo) \in Plans \cup {<<>>} /\ Tail(p.todo) \in Seq(Ops)
      /\ p.todo \in {<<"saveStarted">>, <<"saveCheckpointed">>, <<"savePendingRetry">>,
                     <<"saveCompleted">>} => Tail(p.todo) = <<>>
  <2>1. /\ p.todo = <<"saveStarted">> => Tail(p.todo) = <<>>
        /\ p.todo = <<"saveCheckpointed">> => Tail(p.todo) = <<>>
        /\ p.todo = <<"savePendingRetry">> => Tail(p.todo) = <<>>
        /\ p.todo = <<"saveCompleted">> => Tail(p.todo) = <<>>
        /\ p.todo = <<"saveRunning", "restore">> => Tail(p.todo) = <<"restore">>
        /\ p.todo = <<"saveCount", "create", "saveStarted">> => Tail(p.todo) = <<"create", "saveStarted">>
        /\ p.todo = <<"saveCount", "restore", "saveStarted">> => Tail(p.todo) = <<"restore", "saveStarted">>
    BY PlanTails
  <2>2. {<<"restore">>, <<"create", "saveStarted">>, <<"restore", "saveStarted">>} \subseteq Plans
    BY DEF Plans
  <2>3. Tail(p.todo) \in Plans \cup {<<>>}
    BY <1>4, <2>1, <2>2, Zenon
  <2>4. <<>> \in Seq(Ops) /\ \A t \in Plans : t \in Seq(Ops)
    <3>1. <<>> \in Seq(Ops)
      OBVIOUS
    <3> QED
      BY <3>1, PlanSteps
  <2> QED
    BY <2>1, <2>3, <2>4, Zenon
<1>7. /\ q \in Runner /\ q.job = p.job /\ q.from = p.from /\ q.ok = p.ok /\ q.loop = p.loop
      /\ q.todo = Tail(p.todo) /\ q.state = p.state /\ q.process = p.process
  BY <1>1, <1>6 DEF Runner
<1> HIDE DEF q, s
<1>8. runners'[r] = Settled(q)
  BY <1>2, <1>7, Advanced DEF Inv
<1>9. /\ p.todo \in {<<"saveStarted">>, <<"saveRunning", "restore">>} => p.state = "running"
      /\ p.todo \in {<<"saveCount", "create", "saveStarted">>,
                     <<"saveCount", "restore", "saveStarted">>} => p.state = "failed"
      /\ p.todo = <<"saveCheckpointed">> => p.state \in {"running", "suspended"} /\ p.process
      /\ p.todo = <<"savePendingRetry">> => p.state = "pending_retry"
      /\ p.todo = <<"saveCompleted">> => p.state \in Terminal
      /\ p.todo # <<"saveCompleted">> => p.ok
  <2>1. p.ok \in BOOLEAN
    BY <1>1 DEF Runner
  <2> HIDE DEF p
  <2>2. p.todo # <<"saveCompleted">> => p.ok
    BY <1>1, <2>1 DEF Shape
  <2>3. p.todo = <<"saveCompleted">> => p.state \in Terminal
    BY <1>1 DEF Shape
  <2>4. p.todo = <<"savePendingRetry">> => p.state = "pending_retry"
    BY <1>1 DEF Shape
  <2>5. p.todo = <<"saveCheckpointed">> => p.state \in {"running", "suspended"} /\ p.process
    BY <1>1 DEF Shape
  <2>6. p.todo \in {<<"saveCount", "create", "saveStarted">>,
                    <<"saveCount", "restore", "saveStarted">>} => p.state = "failed"
    BY <1>1, Zenon DEF Shape
  <2>7. p.todo \in {<<"saveStarted">>, <<"saveRunning", "restore">>} => p.state = "running"
    BY <1>1, Zenon DEF Shape
  <2> QED
    BY <2>2, <2>3, <2>4, <2>5, <2>6, <2>7
<1>10. /\ p.todo = <<"saveRunning", "restore">> => q.todo = <<"restore">>
       /\ p.todo = <<"saveCount", "create", "saveStarted">> => q.todo = <<"create", "saveStarted">>
       /\ p.todo = <<"saveCount", "restore", "saveStarted">> => q.todo = <<"restore", "saveStarted">>
       /\ p.todo \notin {<<"saveRunning", "restore">>, <<"saveCount", "create", "saveStarted">>,
                         <<"saveCount", "restore", "saveStarted">>} => q.todo = <<>>
  BY <1>4, <1>6, <1>7, PlanTails
<1>11. q.todo \in {<<>>, <<"restore">>, <<"create", "saveStarted">>, <<"restore", "saveStarted">>}
  BY <1>10, Zenon
<1>12. Moves(r, q)
  <2>1. q.todo # <<>> => Shape(q)
    <3> SUFFICES ASSUME q.todo # <<>> PROVE Shape(q)
      OBVIOUS
    <3>1. q.ok /\ q.loop = "on" /\ q.todo \in Plans
          /\ \/ q.todo = <<"restore">> /\ q.state = "running"
             \/ q.todo = <<"create", "saveStarted">> /\ q.state = "failed"
             \/ q.todo = <<"restore", "saveStarted">> /\ q.state = "failed"
      <4>1. p.todo # <<"saveCompleted">>
        BY <1>6, <1>7
      <4>2. q.todo \in Plans
        BY <1>6, <1>7
      <4> QED
        BY <1>1, <1>7, <1>9, <1>10, <4>1, <4>2, Zenon
    <3>2. CASE q.todo = <<"restore">> /\ q.state = "running"
      BY <3>1, <3>2 DEF Shape
    <3>3. CASE q.todo = <<"create", "saveStarted">> /\ q.state = "failed"
      BY <3>1, <3>3 DEF Shape
    <3>4. CASE q.todo = <<"restore", "saveStarted">> /\ q.state = "failed"
      BY <3>1, <3>4 DEF Shape
    <3> QED
      BY <3>1, <3>2, <3>3, <3>4
  <2>2. q.todo \notin {<<"suspend", "saveCheckpointed">>, <<"snapshot", "saveCheckpointed">>,
                       <<"stop", "saveCompleted">>}
    BY <1>11
  <2>3. ~q.ok => q.state \in Terminal
    BY <1>7, <1>9
  <2> QED
    BY <1>1, <1>2, <1>7, <2>1, <2>2, <2>3 DEF Moves, StepFrame, WorksFor
<1>13. Settled(q).state = p.state /\ Settled(q).todo = q.todo /\ Settled(q).job = p.job
       /\ Settled(q).process = p.process
       /\ (q.todo = <<>> /\ p.state \in Terminal \cup {"pending_retry"} => Settled(q).loop = "done")
  BY <1>7, SettledFields
<1>14. p.todo \in {<<"savePendingRetry">>, <<"saveCompleted">>} => Settled(q).loop = "done"
  BY <1>6, <1>7, <1>9, <1>13
<1>15. /\ Active(p) \/ p.todo = <<"saveCompleted">>
       /\ p.todo = <<"saveCheckpointed">> /\ p.state = "suspended" => ~Active(Settled(q))
  <2>1. p.todo = <<"saveCheckpointed">> => q.todo = <<>>
    BY <1>6, <1>7
  <2>2. p.todo = <<"saveCheckpointed">> /\ p.state = "suspended" => ~Active(Settled(q))
    <3>1. q.todo = <<>> => q.todo # <<"saveCheckpointed">>
      OBVIOUS
    <3> QED
      BY <1>9, <1>13, <2>1, <3>1 DEF Active, Terminal
  <2>3. Active(p) \/ p.todo = <<"saveCompleted">>
    BY <1>1, <1>4, <1>9 DEF Active, Terminal
  <2> QED
    BY <2>2, <2>3
<1>16. Active(Settled(q)) => Active(p)
  BY <1>14, <1>15 DEF Active
<1>17. ~Active(p) => s \in Terminal
  BY <1>5, <1>9, <1>15
<1>18. RowFits(r)'
  <2> SUFFICES ASSUME Active(Settled(q)), s \in {"suspended", "pending_retry"} PROVE RowFits(r)'
    BY <1>8, <1>13 DEF RowFits, s
  <2>1. p.todo \in {<<"saveCount", "create", "saveStarted">>, <<"saveCount", "restore", "saveStarted">>}
    BY <1>4, <1>5, <1>9, <1>14, <1>15 DEF Active
  <2>2. s = rows[p.job].state /\ p.state = "failed"
        /\ q.todo \in {<<"create", "saveStarted">>, <<"restore", "saveStarted">>}
    BY <1>5, <1>9, <1>10, <2>1
  <2>3. Active(p) /\ ~Waking(p)
    BY <1>16, <2>1, <2>2 DEF Waking
  <2>4. s = "pending_retry" /\ PolledFor(r, "retry")
    BY <1>1, <2>2, <2>3 DEF RowFits
  <2>5. q.todo # <<>> /\ q.todo # <<"saveCompleted">> /\ q.todo # <<"remove", "saveCompleted">>
    <3>1. CASE q.todo = <<"create", "saveStarted">>
      BY <3>1
    <3>2. CASE q.todo = <<"restore", "saveStarted">>
      BY <3>2
    <3> QED
      BY <2>2, <3>1, <3>2
  <2>6. PolledFor(r, "retry")'
    BY <1>7, <1>12, <2>4, <2>5, StillPolled
  <2>7. Settled(q) = q /\ Retrying(q)
    BY <1>7, <2>2, <2>5, SettledFields DEF Retrying
  <2> QED
    BY <1>8, <1>13, <2>4, <2>6, <2>7 DEF RowFits, s
<1>19. p.job \in table /\ s = "suspended" => container'[p.job] # "running"
  <2> SUFFICES ASSUME p.job \in table, s = "suspended" PROVE container[p.job] # "running"
    OBVIOUS
  <2>1. CASE p.todo = <<"saveCheckpointed">>
    BY <1>5, <2>1 DEF Inv, StoppedInv
  <2>2. CASE p.todo # <<"saveCheckpointed">>
    <3>1. s = rows[p.job].state
      BY <1>4, <1>5, <1>9, <2>2 DEF Terminal
    <3> QED
      BY <3>1 DEF Inv, StoppedInv, SuspendedIsStopped
  <2> QED
    BY <2>1, <2>2
<1>20. q.todo # <<"saveCheckpointed">>
  BY <1>11
<1>21. UNCHANGED container
  OBVIOUS
<1> QED
  BY <1>1, <1>3, <1>12, <1>14, <1>16, <1>17, <1>18, <1>19, <1>20, <1>21, MovesInv DEF s

\* Any operation of a handler keeps the invariant.
LEMMA StepKeeps ==
  ASSUME Inv, NEW r \in DOMAIN runners, Step(r)
  PROVE  Inv'
<1>1. runners[r].todo # <<>> /\ StepFrame
  BY DEF Step, StepFrame, reads, bounds
<1> QED
  BY <1>1, CreateKeeps, RestoreKeeps, CheckpointKeeps, StopKeeps, RemoveKeeps, SaveKeeps DEF Step

-----------------------------------------------------------------------------
(***************************************************************************)
(* A command is taken.                                                     *)
(***************************************************************************)
\* An idle runner and the caller whose command it takes.
LEMMA Taking ==
  ASSUME Inv, NEW c \in Callers, calls[c].pc = "sent", NEW r, r = calls[c].runner, Ready(r)
  PROVE  /\ r \in DOMAIN runners /\ runners[r] \in Runner /\ Shape(runners[r])
         /\ runners[r].job \in JobIds /\ runners[r].ok /\ RowFits(r)
         /\ runners[r].state \notin {"completed", "pending_retry"}
         /\ calls[c].op = "wake" => runners[r].state = "suspended" /\ ~runners[r].process
         /\ calls[c].op = "retry" => runners[r].state = "failed" /\ c = Poller
         /\ \A b \in Callers : calls[b].pc = "sent" /\ calls[b].runner = r =>
              /\ calls[b].op = "wake" => /\ runners[r].state = "suspended" /\ ~runners[r].process
                                         /\ calls[c].op = "wake" => b = c
              /\ calls[b].op = "retry" => runners[r].state = "failed" /\ b = Poller
         /\ rows' = rows => rows' \in [JobIds -> Row]
         /\ container' = container => container' \in [JobIds -> {"none", "running", "exited"}]
<1>1. r \in DOMAIN runners
  BY DEF Inv, TypeInv, CallShape
<1>2. runners[r] \in Runner /\ Shape(runners[r]) /\ RowFits(r)
  BY <1>1 DEF Inv, TypeInv, TypeOK, RunnerShape, RowInv, RowFits
<1>3. runners[r].loop = "on" /\ runners[r].todo = <<>> /\ runners[r].todo # <<"saveCompleted">>
  BY DEF Ready
<1>4. runners[r].state \notin {"completed", "pending_retry"} /\ runners[r].ok
  BY <1>2, <1>3 DEF Shape, Runner
<1>5. \A b \in Callers : calls[b].pc = "sent" /\ calls[b].runner = r =>
        /\ calls[b].op = "wake" => /\ runners[r].state = "suspended" /\ ~runners[r].process
                                   /\ calls[c].op = "wake" => b = c
        /\ calls[b].op = "retry" => runners[r].state = "failed" /\ b = Poller
  BY <1>3 DEF Inv, WakeInv, TypeInv, CallShape
<1> QED
  BY <1>1, <1>2, <1>4, <1>5 DEF Runner, Inv, TypeInv, TypeOK

\* A command that is refused, or has been handled before.
LEMMA NothingToDo ==
  ASSUME Inv, NEW c \in Callers, calls[c].pc = "sent", NEW r, r = calls[c].runner, Ready(r),
         NEW q \in Runner, Advance(r, q), q.from = c, q.todo = <<>>, q.loop = "on",
         q.job = runners[r].job, q.state = runners[r].state, q.process = runners[r].process,
         calls[c].op # "wake", UNCHANGED <<rows, container>>, StepFrame
  PROVE  Inv'
<1> DEFINE p == runners[r]
           z == Settled(q)
<1>1. /\ r \in DOMAIN runners /\ p \in Runner /\ Shape(p) /\ p.job \in JobIds /\ RowFits(r)
      /\ calls[c].op = "retry" => p.state = "failed" /\ c = Poller
      /\ \A b \in Callers : calls[b].pc = "sent" /\ calls[b].runner = r =>
           /\ calls[b].op = "wake" => p.state = "suspended" /\ ~p.process
           /\ calls[b].op = "retry" => p.state = "failed"
      /\ rows' \in [JobIds -> Row]
      /\ container' \in [JobIds -> {"none", "running", "exited"}]
  BY Taking
<1>2. p.loop = "on" /\ p.todo = <<>>
  BY DEF Ready
<1>3. q.todo \notin {<<"suspend", "saveCheckpointed">>, <<"snapshot", "saveCheckpointed">>,
                     <<"stop", "saveCompleted">>, <<"saveCheckpointed">>, <<"saveCompleted">>}
  OBVIOUS
<1>4. Moves(r, q)
  BY <1>1, <1>2, <1>3 DEF Moves, StepFrame, WorksFor, Terminal
<1>5. /\ z.state = p.state /\ z.process = p.process /\ z.todo = <<>> /\ z.job = p.job
      /\ z.state = "failed" => z.loop = "done"
  BY SettledFields DEF Terminal
<1>6. Active(z) => Active(p) /\ p.state # "failed"
  BY <1>2, <1>5 DEF Active
<1>7. runners'[r] = z
  BY <1>1, Advanced DEF Inv
<1>8. RowFits(r)'
  <2> SUFFICES ASSUME Active(z), rows[p.job].state \in {"suspended", "pending_retry"}
               PROVE  RowFits(r)'
    BY <1>5, <1>7 DEF RowFits
  <2>1. PICK op \in {"wake", "retry"} : PolledFor(r, op)
          /\ (rows[p.job].state = "suspended" => Waking(p) /\ op = "wake")
          /\ (rows[p.job].state = "pending_retry" => Retrying(p) /\ op = "retry")
    BY <1>1, <1>6 DEF RowFits
  <2>2. c # Poller
    BY <1>1, <1>6, <2>1 DEF PolledFor
  <2>3. calls'[Poller] = calls[Poller]
    BY <1>1, <2>2, Advanced DEF Inv, Callers
  <2>4. PolledFor(r, op)'
    BY <1>2, <1>5, <1>7, <2>1, <2>3 DEF PolledFor
  <2>5. (Waking(p) => Waking(z)) /\ (Retrying(p) => Retrying(z))
    BY <1>2, <1>5 DEF Waking, Retrying
  <2> QED
    BY <1>5, <1>7, <2>1, <2>4, <2>5 DEF RowFits
<1>9. p.job \in table /\ rows'[p.job].state = "suspended" => container'[p.job] # "running"
  BY DEF Inv, StoppedInv, SuspendedIsStopped
<1>10. \A b \in Callers : calls[b].pc = "sent" /\ calls[b].runner = r /\ z.loop = "on" =>
           /\ calls[b].op = "wake" => z.state = "suspended" /\ ~z.process /\ z.todo = <<>>
           /\ calls[b].op = "retry" => z.state = "failed" /\ z.todo = <<>>
  BY <1>1, <1>5
<1>11. Active(z) => Active(p)
  BY <1>6
<1>12. UNCHANGED rows /\ UNCHANGED container
  OBVIOUS
<1> QED
  BY <1>1, <1>3, <1>4, <1>8, <1>9, <1>10, <1>11, <1>12, MovesInv

\* What a command does that gives runner r something to do.
GivesWork(c, r, q) ==
  /\ q \in Runner /\ q.from = c /\ q.todo # <<>> /\ Shape(q) /\ q.loop = "on"
  /\ q.job = runners[r].job /\ q.todo # <<"saveCheckpointed">>
  /\ q.todo \in {<<"suspend", "saveCheckpointed">>, <<"snapshot", "saveCheckpointed">>}
       => calls[c].op \in {"suspend", "snapshot"}
  /\ q.todo = <<"stop", "saveCompleted">> => calls[c].op = "kill"
  /\ Active(q) => Active(runners[r])
  /\ \A b \in Callers : calls[b].pc = "sent" /\ calls[b].runner = r /\ b # c =>
       /\ calls[b].op = "wake" => q.state = "failed" /\ q.todo = <<"saveCompleted">>
       /\ calls[b].op # "retry"
  /\ Active(q) /\ rows[q.job].state = "suspended" =>
       c = Poller /\ calls[c].op = "wake" /\ Waking(q)
  /\ Active(q) /\ rows[q.job].state = "pending_retry" =>
       c = Poller /\ calls[c].op = "retry" /\ Retrying(q)

\* A command that gives the handler something to do.
LEMMA SomethingToDo ==
  ASSUME Inv, NEW c \in Callers, calls[c].pc = "sent", NEW r, r = calls[c].runner, Ready(r),
         NEW q, Advance(r, q), UNCHANGED <<rows, container>>, StepFrame, GivesWork(c, r, q)
  PROVE  Inv'
<1>1. /\ r \in DOMAIN runners /\ runners[r].job \in JobIds
      /\ rows' \in [JobIds -> Row]
      /\ container' \in [JobIds -> {"none", "running", "exited"}]
  BY Taking
<1>2. runners[r].loop = "on" /\ runners[r].todo = <<>>
  BY DEF Ready
<1>3. Moves(r, q)
  BY <1>1, <1>2 DEF Moves, StepFrame, WorksFor, GivesWork
<1>4. Settled(q) = q /\ q \in Runner
  BY SettledFields DEF GivesWork
<1>5. /\ runners'[r] = q /\ calls'[c].pc = "handling" /\ calls'[c].op = calls[c].op
      /\ calls'[c].runner = r
  BY <1>1, <1>4, Advanced DEF Inv, GivesWork
<1>6. RowFits(r)'
  BY <1>5 DEF RowFits, PolledFor, GivesWork
<1>7. runners[r].job \in table /\ rows'[runners[r].job].state = "suspended"
        => container'[runners[r].job] # "running"
  BY DEF Inv, StoppedInv, SuspendedIsStopped
<1>8. /\ q.todo # <<"saveCheckpointed">>
      /\ Active(q) => Active(runners[r])
      /\ \A b \in Callers : calls[b].pc = "sent" /\ calls[b].runner = r /\ b # c =>
           /\ calls[b].op = "wake" => q.state = "failed" /\ q.todo = <<"saveCompleted">>
           /\ calls[b].op # "retry"
      /\ q.from = c
  BY DEF GivesWork
<1> QED
  BY <1>1, <1>3, <1>4, <1>6, <1>7, <1>8, MovesInv

\* A refused command, or a token that was used before, keeps the invariant.
LEMMA RefusedKeeps ==
  ASSUME Inv, NEW c \in Callers, calls[c].pc = "sent", NEW r, r = calls[c].runner, Ready(r),
         NEW h \in {runners[r], Refused(runners[r])}, Advance(r, [h EXCEPT !.from = c]),
         calls[c].op # "wake", UNCHANGED <<rows, container>>, StepFrame
  PROVE  Inv'
<1> DEFINE p == runners[r]
           q == [h EXCEPT !.from = c]
<1>1. p \in Runner /\ p.loop = "on" /\ p.todo = <<>>
  BY Taking DEF Ready
<1>2. /\ q \in Runner /\ q.from = c /\ q.todo = <<>> /\ q.loop = "on"
      /\ q.job = p.job /\ q.state = p.state /\ q.process = p.process
  BY <1>1 DEF Refused, Runner
<1> HIDE DEF q
<1> QED
  BY <1>2, NothingToDo DEF q

\* What Take does besides.
Taken(c, h) ==
  /\ calls[c].pc = "sent" /\ Ready(calls[c].runner)
  /\ Advance(calls[c].runner, [h EXCEPT !.from = c])
  /\ UNCHANGED <<rows, container>> /\ StepFrame

\* A command that is taken keeps the invariant: a start,
LEMMA TakeStart ==
  ASSUME Inv, NEW c \in Callers, calls[c].op = "start",
         Taken(c, HandleStart(runners[calls[c].runner]))
  PROVE  Inv'
<1> DEFINE r == calls[c].runner
           p == runners[r]
           q == [HandleStart(p) EXCEPT !.from = c]
<1>1. /\ r \in DOMAIN runners /\ p \in Runner /\ p.ok /\ RowFits(r)
      /\ \A b \in Callers : calls[b].pc = "sent" /\ calls[b].runner = r =>
           /\ calls[b].op = "wake" => p.state = "suspended"
           /\ calls[b].op = "retry" => p.state = "failed"
  BY Taking DEF Taken
<1>2. p.loop = "on" /\ p.todo = <<>>
  BY DEF Taken, Ready
<1>3. CASE p.state # "pending"
  <2>1. HandleStart(p) = Refused(p)
    BY <1>3 DEF HandleStart
  <2> QED
    BY <2>1, RefusedKeeps DEF Taken
<1>4. CASE p.state = "pending"
  <2>1. <<"create", "saveStarted">> \in Plans /\ <<"create", "saveStarted">> \in Seq(Ops)
    BY PlanSteps DEF Plans
  <2>2. /\ q \in Runner /\ q.from = c /\ q.todo = <<"create", "saveStarted">> /\ q.loop = "on"
        /\ q.job = p.job /\ q.state = "pending" /\ q.ok
    BY <1>1, <1>2, <1>4, <2>1 DEF HandleStart, Runner
  <2>3. Advance(r, q)
    BY DEF Taken
  <2> HIDE DEF q
  <2>4. Shape(q) /\ q.todo # <<>>
    BY <2>1, <2>2 DEF Shape
  <2>5. Active(p) /\ rows[q.job].state \notin {"suspended", "pending_retry"}
    BY <1>1, <1>2, <1>4, <2>2 DEF Active, RowFits, Waking, Retrying
  <2>6. q.todo \notin {<<"suspend", "saveCheckpointed">>, <<"snapshot", "saveCheckpointed">>,
                       <<"stop", "saveCompleted">>, <<"saveCheckpointed">>}
    BY <2>2
  <2> QED
    <3>1. GivesWork(c, r, q)
      BY <1>1, <1>4, <2>2, <2>4, <2>5, <2>6 DEF GivesWork
    <3> QED
      BY <2>3, <3>1, SomethingToDo DEF Taken
<1> QED
  BY <1>3, <1>4

\* a wake-up,
LEMMA TakeWake ==
  ASSUME Inv, NEW c \in Callers, calls[c].op = "wake",
         Taken(c, HandleWake(runners[calls[c].runner]))
  PROVE  Inv'
<1> DEFINE r == calls[c].runner
           p == runners[r]
           q == [HandleWake(p) EXCEPT !.from = c]
<1>1. /\ r \in DOMAIN runners /\ p \in Runner /\ p.ok /\ RowFits(r)
      /\ p.state = "suspended" /\ ~p.process
      /\ \A b \in Callers : calls[b].pc = "sent" /\ calls[b].runner = r =>
           /\ calls[b].op = "wake" => b = c
           /\ calls[b].op = "retry" => p.state = "failed"
  BY Taking DEF Taken
<1>2. p.loop = "on" /\ p.todo = <<>>
  BY DEF Taken, Ready
<1>3. <<"saveRunning", "restore">> \in Plans /\ <<"saveRunning", "restore">> \in Seq(Ops)
  BY PlanSteps DEF Plans
<1>4. /\ q \in Runner /\ q.from = c /\ q.todo = <<"saveRunning", "restore">> /\ q.loop = "on"
      /\ q.job = p.job /\ q.state = "running" /\ q.ok
  BY <1>1, <1>2, <1>3 DEF HandleWake, Runner, JobStates
<1>5. Advance(r, q)
  BY DEF Taken
<1> HIDE DEF q
<1>6. Shape(q) /\ q.todo # <<>>
  BY <1>3, <1>4 DEF Shape
<1>7. Active(p) /\ Waking(q)
  BY <1>1, <1>2, <1>4 DEF Active, Waking
<1>8. rows[q.job].state = "suspended" => c = Poller
  <2> SUFFICES ASSUME rows[q.job].state = "suspended" PROVE c = Poller
    OBVIOUS
  <2>1. PolledFor(r, "wake")
    BY <1>1, <1>4, <1>7 DEF RowFits
  <2>2. calls[Poller].pc = "sent"
    BY <1>2, <2>1 DEF PolledFor
  <2> QED
    BY <1>1, <2>1, <2>2 DEF PolledFor, Callers
<1>9. rows[q.job].state # "pending_retry"
  BY <1>1, <1>2, <1>4, <1>7 DEF RowFits, Retrying
<1>10. q.todo \notin {<<"suspend", "saveCheckpointed">>, <<"snapshot", "saveCheckpointed">>,
                      <<"stop", "saveCompleted">>, <<"saveCheckpointed">>}
  BY <1>4
<1> QED
  <2>1. GivesWork(c, r, q)
    BY <1>1, <1>4, <1>6, <1>7, <1>8, <1>9, <1>10 DEF GivesWork
  <2> QED
    BY <1>5, <2>1, SomethingToDo DEF Taken

\* a retry,
LEMMA TakeRetry ==
  ASSUME Inv, NEW c \in Callers, calls[c].op = "retry",
         Taken(c, HandleRetry(runners[calls[c].runner]))
  PROVE  Inv'
<1> DEFINE r == calls[c].runner
           p == runners[r]
           q == [HandleRetry(p) EXCEPT !.from = c]
           plan == <<"saveCount", IF p.checkpoint THEN "restore" ELSE "create", "saveStarted">>
<1>1. /\ r \in DOMAIN runners /\ p \in Runner /\ p.ok /\ RowFits(r)
      /\ p.state = "failed" /\ c = Poller
      /\ \A b \in Callers : calls[b].pc = "sent" /\ calls[b].runner = r =>
           /\ calls[b].op = "wake" => p.state = "suspended"
           /\ calls[b].op = "retry" => b = c
  BY Taking DEF Taken
<1>2. p.loop = "on" /\ p.todo = <<>>
  BY DEF Taken, Ready
<1>3. plan \in Plans /\ plan \in Seq(Ops)
      /\ plan \in {<<"saveCount", "create", "saveStarted">>, <<"saveCount", "restore", "saveStarted">>}
  <2>1. plan \in {<<"saveCount", "create", "saveStarted">>, <<"saveCount", "restore", "saveStarted">>}
    OBVIOUS
  <2> HIDE DEF plan
  <2>2. plan \in Plans
    BY <2>1, Zenon DEF Plans
  <2> QED
    BY <2>1, <2>2, PlanSteps
<1>4. HandleRetry(p) = [p EXCEPT !.retries = @ + 1, !.result = "nil", !.todo = plan]
  BY <1>1 DEF HandleRetry
<1> HIDE DEF plan
<1>5. /\ q \in Runner /\ q.from = c /\ q.todo = plan /\ q.loop = "on"
      /\ q.job = p.job /\ q.state = "failed" /\ q.ok
  <2>1. p.retries + 1 \in Nat /\ "nil" \in Results
    BY <1>1 DEF Runner, Results
  <2>2. q = [p EXCEPT !.retries = p.retries + 1, !.result = "nil", !.todo = plan, !.from = c]
    BY <1>4
  <2> HIDE DEF q
  <2> QED
    BY <1>1, <1>2, <1>3, <2>1, <2>2 DEF Runner
<1>6. Advance(r, q)
  BY DEF Taken
<1> HIDE DEF q
<1>7. /\ q.todo # <<>> /\ q.todo # <<"saveCheckpointed">> /\ q.todo # <<"saveCompleted">>
      /\ q.todo # <<"remove", "saveCompleted">>
      /\ q.todo \notin {<<"suspend", "saveCheckpointed">>, <<"snapshot", "saveCheckpointed">>,
                        <<"stop", "saveCompleted">>}
  <2>1. CASE plan = <<"saveCount", "create", "saveStarted">>
    BY <1>5, <2>1
  <2>2. CASE plan = <<"saveCount", "restore", "saveStarted">>
    BY <1>5, <2>2
  <2> QED
    BY <1>3, <2>1, <2>2
<1>8. Shape(q)
  <2>1. CASE plan = <<"saveCount", "create", "saveStarted">>
    BY <1>3, <1>5, <2>1 DEF Shape
  <2>2. CASE plan = <<"saveCount", "restore", "saveStarted">>
    BY <1>3, <1>5, <2>2 DEF Shape
  <2> QED
    BY <1>3, <2>1, <2>2
<1>9. Active(p) /\ Retrying(q)
  <2>1. p.todo # <<"saveCompleted">>
    BY <1>2
  <2> QED
    BY <1>1, <1>2, <1>5, <1>7, <2>1 DEF Active, Retrying, Terminal
<1>10. rows[q.job].state # "suspended"
  BY <1>1, <1>5, <1>9 DEF RowFits, Waking
<1>11. \A b \in Callers : calls[b].pc = "sent" /\ calls[b].runner = r /\ b # c =>
         calls[b].op # "wake" /\ calls[b].op # "retry"
  BY <1>1
<1>12. calls[c].pc = "sent" /\ Ready(r) /\ StepFrame /\ UNCHANGED <<rows, container>>
  BY DEF Taken
<1>13. GivesWork(c, r, q)
  BY <1>1, <1>5, <1>7, <1>8, <1>9, <1>10, <1>11 DEF GivesWork
<1> QED
  BY <1>6, <1>12, <1>13, SomethingToDo

\* a suspension or a snapshot,
LEMMA TakeCheckpoint ==
  ASSUME Inv, NEW c \in Callers, calls[c].op \in {"suspend", "snapshot"}, ~Panics(c),
         Taken(c, HandleCheckpoint(runners[calls[c].runner], calls[c].op, calls[c].token))
  PROVE  Inv'
<1> DEFINE r == calls[c].runner
           p == runners[r]
           op == calls[c].op
           h == HandleCheckpoint(p, op, calls[c].token)
           q == [h EXCEPT !.from = c]
<1>1. /\ r \in DOMAIN runners /\ p \in Runner /\ p.ok /\ RowFits(r)
      /\ \A b \in Callers : calls[b].pc = "sent" /\ calls[b].runner = r =>
           /\ calls[b].op = "wake" => p.state = "suspended"
           /\ calls[b].op = "retry" => p.state = "failed"
  BY Taking DEF Taken
<1>2. p.loop = "on" /\ p.todo = <<>> /\ calls[c].pc = "sent" /\ Ready(r) /\ StepFrame
      /\ UNCHANGED <<rows, container>>
  BY DEF Taken, Ready
<1>3. CASE calls[c].token \in p.tokens \/ p.state # "running"
  <2>1. h \in {p, Refused(p)}
    BY <1>3 DEF HandleCheckpoint
  <2> QED
    BY <2>1, RefusedKeeps DEF Taken
<1>4. CASE calls[c].token \notin p.tokens /\ p.state = "running"
  <2>1. h = [p EXCEPT !.todo = <<op, "saveCheckpointed">>]
    BY <1>4 DEF HandleCheckpoint
  <2>2. <<op, "saveCheckpointed">> \in Plans /\ <<op, "saveCheckpointed">> \in Seq(Ops)
        /\ <<op, "saveCheckpointed">> # <<>>
    <3>1. <<op, "saveCheckpointed">> \in {<<"suspend", "saveCheckpointed">>, <<"snapshot", "saveCheckpointed">>}
      OBVIOUS
    <3>2. <<op, "saveCheckpointed">> \in Plans
      BY <3>1, Zenon DEF Plans
    <3> QED
      BY <3>2, PlanSteps
  <2>3. p.process
    BY <1>1, <1>2, <1>4 DEF Panics, Runner
  <2>4. /\ q \in Runner /\ q.from = c /\ q.todo = <<op, "saveCheckpointed">> /\ q.loop = "on"
        /\ q.job = p.job /\ q.state = "running" /\ q.ok /\ q.process
    BY <1>1, <1>2, <1>4, <2>1, <2>2, <2>3 DEF Runner, JobStates
  <2>5. Advance(r, q)
    BY DEF Taken
  <2> HIDE DEF q
  <2>6. Shape(q) /\ q.todo # <<>>
    <3>1. c # None
      BY HypervisorAssumption
    <3> QED
      BY <2>2, <2>4, <3>1 DEF Shape
  <2>7. Active(p) /\ rows[q.job].state \notin {"suspended", "pending_retry"}
    BY <1>1, <1>2, <1>4, <2>4 DEF Active, RowFits, Waking, Retrying
  <2>8. q.todo # <<"stop", "saveCompleted">> /\ q.todo # <<"saveCheckpointed">>
    BY <2>4
  <2>9. \A b \in Callers : calls[b].pc = "sent" /\ calls[b].runner = r /\ b # c =>
          calls[b].op # "wake" /\ calls[b].op # "retry"
    BY <1>1, <1>4
  <2> QED
    <3>1. GivesWork(c, r, q)
      BY <2>4, <2>6, <2>7, <2>8, <2>9 DEF GivesWork
    <3> QED
      BY <1>2, <2>5, <3>1, SomethingToDo
<1> QED
  BY <1>3, <1>4

\* A command that leaves the runner with nothing to do but to write that the job ended.
LEMMA TakeEnd ==
  ASSUME Inv, NEW c \in Callers, NEW h, Taken(c, h), NEW r, r = calls[c].runner,
         h \in Runner, h.todo = <<"saveCompleted">>, h.state \in Terminal,
         h.loop = "on", h.job = runners[r].job,
         runners[r].state \in {"running", "suspended"},
         runners[r].state = "suspended" => h.state = "failed"
  PROVE  Inv'
<1> DEFINE p == runners[r]
           q == [h EXCEPT !.from = c]
<1>1. /\ r \in DOMAIN runners /\ p \in Runner
      /\ \A b \in Callers : calls[b].pc = "sent" /\ calls[b].runner = r =>
           /\ calls[b].op = "wake" => p.state = "suspended"
           /\ calls[b].op = "retry" => p.state = "failed"
  BY Taking DEF Taken
<1>2. calls[c].pc = "sent" /\ Ready(r) /\ StepFrame /\ UNCHANGED <<rows, container>> /\ Advance(r, q)
  BY DEF Taken
<1>3. /\ q \in Runner /\ q.from = c /\ q.todo = <<"saveCompleted">> /\ q.loop = "on"
      /\ q.job = p.job /\ q.state = h.state
  BY DEF Runner
<1> HIDE DEF q
<1>4. <<"saveCompleted">> \in Plans
  BY DEF Plans
<1>5. Shape(q) /\ q.todo # <<>>
  BY <1>3, <1>4 DEF Shape, Terminal
<1>6. ~Active(q)
  BY <1>3 DEF Active, Terminal
<1>7. q.todo \notin {<<"suspend", "saveCheckpointed">>, <<"snapshot", "saveCheckpointed">>,
                     <<"stop", "saveCompleted">>, <<"saveCheckpointed">>}
  BY <1>3
<1>8. \A b \in Callers : calls[b].pc = "sent" /\ calls[b].runner = r /\ b # c =>
         /\ calls[b].op = "wake" => q.state = "failed" /\ q.todo = <<"saveCompleted">>
         /\ calls[b].op # "retry"
  BY <1>1, <1>3
<1>9. GivesWork(c, r, q)
  BY <1>3, <1>5, <1>6, <1>7, <1>8 DEF GivesWork
<1> QED
  BY <1>2, <1>9, SomethingToDo

\* a kill,
LEMMA TakeKill ==
  ASSUME Inv, NEW c \in Callers, calls[c].op = "kill",
         Taken(c, HandleKill(runners[calls[c].runner]))
  PROVE  Inv'
<1> DEFINE r == calls[c].runner
           p == runners[r]
           h == HandleKill(p)
           q == [h EXCEPT !.from = c]
<1>1. /\ r \in DOMAIN runners /\ p \in Runner /\ p.ok /\ RowFits(r)
      /\ \A b \in Callers : calls[b].pc = "sent" /\ calls[b].runner = r =>
           /\ calls[b].op = "wake" => p.state = "suspended" /\ ~p.process
           /\ calls[b].op = "retry" => p.state = "failed"
  BY Taking DEF Taken
<1>2. p.loop = "on" /\ p.todo = <<>> /\ calls[c].pc = "sent" /\ Ready(r) /\ StepFrame
      /\ UNCHANGED <<rows, container>>
  BY DEF Taken, Ready
<1>3. CASE p.state \notin {"running", "suspended"}
  <2>1. h = Refused(p)
    BY <1>3 DEF HandleKill
  <2> QED
    BY <2>1, RefusedKeeps DEF Taken
<1>4. CASE p.state \in {"running", "suspended"} /\ ~p.process
  <2>1. h = [p EXCEPT !.state = "failed", !.todo = <<"saveCompleted">>]
    BY <1>4 DEF HandleKill
  <2>2. <<"saveCompleted">> \in Seq(Ops)
    BY PlanSteps DEF Plans
  <2>3. h \in Runner /\ h.todo = <<"saveCompleted">> /\ h.state = "failed" /\ h.loop = "on"
        /\ h.job = p.job
    <3> HIDE DEF p, h
    <3>1. "failed" \in JobStates
      BY DEF JobStates
    <3> QED
      BY <1>1, <1>2, <2>1, <2>2, <3>1 DEF Runner
  <2> HIDE DEF h
  <2> QED
    BY <1>4, <2>3, TakeEnd DEF Terminal, h
<1>5. CASE p.state \in {"running", "suspended"} /\ p.process
  <2>1. h = [p EXCEPT !.todo = <<"stop", "saveCompleted">>]
    BY <1>5 DEF HandleKill
  <2>2. <<"stop", "saveCompleted">> \in Seq(Ops) /\ <<"stop", "saveCompleted">> \in Plans
    BY PlanSteps DEF Plans
  <2>3. /\ q \in Runner /\ q.from = c /\ q.todo = <<"stop", "saveCompleted">> /\ q.loop = "on"
        /\ q.job = p.job /\ q.state = p.state /\ q.ok /\ q.process
    BY <1>1, <1>2, <1>5, <2>1, <2>2 DEF Runner, JobStates
  <2>4. Advance(r, q)
    BY DEF Taken
  <2> HIDE DEF q
  <2>5. Shape(q) /\ q.todo # <<>>
    <3>1. c # None
      BY HypervisorAssumption
    <3> QED
      BY <1>5, <2>2, <2>3, <3>1 DEF Shape
  <2>6. q.todo \notin {<<"suspend", "saveCheckpointed">>, <<"snapshot", "saveCheckpointed">>,
                       <<"saveCheckpointed">>}
    BY <2>3
  <2>7. Active(q) => Active(p) /\ rows[q.job].state \notin {"suspended", "pending_retry"}
    <3>1. Active(q) => p.state = "running"
      BY <1>5, <2>3, <2>6 DEF Active, Terminal
    <3> QED
      BY <1>1, <1>2, <2>3, <3>1 DEF Active, RowFits, Waking, Retrying
  <2>8. \A b \in Callers : calls[b].pc = "sent" /\ calls[b].runner = r /\ b # c =>
          calls[b].op # "wake" /\ calls[b].op # "retry"
    BY <1>1, <1>5
  <2> QED
    <3>1. GivesWork(c, r, q)
      BY <2>3, <2>5, <2>6, <2>7, <2>8 DEF GivesWork
    <3> QED
      BY <1>2, <2>4, <3>1, SomethingToDo
<1> QED
  BY <1>1, <1>3, <1>4, <1>5 DEF Runner

\* an exit.
LEMMA TakeExit ==
  ASSUME Inv, NEW c \in Callers, calls[c].op = "exit", NEW code \in {"zero", "nonzero"},
         Taken(c, HandleExit(runners[calls[c].runner], code))
  PROVE  Inv'
<1> DEFINE r == calls[c].runner
           p == runners[r]
           h == HandleExit(p, code)
<1>1. p \in Runner /\ p.loop = "on"
  BY Taking DEF Taken, Ready
<1>2. CASE p.state # "running"
  <2>1. h = Refused(p)
    BY <1>2 DEF HandleExit
  <2> QED
    BY <2>1, RefusedKeeps DEF Taken
<1>3. CASE p.state = "running"
  <2>1. h = [p EXCEPT !.state = IF code = "zero" THEN "completed" ELSE "failed",
                      !.result = code, !.todo = <<"saveCompleted">>]
    BY <1>3 DEF HandleExit
  <2>2. <<"saveCompleted">> \in Seq(Ops)
    BY PlanSteps DEF Plans
  <2>3. h \in Runner /\ h.todo = <<"saveCompleted">> /\ h.state \in Terminal /\ h.loop = "on"
        /\ h.job = p.job
    BY <1>1, <2>1, <2>2 DEF Runner, JobStates, Results, Terminal
  <2> HIDE DEF h
  <2> QED
    BY <1>3, <2>3, TakeEnd DEF h
<1> QED
  BY <1>2, <1>3

\* Any command that is taken keeps the invariant.
LEMMA TakeKeeps ==
  ASSUME Inv, NEW c \in Callers, Take(c)
  PROVE  Inv'
<1> DEFINE r == calls[c].runner
<1>1. calls[c].pc = "sent" /\ Ready(r) /\ ~Panics(c) /\ StepFrame /\ UNCHANGED <<rows, container>>
  BY DEF Take, StepFrame, db, reads, bounds
<1>2. PICK q \in Handled(calls[c], runners[r]) : Advance(r, [q EXCEPT !.from = c])
  BY DEF Take
<1>3. Taken(c, q)
  BY <1>1, <1>2 DEF Taken
<1>4. calls[c].op \in {"start", "wake", "retry", "suspend", "snapshot", "kill", "exit"}
  BY <1>1 DEF Inv, TypeInv, TypeOK, CallShape, Call
<1>5. CASE calls[c].op = "start"
  BY <1>2, <1>3, <1>5, TakeStart DEF Handled
<1>6. CASE calls[c].op = "wake"
  BY <1>2, <1>3, <1>6, TakeWake DEF Handled
<1>7. CASE calls[c].op = "retry"
  BY <1>2, <1>3, <1>7, TakeRetry DEF Handled
<1>8. CASE calls[c].op \in {"suspend", "snapshot"}
  BY <1>1, <1>2, <1>3, <1>8, TakeCheckpoint DEF Handled
<1>9. CASE calls[c].op = "kill"
  BY <1>2, <1>3, <1>9, TakeKill DEF Handled
<1>10. CASE calls[c].op = "exit"
  BY <1>2, <1>3, <1>10, TakeExit DEF Handled
<1> QED
  BY <1>4, <1>5, <1>6, <1>7, <1>8, <1>9, <1>10

-----------------------------------------------------------------------------
(***************************************************************************)
(* The end of the container is noticed.                                    *)
(***************************************************************************)
\* A runner that watches the container has started it, and has not suspended it.
Watching(q) ==
  q.watched => /\ q.state \notin {"pending", "suspended"}
               /\ q.loop = "on" /\ q.todo = <<>> => q.state = "running"

WatchInv == \A r \in DOMAIN runners : Watching(runners[r])

\* A step of a runner that leaves it watching only while its job is under way.
LEMMA AdvanceWatches ==
  ASSUME Inv, WatchInv, NEW r \in DOMAIN runners, NEW q \in Runner, Advance(r, q),
         q.watched => q.state \notin {"pending", "suspended"}
  PROVE  WatchInv'
<1>1. Settled(q).watched = q.watched
  BY DEF Settled, Ended, Runner
<1>2. Watching(Settled(q))
  <2>1. q.state \in {"pending", "suspended", "running", "pending_retry"} \cup Terminal
    BY DEF Runner, JobStates, Terminal
  <2> QED
    BY <1>1, <2>1, SettledFields DEF Watching, Terminal
<1> QED
  BY <1>2, Advanced DEF WatchInv, Inv

\* handleProcessExited as the field of the runner it changes: the job has ended, and its row
\* will say so, or it waits for the poller to retry it; either way the process is gone.
LEMMA Exited ==
  ASSUME NEW p \in Runner, NEW exit \in {"error", "zero", "nonzero"}
  PROVE  LET q == [ProcessExited(p, exit) EXCEPT !.watched = FALSE] IN
         /\ q \in Runner /\ q.job = p.job /\ q.loop = p.loop /\ q.from = p.from
         /\ q.ok = p.ok /\ q.evictor = p.evictor /\ ~q.watched
         /\ \/ q.todo = <<"remove", "saveCompleted">> /\ q.state \in Terminal
            \/ q.todo = <<"remove", "savePendingRetry">> /\ q.state = "pending_retry"
<1> DEFINE done == <<"remove", "saveCompleted">>
           again == <<"remove", "savePendingRetry">>
           q == [ProcessExited(p, exit) EXCEPT !.watched = FALSE]
           failed == IF exit = "nonzero" THEN [p EXCEPT !.state = "failed", !.result = "nonzero"]
                                         ELSE [p EXCEPT !.state = "failed"]
           Ends(x) == /\ x \in Runner /\ x.job = p.job /\ x.loop = p.loop /\ x.from = p.from
                      /\ x.ok = p.ok /\ x.evictor = p.evictor
<1> SUFFICES /\ q \in Runner /\ q.job = p.job /\ q.loop = p.loop /\ q.from = p.from
             /\ q.ok = p.ok /\ q.evictor = p.evictor /\ ~q.watched
             /\ \/ q.todo = done /\ q.state \in Terminal
                \/ q.todo = again /\ q.state = "pending_retry"
  OBVIOUS
<1>1. done \in Seq(Ops) /\ again \in Seq(Ops)
  <2>1. done \in Plans /\ again \in Plans
    BY Zenon DEF Plans
  <2> QED
    BY <2>1, PlanSteps
<1>2. Ends(failed) /\ failed.state = "failed"
  <2>1. CASE exit = "nonzero"
    BY <2>1 DEF Runner, JobStates, Results
  <2>2. CASE exit # "nonzero"
    BY <2>2 DEF Runner, JobStates
  <2> QED
    BY <2>1, <2>2
<1>3. \/ ProcessExited(p, exit) = [p EXCEPT !.state = "completed",
                                            !.result = IF @ = "nil" THEN "zero" ELSE @,
                                            !.todo = done]
      \/ ProcessExited(p, exit) = [failed EXCEPT !.state = "pending_retry", !.resumeAt = TRUE,
                                                 !.todo = again]
      \/ ProcessExited(p, exit) = [failed EXCEPT !.todo = done]
  BY DEF ProcessExited
<1> HIDE DEF done, again, failed
<1>4. /\ Ends(ProcessExited(p, exit))
      /\ \/ ProcessExited(p, exit).todo = done /\ ProcessExited(p, exit).state \in Terminal
         \/ /\ ProcessExited(p, exit).todo = again
            /\ ProcessExited(p, exit).state = "pending_retry"
  <2>1. ASSUME NEW x, NEW result \in Results,
               x = [p EXCEPT !.state = "completed", !.result = result, !.todo = done]
        PROVE  Ends(x) /\ x.todo = done /\ x.state \in Terminal
    BY <1>1, <2>1 DEF Runner, JobStates, Terminal
  <2>2. ASSUME NEW x,
               x = [failed EXCEPT !.state = "pending_retry", !.resumeAt = TRUE, !.todo = again]
        PROVE  Ends(x) /\ x.todo = again /\ x.state = "pending_retry"
    BY <1>1, <1>2, <2>2 DEF Runner, JobStates
  <2>3. ASSUME NEW x, x = [failed EXCEPT !.todo = done]
        PROVE  Ends(x) /\ x.todo = done /\ x.state \in Terminal
    BY <1>1, <1>2, <2>3 DEF Runner, Terminal
  <2>4. (IF p.result = "nil" THEN "zero" ELSE p.result) \in Results
    BY DEF Runner, Results
  <2> HIDE DEF Ends
  <2> QED
    BY <1>3, <2>1, <2>2, <2>3, <2>4
<1>5. Ends(q) /\ ~q.watched /\ q.todo = ProcessExited(p, exit).todo
      /\ q.state = ProcessExited(p, exit).state
  BY <1>4 DEF Runner
<1> HIDE DEF q
<1> QED
  BY <1>4, <1>5

\* handleProcessExited keeps the invariant: the job was running, so the runner was a claim.
LEMMA NoticeKeeps ==
  ASSUME Inv, WatchInv, NEW r \in DOMAIN runners, Notice(r)
  PROVE  Inv' /\ WatchInv'
<1> DEFINE p == runners[r]
           done == <<"remove", "saveCompleted">>
           again == <<"remove", "savePendingRetry">>
<1>1. /\ p \in Runner /\ Shape(p) /\ RowFits(r) /\ p.loop = "on" /\ p.todo = <<>>
      /\ p.from = None /\ p.ok /\ p.job \in JobIds /\ p.state = "running"
      /\ rows \in [JobIds -> Row] /\ container \in [JobIds -> {"none", "running", "exited"}]
      /\ UNCHANGED <<rows, container>> /\ StepFrame
  <2>1. p \in Runner /\ Shape(p) /\ RowFits(r) /\ rows \in [JobIds -> Row]
        /\ container \in [JobIds -> {"none", "running", "exited"}]
    BY DEF Inv, TypeInv, TypeOK, RunnerShape, RowInv, RowFits
  <2>2. p.loop = "on" /\ p.todo = <<>> /\ UNCHANGED <<rows, container>> /\ StepFrame /\ p.watched
    BY DEF Notice, Ready, db, reads, bounds, StepFrame
  <2>3. p.state = "running"
    BY <2>2 DEF WatchInv, Watching
  <2>4. p.from = None /\ p.ok
    BY <2>1, <2>2 DEF Shape, Runner
  <2> QED
    BY <2>1, <2>2, <2>3, <2>4 DEF Runner
<1>2. PICK exit \in {"error", "zero", "nonzero"} :
        Advance(r, [ProcessExited(p, exit) EXCEPT !.watched = FALSE])
  BY DEF Notice
<1> DEFINE q == [ProcessExited(p, exit) EXCEPT !.watched = FALSE]
<1>3. done \in Plans /\ again \in Plans /\ done \in Seq(Ops) /\ again \in Seq(Ops)
      /\ done # <<>> /\ again # <<>>
  <2>1. done \in Plans /\ again \in Plans
    BY Zenon DEF Plans
  <2> QED
    BY <2>1, PlanSteps
<1> HIDE DEF done, again
<1>4. /\ q \in Runner /\ q.job = p.job /\ q.loop = "on" /\ q.from = None /\ q.ok /\ ~q.watched
      /\ \/ q.todo = done /\ q.state \in Terminal
         \/ q.todo = again /\ q.state = "pending_retry"
  <2>1. /\ q \in Runner /\ q.job = p.job /\ q.loop = p.loop /\ q.from = p.from /\ q.ok = p.ok
        /\ ~q.watched
        /\ \/ q.todo = done /\ q.state \in Terminal
           \/ q.todo = again /\ q.state = "pending_retry"
    <3>1. p \in Runner
      BY <1>1
    <3> HIDE DEF p
    <3> QED
      BY <3>1, Exited, Zenon DEF done, again
  <2> HIDE DEF p, q
  <2> QED
    BY <1>1, <2>1
<1>5. Advance(r, q)
  BY <1>2
<1> HIDE DEF q
<1>6. q.todo # <<>>
  BY <1>3, <1>4
<1>7. q.todo \notin {<<"suspend", "saveCheckpointed">>, <<"snapshot", "saveCheckpointed">>,
                     <<"stop", "saveCompleted">>, <<"saveCheckpointed">>}
  <2>1. CASE q.todo = done
    BY <2>1 DEF done
  <2>2. CASE q.todo = again
    BY <2>2 DEF again
  <2> QED
    BY <1>4, <2>1, <2>2
<1>8. Shape(q)
  <2>1. CASE q.todo = done /\ q.state \in Terminal
    BY <1>3, <1>4, <2>1 DEF Shape, done
  <2>2. CASE q.todo = again /\ q.state = "pending_retry"
    BY <1>3, <1>4, <2>2 DEF Shape, again
  <2> QED
    BY <1>4, <2>1, <2>2
<1>9. Moves(r, q)
  BY <1>1, <1>4, <1>5, <1>6, <1>7, <1>8 DEF Moves, StepFrame, WorksFor
<1>10. Settled(q) = q /\ runners'[r] = q
  BY <1>4, <1>5, <1>6, SettledFields, Advanced DEF Inv
<1>11. Active(p) /\ rows[p.job].state \notin {"suspended", "pending_retry"}
  <2>1. p.todo # <<"saveRunning", "restore">> /\ p.todo # <<"saveStarted">>
    BY <1>1
  <2> QED
    BY <1>1, <2>1 DEF Active, RowFits, Waking, Retrying
<1>12. RowFits(r)'
  BY <1>1, <1>4, <1>10, <1>11 DEF RowFits
<1>13. \A b \in Callers : calls[b].pc = "sent" /\ calls[b].runner = r =>
         calls[b].op # "wake" /\ calls[b].op # "retry"
  BY <1>1 DEF Inv, WakeInv
<1>14. p.job \in table /\ rows'[p.job].state = "suspended" => container'[p.job] # "running"
  BY <1>1, <1>11
<1>15. q.todo # <<"saveCheckpointed">>
  BY <1>7
<1>16. rows' = rows /\ container' = container
  BY <1>1
<1>17. WatchInv'
  BY <1>4, <1>5, AdvanceWatches
<1> QED
  BY <1>1, <1>9, <1>11, <1>12, <1>13, <1>14, <1>15, <1>16, <1>17, MovesInv

-----------------------------------------------------------------------------
(***************************************************************************)
(* Steps that leave the rows and what the runners do alone.                *)
(***************************************************************************)
SameWork ==
  /\ runners' \in Seq(Runner) /\ DOMAIN runners' = DOMAIN runners
  /\ \A s \in DOMAIN runners :
       /\ runners'[s].job = runners[s].job /\ runners'[s].state = runners[s].state
       /\ runners'[s].process = runners[s].process /\ runners'[s].todo = runners[s].todo
       /\ runners'[s].loop = runners[s].loop /\ runners'[s].ok = runners[s].ok
       /\ runners'[s].watched = runners[s].watched
       /\ runners[s].todo = <<"saveCompleted">> => runners'[s].from = runners[s].from

\* A caller that is not waiting for the runner it made, in which case its runner ends.
Free(c) == calls[c].pc \notin {"sent", "handling"} \/ runners[calls[c].runner].loop = "done"

\* Such a step keeps the invariant unless it is the poller that leaves its runner.
LEMMA Aside ==
  ASSUME Inv, TypeInv', SameWork, UNCHANGED <<table, rows, found, due>>,
         \A c \in Callers : calls'[c] = calls[c] \/
           (calls'[c].pc # "inserted" /\ (calls'[c].pc = "sent" => calls'[c].op \notin {"wake", "retry"})),
         calls'[Poller] = calls[Poller] \/ Free(Poller),
         \A j \in JobIds : container'[j] = "running" => container[j] = "running"
  PROVE  Inv' /\ (WatchInv => WatchInv') /\ (FinalInv => FinalInv')
<1>1. DOMAIN runners' = DOMAIN runners
      /\ \A s \in DOMAIN runners :
           /\ Active(runners'[s]) <=> Active(runners[s])
           /\ Waking(runners'[s]) <=> Waking(runners[s])
           /\ Retrying(runners'[s]) <=> Retrying(runners[s])
           /\ runners'[s].job = runners[s].job
           /\ runners[s].job \in JobIds
  <2> SUFFICES ASSUME NEW s \in DOMAIN runners
               PROVE  /\ Active(runners'[s]) <=> Active(runners[s])
                      /\ Waking(runners'[s]) <=> Waking(runners[s])
                      /\ Retrying(runners'[s]) <=> Retrying(runners[s])
                      /\ runners'[s].job = runners[s].job
                      /\ runners[s].job \in JobIds
    BY DEF SameWork
  <2> DEFINE p == runners[s]
             q == runners'[s]
  <2>1. p.job \in JobIds
    <3>1. runners \in Seq(Runner)
      BY DEF Inv, TypeInv, TypeOK
    <3>2. p \in Runner
      BY <3>1
    <3> HIDE DEF p
    <3> QED
      BY <3>2, Zenon DEF Runner
  <2>2. /\ q.job = p.job /\ q.loop = p.loop /\ q.state = p.state /\ q.todo = p.todo
        /\ q.process = p.process /\ q.ok = p.ok /\ q.watched = p.watched
    BY DEF SameWork
  <2> HIDE DEF p, q
  <2>3. Active(q) <=> Active(p)
    BY <2>2, Zenon DEF Active
  <2>4. (Waking(q) <=> Waking(p)) /\ (Retrying(q) <=> Retrying(p))
    BY <2>2, Zenon DEF Waking, Retrying
  <2> QED
    BY <2>1, <2>2, <2>3, <2>4 DEF p, q
<1>2. ClaimInv'
  <2>1. \A c \in Callers : calls'[c].pc = "inserted" => calls'[c] = calls[c]
    OBVIOUS
  <2>2. \A c \in Callers, j \in JobIds : Inserting(c, j)' => Inserting(c, j)
    BY <2>1 DEF Inserting
  <2>3. ClaimInv
    BY DEF Inv
  <2> QED
    BY <1>1, <2>1, <2>2, <2>3 DEF ClaimInv, Inserting
<1>3. WakeInv'
  <2>1. \A c \in Callers : calls'[c].pc = "sent" /\ calls'[c].op \in {"wake", "retry"} =>
          calls'[c] = calls[c] /\ calls[c].runner \in DOMAIN runners
    BY DEF Inv, TypeInv, CallShape
  <2> QED
    BY <1>1, <2>1 DEF Inv, WakeInv, SameWork
<1>4. RowInv'
  <2>1. \A s \in DOMAIN runners : RowFits(s)'
    <3> SUFFICES ASSUME NEW s \in DOMAIN runners, Active(runners'[s]) PROVE RowFits(s)'
      BY DEF RowFits
    <3>1. Active(runners[s]) /\ RowFits(s) /\ runners[s].loop = "on"
      BY <1>1 DEF Inv, RowInv, RowFits, Active
    <3>2. ASSUME NEW op, PolledFor(s, op) PROVE PolledFor(s, op)'
      <4>1. calls'[Poller] = calls[Poller]
        BY <3>1, <3>2 DEF PolledFor, Free
      <4> QED
        BY <3>2, <4>1 DEF PolledFor, SameWork
    <3> QED
      BY <1>1, <3>1, <3>2 DEF RowFits
  <2>2. \A c \in Callers : calls'[c].pc = "inserted" => calls'[c] = calls[c]
    OBVIOUS
  <2>3. RowInv
    BY DEF Inv
  <2> QED
    BY <1>1, <2>1, <2>2, <2>3 DEF RowInv, RowFits
<1>5. StoppedInv'
  <2>1. SuspendedIsStopped'
    BY DEF Inv, StoppedInv, SuspendedIsStopped, TypeInv, TypeOK
  <2> QED
    BY <1>1, <2>1 DEF Inv, StoppedInv, SameWork
<1>6. WatchInv => WatchInv'
  BY DEF WatchInv, Watching, SameWork
<1>7. ASSUME FinalInv PROVE FinalInv'
  <2>1. \A j : RunnersOf(j)' = RunnersOf(j) /\ (Shared(j)' <=> Shared(j))
    BY <1>1 DEF RunnersOf, Shared
  <2>2. \A s \in DOMAIN runners : Holds(runners[s]) => Holds(runners'[s])
    BY <1>1 DEF Holds, SameWork
  <2>3. \A c \in Callers : calls'[c].pc = "inserted" => calls'[c] = calls[c]
    OBVIOUS
  <2>4. \A c \in Callers : calls'[c].pc = "inserted" =>
          RunnersOf(calls[c].job)' = {} /\ rows'[calls'[c].job].state \notin Terminal
    BY <1>7, <2>1, <2>3 DEF FinalInv
  <2>5. \A s \in DOMAIN runners : runners'[s].loop = runners[s].loop
    BY DEF SameWork
  <2>6. \A d \in due : RunnersOf(d.id) \subseteq DOMAIN runners
    BY DEF RunnersOf
  <2> QED
    BY <1>1, <1>7, <2>1, <2>2, <2>3, <2>4, <2>5, <2>6 DEF FinalInv, RunnersOf
<1> QED
  BY <1>2, <1>3, <1>4, <1>5, <1>6, <1>7 DEF Inv

\* The types, when a caller that no handler works for does something, and runners
\* change at most whether somebody waits for their end.
LEMMA AsideTypes ==
  ASSUME TypeInv, TypeOK', SameWork,
         \A s \in DOMAIN runners : runners'[s].from = runners[s].from,
         NEW c \in Callers, calls[c].pc # "handling", CallShape(c)',
         \A b \in Callers : b # c => calls'[b] = calls[b]
  PROVE  TypeInv'
<1>1. \A s \in DOMAIN runners : RunnerShape(s)'
  <2> TAKE s \in DOMAIN runners
  <2>1. RunnerShape(s) /\ runners[s] \in Runner
    BY DEF TypeInv, TypeOK
  <2>2. runners[s].from # None => runners[s].from # c /\ runners[s].from \in Callers
    BY <2>1 DEF RunnerShape, Runner
  <2>3. runners[s].from # None => calls'[runners[s].from] = calls[runners[s].from]
    BY <2>2
  <2>4. Shape(runners[s])'
    BY <2>1 DEF RunnerShape, Shape, SameWork
  <2>5. runners[s].todo \in {<<"suspend", "saveCheckpointed">>, <<"snapshot", "saveCheckpointed">>,
                             <<"stop", "saveCompleted">>} => runners[s].from # None
    BY <2>1 DEF RunnerShape, Shape
  <2>6. runners'[s].from = runners[s].from /\ runners'[s].todo = runners[s].todo
    BY DEF SameWork
  <2> QED
    BY <2>1, <2>3, <2>4, <2>5, <2>6 DEF RunnerShape
<1>2. \A b \in Callers : CallShape(b)'
  <2> TAKE b \in Callers
  <2>1. CASE b = c
    BY <2>1
  <2>2. CASE b # c
    <3>1. calls'[b] = calls[b] /\ CallShape(b)
      BY <2>2 DEF TypeInv
    <3> QED
      BY <3>1 DEF CallShape, SameWork
  <2> QED
    BY <2>1, <2>2
<1>3. DOMAIN runners' = DOMAIN runners /\ runners' \in Seq(Runner)
  BY DEF SameWork
<1> QED
  BY <1>1, <1>2, <1>3 DEF TypeInv

\* A command that comes when the loop has ended.
LEMMA StoppedKeeps ==
  ASSUME Inv, NEW c \in Callers, Stopped(c)
  PROVE  Inv' /\ (WatchInv => WatchInv') /\ (FinalInv => FinalInv')
<1>1. /\ calls[c].pc = "sent" /\ runners[calls[c].runner].loop = "done" /\ CallShape(c)
      /\ calls' = [calls EXCEPT ![c].pc = "answered", ![c].ok = FALSE,
                                ![c].seen = runners[calls[c].runner].state]
      /\ UNCHANGED <<db, container, reads, runners, inMap, gaveUp, bounds>>
  BY DEF Stopped, Inv, TypeInv
<1>2. TypeOK /\ runners \in Seq(Runner) /\ calls \in [Callers -> Call]
  BY DEF Inv, TypeInv, TypeOK
<1>3. calls[c].runner \in DOMAIN runners /\ runners[calls[c].runner].state \in JobStates
  BY <1>1, <1>2 DEF CallShape, TypeOK, Runner
<1>4. calls'[c] \in Call /\ calls' \in [Callers -> Call]
      /\ calls'[c] = [calls[c] EXCEPT !.pc = "answered", !.ok = FALSE,
                                      !.seen = runners[calls[c].runner].state]
      /\ \A b \in Callers : b # c => calls'[b] = calls[b]
  <2>1. calls'[c] = [calls[c] EXCEPT !.pc = "answered", !.ok = FALSE,
                                     !.seen = runners[calls[c].runner].state]
    BY <1>1, <1>2
  <2>2. calls'[c] \in Call
    BY <1>2, <1>3, <2>1 DEF Call
  <2> QED
    BY <1>1, <1>2, <2>1, <2>2
<1>5. CallShape(c)'
  <2>1. /\ calls'[c].pc = "answered" /\ calls'[c].op = calls[c].op /\ calls'[c].job = calls[c].job
        /\ calls'[c].runner = calls[c].runner /\ calls'[c].token = calls[c].token
    BY <1>2, <1>4 DEF Call
  <2> QED
    BY <1>1, <1>3, <2>1 DEF CallShape
<1>6. TypeOK'
  BY <1>1, <1>2, <1>4 DEF TypeOK, db, reads, bounds
<1>7. SameWork /\ runners' = runners
  BY <1>1, <1>2 DEF SameWork
<1>8. TypeInv'
  BY <1>1, <1>4, <1>5, <1>6, <1>7, AsideTypes DEF Inv
<1>9. calls'[c].pc = "answered"
  BY <1>2, <1>4 DEF Call
<1>10. calls'[Poller] = calls[Poller] \/ Free(Poller)
  BY <1>1, <1>4 DEF Free, Callers
<1> QED
  BY <1>1, <1>4, <1>7, <1>8, <1>9, <1>10, Aside DEF db, reads

\* What callers do with the reply.
LEMMA ConcludeKeeps ==
  ASSUME Inv, NEW c \in Callers, Conclude(c)
  PROVE  Inv' /\ (WatchInv => WatchInv') /\ (FinalInv => FinalInv')
<1> DEFINE r == calls[c].runner
<1>1. /\ calls[c].pc = "answered" /\ CallShape(c)
      /\ calls' = [calls EXCEPT ![c] = AtRest]
      /\ UNCHANGED <<db, container, reads, gaveUp, bounds>>
  BY DEF Conclude, Inv, TypeInv
<1>2. TypeOK /\ runners \in Seq(Runner) /\ calls \in [Callers -> Call] /\ calls[c] \in Call
  BY DEF Inv, TypeInv, TypeOK
<1>3. r \in DOMAIN runners /\ runners[r] \in Runner /\ calls[c].job \in JobIds
  BY <1>1, <1>2 DEF CallShape, TypeOK
<1>4. \/ runners' = runners
      \/ runners' = [runners EXCEPT ![r] = [runners[r] EXCEPT !.evictor = TRUE]]
  <2>1. CASE calls[c].op \in {"suspend", "snapshot"} /\ calls[c].ok /\ Evictable(calls[c].seen)
    <3>1. UNCHANGED runners
      BY <2>1 DEF Conclude
    <3> QED
      BY <3>1
  <2>2. CASE calls[c].op \in {"start", "wake", "retry"} /\ calls[c].ok
    <3>1. runners' = [runners EXCEPT ![r].evictor = TRUE]
      BY <2>2 DEF Conclude
    <3> QED
      BY <3>1
  <2>3. CASE calls[c].op \in {"start", "wake", "retry"} /\ ~calls[c].ok
    <3>1. calls[c].op # "start" => runners[r].loop = "done"
      BY <1>1, <2>3 DEF CallShape
    <3>2. runners' = [runners EXCEPT ![r].loop = IF calls[c].op = "start" THEN @ ELSE "done"]
      BY <2>3 DEF Conclude
    <3>3. runners' = [runners EXCEPT ![r] = [runners[r] EXCEPT !.loop = runners[r].loop]]
      BY <3>1, <3>2
    <3>4. [runners[r] EXCEPT !.loop = runners[r].loop] = runners[r]
      BY <1>3 DEF Runner
    <3> QED
      BY <1>2, <1>3, <3>3, <3>4
  <2>4. CASE /\ ~(calls[c].op \in {"suspend", "snapshot"} /\ calls[c].ok /\ Evictable(calls[c].seen))
             /\ ~(calls[c].op \in {"start", "wake", "retry"} /\ calls[c].ok)
             /\ ~(calls[c].op \in {"start", "wake", "retry"} /\ ~calls[c].ok)
    BY <2>4 DEF Conclude
  <2> QED
    BY <2>1, <2>2, <2>3, <2>4
<1>5. inMap' = inMap \/ inMap' = [inMap EXCEPT ![calls[c].job] = 0]
  BY DEF Conclude, Evict
<1>6. /\ SameWork
      /\ \A s \in DOMAIN runners : runners'[s].from = runners[s].from
      /\ Len(runners') = Len(runners) /\ \A s \in DOMAIN runners' : runners'[s] \in Runner
  <2>1. CASE runners' = runners
    BY <1>2, <2>1 DEF SameWork, TypeOK
  <2>2. CASE runners' = [runners EXCEPT ![r] = [runners[r] EXCEPT !.evictor = TRUE]]
    <3>1. [runners[r] EXCEPT !.evictor = TRUE] \in Runner
      BY <1>3 DEF Runner
    <3>2. runners' \in Seq(Runner) /\ DOMAIN runners' = DOMAIN runners /\ Len(runners') = Len(runners)
      BY <1>2, <1>3, <2>2, <3>1
    <3>3. runners'[r] = [runners[r] EXCEPT !.evictor = TRUE]
          /\ \A s \in DOMAIN runners : s # r => runners'[s] = runners[s]
      BY <1>2, <1>3, <2>2
    <3>4. /\ runners'[r].job = runners[r].job /\ runners'[r].state = runners[r].state
          /\ runners'[r].process = runners[r].process /\ runners'[r].todo = runners[r].todo
          /\ runners'[r].loop = runners[r].loop /\ runners'[r].ok = runners[r].ok
          /\ runners'[r].watched = runners[r].watched /\ runners'[r].from = runners[r].from
      BY <1>3, <3>3 DEF Runner
    <3>5. SameWork
      BY <3>2, <3>3, <3>4 DEF SameWork
    <3> QED
      BY <1>2, <3>1, <3>2, <3>3, <3>4, <3>5 DEF TypeOK
  <2> QED
    BY <1>4, <2>1, <2>2
<1>7. AtRest \in Call /\ AtRest.pc = "idle" /\ AtRest.op = "none"
  BY DEF AtRest, Call, JobStates
<1>8. calls' \in [Callers -> Call] /\ calls'[c] = AtRest
      /\ \A b \in Callers : b # c => calls'[b] = calls[b]
  BY <1>1, <1>2, <1>7
<1>9. CallShape(c)'
  BY <1>7, <1>8 DEF CallShape
<1>10. TypeOK'
  BY <1>1, <1>2, <1>3, <1>5, <1>6, <1>8 DEF TypeOK, db, reads, bounds
<1>11. TypeInv'
  BY <1>1, <1>6, <1>8, <1>9, <1>10, AsideTypes DEF Inv
<1>12. calls'[Poller] = calls[Poller] \/ Free(Poller)
  BY <1>1, <1>8 DEF Free, Callers
<1> QED
  BY <1>1, <1>6, <1>7, <1>8, <1>11, <1>12, Aside DEF db, reads

\* The goroutine that waits for Done.
LEMMA EvictDoneKeeps ==
  ASSUME Inv, NEW r \in DOMAIN runners, EvictDone(r)
  PROVE  Inv' /\ (WatchInv => WatchInv') /\ (FinalInv => FinalInv')
<1>1. /\ runners' = [runners EXCEPT ![r] = [runners[r] EXCEPT !.evictor = FALSE]]
      /\ inMap' = inMap \/ inMap' = [inMap EXCEPT ![runners[r].job] = 0]
      /\ UNCHANGED <<db, container, reads, calls, gaveUp, bounds>>
  BY DEF EvictDone, Evict
<1>2. TypeOK /\ runners \in Seq(Runner) /\ runners[r] \in Runner
  BY DEF Inv, TypeInv, TypeOK
<1>3. [runners[r] EXCEPT !.evictor = FALSE] \in Runner
  BY <1>2 DEF Runner
<1>4. runners' \in Seq(Runner) /\ DOMAIN runners' = DOMAIN runners /\ Len(runners') = Len(runners)
  BY <1>1, <1>2, <1>3
<1>5. runners'[r] = [runners[r] EXCEPT !.evictor = FALSE]
      /\ \A s \in DOMAIN runners : s # r => runners'[s] = runners[s]
  BY <1>1, <1>2
<1>6. /\ runners'[r].job = runners[r].job /\ runners'[r].state = runners[r].state
      /\ runners'[r].process = runners[r].process /\ runners'[r].todo = runners[r].todo
      /\ runners'[r].loop = runners[r].loop /\ runners'[r].ok = runners[r].ok
      /\ runners'[r].watched = runners[r].watched /\ runners'[r].from = runners[r].from
  BY <1>2, <1>5 DEF Runner
<1>7. SameWork /\ \A s \in DOMAIN runners : runners'[s].from = runners[s].from
  BY <1>4, <1>5, <1>6 DEF SameWork
<1>8. TypeOK'
  <2>1. \A s \in DOMAIN runners' : runners'[s] \in Runner
    BY <1>2, <1>3, <1>4, <1>5 DEF TypeOK
  <2>2. inMap' \in [JobIds -> 0..Len(runners')]
    <3>1. runners[r].job \in JobIds /\ inMap \in [JobIds -> 0..Len(runners)]
      BY <1>2 DEF Runner, TypeOK
    <3> QED
      BY <1>1, <1>2, <1>4, <3>1
  <2> QED
    BY <1>1, <1>2, <2>1, <2>2 DEF TypeOK, db, reads, bounds
<1>9. TypeInv'
  <2>1. \A c \in Callers : CallShape(c)'
    BY <1>1, <1>7 DEF Inv, TypeInv, CallShape, SameWork
  <2>2. \A s \in DOMAIN runners : RunnerShape(s)'
    BY <1>1, <1>7 DEF Inv, TypeInv, RunnerShape, Shape, SameWork
  <2> QED
    BY <1>4, <1>8, <2>1, <2>2 DEF TypeInv
<1> QED
  BY <1>1, <1>7, <1>9, Aside DEF db, reads

\* A container that ends.
LEMMA ContainerEndsKeeps ==
  ASSUME Inv, NEW j \in JobIds, ContainerEnds(j)
  PROVE  Inv' /\ (WatchInv => WatchInv') /\ (FinalInv => FinalInv')
<1>1. /\ container' = [container EXCEPT ![j] = "exited"]
      /\ UNCHANGED <<db, reads, runners, inMap, calls, gaveUp, bounds>>
  BY DEF ContainerEnds
<1>2. TypeInv'
  BY <1>1 DEF Inv, TypeInv, TypeOK, CallShape, RunnerShape, Shape, db, reads, bounds
<1>3. SameWork
  BY <1>1 DEF SameWork, Inv, TypeInv
<1>4. \A i \in JobIds : container'[i] = "running" => container[i] = "running"
  BY <1>1 DEF Inv, TypeInv, TypeOK
<1> QED
  BY <1>1, <1>2, <1>3, <1>4, Aside DEF db, reads

\* A definition that is unregistered, and a stutter.
LEMMA UnregisterKeeps ==
  ASSUME Inv, UnregisterJobDefinition \/ UNCHANGED vars
  PROVE  Inv' /\ (WatchInv => WatchInv') /\ (FinalInv => FinalInv')
<1>1. /\ defined' \in BOOLEAN
      /\ UNCHANGED <<table, rows, container, reads, runners, inMap, calls, gaveUp, bounds>>
  BY DEF UnregisterJobDefinition, vars, db, Inv, TypeInv, TypeOK
<1>2. TypeInv'
  <2>1. TypeOK' /\ runners' \in Seq(Runner)
    BY <1>1 DEF Inv, TypeInv, TypeOK, reads, bounds
  <2>2. \A c \in Callers : CallShape(c)'
    BY <1>1 DEF Inv, TypeInv, CallShape
  <2>3. \A r \in DOMAIN runners : RunnerShape(r)'
    BY <1>1 DEF Inv, TypeInv, RunnerShape
  <2> QED
    BY <1>1, <2>1, <2>2, <2>3 DEF TypeInv
<1>3. SameWork
  BY <1>1 DEF SameWork, Inv, TypeInv
<1> QED
  BY <1>1, <1>2, <1>3, Aside DEF reads

\* A client that sends a command.
LEMMA SendCommandKeeps ==
  ASSUME Inv, NEW c \in Clients, NEW j \in JobIds, NEW m \in Requests, SendCommand(c, j, m[1], m[2])
  PROVE  Inv' /\ (WatchInv => WatchInv') /\ (FinalInv => FinalInv')
<1>1. /\ calls' = [calls EXCEPT ![c] = [AtRest EXCEPT !.pc = "sent", !.op = m[1], !.job = j,
                                                      !.runner = inMap[j], !.token = m[2]]]
      /\ calls[c].pc = "idle" /\ inMap[j] # 0 /\ made < MaxCalls /\ made' = made + 1
      /\ UNCHANGED <<db, container, reads, runners, inMap, gaveUp, crashes>>
  BY DEF SendCommand, Idle
<1>2. TypeOK /\ runners \in Seq(Runner) /\ calls \in [Callers -> Call] /\ c \in Callers
      /\ c # Poller
  BY HypervisorAssumption DEF Inv, TypeInv, TypeOK, Callers
<1>3. /\ m[1] \in {"suspend", "snapshot", "kill", "exit"} /\ m[2] \in Tokens \cup {None}
      /\ m[1] \in {"suspend", "snapshot"} => m[2] \in Tokens
  BY HypervisorAssumption DEF Requests
<1>4. inMap[j] \in Nat /\ inMap[j] \in DOMAIN runners
  BY <1>1, <1>2 DEF TypeOK
<1>5. /\ calls'[c].pc = "sent" /\ calls'[c].op = m[1] /\ calls'[c].job = j
      /\ calls'[c].runner = inMap[j] /\ calls'[c].token = m[2] /\ calls'[c] \in Call
  <2>1. calls'[c] = [AtRest EXCEPT !.pc = "sent", !.op = m[1], !.job = j,
                                   !.runner = inMap[j], !.token = m[2]]
    BY <1>1, <1>2
  <2> QED
    BY <1>3, <1>4, <2>1 DEF AtRest, Call, JobStates
<1>6. calls' \in [Callers -> Call] /\ \A b \in Callers : b # c => calls'[b] = calls[b]
  BY <1>1, <1>2, <1>5
<1>7. CallShape(c)'
  BY <1>1, <1>3, <1>4, <1>5 DEF CallShape
<1>8. TypeOK'
  BY <1>1, <1>2, <1>6, HypervisorAssumption DEF TypeOK, db, reads
<1>9. SameWork /\ runners' = runners
  BY <1>1, <1>2 DEF SameWork
<1>10. TypeInv'
  BY <1>1, <1>2, <1>6, <1>7, <1>8, <1>9, AsideTypes DEF Inv
<1>11. calls'[Poller] = calls[Poller]
  BY <1>2, <1>6 DEF Callers
<1> QED
  BY <1>1, <1>3, <1>5, <1>6, <1>9, <1>10, <1>11, Aside DEF db, reads

\* A client that leaves before the suspension is written: the handler works for nobody.
LEMMA GiveUpKeeps ==
  ASSUME Inv, NEW c \in Clients, GiveUp(c)
  PROVE  Inv' /\ (WatchInv => WatchInv') /\ (FinalInv => FinalInv')
<1> DEFINE r == calls[c].runner
           p == runners[r]
           q == [p EXCEPT !.from = None]
<1>1. /\ calls[c].pc = "handling" /\ Head(p.todo) = "saveCheckpointed"
      /\ runners' = [runners EXCEPT ![r] = q]
      /\ calls' = [calls EXCEPT ![c] = AtRest]
      /\ gaveUp' = gaveUp \cup {p.job}
      /\ UNCHANGED <<db, container, reads, inMap, bounds>>
  BY DEF GiveUp
<1>2. TypeOK /\ runners \in Seq(Runner) /\ calls \in [Callers -> Call] /\ c \in Callers
      /\ c # Poller /\ c # None
  BY HypervisorAssumption DEF Inv, TypeInv, TypeOK, Callers
<1>3. CallShape(c) /\ r \in DOMAIN runners /\ p \in Runner /\ p.from = c
  BY <1>1, <1>2 DEF CallShape, Inv, TypeInv, TypeOK
<1>4. Shape(p) /\ p.todo = <<"saveCheckpointed">>
  <2>1. Shape(p) /\ p.todo \in Plans
    BY <1>2, <1>3 DEF Inv, TypeInv, RunnerShape, Shape
  <2> QED
    BY <1>1, <2>1, PlanSteps
<1>5. /\ q \in Runner /\ q.job = p.job /\ q.state = p.state /\ q.process = p.process
      /\ q.todo = p.todo /\ q.loop = p.loop /\ q.ok = p.ok /\ q.watched = p.watched
      /\ q.from = None
  BY <1>3 DEF Runner
<1> HIDE DEF q
<1>6. runners' \in Seq(Runner) /\ DOMAIN runners' = DOMAIN runners /\ Len(runners') = Len(runners)
  BY <1>1, <1>2, <1>3, <1>5
<1>7. runners'[r] = q /\ \A s \in DOMAIN runners : s # r => runners'[s] = runners[s]
  BY <1>1, <1>2, <1>3
<1>8. SameWork
  <2>1. p.todo # <<"saveCompleted">>
    BY <1>4
  <2> QED
    BY <1>5, <1>6, <1>7, <2>1 DEF SameWork
<1>9. AtRest \in Call /\ AtRest.pc = "idle" /\ AtRest.op = "none"
  BY DEF AtRest, Call, JobStates
<1>10. calls' \in [Callers -> Call] /\ calls'[c] = AtRest
       /\ \A b \in Callers : b # c => calls'[b] = calls[b]
  BY <1>1, <1>2, <1>9
<1>11. TypeOK'
  <2>1. \A s \in DOMAIN runners' : runners'[s] \in Runner
    BY <1>2, <1>5, <1>6, <1>7 DEF TypeOK
  <2>2. p.job \in JobIds
    BY <1>3 DEF Runner
  <2> QED
    BY <1>1, <1>2, <1>6, <1>10, <2>1, <2>2 DEF TypeOK, db, reads, bounds
<1>12. \A b \in Callers : CallShape(b)'
  <2> TAKE b \in Callers
  <2>1. CASE b = c
    BY <1>9, <1>10, <2>1 DEF CallShape
  <2>2. CASE b # c
    <3>1. CallShape(b) /\ calls'[b] = calls[b]
      BY <1>10, <2>2 DEF Inv, TypeInv
    <3>2. calls[b].pc = "handling" => calls[b].runner # r
      BY <1>3, <2>2, <3>1 DEF CallShape
    <3> QED
      BY <1>5, <1>7, <1>6, <3>1, <3>2 DEF CallShape
  <2> QED
    BY <2>1, <2>2
<1>13. \A s \in DOMAIN runners : RunnerShape(s)'
  <2> TAKE s \in DOMAIN runners
  <2>1. CASE s = r
    <3>1. q.todo \notin {<<"suspend", "saveCheckpointed">>, <<"snapshot", "saveCheckpointed">>,
                         <<"stop", "saveCompleted">>}
      BY <1>4, <1>5
    <3>2. Shape(q)
      <4>1. q.todo # <<"suspend", "saveCheckpointed">> /\ q.todo # <<"snapshot", "saveCheckpointed">>
            /\ q.todo # <<"stop", "saveCompleted">>
        BY <3>1, Zenon
      <4> HIDE DEF p
      <4> QED
        BY <1>4, <1>5, <4>1 DEF Shape
    <3> QED
      BY <1>5, <1>7, <2>1, <3>1, <3>2 DEF RunnerShape
  <2>2. CASE s # r
    <3>1. RunnerShape(s) /\ runners'[s] = runners[s] /\ runners[s] \in Runner /\ Shape(runners[s])
      BY <1>2, <1>7, <2>2 DEF Inv, TypeInv, TypeOK, RunnerShape
    <3>2. runners[s].from # None => runners[s].from # c /\ runners[s].from \in Callers
      BY <2>2, <3>1 DEF RunnerShape, Runner
    <3>3. runners[s].from # None => calls'[runners[s].from] = calls[runners[s].from]
      BY <1>10, <3>2
    <3>4. runners[s].todo \in {<<"suspend", "saveCheckpointed">>, <<"snapshot", "saveCheckpointed">>,
                               <<"stop", "saveCompleted">>} => runners[s].from # None
      BY <3>1 DEF Shape
    <3> QED
      BY <3>1, <3>3, <3>4 DEF RunnerShape
  <2> QED
    BY <2>1, <2>2
<1>14. TypeInv'
  BY <1>6, <1>11, <1>12, <1>13 DEF TypeInv
<1>15. calls'[Poller] = calls[Poller]
  BY <1>2, <1>10 DEF Callers
<1> QED
  BY <1>1, <1>8, <1>9, <1>10, <1>14, <1>15, Aside DEF db, reads

-----------------------------------------------------------------------------
(***************************************************************************)
(* Runners are made.                                                       *)
(***************************************************************************)
\* A claim on job j of caller c, a row to handle or one just inserted, becomes a runner.
LEMMA Made ==
  ASSUME Inv, NEW c \in Callers, NEW op \in {"start", "wake", "retry"}, NEW j \in JobIds,
         NEW row \in Row, MakeRunner(c, op, j, row),
         calls[c].pc = "idle" \/ (calls[c].pc = "inserted" /\ calls[c].job = j),
         op = "start" => row.state \in {"pending", "running"},
         op = "wake" => c \in {Poller, Recovery}, op = "retry" => c = Poller,
         due' \subseteq due, found' \subseteq found,
         UNCHANGED <<table, rows, defined, container, stage, gaveUp, bounds>>,
         j \in table,
         \A s \in DOMAIN runners : Active(runners[s]) => runners[s].job # j,
         \A d \in due' : d.id # j,
         \A d \in found' : Claimed(d) => d.id # j,
         \A b \in Callers : b # c => ~Inserting(b, j),
         rows[j].state = "suspended" => c = Poller /\ op = "wake",
         rows[j].state = "pending_retry" => c = Poller /\ op = "retry"
  PROVE  Inv' /\ (WatchInv => WatchInv')
<1>0. PICK n \in Nat : n = Len(runners) + 1
  BY DEF Inv, TypeInv
<1> DEFINE q == NewJobRunner(op, j, row)
           call == [AtRest EXCEPT !.pc = "sent", !.op = op, !.job = j, !.runner = n]
<1>1. TypeOK /\ runners \in Seq(Runner) /\ calls \in [Callers -> Call]
  BY DEF Inv, TypeInv, TypeOK
<1>2. runners' = Append(runners, q) /\ inMap' = [inMap EXCEPT ![j] = n]
      /\ calls' = [calls EXCEPT ![c] = call]
  BY <1>0 DEF MakeRunner
<1>3. /\ q \in Runner /\ q.job = j /\ ~q.process /\ ~q.watched /\ q.loop = "on" /\ q.todo = <<>>
      /\ q.from = None /\ q.ok
      /\ op = "start" => q.state \in {"pending", "running"}
      /\ op = "wake" => q.state = "suspended"
      /\ op = "retry" => q.state = "failed"
  <2>1. <<>> \in Seq(Ops)
    OBVIOUS
  <2> QED
    BY <2>1 DEF NewJobRunner, Runner, Row, JobStates
<1>4. call \in Call
  BY DEF AtRest, Call, JobStates
<1>5. /\ call.pc = "sent" /\ call.op = op /\ call.job = j /\ call.runner = n
  BY DEF AtRest
<1> HIDE DEF q, call
<1>6. /\ runners' \in Seq(Runner) /\ Len(runners') = n /\ DOMAIN runners' = DOMAIN runners \cup {n}
      /\ n \notin DOMAIN runners /\ runners'[n] = q
      /\ \A s \in DOMAIN runners : runners'[s] = runners[s]
  BY <1>0, <1>1, <1>2, <1>3
<1>7. calls' \in [Callers -> Call] /\ calls'[c] = call
      /\ \A b \in Callers : b # c => calls'[b] = calls[b]
  BY <1>1, <1>2, <1>4
<1>8. \A b \in Callers : calls[b].pc \in {"sent", "handling", "answered"} =>
        b # c /\ calls[b].runner \in DOMAIN runners
  BY DEF Inv, TypeInv, CallShape
<1>9. TypeOK'
  <2>1. inMap' \in [JobIds -> 0..Len(runners')]
    <3>1. inMap \in [JobIds -> 0..Len(runners)] /\ n = Len(runners) + 1 /\ Len(runners) \in Nat
      BY <1>0, <1>1 DEF TypeOK
    <3> QED
      BY <1>2, <1>6, <3>1
  <2>2. \A s \in DOMAIN runners' : runners'[s] \in Runner
    BY <1>1, <1>3, <1>6 DEF TypeOK
  <2> QED
    BY <1>1, <1>7, <2>1, <2>2 DEF TypeOK, bounds
<1>10. Shape(q)
  <2>1. \A t \in Plans : t # <<>>
    BY PlanSteps
  <2> QED
    BY <1>3, <2>1 DEF Shape
<1>11. \A s \in DOMAIN runners' : RunnerShape(s)'
  <2> TAKE s \in DOMAIN runners'
  <2>1. CASE s = n
    <3>1. q.todo \notin {<<"suspend", "saveCheckpointed">>, <<"snapshot", "saveCheckpointed">>,
                         <<"stop", "saveCompleted">>}
      BY <1>3
    <3> QED
      BY <1>3, <1>6, <1>10, <2>1, <3>1 DEF RunnerShape
  <2>2. CASE s # n
    <3>1. s \in DOMAIN runners /\ runners'[s] = runners[s] /\ runners[s] \in Runner
      BY <1>1, <1>6, <2>2 DEF TypeOK
    <3>2. RunnerShape(s)
      BY <3>1 DEF Inv, TypeInv
    <3>3. runners[s].from # None => runners[s].from \in Callers /\ runners[s].from # c
      BY <1>8, <3>1, <3>2 DEF RunnerShape, Runner
    <3>4. runners[s].from # None => calls'[runners[s].from] = calls[runners[s].from]
      BY <1>7, <3>3
    <3>5. runners[s].todo \in {<<"suspend", "saveCheckpointed">>, <<"snapshot", "saveCheckpointed">>,
                               <<"stop", "saveCompleted">>} => runners[s].from # None
      BY <3>2 DEF RunnerShape, Shape
    <3> QED
      BY <3>1, <3>2, <3>4, <3>5 DEF RunnerShape
  <2> QED
    BY <2>1, <2>2
<1>12. \A b \in Callers : CallShape(b)'
  <2> TAKE b \in Callers
  <2>1. CASE b = c
    BY <1>5, <1>6, <1>7, <2>1 DEF CallShape
  <2>2. CASE b # c
    <3>1. CallShape(b) /\ calls'[b] = calls[b]
      BY <1>7, <2>2 DEF Inv, TypeInv
    <3> QED
      BY <1>6, <1>8, <3>1 DEF CallShape
  <2> QED
    BY <2>1, <2>2
<1>13. TypeInv'
  BY <1>6, <1>9, <1>11, <1>12 DEF TypeInv
<1>14. \A b \in Callers, i \in JobIds : Inserting(b, i)' => b # c /\ Inserting(b, i)
  BY <1>5, <1>7 DEF Inserting
<1>15. ClaimInv'
  <2>1. ClaimInv /\ \A s \in DOMAIN runners : runners[s].job \in JobIds
    BY <1>1 DEF Inv, TypeOK, Runner
  <2>2. \A r, s \in DOMAIN runners' :
          Active(runners'[r]) /\ Active(runners'[s]) /\ runners'[r].job = runners'[s].job => r = s
    BY <1>3, <1>6, <2>1 DEF ClaimInv
  <2>3. \A r \in DOMAIN runners' : Active(runners'[r]) =>
          /\ runners'[r].job \in table'
          /\ \A d \in due' : d.id # runners'[r].job
          /\ \A d \in found' : Claimed(d) => d.id # runners'[r].job
          /\ \A b \in Callers : ~(calls'[b].pc = "inserted" /\ calls'[b].job = runners'[r].job)
    <3> TAKE r \in DOMAIN runners'
    <3>1. CASE r = n
      BY <1>3, <1>6, <1>14, <3>1 DEF Inserting
    <3>2. CASE r # n
      BY <1>6, <1>14, <2>1, <3>2 DEF ClaimInv, Inserting
    <3> QED
      BY <3>1, <3>2
  <2>4. \A b \in Callers : calls'[b].pc = "inserted" =>
          b # c /\ calls'[b] = calls[b] /\ calls[b].job \in JobIds
    BY <1>5, <1>7 DEF Inv, TypeInv, CallShape
  <2>7. \A b, e \in Callers : calls'[b].pc = "inserted" /\ calls'[e].pc = "inserted"
                              /\ calls'[e].job = calls'[b].job => b = e
    BY <2>1, <2>4 DEF ClaimInv, Inserting
  <2>8. \A b \in Callers : calls'[b].pc = "inserted" => calls'[b].job \in table'
    BY <2>1, <2>4 DEF ClaimInv
  <2>5. \A d \in due' : /\ d.id \in table'
                        /\ \A e \in due' : d.id = e.id => d = e
                        /\ \A e \in found' : Claimed(e) => d.id # e.id
                        /\ \A b \in Callers : ~Inserting(b, d.id)'
    BY <1>14, <2>1 DEF ClaimInv, Inv, TypeInv, TypeOK, Found
  <2>6. \A d \in found' : Claimed(d) =>
          /\ d.id \in table'
          /\ \A e \in found' : d.id = e.id => d = e
          /\ \A b \in Callers : ~Inserting(b, d.id)'
    BY <1>14, <2>1 DEF ClaimInv, Inv, TypeInv, TypeOK, Found
  <2> QED
    BY <2>2, <2>3, <2>4, <2>5, <2>6, <2>7, <2>8 DEF ClaimInv, Inserting
<1>16. WakeInv'
  <2>1. \A b \in Callers : calls'[b].pc = "sent" /\ b # c =>
          calls'[b] = calls[b] /\ calls[b].runner \in DOMAIN runners /\ calls[b].runner # n
    BY <1>6, <1>7, <1>8
  <2> QED
    BY <1>3, <1>5, <1>6, <1>7, <2>1 DEF WakeInv, Inv
<1>17. RowInv'
  <2>1. RowInv
    BY DEF Inv
  <2>2. RowFits(n)'
    <3>1. rows[j].state = "suspended" => Waking(q) /\ PolledFor(n, "wake")'
      BY <1>3, <1>5, <1>6, <1>7 DEF Waking, PolledFor
    <3>2. rows[j].state = "pending_retry" => Retrying(q) /\ PolledFor(n, "retry")'
      <4>1. q.todo # <<"saveCompleted">> /\ q.todo # <<"remove", "saveCompleted">>
        BY <1>3
      <4> QED
        BY <1>3, <1>5, <1>6, <1>7, <4>1 DEF Retrying, PolledFor
    <3> QED
      BY <1>3, <1>6, <3>1, <3>2 DEF RowFits
  <2>3. \A s \in DOMAIN runners : RowFits(s)'
    <3> TAKE s \in DOMAIN runners
    <3>1. RowFits(s) /\ runners'[s] = runners[s]
      BY <1>6, <2>1 DEF RowFits, RowInv
    <3>2. ASSUME NEW o, PolledFor(s, o) PROVE PolledFor(s, o)'
      <4>1. calls'[Poller] = calls[Poller]
        BY <1>7, <1>8, <3>2 DEF PolledFor, Callers
      <4> QED
        BY <3>1, <3>2, <4>1 DEF PolledFor
    <3> QED
      BY <3>1, <3>2 DEF RowFits
  <2>4. \A b \in Callers : calls'[b].pc = "inserted" => calls'[b] = calls[b]
    BY <1>5, <1>7
  <2> QED
    BY <1>6, <2>1, <2>2, <2>3, <2>4 DEF RowInv, RowFits
<1>18. StoppedInv'
  <2>1. q.todo # <<"saveCheckpointed">>
    BY <1>3
  <2> QED
    BY <1>6, <2>1 DEF Inv, StoppedInv, SuspendedIsStopped
<1>19. WatchInv => WatchInv'
  BY <1>3, <1>6 DEF WatchInv, Watching
<1> QED
  BY <1>13, <1>15, <1>16, <1>17, <1>18, <1>19 DEF Inv

\* The second half of Spawn.
LEMMA SpawnRunnerKeeps ==
  ASSUME Inv, NEW c \in Clients, SpawnRunner(c)
  PROVE  Inv' /\ (WatchInv => WatchInv')
<1> DEFINE j == calls[c].job
<1>1. calls[c].pc = "inserted" /\ MakeRunner(c, "start", j, InsertJob) /\ c \in Callers
      /\ UNCHANGED <<db, container, reads, gaveUp, bounds>>
  BY DEF SpawnRunner, Callers
<1>2. j \in JobIds /\ Inserting(c, j)
  BY <1>1 DEF Inv, TypeInv, CallShape, Inserting
<1>3. InsertJob \in Row /\ InsertJob.state = "pending"
  BY DEF InsertJob, Row, JobStates, Results
<1>4. /\ j \in table
      /\ \A s \in DOMAIN runners : Active(runners[s]) => runners[s].job # j
      /\ \A d \in due : d.id # j
      /\ \A d \in found : Claimed(d) => d.id # j
      /\ \A b \in Callers : b # c => ~Inserting(b, j)
  BY <1>1, <1>2 DEF Inv, ClaimInv, Inserting
<1>5. rows[j].state \notin {"suspended", "pending_retry"}
  BY <1>1 DEF Inv, RowInv, Terminal
<1> QED
  BY <1>1, <1>2, <1>3, <1>4, <1>5, Made DEF db, reads

\* The runners and calls stay as they are: what their types say still holds.
LEMMA Still ==
  ASSUME Inv, UNCHANGED <<runners, calls>>, TypeOK'
  PROVE  TypeInv'
  BY DEF Inv, TypeInv, CallShape, RunnerShape, Shape

\* A row that was read is not handled, or its job is marked as failed.
LEMMA Dropped ==
  ASSUME Inv, due' \subseteq due, found' \subseteq found,
         UNCHANGED <<table, defined, container, stage, runners, inMap, calls, gaveUp, bounds>>,
         rows' \in [JobIds -> Row],
         \A j \in JobIds : rows'[j] = rows[j] \/ rows'[j].state \in Terminal
  PROVE  Inv' /\ (WatchInv => WatchInv')
<1>1. TypeInv'
  <2>1. TypeOK'
    BY DEF Inv, TypeInv, TypeOK, bounds
  <2> QED
    BY <2>1, Still
<1>2. \A j \in JobIds : rows'[j].state \in {rows[j].state} \cup Terminal
  OBVIOUS
<1>3. /\ \A d \in found : d.id \in JobIds
      /\ \A d \in due : d.id \in JobIds
      /\ \A r \in DOMAIN runners : runners[r].job \in JobIds
      /\ \A c \in Callers : calls[c].pc = "inserted" => calls[c].job \in JobIds
  BY DEF Inv, TypeInv, TypeOK, Found, Runner, CallShape
<1>4. ClaimInv'
  BY <1>3 DEF Inv, ClaimInv, Inserting
<1>5. WakeInv'
  BY DEF Inv, WakeInv
<1>6. RowInv'
  <2>1. \A r \in DOMAIN runners : RowFits(r)'
    BY <1>2, <1>3 DEF Inv, RowInv, RowFits, PolledFor, Terminal
  <2> QED
    BY <1>2, <1>3, <2>1 DEF Inv, RowInv, RowFits
<1>7. StoppedInv'
  BY DEF Inv, StoppedInv, SuspendedIsStopped, Terminal, TypeInv, TypeOK
<1> QED
  BY <1>1, <1>4, <1>5, <1>6, <1>7 DEF Inv, WatchInv

\* markJobAsFailed.
LEMMA MarkedAsFailed ==
  ASSUME Inv, NEW d \in Found, markJobAsFailed(d)
  PROVE  rows' \in [JobIds -> Row]
         /\ \A j \in JobIds : rows'[j] = rows[j] \/ rows'[j].state \in Terminal
<1>1. rows \in [JobIds -> Row] /\ d.id \in JobIds
  BY DEF Inv, TypeInv, TypeOK, Found
<1>2. rows' = [rows EXCEPT ![d.id] = UpdateJobCompleted(rows[d.id], "failed", "nil")]
  BY DEF markJobAsFailed
<1>3. UpdateJobCompleted(rows[d.id], "failed", "nil") \in Row
      /\ UpdateJobCompleted(rows[d.id], "failed", "nil").state \in Terminal
  BY <1>1 DEF UpdateJobCompleted, Row, JobStates, Results, Terminal
<1> QED
  BY <1>1, <1>2, <1>3

\* A turn of the poller: the row's claim becomes the runner's.
LEMMA ResumeReadyJobKeeps ==
  ASSUME Inv, NEW d \in due, resumeReadyJob(d)
  PROVE  Inv' /\ (WatchInv => WatchInv')
<1>1. /\ calls[Poller].pc = "idle" /\ due' = due \ {d} /\ Poller \in Callers
      /\ UNCHANGED <<table, defined, container, stage, found, gaveUp, bounds>>
  BY DEF resumeReadyJob, Idle, Callers
<1>2. d \in Found /\ d.id \in JobIds /\ d.row \in Row
      /\ rows \in [JobIds -> Row] /\ inMap \in [JobIds -> 0..Len(runners)]
  BY DEF Inv, TypeInv, TypeOK, Found
<1>3. /\ d.row.state \in {"suspended", "pending_retry"}
      /\ rows[d.id].state \in {d.row.state} \cup Terminal
  BY DEF Inv, RowInv
<1>4. /\ d.id \in table
      /\ \A s \in DOMAIN runners : Active(runners[s]) => runners[s].job # d.id
      /\ \A e \in due' : e.id # d.id
      /\ \A e \in found : Claimed(e) => e.id # d.id
      /\ \A b \in Callers : ~Inserting(b, d.id)
  BY <1>1 DEF Inv, ClaimInv
<1>5. ASSUME UNCHANGED <<runners, inMap, calls>>, rows' = rows \/ markJobAsFailed(d)
      PROVE  Inv' /\ (WatchInv => WatchInv')
  <2>1. rows' \in [JobIds -> Row]
        /\ \A j \in JobIds : rows'[j] = rows[j] \/ rows'[j].state \in Terminal
    BY <1>2, <1>5, MarkedAsFailed
  <2> QED
    BY <1>1, <1>5, <2>1, Dropped
<1>6. ASSUME NEW op \in {"wake", "retry"}, MakeRunner(Poller, op, d.id, d.row), UNCHANGED rows,
             op = "wake" <=> d.row.state = "suspended"
      PROVE  Inv' /\ (WatchInv => WatchInv')
  <2>1. /\ rows[d.id].state = "suspended" => op = "wake"
        /\ rows[d.id].state = "pending_retry" => op = "retry"
    BY <1>3, <1>6 DEF Terminal
  <2> QED
    BY <1>1, <1>2, <1>4, <1>6, <2>1, Made
<1>7. CASE inMap[d.id] # 0
  BY <1>5, <1>7 DEF resumeReadyJob
<1>8. CASE inMap[d.id] = 0 /\ d.row.state = "suspended"
  <2>1. WakeJob(Poller, d) /\ UNCHANGED rows
    BY <1>8 DEF resumeReadyJob
  <2> QED
    BY <1>5, <1>6, <1>8, <2>1 DEF WakeJob
<1>9. CASE inMap[d.id] = 0 /\ d.row.state = "pending_retry"
  <2>1. MakeOrFail(Poller, "retry", d)
    BY <1>9 DEF resumeReadyJob
  <2> QED
    BY <1>5, <1>6, <1>9, <2>1 DEF MakeOrFail
<1> QED
  BY <1>3, <1>7, <1>8, <1>9

\* A turn of recovery: the row's claim becomes the runner's.
LEMMA RecoverJobKeeps ==
  ASSUME Inv, NEW d \in found, recoverJob(d)
  PROVE  Inv' /\ (WatchInv => WatchInv')
<1>1. /\ calls[Recovery].pc = "idle" /\ found' = found \ {d} /\ Recovery \in Callers
      /\ UNCHANGED <<table, defined, container, stage, due, gaveUp, bounds>>
  BY DEF recoverJob, Idle, Callers
<1>2. d \in Found /\ d.id \in JobIds /\ d.row \in Row /\ rows \in [JobIds -> Row]
  BY DEF Inv, TypeInv, TypeOK, Found
<1>3. ASSUME UNCHANGED <<runners, inMap, calls>>, rows' = rows \/ markJobAsFailed(d)
      PROVE  Inv' /\ (WatchInv => WatchInv')
  <2>1. rows' \in [JobIds -> Row]
        /\ \A j \in JobIds : rows'[j] = rows[j] \/ rows'[j].state \in Terminal
    BY <1>2, <1>3, MarkedAsFailed
  <2> QED
    BY <1>1, <1>3, <2>1, Dropped
<1>4. ASSUME NEW op \in {"start", "wake"}, MakeRunner(Recovery, op, d.id, d.row), UNCHANGED rows,
             d.row.state \in {"pending", "running"}
      PROVE  Inv' /\ (WatchInv => WatchInv')
  <2>1. Claimed(d) /\ rows[d.id].state \notin {"suspended", "pending_retry"}
    BY <1>4 DEF Claimed, Inv, RowInv, Terminal
  <2>2. /\ d.id \in table
        /\ \A s \in DOMAIN runners : Active(runners[s]) => runners[s].job # d.id
        /\ \A e \in due : e.id # d.id
        /\ \A e \in found' : e.id # d.id
        /\ \A b \in Callers : ~Inserting(b, d.id)
    BY <1>1, <2>1 DEF Inv, ClaimInv
  <2> QED
    BY <1>1, <1>2, <1>4, <2>1, <2>2, Made
<1>5. CASE d.row.state = "running"
  <2>1. recoverRunningJob(d)
    BY <1>5 DEF recoverJob
  <2>2. CASE d.row.checkpointPath
    <3>1. WakeJob(Recovery, d) /\ UNCHANGED rows
      BY <2>1, <2>2 DEF recoverRunningJob
    <3> QED
      BY <1>3, <1>4, <1>5, <3>1 DEF WakeJob
  <2>3. CASE ~d.row.checkpointPath /\ (~defined \/ ~ShouldRetry(d.row, MaxRetries))
    <3>1. markJobAsFailed(d) /\ UNCHANGED <<runners, inMap, calls>>
      BY <2>1, <2>3 DEF recoverRunningJob
    <3> QED
      BY <1>3, <3>1
  <2>4. CASE ~d.row.checkpointPath /\ defined /\ ShouldRetry(d.row, MaxRetries)
    <3>1. MakeOrFail(Recovery, "start", d)
      BY <2>1, <2>4 DEF recoverRunningJob
    <3> QED
      BY <1>3, <1>4, <1>5, <3>1 DEF MakeOrFail
  <2> QED
    BY <2>2, <2>3, <2>4
<1>6. CASE d.row.state = "pending"
  <2>1. MakeOrFail(Recovery, "start", d)
    BY <1>6 DEF recoverJob
  <2> QED
    BY <1>3, <1>4, <1>6, <2>1 DEF MakeOrFail
<1>7. CASE d.row.state \notin {"running", "pending"}
  <2>1. UNCHANGED <<rows, runners, inMap, calls>>
    BY <1>7 DEF recoverJob
  <2> QED
    BY <1>3, <2>1
<1> QED
  BY <1>5, <1>6, <1>7

-----------------------------------------------------------------------------
(***************************************************************************)
(* Rows are inserted and read.                                             *)
(***************************************************************************)
\* The first half of Spawn: the job is new, so it has no claim.
LEMMA SpawnKeeps ==
  ASSUME Inv, NEW c \in Clients, NEW j \in JobIds, Spawn(c, j)
  PROVE  Inv' /\ (WatchInv => WatchInv')
<1> DEFINE call == [AtRest EXCEPT !.pc = "inserted", !.op = "start", !.job = j]
<1>1. /\ calls[c].pc = "idle" /\ j \notin table /\ table' = table \cup {j}
      /\ rows' = [rows EXCEPT ![j] = InsertJob] /\ calls' = [calls EXCEPT ![c] = call]
      /\ UNCHANGED <<defined, container, reads, runners, inMap, gaveUp, bounds>>
  BY DEF Spawn, Idle
<1>2. TypeOK /\ runners \in Seq(Runner) /\ calls \in [Callers -> Call] /\ c \in Callers
      /\ c # Poller /\ table \subseteq JobIds
  BY HypervisorAssumption DEF Inv, TypeInv, TypeOK, Callers
<1>3. InsertJob \in Row /\ InsertJob.state = "pending"
  BY DEF InsertJob, Row, JobStates, Results
<1>4. call \in Call /\ call.pc = "inserted" /\ call.op = "start" /\ call.job = j
  BY DEF AtRest, Call, JobStates
<1> HIDE DEF call
<1>5. /\ calls' \in [Callers -> Call] /\ calls'[c] = call
      /\ \A b \in Callers : b # c => calls'[b] = calls[b]
      /\ rows' \in [JobIds -> Row] /\ rows'[j] = InsertJob
      /\ \A i \in JobIds : i # j => rows'[i] = rows[i]
  BY <1>1, <1>2, <1>3, <1>4 DEF TypeOK
<1>6. TypeInv'
  <2>1. TypeOK'
    BY <1>1, <1>2, <1>5 DEF TypeOK, reads, bounds
  <2>2. CallShape(c)'
    BY <1>4, <1>5 DEF CallShape
  <2>3. SameWork /\ runners' = runners
    BY <1>1, <1>2 DEF SameWork
  <2> QED
    BY <1>1, <1>2, <1>5, <2>1, <2>2, <2>3, AsideTypes DEF Inv
<1>7. \A b \in Callers, i \in JobIds :
        Inserting(b, i)' => (b = c /\ i = j) \/ (b # c /\ Inserting(b, i))
  BY <1>4, <1>5 DEF Inserting
<1>8. /\ \A r \in DOMAIN runners : runners[r].job \in JobIds
      /\ \A r \in DOMAIN runners : Active(runners[r]) => runners[r].job # j
      /\ \A d \in due : d.id \in JobIds /\ d.id # j
      /\ \A d \in found : d.id \in JobIds /\ (Claimed(d) => d.id # j)
      /\ \A b \in Callers : ~Inserting(b, j)
      /\ \A b \in Callers : calls'[b].pc = "inserted" /\ b # c =>
           calls'[b] = calls[b] /\ calls[b].job \in JobIds /\ calls[b].job # j
  BY <1>1, <1>2, <1>5 DEF Inv, ClaimInv, TypeInv, TypeOK, Runner, Found, Inserting, CallShape
<1>9. ClaimInv'
  <2>1. ClaimInv /\ UNCHANGED <<runners, due, found>>
    BY <1>1 DEF Inv, reads
  <2>2. \A b, e \in Callers : calls'[b].pc = "inserted" /\ calls'[e].pc = "inserted"
                              /\ calls'[e].job = calls'[b].job => b = e
    BY <1>4, <1>5, <1>8, <2>1 DEF ClaimInv, Inserting
  <2>3. \A r \in DOMAIN runners : Active(runners[r]) =>
          \A b \in Callers : ~(calls'[b].pc = "inserted" /\ calls'[b].job = runners[r].job)
    BY <1>4, <1>5, <1>8, <2>1 DEF ClaimInv, Inserting
  <2>4. \A d \in due : \A b \in Callers : ~(calls'[b].pc = "inserted" /\ calls'[b].job = d.id)
    BY <1>4, <1>5, <1>8, <2>1 DEF ClaimInv, Inserting
  <2>5. \A d \in found : Claimed(d) =>
          \A b \in Callers : ~(calls'[b].pc = "inserted" /\ calls'[b].job = d.id)
    BY <1>4, <1>5, <1>8, <2>1 DEF ClaimInv, Inserting
  <2>6. \A b \in Callers : calls'[b].pc = "inserted" => calls'[b].job \in table'
    BY <1>1, <1>4, <1>5, <1>8, <2>1 DEF ClaimInv
  <2> QED
    BY <1>1, <2>1, <2>2, <2>3, <2>4, <2>5, <2>6 DEF ClaimInv, Inserting
<1>10. WakeInv'
  <2>1. \A b \in Callers : calls'[b].pc = "sent" => b # c /\ calls'[b] = calls[b]
    BY <1>4, <1>5
  <2> QED
    BY <1>1, <2>1 DEF Inv, WakeInv
<1>11. RowInv'
  <2>1. RowInv /\ UNCHANGED <<runners, due, found>>
    BY <1>1 DEF Inv, reads
  <2>2. calls'[Poller] = calls[Poller]
    BY <1>2, <1>5 DEF Callers
  <2>3. \A r \in DOMAIN runners : RowFits(r)'
    BY <1>5, <1>8, <2>1, <2>2 DEF RowInv, RowFits, PolledFor
  <2>4. \A d \in found : Claimed(d) => rows'[d.id].state \in {d.row.state} \cup Terminal
    BY <1>5, <1>8, <2>1 DEF RowInv
  <2>5. \A d \in due : d.row.state \in {"suspended", "pending_retry"}
                       /\ rows'[d.id].state \in {d.row.state} \cup Terminal
    BY <1>5, <1>8, <2>1 DEF RowInv
  <2>6. \A b \in Callers : calls'[b].pc = "inserted" =>
          rows'[calls'[b].job].state \in {"pending"} \cup Terminal
    BY <1>3, <1>4, <1>5, <1>8, <2>1 DEF RowInv
  <2> QED
    BY <2>1, <2>3, <2>4, <2>5, <2>6 DEF RowInv, RowFits
<1>12. StoppedInv'
  BY <1>1, <1>2, <1>3, <1>5 DEF Inv, StoppedInv, SuspendedIsStopped
<1> QED
  BY <1>1, <1>6, <1>9, <1>10, <1>11, <1>12 DEF Inv, WatchInv

\* A round of the poller: a parked row has no claim, for the poller is idle.
LEMMA RoundKeeps ==
  ASSUME Inv, Round
  PROVE  Inv' /\ (WatchInv => WatchInv')
<1>1. PICK S \in SUBSET {j \in table : Parked(rows[j])} :
        due' = {[id |-> j, row |-> rows[j]] : j \in S}
  BY DEF Round
<1>2. /\ calls[Poller].pc = "idle" /\ due = {}
      /\ UNCHANGED <<db, container, stage, found, runners, inMap, calls, gaveUp, bounds>>
  BY DEF Round, Idle
<1>3. \A d \in due' : /\ d.id \in table /\ d.id \in JobIds /\ d.row = rows[d.id]
                      /\ d.row.state \in {"suspended", "pending_retry"} /\ d \in Found
                      /\ \A e \in due' : d.id = e.id => d = e
  <2>1. S \subseteq table /\ \A j \in S : rows[j].state \in {"suspended", "pending_retry"}
    BY DEF Parked
  <2>2. table \subseteq JobIds /\ rows \in [JobIds -> Row]
    BY DEF Inv, TypeInv, TypeOK
  <2> QED
    BY <1>1, <2>1, <2>2 DEF Found
<1>4. TypeInv'
  <2>1. TypeOK'
    BY <1>2, <1>3 DEF Inv, TypeInv, TypeOK, db, bounds
  <2> QED
    BY <1>2, <2>1, Still
<1>5. ASSUME NEW d \in due'
      PROVE  /\ \A r \in DOMAIN runners : Active(runners[r]) => runners[r].job # d.id
             /\ \A e \in found : Claimed(e) => e.id # d.id
             /\ \A c \in Callers : ~Inserting(c, d.id)
  <2>1. \A r \in DOMAIN runners : Active(runners[r]) => runners[r].job # d.id
    BY <1>2, <1>3 DEF Inv, RowInv, PolledFor
  <2>2. \A e \in found : Claimed(e) => e.id # d.id
    BY <1>3 DEF Inv, RowInv, Claimed, Terminal
  <2>3. \A c \in Callers : ~Inserting(c, d.id)
    BY <1>3 DEF Inv, RowInv, Inserting, Terminal
  <2> QED
    BY <2>1, <2>2, <2>3
<1>6. ClaimInv'
  BY <1>2, <1>3, <1>5 DEF Inv, ClaimInv, Inserting, db
<1>7. WakeInv' /\ StoppedInv'
  BY <1>2 DEF Inv, WakeInv, StoppedInv, SuspendedIsStopped, db
<1>8. RowInv'
  BY <1>2, <1>3 DEF Inv, RowInv, PolledFor, db
<1> QED
  BY <1>2, <1>4, <1>6, <1>7, <1>8 DEF Inv, WatchInv

\* Before RecoverState has read the rows nobody does anything.
FreshInv ==
  stage = "starting" =>
    runners = <<>> /\ due = {} /\ found = {} /\ \A c \in Callers : calls[c] = AtRest

\* Recovery reads the rows: nothing in memory is a claim.
LEMMA ReadRowsKeeps ==
  ASSUME Inv, FreshInv, ReadRows
  PROVE  Inv' /\ (WatchInv => WatchInv')
<1>1. /\ found' = {[id |-> j, row |-> rows[j]] : j \in {i \in table : rows[i].state \notin Terminal}}
      /\ UNCHANGED <<db, container, due, runners, inMap, calls, gaveUp, bounds>>
      /\ stage' = "recovering"
  BY DEF ReadRows
<1>2. runners = <<>> /\ due = {} /\ \A c \in Callers : calls[c] = AtRest
  BY DEF FreshInv, ReadRows
<1>3. \A d \in found' : /\ d.id \in table /\ d.id \in JobIds /\ d.row = rows[d.id] /\ d \in Found
                        /\ \A e \in found' : d.id = e.id => d = e
  <2>1. table \subseteq JobIds /\ rows \in [JobIds -> Row]
    BY DEF Inv, TypeInv, TypeOK
  <2> QED
    BY <1>1, <2>1 DEF Found
<1>4. TypeInv'
  <2>1. TypeOK'
    BY <1>1, <1>3 DEF Inv, TypeInv, TypeOK, db, bounds
  <2> QED
    BY <1>1, <2>1, Still
<1>5. DOMAIN runners = {} /\ \A c \in Callers : calls[c].pc = "idle"
  BY <1>2 DEF AtRest
<1>6. ClaimInv'
  BY <1>1, <1>2, <1>3, <1>5 DEF ClaimInv, Inserting, db
<1>7. WakeInv' /\ StoppedInv'
  BY <1>1 DEF Inv, WakeInv, StoppedInv, SuspendedIsStopped, db
<1>8. RowInv'
  BY <1>1, <1>2, <1>3, <1>5 DEF RowInv, db
<1> QED
  BY <1>1, <1>4, <1>6, <1>7, <1>8 DEF Inv, WatchInv

-----------------------------------------------------------------------------
(***************************************************************************)
(* The hypervisor starts, for the first time or after a crash.             *)
(***************************************************************************)
\* With nothing in memory the invariant holds.
LEMMA Started ==
  ASSUME TypeOK, runners = <<>>, due = {}, found = {}, SuspendedIsStopped,
         calls = [c \in Callers |-> AtRest]
  PROVE  Inv
<1>1. DOMAIN runners = {} /\ runners \in Seq(Runner)
  OBVIOUS
<1>2. \A c \in Callers : calls[c] = AtRest
  OBVIOUS
<1>3. AtRest.pc = "idle" /\ AtRest.op = "none"
  BY DEF AtRest
<1>4. TypeInv
  BY <1>1, <1>2, <1>3 DEF TypeInv, CallShape
<1>5. ClaimInv /\ WakeInv /\ RowInv /\ StoppedInv
  BY <1>1, <1>2, <1>3 DEF ClaimInv, WakeInv, RowInv, StoppedInv, Inserting
<1> QED
  BY <1>4, <1>5 DEF Inv

\* A crash, which leaves nothing in memory.
LEMMA CrashKeeps ==
  ASSUME Inv, Crash
  PROVE  Inv' /\ (WatchInv => WatchInv')
<1>1. /\ runners' = <<>> /\ due' = {} /\ found' = {} /\ stage' = "starting" /\ gaveUp' = {}
      /\ inMap' = [j \in JobIds |-> 0] /\ calls' = [c \in Callers |-> AtRest]
      /\ UNCHANGED <<db, container, made>>
      /\ crashes' = IF crashes < MaxCrashes THEN crashes + 1 ELSE crashes
  BY DEF Crash
<1>2. AtRest \in Call
  BY DEF AtRest, Call, JobStates
<1>3. TypeOK'
  <2>1. crashes' \in 0..MaxCrashes
    BY <1>1, HypervisorAssumption DEF Inv, TypeInv, TypeOK
  <2>2. Len(runners') = 0 /\ DOMAIN runners' = {}
    BY <1>1
  <2>3. inMap' \in [JobIds -> 0..Len(runners')] /\ calls' \in [Callers -> Call]
    BY <1>1, <1>2, <2>2
  <2> QED
    BY <1>1, <2>1, <2>2, <2>3 DEF Inv, TypeInv, TypeOK, db
<1>4. SuspendedIsStopped'
  BY <1>1 DEF Inv, StoppedInv, SuspendedIsStopped, db
<1>5. (TypeOK /\ runners = <<>> /\ due = {} /\ found = {} /\ SuspendedIsStopped
       /\ calls = [c \in Callers |-> AtRest])'
  BY <1>1, <1>3, <1>4
<1>6. (TypeOK /\ runners = <<>> /\ due = {} /\ found = {} /\ SuspendedIsStopped
       /\ calls = [c \in Callers |-> AtRest] => Inv)'
  BY Started, PTL
<1>7. WatchInv'
  BY <1>1 DEF WatchInv
<1> QED
  BY <1>5, <1>6, <1>7

\* The first start.
LEMMA InvInit == Init => Inv
<1> SUFFICES ASSUME Init PROVE Inv
  OBVIOUS
<1>1. AtRest \in Call /\ InsertJob \in Row
  BY DEF AtRest, Call, JobStates, InsertJob, Row, Results
<1>2. TypeOK
  BY <1>1, HypervisorAssumption DEF Init, TypeOK
<1>3. SuspendedIsStopped
  BY DEF Init, SuspendedIsStopped
<1> QED
  BY <1>2, <1>3, Started DEF Init

-----------------------------------------------------------------------------
(***************************************************************************)
(* What waits for the container.                                           *)
(***************************************************************************)
\* The runner after an operation of a handler.
LEMMA Stepped ==
  ASSUME Inv, WatchInv, NEW r \in DOMAIN runners, Step(r)
  PROVE  \E q \in Runner :
           /\ Advance(r, q) /\ q.job = runners[r].job
           /\ q.watched => q.state \notin {"pending", "suspended"}
<1> DEFINE p == runners[r]
<1>0. ASSUME NEW q \in Runner, Advance(r, q), q.job = p.job,
             q.watched => q.state \notin {"pending", "suspended"}
      PROVE  \E z \in Runner :
               /\ Advance(r, z) /\ z.job = runners[r].job
               /\ z.watched => z.state \notin {"pending", "suspended"}
  BY <1>0
<1>1. /\ p \in Runner /\ p.todo \in Plans
      /\ p.watched => p.state \notin {"pending", "suspended"}
  BY Underway DEF Step, WatchInv, Watching
<1>2. Tail(p.todo) \in Seq(Ops) /\ <<"saveCompleted">> \in Seq(Ops) /\ <<>> \in Seq(Ops)
  <2>1. p.todo \in Seq(Ops) /\ p.todo # <<>>
    BY <1>1, PlanSteps
  <2>2. Tail(p.todo) \in Seq(Ops) /\ <<>> \in Seq(Ops)
    BY <2>1
  <2>3. <<"saveCompleted">> \in Plans
    BY Zenon DEF Plans
  <2> QED
    BY <2>2, <2>3, PlanSteps
<1>3. CASE Create(r, p) \/ Restore(r, p)
  <2>1. PICK q \in {Begins(p), [Begins(p) EXCEPT !.resumeAt = FALSE], Fails(p)} : Advance(r, q)
    BY <1>3 DEF Create, Restore
  <2> HIDE DEF p
  <2>2. q \in Runner /\ q.job = p.job /\ q.state \in {"running", "failed"}
    <3>1. Begins(p) \in Runner /\ Begins(p).job = p.job /\ Begins(p).state = "running"
      BY <1>1, <1>2 DEF Begins, Runner, JobStates
    <3>2. [Begins(p) EXCEPT !.resumeAt = FALSE] \in Runner
          /\ [Begins(p) EXCEPT !.resumeAt = FALSE].job = p.job
          /\ [Begins(p) EXCEPT !.resumeAt = FALSE].state = "running"
      BY <3>1 DEF Runner
    <3>3. (IF p.todo = <<"restore", "saveStarted">> THEN <<>> ELSE <<"saveCompleted">>) \in Seq(Ops)
      BY <1>2
    <3>4. Fails(p) \in Runner /\ Fails(p).job = p.job /\ Fails(p).state = "failed"
      BY <1>1, <3>3 DEF Fails, Runner, JobStates
    <3> QED
      BY <3>1, <3>2, <3>4
  <2> QED
    BY <1>0, <2>1, <2>2
<1>4. CASE Checkpoint(r, p)
  <2>1. CASE container[p.job] # "running"
    <3> DEFINE q == [p EXCEPT !.ok = FALSE, !.resumeAt = FALSE, !.todo = <<>>]
    <3>1. Advance(r, q)
      BY <1>4, <2>1 DEF Checkpoint
    <3> HIDE DEF p
    <3>2. q \in Runner /\ q.job = p.job /\ q.state = p.state /\ q.watched = p.watched
      BY <1>1, <1>2 DEF Runner
    <3> HIDE DEF q
    <3> QED
      BY <1>0, <1>1, <3>1, <3>2
  <2>2. CASE container[p.job] = "running"
    <3> DEFINE suspends == Head(p.todo) = "suspend"
               token == calls[p.from].token
               q == [p EXCEPT !.tokens = @ \cup {token}, !.checkpoint = TRUE,
                              !.state = IF suspends THEN "suspended" ELSE @,
                              !.resumeAt = @ \/ suspends, !.watched = @ /\ ~suspends,
                              !.todo = Tail(@)]
    <3>1. Advance(r, q)
      BY <1>4, <2>2 DEF Checkpoint
    <3>2. token \in Tokens
      <4>1. p.todo \in {<<"suspend", "saveCheckpointed">>, <<"snapshot", "saveCheckpointed">>}
        <5>1. Head(p.todo) \in {"suspend", "snapshot"}
          BY <1>4 DEF Checkpoint
        <5> HIDE DEF p
        <5> QED
          BY <1>1, <5>1, PlanSteps
      <4>2. RunnerShape(r) /\ Shape(p)
        BY DEF Inv, TypeInv, RunnerShape
      <4>3. p.from # None /\ calls[p.from].op \in {"suspend", "snapshot"}
        BY <4>1, <4>2 DEF RunnerShape, Shape
      <4>4. p.from \in Callers
        <5> HIDE DEF p
        <5> QED
          BY <1>1, <4>3 DEF Runner
      <4> QED
        BY <4>3, <4>4 DEF Inv, TypeInv, CallShape
    <3>3. suspends \in BOOLEAN
      OBVIOUS
    <3> HIDE DEF suspends, token, p
    <3>4. q \in Runner /\ q.job = p.job /\ q.state = (IF suspends THEN "suspended" ELSE p.state)
          /\ q.watched = (p.watched /\ ~suspends)
      <4> DEFINE state == IF suspends THEN "suspended" ELSE p.state
                 until == p.resumeAt \/ suspends
                 watched == p.watched /\ ~suspends
                 with == p.tokens \cup {token}
                 todo == Tail(p.todo)
      <4>1. q = [p EXCEPT !.tokens = with, !.checkpoint = TRUE, !.state = state,
                          !.resumeAt = until, !.watched = watched, !.todo = todo]
        OBVIOUS
      <4>2. state \in JobStates /\ with \in SUBSET Tokens
        BY <1>1, <3>2 DEF Runner, JobStates
      <4>3. until \in BOOLEAN /\ watched \in BOOLEAN
        OBVIOUS
      <4>4. todo \in Seq(Ops)
        BY <1>2
      <4> HIDE DEF state, until, watched, with, todo, q
      <4>5. q \in Runner /\ q.job = p.job /\ q.state = state /\ q.watched = watched
        BY <1>1, <4>1, <4>2, <4>3, <4>4 DEF Runner
      <4> QED
        BY <4>5 DEF state, watched
    <3> HIDE DEF q
    <3> QED
      BY <1>0, <1>1, <3>1, <3>4
  <2> QED
    BY <2>1, <2>2
<1>5. CASE Stop(r, p) \/ Remove(r, p) \/ Save(r, p)
  <2>1. PICK q \in {[p EXCEPT !.ok = FALSE, !.todo = <<>>],
                    [p EXCEPT !.state = "failed", !.todo = Tail(@)],
                    [p EXCEPT !.todo = Tail(@)]} : Advance(r, q)
    BY <1>5 DEF Stop, Remove, Save
  <2> HIDE DEF p
  <2>2. q \in Runner /\ q.job = p.job /\ q.watched = p.watched /\ q.state \in {p.state, "failed"}
    BY <1>1, <1>2 DEF Runner, JobStates
  <2> QED
    BY <1>0, <1>1, <2>1, <2>2
<1> QED
  BY <1>3, <1>4, <1>5 DEF Step

\* An operation of a handler,
LEMMA StepWatches ==
  ASSUME Inv, WatchInv, NEW r \in DOMAIN runners, Step(r)
  PROVE  WatchInv'
<1>1. PICK q \in Runner : Advance(r, q) /\ (q.watched => q.state \notin {"pending", "suspended"})
  BY Stepped
<1> QED
  BY <1>1, AdvanceWatches

\* The runner that takes a command; a job that has failed is retried, or goes no further.
LEMMA Took ==
  ASSUME Inv, WatchInv, NEW c \in Callers, Take(c)
  PROVE  LET r == calls[c].runner
             p == runners[r] IN
         /\ r \in DOMAIN runners /\ p.loop = "on" /\ p.todo = <<>>
         /\ \E q \in Runner :
              /\ Advance(r, q) /\ q.job = p.job /\ q.loop = "on"
              /\ q.watched => q.state \notin {"pending", "suspended"}
              /\ p.state = "failed" => q.state = "failed" /\ q.todo # <<"saveCompleted">>
<1> DEFINE r == calls[c].runner
           p == runners[r]
<1>1. calls[c].pc = "sent" /\ Ready(r) /\ p.todo = <<>> /\ p.loop = "on"
  BY DEF Take, Ready
<1>2. r \in DOMAIN runners /\ p \in Runner
  BY <1>1, Taking
<1>3. p.watched => p.state = "running"
  BY <1>1, <1>2 DEF WatchInv, Watching
<1>4. PICK h \in Handled(calls[c], p) : Advance(r, [h EXCEPT !.from = c])
  BY DEF Take
<1>5. calls[c].op \in {"start", "wake", "retry", "suspend", "snapshot", "kill", "exit"}
  BY <1>1 DEF Inv, TypeInv, TypeOK, CallShape, Call
<1>6. /\ h \in Runner /\ h.job = p.job /\ h.loop = "on" /\ h.watched = p.watched
      /\ p.watched => h.state \notin {"pending", "suspended"}
      /\ p.state = "failed" => h.state = "failed" /\ h.todo # <<"saveCompleted">>
  <2> HIDE DEF p
  <2>1. {<<"create", "saveStarted">>, <<"saveRunning", "restore">>,
         <<"saveCount", "create", "saveStarted">>, <<"saveCount", "restore", "saveStarted">>,
         <<"suspend", "saveCheckpointed">>, <<"snapshot", "saveCheckpointed">>,
         <<"stop", "saveCompleted">>, <<"saveCompleted">>} \subseteq Plans
    BY Zenon DEF Plans
  <2>2. \A t \in Plans : t \in Seq(Ops)
    BY PlanSteps
  <2>9. /\ Refused(p) \in Runner /\ Refused(p).job = p.job /\ Refused(p).loop = "on"
        /\ Refused(p).watched = p.watched /\ Refused(p).state = p.state
        /\ Refused(p).todo # <<"saveCompleted">> /\ p.todo # <<"saveCompleted">>
    <3>1. p.todo # <<"saveCompleted">>
      BY <1>1
    <3> QED
      BY <1>1, <1>2, <3>1 DEF Refused, Runner
  <2>3. CASE calls[c].op = "start"
    <3>1. \/ h = Refused(p)
          \/ p.state = "pending" /\ h = [p EXCEPT !.todo = <<"create", "saveStarted">>]
      BY <1>4, <2>3 DEF Handled, HandleStart
    <3>2. <<"create", "saveStarted">> \in Seq(Ops)
      BY <2>1, <2>2
    <3>3. CASE h = Refused(p)
      BY <1>3, <2>9, <3>3
    <3>4. CASE p.state = "pending" /\ h = [p EXCEPT !.todo = <<"create", "saveStarted">>]
      BY <1>1, <1>2, <1>3, <3>2, <3>4 DEF Runner
    <3> QED
      BY <3>1, <3>3, <3>4
  <2>4. CASE calls[c].op = "wake"
    <3>1. \/ h = Refused(p)
          \/ /\ p.state = "suspended"
             /\ h = [p EXCEPT !.state = "running", !.resumeAt = FALSE,
                              !.todo = <<"saveRunning", "restore">>]
      BY <1>4, <2>4 DEF Handled, HandleWake
    <3>2. <<"saveRunning", "restore">> \in Seq(Ops)
      BY <2>1, <2>2
    <3>3. CASE h = Refused(p)
      BY <1>3, <2>9, <3>3
    <3>4. CASE p.state = "suspended" /\ h # Refused(p)
      <4>1. h = [p EXCEPT !.state = "running", !.resumeAt = FALSE,
                          !.todo = <<"saveRunning", "restore">>]
        BY <3>1, <3>4
      <4>2. h \in Runner /\ h.job = p.job /\ h.loop = p.loop /\ h.watched = p.watched
            /\ h.state = "running"
        BY <1>2, <3>2, <4>1 DEF Runner, JobStates
      <4> QED
        BY <1>1, <3>4, <4>2
    <3> QED
      BY <3>1, <3>3, <3>4
  <2>5. CASE calls[c].op = "retry"
    <3> DEFINE plan == <<"saveCount", IF p.checkpoint THEN "restore" ELSE "create", "saveStarted">>
    <3>1. h = Refused(p) \/ h = [p EXCEPT !.retries = @ + 1, !.result = "nil", !.todo = plan]
      BY <1>4, <2>5 DEF Handled, HandleRetry
    <3>2. plan \in Seq(Ops) /\ plan # <<"saveCompleted">>
      <4>1. plan \in {<<"saveCount", "create", "saveStarted">>,
                      <<"saveCount", "restore", "saveStarted">>}
        OBVIOUS
      <4>3. plan # <<"saveCompleted">>
        OBVIOUS
      <4> HIDE DEF plan
      <4>2. plan \in Plans
        BY <2>1, <4>1, Zenon
      <4> QED
        BY <2>2, <4>2, <4>3
    <3> HIDE DEF plan
    <3>3. p.retries + 1 \in Nat /\ "nil" \in Results
      BY <1>2 DEF Runner, Results
    <3>4. CASE h = Refused(p)
      BY <1>3, <2>9, <3>4
    <3>5. CASE h = [p EXCEPT !.retries = @ + 1, !.result = "nil", !.todo = plan]
      <4>1. /\ h \in Runner /\ h.job = p.job /\ h.loop = p.loop /\ h.watched = p.watched
            /\ h.state = p.state /\ h.todo = plan
        BY <1>2, <3>2, <3>3, <3>5 DEF Runner
      <4> QED
        BY <1>1, <1>3, <3>2, <4>1
    <3> QED
      BY <3>1, <3>4, <3>5
  <2>6. CASE calls[c].op \in {"suspend", "snapshot"}
    <3> DEFINE plan == <<calls[c].op, "saveCheckpointed">>
    <3>1. h = p \/ h = Refused(p) \/ (p.state = "running" /\ h = [p EXCEPT !.todo = plan])
      BY <1>4, <2>6 DEF Handled, HandleCheckpoint
    <3>2. plan \in Seq(Ops)
      BY <2>1, <2>2, <2>6
    <3> HIDE DEF plan
    <3>3. CASE h = p \/ h = Refused(p)
      BY <1>1, <1>2, <1>3, <2>9, <3>3
    <3>4. CASE p.state = "running" /\ h = [p EXCEPT !.todo = plan]
      <4>1. /\ h \in Runner /\ h.job = p.job /\ h.loop = p.loop /\ h.watched = p.watched
            /\ h.state = p.state
        BY <1>2, <3>2, <3>4 DEF Runner
      <4> QED
        BY <1>1, <3>4, <4>1
    <3> QED
      BY <3>1, <3>3, <3>4
  <2>7. CASE calls[c].op = "kill"
    <3>1. \/ h = Refused(p)
          \/ /\ p.state \in {"running", "suspended"}
             /\ \/ h = [p EXCEPT !.todo = <<"stop", "saveCompleted">>]
                \/ h = [p EXCEPT !.state = "failed", !.todo = <<"saveCompleted">>]
      BY <1>4, <2>7 DEF Handled, HandleKill
    <3>2. <<"stop", "saveCompleted">> \in Seq(Ops) /\ <<"saveCompleted">> \in Seq(Ops)
      BY <2>1, <2>2
    <3>3. CASE h = Refused(p)
      BY <1>3, <2>9, <3>3
    <3>4. CASE p.state \in {"running", "suspended"} /\ h # Refused(p)
      <4>1. \/ h = [p EXCEPT !.todo = <<"stop", "saveCompleted">>]
            \/ h = [p EXCEPT !.state = "failed", !.todo = <<"saveCompleted">>]
        BY <3>1, <3>4
      <4>2. /\ h \in Runner /\ h.job = p.job /\ h.loop = p.loop /\ h.watched = p.watched
            /\ h.state \in {p.state, "failed"}
        <5>1. CASE h = [p EXCEPT !.todo = <<"stop", "saveCompleted">>]
          BY <1>2, <3>2, <5>1 DEF Runner
        <5>2. CASE h = [p EXCEPT !.state = "failed", !.todo = <<"saveCompleted">>]
          BY <1>2, <3>2, <5>2 DEF Runner, JobStates
        <5> QED
          BY <4>1, <5>1, <5>2
      <4> QED
        BY <1>1, <1>3, <3>4, <4>2
    <3> QED
      BY <3>1, <3>3, <3>4
  <2>8. CASE calls[c].op = "exit"
    <3>1. PICK code \in {"zero", "nonzero"} : h = HandleExit(p, code)
      BY <1>4, <2>8 DEF Handled
    <3> DEFINE end == IF code = "zero" THEN "completed" ELSE "failed"
    <3>2. \/ h = Refused(p)
          \/ /\ p.state = "running"
             /\ h = [p EXCEPT !.state = end, !.result = code, !.todo = <<"saveCompleted">>]
      BY <3>1 DEF HandleExit
    <3>3. <<"saveCompleted">> \in Seq(Ops)
      BY <2>1, <2>2
    <3>4. end \in {"completed", "failed"} /\ code \in Results
      BY DEF Results
    <3> HIDE DEF end
    <3>5. CASE h = Refused(p)
      BY <1>2, <1>3, <2>9, <3>5
    <3>6. CASE p.state = "running" /\ h # Refused(p)
      <4>1. h = [p EXCEPT !.state = end, !.result = code, !.todo = <<"saveCompleted">>]
        BY <3>2, <3>6
      <4>2. h \in Runner /\ h.job = p.job /\ h.loop = p.loop /\ h.watched = p.watched /\ h.state = end
        BY <1>2, <3>3, <3>4, <4>1 DEF Runner, JobStates
      <4> QED
        BY <1>1, <3>4, <3>6, <4>2
    <3> QED
      BY <3>2, <3>5, <3>6
  <2> QED
    BY <1>5, <2>3, <2>4, <2>5, <2>6, <2>7, <2>8, Zenon
<1> DEFINE q == [h EXCEPT !.from = c]
<1>7. /\ q \in Runner /\ q.job = h.job /\ q.loop = h.loop /\ q.watched = h.watched
      /\ q.state = h.state /\ q.todo = h.todo
  BY <1>6 DEF Runner
<1> HIDE DEF q
<1>8. Advance(r, q)
  BY <1>4 DEF q
<1>9. q.watched => q.state \notin {"pending", "suspended"}
  BY <1>6, <1>7
<1>10. p.state = "failed" => q.state = "failed" /\ q.todo # <<"saveCompleted">>
  BY <1>6, <1>7
<1> QED
  BY <1>1, <1>2, <1>6, <1>7, <1>8, <1>9, <1>10

\* and a command, leave a runner watching only while its job is under way.
LEMMA TakeWatches ==
  ASSUME Inv, WatchInv, NEW c \in Callers, Take(c)
  PROVE  WatchInv'
<1> DEFINE r == calls[c].runner
<1>1. r \in DOMAIN runners
  BY Took
<1>2. PICK q \in Runner : Advance(r, q) /\ (q.watched => q.state \notin {"pending", "suspended"})
  BY Took
<1> QED
  BY <1>1, <1>2, AdvanceWatches

-----------------------------------------------------------------------------
(***************************************************************************)
(* The invariant.                                                          *)
(***************************************************************************)
IInv == Inv /\ WatchInv /\ FreshInv

\* Nobody does anything before recovery.
LEMMA FreshKeeps ==
  ASSUME FreshInv, [Next]_vars
  PROVE  FreshInv'
<1> SUFFICES ASSUME stage' = "starting"
             PROVE  runners' = <<>> /\ due' = {} /\ found' = {} /\ \A c \in Callers : calls'[c] = AtRest
  BY DEF FreshInv
<1>1. CASE stage = "starting"
  <2>1. /\ runners = <<>> /\ DOMAIN runners = {} /\ due = {} /\ found = {}
        /\ \A c \in Callers : calls[c] = AtRest /\ calls[c].pc = "idle"
        /\ ~Open /\ Clients \subseteq Callers
    <3>1. runners = <<>> /\ due = {} /\ found = {} /\ \A c \in Callers : calls[c] = AtRest
      BY <1>1 DEF FreshInv
    <3>2. AtRest.pc = "idle"
      BY DEF AtRest
    <3>3. ~Open /\ Clients \subseteq Callers
      BY <1>1 DEF Open, Callers
    <3> QED
      BY <3>1, <3>2, <3>3
  <2>2. \A c \in Callers : ~Take(c) /\ ~Stopped(c) /\ ~Conclude(c)
    BY <2>1 DEF Take, Stopped, Conclude
  <2>3. \A c \in Clients : ~SpawnRunner(c) /\ ~GiveUp(c)
    BY <2>1 DEF SpawnRunner, GiveUp
  <2>4. /\ ~UnregisterJobDefinition /\ ~Round
        /\ \A c \in Clients, j \in JobIds : ~Spawn(c, j)
        /\ \A c \in Clients, j \in JobIds : \A m \in Requests : ~SendCommand(c, j, m[1], m[2])
    BY <2>1 DEF UnregisterJobDefinition, Round, Spawn, SendCommand
  <2>5. ~ReadRows
    BY DEF ReadRows
  <2>6. \/ \E j \in JobIds : ContainerEnds(j)
        \/ Crash
        \/ UNCHANGED vars
    BY <2>1, <2>2, <2>3, <2>4, <2>5 DEF Next
  <2>7. ASSUME NEW j \in JobIds, ContainerEnds(j) PROVE UNCHANGED <<runners, due, found, calls>>
    BY <2>7 DEF ContainerEnds, reads
  <2>8. CASE Crash
    BY <2>8 DEF Crash
  <2>9. CASE UNCHANGED vars
    BY <2>1, <2>9 DEF vars, reads
  <2> QED
    BY <2>1, <2>6, <2>7, <2>8, <2>9
<1>2. CASE stage # "starting"
  <2>1. CASE Crash
    BY <2>1 DEF Crash
  <2>2. CASE ~Crash
    <3>1. stage' = stage \/ stage' = "recovering"
      <4>1. \A c \in Callers : Take(c) \/ Stopped(c) \/ Conclude(c) => stage' = stage
        BY DEF Take, Stopped, Conclude, reads
      <4>2. \A r \in DOMAIN runners : Step(r) \/ Notice(r) \/ EvictDone(r) => stage' = stage
        BY DEF Step, Notice, EvictDone, reads
      <4>3. \A j \in JobIds : ContainerEnds(j) => stage' = stage
        BY DEF ContainerEnds, reads
      <4>4. \A c \in Clients : SpawnRunner(c) \/ GiveUp(c) => stage' = stage
        BY DEF SpawnRunner, GiveUp, reads
      <4>5. \A c \in Clients, j \in JobIds : Spawn(c, j) => stage' = stage
        BY DEF Spawn, reads
      <4>6. \A c \in Clients, j \in JobIds : \A m \in Requests :
              SendCommand(c, j, m[1], m[2]) => stage' = stage
        BY DEF SendCommand, reads
      <4>7. UnregisterJobDefinition \/ Round \/ UNCHANGED vars => stage' = stage
        BY DEF UnregisterJobDefinition, Round, vars, reads
      <4>8. \A d \in due : resumeReadyJob(d) => stage' = stage
        BY DEF resumeReadyJob
      <4>9. \A d \in found : recoverJob(d) => stage' = stage
        BY DEF recoverJob
      <4>10. ReadRows => stage' = "recovering"
        BY DEF ReadRows
      <4> QED
        BY <2>2, <4>1, <4>2, <4>3, <4>4, <4>5, <4>6, <4>7, <4>8, <4>9, <4>10 DEF Next
    <3> QED
      BY <1>2, <3>1
  <2> QED
    BY <2>1, <2>2
<1> QED
  BY <1>1, <1>2

\* Every step of the hypervisor keeps the invariant.
LEMMA InvNext ==
  ASSUME IInv, [Next]_vars
  PROVE  IInv'
<1>1. Inv /\ WatchInv /\ FreshInv
  BY DEF IInv
<1>2. ASSUME NEW c \in Callers, Take(c) \/ Stopped(c) \/ Conclude(c) PROVE Inv' /\ WatchInv'
  BY <1>1, <1>2, TakeKeeps, TakeWatches, StoppedKeeps, ConcludeKeeps
<1>3. ASSUME NEW r \in DOMAIN runners, Step(r) \/ Notice(r) \/ EvictDone(r) PROVE Inv' /\ WatchInv'
  BY <1>1, <1>3, StepKeeps, StepWatches, NoticeKeeps, EvictDoneKeeps
<1>4. ASSUME NEW j \in JobIds, ContainerEnds(j) PROVE Inv' /\ WatchInv'
  BY <1>1, <1>4, ContainerEndsKeeps
<1>5. ASSUME NEW c \in Clients, NEW j \in JobIds, Spawn(c, j) PROVE Inv' /\ WatchInv'
  BY <1>1, <1>5, SpawnKeeps
<1>6. ASSUME NEW c \in Clients, SpawnRunner(c) \/ GiveUp(c) PROVE Inv' /\ WatchInv'
  BY <1>1, <1>6, SpawnRunnerKeeps, GiveUpKeeps
<1>7. ASSUME NEW c \in Clients, NEW j \in JobIds, NEW m \in Requests, SendCommand(c, j, m[1], m[2])
      PROVE  Inv' /\ WatchInv'
  BY <1>1, <1>7, SendCommandKeeps
<1>8. ASSUME UnregisterJobDefinition \/ UNCHANGED vars PROVE Inv' /\ WatchInv'
  BY <1>1, <1>8, UnregisterKeeps
<1>9. ASSUME Round PROVE Inv' /\ WatchInv'
  BY <1>1, <1>9, RoundKeeps
<1>10. ASSUME NEW d \in due, resumeReadyJob(d) PROVE Inv' /\ WatchInv'
  BY <1>1, <1>10, ResumeReadyJobKeeps
<1>11. ASSUME ReadRows PROVE Inv' /\ WatchInv'
  BY <1>1, <1>11, ReadRowsKeeps
<1>12. ASSUME NEW d \in found, recoverJob(d) PROVE Inv' /\ WatchInv'
  BY <1>1, <1>12, RecoverJobKeeps
<1>13. ASSUME Crash PROVE Inv' /\ WatchInv'
  BY <1>1, <1>13, CrashKeeps
<1>14. Inv' /\ WatchInv'
  BY <1>2, <1>3, <1>4, <1>5, <1>6, <1>7, <1>8, <1>9, <1>10, <1>11, <1>12, <1>13 DEF Next
<1> QED
  BY <1>1, <1>14, FreshKeeps DEF IInv

\* The invariant holds in every state.
LEMMA InvAlways == Spec => []IInv
<1>1. Init => IInv
  BY InvInit DEF IInv, Init, WatchInv, FreshInv
<1>2. IInv /\ [Next]_vars => IInv'
  BY InvNext
<1> QED
  BY <1>1, <1>2, PTL DEF Spec

\* Every variable of the hypervisor has the values the code can give it, in every state.
THEOREM TypeCorrect == Spec => []TypeOK
<1>1. IInv => TypeOK
  BY DEF IInv, Inv, TypeInv
<1> QED
  BY <1>1, InvAlways, PTL

\* Two runners never run one job at the same time: whatever the order in which
\* checkpoints, evictions, rounds of the poller and recovery come, and however often the
\* hypervisor crashes, at most one runner of a job has its loop on and its job running.
THEOREM OneRunnerRuns == Spec => []OneRunning
<1>1. IInv => OneRunning
  <2> SUFFICES ASSUME IInv, NEW j \in JobIds, NEW r \in RunnersOf(j), NEW s \in RunnersOf(j),
                      runners[r].loop = "on", runners[r].state = "running",
                      runners[s].loop = "on", runners[s].state = "running"
               PROVE  r = s
    BY DEF OneRunning
  <2>1. r \in DOMAIN runners /\ s \in DOMAIN runners /\ runners[r].job = runners[s].job
    BY DEF RunnersOf
  <2>2. Active(runners[r]) /\ Active(runners[s])
    BY DEF Active
  <2> QED
    BY <2>1, <2>2 DEF IInv, Inv, ClaimInv
<1> QED
  BY <1>1, InvAlways, PTL

\* The container of a job whose row says suspended does not run: the suspension is
\* written after the container is gone, a wake-up is written before it is restored, and
\* nobody but the claimant of the job starts it.
THEOREM SuspendedJobsAreStopped == Spec => []SuspendedIsStopped
<1>1. IInv => SuspendedIsStopped
  BY DEF IInv, Inv, StoppedInv
<1> QED
  BY <1>1, InvAlways, PTL

-----------------------------------------------------------------------------
(***************************************************************************)
(* Final rows.                                                             *)
(***************************************************************************)
\* A step of runner r, which had its loop on: what it makes of the row of its own job.
LEMMA FinalMoves ==
  ASSUME Inv, FinalInv, NEW r \in DOMAIN runners, runners[r].loop = "on",
         NEW q \in Runner, q.job = runners[r].job, Advance(r, q),
         UNCHANGED <<table, found, due>>,
         \A j \in JobIds : j # runners[r].job => rows'[j] = rows[j],
         ~Shared(runners[r].job) =>
           /\ rows'[runners[r].job].state \in Terminal => Settled(q).loop = "done"
           /\ rows'[runners[r].job].state = "pending_retry" => Holds(Settled(q))
  PROVE  FinalInv'
<1> DEFINE k == runners[r].job
<1>1. /\ DOMAIN runners' = DOMAIN runners /\ runners'[r] = Settled(q)
      /\ \A s \in DOMAIN runners : s # r => runners'[s] = runners[s]
      /\ \A s \in DOMAIN runners : runners'[s].job = runners[s].job /\ runners[s].job \in JobIds
  <2>1. /\ DOMAIN runners' = DOMAIN runners /\ runners'[r] = Settled(q)
        /\ \A s \in DOMAIN runners : s # r => runners'[s] = runners[s]
    BY Advanced DEF Inv
  <2>2. Settled(q).job = q.job
    BY SettledFields
  <2>3. \A s \in DOMAIN runners : runners[s].job \in JobIds
    BY DEF Inv, TypeInv, TypeOK, Runner
  <2> QED
    BY <2>1, <2>2, <2>3
<1>2. \A j : RunnersOf(j)' = RunnersOf(j) /\ (Shared(j)' <=> Shared(j))
  BY <1>1 DEF RunnersOf, Shared
<1>3. \A c \in Callers : calls'[c].pc = "inserted" => calls'[c] = calls[c]
  BY Advanced DEF Inv
<1>4. \A j \in JobIds : RunnersOf(j) = {} => rows'[j] = rows[j]
  BY DEF RunnersOf
<1>5. /\ \A d \in found \cup due : d.id \in JobIds
      /\ \A c \in Callers : calls[c].pc = "inserted" => calls[c].job \in JobIds
  BY DEF Inv, TypeInv, TypeOK, Found, CallShape
<1>6. \A s \in DOMAIN runners : runners[s].job = k /\ s # r => Shared(k)
  BY DEF Shared, RunnersOf
<1>7. ASSUME NEW d \in due
      PROVE  /\ rows'[d.id].state \in Terminal => RunnersOf(d.id) # {}
             /\ d.row.state = "pending_retry" /\ ~Shared(d.id) =>
                  /\ rows'[d.id].state = "pending_retry"
                  /\ \A s \in RunnersOf(d.id) : runners'[s].loop = "done"
  <2>1. CASE d.id = k
    BY <2>1 DEF FinalInv, RunnersOf
  <2>2. CASE d.id # k
    <3>1. rows'[d.id] = rows[d.id] /\ \A s \in RunnersOf(d.id) : runners'[s] = runners[s]
      BY <1>1, <1>5, <2>2 DEF RunnersOf
    <3> QED
      BY <3>1 DEF FinalInv
  <2> QED
    BY <2>1, <2>2
<1>8. ASSUME NEW s \in DOMAIN runners, ~Shared(runners[s].job)
      PROVE  /\ rows'[runners[s].job].state \in Terminal => runners'[s].loop = "done"
             /\ rows'[runners[s].job].state = "pending_retry" => Holds(runners'[s])
  <2>1. CASE s = r
    BY <1>1, <1>8, <2>1
  <2>2. CASE s # r
    BY <1>1, <1>6, <1>8, <2>2 DEF FinalInv
  <2> QED
    BY <2>1, <2>2
<1>9. \A s \in DOMAIN runners' : runners'[s].job \in table'
  BY <1>1 DEF FinalInv
<1>10. \A d \in found' : Claimed(d) => RunnersOf(d.id)' = {} /\ rows'[d.id].state \notin Terminal
  BY <1>2, <1>4, <1>5 DEF FinalInv
<1>11. \A c \in Callers : calls'[c].pc = "inserted" =>
         RunnersOf(calls[c].job)' = {} /\ rows'[calls'[c].job].state \notin Terminal
  <2> TAKE c \in Callers
  <2> HAVE calls'[c].pc = "inserted"
  <2>1. calls'[c].job = calls[c].job /\ calls[c].pc = "inserted"
    BY <1>3
  <2>2. RunnersOf(calls[c].job) = {} /\ rows[calls[c].job].state \notin Terminal
    BY <2>1 DEF FinalInv
  <2> QED
    BY <1>1, <1>4, <1>5, <2>1, <2>2 DEF RunnersOf
<1> QED
  BY <1>1, <1>2, <1>7, <1>8, <1>9, <1>10, <1>11 DEF FinalInv, RunnersOf

\* The only runner of its job, while its loop is on.
LEMMA Alone ==
  ASSUME Inv, FinalInv, NEW r \in DOMAIN runners, runners[r].loop = "on",
         ~Shared(runners[r].job)
  PROVE  LET p == runners[r]
             s == rows[p.job].state IN
         /\ s \notin Terminal
         /\ s = "pending_retry" /\ p.todo = <<>> => p.state = "failed"
         /\ s = "pending_retry" /\ p.todo # <<>> =>
              /\ p.from = Poller
              /\ \/ p.todo \in {<<"saveCompleted">>, <<"saveStarted">>}
                 \/ p.state = "failed" /\ p.todo # <<"remove", "saveCompleted">>
<1> DEFINE p == runners[r]
           s == rows[p.job].state
<1>1. s \notin Terminal /\ (s = "pending_retry" => Holds(p))
  BY DEF FinalInv
<1>2. ASSUME s = "pending_retry", Active(p)
      PROVE  /\ p.todo = <<>> => p.state = "failed"
             /\ p.todo # <<>> => /\ p.from = Poller
                                 /\ \/ p.todo = <<"saveStarted">>
                                    \/ p.state = "failed" /\ p.todo # <<"remove", "saveCompleted">>
  <2>1. Retrying(p) /\ PolledFor(r, "retry")
    BY <1>2 DEF Inv, RowInv, RowFits
  <2>2. p.todo # <<>> => p.from = Poller
    <3> HAVE p.todo # <<>>
    <3>1. calls[Poller].pc = "handling" /\ calls[Poller].runner = r /\ Poller \in Callers
      BY <2>1 DEF PolledFor, Callers
    <3> QED
      BY <3>1 DEF Inv, TypeInv, CallShape
  <2>3. <<>> # <<"saveStarted">>
    OBVIOUS
  <2> QED
    BY <2>1, <2>2, <2>3 DEF Retrying
<1>3. ASSUME s = "pending_retry", ~Active(p)
      PROVE  p.todo = <<"saveCompleted">> /\ p.from = Poller
  BY <1>1, <1>3 DEF Holds
<1>4. <<>> # <<"saveCompleted">>
  OBVIOUS
<1> QED
  BY <1>1, <1>2, <1>3, <1>4

\* An operation of a handler.
LEMMA FinalStep ==
  ASSUME IInv, FinalInv, NEW r \in DOMAIN runners, Step(r)
  PROVE  FinalInv'
<1> DEFINE p == runners[r]
           s == rows[p.job].state
<1>1. /\ Inv /\ WatchInv /\ UNCHANGED <<table, found, due>> /\ p.todo # <<>>
      /\ p \in Runner /\ p.loop = "on" /\ p.todo \in Plans /\ Shape(p) /\ p.job \in JobIds
  BY Underway DEF Step, IInv, reads
<1>2. PICK q \in Runner : Advance(r, q) /\ q.job = p.job
  BY <1>1, Stepped
<1>3. ASSUME ~Shared(p.job)
      PROVE  /\ s \notin Terminal
             /\ s = "pending_retry" =>
                  /\ p.from = Poller
                  /\ \/ p.todo \in {<<"saveCompleted">>, <<"saveStarted">>}
                     \/ p.state = "failed" /\ p.todo # <<"remove", "saveCompleted">>
  BY <1>1, <1>3, Alone
<1>4. CASE UNCHANGED rows /\ (~Shared(p.job) => s # "pending_retry")
  <2>1. \A j \in JobIds : j # p.job => rows'[j] = rows[j]
    BY <1>4
  <2>2. ~Shared(p.job) => rows'[p.job].state \notin Terminal /\ rows'[p.job].state # "pending_retry"
    BY <1>3, <1>4
  <2> HIDE DEF p
  <2>3. q.job = p.job /\ Advance(r, q) /\ q \in Runner
    BY <1>2
  <2> USE DEF p
  <2> QED
    BY <1>1, <2>1, <2>2, <2>3, FinalMoves
<1>5. CASE (Create(r, p) \/ Restore(r, p)) /\ UNCHANGED rows
  <2>1. PICK z \in {Begins(p), [Begins(p) EXCEPT !.resumeAt = FALSE], Fails(p)} : Advance(r, z)
    BY <1>5 DEF Create, Restore
  <2>2. p.todo \in {<<"create", "saveStarted">>, <<"restore">>, <<"restore", "saveStarted">>}
    <3>1. Head(p.todo) \in {"create", "restore"}
      BY <1>5 DEF Create, Restore
    <3> HIDE DEF p
    <3> QED
      BY <1>1, <3>1, PlanSteps
  <2> HIDE DEF p
  <2>3. /\ z \in Runner /\ z.job = p.job /\ z.loop = "on" /\ z.from = p.from
        /\ \/ z.state = "running" /\ z.todo \in {<<"saveStarted">>, <<>>}
           \/ z.state = "failed" /\ z.todo \in {<<>>, <<"saveCompleted">>}
        /\ z.state = "running" => z.todo = Tail(p.todo)
    <3>1. /\ <<"saveStarted">> \in Seq(Ops) /\ <<"saveCompleted">> \in Seq(Ops) /\ <<>> \in Seq(Ops)
          /\ Tail(p.todo) \in {<<"saveStarted">>, <<>>}
      <4>1. <<"saveStarted">> \in Plans /\ <<"saveCompleted">> \in Plans
        BY Zenon DEF Plans
      <4>2. Tail(p.todo) \in {<<"saveStarted">>, <<>>}
        BY <2>2, PlanTails
      <4> QED
        BY <4>1, <4>2, PlanSteps
    <3>2. /\ Begins(p) \in Runner /\ Begins(p).job = p.job /\ Begins(p).loop = "on"
          /\ Begins(p).from = p.from /\ Begins(p).state = "running" /\ Begins(p).todo = Tail(p.todo)
      BY <1>1, <3>1 DEF Begins, Runner, JobStates
    <3>3. CASE z \in {Begins(p), [Begins(p) EXCEPT !.resumeAt = FALSE]}
      BY <3>1, <3>2, <3>3 DEF Runner
    <3>4. CASE z = Fails(p)
      <4>1. (IF p.todo = <<"restore", "saveStarted">> THEN <<>> ELSE <<"saveCompleted">>)
              \in {<<>>, <<"saveCompleted">>}
        OBVIOUS
      <4> DEFINE todo == IF p.todo = <<"restore", "saveStarted">> THEN <<>> ELSE <<"saveCompleted">>
      <4>2. z = [p EXCEPT !.state = "failed", !.ok = FALSE, !.todo = todo]
        BY <3>4 DEF Fails
      <4>3. todo \in Seq(Ops) /\ todo \in {<<>>, <<"saveCompleted">>}
        BY <3>1, <4>1
      <4> HIDE DEF todo
      <4>4. /\ z \in Runner /\ z.job = p.job /\ z.loop = p.loop /\ z.from = p.from
            /\ z.state = "failed" /\ z.todo = todo
        BY <1>1, <4>2, <4>3 DEF Runner, JobStates
      <4> QED
        BY <1>1, <4>3, <4>4
    <3> QED
      BY <2>1, <3>3, <3>4
  <2>4. ASSUME ~Shared(p.job), s = "pending_retry" PROVE Holds(Settled(z))
    <3>1. p.from = Poller /\ p.state = "failed"
      <4>1. p.todo \notin {<<"saveCompleted">>, <<"saveStarted">>}
        BY <2>2
      <4> QED
        BY <1>3, <2>4, <4>1
    <3>2. p.todo # <<"restore">>
      BY <1>1, <3>1 DEF Shape
    <3>3. CASE z.todo = <<>>
      <4>1. z.state # "running"
        <5>1. Tail(p.todo) = <<"saveStarted">>
          BY <2>2, <3>2, PlanTails
        <5> QED
          BY <2>3, <3>3, <5>1
      <4>2. z.state \in Terminal
        BY <2>3, <4>1 DEF Terminal
      <4>3. Settled(z).loop = "done"
        BY <2>3, <3>3, <4>2, SettledFields
      <4> QED
        BY <4>3 DEF Holds
    <3>4. CASE z.todo = <<"saveStarted">> /\ z.state = "running"
      <4>1. Settled(z) = z
        <5>1. z \in Runner /\ z.todo # <<>>
          BY <2>3, <3>4
        <5> QED
          BY <5>1, SettledFields, Zenon
      <4> QED
        BY <2>3, <3>4, <4>1 DEF Holds, Active
    <3>5. CASE z.todo = <<"saveCompleted">>
      <4>1. Settled(z) = z
        <5>1. z \in Runner /\ z.todo # <<>>
          BY <2>3, <3>5
        <5> QED
          BY <5>1, SettledFields, Zenon
      <4> QED
        BY <2>3, <3>1, <3>5, <4>1 DEF Holds
    <3> QED
      BY <2>3, <3>3, <3>4, <3>5
  <2>5. \A j \in JobIds : j # p.job => rows'[j] = rows[j]
    BY <1>5
  <2>6. ~Shared(p.job) =>
          /\ rows'[p.job].state \in Terminal => Settled(z).loop = "done"
          /\ rows'[p.job].state = "pending_retry" => Holds(Settled(z))
    BY <1>3, <1>5, <2>4
  <2> USE DEF p
  <2> QED
    BY <1>1, <2>1, <2>3, <2>5, <2>6, FinalMoves
<1>6. CASE (Checkpoint(r, p) \/ Stop(r, p) \/ Remove(r, p)) /\ UNCHANGED rows
  <2>1. Head(p.todo) \in {"suspend", "snapshot", "stop", "remove"}
    BY <1>6 DEF Checkpoint, Stop, Remove
  <2>2. p.todo \in {<<"suspend", "saveCheckpointed">>, <<"snapshot", "saveCheckpointed">>,
                    <<"stop", "saveCompleted">>, <<"remove", "saveCompleted">>,
                    <<"remove", "savePendingRetry">>}
    <3> HIDE DEF p
    <3> QED
      BY <1>1, <2>1, PlanSteps
  <2>3. p.todo \notin {<<"saveCompleted">>, <<"saveStarted">>}
    BY <2>2
  <2>4. p.state = "failed" => p.todo = <<"remove", "saveCompleted">>
    <3>1. p.todo = <<"remove", "savePendingRetry">> => p.state = "pending_retry"
      BY <1>1 DEF Shape
    <3>2. p.todo \in {<<"suspend", "saveCheckpointed">>, <<"snapshot", "saveCheckpointed">>,
                      <<"stop", "saveCompleted">>} => p.state \in {"running", "suspended"}
      BY <1>1 DEF Shape
    <3> QED
      BY <2>2, <3>1, <3>2
  <2> QED
    BY <1>3, <1>4, <1>6, <2>3, <2>4
<1>7. CASE Save(r, p)
  <2> DEFINE z == [p EXCEPT !.todo = Tail(@)]
  <2>1. /\ Advance(r, z) /\ \A j \in JobIds : j # p.job => rows'[j] = rows[j]
        /\ Head(p.todo) \in {"saveStarted", "saveRunning", "saveCount", "saveCheckpointed",
                             "savePendingRetry", "saveCompleted"}
    BY <1>1, <1>7, Written DEF Save
  <2> DEFINE w == rows'[p.job].state
  <2>2. /\ Head(p.todo) = "saveCount" => w = s
        /\ Head(p.todo) \in {"saveStarted", "saveRunning"} => w = "running"
        /\ Head(p.todo) \in {"saveCheckpointed", "saveCompleted"} => w = p.state
        /\ Head(p.todo) = "savePendingRetry" => w = "pending_retry"
    BY <1>1, <1>7, Written
  <2> HIDE DEF p, s, w
  <2>3. z \in Runner /\ z.job = p.job /\ z.loop = "on" /\ z.state = p.state /\ z.todo = Tail(p.todo)
    <3>1. Tail(p.todo) \in Seq(Ops)
      <4>1. p.todo \in Seq(Ops) /\ p.todo # <<>>
        BY <1>1, PlanSteps
      <4> QED
        BY <4>1
    <3> QED
      BY <1>1, <3>1 DEF Runner
  <2> HIDE DEF z
  <2>4. z.todo = <<>> /\ z.state \in Terminal \cup {"pending_retry"}
          => Settled(z).loop = "done" /\ Holds(Settled(z))
    BY <2>3, SettledFields DEF Holds
  <2>5. ASSUME ~Shared(p.job)
        PROVE  /\ w \in Terminal => Settled(z).loop = "done"
               /\ w = "pending_retry" => Holds(Settled(z))
    <3>1. CASE Head(p.todo) = "saveCompleted"
      <4>1. p.todo = <<"saveCompleted">>
        BY <1>1, <3>1, PlanSteps
      <4>2. p.state \in Terminal /\ z.todo = <<>>
        BY <1>1, <2>3, <4>1, PlanTails DEF Shape
      <4> QED
        BY <2>3, <2>4, <4>2
    <3>2. CASE Head(p.todo) = "savePendingRetry"
      <4>1. p.todo = <<"savePendingRetry">>
        BY <1>1, <3>2, PlanSteps
      <4>2. p.state = "pending_retry" /\ z.todo = <<>>
        BY <1>1, <2>3, <4>1, PlanTails DEF Shape
      <4> QED
        BY <2>3, <2>4, <4>2
    <3>3. CASE Head(p.todo) = "saveCheckpointed"
      <4>1. p.todo = <<"saveCheckpointed">>
        BY <1>1, <3>3, PlanSteps
      <4>2. w \in {"running", "suspended"}
        BY <1>1, <2>2, <3>3, <4>1 DEF Shape
      <4> QED
        BY <4>2 DEF Terminal
    <3>4. CASE Head(p.todo) \in {"saveStarted", "saveRunning"}
      BY <2>2, <3>4 DEF Terminal
    <3>5. CASE Head(p.todo) = "saveCount"
      <4>1. p.todo \in {<<"saveCount", "create", "saveStarted">>,
                        <<"saveCount", "restore", "saveStarted">>}
        BY <1>1, <3>5, PlanSteps
      <4>2. p.state = "failed"
        BY <1>1, <4>1 DEF Shape
      <4>3. z.todo \in {<<"create", "saveStarted">>, <<"restore", "saveStarted">>}
        BY <2>3, <4>1, PlanTails
      <4>4. z.todo # <<>> /\ z.todo # <<"saveCompleted">>
        BY <4>3
      <4>5. Settled(z) = z
        BY <2>3, <4>4, SettledFields
      <4>6. Holds(Settled(z))
        BY <2>3, <4>2, <4>4, <4>5 DEF Holds, Active, Terminal
      <4>7. w \notin Terminal
        BY <1>3, <2>2, <2>5, <3>5
      <4> QED
        BY <4>6, <4>7
    <3> QED
      BY <2>1, <3>1, <3>2, <3>3, <3>4, <3>5
  <2>6. UNCHANGED <<table, found, due>> /\ p.loop = "on"
    BY <1>1
  <2> USE DEF p, w
  <2> QED
    BY <1>1, <2>1, <2>3, <2>5, <2>6, FinalMoves
<1> QED
  BY <1>1, <1>5, <1>6, <1>7 DEF Step

\* A command that is taken.
LEMMA FinalTake ==
  ASSUME IInv, FinalInv, NEW c \in Callers, Take(c)
  PROVE  FinalInv'
<1> DEFINE r == calls[c].runner
           p == runners[r]
<1>1. /\ Inv /\ WatchInv /\ UNCHANGED <<table, found, due, rows>>
      /\ r \in DOMAIN runners /\ p.loop = "on" /\ p.todo = <<>>
  BY Took DEF Take, IInv, reads, db
<1>2. PICK q \in Runner :
        /\ Advance(r, q) /\ q.job = p.job /\ q.loop = "on"
        /\ p.state = "failed" => q.state = "failed" /\ q.todo # <<"saveCompleted">>
  BY <1>1, Took
<1>3. ASSUME ~Shared(p.job)
      PROVE  /\ rows'[p.job].state \notin Terminal
             /\ rows'[p.job].state = "pending_retry" => Holds(Settled(q))
  <2>1. /\ rows[p.job].state \notin Terminal
        /\ rows[p.job].state = "pending_retry" => p.state = "failed"
    BY <1>1, <1>3, Alone
  <2>2. ASSUME p.state = "failed" PROVE Holds(Settled(q))
    <3>1. CASE q.todo = <<>>
      BY <1>2, <2>2, <3>1, SettledFields DEF Holds, Terminal
    <3>2. CASE q.todo # <<>>
      BY <1>2, <2>2, <3>2, SettledFields DEF Holds, Active, Terminal
    <3> QED
      BY <3>1, <3>2
  <2> QED
    BY <1>1, <2>1, <2>2
<1> QED
  BY <1>1, <1>2, <1>3, FinalMoves

\* The end of the container is noticed.
LEMMA FinalNotice ==
  ASSUME IInv, FinalInv, NEW r \in DOMAIN runners, Notice(r)
  PROVE  FinalInv'
<1> DEFINE p == runners[r]
<1>1. /\ Inv /\ WatchInv /\ UNCHANGED <<table, found, due, rows>>
      /\ p \in Runner /\ p.loop = "on" /\ p.todo = <<>> /\ p.watched
  BY DEF Notice, Ready, IInv, Inv, TypeInv, TypeOK, reads, db
<1>2. p.state = "running"
  BY <1>1 DEF WatchInv, Watching
<1>3. PICK exit \in {"error", "zero", "nonzero"} :
        Advance(r, [ProcessExited(p, exit) EXCEPT !.watched = FALSE])
  BY DEF Notice
<1> DEFINE q == [ProcessExited(p, exit) EXCEPT !.watched = FALSE]
<1>4. q \in Runner /\ q.job = p.job
  BY <1>1, Exited
<1>5. ~Shared(p.job) =>
        rows'[p.job].state \notin Terminal /\ rows'[p.job].state # "pending_retry"
  BY <1>1, <1>2, Alone
<1>6. Advance(r, q)
  BY <1>3
<1> HIDE DEF q
<1> QED
  BY <1>1, <1>4, <1>5, <1>6, FinalMoves

\* A row that was read is not handled, or its job is marked as failed.
LEMMA FinalDropped ==
  ASSUME Inv, FinalInv, UNCHANGED <<table, runners, calls>>,
         due' \subseteq due, found' \subseteq found, NEW k \in JobIds,
         \A j \in JobIds : j # k => rows'[j] = rows[j],
         \/ rows'[k] = rows[k]
         \/ /\ rows'[k].state = "failed"
            /\ \A d \in due' : d.id # k
            /\ \A d \in found' : Claimed(d) => d.id # k
            /\ \A c \in Callers : ~Inserting(c, k)
            /\ ~Shared(k) => \A r \in RunnersOf(k) : runners[r].loop = "done"
  PROVE  FinalInv'
<1>1. \A j : RunnersOf(j)' = RunnersOf(j) /\ (Shared(j)' <=> Shared(j))
  BY DEF RunnersOf, Shared
<1>2. /\ \A d \in found \cup due : d.id \in JobIds
      /\ \A c \in Callers : calls[c].pc = "inserted" => calls[c].job \in JobIds
      /\ \A s \in DOMAIN runners : runners[s].job \in JobIds
  BY DEF Inv, TypeInv, TypeOK, Found, CallShape, Runner
<1>3. CASE rows'[k] = rows[k]
  <2>1. \A j \in JobIds : rows'[j] = rows[j]
    BY <1>3
  <2> QED
    BY <1>1, <1>2, <2>1 DEF FinalInv, RunnersOf
<1>4. CASE rows'[k].state = "failed" /\ rows'[k] # rows[k]
  <2>1. \A s \in DOMAIN runners : ~Shared(runners[s].job) =>
          /\ rows'[runners[s].job].state \in Terminal => runners[s].loop = "done"
          /\ rows'[runners[s].job].state = "pending_retry" => Holds(runners[s])
    <3> SUFFICES ASSUME NEW s \in DOMAIN runners, ~Shared(runners[s].job)
                 PROVE  /\ rows'[runners[s].job].state \in Terminal => runners[s].loop = "done"
                        /\ rows'[runners[s].job].state = "pending_retry" => Holds(runners[s])
      OBVIOUS
    <3>1. CASE runners[s].job = k
      BY <1>4, <3>1 DEF RunnersOf
    <3>2. CASE runners[s].job # k
      BY <1>2, <3>2 DEF FinalInv
    <3> QED
      BY <3>1, <3>2
  <2>2. \A d \in due' : d \in due /\ rows'[d.id] = rows[d.id]
    BY <1>2, <1>4
  <2>3. \A d \in found' : Claimed(d) => d \in found /\ rows'[d.id] = rows[d.id]
    BY <1>2, <1>4
  <2>4. \A c \in Callers : calls[c].pc = "inserted" => rows'[calls[c].job] = rows[calls[c].job]
    BY <1>2, <1>4 DEF Inserting
  <2> QED
    BY <1>1, <2>1, <2>2, <2>3, <2>4 DEF FinalInv, RunnersOf
<1> QED
  BY <1>3, <1>4

\* A runner is made: it is a claim, and the only one the job has had unless the row may
\* be final.
LEMMA FinalMade ==
  ASSUME Inv, FinalInv, NEW c \in Callers, NEW op \in {"start", "wake", "retry"},
         NEW j \in JobIds, NEW row \in Row, MakeRunner(c, op, j, row),
         op = "start" => row.state \in {"pending", "running"},
         UNCHANGED <<table, rows>>, due' \subseteq due, found' \subseteq found, j \in table,
         \A d \in due' : d.id # j,
         \A d \in found' : Claimed(d) => d.id # j,
         \A b \in Callers : b # c => ~Inserting(b, j),
         rows[j].state \in Terminal => RunnersOf(j) # {}
  PROVE  FinalInv'
<1>1. PICK n \in Nat : n = Len(runners) + 1
  BY DEF Inv, TypeInv
<1> DEFINE q == NewJobRunner(op, j, row)
<1>2. /\ runners \in Seq(Runner) /\ calls \in [Callers -> Call]
      /\ runners' = Append(runners, q)
      /\ calls' = [calls EXCEPT ![c] = [AtRest EXCEPT !.pc = "sent", !.op = op, !.job = j, !.runner = n]]
  BY <1>1 DEF MakeRunner, Inv, TypeInv, TypeOK
<1>3. /\ q.job = j /\ Holds(q)
      /\ rows[j].state \in Terminal => RunnersOf(j) # {}
  BY DEF NewJobRunner, Holds, Active, Terminal
<1> HIDE DEF q
<1>4. /\ DOMAIN runners' = DOMAIN runners \cup {n} /\ n \notin DOMAIN runners /\ runners'[n] = q
      /\ \A s \in DOMAIN runners : runners'[s] = runners[s]
  BY <1>1, <1>2
<1>5. /\ RunnersOf(j)' = RunnersOf(j) \cup {n}
      /\ \A k \in JobIds : k # j => RunnersOf(k)' = RunnersOf(k)
  BY <1>3, <1>4 DEF RunnersOf
<1>6. /\ Shared(j) => Shared(j)'
      /\ RunnersOf(j) # {} => Shared(j)'
      /\ \A k \in JobIds : k # j => (Shared(k)' <=> Shared(k))
  <2>1. n \notin RunnersOf(j)
    BY <1>4 DEF RunnersOf
  <2> QED
    BY <1>5, <2>1 DEF Shared
<1>7. \A b \in Callers : calls'[b].pc = "inserted" =>
        b # c /\ calls'[b] = calls[b] /\ calls[b].job # j /\ calls[b].job \in JobIds
  <2> TAKE b \in Callers
  <2> HAVE calls'[b].pc = "inserted"
  <2>1. b # c /\ calls'[b] = calls[b]
    <3>1. [AtRest EXCEPT !.pc = "sent", !.op = op, !.job = j, !.runner = n].pc = "sent"
      BY DEF AtRest
    <3> QED
      BY <1>2, <3>1
  <2> QED
    BY <2>1 DEF Inserting, Inv, TypeInv, CallShape
<1>8. \A s \in DOMAIN runners' : runners'[s].job \in table
  BY <1>3, <1>4 DEF FinalInv
<1>9. \A d \in found' : Claimed(d) => RunnersOf(d.id)' = {} /\ rows[d.id].state \notin Terminal
  <2>1. \A d \in found : d.id \in JobIds
    BY DEF Inv, TypeInv, TypeOK, Found
  <2> QED
    BY <1>5, <2>1 DEF FinalInv
<1>10. \A b \in Callers : calls'[b].pc = "inserted" =>
         RunnersOf(calls[b].job)' = {} /\ rows[calls'[b].job].state \notin Terminal
  <2> TAKE b \in Callers
  <2> HAVE calls'[b].pc = "inserted"
  <2>1. PICK k \in JobIds : k = calls[b].job /\ k # j /\ calls'[b].job = k /\ calls[b].pc = "inserted"
    BY <1>7
  <2>2. RunnersOf(k)' = {} /\ rows[k].state \notin Terminal
    BY <1>5, <2>1 DEF FinalInv
  <2> QED
    BY <2>1, <2>2 DEF RunnersOf
<1>11. \A d \in due' :
         /\ rows[d.id].state \in Terminal => RunnersOf(d.id)' # {}
         /\ d.row.state = "pending_retry" /\ ~Shared(d.id)' =>
              /\ rows[d.id].state = "pending_retry"
              /\ \A r \in RunnersOf(d.id)' : runners'[r].loop = "done"
  <2>1. \A d \in due : d.id \in JobIds
    BY DEF Inv, TypeInv, TypeOK, Found
  <2> QED
    BY <1>4, <1>5, <1>6, <2>1 DEF FinalInv, RunnersOf
<1>12. \A s \in DOMAIN runners' : ~Shared(runners[s].job)' =>
         /\ rows[runners'[s].job].state \in Terminal => runners'[s].loop = "done"
         /\ rows[runners'[s].job].state = "pending_retry" => Holds(runners'[s])
  <2> TAKE s \in DOMAIN runners'
  <2>1. CASE s = n
    <3>1. rows[j].state \in Terminal => Shared(j)'
      BY <1>3, <1>6
    <3>2. runners'[s].job = j
      BY <1>3, <1>4, <2>1
    <3>3. Shared(j)' => Shared(runners[s].job)'
      BY <3>2 DEF Shared, RunnersOf
    <3> QED
      BY <1>3, <1>4, <2>1, <3>1, <3>2, <3>3
  <2>2. CASE s # n
    <3>1. PICK k \in JobIds : k = runners[s].job
      BY <1>4, <2>2 DEF Inv, TypeInv, TypeOK, Runner
    <3>2. s \in DOMAIN runners /\ runners'[s] = runners[s]
      BY <1>4, <2>2
    <3>3. Shared(k) => Shared(k)'
      BY <1>6
    <3>4. Shared(k)' => Shared(runners[s].job)'
      BY <3>1, <3>2 DEF Shared, RunnersOf
    <3> QED
      BY <3>1, <3>2, <3>3, <3>4 DEF FinalInv
  <2> QED
    BY <2>1, <2>2
<1> QED
  BY <1>8, <1>9, <1>10, <1>11, <1>12 DEF FinalInv

\* A turn of the poller.
LEMMA FinalResume ==
  ASSUME Inv, FinalInv, NEW d \in due, resumeReadyJob(d)
  PROVE  FinalInv'
<1>1. /\ calls[Poller].pc = "idle" /\ due' = due \ {d} /\ Poller \in Callers
      /\ UNCHANGED <<table, found>>
  BY DEF resumeReadyJob, Idle, Callers
<1>2. d.id \in JobIds /\ d.row \in Row /\ rows \in [JobIds -> Row]
  BY DEF Inv, TypeInv, TypeOK, Found
<1>3. /\ d.id \in table
      /\ \A e \in due' : e.id # d.id
      /\ \A e \in found : Claimed(e) => e.id # d.id
      /\ \A b \in Callers : ~Inserting(b, d.id)
  BY <1>1 DEF Inv, ClaimInv
<1>4. CASE UNCHANGED <<rows, runners, calls>>
  BY <1>1, <1>2, <1>4, FinalDropped
<1>5. ASSUME markJobAsFailed(d), UNCHANGED <<runners, calls>>, d.row.state = "pending_retry"
      PROVE  FinalInv'
  <2>1. rows'[d.id].state = "failed" /\ \A j \in JobIds : j # d.id => rows'[j] = rows[j]
    BY <1>2, <1>5 DEF markJobAsFailed, UpdateJobCompleted, Row
  <2>2. ~Shared(d.id) => \A r \in RunnersOf(d.id) : runners[r].loop = "done"
    BY <1>5 DEF FinalInv
  <2> QED
    BY <1>1, <1>2, <1>3, <1>5, <2>1, <2>2, FinalDropped
<1>6. ASSUME NEW op \in {"wake", "retry"}, MakeRunner(Poller, op, d.id, d.row), UNCHANGED rows
      PROVE  FinalInv'
  <2>1. rows[d.id].state \in Terminal => RunnersOf(d.id) # {}
    BY DEF FinalInv
  <2> QED
    BY <1>1, <1>2, <1>3, <1>6, <2>1, FinalMade
<1>7. CASE inMap[d.id] = 0 /\ d.row.state = "suspended"
  <2>1. WakeJob(Poller, d) /\ UNCHANGED rows
    BY <1>7 DEF resumeReadyJob
  <2> QED
    BY <1>4, <1>6, <2>1 DEF WakeJob
<1>8. CASE inMap[d.id] = 0 /\ d.row.state = "pending_retry"
  <2>1. MakeOrFail(Poller, "retry", d)
    BY <1>8 DEF resumeReadyJob
  <2> QED
    BY <1>5, <1>6, <1>8, <2>1 DEF MakeOrFail
<1>9. CASE inMap[d.id] # 0
  BY <1>4, <1>9 DEF resumeReadyJob
<1>10. d.row.state \in {"suspended", "pending_retry"}
  BY DEF Inv, RowInv
<1> QED
  BY <1>7, <1>8, <1>9, <1>10

\* A turn of recovery.
LEMMA FinalRecover ==
  ASSUME Inv, FinalInv, NEW d \in found, recoverJob(d)
  PROVE  FinalInv'
<1>1. /\ calls[Recovery].pc = "idle" /\ found' = found \ {d} /\ Recovery \in Callers
      /\ UNCHANGED <<table, due>>
  BY DEF recoverJob, Idle, Callers
<1>2. d.id \in JobIds /\ d.row \in Row /\ rows \in [JobIds -> Row]
  BY DEF Inv, TypeInv, TypeOK, Found
<1>3. CASE UNCHANGED <<rows, runners, calls>>
  BY <1>1, <1>2, <1>3, FinalDropped
<1>4. ASSUME Claimed(d)
      PROVE  /\ d.id \in table
             /\ \A e \in due : e.id # d.id
             /\ \A e \in found' : e.id # d.id
             /\ \A b \in Callers : ~Inserting(b, d.id)
             /\ RunnersOf(d.id) = {} /\ rows[d.id].state \notin Terminal
  BY <1>1, <1>4 DEF Inv, ClaimInv, FinalInv
<1>5. ASSUME markJobAsFailed(d), UNCHANGED <<runners, calls>>, Claimed(d)
      PROVE  FinalInv'
  <2>1. rows'[d.id].state = "failed" /\ \A j \in JobIds : j # d.id => rows'[j] = rows[j]
    BY <1>2, <1>5 DEF markJobAsFailed, UpdateJobCompleted, Row
  <2> QED
    BY <1>1, <1>2, <1>4, <1>5, <2>1, FinalDropped
<1>6. ASSUME NEW op \in {"start", "wake"}, MakeRunner(Recovery, op, d.id, d.row), UNCHANGED rows,
             Claimed(d)
      PROVE  FinalInv'
  BY <1>1, <1>2, <1>4, <1>6, FinalMade DEF Claimed
<1>7. CASE d.row.state = "running"
  <2>1. recoverRunningJob(d) /\ Claimed(d)
    BY <1>7 DEF recoverJob, Claimed
  <2>2. CASE d.row.checkpointPath
    <3>1. WakeJob(Recovery, d) /\ UNCHANGED rows
      BY <2>1, <2>2 DEF recoverRunningJob
    <3> QED
      BY <1>3, <1>6, <2>1, <3>1 DEF WakeJob
  <2>3. CASE ~d.row.checkpointPath /\ (~defined \/ ~ShouldRetry(d.row, MaxRetries))
    <3>1. markJobAsFailed(d) /\ UNCHANGED <<runners, calls>>
      BY <2>1, <2>3 DEF recoverRunningJob
    <3> QED
      BY <1>5, <2>1, <3>1
  <2>4. CASE ~d.row.checkpointPath /\ defined /\ ShouldRetry(d.row, MaxRetries)
    <3>1. MakeOrFail(Recovery, "start", d)
      BY <2>1, <2>4 DEF recoverRunningJob
    <3> QED
      BY <1>5, <1>6, <2>1, <3>1 DEF MakeOrFail
  <2> QED
    BY <2>2, <2>3, <2>4
<1>8. CASE d.row.state = "pending"
  <2>1. MakeOrFail(Recovery, "start", d) /\ Claimed(d)
    BY <1>8 DEF recoverJob, Claimed
  <2> QED
    BY <1>5, <1>6, <2>1 DEF MakeOrFail
<1>9. CASE d.row.state \notin {"running", "pending"}
  BY <1>3, <1>9 DEF recoverJob
<1> QED
  BY <1>7, <1>8, <1>9

\* The second half of Spawn.
LEMMA FinalSpawnRunner ==
  ASSUME Inv, FinalInv, NEW c \in Clients, SpawnRunner(c)
  PROVE  FinalInv'
<1> DEFINE j == calls[c].job
<1>1. calls[c].pc = "inserted" /\ MakeRunner(c, "start", j, InsertJob) /\ c \in Callers
      /\ UNCHANGED <<db, container, reads, gaveUp, bounds>>
  BY DEF SpawnRunner, Callers
<1>2. j \in JobIds /\ Inserting(c, j)
  BY <1>1 DEF Inv, TypeInv, CallShape, Inserting
<1>3. InsertJob \in Row /\ InsertJob.state = "pending"
  BY DEF InsertJob, Row, JobStates, Results
<1>4. /\ j \in table
      /\ \A d \in due : d.id # j
      /\ \A d \in found : Claimed(d) => d.id # j
      /\ \A b \in Callers : b # c => ~Inserting(b, j)
  BY <1>1, <1>2 DEF Inv, ClaimInv, Inserting
<1>5. rows[j].state \notin Terminal
  BY <1>1 DEF FinalInv
<1> QED
  BY <1>1, <1>2, <1>3, <1>4, <1>5, FinalMade DEF db, reads

\* The first half of Spawn: the job is new, so it has had no runner.
LEMMA FinalSpawn ==
  ASSUME Inv, FinalInv, NEW c \in Clients, NEW j \in JobIds, Spawn(c, j)
  PROVE  FinalInv'
<1> DEFINE call == [AtRest EXCEPT !.pc = "inserted", !.op = "start", !.job = j]
<1>1. /\ j \notin table /\ table' = table \cup {j} /\ c \in Callers
      /\ rows' = [rows EXCEPT ![j] = InsertJob] /\ calls' = [calls EXCEPT ![c] = call]
      /\ UNCHANGED <<found, due, runners>>
  BY DEF Spawn, reads, Callers
<1>2. rows \in [JobIds -> Row] /\ calls \in [Callers -> Call] /\ table \subseteq JobIds
  BY DEF Inv, TypeInv, TypeOK
<1>3. /\ rows'[j].state = "pending" /\ \A i \in JobIds : i # j => rows'[i] = rows[i]
      /\ calls'[c].job = j /\ \A b \in Callers : b # c => calls'[b] = calls[b]
  BY <1>1, <1>2 DEF InsertJob, AtRest
<1>4. \A i : RunnersOf(i)' = RunnersOf(i) /\ (Shared(i)' <=> Shared(i))
  BY <1>1 DEF RunnersOf, Shared
<1>5. /\ \A d \in due : d.id \in table
      /\ \A d \in found : Claimed(d) => d.id \in table
      /\ \A b \in Callers : calls[b].pc = "inserted" => calls[b].job \in table
      /\ \A s \in DOMAIN runners : runners[s].job \in table
  BY DEF Inv, ClaimInv, FinalInv
<1>6. /\ \A d \in due : d.id # j /\ rows'[d.id] = rows[d.id]
      /\ \A d \in found : Claimed(d) => d.id # j /\ rows'[d.id] = rows[d.id]
      /\ \A s \in DOMAIN runners : runners[s].job # j /\ rows'[runners[s].job] = rows[runners[s].job]
  BY <1>1, <1>2, <1>3, <1>5
<1>7. \A b \in Callers : calls'[b].pc = "inserted" =>
        RunnersOf(calls[b].job)' = {} /\ rows'[calls'[b].job].state \notin Terminal
  <2> TAKE b \in Callers
  <2> HAVE calls'[b].pc = "inserted"
  <2>1. CASE b = c
    BY <1>1, <1>3, <1>6, <2>1 DEF RunnersOf, Terminal
  <2>2. CASE b # c
    <3>1. calls'[b] = calls[b] /\ calls[b].job # j /\ calls[b].job \in JobIds
          /\ RunnersOf(calls[b].job) = {} /\ rows[calls[b].job].state \notin Terminal
      BY <1>1, <1>2, <1>3, <1>5, <2>2 DEF FinalInv
    <3> QED
      BY <1>1, <1>3, <3>1 DEF RunnersOf
  <2> QED
    BY <2>1, <2>2
<1> QED
  BY <1>1, <1>4, <1>5, <1>6, <1>7 DEF FinalInv, RunnersOf

\* The poller reads rows: of jobs whose runners are done, when they wait for a retry.
LEMMA FinalRound ==
  ASSUME Inv, FinalInv, Round
  PROVE  FinalInv'
<1>1. PICK S \in SUBSET {j \in table : Parked(rows[j])} :
        due' = {[id |-> j, row |-> rows[j]] : j \in S}
  BY DEF Round
<1>2. calls[Poller].pc = "idle" /\ UNCHANGED <<table, rows, found, runners, calls>>
  BY DEF Round, Idle, db
<1>3. \A j : RunnersOf(j)' = RunnersOf(j) /\ (Shared(j)' <=> Shared(j))
  BY <1>2 DEF RunnersOf, Shared
<1>4. \A d \in due' : d.row = rows[d.id] /\ rows[d.id].state \notin Terminal
  <2>1. \A j \in S : rows[j].state \in {"suspended", "pending_retry"}
    BY DEF Parked
  <2> QED
    BY <1>1, <2>1 DEF Terminal
<1>5. ASSUME NEW r \in DOMAIN runners, ~Shared(runners[r].job),
             rows[runners[r].job].state = "pending_retry"
      PROVE  runners[r].loop = "done"
  <2>1. Holds(runners[r])
    BY <1>5 DEF FinalInv
  <2>2. ~Active(runners[r])
    BY <1>2, <1>5 DEF Inv, RowInv, PolledFor
  <2>3. runners[r].from # Poller
    BY <1>2, HypervisorAssumption DEF Inv, TypeInv, RunnerShape, Callers
  <2> QED
    BY <2>1, <2>2, <2>3 DEF Holds
<1>6. \A d \in due' :
        /\ rows[d.id].state \in Terminal => RunnersOf(d.id) # {}
        /\ d.row.state = "pending_retry" /\ ~Shared(d.id) =>
             /\ rows[d.id].state = "pending_retry"
             /\ \A r \in RunnersOf(d.id) : runners[r].loop = "done"
  BY <1>4, <1>5 DEF RunnersOf
<1> QED
  BY <1>2, <1>3, <1>6 DEF FinalInv, RunnersOf

\* Recovery reads rows: nobody has a runner yet.
LEMMA FinalReadRows ==
  ASSUME FreshInv, FinalInv, ReadRows
  PROVE  FinalInv'
<1>1. /\ found' = {[id |-> j, row |-> rows[j]] : j \in {i \in table : rows[i].state \notin Terminal}}
      /\ UNCHANGED <<table, rows, due, runners, calls>> /\ runners = <<>>
  BY DEF ReadRows, FreshInv, db
<1>2. \A j : RunnersOf(j)' = RunnersOf(j) /\ (Shared(j)' <=> Shared(j)) /\ RunnersOf(j) = {}
  BY <1>1 DEF RunnersOf, Shared
<1>3. \A d \in found' : rows[d.id].state \notin Terminal
  BY <1>1
<1> QED
  BY <1>1, <1>2, <1>3 DEF FinalInv, RunnersOf

\* When the hypervisor starts nothing is in memory.
LEMMA FinalStarts ==
  ASSUME runners = <<>>, due = {}, found = {}, \A c \in Callers : calls[c] = AtRest
  PROVE  FinalInv
<1>1. DOMAIN runners = {} /\ \A c \in Callers : calls[c].pc = "idle"
  BY DEF AtRest
<1> QED
  BY <1>1 DEF FinalInv

\* A crash.
LEMMA FinalCrash ==
  ASSUME Crash
  PROVE  FinalInv'
<1>1. (runners = <<>> /\ due = {} /\ found = {} /\ \A c \in Callers : calls[c] = AtRest)'
  BY DEF Crash
<1>2. (runners = <<>> /\ due = {} /\ found = {} /\ (\A c \in Callers : calls[c] = AtRest)
         => FinalInv)'
  BY FinalStarts, PTL
<1> QED
  BY <1>1, <1>2

\* Every step keeps it.
LEMMA FinalNext ==
  ASSUME IInv, FinalInv, [Next]_vars
  PROVE  FinalInv'
<1>1. Inv /\ WatchInv /\ FreshInv
  BY DEF IInv
<1>2. ASSUME NEW c \in Callers, Take(c) \/ Stopped(c) \/ Conclude(c) PROVE FinalInv'
  BY <1>1, <1>2, FinalTake, StoppedKeeps, ConcludeKeeps
<1>3. ASSUME NEW r \in DOMAIN runners, Step(r) \/ Notice(r) \/ EvictDone(r) PROVE FinalInv'
  BY <1>1, <1>3, FinalStep, FinalNotice, EvictDoneKeeps
<1>4. ASSUME NEW j \in JobIds, ContainerEnds(j) PROVE FinalInv'
  BY <1>1, <1>4, ContainerEndsKeeps
<1>5. ASSUME NEW c \in Clients, NEW j \in JobIds, Spawn(c, j) PROVE FinalInv'
  BY <1>1, <1>5, FinalSpawn
<1>6. ASSUME NEW c \in Clients, SpawnRunner(c) \/ GiveUp(c) PROVE FinalInv'
  BY <1>1, <1>6, FinalSpawnRunner, GiveUpKeeps
<1>7. ASSUME NEW c \in Clients, NEW j \in JobIds, NEW m \in Requests, SendCommand(c, j, m[1], m[2])
      PROVE  FinalInv'
  BY <1>1, <1>7, SendCommandKeeps
<1>8. ASSUME UnregisterJobDefinition \/ UNCHANGED vars PROVE FinalInv'
  BY <1>1, <1>8, UnregisterKeeps
<1>9. ASSUME Round PROVE FinalInv'
  BY <1>1, <1>9, FinalRound
<1>10. ASSUME NEW d \in due, resumeReadyJob(d) PROVE FinalInv'
  BY <1>1, <1>10, FinalResume
<1>11. ASSUME ReadRows PROVE FinalInv'
  BY <1>1, <1>11, FinalReadRows
<1>12. ASSUME NEW d \in found, recoverJob(d) PROVE FinalInv'
  BY <1>1, <1>12, FinalRecover
<1>13. ASSUME Crash PROVE FinalInv'
  BY <1>13, FinalCrash
<1> QED
  BY <1>2, <1>3, <1>4, <1>5, <1>6, <1>7, <1>8, <1>9, <1>10, <1>11, <1>12, <1>13 DEF Next

\* It holds in every state.
LEMMA FinalAlways == Spec => [](IInv /\ FinalInv)
<1>1. Init => FinalInv
  BY FinalStarts DEF Init
<1>2. IInv /\ FinalInv /\ [Next]_vars => FinalInv'
  BY FinalNext
<1> QED
  BY <1>1, <1>2, InvAlways, PTL DEF Spec

\* Two runners are more than one.
LEMMA SharedCounts ==
  ASSUME TypeInv, NEW j, Shared(j)
  PROVE  Cardinality(RunnersOf(j)) > 1
<1>1. PICK r, s \in RunnersOf(j) : r # s
  BY DEF Shared
<1>2. IsFiniteSet(DOMAIN runners)
  <2>1. runners \in Seq(Runner) /\ Len(runners) \in Int /\ DOMAIN runners = 1..Len(runners)
    BY DEF TypeInv
  <2> QED
    BY <2>1, FS_Interval
<1>3. RunnersOf(j) \in SUBSET DOMAIN runners
  BY DEF RunnersOf
<1>4. IsFiniteSet(RunnersOf(j))
  BY <1>2, <1>3, FS_Subset
<1>5. Cardinality(RunnersOf(j)) \in Nat
  BY <1>4, FS_CardinalityType
<1>6. IsFiniteSet({r}) /\ Cardinality({r}) = 1
  BY FS_Singleton
<1>7. Cardinality({r} \cup {s}) = 2
  BY <1>1, <1>6, FS_AddElement
<1>8. {r} \cup {s} \in SUBSET RunnersOf(j)
  OBVIOUS
<1>9. Cardinality({r} \cup {s}) <= Cardinality(RunnersOf(j))
  BY <1>4, <1>8, FS_Subset
<1> QED
  BY <1>5, <1>7, <1>9

\* Who changes a final row.
LEMMA FinalChanges ==
  ASSUME IInv, FinalInv, [Next]_vars, NEW j \in table, rows[j].state \in Terminal,
         rows'[j].state # rows[j].state
  PROVE  Shared(j)
<1>1. Inv /\ j \in JobIds /\ rows \in [JobIds -> Row]
  BY DEF IInv, Inv, TypeInv, TypeOK
<1>2. ASSUME NEW r \in DOMAIN runners, Step(r) PROVE Shared(j)
  <2>1. runners[r].todo # <<>> /\ Save(r, runners[r])
    BY <1>2 DEF Step
  <2>2. runners[r].job = j
    BY <1>1, <2>1, Written
  <2>3. runners[r].loop = "on"
    BY <1>1, <2>1, Underway
  <2> QED
    BY <2>2, <2>3 DEF FinalInv
<1>3. ASSUME NEW d \in due, resumeReadyJob(d) PROVE Shared(j)
  <2>1. markJobAsFailed(d) /\ d.row.state = "pending_retry"
    <3>1. d.row.state \in {"suspended", "pending_retry"}
      BY <1>1 DEF Inv, RowInv
    <3> QED
      BY <1>3, <3>1 DEF resumeReadyJob, MakeOrFail
  <2>2. d.id = j
    BY <1>1, <2>1 DEF markJobAsFailed
  <2> QED
    BY <2>1, <2>2 DEF FinalInv, Terminal
<1>4. ASSUME NEW d \in found, recoverJob(d) PROVE Shared(j)
  <2>1. markJobAsFailed(d) /\ Claimed(d)
    BY <1>4 DEF recoverJob, recoverRunningJob, WakeJob, MakeOrFail, Claimed
  <2>2. d.id = j
    BY <1>1, <2>1 DEF markJobAsFailed
  <2> QED
    BY <2>1, <2>2 DEF FinalInv
<1>5. ASSUME NEW c \in Clients, NEW i \in JobIds, Spawn(c, i) PROVE Shared(j)
  <2>1. i # j /\ rows' = [rows EXCEPT ![i] = InsertJob]
    BY <1>5 DEF Spawn
  <2> QED
    BY <1>1, <2>1
<1>6. ~UNCHANGED rows
  OBVIOUS
<1>7. \A c \in Callers : ~Take(c) /\ ~Stopped(c) /\ ~Conclude(c)
  BY <1>6 DEF Take, Stopped, Conclude, db
<1>8. \A r \in DOMAIN runners : ~Notice(r) /\ ~EvictDone(r)
  BY <1>6 DEF Notice, EvictDone, db
<1>9. \A i \in JobIds : ~ContainerEnds(i)
  BY <1>6 DEF ContainerEnds, db
<1>10. \A c \in Clients : ~SpawnRunner(c) /\ ~GiveUp(c)
  BY <1>6 DEF SpawnRunner, GiveUp, db
<1>11. \A c \in Clients, i \in JobIds : \A m \in Requests : ~SendCommand(c, i, m[1], m[2])
  BY <1>6 DEF SendCommand, db
<1>12. ~UnregisterJobDefinition /\ ~Round /\ ~ReadRows /\ ~Crash /\ ~UNCHANGED vars
  BY <1>6 DEF UnregisterJobDefinition, Round, ReadRows, Crash, vars, db
<1> QED
  BY <1>2, <1>3, <1>4, <1>5, <1>7, <1>8, <1>9, <1>10, <1>11, <1>12 DEF Next

\* Once the row of a job says completed or failed it keeps saying so, whatever is still
\* queued, read or half done when it does, and across crashes, unless the job has had two
\* runners since the hypervisor started.
THEOREM FinalRowsStay == Spec => TerminalIsFinal
<1>1. IInv /\ FinalInv /\ [Next]_vars =>
        \A j \in table : rows[j].state \in Terminal /\ rows'[j].state # rows[j].state
          => Cardinality(RunnersOf(j)) > 1
  BY FinalChanges, SharedCounts DEF IInv, Inv
<1> QED
  BY <1>1, FinalAlways, PTL DEF Spec, TerminalIsFinal
=============================================================================
