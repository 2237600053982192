-------------------------- MODULE FirecrackerProofs --------------------------
(***************************************************************************)
(* Proofs about Firecracker, for every set of executions, every number of  *)
(* suffixes, of machines and of crashes.                                   *)
(***************************************************************************)
EXTENDS Firecracker, FiniteSetTheorems, TLAPS

Procs == {"none", "running", "paused", "dead"}

-----------------------------------------------------------------------------
(***************************************************************************)
(* The inductive invariant.                                                *)
(***************************************************************************)
\* What the operation a runner is in says of the runner and of its current machine.
Shape(e) ==
  LET w == work[e]  vm == vms[Current(e)] IN
  /\ w.pc = "idle" => w = Idle
  /\ w.pc \in {"named", "tapped", "launched"} => phase[e] \in {"due", "waking"} /\ w.tap \in Names
  /\ w.pc \in {"paused", "written"} => phase[e] = "up"
  /\ phase[e] = "up" \/ w.pc \in {"tapped", "launched"} => Mine(e) # {}
  /\ w.pc \in {"tapped", "launched"} => vm.tap = w.tap
  /\ w.pc = "tapped" => vm.proc = "none"
  /\ w.pc = "launched" => vm.proc \in {"running", "dead"}
  /\ phase[e] = "up" => vm.proc # "none"
  /\ phase[e] \in {"none", "recover"} => saved[e] = None

TypeInv == TypeOK /\ vms \in Seq(VM) /\ \A e \in Executions : Shape(e)

\* A device was made for a machine that knows its name.
DeviceInv == \A n \in Names : taps[n] # 0 => vms[taps[n]].tap = n

\* A machine that runs, or that a runner holds and will clean up after, has its device.
NetworkInv ==
  \A i \in DOMAIN vms : Live(i) \/ Held(i) => taps[vms[i].tap] = i \/ vms[i].tap \in contended

\* The name a start has chosen is not that of an earlier machine of the execution that
\* still runs, and neither is the name in the checkpoint of its runner.
NameInv ==
  \A i \in DOMAIN vms : LET e == vms[i].exec IN
    Live(i) =>
      /\ work[e].pc = "named" /\ vms[i].tap = work[e].tap => vms[i].tap \in contended
      /\ vms[i].tap = saved[e] => Held(i) \/ vms[i].tap \in contended

\* Only a current machine is paused by a checkpoint in progress.
PauseInv ==
  \A i \in DOMAIN vms : vms[i].proc = "paused" =>
    \/ i \in cut
    \/ i = Current(vms[i].exec) /\ work[vms[i].exec].pc \in {"paused", "written"}

Inv ==
  /\ TypeInv /\ DeviceInv /\ NetworkInv /\ NameInv /\ PauseInv
  /\ OnlyKnownLeaks /\ NoOrphanMachine

-----------------------------------------------------------------------------
(***************************************************************************)
(* The current machine of an execution is the last one made for it.        *)
(***************************************************************************)
\* A non-empty set of numbers up to n has a greatest one: the smallest subset without one
\* would have one as soon as an element is taken away from it.
LEMMA LastExists ==
  ASSUME NEW n \in Nat, NEW S \in SUBSET (1..n), S # {}
  PROVE  \E m \in S : \A k \in S : k <= m
<1> DEFINE Without == {T \in SUBSET S : T # {} /\ ~\E m \in T : \A k \in T : k <= m}
<1> SUFFICES ASSUME Without # {} PROVE FALSE
  OBVIOUS
<1>1. IsFiniteSet(S)
  <2>1. 1 \in Int /\ n \in Int
    OBVIOUS
  <2>2. IsFiniteSet(1..n)
    BY <2>1, FS_Interval
  <2> QED
    BY <2>2, FS_Subset
<1>2. PICK T \in Without : \A U \in Without : ~(<<U, T>> \in StrictSubsetOrdering(S))
  <2>1. IsWellFoundedOn(StrictSubsetOrdering(S), SUBSET S)
    BY <1>1, FS_StrictSubsetOrderingWellFounded, FS_FiniteSubsetsOfFinite
  <2>2. Without \subseteq SUBSET S
    OBVIOUS
  <2> HIDE DEF Without
  <2> QED
    BY <2>1, <2>2, WFMin
<1>3. PICK x \in T : TRUE
  OBVIOUS
<1>4. T # {x}
  BY <1>3
<1>5. <<T \ {x}, T>> \in StrictSubsetOrdering(S)
  BY <1>3 DEF StrictSubsetOrdering
<1>6. PICK m \in T \ {x} : \A k \in T \ {x} : k <= m
  BY <1>2, <1>3, <1>4, <1>5
<1>7. (IF x <= m THEN m ELSE x) \in T /\ \A k \in T : k <= (IF x <= m THEN m ELSE x)
  BY <1>3, <1>6
<1> QED
  BY <1>7

LEMMA CurrentIs ==
  ASSUME vms \in Seq(VM), NEW e, Mine(e) # {}
  PROVE  /\ Current(e) \in DOMAIN vms /\ vms[Current(e)].exec = e
         /\ \A k \in Mine(e) : k <= Current(e)
<1>1. Mine(e) \in SUBSET (1..Len(vms)) /\ Len(vms) \in Nat /\ DOMAIN vms = 1..Len(vms)
  BY DEF Mine
<1>2. \E m \in Mine(e) : \A k \in Mine(e) : k <= m
  BY <1>1, LastExists
<1>3. Current(e) \in Mine(e) /\ \A k \in Mine(e) : k <= Current(e)
  BY <1>2 DEF Current
<1> QED
  BY <1>3 DEF Mine

\* The machines are the same, whatever their processes do.
SameMachines ==
  /\ vms' \in Seq(VM) /\ Len(vms') = Len(vms)
  /\ \A i \in DOMAIN vms : vms'[i].exec = vms[i].exec /\ vms'[i].tap = vms[i].tap

LEMMA CurrentKept ==
  ASSUME vms \in Seq(VM), SameMachines
  PROVE  /\ DOMAIN vms' = DOMAIN vms
         /\ \A e : Mine(e)' = Mine(e) /\ Current(e)' = Current(e)
<1>1. DOMAIN vms' = DOMAIN vms
  BY DEF SameMachines
<1>2. ASSUME NEW e PROVE Mine(e)' = Mine(e)
  BY <1>1 DEF SameMachines, Mine
<1>3. ASSUME NEW e PROVE Current(e)' = Current(e)
  BY <1>2 DEF Current
<1> QED
  BY <1>1, <1>2, <1>3

\* A change of one machine's process.
LEMMA ProcChange ==
  ASSUME vms \in Seq(VM), NEW c \in DOMAIN vms, NEW p \in Procs,
         vms' = [vms EXCEPT ![c].proc = p]
  PROVE  /\ SameMachines /\ vms'[c].proc = p
         /\ \A i \in DOMAIN vms \ {c} : vms'[i] = vms[i]
<1>1. Len(vms) \in Nat /\ DOMAIN vms = 1..Len(vms) /\ \A i \in DOMAIN vms : vms[i] \in VM
  OBVIOUS
<1>2. [vms[c] EXCEPT !.proc = p] \in VM /\ [vms[c] EXCEPT !.proc = p].proc = p
      /\ [vms[c] EXCEPT !.proc = p].exec = vms[c].exec
      /\ [vms[c] EXCEPT !.proc = p].tap = vms[c].tap
  BY <1>1 DEF VM, Procs
<1>3. vms' = [i \in 1..Len(vms) |-> IF i = c THEN [vms[c] EXCEPT !.proc = p] ELSE vms[i]]
  BY <1>1
<1>4. vms' \in Seq(VM) /\ Len(vms') = Len(vms)
  BY <1>1, <1>2, <1>3
<1> QED
  BY <1>1, <1>2, <1>3, <1>4 DEF SameMachines

LEMMA SetProcIs ==
  ASSUME vms \in Seq(VM), NEW e \in Executions, Mine(e) # {}, NEW p \in Procs, SetProc(e, p)
  PROVE  /\ SameMachines /\ vms'[Current(e)].proc = p
         /\ \A i \in DOMAIN vms \ {Current(e)} : vms'[i] = vms[i]
  BY CurrentIs, ProcChange DEF SetProc

\* A machine is attached to a device.
LEMMA NicChange ==
  ASSUME vms \in Seq(VM), NEW c \in DOMAIN vms, NEW d \in Names \cup {None},
         vms' = [vms EXCEPT ![c].nic = d]
  PROVE  /\ SameMachines /\ vms'[c].proc = vms[c].proc
         /\ \A i \in DOMAIN vms \ {c} : vms'[i] = vms[i]
<1>1. Len(vms) \in Nat /\ DOMAIN vms = 1..Len(vms) /\ \A i \in DOMAIN vms : vms[i] \in VM
  OBVIOUS
<1>2. [vms[c] EXCEPT !.nic = d] \in VM /\ [vms[c] EXCEPT !.nic = d].proc = vms[c].proc
      /\ [vms[c] EXCEPT !.nic = d].exec = vms[c].exec
      /\ [vms[c] EXCEPT !.nic = d].tap = vms[c].tap
  BY <1>1 DEF VM
<1>3. vms' = [i \in 1..Len(vms) |-> IF i = c THEN [vms[c] EXCEPT !.nic = d] ELSE vms[i]]
  BY <1>1
<1>4. vms' \in Seq(VM) /\ Len(vms') = Len(vms)
  BY <1>1, <1>2, <1>3
<1> QED
  BY <1>1, <1>2, <1>3, <1>4 DEF SameMachines

\* A new machine becomes the current one of its execution.
LEMMA NewMachine ==
  ASSUME vms \in Seq(VM), NEW e \in Executions, NEW n \in Names, NEW p \in Procs,
         vms' = Made(e, n, p)
  PROVE  /\ vms' \in Seq(VM) /\ Len(vms') = Len(vms) + 1
         /\ DOMAIN vms' = DOMAIN vms \cup {Len(vms) + 1} /\ Len(vms) + 1 \notin DOMAIN vms
         /\ \A i \in DOMAIN vms : vms'[i] = vms[i]
         /\ vms'[Len(vms) + 1] = [exec |-> e, tap |-> n, nic |-> None, proc |-> p]
         /\ Mine(e)' # {} /\ Current(e)' = Len(vms) + 1
         /\ \A f \in Executions \ {e} : Mine(f)' = Mine(f) /\ Current(f)' = Current(f)
<1> DEFINE new == [exec |-> e, tap |-> n, nic |-> None, proc |-> p]
<1>1. new \in VM
  BY DEF VM, Procs
<1>2. /\ vms' \in Seq(VM) /\ Len(vms') = Len(vms) + 1
      /\ DOMAIN vms' = DOMAIN vms \cup {Len(vms) + 1} /\ Len(vms) + 1 \notin DOMAIN vms
      /\ \A i \in DOMAIN vms : vms'[i] = vms[i]
      /\ vms'[Len(vms) + 1] = new
  BY <1>1 DEF Made
<1>3. \A f \in Executions \ {e} : Mine(f)' = Mine(f)
  BY <1>2 DEF Mine
<1>4. \A f \in Executions \ {e} : Current(f)' = Current(f)
  BY <1>3 DEF Current
<1>5. Len(vms) + 1 \in Mine(e)' /\ \A k \in Mine(e)' : k <= Len(vms) + 1
  BY <1>2 DEF Mine
<1>6. Current(e)' = Len(vms) + 1
  BY <1>2, <1>5, LastExists DEF Current, Mine
<1> QED
  BY <1>2, <1>3, <1>4, <1>5, <1>6

-----------------------------------------------------------------------------
(***************************************************************************)
(* Type correctness.                                                       *)
(***************************************************************************)
\* A step of e leaves what belongs to the other executions alone.
OthersKept(e) ==
  /\ \A i \in DOMAIN vms : vms[i].exec # e => vms'[i] = vms[i]
  /\ \A f \in Executions \ {e} :
       work'[f] = work[f] /\ phase'[f] = phase[f] /\ saved'[f] = saved[f]

VarTypes ==
  /\ taps \in [Names -> 0..Len(vms)] /\ phase \in [Executions -> Phases]
  /\ work \in [Executions -> Work] /\ saved \in [Executions -> Names \cup {None}]
  /\ row \in [Executions -> Rows] /\ recorded \subseteq Executions
  /\ snapshot \in [Executions -> Names \cup {None}]
  /\ leaky \cup undeleted \cup loose \cup cut \subseteq DOMAIN vms /\ contended \subseteq Names
  /\ renamed \subseteq Executions /\ crashes \in 0..MaxCrashes

LEMMA TypeInvIs == TypeInv <=> VarTypes /\ vms \in Seq(VM) /\ \A e \in Executions : Shape(e)
  BY DEF TypeInv, TypeOK, VarTypes

LEMMA IdleType == Idle \in Work
  BY DEF Idle, Work

LEMMA InitTypes == Init => TypeInv
<1> SUFFICES ASSUME Init PROVE TypeInv
  OBVIOUS
<1>1. VarTypes /\ vms \in Seq(VM)
  BY IdleType, FirecrackerAssumption DEF Init, VarTypes, Phases, Rows
<1>2. \A e \in Executions : Shape(e)
  BY DEF Init, Shape, Idle
<1> QED
  BY <1>1, <1>2, TypeInvIs

\* The shape of every execution after a step of e.
LEMMA StepOfOne ==
  ASSUME TypeInv, NEW e \in Executions, SameMachines, OthersKept(e), VarTypes', Shape(e)'
  PROVE  TypeInv'
<1>1. ASSUME NEW f \in Executions \ {e}
      PROVE  Shape(f)'
  <2>1. Mine(f)' = Mine(f) /\ Current(f)' = Current(f) /\ Shape(f) /\ vms \in Seq(VM)
    BY CurrentKept DEF TypeInv
  <2>2. Mine(f) # {} => vms'[Current(f)] = vms[Current(f)]
    BY <2>1, CurrentIs DEF OthersKept
  <2>3. work'[f] = work[f] /\ phase'[f] = phase[f] /\ saved'[f] = saved[f]
    BY DEF OthersKept
  <2> QED
    BY <2>1, <2>2, <2>3 DEF Shape
<1>2. vms' \in Seq(VM) /\ \A i \in DOMAIN vms' : vms'[i] \in VM
  BY DEF SameMachines
<1> QED
  BY <1>1, <1>2 DEF TypeInv, TypeOK, VarTypes

\* Machines stay as they are.
LEMMA NoChange ==
  ASSUME TypeInv, UNCHANGED vms
  PROVE  SameMachines /\ \A e : Mine(e)' = Mine(e) /\ Current(e)' = Current(e)
  BY CurrentKept DEF TypeInv, SameMachines

\* The names to choose from are those of devices that do not exist.
LEMMA NamesAreFree ==
  ASSUME NEW e \in Executions, NEW n \in findUniqueTAPName(e)
  PROVE  n \in Names /\ taps[n] = 0
<1>1. DOMAIN Candidates(e) = 1..(MaxSuffix + 1) /\ MaxSuffix \in Nat
  BY FirecrackerAssumption DEF Candidates
<1>2. \A k \in DOMAIN Candidates(e) : Candidates(e)[k] \in Names
  BY <1>1, FirecrackerAssumption DEF Candidates, Names
<1> QED
  BY <1>2 DEF findUniqueTAPName

-----------------------------------------------------------------------------
(***************************************************************************)
(* What a step of one runner may do to its machine.                        *)
(***************************************************************************)
Holding(e) == phase[e] = "up" \/ work[e].pc \in {"tapped", "launched"}

\* The runner gives its machine up, and deletes its device.
Deletes(e) ==
  /\ Holding(e) /\ ~Holding(e)' /\ vms'[Current(e)].proc = "dead"
  /\ taps' = [taps EXCEPT ![vms[Current(e)].tap] = 0]

\* A step that makes no device: only the current machine of e changes, a machine that is
\* started is held, one that is given up is dead and its device deleted, or it is recorded.
RunnerStep(e) ==
  LET c == Current(e)  live == vms'[c].proc \in {"running", "paused"} IN
  /\ SameMachines /\ OthersKept(e)
  /\ \A i \in DOMAIN vms \ {c} : vms'[i] = vms[i]
  /\ contended' = contended
  /\ leaky \subseteq leaky' /\ undeleted \subseteq undeleted' /\ loose \subseteq loose'
  /\ \A i \in cut : i \in cut' \/ (i = c /\ Holding(e))
  /\ live => Live(c) \/ Holding(e)
  /\ Holding(e)' => Holding(e)
  /\ Deletes(e) \/ (taps' = taps /\ (Holding(e) => Holding(e)' \/ c \in leaky' \cup undeleted'))
  /\ Holding(e) /\ live => Holding(e)' \/ (c \in loose' /\ saved'[e] = None)
  /\ vms'[c].proc = "paused" =>
       \/ c \in cut' \/ work'[e].pc \in {"paused", "written"}
       \/ vms[c].proc = "paused" /\ work[e].pc \notin {"paused", "written"} /\ (c \in cut => c \in cut')
  /\ work'[e].pc = "named" => \A i \in Mine(e) :
       vms'[i] = vms[i] /\ (Live(i) /\ vms[i].tap = work'[e].tap => vms[i].tap \in contended)
  /\ \/ saved'[e] \in {None, saved[e]}
     \/ saved'[e] = vms[c].tap /\ Holding(e) /\ Holding(e)'
     \/ saved'[e] \in Names /\ taps[saved'[e]] = 0

LEMMA HeldIs ==
  ASSUME NEW i
  PROVE  Held(i) <=> i = Current(vms[i].exec) /\ Holding(vms[i].exec)
  BY DEF Held, Holding

\* What is known of the machine of an execution, before and after such a step.
LEMMA Machines ==
  ASSUME TypeInv, NEW e \in Executions, RunnerStep(e)
  PROVE  /\ DOMAIN vms' = DOMAIN vms
         /\ \A i \in DOMAIN vms : /\ vms[i].exec \in Executions /\ vms[i].tap \in Names
                                  /\ vms'[i].exec = vms[i].exec /\ vms'[i].tap = vms[i].tap
                                  /\ i # Current(e) => vms'[i] = vms[i]
         /\ \A i \in DOMAIN vms : vms[i].exec = e =>
              /\ Held(i) <=> i = Current(e) /\ Holding(e)
              /\ Held(i)' <=> i = Current(e) /\ Holding(e)'
         /\ \A i \in DOMAIN vms : vms[i].exec # e =>
              /\ vms'[i] = vms[i] /\ (Held(i)' <=> Held(i))
              /\ work'[vms[i].exec] = work[vms[i].exec] /\ phase'[vms[i].exec] = phase[vms[i].exec]
              /\ saved'[vms[i].exec] = saved[vms[i].exec]
         /\ \A f : Current(f)' = Current(f)
         /\ Holding(e) => Current(e) \in DOMAIN vms /\ vms[Current(e)].exec = e
<1>1. vms \in Seq(VM) /\ SameMachines /\ OthersKept(e) /\ Shape(e)
  BY DEF TypeInv, RunnerStep
<1>2. DOMAIN vms' = DOMAIN vms /\ \A f : Current(f)' = Current(f) /\ Mine(f)' = Mine(f)
  BY <1>1, CurrentKept
<1>3. \A i \in DOMAIN vms : /\ vms[i].exec \in Executions /\ vms[i].tap \in Names
                            /\ vms'[i].exec = vms[i].exec /\ vms'[i].tap = vms[i].tap
                            /\ i # Current(e) => vms'[i] = vms[i]
  <2>1. \A i \in DOMAIN vms : vms[i].exec \in Executions /\ vms[i].tap \in Names
    BY DEF TypeInv, TypeOK, VM
  <2>2. \A i \in DOMAIN vms \ {Current(e)} : vms'[i] = vms[i]
    BY DEF RunnerStep
  <2> QED
    BY <1>1, <2>1, <2>2 DEF SameMachines
<1>4. ASSUME NEW i \in DOMAIN vms, vms[i].exec = e
      PROVE  /\ Held(i) <=> i = Current(e) /\ Holding(e)
             /\ Held(i)' <=> i = Current(e) /\ Holding(e)'
  BY <1>2, <1>3, <1>4 DEF Held, Holding
<1>5. ASSUME NEW i \in DOMAIN vms, vms[i].exec # e
      PROVE  /\ vms'[i] = vms[i] /\ (Held(i)' <=> Held(i))
             /\ work'[vms[i].exec] = work[vms[i].exec] /\ phase'[vms[i].exec] = phase[vms[i].exec]
             /\ saved'[vms[i].exec] = saved[vms[i].exec]
  <2>1. vms'[i] = vms[i] /\ work'[vms[i].exec] = work[vms[i].exec]
        /\ phase'[vms[i].exec] = phase[vms[i].exec] /\ saved'[vms[i].exec] = saved[vms[i].exec]
    BY <1>1, <1>3, <1>5 DEF OthersKept
  <2>2. Held(i)' <=> Held(i)
    BY <1>2, <2>1 DEF Held
  <2> QED
    BY <2>1, <2>2 DEF Held
<1>6. Holding(e) => Current(e) \in DOMAIN vms /\ vms[Current(e)].exec = e
  BY <1>1, CurrentIs DEF Shape, Holding
<1> QED
  BY <1>2, <1>3, <1>4, <1>5, <1>6

LEMMA RunnerStepKeeps ==
  ASSUME Inv, NEW e \in Executions, RunnerStep(e)
  PROVE  DeviceInv' /\ NetworkInv' /\ NameInv' /\ PauseInv' /\ OnlyKnownLeaks' /\ NoOrphanMachine'
<1> DEFINE c == Current(e)
<1>1. TypeInv /\ DeviceInv /\ NetworkInv /\ NameInv /\ PauseInv /\ OnlyKnownLeaks /\ NoOrphanMachine
  BY DEF Inv
<1>2. /\ DOMAIN vms' = DOMAIN vms
      /\ \A i \in DOMAIN vms : /\ vms[i].exec \in Executions /\ vms[i].tap \in Names
                               /\ vms'[i].exec = vms[i].exec /\ vms'[i].tap = vms[i].tap
                               /\ i # c => vms'[i] = vms[i]
      /\ Holding(e) => c \in DOMAIN vms /\ vms[c].exec = e
  BY <1>1, Machines
<1>mine. ASSUME NEW i \in DOMAIN vms, vms[i].exec = e
      PROVE  /\ Held(i) <=> i = c /\ Holding(e)
             /\ Held(i)' <=> i = c /\ Holding(e)'
  BY <1>1, <1>mine, Machines
<1>other. ASSUME NEW i \in DOMAIN vms, vms[i].exec # e
      PROVE  /\ vms'[i] = vms[i] /\ (Held(i)' <=> Held(i))
             /\ work'[vms[i].exec] = work[vms[i].exec] /\ phase'[vms[i].exec] = phase[vms[i].exec]
             /\ saved'[vms[i].exec] = saved[vms[i].exec]
  BY <1>1, <1>other, Machines
<1>cur. \A f : Current(f)' = Current(f)
  BY <1>1, Machines
<1>3. taps \in [Names -> 0..Len(vms)] /\ DOMAIN vms = 1..Len(vms) /\ Len(vms) \in Nat
      /\ None \notin Names
  BY <1>1, FirecrackerAssumption DEF TypeInv, TypeOK
<1>4. /\ contended' = contended
      /\ leaky \subseteq leaky' /\ undeleted \subseteq undeleted' /\ loose \subseteq loose'
      /\ \A i \in cut : i \in cut' \/ (i = c /\ Holding(e))
  BY DEF RunnerStep
<1>5. vms'[c].proc \in {"running", "paused"} => Live(c) \/ Holding(e)
  BY DEF RunnerStep
<1>6. Holding(e)' => Holding(e)
  BY DEF RunnerStep
<1>7. Deletes(e) \/ (taps' = taps /\ (Holding(e) => Holding(e)' \/ c \in leaky' \cup undeleted'))
  BY DEF RunnerStep
<1>8. Holding(e) /\ vms'[c].proc \in {"running", "paused"} =>
        Holding(e)' \/ (c \in loose' /\ saved'[e] = None)
  BY DEF RunnerStep
<1>9. \A n \in Names : taps'[n] # 0 => taps'[n] = taps[n] /\ taps[n] \in DOMAIN vms
  BY <1>3, <1>7 DEF Deletes
<1>10. DeviceInv'
  BY <1>1, <1>2, <1>9 DEF DeviceInv
<1>11. OnlyKnownLeaks'
  <2> SUFFICES ASSUME NEW n \in Names, taps'[n] # 0
               PROVE  (Held(taps[n]) \/ taps[n] \in leaky \cup undeleted)'
    BY DEF OnlyKnownLeaks
  <2> DEFINE i == taps[n]
  <2>1. taps'[n] = i /\ i \in DOMAIN vms /\ vms[i].tap = n
    BY <1>1, <1>9 DEF DeviceInv
  <2>2. Held(i) \/ i \in leaky \cup undeleted
    BY <1>1, <2>1 DEF OnlyKnownLeaks
  <2>3. Held(i)' \/ i \in leaky' \cup undeleted'
    <3>1. CASE vms[i].exec # e
      BY <1>other, <1>4, <2>1, <2>2, <3>1
    <3>2. CASE vms[i].exec = e /\ Held(i)
      <4>1. i = c /\ Holding(e)
        BY <1>mine, <2>1, <3>2
      <4>2. ~Deletes(e)
        BY <1>2, <1>3, <2>1, <4>1 DEF Deletes
      <4> QED
        BY <1>mine, <1>7, <2>1, <3>2, <4>1, <4>2
    <3> QED
      BY <1>4, <2>2, <3>1, <3>2
  <2> QED
    BY <2>1, <2>3 DEF Held
<1>12. ASSUME NEW i \in DOMAIN vms, Live(i)'
       PROVE  Live(i) \/ (vms[i].exec = e /\ i = c /\ Holding(e))
  <2>1. CASE i # c
    BY <1>2, <1>12, <2>1 DEF Live
  <2>2. CASE i = c
    BY <1>2, <1>5, <1>12, <2>2 DEF Live
  <2> QED
    BY <2>1, <2>2
<1>13. ASSUME NEW i \in DOMAIN vms, Held(i)'
       PROVE  Held(i)
  BY <1>mine, <1>other, <1>6, <1>13
<1>14. NetworkInv'
  <2> SUFFICES ASSUME NEW i \in DOMAIN vms, Live(i)' \/ Held(i)'
               PROVE  taps'[vms[i].tap] = i \/ vms[i].tap \in contended
    BY <1>2, <1>4 DEF NetworkInv
  <2>1. Live(i) \/ Held(i)
    BY <1>mine, <1>12, <1>13
  <2>2. taps[vms[i].tap] = i \/ vms[i].tap \in contended
    BY <1>1, <2>1 DEF NetworkInv
  <2>3. CASE Deletes(e)
    <3>1. i # c
      <4>1. CASE i = c
        BY <1>2, <1>mine, <2>3, <4>1 DEF Deletes, Live
      <4> QED
        BY <4>1
    <3>2. taps[vms[c].tap] = c \/ vms[c].tap \in contended
      BY <1>1, <1>2, <1>mine, <2>3 DEF NetworkInv, Deletes
    <3> QED
      BY <1>2, <1>3, <2>2, <2>3, <3>1, <3>2 DEF Deletes
  <2> QED
    BY <1>7, <2>2, <2>3
<1>15. NoOrphanMachine'
  <2> SUFFICES ASSUME NEW i \in DOMAIN vms, Live(i)'
               PROVE  Held(i)' \/ i \in loose'
    BY <1>2 DEF NoOrphanMachine
  <2>1. CASE Holding(e) /\ i = c
    BY <1>2, <1>mine, <1>8, <2>1 DEF Live
  <2>2. CASE ~(Holding(e) /\ i = c)
    <3>1. Held(i) \/ i \in loose
      BY <1>1, <1>12, <2>2 DEF NoOrphanMachine
    <3> QED
      BY <1>mine, <1>other, <1>4, <2>2, <3>1
  <2> QED
    BY <2>1, <2>2
<1>16. PauseInv'
  <2> SUFFICES ASSUME NEW i \in DOMAIN vms, vms'[i].proc = "paused"
               PROVE  \/ i \in cut'
                      \/ i = Current(vms[i].exec) /\ work'[vms[i].exec].pc \in {"paused", "written"}
    BY <1>2, <1>cur DEF PauseInv
  <2>1. CASE vms[i].exec # e
    <3>1. i = c => ~Holding(e)
      BY <1>2, <2>1
    <3> QED
      BY <1>1, <1>other, <1>4, <2>1, <3>1 DEF PauseInv
  <2>2. CASE vms[i].exec = e /\ i # c
    BY <1>1, <1>2, <1>4, <2>2 DEF PauseInv
  <2>3. CASE vms[i].exec = e /\ i = c
    <3>1. \/ c \in cut' \/ work'[e].pc \in {"paused", "written"}
          \/ vms[c].proc = "paused" /\ work[e].pc \notin {"paused", "written"} /\ (c \in cut => c \in cut')
      BY <2>3 DEF RunnerStep
    <3>2. vms[c].proc = "paused" => c \in cut \/ work[e].pc \in {"paused", "written"}
      BY <1>1, <2>3 DEF PauseInv
    <3> QED
      BY <2>3, <3>1, <3>2
  <2> QED
    BY <2>1, <2>2, <2>3
<1>17. NameInv'
  <2> SUFFICES ASSUME NEW i \in DOMAIN vms, Live(i)'
               PROVE  LET f == vms[i].exec IN
                      /\ work'[f].pc = "named" /\ vms[i].tap = work'[f].tap => vms[i].tap \in contended
                      /\ vms[i].tap = saved'[f] => Held(i)' \/ vms[i].tap \in contended
    BY <1>2, <1>4 DEF NameInv
  <2>1. CASE vms[i].exec # e
    <3>1. Live(i)
      BY <1>other, <2>1 DEF Live
    <3> QED
      BY <1>1, <1>other, <2>1, <3>1 DEF NameInv
  <2>2. CASE vms[i].exec = e
    <3>1. work'[e].pc = "named" => \A k \in Mine(e) :
            vms'[k] = vms[k] /\ (Live(k) /\ vms[k].tap = work'[e].tap => vms[k].tap \in contended)
      BY DEF RunnerStep
    <3>2. i \in Mine(e)
      BY <2>2 DEF Mine
    <3>3. work'[e].pc = "named" /\ vms[i].tap = work'[e].tap => vms[i].tap \in contended
      BY <3>1, <3>2 DEF Live
    <3>4. ASSUME vms[i].tap = saved'[e]
          PROVE  Held(i)' \/ vms[i].tap \in contended
      <4>1. \/ saved'[e] \in {None, saved[e]}
            \/ saved'[e] = vms[c].tap /\ Holding(e) /\ Holding(e)'
            \/ saved'[e] \in Names /\ taps[saved'[e]] = 0
        BY DEF RunnerStep
      <4>2. saved'[e] # None
        BY <1>2, <1>3, <3>4
      <4>3. CASE i = c /\ Holding(e)
        BY <1>mine, <1>8, <2>2, <4>2, <4>3 DEF Live
      <4>4. CASE ~(i = c /\ Holding(e))
        <5>1. Live(i) /\ ~Held(i) /\ i # 0
          BY <1>mine, <1>3, <1>12, <2>2, <4>4
        <5>2. taps[vms[i].tap] = i \/ vms[i].tap \in contended
          BY <1>1, <5>1 DEF NetworkInv
        <5>3. CASE saved'[e] = saved[e]
          BY <1>1, <2>2, <3>4, <5>1, <5>3 DEF NameInv
        <5>4. CASE saved'[e] = vms[c].tap /\ Holding(e)
          <6>1. c \in DOMAIN vms /\ Held(c) /\ i # c
            BY <1>2, <1>mine, <4>4, <5>4
          <6>2. taps[vms[c].tap] = c \/ vms[c].tap \in contended
            BY <1>1, <6>1 DEF NetworkInv
          <6> QED
            BY <3>4, <5>2, <5>4, <6>1, <6>2
        <5>5. CASE saved'[e] \in Names /\ taps[saved'[e]] = 0
          BY <3>4, <5>1, <5>2, <5>5
        <5> QED
          BY <4>1, <4>2, <5>3, <5>4, <5>5
      <4> QED
        BY <4>3, <4>4
    <3> QED
      BY <2>2, <3>3, <3>4
  <2> QED
    BY <2>1, <2>2
<1> QED
  BY <1>10, <1>11, <1>14, <1>15, <1>16, <1>17

-----------------------------------------------------------------------------
(***************************************************************************)
(* The steps of a runner are such steps.                                   *)
(***************************************************************************)
LEMMA Own ==
  ASSUME TypeInv, NEW e \in Executions
  PROVE  /\ VarTypes /\ vms \in Seq(VM) /\ Shape(e) /\ work[e] \in Work
         /\ Holding(e) => /\ Mine(e) # {} /\ Current(e) \in DOMAIN vms
                          /\ vms[Current(e)].exec = e /\ vms[Current(e)] \in VM
<1>1. VarTypes /\ vms \in Seq(VM) /\ Shape(e)
  BY TypeInvIs
<1>2. Holding(e) => Mine(e) # {}
  BY <1>1 DEF Shape, Holding
<1>3. Mine(e) # {} => Current(e) \in DOMAIN vms /\ vms[Current(e)].exec = e
  BY <1>1, CurrentIs
<1>4. work[e] \in Work
  BY <1>1 DEF VarTypes
<1>5. \A i \in DOMAIN vms : vms[i] \in VM
  BY <1>1
<1> QED
  BY <1>1, <1>2, <1>3, <1>4, <1>5

LEMMA EndsIs ==
  ASSUME VarTypes, NEW e \in Executions, NEW p \in Phases, Ends(e, p)
  PROVE  /\ work' \in [Executions -> Work] /\ phase' \in [Executions -> Phases]
         /\ work'[e] = Idle /\ phase'[e] = p /\ work'[e].pc = "idle" /\ saved' = saved
         /\ \A f \in Executions \ {e} : work'[f] = work[f] /\ phase'[f] = phase[f]
<1>1. work \in [Executions -> Work] /\ phase \in [Executions -> Phases]
  BY DEF VarTypes
<1>2. work' = [work EXCEPT ![e] = Idle] /\ phase' = [phase EXCEPT ![e] = p] /\ saved' = saved
  BY DEF Ends
<1>3. Idle.pc = "idle"
  BY DEF Idle
<1> QED
  BY <1>1, <1>2, <1>3, IdleType

\* The runner has no machine any more: it is gone, or about to retry.
Quits(e) ==
  /\ work' \in [Executions -> Work] /\ phase' \in [Executions -> Phases]
  /\ saved' \in [Executions -> Names \cup {None}] /\ row' \in [Executions -> Rows]
  /\ work'[e] = Idle /\ work'[e].pc = "idle"
  /\ \/ phase'[e] = "none" /\ saved'[e] = None
     \/ phase'[e] = "due" /\ saved'[e] = saved[e]
  /\ \A f \in Executions \ {e} :
       work'[f] = work[f] /\ phase'[f] = phase[f] /\ saved'[f] = saved[f]

LEMMA LeavesIs ==
  ASSUME VarTypes, NEW e \in Executions, NEW r \in Rows, Leaves(e, r)
  PROVE  Quits(e) /\ phase'[e] = "none" /\ saved'[e] = None
<1>1. /\ work \in [Executions -> Work] /\ phase \in [Executions -> Phases]
      /\ saved \in [Executions -> Names \cup {None}] /\ row \in [Executions -> Rows]
  BY DEF VarTypes
<1>2. /\ work' = [work EXCEPT ![e] = Idle] /\ phase' = [phase EXCEPT ![e] = "none"]
      /\ saved' = [saved EXCEPT ![e] = None] /\ row' = [row EXCEPT ![e] = r]
  BY DEF Leaves
<1>3. Idle.pc = "idle" /\ "none" \in Phases
  BY DEF Idle, Phases
<1>4. work' \in [Executions -> Work] /\ phase' \in [Executions -> Phases]
  BY <1>1, <1>2, <1>3, IdleType
<1>5. saved' \in [Executions -> Names \cup {None}] /\ row' \in [Executions -> Rows]
  BY <1>1, <1>2
<1>6. work'[e] = Idle /\ phase'[e] = "none" /\ saved'[e] = None
  BY <1>1, <1>2
<1>7. \A f \in Executions \ {e} :
        work'[f] = work[f] /\ phase'[f] = phase[f] /\ saved'[f] = saved[f]
  BY <1>1, <1>2
<1> QED
  BY <1>3, <1>4, <1>5, <1>6, <1>7 DEF Quits

LEMMA FailsIs ==
  ASSUME VarTypes, NEW e \in Executions, Fails(e)
  PROVE  Quits(e) /\ phase'[e] = "none" /\ saved'[e] = None
<1>1. PICK r : Leaves(e, r) /\ r \in {"done", row[e]}
  BY DEF Fails
<1>2. r \in Rows
  BY <1>1 DEF VarTypes, Rows
<1> QED
  BY <1>1, <1>2, LeavesIs

LEMMA DecideIs ==
  ASSUME VarTypes, NEW e \in Executions, Decide(e)
  PROVE  Quits(e)
<1>1. CASE Leaves(e, "done") \/ Leaves(e, "pending_retry")
  BY <1>1, LeavesIs DEF Rows
<1>2. CASE Ends(e, "due") /\ UNCHANGED row
  <2>1. "due" \in Phases
    BY DEF Phases
  <2> QED
    BY <1>2, <2>1, EndsIs DEF Quits, VarTypes
<1> QED
  BY <1>1, <1>2 DEF Decide

AtPoints == {"tapped", "launched", "paused", "written"}

LEMMA AtIs ==
  ASSUME VarTypes, NEW e \in Executions, NEW q \in AtPoints, work' = At(e, q)
  PROVE  /\ work' \in [Executions -> Work] /\ work'[e].pc = q /\ work'[e].tap = work[e].tap
         /\ \A f \in Executions \ {e} : work'[f] = work[f]
<1>1. work \in [Executions -> Work] /\ work[e] \in Work
  BY DEF VarTypes
<1>2. work' = [work EXCEPT ![e] = [work[e] EXCEPT !.pc = q]]
  BY DEF At
<1>3. [work[e] EXCEPT !.pc = q] \in Work
  BY <1>1 DEF Work, AtPoints
<1>4. [work[e] EXCEPT !.pc = q].pc = q /\ [work[e] EXCEPT !.pc = q].tap = work[e].tap
  BY <1>1 DEF Work
<1> QED
  BY <1>1, <1>2, <1>3, <1>4

\* The process of the machine a runner holds changes.
LEMMA ProcStep ==
  ASSUME TypeInv, NEW e \in Executions, Holding(e), NEW p \in Procs, SetProc(e, p)
  PROVE  /\ SameMachines /\ vms'[Current(e)].proc = p
         /\ \A i \in DOMAIN vms \ {Current(e)} : vms'[i] = vms[i]
         /\ DOMAIN vms' = DOMAIN vms /\ Len(vms') = Len(vms)
         /\ Mine(e)' = Mine(e) /\ Current(e)' = Current(e)
  BY Own, SetProcIs, CurrentKept DEF SameMachines

\* The same, with a machine that nothing happens to.
LEMMA QuietStep ==
  ASSUME TypeInv, NEW e, UNCHANGED vms
  PROVE  /\ SameMachines /\ DOMAIN vms' = DOMAIN vms /\ Len(vms') = Len(vms)
         /\ \A i \in DOMAIN vms : vms'[i] = vms[i]
         /\ Mine(e)' = Mine(e) /\ Current(e)' = Current(e)
  BY NoChange

\* A runner gives its machine up: the process is dead, and the device deleted, or
\* the machine recorded as one that leaves it behind.
LEMMA GivesUp ==
  ASSUME TypeInv, NEW e \in Executions, Holding(e), SetProc(e, "dead"), Quits(e),
         \/ deleteTAPDevice(e, vms[Current(e)].tap) /\ UNCHANGED leaky
         \/ leaky' = leaky \cup {Current(e)} /\ UNCHANGED <<taps, undeleted>>,
         snapshot' = snapshot, recorded' \subseteq Executions,
         UNCHANGED <<loose, cut, contended, renamed, crashes>>
  PROVE  TypeInv' /\ RunnerStep(e)
<1> DEFINE c == Current(e)
<1>1. VarTypes /\ c \in DOMAIN vms /\ vms[c].exec = e /\ vms[c].tap \in Names
  BY Own DEF VM
<1>2. /\ SameMachines /\ vms'[c].proc = "dead" /\ \A i \in DOMAIN vms \ {c} : vms'[i] = vms[i]
      /\ DOMAIN vms' = DOMAIN vms /\ Len(vms') = Len(vms)
  BY ProcStep DEF Procs
<1>3. /\ work'[e] = Idle /\ work'[e].pc = "idle" /\ phase'[e] \in {"none", "due"}
      /\ (phase'[e] = "none" => saved'[e] = None) /\ saved'[e] \in {None, saved[e]}
  BY DEF Quits
<1>4. OthersKept(e)
  BY <1>1, <1>2 DEF OthersKept, Quits
<1>5. \/ taps' = [taps EXCEPT ![vms[c].tap] = 0] /\ leaky' = leaky /\ undeleted' = undeleted
      \/ taps' = taps /\ leaky' = leaky /\ undeleted' = undeleted \cup {c}
      \/ taps' = taps /\ leaky' = leaky \cup {c} /\ undeleted' = undeleted
  BY DEF deleteTAPDevice
<1>6. VarTypes'
  <2>1. taps' \in [Names -> 0..Len(vms')]
    BY <1>1, <1>2, <1>5 DEF VarTypes
  <2>2. leaky' \cup undeleted' \cup loose' \cup cut' \subseteq DOMAIN vms'
    BY <1>1, <1>2, <1>5 DEF VarTypes
  <2> QED
    BY <1>1, <2>1, <2>2 DEF VarTypes, Quits
<1>7. Shape(e)'
  BY <1>3 DEF Shape
<1>8. ~Holding(e)'
  BY <1>3 DEF Holding
<1>9. Deletes(e) \/ (taps' = taps /\ c \in leaky' \cup undeleted')
  BY <1>2, <1>5, <1>8 DEF Deletes
<1>10. /\ leaky \subseteq leaky' /\ undeleted \subseteq undeleted'
  BY <1>5
<1>11. RunnerStep(e)
  BY <1>2, <1>3, <1>4, <1>8, <1>9, <1>10 DEF RunnerStep
<1> QED
  BY <1>2, <1>4, <1>6, <1>7, <1>11, StepOfOne

\* A runner that holds a machine goes on holding it.
LEMMA Stays ==
  ASSUME TypeInv, NEW e \in Executions, phase[e] = "up",
         SameMachines, \A i \in DOMAIN vms \ {Current(e)} : vms'[i] = vms[i],
         vms'[Current(e)].proc # "none",
         work' \in [Executions -> Work], \A f \in Executions \ {e} : work'[f] = work[f],
         work'[e] = Idle \/ work'[e].pc \in {"paused", "written"},
         saved' \in [Executions -> Names \cup {None}],
         \A f \in Executions \ {e} : saved'[f] = saved[f],
         saved'[e] \in {saved[e], vms[Current(e)].tap},
         UNCHANGED <<taps, phase, row, leaky, undeleted, loose, contended, renamed, crashes>>,
         recorded' \subseteq Executions, snapshot' \in [Executions -> Names \cup {None}],
         cut' \subseteq DOMAIN vms, \A i \in cut : i \in cut' \/ i = Current(e),
         vms'[Current(e)].proc = "paused" =>
           Current(e) \in cut' \/ work'[e].pc \in {"paused", "written"}
  PROVE  TypeInv' /\ RunnerStep(e)
<1> DEFINE c == Current(e)
<1>1. VarTypes /\ Shape(e) /\ Holding(e) /\ Mine(e) # {} /\ c \in DOMAIN vms /\ vms[c].exec = e
  BY Own DEF Holding
<1>2. DOMAIN vms' = DOMAIN vms /\ Len(vms') = Len(vms) /\ Mine(e)' = Mine(e) /\ Current(e)' = c
  BY CurrentKept DEF SameMachines, TypeInv
<1>3. OthersKept(e)
  BY <1>1 DEF OthersKept
<1>4. VarTypes'
  BY <1>1, <1>2 DEF VarTypes
<1>5. phase'[e] = "up" /\ Holding(e)' /\ work'[e].pc \in {"idle", "paused", "written"}
  BY DEF Holding, Idle
<1>6. Shape(e)'
  BY <1>1, <1>2, <1>5 DEF Shape
<1>7. RunnerStep(e)
  BY <1>1, <1>3, <1>5 DEF RunnerStep
<1> QED
  BY <1>3, <1>4, <1>6, <1>7, StepOfOne

LEMMA LaunchStep ==
  ASSUME TypeInv, NEW e \in Executions, Launch(e)
  PROVE  TypeInv' /\ RunnerStep(e)
<1> DEFINE c == Current(e)
<1>1. /\ UNCHANGED <<recorded, snapshot, leaky, loose, cut, contended, renamed, crashes>>
      /\ work[e].pc = "tapped"
  BY DEF Launch
<1>2. VarTypes /\ Shape(e) /\ Holding(e) /\ Mine(e) # {} /\ c \in DOMAIN vms /\ vms[c].exec = e
  BY <1>1, Own DEF Holding
<1>3. phase[e] \in {"due", "waking"} /\ vms[c].tap = work[e].tap /\ work[e].tap \in Names
  BY <1>1, <1>2 DEF Shape
<1>4. CASE /\ SetProc(e, "running") /\ work' = At(e, "launched")
           /\ UNCHANGED <<taps, phase, saved, row, undeleted>>
  <2>1. /\ SameMachines /\ vms'[c].proc = "running" /\ \A i \in DOMAIN vms \ {c} : vms'[i] = vms[i]
        /\ DOMAIN vms' = DOMAIN vms /\ Len(vms') = Len(vms)
        /\ Mine(e)' = Mine(e) /\ Current(e)' = c
    BY <1>2, <1>4, ProcStep DEF Procs
  <2>2. work' \in [Executions -> Work] /\ work'[e].pc = "launched" /\ work'[e].tap = work[e].tap
        /\ \A f \in Executions \ {e} : work'[f] = work[f]
    BY <1>2, <1>4, AtIs DEF AtPoints
  <2>3. OthersKept(e)
    BY <1>2, <1>4, <2>1, <2>2 DEF OthersKept
  <2>4. VarTypes'
    BY <1>1, <1>2, <1>4, <2>1, <2>2 DEF VarTypes
  <2>5. Shape(e)'
    BY <1>2, <1>3, <1>4, <2>1, <2>2 DEF Shape, SameMachines
  <2>6. Holding(e)'
    BY <2>2 DEF Holding
  <2>7. RunnerStep(e)
    BY <1>1, <1>2, <1>4, <2>1, <2>2, <2>3, <2>6 DEF RunnerStep
  <2> QED
    BY <2>1, <2>3, <2>4, <2>5, <2>7, StepOfOne
<1>5. CASE SetProc(e, "dead") /\ deleteTAPDevice(e, work[e].tap) /\ Fails(e)
  <2>1. Quits(e) /\ recorded' \subseteq Executions
    BY <1>1, <1>2, <1>5, FailsIs DEF VarTypes
  <2> QED
    BY <1>1, <1>2, <1>3, <1>5, <2>1, GivesUp
<1> QED
  BY <1>4, <1>5 DEF Launch

LEMMA ConfigureStep ==
  ASSUME TypeInv, NEW e \in Executions, Configure(e)
  PROVE  TypeInv' /\ RunnerStep(e)
<1> DEFINE c == Current(e)
<1>1. /\ UNCHANGED <<recorded, snapshot, leaky, loose, cut, contended, renamed, crashes>>
      /\ work[e].pc = "launched"
  BY DEF Configure
<1>2. VarTypes /\ Shape(e) /\ Holding(e) /\ Mine(e) # {} /\ c \in DOMAIN vms /\ vms[c].exec = e
  BY <1>1, Own DEF Holding
<1>3. phase[e] \in {"due", "waking"} /\ vms[c].proc \in {"running", "dead"}
      /\ vms[c].tap = work[e].tap /\ work[e].tap \in Names
  BY <1>1, <1>2 DEF Shape
<1>4. CASE SetUp(e) /\ UNCHANGED <<taps, undeleted>>
  <2>1. PICK d \in Names \cup {None} : vms' = [vms EXCEPT ![c].nic = d]
    <3>1. snapshot[e] \in Names \cup {None}
      BY <1>2 DEF VarTypes
    <3> QED
      BY <1>3, <1>4, <3>1 DEF SetUp
  <2>2. /\ SameMachines /\ vms'[c].proc = vms[c].proc /\ \A i \in DOMAIN vms \ {c} : vms'[i] = vms[i]
    BY <1>2, <2>1, NicChange DEF TypeInv
  <2>3. DOMAIN vms' = DOMAIN vms /\ Len(vms') = Len(vms) /\ Mine(e)' = Mine(e) /\ Current(e)' = c
    BY <2>2, CurrentKept DEF SameMachines, TypeInv
  <2>4. /\ work' \in [Executions -> Work] /\ phase' \in [Executions -> Phases]
        /\ work'[e] = Idle /\ phase'[e] = "up" /\ work'[e].pc = "idle" /\ saved' = saved
        /\ \A f \in Executions \ {e} : work'[f] = work[f] /\ phase'[f] = phase[f]
    BY <1>2, <1>4, EndsIs DEF SetUp, Phases
  <2>5. OthersKept(e)
    BY <1>2, <2>2, <2>4 DEF OthersKept
  <2>6. row' \in [Executions -> Rows]
    BY <1>2, <1>4 DEF SetUp, VarTypes, Rows
  <2>7. VarTypes'
    BY <1>1, <1>2, <1>4, <2>3, <2>4, <2>6 DEF VarTypes
  <2>8. Shape(e)'
    BY <1>2, <1>3, <2>2, <2>3, <2>4 DEF Shape
  <2>9. Holding(e)'
    BY <2>4 DEF Holding
  <2>10. RunnerStep(e)
    BY <1>1, <1>2, <1>3, <1>4, <2>2, <2>4, <2>5, <2>9 DEF RunnerStep
  <2> QED
    BY <2>2, <2>5, <2>7, <2>8, <2>10, StepOfOne
<1>5. CASE SetProc(e, "dead") /\ deleteTAPDevice(e, work[e].tap) /\ Fails(e)
  <2>1. Quits(e) /\ recorded' \subseteq Executions
    BY <1>1, <1>2, <1>5, FailsIs DEF VarTypes
  <2> QED
    BY <1>1, <1>2, <1>3, <1>5, <2>1, GivesUp
<1> QED
  BY <1>4, <1>5 DEF Configure

LEMMA PauseStep ==
  ASSUME TypeInv, NEW e \in Executions, Pause(e)
  PROVE  TypeInv' /\ RunnerStep(e)
<1> DEFINE c == Current(e)
<1>1. /\ UNCHANGED <<taps, phase, saved, row, recorded, snapshot,
                     leaky, undeleted, loose, contended, renamed, crashes>>
      /\ work[e] = Idle /\ phase[e] = "up" /\ SetProc(e, "paused")
      /\ \/ work' = At(e, "paused") /\ cut' = cut
         \/ cut' = cut \cup {c} /\ work' = work
  BY DEF Pause
<1>2. VarTypes /\ Holding(e) /\ c \in DOMAIN vms
  BY <1>1, Own DEF Holding
<1>3. /\ SameMachines /\ vms'[c].proc = "paused" /\ \A i \in DOMAIN vms \ {c} : vms'[i] = vms[i]
  BY <1>1, <1>2, ProcStep DEF Procs
<1>4. /\ work' \in [Executions -> Work] /\ \A f \in Executions \ {e} : work'[f] = work[f]
      /\ \/ cut' = cut /\ work'[e].pc = "paused"
         \/ cut' = cut \cup {c} /\ work'[e] = Idle
  <2>1. CASE work' = At(e, "paused") /\ cut' = cut
    BY <1>2, <2>1, AtIs DEF AtPoints
  <2>2. CASE cut' = cut \cup {c} /\ work' = work
    BY <1>1, <1>2, <2>2 DEF VarTypes
  <2> QED
    BY <1>1, <2>1, <2>2
<1>5. saved' \in [Executions -> Names \cup {None}] /\ saved' = saved /\ recorded' \subseteq Executions
      /\ snapshot' \in [Executions -> Names \cup {None}] /\ cut' \subseteq DOMAIN vms
  BY <1>1, <1>2 DEF VarTypes
<1> QED
  BY <1>1, <1>3, <1>4, <1>5, Stays

LEMMA ContextEndsStep ==
  ASSUME TypeInv, NEW e \in Executions, ContextEnds(e)
  PROVE  TypeInv' /\ RunnerStep(e)
<1> DEFINE c == Current(e)
<1>1. /\ UNCHANGED <<taps, vms, phase, saved, row, recorded, snapshot,
                     leaky, undeleted, loose, cut, contended, renamed, crashes>>
      /\ work[e].pc \in {"paused", "written"} /\ work' = [work EXCEPT ![e].ctx = FALSE]
  BY DEF ContextEnds, aux
<1>2. VarTypes /\ Shape(e) /\ work[e] \in Work /\ work \in [Executions -> Work]
  BY Own DEF VarTypes
<1>3. phase[e] = "up" /\ vms[c].proc # "none"
  BY <1>1, <1>2 DEF Shape
<1>4. SameMachines /\ \A i \in DOMAIN vms : vms'[i] = vms[i]
  BY <1>1, QuietStep
<1>5. [work[e] EXCEPT !.ctx = FALSE] \in Work
  BY <1>2, Zenon DEF Work
<1>6. [work[e] EXCEPT !.ctx = FALSE].pc = work[e].pc
  BY <1>2 DEF Work
<1>7. work' = [work EXCEPT ![e] = [work[e] EXCEPT !.ctx = FALSE]]
  BY <1>1
<1>8. /\ work' \in [Executions -> Work] /\ work'[e].pc = work[e].pc
      /\ \A f \in Executions \ {e} : work'[f] = work[f]
  BY <1>2, <1>5, <1>6, <1>7
<1>9. saved' \in [Executions -> Names \cup {None}] /\ recorded' \subseteq Executions
      /\ snapshot' \in [Executions -> Names \cup {None}] /\ cut' \subseteq DOMAIN vms
  BY <1>1, <1>2 DEF VarTypes
<1> QED
  BY <1>1, <1>3, <1>4, <1>8, <1>9, Stays

LEMMA ResumeStep ==
  ASSUME TypeInv, NEW e \in Executions, phase[e] = "up", NEW ok \in BOOLEAN, Resume(e, ok)
  PROVE  /\ SameMachines /\ \A i \in DOMAIN vms \ {Current(e)} : vms'[i] = vms[i]
         /\ \A i \in cut : i \in cut' \/ i = Current(e)
         /\ cut' \subseteq DOMAIN vms /\ vms'[Current(e)].proc # "none"
         /\ vms'[Current(e)].proc = "paused" => Current(e) \in cut'
<1>1. VarTypes /\ Shape(e) /\ Holding(e) /\ Current(e) \in DOMAIN vms
  BY Own DEF Holding
<1>2. CASE ok
  <2>1. SetProc(e, "running") /\ cut' = cut \ {Current(e)}
    BY <1>2 DEF Resume
  <2> QED
    BY <1>1, <2>1, ProcStep DEF Procs, VarTypes
<1>3. CASE ~ok
  <2>1. cut' = cut \cup {Current(e)} /\ UNCHANGED vms
    BY <1>3 DEF Resume
  <2> QED
    BY <1>1, <2>1, QuietStep DEF VarTypes, Shape
<1> QED
  BY <1>2, <1>3

LEMMA WriteIs ==
  ASSUME TypeInv, NEW e \in Executions, phase[e] = "up", Write(e) \/ UNCHANGED snapshot
  PROVE  snapshot' \in [Executions -> Names \cup {None}]
<1>1. VarTypes /\ vms[Current(e)].nic \in Names \cup {None}
  BY Own DEF Holding, VM
<1> QED
  BY <1>1 DEF Write, VarTypes

LEMMA SnapshotStep ==
  ASSUME TypeInv, NEW e \in Executions, Snapshot(e)
  PROVE  TypeInv' /\ RunnerStep(e)
<1> DEFINE c == Current(e)
<1>1. UNCHANGED <<taps, row, recorded, leaky, undeleted, loose, contended, renamed, crashes>>
      /\ work[e].pc = "paused" /\ (Write(e) \/ UNCHANGED snapshot)
  BY DEF Snapshot
<1>2. VarTypes /\ Shape(e) /\ phase[e] = "up"
  BY <1>1, Own DEF Shape
<1>3. vms[c].proc # "none" /\ snapshot' \in [Executions -> Names \cup {None}]
      /\ recorded' \subseteq Executions
  BY <1>1, <1>2, WriteIs DEF Shape, VarTypes
<1>4. CASE work' = At(e, "written") /\ UNCHANGED <<vms, phase, saved, cut>>
  <2>1. SameMachines /\ \A i \in DOMAIN vms : vms'[i] = vms[i]
    BY <1>4, QuietStep
  <2>2. work' \in [Executions -> Work] /\ work'[e].pc = "written"
        /\ \A f \in Executions \ {e} : work'[f] = work[f]
    BY <1>2, <1>4, AtIs DEF AtPoints
  <2>3. saved' \in [Executions -> Names \cup {None}] /\ saved' = saved /\ cut' \subseteq DOMAIN vms
    BY <1>2, <1>4 DEF VarTypes
  <2> QED
    BY <1>1, <1>2, <1>3, <1>4, <2>1, <2>2, <2>3, Stays
<1>5. ASSUME NEW ok \in BOOLEAN, Resume(e, ok), Ends(e, "up")
      PROVE  TypeInv' /\ RunnerStep(e)
  <2>1. /\ SameMachines /\ \A i \in DOMAIN vms \ {c} : vms'[i] = vms[i]
        /\ \A i \in cut : i \in cut' \/ i = c
        /\ cut' \subseteq DOMAIN vms /\ vms'[c].proc # "none"
        /\ vms'[c].proc = "paused" => c \in cut'
    BY <1>2, <1>5, ResumeStep
  <2>2. /\ work' \in [Executions -> Work] /\ work'[e] = Idle /\ saved' = saved
        /\ \A f \in Executions \ {e} : work'[f] = work[f]
    BY <1>2, <1>5, EndsIs DEF Phases
  <2>3. phase' = phase
    BY <1>2, <1>5 DEF Ends, VarTypes
  <2>4. saved' \in [Executions -> Names \cup {None}]
    BY <1>2, <2>2 DEF VarTypes
  <2> QED
    BY <1>1, <1>2, <1>3, <2>1, <2>2, <2>3, <2>4, Stays
<1> QED
  BY <1>4, <1>5 DEF Snapshot

LEMMA KeepsRunningStep ==
  ASSUME TypeInv, NEW e \in Executions, KeepsRunning(e)
  PROVE  TypeInv' /\ RunnerStep(e)
<1> DEFINE c == Current(e)
<1>1. /\ UNCHANGED <<taps, phase, row, snapshot, leaky, undeleted, loose, contended, renamed, crashes>>
      /\ work[e].pc = "written" /\ work' = [work EXCEPT ![e] = Idle]
  BY DEF KeepsRunning
<1>2. PICK ok \in BOOLEAN, w \in SUBSET {e} :
        /\ Resume(e, ok)
        /\ saved' = [saved EXCEPT ![e] = IF ok THEN vms[c].tap ELSE @]
        /\ recorded' = IF ok THEN recorded \cup w ELSE recorded
  BY DEF KeepsRunning
<1>3. VarTypes /\ Shape(e) /\ phase[e] = "up"
  BY <1>1, Own DEF Shape
<1>4. vms[c].tap \in Names
  BY <1>3, Own DEF Holding, VM
<1>5. /\ SameMachines /\ \A i \in DOMAIN vms \ {c} : vms'[i] = vms[i]
      /\ \A i \in cut : i \in cut' \/ i = c
      /\ cut' \subseteq DOMAIN vms /\ vms'[c].proc # "none"
      /\ vms'[c].proc = "paused" => c \in cut'
  BY <1>2, <1>3, ResumeStep
<1>6. work' \in [Executions -> Work] /\ work'[e] = Idle /\ \A f \in Executions \ {e} : work'[f] = work[f]
  BY <1>1, <1>3, IdleType DEF VarTypes
<1>7. /\ saved' \in [Executions -> Names \cup {None}] /\ saved'[e] \in {saved[e], vms[c].tap}
      /\ \A f \in Executions \ {e} : saved'[f] = saved[f]
  BY <1>2, <1>3, <1>4 DEF VarTypes
<1>8. recorded' \subseteq Executions /\ snapshot' \in [Executions -> Names \cup {None}]
  BY <1>1, <1>2, <1>3 DEF VarTypes
<1> QED
  BY <1>1, <1>3, <1>5, <1>6, <1>7, <1>8, Stays

LEMMA SuspendsStep ==
  ASSUME TypeInv, NEW e \in Executions, Suspends(e)
  PROVE  TypeInv' /\ RunnerStep(e)
<1>1. /\ UNCHANGED <<taps, snapshot, undeleted, loose, cut, contended, renamed, crashes>>
      /\ work[e].pc = "written" /\ SetProc(e, "dead") /\ leaky' = leaky \cup {Current(e)}
      /\ (Leaves(e, "suspended") \/ Leaves(e, row[e])) /\ recorded' \subseteq recorded \cup {e}
  BY DEF Suspends
<1>2. VarTypes /\ Holding(e)
  BY <1>1, Own DEF Shape, Holding
<1>3. "suspended" \in Rows /\ row[e] \in Rows
  BY <1>2 DEF VarTypes, Rows
<1>4. Quits(e)
  BY <1>1, <1>2, <1>3, LeavesIs
<1>5. recorded' \subseteq Executions
  BY <1>1, <1>2 DEF VarTypes
<1> QED
  BY <1>1, <1>2, <1>4, <1>5, GivesUp

LEMMA CleanupStep ==
  ASSUME TypeInv, NEW e \in Executions, Cleanup(e)
  PROVE  TypeInv' /\ RunnerStep(e)
<1>1. /\ UNCHANGED <<recorded, snapshot, leaky, loose, cut, contended, renamed, crashes>>
      /\ phase[e] = "up" /\ SetProc(e, "dead") /\ Decide(e)
      /\ deleteTAPDevice(e, vms[Current(e)].tap)
  BY DEF Cleanup
<1>2. VarTypes /\ Holding(e) /\ recorded' \subseteq Executions
  BY <1>1, Own DEF Holding, VarTypes
<1> QED
  BY <1>1, <1>2, DecideIs, GivesUp

LEMMA KilledStep ==
  ASSUME TypeInv, NEW e \in Executions, phase[e] = "up", Kill(e) \/ Stop(e)
  PROVE  TypeInv' /\ RunnerStep(e)
<1>1. /\ UNCHANGED <<taps, recorded, snapshot, undeleted, loose, cut, contended, renamed, crashes>>
      /\ SetProc(e, "dead") /\ leaky' = leaky \cup {Current(e)}
      /\ Leaves(e, "done") \/ Leaves(e, row[e])
  BY DEF Kill, Stop
<1>2. VarTypes /\ Holding(e) /\ recorded' \subseteq Executions
  BY <1>1, Own DEF Holding, VarTypes
<1>3. "done" \in Rows /\ row[e] \in Rows
  BY <1>2 DEF VarTypes, Rows
<1>4. Quits(e)
  BY <1>1, <1>2, <1>3, LeavesIs
<1> QED
  BY <1>1, <1>2, <1>4, GivesUp

LEMMA ExitStep ==
  ASSUME TypeInv, NEW e \in Executions, Exit(e)
  PROVE  TypeInv' /\ RunnerStep(e)
<1> DEFINE c == Current(e)
<1>1. /\ UNCHANGED <<taps, vms, recorded, snapshot, undeleted, cut, contended, renamed, crashes>>
      /\ phase[e] = "up" /\ work[e] = Idle /\ Leaves(e, "done")
      /\ leaky' = leaky \cup {c} /\ loose' = loose \cup {c}
  BY DEF Exit
<1>2. VarTypes /\ Holding(e) /\ c \in DOMAIN vms /\ work[e].pc = "idle"
  BY <1>1, Own DEF Holding, Idle
<1>3. /\ SameMachines /\ \A i \in DOMAIN vms : vms'[i] = vms[i]
      /\ DOMAIN vms' = DOMAIN vms /\ Len(vms') = Len(vms)
  BY <1>1, QuietStep
<1>4. Quits(e) /\ phase'[e] = "none" /\ saved'[e] = None
  BY <1>1, <1>2, LeavesIs DEF Rows
<1>5. work'[e] = Idle /\ work'[e].pc = "idle" /\ ~Holding(e)'
  BY <1>4 DEF Quits, Holding
<1>6. OthersKept(e)
  BY <1>3, <1>4 DEF OthersKept, Quits
<1>7. VarTypes'
  <2>1. leaky' \cup undeleted' \cup loose' \cup cut' \subseteq DOMAIN vms'
    BY <1>1, <1>2, <1>3 DEF VarTypes
  <2> QED
    BY <1>1, <1>2, <1>3, <1>4, <2>1 DEF VarTypes, Quits
<1>8. Shape(e)'
  BY <1>4, <1>5 DEF Shape
<1>9. RunnerStep(e)
  BY <1>1, <1>2, <1>3, <1>4, <1>5, <1>6 DEF RunnerStep
<1> QED
  BY <1>3, <1>6, <1>7, <1>8, <1>9, StepOfOne

\* A runner without a machine, in a step that makes none: it is made itself, or starts
\* an operation, or is gone.
LEMMA Prepares ==
  ASSUME TypeInv, NEW e \in Executions, phase[e] # "up", work[e] = Idle,
         UNCHANGED <<taps, vms, recorded, snapshot, leaky, undeleted, loose, cut, contended, crashes>>,
         renamed' \subseteq Executions,
         work' \in [Executions -> Work], phase' \in [Executions -> Phases],
         saved' \in [Executions -> Names \cup {None}], row' \in [Executions -> Rows],
         \A f \in Executions \ {e} :
           work'[f] = work[f] /\ phase'[f] = phase[f] /\ saved'[f] = saved[f],
         \/ work'[e] = Idle /\ phase'[e] \in {"none", "due", "waking"}
         \/ work'[e].pc = "named" /\ work'[e].tap \in Names /\ phase'[e] \in {"due", "waking"},
         phase'[e] = "none" => saved'[e] = None,
         saved'[e] \in {None, saved[e]} \/ (saved'[e] \in Names /\ taps[saved'[e]] = 0),
         work'[e].pc = "named" =>
           \A i \in Mine(e) : Live(i) /\ vms[i].tap = work'[e].tap => vms[i].tap \in contended
  PROVE  TypeInv' /\ RunnerStep(e)
<1>1. VarTypes /\ Idle.pc = "idle"
  BY TypeInvIs DEF Idle
<1>2. /\ SameMachines /\ \A i \in DOMAIN vms : vms'[i] = vms[i]
      /\ DOMAIN vms' = DOMAIN vms /\ Len(vms') = Len(vms)
      /\ Mine(e)' = Mine(e) /\ Current(e)' = Current(e)
  BY QuietStep
<1>3. ~Holding(e) /\ ~Holding(e)' /\ work'[e].pc \in {"idle", "named"}
  BY <1>1 DEF Holding
<1>4. OthersKept(e)
  BY DEF OthersKept
<1>5. VarTypes'
  BY <1>1 DEF VarTypes
<1>6. Shape(e)'
  BY <1>1, <1>3 DEF Shape
<1>7. \A i \in Mine(e) : vms'[i] = vms[i]
  BY <1>2 DEF Mine
<1>8. RunnerStep(e)
  BY <1>1, <1>2, <1>3, <1>4, <1>7 DEF RunnerStep, Live
<1> QED
  BY <1>2, <1>4, <1>5, <1>6, <1>8, StepOfOne

\* A runner is stopped before it has a machine.
LEMMA StoppedStep ==
  ASSUME TypeInv, NEW e \in Executions, phase[e] # "up", Stop(e)
  PROVE  TypeInv' /\ RunnerStep(e)
<1>1. /\ UNCHANGED <<taps, vms, recorded, snapshot, leaky, undeleted, loose, cut, contended, renamed, crashes>>
      /\ work[e] = Idle /\ Leaves(e, row[e])
  BY DEF Stop
<1>2. VarTypes /\ row[e] \in Rows
  BY TypeInvIs DEF VarTypes
<1>3. Quits(e) /\ phase'[e] = "none" /\ saved'[e] = None
  BY <1>1, <1>2, LeavesIs
<1> QED
  BY <1>1, <1>2, <1>3, Prepares DEF Quits, VarTypes

\* A runner is made, with a checkpoint whose device does not exist, or without.
LEMMA RunnerMade ==
  ASSUME TypeInv, NEW e \in Executions, wakeJob(e) \/ retryJob(e)
  PROVE  TypeInv' /\ RunnerStep(e)
<1>1. /\ UNCHANGED <<taps, vms, work, row, recorded, snapshot,
                     leaky, undeleted, loose, cut, contended, crashes>>
      /\ phase[e] \in {"none", "recover"} /\ renamed' \subseteq renamed \cup {e}
  BY DEF wakeJob, retryJob, Reconstructed
<1>2. PICK n \in ReconstructCheckpoint(e), p \in {"none", "due", "waking"} :
        /\ saved' = [saved EXCEPT ![e] = n] /\ phase' = [phase EXCEPT ![e] = p]
        /\ p = "none" => n = None
  BY DEF wakeJob, retryJob, Reconstructed
<1>3. VarTypes /\ Shape(e) /\ p \in Phases
  BY TypeInvIs DEF Phases
<1>4. n = None \/ (n \in Names /\ taps[n] = 0)
  BY NamesAreFree DEF ReconstructCheckpoint
<1>5. work[e] = Idle
  <2>1. work[e] \in Work
    BY <1>3 DEF VarTypes
  <2>2. work[e].pc = "idle"
    BY <1>1, <1>3, <2>1 DEF Shape, Work
  <2> QED
    BY <1>3, <2>2 DEF Shape
<1>6. /\ phase' \in [Executions -> Phases] /\ phase'[e] = p
      /\ saved' \in [Executions -> Names \cup {None}] /\ saved'[e] = n
      /\ \A f \in Executions \ {e} : phase'[f] = phase[f] /\ saved'[f] = saved[f]
  BY <1>2, <1>3, <1>4 DEF VarTypes
<1>7. work' \in [Executions -> Work] /\ row' \in [Executions -> Rows] /\ work'[e] = Idle
      /\ work'[e].pc = "idle" /\ renamed' \subseteq Executions
  BY <1>1, <1>3, <1>5 DEF VarTypes, Idle
<1> QED
  BY <1>1, <1>2, <1>4, <1>5, <1>6, <1>7, Prepares

\* A name is chosen: a device of that name does not exist, or it is the one in the
\* checkpoint.
LEMMA NamedStep ==
  ASSUME Inv, NEW e \in Executions, Start(e) \/ Restore(e)
  PROVE  TypeInv' /\ RunnerStep(e)
<1>1. TypeInv /\ NetworkInv /\ NameInv
  BY DEF Inv
<1>2. /\ UNCHANGED <<taps, vms, recorded, snapshot, leaky, undeleted, loose, cut, contended, renamed, crashes>>
      /\ work[e] = Idle /\ phase[e] \in {"due", "waking"}
  BY DEF Start, Restore, aux
<1>3. VarTypes /\ vms \in Seq(VM) /\ Idle.pc = "idle" /\ ~Holding(e)
  BY <1>1, <1>2, TypeInvIs DEF Holding, Idle
<1>4. CASE Fails(e)
  <2>1. Quits(e) /\ phase'[e] = "none" /\ saved'[e] = None
    BY <1>3, <1>4, FailsIs
  <2> QED
    BY <1>1, <1>2, <1>3, <2>1, Prepares DEF Quits, VarTypes
<1>5. ASSUME NEW n \in Names, work' = [work EXCEPT ![e].pc = "named", ![e].tap = n],
             UNCHANGED <<phase, saved>>, row' \in [Executions -> Rows],
             taps[n] = 0 \/ n = saved[e]
      PROVE  TypeInv' /\ RunnerStep(e)
  <2>1. work'[e] = [pc |-> "named", tap |-> n, ctx |-> TRUE]
    <3>1. work'[e] = [Idle EXCEPT !.pc = "named", !.tap = n]
      BY <1>2, <1>3, <1>5 DEF VarTypes
    <3> QED
      BY <3>1 DEF Idle
  <2>2. work'[e].pc = "named" /\ work'[e].tap = n /\ work'[e] \in Work
    BY <2>1 DEF Work
  <2>3. ASSUME NEW i \in Mine(e), Live(i), vms[i].tap = n
        PROVE  n \in contended
    <3>1. i \in DOMAIN vms /\ vms[i].exec = e /\ i # 0
      BY <1>3 DEF Mine
    <3>2. CASE taps[n] = 0
      BY <1>1, <2>3, <3>1, <3>2 DEF NetworkInv
    <3>3. CASE n = saved[e]
      <4>1. ~Held(i)
        BY <1>3, <3>1, HeldIs
      <4> QED
        BY <1>1, <2>3, <3>1, <3>3, <4>1 DEF NameInv
    <3> QED
      BY <1>5, <3>2, <3>3
  <2>4. work' \in [Executions -> Work] /\ \A f \in Executions \ {e} : work'[f] = work[f]
    BY <1>3, <1>5, <2>2 DEF VarTypes
  <2>5. phase' \in [Executions -> Phases] /\ saved' \in [Executions -> Names \cup {None}]
        /\ renamed' \subseteq Executions
    BY <1>2, <1>3, <1>5 DEF VarTypes
  <2> QED
    BY <1>1, <1>2, <1>5, <2>2, <2>3, <2>4, <2>5, Prepares
<1>6. CASE Start(e) /\ ~Fails(e)
  <2>1. PICK n \in findUniqueTAPName(e) : work' = [work EXCEPT ![e].pc = "named", ![e].tap = n]
    BY <1>6 DEF Start
  <2>2. n \in Names /\ taps[n] = 0
    BY NamesAreFree
  <2>3. UNCHANGED <<phase, saved>> /\ row' \in [Executions -> Rows]
    BY <1>3, <1>6 DEF Start, VarTypes
  <2> QED
    BY <1>5, <2>1, <2>2, <2>3
<1>7. CASE Restore(e) /\ ~Fails(e)
  <2>1. work' = [work EXCEPT ![e].pc = "named", ![e].tap = saved[e]] /\ UNCHANGED <<phase, saved>>
    BY <1>7 DEF Restore
  <2>2. saved[e] \in Names
    BY <1>3, <1>7 DEF Restore, VarTypes
  <2>3. row' \in [Executions -> Rows]
    BY <1>3, <1>7 DEF Restore, VarTypes, Rows
  <2> QED
    BY <1>5, <2>1, <2>2, <2>3
<1> QED
  BY <1>4, <1>6, <1>7

-----------------------------------------------------------------------------
(***************************************************************************)
(* A device is made.                                                       *)
(***************************************************************************)
\* What the operation ends in: the device is made and the operation goes on, or the
\* runner is gone, with no new machine or with one that never ran.
LEMMA CreateIs ==
  ASSUME TypeInv, NEW e \in Executions, createTAPDevice(e)
  PROVE  /\ UNCHANGED <<recorded, snapshot, leaky, loose, cut, renamed, crashes>>
         /\ work[e].pc = "named" /\ work[e].tap \in Names /\ phase[e] \in {"due", "waking"}
         /\ work' \in [Executions -> Work] /\ phase' \in [Executions -> Phases]
         /\ saved' \in [Executions -> Names \cup {None}] /\ row' \in [Executions -> Rows]
         /\ \A f \in Executions \ {e} :
              work'[f] = work[f] /\ phase'[f] = phase[f] /\ saved'[f] = saved[f]
         /\ \/ /\ taps' = [taps EXCEPT ![work[e].tap] = Len(vms) + 1]
               /\ vms' = Made(e, work[e].tap, "none") /\ undeleted' = undeleted
               /\ work'[e].pc = "tapped" /\ work'[e].tap = work[e].tap
               /\ phase'[e] = phase[e] /\ saved'[e] = saved[e]
            \/ /\ taps' = [taps EXCEPT ![work[e].tap] = 0] \/ taps' = taps
               /\ vms' = vms /\ undeleted' = undeleted
               /\ work'[e] = Idle /\ work'[e].pc = "idle" /\ phase'[e] = "none" /\ saved'[e] = None
            \/ /\ taps' = [taps EXCEPT ![work[e].tap] = Len(vms) + 1]
               /\ vms' = Made(e, work[e].tap, "dead")
               /\ undeleted' = undeleted \cup {Len(vms) + 1}
               /\ work'[e] = Idle /\ work'[e].pc = "idle" /\ phase'[e] = "none" /\ saved'[e] = None
<1>1. /\ UNCHANGED <<recorded, snapshot, leaky, loose, cut, renamed, crashes>> /\ work[e].pc = "named"
  BY DEF createTAPDevice
<1>2. VarTypes /\ work[e].tap \in Names /\ phase[e] \in {"due", "waking"}
  BY <1>1, Own DEF Shape
<1>3. ASSUME work' = At(e, "tapped"), UNCHANGED <<phase, saved, row>>
      PROVE  /\ work' \in [Executions -> Work] /\ phase' \in [Executions -> Phases]
             /\ saved' \in [Executions -> Names \cup {None}] /\ row' \in [Executions -> Rows]
             /\ work'[e].pc = "tapped" /\ work'[e].tap = work[e].tap
             /\ \A f \in Executions \ {e} : work'[f] = work[f]
  <2>1. "tapped" \in AtPoints
    BY DEF AtPoints
  <2>2. /\ work' \in [Executions -> Work] /\ work'[e].pc = "tapped" /\ work'[e].tap = work[e].tap
        /\ \A f \in Executions \ {e} : work'[f] = work[f]
    BY <1>2, <1>3, <2>1, AtIs
  <2> QED
    BY <1>2, <1>3, <2>2 DEF VarTypes
<1>4. ASSUME Fails(e)
      PROVE  Quits(e) /\ phase'[e] = "none" /\ saved'[e] = None
  BY <1>2, <1>4, FailsIs
<1>5. CASE /\ taps' = [taps EXCEPT ![work[e].tap] = Len(vms) + 1] /\ vms' = Made(e, work[e].tap, "none")
           /\ work' = At(e, "tapped") /\ UNCHANGED <<phase, saved, row, undeleted>>
  BY <1>1, <1>2, <1>3, <1>5
<1>6. CASE /\ taps' = [taps EXCEPT ![work[e].tap] = 0] \/ UNCHANGED taps
           /\ Fails(e) /\ UNCHANGED <<vms, undeleted>>
  BY <1>1, <1>2, <1>4, <1>6 DEF Quits
<1>7. CASE /\ taps' = [taps EXCEPT ![work[e].tap] = Len(vms) + 1] /\ vms' = Made(e, work[e].tap, "dead")
           /\ undeleted' = undeleted \cup {Len(vms) + 1} /\ Fails(e)
  BY <1>1, <1>2, <1>4, <1>7 DEF Quits
<1> QED
  BY <1>5, <1>6, <1>7 DEF createTAPDevice

LEMMA CreateTypes ==
  ASSUME TypeInv, NEW e \in Executions, createTAPDevice(e)
  PROVE  TypeInv'
<1> DEFINE n == work[e].tap
           new == Len(vms) + 1
<1>1. /\ UNCHANGED <<recorded, snapshot, leaky, loose, cut, renamed, crashes>>
      /\ work[e].pc = "named" /\ n \in Names /\ phase[e] \in {"due", "waking"}
      /\ work' \in [Executions -> Work] /\ phase' \in [Executions -> Phases]
      /\ saved' \in [Executions -> Names \cup {None}] /\ row' \in [Executions -> Rows]
      /\ \A f \in Executions \ {e} :
           work'[f] = work[f] /\ phase'[f] = phase[f] /\ saved'[f] = saved[f]
  BY CreateIs
<1>2. VarTypes /\ vms \in Seq(VM) /\ Len(vms) \in Nat /\ DOMAIN vms = 1..Len(vms)
  BY Own
<1>3. contended' \subseteq Names
  <2>1. contended' = contended \/ contended' = contended \cup {n}
    BY DEF createTAPDevice
  <2> QED
    BY <1>1, <1>2, <2>1 DEF VarTypes
<1>4. ASSUME taps' = [taps EXCEPT ![n] = 0] \/ taps' = taps, vms' = vms, undeleted' = undeleted,
             work'[e] = Idle, work'[e].pc = "idle", phase'[e] = "none", saved'[e] = None
      PROVE  TypeInv'
  <2>1. taps' \in [Names -> 0..Len(vms')]
    <3>1. taps \in [Names -> 0..Len(vms)] /\ 0 \in 0..Len(vms)
      BY <1>2 DEF VarTypes
    <3>2. [taps EXCEPT ![n] = 0] \in [Names -> 0..Len(vms)]
      BY <3>1
    <3> QED
      BY <1>4, <3>1, <3>2
  <2>2. leaky' \cup undeleted' \cup loose' \cup cut' \subseteq DOMAIN vms'
    <3>1. leaky \cup undeleted \cup loose \cup cut \subseteq DOMAIN vms
      BY <1>2 DEF VarTypes
    <3>2. UNCHANGED <<vms, leaky, undeleted, loose, cut>>
      BY <1>1, <1>4
    <3> QED
      BY <3>1, <3>2
  <2>3. VarTypes'
    BY <1>1, <1>2, <1>3, <2>1, <2>2 DEF VarTypes
  <2>4. OthersKept(e)
    BY <1>1, <1>4 DEF OthersKept
  <2>5. Shape(e)'
    BY <1>4 DEF Shape
  <2> QED
    BY <1>4, <2>3, <2>4, <2>5, NoChange, StepOfOne
<1>5. ASSUME NEW p \in Procs, taps' = [taps EXCEPT ![n] = new], vms' = Made(e, n, p),
             undeleted' = undeleted \/ undeleted' = undeleted \cup {new},
             \/ /\ p = "none" /\ work'[e].pc = "tapped" /\ work'[e].tap = n
                /\ phase'[e] = phase[e] /\ saved'[e] = saved[e]
             \/ work'[e] = Idle /\ work'[e].pc = "idle" /\ phase'[e] = "none" /\ saved'[e] = None
      PROVE  TypeInv'
  <2>1. /\ vms' \in Seq(VM) /\ Len(vms') = new
        /\ DOMAIN vms' = DOMAIN vms \cup {new}
        /\ \A i \in DOMAIN vms : vms'[i] = vms[i]
        /\ vms'[new] = [exec |-> e, tap |-> n, nic |-> None, proc |-> p]
        /\ Mine(e)' # {} /\ Current(e)' = new
        /\ \A f \in Executions \ {e} : Mine(f)' = Mine(f) /\ Current(f)' = Current(f)
    <3>1. vms \in Seq(VM) /\ n \in Names /\ vms' = Made(e, n, p)
      BY <1>1, <1>2, <1>5
    <3> HIDE DEF n
    <3> QED
      BY <3>1, NewMachine
  <2>2. taps' \in [Names -> 0..Len(vms')]
    <3>1. taps \in [Names -> 0..Len(vms)]
      BY <1>2 DEF VarTypes
    <3>2. 0..Len(vms) \subseteq 0..new /\ new \in 0..new
      BY <1>2
    <3> QED
      BY <1>5, <2>1, <3>1, <3>2
  <2>3. leaky' \cup undeleted' \cup loose' \cup cut' \subseteq DOMAIN vms'
    BY <1>1, <1>2, <1>5, <2>1 DEF VarTypes
  <2>4. VarTypes'
    BY <1>1, <1>2, <1>3, <2>2, <2>3 DEF VarTypes
  <2>5. Shape(e)'
    <3>1. vms'[Current(e)'].tap = n /\ vms'[Current(e)'].proc = p
      BY <2>1
    <3> QED
      BY <1>1, <1>5, <2>1, <3>1 DEF Shape
  <2>6. ASSUME NEW f \in Executions \ {e}
        PROVE  Shape(f)'
    <3>1. Shape(f)
      BY DEF TypeInv
    <3>2. Mine(f) # {} => vms'[Current(f)] = vms[Current(f)]
      BY <1>2, <2>1, CurrentIs
    <3>3. Mine(f)' = Mine(f) /\ Current(f)' = Current(f) /\ work'[f] = work[f]
          /\ phase'[f] = phase[f] /\ saved'[f] = saved[f]
      BY <1>1, <2>1
    <3> QED
      BY <3>1, <3>2, <3>3 DEF Shape
  <2>7. \A i \in DOMAIN vms' : vms'[i] \in VM
    <3>1. vms' \in Seq(VM)
      BY <2>1
    <3> QED
      BY <3>1
  <2> QED
    BY <2>1, <2>4, <2>5, <2>6, <2>7 DEF TypeInv, TypeOK, VarTypes
<1>6. "none" \in Procs /\ "dead" \in Procs
  BY DEF Procs
<1> HIDE DEF n, new
<1>7. \/ /\ taps' = [taps EXCEPT ![n] = 0] \/ taps' = taps
         /\ vms' = vms /\ undeleted' = undeleted
         /\ work'[e] = Idle /\ work'[e].pc = "idle" /\ phase'[e] = "none" /\ saved'[e] = None
      \/ \E p \in {"none", "dead"} :
         /\ taps' = [taps EXCEPT ![n] = new] /\ vms' = Made(e, n, p)
         /\ undeleted' = undeleted \/ undeleted' = undeleted \cup {new}
         /\ \/ /\ p = "none" /\ work'[e].pc = "tapped" /\ work'[e].tap = n
               /\ phase'[e] = phase[e] /\ saved'[e] = saved[e]
            \/ work'[e] = Idle /\ work'[e].pc = "idle" /\ phase'[e] = "none" /\ saved'[e] = None
  BY CreateIs DEF n, new
<1> QED
  BY <1>4, <1>5, <1>6, <1>7

\* The device that is deleted on the way was that of no machine that runs, or is contended.
LEMMA CreateKeeps ==
  ASSUME Inv, NEW e \in Executions, createTAPDevice(e)
  PROVE  DeviceInv' /\ NetworkInv' /\ NameInv' /\ PauseInv' /\ OnlyKnownLeaks' /\ NoOrphanMachine'
<1> DEFINE n == work[e].tap
           new == Len(vms) + 1
<1>1. TypeInv /\ DeviceInv /\ NetworkInv /\ NameInv /\ PauseInv /\ OnlyKnownLeaks /\ NoOrphanMachine
  BY DEF Inv
<1>2. /\ UNCHANGED <<leaky, loose, cut>> /\ work[e].pc = "named" /\ n \in Names
      /\ phase[e] \in {"due", "waking"}
      /\ \A f \in Executions \ {e} :
           work'[f] = work[f] /\ phase'[f] = phase[f] /\ saved'[f] = saved[f]
  BY <1>1, CreateIs
<1>3. VarTypes /\ vms \in Seq(VM) /\ ~Holding(e)
  BY <1>1, <1>2, Own DEF Holding
<1>4. taps \in [Names -> 0..Len(vms)] /\ DOMAIN vms = 1..Len(vms) /\ Len(vms) \in Nat
      /\ \A i \in DOMAIN vms : vms[i].exec \in Executions /\ vms[i].tap \in Names
  BY <1>1 DEF TypeInv, TypeOK, VM
<1>5. /\ contended \subseteq contended'
      /\ taps[n] # 0 /\ taps'[n] # taps[n] /\ vms[taps[n]].exec # e => n \in contended'
  BY DEF createTAPDevice
\* The machines there were, and the new one.
<1>6. /\ \A i \in DOMAIN vms : i \in DOMAIN vms' /\ vms'[i] = vms[i]
      /\ \A m \in Names \ {n} : taps'[m] = taps[m]
      /\ work'[e].pc \in {"idle", "tapped"} /\ saved'[e] \in {None, saved[e]}
      /\ \A f \in Executions \ {e} : Current(f)' = Current(f)
      /\ \/ DOMAIN vms' = DOMAIN vms /\ taps'[n] \in {0, taps[n]} /\ undeleted' = undeleted /\ ~Holding(e)'
         \/ /\ DOMAIN vms' = DOMAIN vms \cup {new} /\ taps'[n] = new /\ new \notin DOMAIN vms
            /\ vms'[new].exec = e /\ vms'[new].tap = n /\ vms'[new].proc \in {"none", "dead"}
            /\ Current(e)' = new /\ undeleted \subseteq undeleted'
            /\ Holding(e)' \/ new \in undeleted'
  <2>1. ASSUME taps' = [taps EXCEPT ![n] = 0] \/ taps' = taps, vms' = vms, undeleted' = undeleted,
               work'[e].pc = "idle", phase'[e] = "none", saved'[e] = None
        PROVE  <1>6!:
    <3>1. \A f : Current(f)' = Current(f)
      BY <1>1, <2>1, NoChange
    <3>2. ~Holding(e)'
      BY <2>1 DEF Holding
    <3>3. taps'[n] \in {0, taps[n]} /\ \A m \in Names \ {n} : taps'[m] = taps[m]
      BY <1>2, <1>4, <2>1
    <3> HIDE DEF n, new
    <3> QED
      BY <2>1, <3>1, <3>2, <3>3
  <2>2. ASSUME NEW p \in Procs, p \in {"none", "dead"},
               taps' = [taps EXCEPT ![n] = new], vms' = Made(e, n, p),
               work'[e].pc \in {"idle", "tapped"}, saved'[e] \in {None, saved[e]},
               undeleted \subseteq undeleted',
               work'[e].pc = "tapped" \/ new \in undeleted'
        PROVE  <1>6!:
    <3>1. /\ DOMAIN vms' = DOMAIN vms \cup {new} /\ new \notin DOMAIN vms
          /\ \A i \in DOMAIN vms : vms'[i] = vms[i]
          /\ vms'[new] = [exec |-> e, tap |-> n, nic |-> None, proc |-> p]
          /\ Current(e)' = new
          /\ \A f \in Executions \ {e} : Current(f)' = Current(f)
      BY <1>2, <1>3, <2>2, NewMachine
    <3>2. vms'[new].exec = e /\ vms'[new].tap = n /\ vms'[new].proc = p
      BY <3>1
    <3>3. taps'[n] = new /\ \A m \in Names \ {n} : taps'[m] = taps[m]
      BY <1>2, <1>4, <2>2
    <3>4. Holding(e)' \/ new \in undeleted'
      BY <2>2 DEF Holding
    <3> HIDE DEF n, new
    <3> QED
      BY <2>2, <3>1, <3>2, <3>3, <3>4
  <2>3. "none" \in Procs /\ "dead" \in Procs
    BY DEF Procs
  <2>4. \/ /\ taps' = [taps EXCEPT ![n] = 0] \/ taps' = taps
           /\ vms' = vms /\ undeleted' = undeleted
           /\ work'[e].pc = "idle" /\ phase'[e] = "none" /\ saved'[e] = None
        \/ \E p \in {"none", "dead"} :
           /\ taps' = [taps EXCEPT ![n] = new] /\ vms' = Made(e, n, p)
           /\ work'[e].pc \in {"idle", "tapped"} /\ saved'[e] \in {None, saved[e]}
           /\ undeleted \subseteq undeleted'
           /\ work'[e].pc = "tapped" \/ new \in undeleted'
    BY <1>1, CreateIs
  <2> HIDE DEF n, new
  <2> QED
    BY <2>1, <2>2, <2>3, <2>4
<1> HIDE DEF new
<1>7. ASSUME NEW i \in DOMAIN vms, vms[i].exec # e
      PROVE  Held(i)' <=> Held(i)
  BY <1>2, <1>4, <1>6, <1>7 DEF Held
<1>8. ASSUME NEW i \in DOMAIN vms, vms[i].exec = e
      PROVE  ~Held(i) /\ ~Held(i)'
  <2>1. ~Held(i)
    BY <1>3, <1>8 DEF Held, Holding
  <2>2. Held(i)' => i = Current(e)' /\ Holding(e)'
    BY <1>6, <1>8 DEF Held, Holding
  <2> QED
    BY <1>6, <2>1, <2>2
<1>9. ASSUME NEW i \in DOMAIN vms', i \notin DOMAIN vms
      PROVE  /\ i = new /\ taps'[n] = new /\ vms'[i].exec = e /\ vms'[i].tap = n
             /\ vms'[i].proc \in {"none", "dead"} /\ ~Live(i)'
             /\ Held(i)' \/ i \in undeleted'
  <2>1. /\ i = new /\ taps'[n] = new /\ vms'[i].exec = e /\ vms'[i].tap = n
        /\ vms'[i].proc \in {"none", "dead"} /\ Current(e)' = i /\ (Holding(e)' \/ i \in undeleted')
    BY <1>6, <1>9
  <2>2. Holding(e)' => Held(i)'
    BY <2>1 DEF Held, Holding
  <2> QED
    BY <2>1, <2>2 DEF Live
<1>10. \A m \in Names : taps'[m] # 0 =>
         \/ taps'[m] = taps[m] /\ taps[m] \in DOMAIN vms
         \/ m = n /\ taps'[m] = new /\ new \in DOMAIN vms' /\ new \notin DOMAIN vms
  BY <1>4, <1>6
<1>11. DeviceInv'
  <2> SUFFICES ASSUME NEW m \in Names, taps'[m] # 0 PROVE vms'[taps'[m]].tap = m
    BY DEF DeviceInv
  <2>1. CASE taps'[m] = taps[m] /\ taps[m] \in DOMAIN vms
    BY <1>1, <1>6, <2>1 DEF DeviceInv
  <2>2. CASE m = n /\ taps'[m] = new /\ new \in DOMAIN vms' /\ new \notin DOMAIN vms
    BY <1>9, <2>2
  <2> QED
    BY <1>10, <2>1, <2>2
<1>12. OnlyKnownLeaks'
  <2> SUFFICES ASSUME NEW m \in Names, taps'[m] # 0
               PROVE  (Held(taps[m]) \/ taps[m] \in leaky \cup undeleted)'
    BY DEF OnlyKnownLeaks
  <2>1. CASE taps'[m] = taps[m] /\ taps[m] \in DOMAIN vms
    <3> DEFINE i == taps[m]
    <3>1. taps'[m] = i /\ i \in DOMAIN vms /\ (Held(i) \/ i \in leaky \cup undeleted)
      BY <1>1, <2>1 DEF OnlyKnownLeaks
    <3>2. Held(i)' \/ i \in leaky' \cup undeleted'
      BY <1>2, <1>6, <1>7, <1>8, <3>1
    <3> QED
      BY <3>1, <3>2 DEF Held
  <2>2. CASE m = n /\ taps'[m] = new /\ new \in DOMAIN vms' /\ new \notin DOMAIN vms
    <3>1. PICK k : k = new
      OBVIOUS
    <3>2. taps'[m] = k /\ (Held(k)' \/ k \in undeleted')
      BY <1>9, <2>2, <3>1
    <3> QED
      BY <3>2 DEF Held
  <2> QED
    BY <1>10, <2>1, <2>2
<1>13. NetworkInv'
  <2> SUFFICES ASSUME NEW i \in DOMAIN vms', Live(i)' \/ Held(i)'
               PROVE  taps'[vms'[i].tap] = i \/ vms'[i].tap \in contended'
    BY DEF NetworkInv
  <2>1. CASE i \notin DOMAIN vms
    BY <1>9, <2>1
  <2>2. CASE i \in DOMAIN vms
    <3>1. vms'[i] = vms[i] /\ (Live(i) \/ Held(i)) /\ (vms[i].exec = e => Live(i))
      BY <1>6, <1>7, <1>8, <2>2 DEF Live
    <3>2. taps[vms[i].tap] = i \/ vms[i].tap \in contended
      BY <1>1, <2>2, <3>1 DEF NetworkInv
    <3>3. CASE vms[i].tap = n /\ taps[n] = i
      <4>1. CASE vms[i].exec # e
        BY <1>4, <1>5, <2>2, <3>1, <3>3, <4>1
      <4>2. CASE vms[i].exec = e
        BY <1>1, <1>2, <1>5, <2>2, <3>1, <3>3, <4>2 DEF NameInv
      <4> QED
        BY <4>1, <4>2
    <3> QED
      BY <1>4, <1>5, <1>6, <2>2, <3>1, <3>2, <3>3
  <2> QED
    BY <2>1, <2>2
<1>14. NoOrphanMachine'
  <2> SUFFICES ASSUME NEW i \in DOMAIN vms', Live(i)' PROVE Held(i)' \/ i \in loose'
    BY DEF NoOrphanMachine
  <2>1. CASE i \in DOMAIN vms
    <3>1. Held(i) \/ i \in loose
      BY <1>1, <1>6, <2>1 DEF NoOrphanMachine, Live
    <3>2. vms[i].exec = e => i \in loose
      BY <1>8, <2>1, <3>1
    <3> QED
      BY <1>2, <1>7, <2>1, <3>1, <3>2
  <2> QED
    BY <1>9, <2>1
<1>15. PauseInv'
  <2> SUFFICES ASSUME NEW i \in DOMAIN vms', vms'[i].proc = "paused"
               PROVE  (\/ i \in cut
                       \/ i = Current(vms[i].exec) /\ work[vms[i].exec].pc \in {"paused", "written"})'
    BY DEF PauseInv
  <2>1. i \in DOMAIN vms
    BY <1>9
  <2>2. \/ i \in cut
        \/ i = Current(vms[i].exec) /\ work[vms[i].exec].pc \in {"paused", "written"}
    BY <1>1, <1>6, <2>1 DEF PauseInv
  <2>3. i \in cut \/ vms[i].exec # e
    BY <1>2, <2>2
  <2> QED
    BY <1>2, <1>4, <1>6, <2>1, <2>2, <2>3
<1>16. NameInv'
  <2> SUFFICES ASSUME NEW i \in DOMAIN vms', Live(i)'
               PROVE  (LET f == vms[i].exec IN
                       /\ work[f].pc = "named" /\ vms[i].tap = work[f].tap => vms[i].tap \in contended
                       /\ vms[i].tap = saved[f] => Held(i) \/ vms[i].tap \in contended)'
    BY DEF NameInv
  <2>1. i \in DOMAIN vms /\ vms'[i] = vms[i] /\ Live(i)
    <3>1. i \in DOMAIN vms
      BY <1>9
    <3> QED
      BY <1>6, <3>1 DEF Live
  <2>2. LET f == vms[i].exec IN
        /\ work[f].pc = "named" /\ vms[i].tap = work[f].tap => vms[i].tap \in contended
        /\ vms[i].tap = saved[f] => Held(i) \/ vms[i].tap \in contended
    BY <1>1, <2>1 DEF NameInv
  <2>3. CASE vms[i].exec # e
    BY <1>2, <1>4, <1>5, <1>7, <2>1, <2>2, <2>3
  <2>4. CASE vms[i].exec = e
    <3>1. work'[e].pc # "named"
      BY <1>6
    <3>2. vms[i].tap # None
      BY <1>4, <2>1, FirecrackerAssumption
    <3>3. vms[i].tap = saved'[e] => vms[i].tap \in contended'
      BY <1>5, <1>6, <1>8, <2>1, <2>2, <2>4, <3>2
    <3> QED
      BY <2>1, <2>4, <3>1, <3>3
  <2> QED
    BY <2>3, <2>4
<1> QED
  BY <1>11, <1>12, <1>13, <1>14, <1>15, <1>16

-----------------------------------------------------------------------------
(***************************************************************************)
(* A machine ends by itself, or the hypervisor crashes.                    *)
(***************************************************************************)
LEMMA ExitsKeeps ==
  ASSUME Inv, NEW x \in DOMAIN vms, Exits(x)
  PROVE  Inv'
<1>1. TypeInv /\ DeviceInv /\ NetworkInv /\ NameInv /\ PauseInv /\ OnlyKnownLeaks /\ NoOrphanMachine
      /\ vms \in Seq(VM)
  BY DEF Inv, TypeInv
<1>2. /\ UNCHANGED <<taps, phase, work, saved, row, recorded, snapshot,
                     leaky, undeleted, loose, cut, contended, renamed, crashes>>
      /\ Live(x) /\ vms' = [vms EXCEPT ![x].proc = "dead"]
  BY DEF Exits, aux
<1>3. /\ SameMachines /\ vms'[x].proc = "dead" /\ \A i \in DOMAIN vms \ {x} : vms'[i] = vms[i]
  BY <1>1, <1>2, ProcChange DEF Procs
<1>4. DOMAIN vms' = DOMAIN vms /\ Len(vms') = Len(vms)
      /\ \A e : Mine(e)' = Mine(e) /\ Current(e)' = Current(e)
  BY <1>1, <1>3, CurrentKept DEF SameMachines
<1>5. \A i \in DOMAIN vms : vms'[i].exec = vms[i].exec /\ vms'[i].tap = vms[i].tap
  BY <1>3 DEF SameMachines
<1>6. \A i \in DOMAIN vms : vms'[i].proc = vms[i].proc \/ (i = x /\ vms'[i].proc = "dead")
  BY <1>3
<1>7. TypeInv'
  <2>1. VarTypes'
    BY <1>1, <1>2, <1>4, TypeInvIs DEF VarTypes
  <2>2. ASSUME NEW e \in Executions
        PROVE  Shape(e)'
    <3>1. Shape(e) /\ (Holding(e) => Current(e) \in DOMAIN vms)
      BY <1>1, Own
    <3>2. Holding(e) => /\ vms'[Current(e)].tap = vms[Current(e)].tap
                        /\ \/ vms'[Current(e)].proc = vms[Current(e)].proc
                           \/ Current(e) = x /\ vms'[Current(e)].proc = "dead"
      BY <1>5, <1>6, <3>1
    <3>3. Mine(e)' = Mine(e) /\ Current(e)' = Current(e) /\ UNCHANGED <<work, phase, saved>>
      BY <1>2, <1>4
    <3> QED
      BY <1>2, <3>1, <3>2, <3>3 DEF Shape, Holding, Live
  <2>3. vms' \in Seq(VM) /\ \A i \in DOMAIN vms' : vms'[i] \in VM
    BY <1>3 DEF SameMachines
  <2> QED
    BY <2>1, <2>2, <2>3 DEF TypeInv, TypeOK, VarTypes
<1>8. \A i \in DOMAIN vms : (Held(i)' <=> Held(i)) /\ (Live(i)' => Live(i))
  BY <1>2, <1>4, <1>5, <1>6 DEF Held, Live
<1>9. \A n \in Names : taps[n] # 0 => taps[n] \in DOMAIN vms
  BY <1>1 DEF TypeInv, TypeOK
<1>10. DeviceInv'
  BY <1>1, <1>2, <1>5, <1>9 DEF DeviceInv
<1>11. NetworkInv'
  BY <1>1, <1>2, <1>4, <1>5, <1>8 DEF NetworkInv
<1>12. NameInv'
  BY <1>1, <1>2, <1>4, <1>5, <1>8 DEF NameInv
<1>13. PauseInv'
  BY <1>1, <1>2, <1>4, <1>5, <1>6 DEF PauseInv
<1>14. OnlyKnownLeaks'
  <2>1. \A n \in Names : taps[n] # 0 => Held(taps[n])' \/ taps[n] \in leaky \cup undeleted
    BY <1>1, <1>2, <1>8, <1>9 DEF OnlyKnownLeaks
  <2> QED
    BY <1>2, <2>1 DEF OnlyKnownLeaks
<1>15. NoOrphanMachine'
  BY <1>1, <1>2, <1>4, <1>8 DEF NoOrphanMachine
<1> QED
  BY <1>7, <1>10, <1>11, <1>12, <1>13, <1>14, <1>15 DEF Inv

LEMMA CrashKeeps ==
  ASSUME Inv, Crash
  PROVE  Inv'
<1> DEFINE held == {i \in DOMAIN vms : Held(i)}
<1>1. TypeInv /\ DeviceInv /\ NetworkInv /\ NameInv /\ PauseInv /\ OnlyKnownLeaks /\ NoOrphanMachine
  BY DEF Inv
<1>2. /\ UNCHANGED <<taps, vms, row, recorded, snapshot, undeleted, contended, renamed>>
      /\ crashes < MaxCrashes /\ crashes' = crashes + 1
      /\ leaky' = leaky \cup held /\ loose' = loose \cup held
      /\ cut' = cut \cup {i \in DOMAIN vms : vms[i].proc = "paused"}
      /\ work' = [e \in Executions |-> Idle] /\ saved' = [e \in Executions |-> None]
  BY DEF Crash
<1>3. VarTypes /\ vms \in Seq(VM) /\ MaxCrashes \in Nat /\ None \notin Names
      /\ \A i \in DOMAIN vms : vms[i].exec \in Executions /\ vms[i].tap \in Names
  BY <1>1, TypeInvIs, FirecrackerAssumption DEF TypeInv, TypeOK, VM
<1>4. phase' \in [Executions -> Phases] /\ \A e \in Executions : phase'[e] # "up"
  <2>1. phase' = [e \in Executions |->
                   CASE row[e] = "pending" -> "due"
                     [] row[e] = "running" /\ e \in recorded -> "recover"
                     [] OTHER -> "none"]
    BY DEF Crash
  <2>2. \A e \in Executions : phase'[e] \in {"due", "recover", "none"}
    BY <2>1
  <2>3. phase' = [e \in Executions |-> phase'[e]]
    BY <2>1
  <2>4. {"due", "recover", "none"} \subseteq Phases
    BY DEF Phases
  <2> QED
    BY <2>2, <2>3, <2>4
<1>5. \A e \in Executions : work'[e] = Idle /\ work'[e].pc = "idle" /\ saved'[e] = None
  BY <1>2 DEF Idle
<1>6. TypeInv'
  <2>1. VarTypes'
    <3>1. work' \in [Executions -> Work] /\ saved' \in [Executions -> Names \cup {None}]
      BY <1>2, IdleType
    <3>2. crashes' \in 0..MaxCrashes
      BY <1>2, <1>3 DEF VarTypes
    <3>3. leaky' \cup undeleted' \cup loose' \cup cut' \subseteq DOMAIN vms
      BY <1>2, <1>3 DEF VarTypes
    <3> QED
      BY <1>2, <1>3, <1>4, <3>1, <3>2, <3>3 DEF VarTypes
  <2>2. ASSUME NEW e \in Executions
        PROVE  Shape(e)'
    BY <1>4, <1>5, <2>2 DEF Shape
  <2> QED
    BY <1>1, <1>2, <1>3, <2>1, <2>2 DEF TypeInv, TypeOK, VarTypes
<1>7. \A i \in DOMAIN vms : ~Held(i)' /\ (Live(i)' <=> Live(i))
  BY <1>2, <1>3, <1>4, <1>5 DEF Held, Live
<1>8. DeviceInv'
  BY <1>1, <1>2 DEF DeviceInv
<1>9. NetworkInv'
  BY <1>1, <1>2, <1>7 DEF NetworkInv
<1>10. NameInv'
  BY <1>2, <1>3, <1>5 DEF NameInv
<1>11. PauseInv'
  BY <1>2 DEF PauseInv
<1>12. OnlyKnownLeaks'
  <2>1. \A n \in Names : taps[n] # 0 => taps[n] \in DOMAIN vms
    BY <1>3 DEF VarTypes
  <2>2. \A n \in Names : taps[n] # 0 => taps[n] \in leaky' \cup undeleted'
    BY <1>1, <1>2, <2>1 DEF OnlyKnownLeaks
  <2> QED
    BY <1>2, <2>2 DEF OnlyKnownLeaks
<1>13. NoOrphanMachine'
  BY <1>1, <1>2, <1>7 DEF NoOrphanMachine
<1> QED
  BY <1>6, <1>8, <1>9, <1>10, <1>11, <1>12, <1>13 DEF Inv

-----------------------------------------------------------------------------
(***************************************************************************)
(* The theorems.                                                           *)
(***************************************************************************)
LEMMA InvInit == Init => Inv
<1> SUFFICES ASSUME Init PROVE Inv
  OBVIOUS
<1>1. TypeInv
  BY InitTypes
<1>2. DOMAIN vms = {} /\ \A n \in Names : taps[n] = 0
  BY DEF Init
<1> QED
  BY <1>1, <1>2 DEF Inv, DeviceInv, NetworkInv, NameInv, PauseInv, OnlyKnownLeaks, NoOrphanMachine

LEMMA InvNext == Inv /\ [Next]_vars => Inv'
<1> SUFFICES ASSUME Inv, [Next]_vars PROVE Inv'
  OBVIOUS
<1>1. TypeInv
  BY DEF Inv
<1>2. ASSUME NEW e \in Executions, TypeInv' /\ RunnerStep(e)
      PROVE  Inv'
  BY <1>2, RunnerStepKeeps DEF Inv
<1>3. ASSUME NEW e \in Executions, wakeJob(e) \/ retryJob(e) \/ Start(e) \/ Restore(e)
      PROVE  Inv'
  BY <1>1, <1>2, <1>3, RunnerMade, NamedStep
<1>4. ASSUME NEW e \in Executions, createTAPDevice(e)
      PROVE  Inv'
  BY <1>1, <1>4, CreateTypes, CreateKeeps DEF Inv
<1>5. ASSUME NEW e \in Executions, Launch(e) \/ Configure(e)
      PROVE  Inv'
  BY <1>1, <1>2, <1>5, LaunchStep, ConfigureStep
<1>6. ASSUME NEW e \in Executions, Pause(e) \/ ContextEnds(e) \/ Snapshot(e)
      PROVE  Inv'
  BY <1>1, <1>2, <1>6, PauseStep, ContextEndsStep, SnapshotStep
<1>7. ASSUME NEW e \in Executions, KeepsRunning(e) \/ Suspends(e)
      PROVE  Inv'
  BY <1>1, <1>2, <1>7, KeepsRunningStep, SuspendsStep
<1>8. ASSUME NEW e \in Executions, Cleanup(e) \/ Kill(e) \/ Exit(e) \/ Stop(e)
      PROVE  Inv'
  BY <1>1, <1>2, <1>8, CleanupStep, KilledStep, StoppedStep, ExitStep DEF Kill
<1>9. ASSUME NEW i \in DOMAIN vms, Exits(i)
      PROVE  Inv'
  BY <1>9, ExitsKeeps
<1>10. CASE Crash
  BY <1>10, CrashKeeps
<1>11. CASE UNCHANGED vars
  <2>1. UNCHANGED <<taps, vms, phase, work, saved, row, recorded, snapshot,
                    leaky, undeleted, loose, cut, contended, renamed, crashes>>
    BY <1>11 DEF vars, aux
  <2>2. TypeInv'
    <3>1. \A e \in Executions : Mine(e)' = Mine(e) /\ Current(e)' = Current(e)
      BY <1>1, <2>1, NoChange
    <3>2. ASSUME NEW e \in Executions
          PROVE  Shape(e)'
      BY <1>1, <2>1, <3>1 DEF TypeInv, Shape
    <3>3. TypeOK'
      BY <1>1, <2>1 DEF TypeInv, TypeOK
    <3> QED
      BY <1>1, <2>1, <3>2, <3>3 DEF TypeInv
  <2>3. (DeviceInv /\ NetworkInv /\ NameInv)'
    BY <2>1 DEF Inv, DeviceInv, NetworkInv, NameInv, Held, Live, Current, Mine
  <2>4. (PauseInv /\ OnlyKnownLeaks /\ NoOrphanMachine)'
    BY <2>1 DEF Inv, PauseInv, OnlyKnownLeaks, NoOrphanMachine, Held, Live, Current, Mine
  <2> QED
    BY <2>2, <2>3, <2>4 DEF Inv
<1> QED
  BY <1>3, <1>4, <1>5, <1>6, <1>7, <1>8, <1>9, <1>10, <1>11 DEF Next

LEMMA InvHolds == Spec => []Inv
  BY InvInit, InvNext, PTL DEF Spec

\* Every variable keeps the values the code can give it.
THEOREM TypeCorrect == Spec => []TypeOK
<1>1. Inv => TypeOK
  BY DEF Inv, TypeInv
<1> QED
  BY <1>1, InvHolds, PTL

\* The device made for a machine that runs stays, whatever starts, retries, wake-ups,
\* failures, shutdowns and crashes happen, unless its numbered name was taken from another
\* execution.
THEOREM DevicesStayIntact == Spec => []DeviceIntact
<1>1. Inv => DeviceIntact
  BY DEF Inv, NetworkInv, DeviceIntact
<1> QED
  BY <1>1, InvHolds, PTL

\* A device without a runner is one that could not be deleted, or belongs to a machine
\* whose runner ended without cleaning up: suspended, killed, ended by Exit, cancelled or
\* crashed.
THEOREM LeaksAreKnown == Spec => []OnlyKnownLeaks
<1>1. Inv => OnlyKnownLeaks
  BY DEF Inv
<1> QED
  BY <1>1, InvHolds, PTL

\* A machine runs without a runner only after Exit or a crash.
THEOREM NoMachineOrphaned == Spec => []NoOrphanMachine
<1>1. Inv => NoOrphanMachine
  BY DEF Inv
<1> QED
  BY <1>1, InvHolds, PTL

\* A guest nobody checkpoints is paused only when a pause was not answered, its resume
\* failed, or the hypervisor crashed.
THEOREM GuestsAreResumed == Spec => []PausedOnlyWhenCut
<1>1. Inv => PausedOnlyWhenCut
  BY DEF Inv, PauseInv, PausedOnlyWhenCut
<1> QED
  BY <1>1, InvHolds, PTL
-----------------------------------------------------------------------------
(***************************************************************************)
(* The devices of the guests: a second invariant.                          *)
(***************************************************************************)
\* The guests of an execution use the devices made for its machines; its checkpoint, the
\* name a restore is about to use and its snapshot agree on the name.
Kept(e) ==
  LET vm == vms[Current(e)] IN
  /\ \A i \in Mine(e) : vms[i].nic \in {None, vms[i].tap}
  /\ saved[e] # None => snapshot[e] = saved[e]
  /\ work[e].pc \in {"named", "tapped", "launched"} /\ saved[e] # None => work[e].tap = saved[e]
  /\ phase[e] = "up" => vm.nic = vm.tap /\ saved[e] \in {None, vm.tap}
  /\ work[e].pc = "written" => snapshot[e] = vm.tap

NicInv == \A e \in Executions \ renamed : Kept(e)

\* The guests of e stay attached as they are.
NicsKept(e) == SameMachines /\ \A i \in Mine(e) : vms'[i].nic = vms[i].nic

LEMMA ProcKeepsNics ==
  ASSUME TypeInv, NEW e \in Executions, NEW c \in DOMAIN vms, NEW p \in Procs,
         vms' = [vms EXCEPT ![c].proc = p]
  PROVE  NicsKept(e)
<1>1. vms \in Seq(VM) /\ \A i \in DOMAIN vms : vms[i] \in VM
  BY DEF TypeInv, TypeOK
<1>2. SameMachines
  BY <1>1, ProcChange
<1>3. [vms[c] EXCEPT !.proc = p].nic = vms[c].nic
  BY <1>1 DEF VM
<1>4. \A i \in DOMAIN vms : vms'[i] = IF i = c THEN [vms[c] EXCEPT !.proc = p] ELSE vms[i]
  BY <1>1
<1> QED
  BY <1>2, <1>3, <1>4 DEF NicsKept, Mine

LEMMA SetProcKeepsNics ==
  ASSUME TypeInv, NEW e \in Executions, Holding(e), NEW p \in Procs, SetProc(e, p)
  PROVE  NicsKept(e)
<1>1. Current(e) \in DOMAIN vms
  BY Own
<1> QED
  BY <1>1, ProcKeepsNics DEF SetProc

LEMMA QuietKeepsNics ==
  ASSUME TypeInv, NEW e \in Executions, UNCHANGED vms
  PROVE  NicsKept(e)
  BY NoChange DEF NicsKept

\* What NicsKept means for the machines of e.
LEMMA NicsAre ==
  ASSUME TypeInv, NEW e \in Executions, NicsKept(e)
  PROVE  /\ Mine(e)' = Mine(e) /\ Current(e)' = Current(e)
         /\ \A i \in Mine(e) : vms'[i].nic = vms[i].nic /\ vms'[i].tap = vms[i].tap
         /\ Holding(e) => Current(e) \in Mine(e)
<1>1. vms \in Seq(VM) /\ SameMachines
  BY DEF TypeInv, NicsKept
<1>2. Mine(e)' = Mine(e) /\ Current(e)' = Current(e)
  BY <1>1, CurrentKept
<1>3. \A i \in Mine(e) : vms'[i].nic = vms[i].nic /\ vms'[i].tap = vms[i].tap
  BY <1>1 DEF NicsKept, SameMachines, Mine
<1>4. Holding(e) => Current(e) \in Mine(e)
  BY Own DEF Mine
<1> QED
  BY <1>2, <1>3, <1>4

\* A runner that has, or is left with, no machine.
LEMMA KeptWithout ==
  ASSUME TypeInv, NEW e \in Executions, Kept(e), NicsKept(e),
         work'[e].pc = "idle", phase'[e] # "up", snapshot' = snapshot,
         saved'[e] \in {None, saved[e], snapshot[e]}
  PROVE  Kept(e)'
  BY NicsAre DEF Kept

LEMMA KeptQuits ==
  ASSUME TypeInv, NEW e \in Executions, Kept(e), NicsKept(e), Quits(e), snapshot' = snapshot
  PROVE  Kept(e)'
  BY KeptWithout DEF Quits

\* A runner that holds its machine, and whose snapshot may have been written.
LEMMA KeptHolding ==
  ASSUME TypeInv, NEW e \in Executions, Kept(e), NicsKept(e), phase[e] = "up", phase'[e] = "up",
         work'[e].pc \in {"idle", "paused", "written"},
         snapshot'[e] = snapshot[e] \/ snapshot'[e] = vms[Current(e)].nic,
         saved'[e] \in {None, saved[e]} \/ saved'[e] = snapshot'[e],
         work'[e].pc = "written" => snapshot'[e] = vms[Current(e)].tap,
         saved'[e] \in {None, saved[e], vms[Current(e)].tap}
  PROVE  Kept(e)'
<1>1. /\ Mine(e)' = Mine(e) /\ Current(e)' = Current(e) /\ Current(e) \in Mine(e)
      /\ \A i \in Mine(e) : vms'[i].nic = vms[i].nic /\ vms'[i].tap = vms[i].tap
  BY NicsAre DEF Holding
<1>2. vms[Current(e)].nic = vms[Current(e)].tap /\ saved[e] \in {None, vms[Current(e)].tap}
  BY DEF Kept
<1> QED
  BY <1>1, <1>2 DEF Kept

LEMMA KeptMade ==
  ASSUME TypeInv, NEW e \in Executions, wakeJob(e) \/ retryJob(e), e \notin renamed', Kept(e)
  PROVE  Kept(e)'
<1>1. /\ UNCHANGED <<vms, work, snapshot>> /\ phase[e] \in {"none", "recover"} /\ phase'[e] # "up"
      /\ saved'[e] \in {None, saved[e], snapshot[e]}
  <2>1. PICK n : Reconstructed(e, n)
    BY DEF wakeJob, retryJob
  <2>2. saved' = [saved EXCEPT ![e] = n] /\ n \in {None, snapshot[e]}
    BY <2>1 DEF Reconstructed
  <2>3. saved \in [Executions -> Names \cup {None}] /\ phase \in [Executions -> Phases]
    BY Own DEF VarTypes
  <2> QED
    BY <2>2, <2>3 DEF wakeJob, retryJob
<1>2. NicsKept(e)
  BY <1>1, QuietKeepsNics
<1>3. Shape(e) /\ work[e] \in Work
  BY Own
<1>4. work[e].pc = "idle"
  BY <1>1, <1>3 DEF Shape, Work
<1> QED
  BY <1>1, <1>2, <1>4, KeptWithout

LEMMA KeptNamed ==
  ASSUME TypeInv, NEW e \in Executions, Start(e) \/ Restore(e), Kept(e)
  PROVE  Kept(e)'
<1>1. UNCHANGED <<vms, snapshot>> /\ work[e] = Idle /\ phase[e] \in {"due", "waking"}
  BY DEF Start, Restore
<1>2. NicsKept(e) /\ VarTypes
  BY <1>1, QuietKeepsNics, Own
<1>3. CASE Fails(e)
  BY <1>1, <1>2, <1>3, FailsIs, KeptQuits
<1>4. CASE ~Fails(e)
  <2>1. PICK n : /\ work' = [work EXCEPT ![e].pc = "named", ![e].tap = n] /\ UNCHANGED <<phase, saved>>
                 /\ saved[e] # None => n = saved[e]
    BY <1>4 DEF Start, Restore
  <2>2. work'[e] = [Idle EXCEPT !.pc = "named", !.tap = n]
    BY <1>1, <1>2, <2>1 DEF VarTypes
  <2>3. work'[e].pc = "named" /\ work'[e].tap = n
    BY <2>2 DEF Idle
  <2> QED
    BY <1>1, <1>2, <2>1, <2>3, NicsAre DEF Kept
<1> QED
  BY <1>3, <1>4

\* The new machine is attached to no device yet.
LEMMA KeptCreated ==
  ASSUME TypeInv, NEW e \in Executions, createTAPDevice(e), Kept(e)
  PROVE  Kept(e)'
<1>1. /\ snapshot' = snapshot /\ work[e].pc = "named" /\ work[e].tap \in Names
      /\ phase[e] \in {"due", "waking"} /\ vms \in Seq(VM)
  BY CreateIs, Own
<1>2. CASE vms' = vms /\ work'[e].pc = "idle" /\ phase'[e] = "none" /\ saved'[e] = None
  BY <1>1, <1>2, QuietKeepsNics, KeptWithout
<1>3. ASSUME NEW p \in Procs, vms' = Made(e, work[e].tap, p),
             \/ /\ work'[e].pc = "tapped" /\ work'[e].tap = work[e].tap
                /\ phase'[e] = phase[e] /\ saved'[e] = saved[e]
             \/ work'[e].pc = "idle" /\ phase'[e] = "none" /\ saved'[e] = None
      PROVE  Kept(e)'
  <2>1. /\ DOMAIN vms' = DOMAIN vms \cup {Len(vms) + 1}
        /\ \A i \in DOMAIN vms : vms'[i] = vms[i]
        /\ vms'[Len(vms) + 1] = [exec |-> e, tap |-> work[e].tap, nic |-> None, proc |-> p]
    BY <1>1, <1>3, NewMachine
  <2>2. \A i \in Mine(e)' : vms'[i].nic \in {None, vms'[i].tap}
    BY <2>1 DEF Kept, Mine
  <2> QED
    BY <1>1, <1>3, <2>2 DEF Kept
<1>4. "none" \in Procs /\ "dead" \in Procs
  BY DEF Procs
<1> QED
  BY <1>2, <1>3, <1>4, CreateIs

LEMMA KeptLaunched ==
  ASSUME TypeInv, NEW e \in Executions, Launch(e), Kept(e)
  PROVE  Kept(e)'
<1>1. snapshot' = snapshot /\ work[e].pc = "tapped" /\ VarTypes /\ Holding(e) /\ phase[e] # "up"
  <2>1. snapshot' = snapshot /\ work[e].pc = "tapped"
    BY DEF Launch
  <2> QED
    BY <2>1, Own DEF Holding, Shape
<1>2. CASE SetProc(e, "running") /\ work' = At(e, "launched") /\ UNCHANGED <<phase, saved>>
  <2>1. work'[e].pc = "launched" /\ work'[e].tap = work[e].tap
    BY <1>1, <1>2, AtIs DEF AtPoints
  <2>2. NicsKept(e)
    BY <1>1, <1>2, SetProcKeepsNics DEF Procs
  <2> QED
    BY <1>1, <1>2, <2>1, <2>2, NicsAre DEF Kept
<1>3. CASE SetProc(e, "dead") /\ Fails(e)
  BY <1>1, <1>3, SetProcKeepsNics, FailsIs, KeptQuits DEF Procs
<1> QED
  BY <1>2, <1>3 DEF Launch

\* A restored guest is attached to the device its snapshot names: the one made for it.
LEMMA KeptConfigured ==
  ASSUME TypeInv, NEW e \in Executions, Configure(e), Kept(e)
  PROVE  Kept(e)'
<1> DEFINE c == Current(e)
<1>1. snapshot' = snapshot /\ work[e].pc = "launched"
  BY DEF Configure
<1>2. VarTypes /\ Holding(e) /\ Shape(e) /\ c \in DOMAIN vms /\ c \in Mine(e) /\ vms \in Seq(VM)
  BY <1>1, Own DEF Holding, Mine
<1>3. CASE SetUp(e)
  <2> DEFINE d == IF saved[e] = None THEN work[e].tap ELSE snapshot[e]
  <2>1. d = vms[c].tap /\ vms[c].tap = work[e].tap /\ work[e].tap \in Names
    BY <1>1, <1>2 DEF Kept, Shape
  <2>2. vms' = [vms EXCEPT ![c].nic = d]
    BY <1>3 DEF SetUp
  <2>3. SameMachines /\ \A i \in DOMAIN vms \ {c} : vms'[i] = vms[i]
    BY <1>2, <2>1, <2>2, NicChange
  <2>4. vms'[c].nic = d
    <3>1. vms'[c] = [vms[c] EXCEPT !.nic = d]
      BY <1>2, <2>2
    <3>2. vms[c] \in VM
      BY <1>2
    <3> QED
      BY <3>1, <3>2 DEF VM
  <2>5. Mine(e)' = Mine(e) /\ Current(e)' = c
    BY <1>2, <2>3, CurrentKept
  <2>6. work'[e].pc = "idle" /\ phase'[e] = "up" /\ saved' = saved
    BY <1>2, <1>3, EndsIs DEF SetUp, Phases
  <2>7. \A i \in Mine(e) : vms'[i].tap = vms[i].tap /\ (i # c => vms'[i].nic = vms[i].nic)
    BY <2>3 DEF SameMachines, Mine
  <2>8. saved[e] \in {None, vms[c].tap}
    BY <1>1, <2>1 DEF Kept
  <2> HIDE DEF d, c
  <2> QED
    BY <1>1, <1>2, <2>1, <2>4, <2>5, <2>6, <2>7, <2>8 DEF Kept
<1>4. CASE SetProc(e, "dead") /\ Fails(e)
  BY <1>1, <1>2, <1>4, SetProcKeepsNics, FailsIs, KeptQuits DEF Procs
<1> QED
  BY <1>3, <1>4 DEF Configure

LEMMA KeptPaused ==
  ASSUME TypeInv, NEW e \in Executions, Pause(e), Kept(e)
  PROVE  Kept(e)'
<1>1. /\ UNCHANGED <<phase, saved, snapshot>> /\ phase[e] = "up" /\ work[e] = Idle
      /\ SetProc(e, "paused") /\ (work' = At(e, "paused") \/ work' = work)
  BY DEF Pause
<1>2. Holding(e) /\ VarTypes
  BY <1>1, Own DEF Holding
<1>3. NicsKept(e)
  BY <1>1, <1>2, SetProcKeepsNics DEF Procs
<1>4. work'[e].pc \in {"idle", "paused"}
  BY <1>1, <1>2, AtIs DEF AtPoints, Idle
<1> QED
  BY <1>1, <1>3, <1>4, KeptHolding

LEMMA KeptContextEnds ==
  ASSUME TypeInv, NEW e \in Executions, ContextEnds(e), Kept(e)
  PROVE  Kept(e)'
<1>1. /\ UNCHANGED <<vms, phase, saved, snapshot>> /\ work[e].pc \in {"paused", "written"}
      /\ work' = [work EXCEPT ![e].ctx = FALSE]
  BY DEF ContextEnds
<1>2. VarTypes /\ work[e] \in Work /\ phase[e] = "up"
  BY <1>1, Own DEF Shape
<1>3. work'[e].pc = work[e].pc
  <2>1. work'[e] = [work[e] EXCEPT !.ctx = FALSE]
    BY <1>1, <1>2 DEF VarTypes
  <2> QED
    BY <1>2, <2>1 DEF Work
<1>4. NicsKept(e)
  BY <1>1, QuietKeepsNics
<1>5. work[e].pc = "written" => snapshot[e] = vms[Current(e)].tap
  BY DEF Kept
<1> QED
  BY <1>1, <1>2, <1>3, <1>4, <1>5, KeptHolding

LEMMA ResumeKeepsNics ==
  ASSUME TypeInv, NEW e \in Executions, Holding(e), NEW ok \in BOOLEAN, Resume(e, ok)
  PROVE  NicsKept(e)
<1>1. CASE ok
  BY <1>1, SetProcKeepsNics DEF Resume, Procs
<1>2. CASE ~ok
  BY <1>2, QuietKeepsNics DEF Resume
<1> QED
  BY <1>1, <1>2

\* The snapshot names the device of the guest, which is that of the machine.
LEMMA KeptSnapshot ==
  ASSUME TypeInv, NEW e \in Executions, Snapshot(e), Kept(e)
  PROVE  Kept(e)'
<1> DEFINE c == Current(e)
<1>1. work[e].pc = "paused"
  BY DEF Snapshot
<1>2. VarTypes /\ Holding(e) /\ phase[e] = "up"
  BY <1>1, Own DEF Shape, Holding
<1>3. vms[c].nic = vms[c].tap
  BY <1>2 DEF Kept
<1>4. Write(e) => snapshot'[e] = vms[c].nic
  BY <1>2 DEF Write, VarTypes
<1>5. CASE Write(e) /\ work' = At(e, "written") /\ UNCHANGED <<vms, phase, saved>>
  <2>1. work'[e].pc = "written"
    BY <1>2, <1>5, AtIs DEF AtPoints
  <2> QED
    BY <1>2, <1>3, <1>4, <1>5, <2>1, QuietKeepsNics, KeptHolding
<1>6. ASSUME NEW ok \in BOOLEAN, Resume(e, ok), Ends(e, "up"), Write(e) \/ UNCHANGED snapshot
      PROVE  Kept(e)'
  <2>1. work'[e].pc = "idle" /\ phase'[e] = "up" /\ saved' = saved
    BY <1>2, <1>6, EndsIs DEF Phases
  <2>2. NicsKept(e)
    BY <1>2, <1>6, ResumeKeepsNics
  <2> QED
    BY <1>2, <1>4, <1>6, <2>1, <2>2, KeptHolding
<1> QED
  BY <1>5, <1>6 DEF Snapshot

\* The checkpoint a runner keeps has the name in the snapshot.
LEMMA KeptRunning ==
  ASSUME TypeInv, NEW e \in Executions, KeepsRunning(e), Kept(e)
  PROVE  Kept(e)'
<1> DEFINE c == Current(e)
<1>1. UNCHANGED <<phase, snapshot>> /\ work[e].pc = "written" /\ work' = [work EXCEPT ![e] = Idle]
  BY DEF KeepsRunning
<1>2. PICK ok \in BOOLEAN : /\ Resume(e, ok)
                            /\ saved' = [saved EXCEPT ![e] = IF ok THEN vms[c].tap ELSE @]
  BY DEF KeepsRunning
<1>3. VarTypes /\ Holding(e) /\ phase[e] = "up"
  BY <1>1, Own DEF Shape, Holding
<1>4. work'[e].pc = "idle" /\ saved'[e] \in {saved[e], vms[c].tap}
  BY <1>1, <1>2, <1>3 DEF VarTypes, Idle
<1>5. snapshot[e] = vms[c].tap
  BY <1>1 DEF Kept
<1>6. NicsKept(e)
  BY <1>2, <1>3, ResumeKeepsNics
<1> HIDE DEF c
<1> QED
  BY <1>1, <1>3, <1>4, <1>5, <1>6, KeptHolding DEF c

\* A runner ends, or gives its machine up to retry.
LEMMA KeptEnds ==
  ASSUME TypeInv, NEW e \in Executions, Kept(e),
         Suspends(e) \/ Cleanup(e) \/ Kill(e) \/ Exit(e) \/ Stop(e)
  PROVE  Kept(e)'
<1>1. snapshot' = snapshot
  BY DEF Suspends, Cleanup, Kill, Exit, Stop
<1>2. VarTypes /\ {"done", "suspended", row[e]} \subseteq Rows
  BY Own DEF VarTypes, Rows
<1>3. Quits(e)
  BY <1>2, LeavesIs, DecideIs DEF Suspends, Cleanup, Kill, Exit, Stop
<1>4. (SetProc(e, "dead") /\ Holding(e)) \/ UNCHANGED vms
  <2>1. work[e].pc = "written" => phase[e] = "up"
    BY Own DEF Shape
  <2> QED
    BY <2>1 DEF Suspends, Cleanup, Kill, Exit, Stop, Holding
<1>5. NicsKept(e)
  BY <1>4, SetProcKeepsNics, QuietKeepsNics DEF Procs
<1> QED
  BY <1>1, <1>3, <1>5, KeptQuits

\* The other executions: a runner's step changes neither their machines nor their snapshots.
LEMMA OthersKeepNics ==
  ASSUME TypeInv, NEW e \in Executions, NEW f \in Executions \ {e}, Kept(f),
         Mine(f)' = Mine(f), Current(f)' = Current(f), \A i \in Mine(f) : vms'[i] = vms[i],
         work'[f] = work[f], phase'[f] = phase[f], saved'[f] = saved[f], snapshot'[f] = snapshot[f]
  PROVE  Kept(f)'
<1>1. phase[f] = "up" \/ work[f].pc = "written" => Current(f) \in Mine(f)
  BY Own DEF Shape, Holding, Mine
<1> QED
  BY <1>1 DEF Kept

\* What a step of a runner does to the names.
RunnerNext(e) ==
  \/ wakeJob(e) \/ retryJob(e) \/ Start(e) \/ Restore(e)
  \/ createTAPDevice(e) \/ Launch(e) \/ Configure(e)
  \/ Pause(e) \/ ContextEnds(e) \/ Snapshot(e) \/ KeepsRunning(e) \/ Suspends(e)
  \/ Cleanup(e) \/ Kill(e) \/ Exit(e) \/ Stop(e)

LEMMA NamesOfOne ==
  ASSUME TypeInv, NEW e \in Executions, RunnerNext(e)
  PROVE  renamed \subseteq renamed' /\ \A f \in Executions \ {e} : snapshot'[f] = snapshot[f]
<1>1. CASE wakeJob(e) \/ retryJob(e) \/ Start(e) \/ Restore(e) \/ createTAPDevice(e)
  BY <1>1 DEF wakeJob, retryJob, Start, Restore, createTAPDevice, Reconstructed, aux
<1>2. CASE Launch(e) \/ Configure(e) \/ Pause(e) \/ ContextEnds(e)
  BY <1>2 DEF Launch, Configure, Pause, ContextEnds, aux
<1>3. CASE Snapshot(e)
  <2>1. snapshot \in [Executions -> Names \cup {None}]
    BY Own DEF VarTypes
  <2> QED
    BY <1>3, <2>1 DEF Snapshot, Write
<1>4. CASE KeepsRunning(e) \/ Suspends(e) \/ Cleanup(e) \/ Kill(e) \/ Exit(e) \/ Stop(e)
  BY <1>4 DEF KeepsRunning, Suspends, Cleanup, Kill, Exit, Stop
<1> QED
  BY <1>1, <1>2, <1>3, <1>4 DEF RunnerNext

\* The machines of the other executions.
LEMMA MachinesOfOthers ==
  ASSUME Inv, NEW e \in Executions, RunnerNext(e), NEW f \in Executions \ {e}
  PROVE  /\ Mine(f)' = Mine(f) /\ Current(f)' = Current(f) /\ \A i \in Mine(f) : vms'[i] = vms[i]
         /\ work'[f] = work[f] /\ phase'[f] = phase[f] /\ saved'[f] = saved[f]
<1>1. TypeInv /\ vms \in Seq(VM)
  BY DEF Inv, TypeInv
<1>2. CASE RunnerStep(e)
  <2>1. SameMachines /\ OthersKept(e)
    BY <1>2 DEF RunnerStep
  <2>2. Mine(f)' = Mine(f) /\ Current(f)' = Current(f)
    BY <1>1, <2>1, CurrentKept
  <2> QED
    BY <2>1, <2>2 DEF OthersKept, Mine
<1>3. CASE createTAPDevice(e)
  <2>1. work'[f] = work[f] /\ phase'[f] = phase[f] /\ saved'[f] = saved[f] /\ work[e].tap \in Names
    BY <1>1, <1>3, CreateIs
  <2>2. CASE vms' = vms
    BY <1>1, <2>1, <2>2, NoChange
  <2>3. ASSUME NEW p \in {"none", "dead"}, vms' = Made(e, work[e].tap, p)
        PROVE  /\ Mine(f)' = Mine(f) /\ Current(f)' = Current(f)
               /\ \A i \in Mine(f) : vms'[i] = vms[i]
    <3>1. p \in Procs
      BY DEF Procs
    <3> QED
      BY <1>1, <2>1, <2>3, <3>1, NewMachine DEF Mine
  <2> QED
    BY <1>1, <1>3, <2>1, <2>2, <2>3, CreateIs
<1>4. RunnerStep(e) \/ createTAPDevice(e)
  BY <1>1, RunnerMade, NamedStep, LaunchStep, ConfigureStep, PauseStep, ContextEndsStep,
     SnapshotStep, KeepsRunningStep, SuspendsStep, CleanupStep, KilledStep, StoppedStep, ExitStep
     DEF RunnerNext, Kill
<1> QED
  BY <1>2, <1>3, <1>4

LEMMA NicNext == Inv /\ NicInv /\ [Next]_vars => NicInv'
<1> SUFFICES ASSUME Inv, NicInv, [Next]_vars PROVE NicInv'
  OBVIOUS
<1>1. TypeInv
  BY DEF Inv
<1>2. ASSUME NEW e \in Executions, RunnerNext(e)
      PROVE  NicInv'
  <2> SUFFICES ASSUME NEW f \in Executions, f \notin renamed' PROVE Kept(f)'
    BY DEF NicInv
  <2>1. renamed \subseteq renamed' /\ \A g \in Executions \ {e} : snapshot'[g] = snapshot[g]
    BY <1>1, <1>2, NamesOfOne
  <2>2. Kept(f)
    BY <2>1 DEF NicInv
  <2>3. CASE f # e
    BY <1>1, <1>2, <2>1, <2>2, <2>3, MachinesOfOthers, OthersKeepNics
  <2>4. CASE f = e
    BY <1>1, <1>2, <2>2, <2>4, KeptMade, KeptNamed, KeptCreated, KeptLaunched, KeptConfigured,
       KeptPaused, KeptContextEnds, KeptSnapshot, KeptRunning, KeptEnds DEF RunnerNext
  <2> QED
    BY <2>3, <2>4
<1>3. ASSUME NEW i \in DOMAIN vms, Exits(i)
      PROVE  NicInv'
  <2>1. UNCHANGED <<work, phase, saved, snapshot, renamed>>
    BY <1>3 DEF Exits, aux
  <2>2. ASSUME NEW e \in Executions \ renamed
        PROVE  Kept(e)'
    <3>1. NicsKept(e)
      BY <1>1, <1>3, ProcKeepsNics DEF Exits, Procs
    <3>2. Kept(e) /\ Shape(e)
      BY <1>1, Own DEF NicInv
    <3>3. phase[e] = "up" \/ work[e].pc = "written" => Current(e) \in Mine(e)
      BY <1>1, <3>1, <3>2, NicsAre DEF Shape, Holding
    <3> QED
      BY <1>1, <2>1, <3>1, <3>2, <3>3, NicsAre DEF Kept
  <2> QED
    BY <2>1, <2>2 DEF NicInv
<1>4. CASE Crash
  <2>1. /\ UNCHANGED <<vms, snapshot, renamed>>
        /\ \A e \in Executions : work'[e].pc = "idle" /\ saved'[e] = None /\ phase'[e] # "up"
    BY <1>4 DEF Crash, Idle
  <2>2. ASSUME NEW e \in Executions \ renamed
        PROVE  Kept(e)'
    BY <1>1, <2>1, QuietKeepsNics, KeptWithout DEF NicInv
  <2> QED
    BY <2>1, <2>2 DEF NicInv
<1>5. CASE UNCHANGED vars
  <2>1. UNCHANGED <<vms, work, phase, saved, snapshot, renamed>>
    BY <1>5 DEF vars, aux
  <2>2. \A e : Mine(e)' = Mine(e) /\ Current(e)' = Current(e)
    BY <1>1, <2>1, NoChange
  <2> QED
    BY <2>1, <2>2 DEF NicInv, Kept
<1> QED
  BY <1>2, <1>3, <1>4, <1>5 DEF Next, RunnerNext

LEMMA NicHolds == Spec => []NicInv
<1>1. Init => NicInv
  BY DEF Init, NicInv, Kept, Mine, Idle
<1> QED
  BY <1>1, NicNext, InvHolds, PTL DEF Spec

\* A guest uses the device made for its machine, across checkpoints that fail, retries and
\* restores, unless a checkpoint of its execution was reconstructed under another name.
THEOREM GuestsUseTheirDevice == Spec => []GuestOnItsDevice
<1>1. Inv /\ NicInv => GuestOnItsDevice
  <2> SUFFICES ASSUME Inv, NicInv, NEW i \in DOMAIN vms, vms[i].nic # None,
                      vms[i].exec \notin renamed
               PROVE  vms[i].nic = vms[i].tap
    BY DEF GuestOnItsDevice
  <2>1. vms[i].exec \in Executions
    BY DEF Inv, TypeInv, TypeOK, VM
  <2>2. Kept(vms[i].exec) /\ i \in Mine(vms[i].exec)
    BY <2>1 DEF NicInv, Mine
  <2> QED
    BY <2>2 DEF Kept
<1> QED
  BY <1>1, InvHolds, NicHolds, PTL
=============================================================================
