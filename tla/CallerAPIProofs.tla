--------------------------- MODULE CallerAPIProofs ---------------------------
(***************************************************************************)
(* Proofs about CallerAPI, for every set of callers, versions, bodies and  *)
(* ids, every number of attempts of reliableExec and any number of crashes.*)
(***************************************************************************)
EXTENDS CallerAPI, FiniteSetTheorems, TLAPS

-----------------------------------------------------------------------------
(***************************************************************************)
(* The greatest element of a finite set of numbers.                        *)
(***************************************************************************)
IsGreatest(m, S) == m \in S /\ \A w \in S : w <= m

\* A finite, non-empty set of natural numbers has a greatest element: else it has a
\* smallest subset without one, and taking an element away from that leaves a subset
\* that has one.
LEMMA GreatestExists ==
  ASSUME NEW S \in SUBSET Nat, IsFiniteSet(S), S # {}
  PROVE  \E m \in S : \A w \in S : w <= m
<1> DEFINE Without == {T \in SUBSET S : T # {} /\ ~\E m \in T : \A w \in T : w <= m}
<1> SUFFICES ASSUME Without # {} PROVE FALSE
  OBVIOUS
<1>1. IsWellFoundedOn(StrictSubsetOrdering(S), SUBSET S)
  BY FS_StrictSubsetOrderingWellFounded, FS_FiniteSubsetsOfFinite
<1>2. PICK T \in Without : \A U \in Without : ~(<<U, T>> \in StrictSubsetOrdering(S))
  <2> HIDE DEF Without
  <2>1. Without \subseteq SUBSET S
    BY DEF Without
  <2> QED
    BY <1>1, <2>1, WFMin
<1>3. PICK x \in T : TRUE
  OBVIOUS
<1>4. T \ {x} # {}
  <2> SUFFICES ASSUME T \ {x} = {} PROVE FALSE
    OBVIOUS
  <2>1. T = {x}
    BY <1>3
  <2> QED
    BY <2>1
<1>5. <<T \ {x}, T>> \in StrictSubsetOrdering(S)
  BY <1>3 DEF StrictSubsetOrdering
<1>6. T \ {x} \notin Without
  BY <1>2, <1>5
<1>7. PICK m \in T \ {x} : \A w \in T \ {x} : w <= m
  BY <1>4, <1>6
<1>8. (IF x <= m THEN m ELSE x) \in T /\ \A w \in T : w <= (IF x <= m THEN m ELSE x)
  BY <1>3, <1>7
<1> QED
  BY <1>8

\* What Greatest returns, on a set of versions.
LEMMA GreatestIs ==
  ASSUME NEW S \in SUBSET Versions, S # {}
  PROVE  IsGreatest(Greatest(S), S)
<1>1. S \in SUBSET Nat /\ IsFiniteSet(S)
  BY CallerAPIAssumption, FS_Subset
<1>2. \E m \in S : \A w \in S : w <= m
  BY <1>1, GreatestExists
<1> QED
  BY <1>2 DEF Greatest, IsGreatest

\* There is only one.
LEMMA GreatestIsUnique ==
  ASSUME NEW S \in SUBSET Versions, NEW m, IsGreatest(m, S)
  PROVE  m = Greatest(S)
<1>1. S \subseteq Nat /\ S # {}
  BY CallerAPIAssumption DEF IsGreatest
<1>2. IsGreatest(Greatest(S), S)
  BY <1>1, GreatestIs
<1>3. m \in Nat /\ Greatest(S) \in Nat /\ m <= Greatest(S) /\ Greatest(S) <= m
  BY <1>1, <1>2 DEF IsGreatest
<1> QED
  BY <1>3

LEMMA GreatestType ==
  ASSUME NEW S \in SUBSET Versions
  PROVE  Greatest(S) \in Versions \cup {0}
  BY GreatestIs DEF IsGreatest, Greatest

-----------------------------------------------------------------------------
(***************************************************************************)
(* Type correctness.  A call in progress has the arguments its operation   *)
(* needs.                                                                  *)
(***************************************************************************)
CallShape(call) ==
  /\ call.pc = "idle" => call = AtRest
  /\ call.pc # "idle" => call.op # "none"
  /\ call.op = "register" => call.version \in Versions /\ call.body \in Bodies
  /\ call.op = "unregister" => call.version \in Versions /\ call.body = Absent
  /\ call.op = "insert" => call.version = 0 /\ call.job \in (0..MaxClock) \X Ids

TypeInv ==
  /\ TypeOK
  /\ \A c \in Callers : CallShape(calls[c])
  /\ DOMAIN listing = DOMAIN NoListing

LEMMA AtRestTypes == AtRest \in Call /\ CallShape(AtRest)
  BY CallerAPIAssumption DEF AtRest, Call, CallShape, Bodies0

LEMMA InitTypes == Init => TypeInv
<1> SUFFICES ASSUME Init PROVE TypeInv
  OBVIOUS
<1> USE DEF Init
<1>1. stored \in [Versions -> Bodies0] /\ definitions \in [Versions -> Bodies0]
      /\ promised \in [Versions -> Bodies0 \cup {Unknown}]
  OBVIOUS
<1>2. latest \in Versions \cup {0}
  BY GreatestType DEF Registered
<1>3. calls \in [Callers -> Call] /\ \A c \in Callers : CallShape(calls[c])
  BY AtRestTypes
<1>4. listing.on \in BOOLEAN /\ listing.had \subseteq jobs /\ DOMAIN listing = DOMAIN NoListing
  BY DEF NoListing
<1>5. clock \in 0..MaxClock /\ made \in 0..MaxCalls /\ crashes \in 0..MaxCrashes
  BY CallerAPIAssumption
<1> QED
  BY <1>1, <1>2, <1>3, <1>4, <1>5 DEF TypeInv, TypeOK

\* The registry keeps its type.
LEMMA RegistryTypes ==
  ASSUME TypeInv, NEW v \in Versions, NEW b \in Bodies0, Register(v, b) \/ Unregister(v)
  PROVE  definitions' \in [Versions -> Bodies0] /\ latest' \in Versions \cup {0}
<1>1. Registered(definitions) \ {v} \in SUBSET Versions
  BY DEF Registered
<1> QED
  BY <1>1, GreatestType DEF TypeInv, TypeOK, Register, Unregister, Bodies0

\* A write that begins.
LEMMA BeginTypes ==
  ASSUME TypeInv, NEW c \in Callers,
         \/ \E v \in Versions : \/ \E b \in Bodies : Define(c, "register", v, b)
                                \/ Define(c, "unregister", v, Absent)
         \/ \E v \in Versions \cup {0}, id \in Ids : Spawn(c, v, id)
  PROVE  TypeInv'
<1> USE DEF registry, aux
<1>0. made < MaxCalls => made + 1 \in 0..MaxCalls
  BY CallerAPIAssumption DEF TypeInv, TypeOK
<1>1. ASSUME NEW op \in {"register", "unregister"}, NEW v \in Versions, NEW b \in Bodies0,
             op = "register" => b \in Bodies, op = "unregister" => b = Absent,
             Define(c, op, v, b)
      PROVE  TypeInv'
  <2> DEFINE new(alone) == [AtRest EXCEPT !.pc = "exec", !.op = op, !.version = v, !.body = b,
                                          !.alone = alone]
  <2>1. \A alone \in BOOLEAN : new(alone) \in Call /\ CallShape(new(alone))
    <3> SUFFICES ASSUME NEW alone \in BOOLEAN
                 PROVE  new(alone) \in Call /\ CallShape(new(alone))
      OBVIOUS
    <3>1. new(alone) \in Call
      BY AtRestTypes, Zenon DEF Call
    <3>2. /\ new(alone).pc = "exec" /\ new(alone).op = op
          /\ new(alone).version = v /\ new(alone).body = b
      BY AtRestTypes DEF Call
    <3> QED
      BY <1>1, <3>1, <3>2 DEF CallShape
  <2>2. \A k \in Callers : /\ [calls[k] EXCEPT !.alone = FALSE] \in Call
                           /\ calls[k].pc # "idle" => CallShape([calls[k] EXCEPT !.alone = FALSE])
    <3> SUFFICES ASSUME NEW k \in Callers
                 PROVE  /\ [calls[k] EXCEPT !.alone = FALSE] \in Call
                        /\ calls[k].pc # "idle" => CallShape([calls[k] EXCEPT !.alone = FALSE])
      OBVIOUS
    <3> DEFINE shared == [calls[k] EXCEPT !.alone = FALSE]
    <3>1. calls[k] \in Call /\ CallShape(calls[k])
      BY DEF TypeInv, TypeOK
    <3>2. shared \in Call
      BY <3>1, Zenon DEF Call
    <3>3. /\ shared.pc = calls[k].pc /\ shared.op = calls[k].op /\ shared.job = calls[k].job
          /\ shared.version = calls[k].version /\ shared.body = calls[k].body
      BY <3>1 DEF Call
    <3> QED
      BY <3>1, <3>2, <3>3 DEF CallShape
  <2>3. calls' \in [Callers -> Call] /\ \A k \in Callers : CallShape(calls'[k])
    <3> DEFINE alone == stage = "up" /\ \A d \in Callers : ~Busy(d, v)
    <3>1. calls' = [k \in Callers |-> IF k = c THEN new(alone)
                    ELSE IF Busy(k, v) THEN [calls[k] EXCEPT !.alone = FALSE] ELSE calls[k]]
      BY <1>1 DEF Define
    <3>2. alone \in BOOLEAN
      OBVIOUS
    <3> HIDE DEF new, alone
    <3> QED
      BY <2>1, <2>2, <3>1, <3>2 DEF TypeInv, TypeOK, Busy
  <2>4. promised' \in [Versions -> Bodies0 \cup {Unknown}]
    BY <1>1 DEF Define, TypeInv, TypeOK
  <2> QED
    BY <1>0, <1>1, <2>3, <2>4 DEF Define, TypeInv, TypeOK
<1>2. ASSUME NEW v \in Versions \cup {0}, NEW id \in Ids, Spawn(c, v, id)
      PROVE  TypeInv'
  <2> DEFINE new == [AtRest EXCEPT !.pc = "exec", !.op = "insert", !.job = <<clock, id>>]
  <2>1. new \in Call /\ CallShape(new)
    <3>1. clock \in Nat /\ clock \in 0..MaxClock
      BY CallerAPIAssumption DEF TypeInv, TypeOK
    <3>2. new \in Call
      BY <3>1, AtRestTypes, Zenon DEF Call
    <3>3. /\ new.pc = "exec" /\ new.op = "insert"
          /\ new.version = AtRest.version /\ new.job = <<clock, id>>
      BY AtRestTypes DEF Call
    <3>4. AtRest.version = 0
      BY DEF AtRest
    <3> QED
      BY <3>1, <3>2, <3>3, <3>4 DEF CallShape
  <2>2. calls' \in [Callers -> Call] /\ \A k \in Callers : CallShape(calls'[k])
    BY <1>2, <2>1 DEF Spawn, TypeInv, TypeOK
  <2> QED
    BY <1>0, <1>2, <2>2 DEF Spawn, TypeInv, TypeOK
<1> QED
  BY <1>1, <1>2 DEF Bodies0

\* What an attempt writes.
LEMMA CommitTypes ==
  ASSUME TypeInv, NEW c \in Callers, calls[c].pc = "exec",
         Commit(calls[c]) \/ UNCHANGED <<stored, jobs>>
  PROVE  /\ stored' \in [Versions -> Bodies0]
         /\ jobs' \subseteq OldJobs \cup ((0..MaxClock) \X Ids)
         /\ jobs \subseteq jobs'
  BY DEF TypeInv, TypeOK, CallShape, Commit, Call, Bodies0

LEMMA AttemptTypes ==
  ASSUME TypeInv, NEW c \in Callers, Attempt(c)
  PROVE  TypeInv'
<1> USE DEF registry, aux
<1>1. calls[c].pc = "exec" /\ (Commit(calls[c]) \/ UNCHANGED <<stored, jobs>>)
  BY DEF Attempt
<1>2. /\ stored' \in [Versions -> Bodies0]
      /\ jobs' \subseteq OldJobs \cup ((0..MaxClock) \X Ids)
      /\ jobs \subseteq jobs'
  BY <1>1, CommitTypes
<1>3. \/ calls' = [calls EXCEPT ![c].pc = "committed"]
      \/ calls[c].tries < MaxRetries /\ calls' = [calls EXCEPT ![c].tries = @ + 1]
      \/ calls' = [calls EXCEPT ![c] = AtRest]
  BY DEF Attempt, Failed
<1>4. calls' \in [Callers -> Call] /\ \A k \in Callers : CallShape(calls'[k])
  <2>1. /\ [calls[c] EXCEPT !.pc = "committed"] \in Call
        /\ CallShape([calls[c] EXCEPT !.pc = "committed"])
    BY <1>1 DEF TypeInv, TypeOK, Call, CallShape
  <2>2. ASSUME calls[c].tries < MaxRetries
        PROVE  /\ [calls[c] EXCEPT !.tries = @ + 1] \in Call
               /\ CallShape([calls[c] EXCEPT !.tries = @ + 1])
    <3>1. calls[c].tries + 1 \in 0..MaxRetries
      BY <2>2, CallerAPIAssumption DEF TypeInv, TypeOK, Call
    <3> QED
      BY <1>1, <3>1 DEF TypeInv, TypeOK, Call, CallShape
  <2> QED
    BY <1>3, <2>1, <2>2, AtRestTypes DEF TypeInv, TypeOK
<1> QED
  BY <1>2, <1>4 DEF Attempt, TypeInv, TypeOK

LEMMA FinishTypes ==
  ASSUME TypeInv, NEW c \in Callers, Finish(c)
  PROVE  TypeInv'
<1> USE DEF registry, aux
<1>1. calls[c] \in Call /\ CallShape(calls[c]) /\ calls[c].pc = "committed"
  BY DEF Finish, TypeInv, TypeOK
<1>2. \/ /\ calls[c].op \in {"register", "unregister"}
         /\ Register(calls[c].version, calls[c].body) \/ Unregister(calls[c].version)
      \/ calls[c].op = "insert" /\ UNCHANGED <<definitions, latest>>
  BY <1>1 DEF Finish, Call, CallShape
<1>3. calls[c].op \in {"register", "unregister"} => calls[c].version \in Versions
  BY <1>1 DEF CallShape
<1>4. calls[c].body \in Bodies0
  BY <1>1 DEF Call
<1>5. definitions' \in [Versions -> Bodies0] /\ latest' \in Versions \cup {0}
  BY <1>2, <1>3, <1>4, RegistryTypes DEF TypeInv, TypeOK
<1>6. promised' \in [Versions -> Bodies0 \cup {Unknown}]
  BY <1>3, <1>4 DEF Finish, TypeInv, TypeOK
<1>7. calls' \in [Callers -> Call] /\ \A k \in Callers : CallShape(calls'[k])
  BY AtRestTypes DEF Finish, TypeInv, TypeOK
<1> QED
  BY <1>5, <1>6, <1>7 DEF Finish, TypeInv, TypeOK

LEMMA ListingTypes ==
  ASSUME TypeInv, StartListing \/ ListJobs \/ Tick
  PROVE  TypeInv'
<1> USE DEF registry, aux
<1>1. CASE StartListing
  BY <1>1 DEF StartListing, TypeInv, TypeOK, NoListing
<1>2. CASE ListJobs
  <2>1. listing'.on \in BOOLEAN /\ listing'.had \subseteq jobs /\ DOMAIN listing' = DOMAIN NoListing
    <3> DEFINE more == [listing EXCEPT !.listed = @ \o Page, !.cursor = Page[Limit]]
    <3>1. more.on = listing.on /\ more.had = listing.had /\ DOMAIN more = DOMAIN listing
      BY DEF TypeInv, NoListing
    <3>2. listing' = more \/ listing' = NoListing
      BY <1>2 DEF ListJobs
    <3> HIDE DEF more
    <3>3. CASE listing' = more
      BY <3>1, <3>3 DEF TypeInv, TypeOK
    <3>4. CASE listing' = NoListing
      BY <3>4 DEF NoListing
    <3> QED
      BY <3>2, <3>3, <3>4
  <2> QED
    BY <1>2, <2>1 DEF ListJobs, TypeInv, TypeOK
<1>3. CASE Tick
  BY <1>3, CallerAPIAssumption DEF Tick, TypeInv, TypeOK
<1> QED
  BY <1>1, <1>2, <1>3

LEMMA RecoveryTypes ==
  ASSUME TypeInv,
         Crash \/ ReadDefinitions \/ (\E p \in pending : RegisterRecovered(p)) \/ Recovered
  PROVE  TypeInv'
<1> USE DEF registry, aux
<1>1. CASE Crash
  <2>1. calls' \in [Callers -> Call] /\ \A k \in Callers : CallShape(calls'[k])
    BY <1>1, AtRestTypes DEF Crash
  <2> QED
    BY <1>1, <2>1, CallerAPIAssumption DEF Crash, TypeInv, TypeOK, Bodies0
<1>2. CASE ReadDefinitions
  BY <1>2 DEF ReadDefinitions, TypeInv, TypeOK, Registered, Bodies0
<1>3. ASSUME NEW p \in pending, RegisterRecovered(p)
      PROVE  TypeInv'
  <2>1. p[1] \in Versions /\ p[2] \in Bodies0
    BY DEF TypeInv, TypeOK, Bodies0
  <2>2. definitions' \in [Versions -> Bodies0] /\ latest' \in Versions \cup {0}
    BY <1>3, <2>1, RegistryTypes DEF RegisterRecovered
  <2> QED
    BY <1>3, <2>2 DEF RegisterRecovered, TypeInv, TypeOK
<1>4. CASE Recovered
  BY <1>4 DEF Recovered, TypeInv, TypeOK
<1> QED
  BY <1>1, <1>2, <1>3, <1>4

LEMMA StepTypes == TypeInv /\ [Next]_vars => TypeInv'
<1> SUFFICES ASSUME TypeInv, [Next]_vars PROVE TypeInv'
  OBVIOUS
<1>1. CASE UNCHANGED vars
  BY <1>1 DEF vars, registry, aux, TypeInv, TypeOK
<1> QED
  BY <1>1, BeginTypes, AttemptTypes, FinishTypes, ListingTypes, RecoveryTypes DEF Next

LEMMA TypeInvariant == Spec => []TypeInv
  BY InitTypes, StepTypes, PTL DEF Spec

\* Every reachable state has the declared types: a listing began with jobs that are still
\* in the table, and every job in the table was created at a time of this clock.
THEOREM TypeCorrect == Spec => []TypeOK
  BY TypeInvariant, PTL DEF TypeInv

-----------------------------------------------------------------------------
(***************************************************************************)
(* The latest version is the greatest.                                     *)
(***************************************************************************)
LEMMA RegisterKeepsLatest ==
  ASSUME TypeInv, LatestIsGreatest, NEW v \in Versions, NEW b \in Bodies, Register(v, b)
  PROVE  LatestIsGreatest'
<1> DEFINE S == Registered(definitions)
           T == Registered(definitions')
<1>1. S \in SUBSET Versions /\ T = S \cup {v} /\ v \in Nat /\ v # 0
  BY CallerAPIAssumption DEF TypeInv, TypeOK, Register, Registered
<1>2. latest = Greatest(S)
  BY DEF LatestIsGreatest
<1>3. CASE S = {}
  <2>1. latest' = v
    BY <1>2, <1>3 DEF Register, Greatest
  <2>2. IsGreatest(v, T)
    BY <1>1, <1>3 DEF IsGreatest
  <2> QED
    BY <1>1, <2>1, <2>2, GreatestIsUnique DEF LatestIsGreatest
<1>4. CASE S # {}
  <2>1. IsGreatest(latest, S) /\ S \subseteq Nat /\ 0 \notin S
    BY <1>1, <1>2, <1>4, GreatestIs, CallerAPIAssumption
  <2>2. IsGreatest(IF v > latest THEN v ELSE latest, T)
    BY <1>1, <2>1 DEF IsGreatest
  <2>3. latest' = IF v > latest THEN v ELSE latest
    BY <2>1 DEF Register, IsGreatest
  <2> QED
    BY <1>1, <2>2, <2>3, GreatestIsUnique DEF LatestIsGreatest
<1> QED
  BY <1>3, <1>4

LEMMA UnregisterKeepsLatest ==
  ASSUME TypeInv, LatestIsGreatest, NEW v \in Versions, Unregister(v)
  PROVE  LatestIsGreatest'
<1>1. CASE definitions[v] = Absent
  BY <1>1 DEF Unregister, LatestIsGreatest
<1>2. CASE definitions[v] # Absent
  <2>1. Registered(definitions') = Registered(definitions) \ {v}
    BY <1>2 DEF Unregister, Registered, TypeInv, TypeOK
  <2> QED
    BY <1>2, <2>1 DEF Unregister, LatestIsGreatest
<1> QED
  BY <1>1, <1>2

LEMMA LatestStep == TypeInv /\ LatestIsGreatest /\ [Next]_vars => LatestIsGreatest'
<1> SUFFICES ASSUME TypeInv, LatestIsGreatest, [Next]_vars PROVE LatestIsGreatest'
  OBVIOUS
<1> USE DEF registry
<1>1. CASE UNCHANGED <<definitions, latest>>
  BY <1>1 DEF LatestIsGreatest
<1>2. ASSUME NEW c \in Callers, Finish(c)
      PROVE  LatestIsGreatest'
  <2>1. calls[c] \in Call /\ CallShape(calls[c]) /\ calls[c].pc = "committed"
    BY <1>2 DEF Finish, TypeInv, TypeOK
  <2>2. CASE calls[c].op = "register"
    BY <1>2, <2>1, <2>2, RegisterKeepsLatest DEF Finish, CallShape
  <2>3. CASE calls[c].op = "unregister"
    BY <1>2, <2>1, <2>3, UnregisterKeepsLatest DEF Finish, CallShape
  <2>4. CASE calls[c].op = "insert"
    BY <1>1, <1>2, <2>4 DEF Finish
  <2> QED
    BY <2>1, <2>2, <2>3, <2>4 DEF Call, CallShape
<1>3. ASSUME NEW p \in pending, RegisterRecovered(p)
      PROVE  LatestIsGreatest'
  BY <1>3, RegisterKeepsLatest DEF RegisterRecovered, TypeInv, TypeOK
<1>4. CASE Crash
  <2>1. Registered(definitions') = {} /\ latest' = 0
    BY <1>4 DEF Crash, Registered
  <2> QED
    BY <2>1 DEF LatestIsGreatest, Greatest
<1>5. ASSUME NEW c \in Callers,
             \/ \E v \in Versions : \/ \E b \in Bodies : Define(c, "register", v, b)
                                    \/ Define(c, "unregister", v, Absent)
             \/ \E v \in Versions \cup {0}, id \in Ids : Spawn(c, v, id)
             \/ Attempt(c)
      PROVE  UNCHANGED <<definitions, latest>>
  BY <1>5 DEF Define, Spawn, Attempt
<1>6. ASSUME StartListing \/ ListJobs \/ Tick \/ ReadDefinitions \/ Recovered \/ UNCHANGED vars
      PROVE  UNCHANGED <<definitions, latest>>
  BY <1>6 DEF StartListing, ListJobs, Tick, ReadDefinitions, Recovered, vars
<1> QED
  BY <1>1, <1>2, <1>3, <1>4, <1>5, <1>6 DEF Next

\* A spawn that asks for the latest version gets the greatest one registered, whatever the
\* order of registrations, deletions, crashes and recovery, for any number of versions.
THEOREM LatestCorrect == Spec => []LatestIsGreatest
<1>1. Init => LatestIsGreatest
  BY DEF Init, LatestIsGreatest
<1> QED
  BY <1>1, LatestStep, TypeInvariant, PTL DEF Spec

-----------------------------------------------------------------------------
(***************************************************************************)
(* What callers were told holds.  A version with a promise has no write in *)
(* progress, and its row, its entry in the registry and what recovery has  *)
(* still to register agree; a call that is alone may become a promise.     *)
(***************************************************************************)
Settled(v) ==
  /\ stored[v] = promised[v]
  /\ \A c \in Callers : ~Busy(c, v)
  /\ stage = "up" => definitions[v] = stored[v]
  /\ stage = "starting" => definitions[v] = Absent
  /\ stage = "recovering" /\ <<v, stored[v]>> \notin pending => definitions[v] = stored[v]
  /\ \A p \in pending : p[1] = v => p[2] = stored[v]

Alone(c) ==
  LET v == calls[c].version IN
  /\ stage = "up"
  /\ \A d \in Callers : Busy(d, v) => d = c
  /\ calls[c].pc = "committed" => stored[v] = calls[c].body

PromiseInv ==
  /\ \A v \in Versions : promised[v] # Unknown => Settled(v)
  /\ \A c \in Callers : calls[c].op \in {"register", "unregister"} /\ calls[c].alone => Alone(c)
  /\ stage # "recovering" => pending = {}

\* A call that begins takes the promise on its version back, and no call on that version
\* is alone any more unless it is the only one.
LEMMA DefineKeepsPromise ==
  ASSUME TypeInv, PromiseInv, NEW c \in Callers, NEW op \in {"register", "unregister"},
         NEW v \in Versions, NEW b, Define(c, op, v, b)
  PROVE  PromiseInv'
<1> USE DEF registry
<1> DEFINE alone == stage = "up" /\ \A d \in Callers : ~Busy(d, v)
<1>1. /\ UNCHANGED <<stored, definitions, pending, stage>>
      /\ promised' = [promised EXCEPT ![v] = Unknown]
      /\ calls[c].pc = "idle"
  BY DEF Define
<1>2. /\ calls'[c].pc = "exec" /\ calls'[c].op = op /\ calls'[c].version = v
      /\ calls'[c].alone = alone
  <2>1. calls'[c] = [AtRest EXCEPT !.pc = "exec", !.op = op, !.version = v, !.body = b,
                                   !.alone = alone]
    BY DEF Define
  <2> HIDE DEF alone
  <2>2. DOMAIN AtRest = {"pc", "op", "version", "body", "job", "tries", "alone"}
    BY DEF AtRest
  <2> QED
    BY <2>1, <2>2, Zenon
<1>3. ASSUME NEW k \in Callers \ {c}
      PROVE  /\ calls'[k].pc = calls[k].pc /\ calls'[k].op = calls[k].op
             /\ calls'[k].version = calls[k].version /\ calls'[k].body = calls[k].body
             /\ calls'[k].alone => calls[k].alone /\ ~Busy(k, v)
  <2>1. calls'[k] = IF Busy(k, v) THEN [calls[k] EXCEPT !.alone = FALSE] ELSE calls[k]
    BY DEF Define
  <2>2. calls[k] \in Call
    BY DEF TypeInv, TypeOK
  <2> QED
    BY <2>1, <2>2 DEF Call
<1>4. ASSUME NEW w \in Versions, promised'[w] # Unknown
      PROVE  Settled(w)'
  <2>1. w # v /\ promised'[w] = promised[w] /\ Settled(w)
    BY <1>1, <1>4 DEF TypeInv, TypeOK, PromiseInv
  <2>2. \A k \in Callers : ~Busy(k, w)'
    BY <1>2, <1>3, <2>1 DEF Settled, Busy
  <2> QED
    BY <1>1, <2>1, <2>2 DEF Settled
<1>5. ASSUME NEW k \in Callers, calls'[k].op \in {"register", "unregister"}, calls'[k].alone
      PROVE  Alone(k)'
  <2>1. CASE k = c
    <3>1. alone
      BY <1>2, <1>5, <2>1
    <3>2. \A d \in Callers : (Busy(d, v))' => d = c
      BY <1>2, <1>3, <3>1 DEF Busy
    <3> QED
      BY <1>1, <1>2, <2>1, <3>1, <3>2 DEF Alone
  <2>2. CASE k # c
    <3>1. Alone(k) /\ ~Busy(k, v)
      BY <1>3, <1>5, <2>2 DEF PromiseInv
    <3>2. calls[k].pc # "idle"
      BY <1>3, <1>5, <2>2 DEF TypeInv, CallShape, AtRest
    <3>3. calls[k].version # v
      BY <3>1, <3>2 DEF Busy
    <3>4. PICK w : w = calls[k].version
      OBVIOUS
    <3>5. \A d \in Callers : (Busy(d, w))' => d = k
      BY <1>2, <1>3, <3>1, <3>3, <3>4 DEF Alone, Busy
    <3> QED
      BY <1>1, <1>3, <2>2, <3>1, <3>4, <3>5 DEF Alone
  <2> QED
    BY <2>1, <2>2
<1> QED
  BY <1>1, <1>4, <1>5 DEF PromiseInv

\* Calls whose version and body stay as they are, or that come to rest.
CallsKept ==
  \A k \in Callers :
    \/ calls'[k] = AtRest
    \/ /\ calls'[k].pc = calls[k].pc /\ calls'[k].op = calls[k].op
       /\ calls'[k].version = calls[k].version /\ calls'[k].body = calls[k].body
       /\ calls'[k].alone = calls[k].alone
    \/ calls'[k].op = "insert" /\ calls'[k].version = 0

\* A step that leaves table and registry alone.
LEMMA QuietKeepsPromise ==
  ASSUME TypeInv, PromiseInv, CallsKept,
         UNCHANGED <<stored, definitions, pending, stage, promised>>
  PROVE  PromiseInv'
<1>1. 0 \notin Versions /\ AtRest.version = 0 /\ AtRest.pc = "idle" /\ AtRest.op = "none"
  BY CallerAPIAssumption DEF AtRest
<1>2. \A k \in Callers, w \in Versions : (Busy(k, w))' => Busy(k, w)
  BY <1>1 DEF CallsKept, Busy
<1>3. \A w \in Versions : promised'[w] # Unknown => Settled(w)'
  BY <1>2 DEF PromiseInv, Settled
<1>4. ASSUME NEW k \in Callers, calls'[k].op \in {"register", "unregister"}, calls'[k].alone
      PROVE  Alone(k)'
  <2>1. /\ calls'[k].pc = calls[k].pc /\ calls'[k].op = calls[k].op
        /\ calls'[k].version = calls[k].version /\ calls'[k].body = calls[k].body
        /\ calls[k].alone
    BY <1>1, <1>4 DEF CallsKept
  <2>2. Alone(k) /\ calls[k].version \in Versions
    BY <1>4, <2>1 DEF PromiseInv, TypeInv, CallShape
  <2> QED
    BY <1>2, <2>1, <2>2 DEF Alone
<1> QED
  BY <1>3, <1>4 DEF PromiseInv

LEMMA AttemptKeepsPromise ==
  ASSUME TypeInv, PromiseInv, NEW c \in Callers, Attempt(c)
  PROVE  PromiseInv'
<1> USE DEF registry, aux
<1> DEFINE v == calls[c].version
<1>0. /\ calls[c] \in Call /\ CallShape(calls[c]) /\ calls[c].pc = "exec"
      /\ \A k \in Callers : calls[k] \in Call
      /\ UNCHANGED <<definitions, pending, stage, promised>>
  BY DEF Attempt, TypeInv, TypeOK
<1>1. \/ calls' = [calls EXCEPT ![c].pc = "committed"]
      \/ calls' = [calls EXCEPT ![c].tries = @ + 1]
      \/ calls' = [calls EXCEPT ![c] = AtRest]
  BY DEF Attempt, Failed
<1>2. /\ \A k \in Callers \ {c} : calls'[k] = calls[k]
      /\ \/ calls'[c] = AtRest
         \/ /\ calls'[c].op = calls[c].op /\ calls'[c].version = v
            /\ calls'[c].body = calls[c].body /\ calls'[c].alone = calls[c].alone
            /\ calls'[c].pc \in {"exec", "committed"}
  BY <1>0, <1>1 DEF TypeInv, TypeOK, Call
<1>3. 0 \notin Versions /\ AtRest.version = 0 /\ AtRest.pc = "idle" /\ AtRest.op = "none"
  BY CallerAPIAssumption DEF AtRest
<1>4. \A k \in Callers, w \in Versions : (Busy(k, w))' => Busy(k, w)
  BY <1>0, <1>2, <1>3 DEF Busy
<1>5. \/ UNCHANGED stored
      \/ /\ calls[c].op \in {"register", "unregister"} /\ v \in Versions
         /\ stored' = [stored EXCEPT ![v] = calls[c].body]
  BY <1>0 DEF Attempt, Commit, CallShape
<1>6. ASSUME NEW w \in Versions, promised'[w] # Unknown
      PROVE  Settled(w)'
  <2>1. Settled(w)
    BY <1>0, <1>6 DEF PromiseInv
  <2>2. w # v
    BY <1>0, <2>1 DEF Settled, Busy
  <2>3. stored'[w] = stored[w]
    BY <1>5, <2>2 DEF TypeInv, TypeOK
  <2> QED
    BY <1>0, <1>4, <2>1, <2>3 DEF Settled
<1>7. ASSUME NEW k \in Callers, calls'[k].op \in {"register", "unregister"}, calls'[k].alone
      PROVE  Alone(k)'
  <2>1. /\ calls'[k].op = calls[k].op /\ calls'[k].version = calls[k].version
        /\ calls'[k].body = calls[k].body /\ calls[k].alone
    BY <1>2, <1>3, <1>7
  <2>2. Alone(k) /\ calls[k].version \in Versions
    BY <1>7, <2>1 DEF PromiseInv, TypeInv, CallShape
  <2>3. \A d \in Callers : Busy(d, calls[k].version)' => d = k
    <3>1. PICK w \in Versions : w = calls[k].version
      BY <2>2
    <3>2. \A d \in Callers : Busy(d, w)' => d = k
      BY <1>4, <2>2, <3>1 DEF Alone
    <3> QED
      BY <2>1, <3>1, <3>2
  <2>4. ASSUME calls'[k].pc = "committed"
        PROVE  stored'[calls[k].version] = calls[k].body
    <3>1. CASE k = c
      <4>1. Commit(calls[c])
        <5>1. ASSUME calls' = [calls EXCEPT ![c].tries = @ + 1]
              PROVE  FALSE
          <6>1. calls'[c] = [calls[c] EXCEPT !.tries = @ + 1]
            BY <5>1 DEF TypeInv, TypeOK
          <6>2. calls'[c].pc = calls[c].pc
            BY <1>0, <6>1 DEF Call
          <6> QED
            BY <1>0, <2>4, <3>1, <6>2
        <5>2. calls' # [calls EXCEPT ![c] = AtRest]
          BY <1>3, <2>4, <3>1 DEF TypeInv, TypeOK
        <5> QED
          BY <5>1, <5>2 DEF Attempt, Failed
      <4>2. calls[c].op = "unregister" => calls[c].body = Absent
        BY <1>0 DEF CallShape
      <4>3. stored' = [stored EXCEPT ![v] = calls[c].body]
        BY <1>7, <2>1, <3>1, <4>1, <4>2 DEF Commit
      <4> QED
        BY <2>2, <3>1, <4>3 DEF TypeInv, TypeOK
    <3>2. CASE k # c
      <4>1. calls[k].version # v /\ stored[calls[k].version] = calls[k].body
        BY <1>0, <1>2, <2>2, <2>4, <3>2 DEF Alone, Busy
      <4> QED
        BY <1>5, <2>2, <4>1 DEF TypeInv, TypeOK
    <3> QED
      BY <3>1, <3>2
  <2> QED
    BY <1>0, <2>1, <2>2, <2>3, <2>4 DEF Alone
<1> QED
  BY <1>0, <1>6, <1>7 DEF PromiseInv

LEMMA FinishKeepsPromise ==
  ASSUME TypeInv, PromiseInv, NEW c \in Callers, Finish(c)
  PROVE  PromiseInv'
<1> DEFINE call == calls[c]
           v == calls[c].version
<1>0. /\ call \in Call /\ CallShape(call) /\ call.pc = "committed"
      /\ UNCHANGED <<stored, pending, stage>>
      /\ calls' = [calls EXCEPT ![c] = AtRest]
  BY DEF Finish, TypeInv, TypeOK
<1>1. 0 \notin Versions /\ AtRest.version = 0 /\ AtRest.pc = "idle" /\ AtRest.op = "none"
  BY CallerAPIAssumption DEF AtRest
<1>2. \A k \in Callers : IF k = c THEN calls'[k] = AtRest ELSE calls'[k] = calls[k]
  BY <1>0 DEF TypeInv, TypeOK
<1>3. CASE call.op = "insert"
  <2>1. UNCHANGED <<definitions, promised>> /\ CallsKept
    BY <1>0, <1>2, <1>3 DEF Finish, CallsKept
  <2> QED
    BY <1>0, <2>1, QuietKeepsPromise
<1>4. CASE call.op \in {"register", "unregister"}
  <2>0. v \in Versions /\ Busy(c, v)
    BY <1>0, <1>4 DEF CallShape, Busy
  <2>1. promised[v] = Unknown
    BY <2>0 DEF PromiseInv, Settled
  <2>2. \A w \in Versions \ {v} : definitions'[w] = definitions[w] /\ promised'[w] = promised[w]
    BY <1>0, <1>4 DEF Finish, Register, Unregister, TypeInv, TypeOK
  <2>3. \A k \in Callers, w \in Versions : Busy(k, w)' => Busy(k, w) /\ k # c
    BY <1>1, <1>2 DEF Busy
  <2>4. ASSUME NEW w \in Versions, promised'[w] # Unknown
        PROVE  Settled(w)'
    <3>1. CASE w # v
      <4>1. Settled(w) /\ promised'[w] = promised[w] /\ definitions'[w] = definitions[w]
        BY <2>2, <2>4, <3>1 DEF PromiseInv
      <4> QED
        BY <1>0, <2>3, <4>1 DEF Settled
    <3>2. CASE w = v
      <4>1. /\ call.alone
            /\ call.op = "register" \/ (call.op = "unregister" /\ definitions[v] # Absent)
            /\ promised' = [promised EXCEPT ![v] = call.body]
        BY <2>1, <2>4, <3>2 DEF Finish
      <4>2. Alone(c)
        BY <1>4, <4>1 DEF PromiseInv
      <4>3. stage = "up" /\ stored[v] = call.body /\ pending = {}
        BY <1>0, <4>2 DEF Alone, PromiseInv
      <4>4. \A k \in Callers : ~Busy(k, w)'
        BY <2>3, <3>2, <4>2 DEF Alone
      <4>5. definitions'[v] = call.body
        BY <1>0, <2>0, <4>1 DEF Finish, Register, Unregister, CallShape, TypeInv, TypeOK
      <4>6. promised'[v] = call.body
        BY <2>0, <4>1 DEF TypeInv, TypeOK
      <4> QED
        BY <1>0, <3>2, <4>3, <4>4, <4>5, <4>6 DEF Settled
    <3> QED
      BY <3>1, <3>2
  <2>5. ASSUME NEW k \in Callers, calls'[k].op \in {"register", "unregister"}, calls'[k].alone
        PROVE  Alone(k)'
    <3>1. k # c /\ calls'[k] = calls[k] /\ Alone(k)
      BY <1>1, <1>2, <2>5 DEF PromiseInv
    <3>2. PICK w \in Versions : w = calls[k].version
      BY <2>5, <3>1 DEF TypeInv, CallShape
    <3> QED
      BY <1>0, <2>3, <3>1, <3>2 DEF Alone
  <2> QED
    BY <1>0, <2>4, <2>5 DEF PromiseInv
<1> QED
  BY <1>0, <1>3, <1>4 DEF Call, CallShape

\* While the definitions are being recovered no call is alone.
LEMMA RecoveryKeepsPromise ==
  ASSUME TypeInv, PromiseInv,
         Crash \/ ReadDefinitions \/ (\E p \in pending : RegisterRecovered(p)) \/ Recovered
  PROVE  PromiseInv'
<1> USE DEF aux
<1>0. AtRest.version = 0 /\ AtRest.pc = "idle" /\ AtRest.op = "none"
  BY DEF AtRest
<1>1. CASE Crash
  <2>1. \A k \in Callers : calls'[k] = AtRest
    BY <1>1 DEF Crash
  <2>2. \A w \in Versions : promised'[w] # Unknown => Settled(w)'
    BY <1>0, <1>1, <2>1 DEF Crash, PromiseInv, Settled, Busy
  <2> QED
    BY <1>0, <1>1, <2>1, <2>2 DEF Crash, PromiseInv
<1>2. CASE ReadDefinitions \/ Recovered
  <2>1. /\ UNCHANGED <<stored, definitions, calls, promised>>
        /\ stage # "up"
    BY <1>2 DEF ReadDefinitions, Recovered
  <2>2. \A w \in Versions : promised[w] # Unknown => Settled(w)'
    BY <1>2, <2>1 DEF ReadDefinitions, Recovered, PromiseInv, Settled, Busy, Registered
  <2>3. \A k \in Callers : ~(calls'[k].op \in {"register", "unregister"} /\ calls'[k].alone)
    BY <2>1 DEF PromiseInv, Alone
  <2> QED
    BY <1>2, <2>1, <2>2, <2>3 DEF ReadDefinitions, Recovered, PromiseInv
<1>3. ASSUME NEW p \in pending, RegisterRecovered(p)
      PROVE  PromiseInv'
  <2>1. /\ UNCHANGED <<stored, stage, calls, promised>>
        /\ definitions' = [definitions EXCEPT ![p[1]] = p[2]]
        /\ pending' = pending \ {p} /\ stage = "recovering" /\ p \in Versions \X Bodies
    BY <1>3 DEF RegisterRecovered, Register, PromiseInv, TypeInv, TypeOK
  <2>2. ASSUME NEW w \in Versions, promised'[w] # Unknown
        PROVE  Settled(w)'
    <3>1. Settled(w)
      BY <2>1, <2>2 DEF PromiseInv
    <3>2. ASSUME <<w, stored[w]>> \notin pending'
          PROVE  definitions'[w] = stored[w]
      <4>1. CASE p[1] = w
        BY <2>1, <3>1, <4>1 DEF Settled, TypeInv, TypeOK
      <4>2. CASE p[1] # w
        BY <2>1, <3>1, <3>2, <4>2 DEF Settled, TypeInv, TypeOK
      <4> QED
        BY <4>1, <4>2
    <3> QED
      BY <2>1, <3>1, <3>2 DEF Settled, Busy
  <2>3. \A k \in Callers : ~(calls'[k].op \in {"register", "unregister"} /\ calls'[k].alone)
    BY <2>1 DEF PromiseInv, Alone
  <2> QED
    BY <2>1, <2>2, <2>3 DEF PromiseInv
<1> QED
  BY <1>1, <1>2, <1>3

LEMMA PromiseStep == TypeInv /\ PromiseInv /\ [Next]_vars => PromiseInv'
<1> SUFFICES ASSUME TypeInv, PromiseInv, [Next]_vars PROVE PromiseInv'
  OBVIOUS
<1> USE DEF registry, aux
<1>1. ASSUME NEW c \in Callers, NEW v \in Versions \cup {0}, NEW id \in Ids, Spawn(c, v, id)
      PROVE  PromiseInv'
  <2>1. \A k \in Callers :
          calls'[k] = IF k = c THEN [AtRest EXCEPT !.pc = "exec", !.op = "insert",
                                                   !.job = <<clock, id>>]
                      ELSE calls[k]
    BY <1>1 DEF Spawn, TypeInv, TypeOK
  <2>2. calls'[c].op = "insert" /\ calls'[c].version = 0
    BY <2>1 DEF AtRest
  <2>3. CallsKept
    BY <2>1, <2>2 DEF CallsKept
  <2> QED
    BY <1>1, <2>3, QuietKeepsPromise DEF Spawn
<1>2. CASE StartListing \/ ListJobs \/ Tick \/ UNCHANGED vars
  <2>1. CallsKept /\ UNCHANGED <<stored, definitions, pending, stage, promised>>
    BY <1>2 DEF StartListing, ListJobs, Tick, vars, CallsKept
  <2> QED
    BY <2>1, QuietKeepsPromise
<1> QED
  BY <1>1, <1>2, DefineKeepsPromise, AttemptKeepsPromise, FinishKeepsPromise,
     RecoveryKeepsPromise DEF Next

\* A registration or deletion that was acknowledged, and that no other call on the version
\* and no recovery overlapped, is in the table for good and in the registry whenever
\* recovery is over: whatever answers reliableExec loses, however often it repeats the
\* transaction, and whenever the hypervisor crashes.
THEOREM PromisesKept == Spec => []PromiseKept
<1>1. Init => PromiseInv
  <2> SUFFICES ASSUME Init PROVE PromiseInv
    OBVIOUS
  <2>1. \A c \in Callers : calls[c].pc = "idle" /\ calls[c].op = "none"
    BY DEF Init, AtRest
  <2> QED
    BY <2>1 DEF Init, PromiseInv, Settled, Busy
<1>2. PromiseInv => PromiseKept
  BY DEF PromiseInv, PromiseKept, Settled
<1> QED
  BY <1>1, <1>2, PromiseStep, TypeInvariant, PTL DEF Spec

-----------------------------------------------------------------------------
(***************************************************************************)
(* Listings.  The rank of a row is the number of rows listed before it;    *)
(* ranks tell rows apart, so the rows of ranks 0..n-1 are the page.        *)
(***************************************************************************)
Rank(k, S) == Cardinality({l \in S : Before(k, l)})

Rows == Nat \X Nat

\* Before is a strict total order on rows.
LEMMA BeforeOrder ==
  /\ \A k \in Rows : ~Before(k, k)
  /\ \A k, l \in Rows : k = l \/ Before(k, l) \/ Before(l, k)
  /\ \A k, l, m \in Rows : Before(k, l) /\ Before(l, m) => Before(k, m)
  BY DEF Rows, Before

LEMMA RankDecreases ==
  ASSUME NEW S \in SUBSET Rows, IsFiniteSet(S), NEW k \in S, NEW l \in S, Before(k, l)
  PROVE  Rank(l, S) < Rank(k, S)
<1> DEFINE Above(x) == {m \in S : Before(x, m)}
<1>1. Above(l) \subseteq Above(k) /\ l \in Above(k) /\ l \notin Above(l)
  BY BeforeOrder
<1>2. IsFiniteSet(Above(k)) /\ IsFiniteSet(Above(l))
  BY FS_Subset
<1>3. /\ Cardinality(Above(k)) \in Nat /\ Cardinality(Above(l)) \in Nat
      /\ Cardinality(Above(l)) <= Cardinality(Above(k))
      /\ Cardinality(Above(k)) # Cardinality(Above(l))
  <2> HIDE DEF Above
  <2> QED
    BY <1>1, <1>2, FS_Subset, FS_CardinalityType
<1> QED
  BY <1>3 DEF Rank

LEMMA RankTypes ==
  ASSUME NEW S \in SUBSET Rows, IsFiniteSet(S), NEW k \in S
  PROVE  Rank(k, S) \in 0..(Cardinality(S) - 1)
<1> DEFINE Above == {m \in S : Before(k, m)}
<1>1. Above \subseteq S /\ k \notin Above
  BY BeforeOrder
<1>2. IsFiniteSet(Above)
  BY FS_Subset
<1>3. /\ Cardinality(Above) \in Nat /\ Cardinality(S) \in Nat
      /\ Cardinality(Above) <= Cardinality(S) /\ Cardinality(S) # Cardinality(Above)
  <2> HIDE DEF Above
  <2> QED
    BY <1>1, <1>2, FS_Subset, FS_CardinalityType
<1> QED
  BY <1>3 DEF Rank

LEMMA RankTellsApart ==
  ASSUME NEW S \in SUBSET Rows, IsFiniteSet(S), NEW k \in S, NEW l \in S, Rank(k, S) = Rank(l, S)
  PROVE  k = l
<1>1. Rank(k, S) \in Int /\ Rank(l, S) \in Int
  BY RankTypes, FS_CardinalityType
<1> QED
  BY <1>1, RankDecreases, BeforeOrder

\* Every rank below the number of rows is that of a row: the ranks are an injection of a
\* finite set into one of the same size.
LEMMA RankExists ==
  ASSUME NEW S \in SUBSET Rows, IsFiniteSet(S), NEW n \in 0..(Cardinality(S) - 1)
  PROVE  \E k \in S : Rank(k, S) = n
<1> DEFINE T == 0..(Cardinality(S) - 1)
           f == [k \in S |-> Rank(k, S)]
<1>1. Cardinality(S) \in Nat
  BY FS_CardinalityType
<1>2. f \in Injection(S, T)
  <2>1. f \in [S -> T]
    BY RankTypes
  <2>2. \A k, l \in S : f[k] = f[l] => k = l
    BY RankTellsApart
  <2> QED
    BY <2>1, <2>2 DEF Injection, IsInjective
<1>3. IsFiniteSet(T) /\ Cardinality(T) = Cardinality(S)
  <2>1. 0 \in Int /\ Cardinality(S) - 1 \in Int
    BY <1>1
  <2> QED
    BY <1>1, <2>1, FS_Interval
<1>4. f \in Surjection(S, T)
  <2> HIDE DEF f, T
  <2> QED
    BY <1>2, <1>3, FS_Injection
<1> QED
  BY <1>4 DEF Surjection

\* What Newest returns: the first n rows, in order of rank.
LEMMA NewestIs ==
  ASSUME NEW S \in SUBSET Rows, IsFiniteSet(S), NEW n \in Nat
  PROVE  LET size == IF Cardinality(S) < n THEN Cardinality(S) ELSE n IN
         /\ size \in Nat
         /\ Newest(S, n) \in [1..size -> S]
         /\ \A i \in 1..size : Rank(Newest(S, n)[i], S) = i - 1
<1> DEFINE size == IF Cardinality(S) < n THEN Cardinality(S) ELSE n
           s == [i \in 1..size |-> CHOOSE k \in S : Rank(k, S) = i - 1]
<1>1. Cardinality(S) \in Nat /\ size \in Nat /\ size <= Cardinality(S)
  BY FS_CardinalityType
<1>2. ASSUME NEW i \in 1..size
      PROVE  s[i] \in S /\ Rank(s[i], S) = i - 1
  <2>1. i - 1 \in 0..(Cardinality(S) - 1)
    BY <1>1
  <2>2. \E k \in S : Rank(k, S) = i - 1
    BY <2>1, RankExists
  <2> QED
    BY <2>2
<1>3. s \in [1..size -> S] /\ \A i \in 1..size : Cardinality({k \in S : Before(s[i], k)}) = i - 1
  BY <1>2 DEF Rank
<1>4. Newest(S, n) = CHOOSE t \in [1..size -> S] :
                       \A i \in 1..size : Cardinality({k \in S : Before(t[i], k)}) = i - 1
  BY DEF Newest
<1> HIDE DEF s, size
<1>5. /\ Newest(S, n) \in [1..size -> S]
      /\ \A i \in 1..size : Cardinality({k \in S : Before(Newest(S, n)[i], k)}) = i - 1
  BY <1>3, <1>4
<1> QED
  BY <1>1, <1>5 DEF Rank, size

\* A page of n rows: rows of S, none twice, and none Before the last one; when it is full,
\* what is not on it is Before its last row, else nothing is left.
IsPage(page, S, n) ==
  /\ page \in Seq(S)
  /\ \A i, j \in 1..Len(page) : page[i] = page[j] => i = j
  /\ Len(page) = n =>
       /\ \A i \in 1..n : ~Before(page[i], page[n])
       /\ \A k \in S : Before(k, page[n]) \/ \E i \in 1..n : page[i] = k
  /\ Len(page) # n => \A k \in S : \E i \in 1..Len(page) : page[i] = k

LEMMA PageIs ==
  ASSUME NEW S \in SUBSET Rows, IsFiniteSet(S), NEW n \in Nat \ {0}
  PROVE  IsPage(Newest(S, n), S, n)
<1> DEFINE size == IF Cardinality(S) < n THEN Cardinality(S) ELSE n
           page == Newest(S, n)
<1>1. /\ size \in Nat /\ page \in [1..size -> S]
      /\ \A i \in 1..size : Rank(page[i], S) = i - 1
  BY NewestIs
<1>2. Cardinality(S) \in Nat /\ size <= n
  BY FS_CardinalityType
<1> HIDE DEF page
<1>3. page \in Seq(S) /\ Len(page) = size
  BY <1>1
<1>4. ASSUME NEW i \in 1..size, NEW j \in 1..size, page[i] = page[j]
      PROVE  i = j
  BY <1>1, <1>4
<1>5. ASSUME NEW k \in S, Rank(k, S) < size
      PROVE  \E i \in 1..size : page[i] = k
  <2>1. Rank(k, S) \in 0..(Cardinality(S) - 1)
    BY RankTypes
  <2>2. Rank(k, S) + 1 \in 1..size /\ (Rank(k, S) + 1) - 1 = Rank(k, S)
    BY <1>1, <1>2, <1>5, <2>1
  <2>3. Rank(page[Rank(k, S) + 1], S) = Rank(k, S) /\ page[Rank(k, S) + 1] \in S
    BY <1>1, <2>2
  <2> QED
    BY <2>2, <2>3, RankTellsApart
<1>6. ASSUME size = n
      PROVE  /\ \A i \in 1..n : ~Before(page[i], page[n])
             /\ \A k \in S : Before(k, page[n]) \/ \E i \in 1..n : page[i] = k
  <2>1. page[n] \in S /\ Rank(page[n], S) = n - 1
    BY <1>1, <1>6
  <2>2. ASSUME NEW i \in 1..n, Before(page[i], page[n])
        PROVE  FALSE
    <3>1. page[i] \in S /\ Rank(page[i], S) = i - 1
      BY <1>1, <1>6
    <3>2. Rank(page[n], S) < Rank(page[i], S)
      BY <2>1, <2>2, <3>1, RankDecreases
    <3> QED
      BY <2>1, <3>1, <3>2
  <2>3. ASSUME NEW k \in S, ~Before(k, page[n])
        PROVE  \E i \in 1..n : page[i] = k
    <3>1. CASE k = page[n]
      BY <3>1
    <3>2. CASE Before(page[n], k)
      <4>1. Rank(k, S) < n - 1
        BY <2>1, <3>2, RankDecreases
      <4>2. Rank(k, S) \in 0..(Cardinality(S) - 1)
        BY RankTypes
      <4> QED
        BY <1>2, <1>5, <1>6, <4>1, <4>2
    <3> QED
      BY <2>1, <2>3, <3>1, <3>2, BeforeOrder
  <2> QED
    BY <2>2, <2>3
<1>7. ASSUME size # n, NEW k \in S
      PROVE  \E i \in 1..size : page[i] = k
  <2>1. Rank(k, S) \in 0..(Cardinality(S) - 1)
    BY RankTypes
  <2>2. Rank(k, S) < size
    BY <1>2, <1>7, <2>1
  <2> QED
    BY <1>5, <2>2
<1> HIDE DEF size
<1>8. IsPage(page, S, n)
  BY <1>2, <1>3, <1>4, <1>6, <1>7 DEF IsPage
<1> QED
  BY <1>8 DEF page

\* A listing under way: none of what was listed is behind the cursor, nothing was listed
\* twice, and what was there at the beginning has been listed or is behind the cursor.
ListInv ==
  /\ jobs \subseteq Rows /\ IsFiniteSet(jobs)
  /\ listing.listed \in Seq(Rows)
  /\ \A i, j \in 1..Len(listing.listed) : listing.listed[i] = listing.listed[j] => i = j
  /\ listing.cursor = Absent => listing.listed = <<>>
  /\ listing.cursor # Absent =>
       /\ listing.cursor \in Rows
       /\ \A i \in 1..Len(listing.listed) : ~Before(listing.listed[i], listing.cursor)
  /\ \A k \in listing.had :
       k \in After(listing.cursor) \/ \E i \in 1..Len(listing.listed) : listing.listed[i] = k

\* What is got with the next page.
LEMMA NextPage ==
  ASSUME TypeInv, ListInv
  PROVE  LET got == listing.listed \o Page IN
         /\ Page \in Seq(After(listing.cursor)) /\ got \in Seq(Rows)
         /\ \A i, j \in 1..Len(got) : got[i] = got[j] => i = j
         /\ Len(Page) = Limit =>
              /\ Page[Limit] \in Rows
              /\ \A i \in 1..Len(got) : ~Before(got[i], Page[Limit])
              /\ \A k \in listing.had :
                   Before(k, Page[Limit]) \/ \E i \in 1..Len(got) : got[i] = k
         /\ Len(Page) # Limit => \A k \in listing.had : \E i \in 1..Len(got) : got[i] = k
<1> DEFINE old == listing.listed
           page == Page
           S == After(listing.cursor)
           got == old \o page
<1>0. Limit \in Nat \ {0}
  BY CallerAPIAssumption
<1>1. S \in SUBSET Rows /\ IsFiniteSet(S) /\ S \subseteq jobs
  BY FS_Subset DEF ListInv, After
<1>1a. IsPage(page, S, Limit)
  <2>1. page = Newest(S, Limit)
    BY DEF Page
  <2> HIDE DEF S, page
  <2> QED
    BY <1>0, <1>1, <2>1, PageIs
<1> HIDE DEF page, S
<1>2. /\ page \in Seq(S)
      /\ \A i, j \in 1..Len(page) : page[i] = page[j] => i = j
      /\ Len(page) = Limit =>
           /\ \A i \in 1..Limit : ~Before(page[i], page[Limit])
           /\ \A k \in S : Before(k, page[Limit]) \/ \E i \in 1..Limit : page[i] = k
      /\ Len(page) # Limit => \A k \in S : \E i \in 1..Len(page) : page[i] = k
  BY <1>1a DEF IsPage
<1>3. old \in Seq(Rows) /\ page \in Seq(Rows)
  BY <1>1, <1>2 DEF ListInv
<1> HIDE DEF old
<1>4. /\ got \in Seq(Rows) /\ Len(got) = Len(old) + Len(page)
      /\ Len(old) \in Nat /\ Len(page) \in Nat
      /\ \A i \in 1..Len(got) : got[i] = IF i <= Len(old) THEN old[i] ELSE page[i - Len(old)]
  BY <1>3
<1>5. \A i \in 1..Len(page) : page[i] \in S /\ page[i] \in Rows
  BY <1>1, <1>2
<1>6. \A i \in 1..Len(old) : old[i] \in Rows /\ old[i] \notin S
  BY <1>3 DEF ListInv, After, old, S
<1>7. \A i \in 1..Len(old) : got[i] = old[i]
  BY <1>4
<1>8. \A i \in 1..Len(page) : got[Len(old) + i] = page[i] /\ Len(old) + i \in 1..Len(got)
  BY <1>4
<1>9. ASSUME NEW i \in 1..Len(got)
      PROVE  \/ i \in 1..Len(old) /\ got[i] = old[i]
             \/ i - Len(old) \in 1..Len(page) /\ got[i] = page[i - Len(old)]
  BY <1>4
<1> HIDE DEF got
<1>10. ASSUME NEW i \in 1..Len(got), NEW j \in 1..Len(got), got[i] = got[j]
       PROVE  i = j
  <2>1. \A a, b \in 1..Len(old) : old[a] = old[b] => a = b
    BY DEF ListInv, old
  <2>2. CASE i \in 1..Len(old) /\ got[i] = old[i]
    BY <1>5, <1>6, <1>9, <1>10, <2>1, <2>2
  <2>3. CASE i - Len(old) \in 1..Len(page) /\ got[i] = page[i - Len(old)]
    <3>1. j - Len(old) \in 1..Len(page) /\ got[j] = page[j - Len(old)]
      BY <1>5, <1>6, <1>9, <1>10, <2>3
    <3>2. i - Len(old) = j - Len(old)
      BY <1>2, <1>10, <2>3, <3>1
    <3> QED
      BY <1>4, <3>2
  <2> QED
    BY <1>9, <2>2, <2>3
<1>11. ASSUME Len(page) = Limit
       PROVE  /\ page[Limit] \in Rows /\ page[Limit] \in S
              /\ \A i \in 1..Len(got) : ~Before(got[i], page[Limit])
              /\ \A k \in listing.had :
                   Before(k, page[Limit]) \/ \E i \in 1..Len(got) : got[i] = k
  <2>1. page[Limit] \in Rows /\ page[Limit] \in S
    BY <1>0, <1>5, <1>11
  <2>2. ASSUME NEW i \in 1..Len(old)
        PROVE  ~Before(old[i], page[Limit])
    <3>1. listing.cursor # Absent
      BY <1>4, <2>2 DEF ListInv, old
    <3>2. /\ listing.cursor \in Rows /\ ~Before(old[i], listing.cursor)
          /\ Before(page[Limit], listing.cursor)
      BY <2>1, <3>1 DEF ListInv, After, S, old
    <3> QED
      BY <1>6, <2>1, <3>2, BeforeOrder
  <2>3. \A i \in 1..Len(got) : ~Before(got[i], page[Limit])
    BY <1>2, <1>9, <1>11, <2>2
  <2>4. ASSUME NEW k \in listing.had, ~Before(k, page[Limit])
        PROVE  \E i \in 1..Len(got) : got[i] = k
    <3>1. CASE k \in S
      BY <1>2, <1>8, <1>11, <2>4, <3>1
    <3>2. CASE \E i \in 1..Len(old) : old[i] = k
      BY <1>4, <1>7, <3>2
    <3> QED
      BY <3>1, <3>2 DEF ListInv, S, old
  <2> QED
    BY <2>1, <2>3, <2>4
<1>12. ASSUME Len(page) # Limit, NEW k \in listing.had
       PROVE  \E i \in 1..Len(got) : got[i] = k
  <2>1. CASE k \in S
    BY <1>2, <1>8, <1>12, <2>1
  <2>2. CASE \E i \in 1..Len(old) : old[i] = k
    BY <1>4, <1>7, <2>2
  <2> QED
    BY <2>1, <2>2 DEF ListInv, S, old
<1> QED
  BY <1>2, <1>4, <1>10, <1>11, <1>12 DEF got, page, old, S

\* The rows of a list without repetitions are as many as its length.
LEMMA DistinctCount ==
  ASSUME NEW T, NEW q \in Seq(T), \A i, j \in 1..Len(q) : q[i] = q[j] => i = j
  PROVE  Cardinality({q[i] : i \in DOMAIN q}) = Len(q)
<1> DEFINE U == {q[i] : i \in DOMAIN q}
<1>1. Len(q) \in Nat /\ DOMAIN q = 1..Len(q) /\ q \in [1..Len(q) -> U]
  OBVIOUS
<1>2. q \in Bijection(1..Len(q), U)
  BY <1>1 DEF Bijection, Injection, IsInjective, Surjection
<1>3. ExistsBijection(1..Len(q), U)
  BY <1>2 DEF ExistsBijection
<1> HIDE DEF U
<1>4. Cardinality(U) = Len(q)
  BY <1>1, <1>3, FS_CountingElements
<1> QED
  BY <1>4 DEF U

LEMMA ListStep ==
  ASSUME TypeInv, TypeInv', ListInv, [Next]_vars
  PROVE  ListInv'
<1> USE DEF registry, aux
<1>1. CASE UNCHANGED <<jobs, listing>>
  BY <1>1 DEF ListInv, After
<1>2. ASSUME NEW c \in Callers, Attempt(c)
      PROVE  ListInv'
  <2>1. UNCHANGED listing /\ (jobs' = jobs \/ jobs' = jobs \cup {calls[c].job})
    BY <1>2 DEF Attempt, Commit
  <2>2. IsFiniteSet(jobs')
    <3>1. IsFiniteSet(jobs)
      BY DEF ListInv
    <3>2. IsFiniteSet(jobs \cup {calls[c].job})
      BY <3>1, FS_AddElement
    <3> QED
      BY <2>1, <3>1, <3>2
  <2>3. jobs' \subseteq Rows
    <3>1. jobs' \subseteq OldJobs \cup ((0..MaxClock) \X Ids)
      BY DEF TypeInv, TypeOK
    <3>2. OldJobs \subseteq Rows
      BY CallerAPIAssumption DEF Rows
    <3>3. 0..MaxClock \subseteq Nat /\ Ids \subseteq Nat
      BY CallerAPIAssumption
    <3>4. (0..MaxClock) \X Ids \subseteq Rows
      BY <3>3, Zenon DEF Rows
    <3> QED
      BY <3>1, <3>2, <3>4
  <2>4. After(listing.cursor) \subseteq After(listing.cursor)'
    BY <2>1 DEF After
  <2> QED
    BY <2>1, <2>2, <2>3, <2>4 DEF ListInv
<1>3. CASE StartListing
  <2>1. /\ listing'.cursor = Absent /\ listing'.listed = <<>> /\ listing'.had = jobs
        /\ UNCHANGED jobs
    BY <1>3 DEF StartListing, NoListing
  <2> QED
    BY <2>1 DEF ListInv, After
<1>4. CASE ListJobs
  <2>1. UNCHANGED jobs
    BY <1>4 DEF ListJobs
  <2>2. CASE Len(Page) = Limit
    <3>1. listing' = [listing EXCEPT !.listed = @ \o Page, !.cursor = Page[Limit]]
      BY <1>4, <2>2 DEF ListJobs
    <3>2. /\ listing'.listed = listing.listed \o Page /\ listing'.cursor = Page[Limit]
          /\ listing'.had = listing.had
      BY <3>1 DEF TypeInv, NoListing
    <3>3. PICK got : got = listing.listed \o Page
      OBVIOUS
    <3>4. PICK last : last = Page[Limit]
      OBVIOUS
    <3>5. /\ got \in Seq(Rows)
          /\ \A i, j \in 1..Len(got) : got[i] = got[j] => i = j
          /\ last \in Rows
          /\ \A i \in 1..Len(got) : ~Before(got[i], last)
          /\ \A k \in listing.had : Before(k, last) \/ \E i \in 1..Len(got) : got[i] = k
      BY <2>2, <3>3, <3>4, NextPage
    <3>6. last # Absent
      BY <3>5, CallerAPIAssumption DEF Rows
    <3>7. listing'.listed = got /\ listing'.cursor = last /\ listing.had \subseteq jobs
      BY <3>2, <3>3, <3>4 DEF TypeInv, TypeOK
    <3>8. \A k \in listing'.had :
            k \in After(listing.cursor)' \/ \E i \in 1..Len(got) : got[i] = k
      BY <2>1, <3>2, <3>5, <3>7 DEF After
    <3> QED
      BY <2>1, <3>5, <3>6, <3>7, <3>8 DEF ListInv
  <2>3. CASE Len(Page) # Limit
    <3>1. listing'.cursor = Absent /\ listing'.listed = <<>> /\ listing'.had = {}
      BY <1>4, <2>3 DEF ListJobs, NoListing
    <3> QED
      BY <2>1, <3>1 DEF ListInv
  <2> QED
    BY <2>2, <2>3
<1>5. ASSUME NEW c \in Callers,
             \/ \E v \in Versions : \/ \E b \in Bodies : Define(c, "register", v, b)
                                    \/ Define(c, "unregister", v, Absent)
             \/ \E v \in Versions \cup {0}, id \in Ids : Spawn(c, v, id)
             \/ Finish(c)
      PROVE  UNCHANGED <<jobs, listing>>
  BY <1>5 DEF Define, Spawn, Finish
<1>6. ASSUME \/ Tick \/ Crash \/ ReadDefinitions \/ Recovered \/ UNCHANGED vars
             \/ \E p \in pending : RegisterRecovered(p)
      PROVE  UNCHANGED <<jobs, listing>>
  BY <1>6 DEF Tick, Crash, ReadDefinitions, Recovered, RegisterRecovered, vars
<1> QED
  BY <1>1, <1>2, <1>3, <1>4, <1>5, <1>6 DEF Next

\* A listing only ends with a page that is not full.
LEMMA ListingEnds ==
  ASSUME TypeInv, ListInv, [Next]_vars, listing.on, ~listing'.on
  PROVE  LET got == listing.listed \o Page
             set == {got[i] : i \in DOMAIN got} IN
         Cardinality(set) = Len(got) /\ listing.had \subseteq set
<1> USE DEF registry, aux
<1>1. ListJobs
  <2>1. ASSUME NEW c \in Callers,
               \/ \E v \in Versions : \/ \E b \in Bodies : Define(c, "register", v, b)
                                      \/ Define(c, "unregister", v, Absent)
               \/ \E v \in Versions \cup {0}, id \in Ids : Spawn(c, v, id)
               \/ Attempt(c) \/ Finish(c)
        PROVE  UNCHANGED listing
    BY <2>1 DEF Define, Spawn, Attempt, Finish
  <2>2. ASSUME \/ Tick \/ Crash \/ ReadDefinitions \/ Recovered \/ UNCHANGED vars
               \/ \E p \in pending : RegisterRecovered(p)
        PROVE  UNCHANGED listing
    BY <2>2 DEF Tick, Crash, ReadDefinitions, Recovered, RegisterRecovered, vars
  <2>3. ~StartListing
    BY DEF StartListing
  <2> QED
    BY <2>1, <2>2, <2>3 DEF Next
<1>2. Len(Page) # Limit
  <2> SUFFICES ASSUME Len(Page) = Limit PROVE FALSE
    OBVIOUS
  <2>1. listing' = [listing EXCEPT !.listed = @ \o Page, !.cursor = Page[Limit]]
    BY <1>1 DEF ListJobs
  <2>2. listing'.on = listing.on
    BY <2>1 DEF TypeInv, NoListing
  <2> QED
    BY <2>2
<1>3. PICK got : got = listing.listed \o Page
  OBVIOUS
<1>4. /\ got \in Seq(Rows)
      /\ \A i, j \in 1..Len(got) : got[i] = got[j] => i = j
      /\ \A k \in listing.had : \E i \in 1..Len(got) : got[i] = k
  BY <1>2, <1>3, NextPage
<1>5. Cardinality({got[i] : i \in DOMAIN got}) = Len(got)
  BY <1>4, DistinctCount
<1>6. listing.had \subseteq {got[i] : i \in DOMAIN got}
  BY <1>4
<1> QED
  BY <1>3, <1>5, <1>6

\* A listing that ends has returned every job that was in the table when it began, and none
\* twice: for every page size, every number of jobs created at the same time, and whatever
\* spawns commit between two pages, in whatever order.
THEOREM ListingsComplete == Spec => ListingComplete
<1>1. Init => ListInv
  <2> SUFFICES ASSUME Init PROVE ListInv
    OBVIOUS
  <2>1. listing.cursor = Absent /\ listing.listed = <<>> /\ listing.had = {}
    BY DEF Init, NoListing
  <2> QED
    BY <2>1, CallerAPIAssumption DEF Init, ListInv, Rows
<1>2. TypeInv /\ TypeInv' /\ ListInv /\ [Next]_vars => ListInv'
  BY ListStep
<1>3. TypeInv /\ ListInv /\ [Next]_vars =>
        [listing.on /\ ~listing'.on =>
           LET got == listing.listed \o Page
               set == {got[i] : i \in DOMAIN got} IN
           Cardinality(set) = Len(got) /\ listing.had \subseteq set]_vars
  BY ListingEnds
<1> QED
  BY <1>1, <1>2, <1>3, TypeInvariant, PTL DEF Spec, ListingComplete
=============================================================================
