------------------------------ MODULE CallerAPI ------------------------------
(***************************************************************************)
(* The caller API (hypervisor/caller_api.go) over a database that fails:   *)
(* job definitions, kept in a table and in the registry of                 *)
(* hypervisor/job_definition.go, the row a Spawn inserts, and the listing  *)
(* of jobs page by page.  Every write goes through reliableExec            *)
(* (utils/utils.go), which repeats the transaction when an attempt fails,  *)
(* also when only the answer to its commit was lost.                       *)
(*                                                                         *)
(* One definition name; versions are numbers in the order of their         *)
(* strings.  An attempt takes effect, if ever, before it returns.  What    *)
(* Spawn does after the insert is in Hypervisor.                           *)
(***************************************************************************)
EXTENDS Naturals, Sequences, FiniteSets

CONSTANTS
  Callers,     \* HTTP requests of the caller API
  Versions,    \* versions of the job definition
  Bodies,      \* the rest of a definition: config, retry policy, metadata
  Absent,      \* not registered, nothing to list after
  Unknown,     \* no definite answer
  Ids,         \* the job ids generateID may give, in the order of their strings
  OldJobs,     \* jobs of earlier days: <<created_at, id>>
  Limit,       \* the page size a caller asks for
  MaxRetries,  \* attempts after the first one (3 in the code)
  MaxCalls,    \* bound: writes in a behaviour
  MaxClock,    \* bound: values of the clock
  MaxCrashes   \* bound: crashes of the hypervisor

Bodies0 == Bodies \cup {Absent}

ASSUME CallerAPIAssumption ==
  /\ Versions \subseteq Nat \ {0} /\ IsFiniteSet(Versions)
  /\ Ids \subseteq Nat /\ OldJobs \subseteq Nat \X Nat /\ IsFiniteSet(OldJobs)
  /\ Limit \in Nat \ {0}
  /\ Absent \notin Bodies \cup (Nat \X Nat) /\ Unknown \notin Bodies0
  /\ MaxRetries \in Nat /\ MaxCalls \in Nat /\ MaxClock \in Nat /\ MaxCrashes \in Nat

VARIABLES
  stored,      \* the job_definitions table
  definitions, \* registry: the definitions of the name
  latest,      \* registry: latestVersions of the name, 0 when there is none
  pending,     \* rows recoverJobDefinitions has read and not registered yet
  stage,       \* the definitions are recovered, or are being recovered
  jobs,        \* the jobs table: <<created_at, id>>
  clock,       \* time.Now(), in the resolution of the database
  calls,       \* the write each caller is doing
  listing,     \* a caller listing all jobs, page after page
  promised,    \* auxiliary: what callers were told of a version
  made,        \* bound: writes begun so far
  crashes      \* bound: crashes so far

registry == <<definitions, latest, pending, stage>>
aux == <<promised, made, crashes>>
vars == <<stored, registry, jobs, clock, calls, listing, aux>>

-----------------------------------------------------------------------------
\* A write: no transaction in progress; one being attempted, tries times so far;
\* committed and answered.  alone: no other call or recovery touched the version.
Call == [pc : {"idle", "exec", "committed"}, op : {"none", "register", "unregister", "insert"},
         version : Versions \cup {0}, body : Bodies0,
         job : (Nat \X Ids) \cup {<<>>}, tries : 0..MaxRetries, alone : BOOLEAN]

AtRest == [pc |-> "idle", op |-> "none", version |-> 0, body |-> Absent, job |-> <<>>,
           tries |-> 0, alone |-> TRUE]

\* had: the jobs in the table when the listing began; listed: the ids returned so far.
NoListing == [on |-> FALSE, cursor |-> Absent, listed |-> <<>>, had |-> {}]

Registered(defs) == {v \in Versions : defs[v] # Absent}

\* The loop of Unregister over the versions that are left.
Greatest(S) == IF S = {} THEN 0 ELSE CHOOSE v \in S : \A w \in S : w <= v

\* The definitions have been recovered from any table.
Init ==
  /\ stored \in [Versions -> Bodies0]
  /\ definitions = stored /\ latest = Greatest(Registered(stored))
  /\ pending = {} /\ stage = "up"
  /\ jobs = OldJobs /\ clock = 0
  /\ calls = [c \in Callers |-> AtRest]
  /\ listing = NoListing
  /\ promised = stored /\ made = 0 /\ crashes = 0

-----------------------------------------------------------------------------
(***************************************************************************)
(* JobDefinitionRegistry.  Each operation holds the registry's mutex.      *)
(***************************************************************************)
\* Variant: the latest version is the one registered last.
RegisterLast(v, b) ==
  /\ definitions' = [definitions EXCEPT ![v] = b]
  /\ latest' = v

Register(v, b) ==
  /\ definitions' = [definitions EXCEPT ![v] = b]
  /\ latest' = IF latest = 0 \/ v > latest THEN v ELSE latest

\* A version that is not there is an error, and nothing changes.
Unregister(v) ==
  IF definitions[v] # Absent
  THEN /\ definitions' = [definitions EXCEPT ![v] = Absent]
       /\ latest' = Greatest(Registered(definitions) \ {v})
  ELSE UNCHANGED <<definitions, latest>>

-----------------------------------------------------------------------------
(***************************************************************************)
(* Writes.                                                                 *)
(***************************************************************************)
Busy(c, v) == calls[c].pc # "idle" /\ calls[c].version = v

\* RegisterJobDefinition or UnregisterJobDefinition begins; the runtime is known, the
\* request is valid.
Define(c, op, v, b) ==
  /\ calls[c].pc = "idle" /\ made < MaxCalls
  /\ calls' = [k \in Callers |->
       IF k = c THEN [AtRest EXCEPT !.pc = "exec", !.op = op, !.version = v, !.body = b,
                        !.alone = stage = "up" /\ \A d \in Callers : ~Busy(d, v)]
       ELSE IF Busy(k, v) THEN [calls[k] EXCEPT !.alone = FALSE] ELSE calls[k]]
  /\ promised' = [promised EXCEPT ![v] = Unknown]
  /\ made' = made + 1
  /\ UNCHANGED <<stored, registry, jobs, clock, listing, crashes>>

\* Spawn: the definition is looked up (v = 0 asks for the latest version), created_at
\* is taken, the insert begins.  The row's other columns are left out.
Spawn(c, v, id) ==
  /\ calls[c].pc = "idle" /\ made < MaxCalls
  /\ (IF v = 0 THEN latest ELSE v) \in Registered(definitions)
  /\ \A k \in jobs : k[2] # id
  /\ \A d \in Callers : calls[d].op = "insert" => calls[d].job[2] # id
  /\ calls' = [calls EXCEPT ![c] = [AtRest EXCEPT !.pc = "exec", !.op = "insert",
                                      !.job = <<clock, id>>]]
  /\ made' = made + 1
  /\ UNCHANGED <<stored, registry, jobs, clock, listing, promised, crashes>>

\* The statement of a transaction.
Commit(call) ==
  /\ stored' = CASE call.op = "register" -> [stored EXCEPT ![call.version] = call.body]
                 [] call.op = "unregister" -> [stored EXCEPT ![call.version] = Absent]
                 [] OTHER -> stored
  /\ jobs' = IF call.op = "insert" THEN jobs \cup {call.job} ELSE jobs

\* The caller is told of an error.
Failed(c) == calls' = [calls EXCEPT ![c] = AtRest]

\* Variant: retries are not counted against the maximum.
AttemptForever(c) ==
  LET call == calls[c] IN
  /\ call.pc = "exec"
  /\ \/ Commit(call) /\ calls' = [calls EXCEPT ![c].pc = "committed"]
     \/ UNCHANGED <<stored, jobs>> /\ calls' = [calls EXCEPT ![c].tries = @ + 1]
  /\ UNCHANGED <<registry, clock, listing, aux>>

\* Variant: an attempt that fails for good is reported as a success.
AttemptSwallows(c) ==
  LET call == calls[c] IN
  /\ call.pc = "exec"
  /\ \/ Commit(call) /\ calls' = [calls EXCEPT ![c].pc = "committed"]
     \/ /\ Commit(call) \/ UNCHANGED <<stored, jobs>>
        /\ calls' = [calls EXCEPT ![c] = IF call.tries < MaxRetries
                                         THEN [call EXCEPT !.tries = @ + 1]
                                         ELSE [call EXCEPT !.pc = "committed"]]
  /\ UNCHANGED <<registry, clock, listing, aux>>

\* One attempt of reliableExec.  It commits and is answered; or an error comes back,
\* after the commit or without it, and the transaction is repeated while retries are
\* left, unless the error is permanent: the caller's context has ended, or the insert
\* finds the row of an attempt before it (a duplicate key).
Attempt(c) ==
  LET call == calls[c]  duplicate == call.op = "insert" /\ call.job \in jobs IN
  /\ call.pc = "exec"
  /\ \/ /\ ~duplicate /\ Commit(call)
        /\ calls' = [calls EXCEPT ![c].pc = "committed"]
     \/ /\ (~duplicate /\ Commit(call)) \/ UNCHANGED <<stored, jobs>>
        /\ call.tries < MaxRetries /\ calls' = [calls EXCEPT ![c].tries = @ + 1]
     \/ /\ (~duplicate /\ Commit(call)) \/ UNCHANGED <<stored, jobs>>
        /\ Failed(c)
  /\ UNCHANGED <<registry, clock, listing, aux>>

\* After the commit the registry is changed, and the caller is answered.
Finish(c) ==
  LET call == calls[c]
      ok == call.op = "register" \/ (call.op = "unregister" /\ definitions[call.version] # Absent) IN
  /\ call.pc = "committed"
  /\ CASE call.op = "register" -> Register(call.version, call.body)
       [] call.op = "unregister" -> Unregister(call.version)
       [] call.op = "insert" -> UNCHANGED <<definitions, latest>>
  /\ calls' = [calls EXCEPT ![c] = AtRest]
  /\ promised' = IF ok /\ call.alone THEN [promised EXCEPT ![call.version] = call.body]
                                     ELSE promised
  /\ UNCHANGED <<stored, pending, stage, jobs, clock, listing, made, crashes>>

-----------------------------------------------------------------------------
(***************************************************************************)
(* ListJobs: newest first, keyset pagination on (created_at, id).          *)
(***************************************************************************)
\* The order of the rows (created_at, id) < (created_at, id).
Before(k, l) == k[1] < l[1] \/ (k[1] = l[1] /\ k[2] < l[2])

\* Variant: jobs created at the cursor's time are taken to be listed already.
AfterTime(cursor) == {k \in jobs : cursor = Absent \/ k[1] < cursor[1]}

\* The rows behind the cursor.
After(cursor) == {k \in jobs : cursor = Absent \/ Before(k, cursor)}

\* ORDER BY created_at DESC, id DESC LIMIT n.
Newest(S, n) ==
  LET size == IF Cardinality(S) < n THEN Cardinality(S) ELSE n IN
  CHOOSE s \in [1..size -> S] :
    \A i \in 1..size : Cardinality({k \in S : Before(s[i], k)}) = i - 1

StartListing ==
  /\ ~listing.on
  /\ listing' = [NoListing EXCEPT !.on = TRUE, !.had = jobs]
  /\ UNCHANGED <<stored, registry, jobs, clock, calls, aux>>

Page == Newest(After(listing.cursor), Limit)

\* A page; a full one has a cursor for the next, any other ends the listing.
ListJobs ==
  /\ listing.on
  /\ listing' = IF Len(Page) = Limit
                THEN [listing EXCEPT !.listed = @ \o Page, !.cursor = Page[Limit]]
                ELSE NoListing
  /\ UNCHANGED <<stored, registry, jobs, clock, calls, aux>>

-----------------------------------------------------------------------------
Tick ==
  /\ clock < MaxClock /\ clock' = clock + 1
  /\ UNCHANGED <<stored, registry, jobs, calls, listing, aux>>

Crash ==
  /\ crashes < MaxCrashes /\ crashes' = crashes + 1
  /\ definitions' = [v \in Versions |-> Absent] /\ latest' = 0
  /\ pending' = {} /\ stage' = "starting"
  /\ calls' = [c \in Callers |-> AtRest]
  /\ UNCHANGED <<stored, jobs, clock, listing, promised, made>>

\* recoverJobDefinitions: the table is read, then each row is registered.  The HTTP
\* server is up already: callers come in between.
ReadDefinitions ==
  /\ stage = "starting" /\ stage' = "recovering"
  /\ pending' = {<<v, stored[v]>> : v \in Registered(stored)}
  /\ UNCHANGED <<stored, definitions, latest, jobs, clock, calls, listing, aux>>

RegisterRecovered(p) ==
  /\ Register(p[1], p[2])
  /\ pending' = pending \ {p}
  /\ UNCHANGED <<stored, stage, jobs, clock, calls, listing, aux>>

Recovered ==
  /\ stage = "recovering" /\ pending = {} /\ stage' = "up"
  /\ UNCHANGED <<stored, definitions, latest, pending, jobs, clock, calls, listing, aux>>

Next ==
  \/ \E c \in Callers :
       \/ \E v \in Versions : \/ \E b \in Bodies : Define(c, "register", v, b)
                              \/ Define(c, "unregister", v, Absent)
       \/ \E v \in Versions \cup {0}, id \in Ids : Spawn(c, v, id)
       \/ Attempt(c)
       \/ Finish(c)
  \/ StartListing \/ ListJobs \/ Tick \/ Crash \/ ReadDefinitions
  \/ \E p \in pending : RegisterRecovered(p)
  \/ Recovered

Spec == Init /\ [][Next]_vars

-----------------------------------------------------------------------------
(***************************************************************************)
(* Properties.                                                             *)
(***************************************************************************)
\* Every variable has the values the code can give it.
TypeOK ==
  /\ stored \in [Versions -> Bodies0] /\ definitions \in [Versions -> Bodies0]
  /\ latest \in Versions \cup {0}
  /\ pending \subseteq Versions \X Bodies /\ stage \in {"up", "starting", "recovering"}
  /\ jobs \subseteq OldJobs \cup ((0..MaxClock) \X Ids) /\ clock \in 0..MaxClock
  /\ calls \in [Callers -> Call]
  /\ listing.on \in BOOLEAN /\ listing.had \subseteq jobs
  /\ promised \in [Versions -> Bodies0 \cup {Unknown}]
  /\ made \in 0..MaxCalls /\ crashes \in 0..MaxCrashes

\* The version a spawn of the latest one gets is the greatest registered, whatever the
\* order in which calls, deletions and recovery reach the registry.
LatestIsGreatest == latest = Greatest(Registered(definitions))

\* What a caller was told of a version holds: when no other call on that version and no
\* recovery overlapped the call, the table has what was registered or unregistered,
\* after lost answers and crashes, and once recovery is over so has the registry.
PromiseKept ==
  \A v \in Versions : promised[v] # Unknown =>
    /\ stored[v] = promised[v]
    /\ stage = "up" => definitions[v] = promised[v]

\* A listing that ends has returned every job that was in the table when it began, and
\* none twice, whatever was inserted between two pages: jobs may be created at the same
\* time, and committed in another order than they were created in.
ListingComplete ==
  [][listing.on /\ ~listing'.on =>
       LET got == listing.listed \o Page
           set == {got[i] : i \in DOMAIN got} IN
       Cardinality(set) = Len(got) /\ listing.had \subseteq set]_vars
=============================================================================
