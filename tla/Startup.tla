------------------------------ MODULE Startup ------------------------------
(***************************************************************************)
(* Replicas of a service starting against one database: main.go applies    *)
(* the migrations (pkg/database/migrate.go), then opens the database, with *)
(* retries, the cache and the broker, and serves.  Processes die and are   *)
(* started again at any point, and the three dependencies come and go.     *)
(*                                                                         *)
(* golang-migrate is external: it works on one connection, takes an        *)
(* advisory lock of that connection to apply migrations, and brackets each *)
(* one with the dirty flag.  A migration is one implicit transaction.      *)
(***************************************************************************)
EXTENDS Backoff, Sequences, FiniteSets

CONSTANTS
  Replicas,     \* replicas, of this release or of the previous one
  None,         \* no replica
  Binary,       \* how many migrations each replica's binary embeds
  MaxRetries,   \* Config.MaxRetries of the database
  MaxTroubles   \* bound: deaths, outages and migrations that fail

ASSUME StartupAssumption ==
  /\ None \notin Replicas /\ Replicas # {}
  /\ Binary \in [Replicas -> Nat] /\ MaxRetries \in 1..MaxAttempt /\ MaxTroubles \in Nat

VARIABLES
  pc,           \* where each replica is
  attempt,      \* the attempt of Connect it is at
  session,      \* replicas whose migrator connection is open
  lock,         \* holder of the advisory lock
  schema,       \* schema_migrations: version and dirty flag
  applied,      \* migrations whose statements were committed, in order
  up,           \* dependencies that answer
  troubles      \* troubles so far

vars == <<pc, attempt, session, lock, schema, applied, up, troubles>>

Dependencies == {"postgres", "redis", "rabbitmq"}
Newest == CHOOSE n \in {Binary[r] : r \in Replicas} : \A r \in Replicas : Binary[r] <= n

Migrating  == {"version", "lock", "mark", "body", "clean", "after"}
PastMigrate == {"connect", "wait", "redis", "rabbitmq", "serving"}
Places     == {"off", "open", "exited"} \cup Migrating \cup PastMigrate

TypeOK ==
  /\ pc \in [Replicas -> Places] /\ attempt \in [Replicas -> 1..MaxRetries]
  /\ session \in SUBSET Replicas /\ lock \in session \cup {None}
  /\ schema \in [version : 0..Newest, dirty : BOOLEAN]
  /\ applied \in Seq(1..Newest)
  /\ up \in SUBSET Dependencies /\ troubles \in 0..MaxTroubles

Init ==
  /\ pc = [r \in Replicas |-> "off"] /\ attempt = [r \in Replicas |-> 1]
  /\ session = {} /\ lock = None
  /\ schema = [version |-> 0, dirty |-> FALSE] /\ applied = <<>>
  /\ up \in SUBSET Dependencies
  /\ troubles = 0

GoTo(r, place) == pc' = [pc EXCEPT ![r] = place]

-----------------------------------------------------------------------------
(* Migrate.                                                                *)

\* Mutant: the deferred close is missing.
CloseMigratorLeaking(r) == UNCHANGED <<session, lock>>

\* The connection is closed, and its lock goes with it.
closeMigrator(r) ==
  /\ session' = session \ {r}
  /\ lock' = IF lock = r THEN None ELSE lock

\* Migrate returns an error, and run returns it: the process exits.
MigrateFails(r) ==
  /\ closeMigrator(r) /\ GoTo(r, "exited")
  /\ UNCHANGED <<attempt, schema, applied, up>>

MigrateReturns(r) ==
  /\ closeMigrator(r) /\ GoTo(r, "connect")
  /\ UNCHANGED <<attempt, schema, applied, up, troubles>>

Boot(r) ==
  /\ pc[r] \in {"off", "exited"} /\ GoTo(r, "open")
  /\ attempt' = [attempt EXCEPT ![r] = 1]
  /\ UNCHANGED <<session, lock, schema, applied, up, troubles>>

\* Opening the driver makes sure of the table of versions, under the lock.  There is
\* one attempt.
newMigrator(r) ==
  /\ pc[r] = "open" /\ "postgres" \in up /\ lock = None
  /\ session' = session \cup {r} /\ GoTo(r, "version")
  /\ UNCHANGED <<attempt, lock, schema, applied, up, troubles>>

newMigratorFails(r) ==
  /\ pc[r] = "open" /\ "postgres" \notin up
  /\ MigrateFails(r) /\ UNCHANGED troubles

\* The version is read outside the lock.
Version(r) ==
  /\ pc[r] = "version" /\ r \in session /\ ~schema.dirty
  /\ GoTo(r, "lock")
  /\ UNCHANGED <<attempt, session, lock, schema, applied, up, troubles>>

VersionIsDirty(r) ==
  /\ pc[r] = "version" /\ r \in session /\ schema.dirty
  /\ MigrateFails(r) /\ UNCHANGED troubles

\* A step of the migrator after its connection was lost.
SessionIsLost(r) ==
  /\ pc[r] \in Migrating /\ r \notin session
  /\ MigrateFails(r) /\ UNCHANGED troubles

\* Mutant: the lock is not waited for.
UpUnlocked(r) ==
  /\ pc[r] = "lock" /\ r \in session
  /\ ~schema.dirty /\ schema.version < Binary[r]
  /\ lock' = r /\ GoTo(r, "mark")
  /\ UNCHANGED <<attempt, session, schema, applied, up, troubles>>

\* Up takes the lock and finds migrations to apply.
Up(r) ==
  /\ pc[r] = "lock" /\ r \in session /\ lock = None
  /\ ~schema.dirty /\ schema.version < Binary[r]
  /\ lock' = r /\ GoTo(r, "mark")
  /\ UNCHANGED <<attempt, session, schema, applied, up, troubles>>

\* Or none: ErrNoChange.
UpFindsNothing(r) ==
  /\ pc[r] = "lock" /\ r \in session /\ lock = None
  /\ ~schema.dirty /\ schema.version = Binary[r]
  /\ MigrateReturns(r)

\* Or a schema it cannot work on: dirty, or at a version the binary does not have.
UpRefuses(r) ==
  /\ pc[r] = "lock" /\ r \in session /\ lock = None
  /\ schema.dirty \/ schema.version > Binary[r]
  /\ MigrateFails(r) /\ UNCHANGED troubles

\* Mutant: a lock that does not come is taken for somebody else doing the work.
UpTimesOutTolerated(r) ==
  /\ pc[r] = "lock" /\ r \in session /\ lock # None
  /\ MigrateReturns(r)

\* Or the lock does not come in time.
UpTimesOut(r) ==
  /\ pc[r] = "lock" /\ r \in session /\ lock # None
  /\ MigrateFails(r) /\ UNCHANGED troubles

\* The next migration is about to run.
SetDirty(r) ==
  /\ pc[r] = "mark" /\ r \in session
  /\ schema' = [version |-> schema.version + 1, dirty |-> TRUE]
  /\ GoTo(r, "body")
  /\ UNCHANGED <<attempt, session, lock, applied, up, troubles>>

RunMigration(r) ==
  /\ pc[r] = "body" /\ r \in session
  /\ applied' = Append(applied, schema.version)
  /\ GoTo(r, "clean")
  /\ UNCHANGED <<attempt, session, lock, schema, up, troubles>>

\* Its statements fail, on the data they find for one.
RunMigrationFails(r) ==
  /\ pc[r] = "body" /\ r \in session /\ troubles < MaxTroubles
  /\ troubles' = troubles + 1
  /\ MigrateFails(r)

\* The migration is done; after the last one Up gives the lock back.
SetClean(r) ==
  /\ pc[r] = "clean" /\ r \in session
  /\ schema' = [schema EXCEPT !.dirty = FALSE]
  /\ GoTo(r, IF schema.version < Binary[r] THEN "mark" ELSE "after")
  /\ lock' = IF schema.version < Binary[r] THEN lock ELSE None
  /\ UNCHANGED <<attempt, session, applied, up, troubles>>

\* The resulting version is read for the log, its dirty flag ignored.
VersionAfter(r) ==
  /\ pc[r] = "after" /\ r \in session
  /\ MigrateReturns(r)

-----------------------------------------------------------------------------
(* serve.                                                                  *)

\* The pool answers a ping.
Connect(r) ==
  /\ pc[r] = "connect" /\ "postgres" \in up /\ GoTo(r, "redis")
  /\ UNCHANGED <<attempt, session, lock, schema, applied, up, troubles>>

\* It does not: wait and try again, or give up after the last attempt.
ConnectFails(r) ==
  /\ pc[r] = "connect" /\ "postgres" \notin up
  /\ GoTo(r, IF attempt[r] = MaxRetries THEN "exited" ELSE "wait")
  /\ UNCHANGED <<attempt, session, lock, schema, applied, up, troubles>>

\* The context of main is never canceled, so sleep sits the backoff out.
sleep(r) ==
  /\ pc[r] = "wait" /\ GoTo(r, "connect")
  /\ attempt' = [attempt EXCEPT ![r] = @ + 1]
  /\ UNCHANGED <<session, lock, schema, applied, up, troubles>>

\* One attempt each; serve returns the error of either.
NewRedis(r) ==
  /\ pc[r] = "redis" /\ GoTo(r, IF "redis" \in up THEN "rabbitmq" ELSE "exited")
  /\ UNCHANGED <<attempt, session, lock, schema, applied, up, troubles>>

ConnectBroker(r) ==
  /\ pc[r] = "rabbitmq" /\ GoTo(r, IF "rabbitmq" \in up THEN "serving" ELSE "exited")
  /\ UNCHANGED <<attempt, session, lock, schema, applied, up, troubles>>

-----------------------------------------------------------------------------
(* Troubles, and who mends them.                                           *)

\* A process dies; the server ends its session.
Die(r) ==
  /\ pc[r] \notin {"off", "exited"} /\ troubles < MaxTroubles
  /\ troubles' = troubles + 1
  /\ closeMigrator(r) /\ GoTo(r, "off")
  /\ UNCHANGED <<attempt, schema, applied, up>>

\* A dependency goes down; the database takes every session with it.
Outage(d) ==
  /\ d \in up /\ troubles < MaxTroubles
  /\ up' = up \ {d} /\ troubles' = troubles + 1
  /\ IF d = "postgres"
     THEN session' = {} /\ lock' = None
     ELSE UNCHANGED <<session, lock>>
  /\ UNCHANGED <<pc, attempt, schema, applied>>

Recovery(d) ==
  /\ d \notin up /\ up' = up \cup {d}
  /\ UNCHANGED <<pc, attempt, session, lock, schema, applied, troubles>>

\* Somebody looks at a dirty schema nobody is migrating, and forces the version that
\* it really has.
Repair ==
  /\ "postgres" \in up /\ schema.dirty /\ lock = None
  /\ schema' = [version |-> Len(applied), dirty |-> FALSE]
  /\ UNCHANGED <<pc, attempt, session, lock, applied, up, troubles>>

Migrate(r) ==
  \/ newMigrator(r) \/ newMigratorFails(r) \/ Version(r) \/ VersionIsDirty(r)
  \/ SessionIsLost(r) \/ Up(r) \/ UpFindsNothing(r) \/ UpRefuses(r)
  \/ SetDirty(r) \/ RunMigration(r) \/ SetClean(r) \/ VersionAfter(r)

serve(r) == Connect(r) \/ ConnectFails(r) \/ sleep(r) \/ NewRedis(r) \/ ConnectBroker(r)

Next ==
  \/ \E r \in Replicas : \/ Boot(r) \/ Migrate(r) \/ serve(r)
                         \/ UpTimesOut(r) \/ RunMigrationFails(r) \/ Die(r)
  \/ \E d \in Dependencies : Outage(d) \/ Recovery(d)
  \/ Repair

\* A process runs, and is started again when it exits; dependencies come back, and a
\* dirty schema is repaired.
Fairness ==
  /\ \A r \in Replicas : WF_vars(Boot(r)) /\ WF_vars(Migrate(r)) /\ WF_vars(serve(r))
  /\ \A d \in Dependencies : WF_vars(Recovery(d))
  /\ WF_vars(Repair)

Spec == Init /\ [][Next]_vars /\ Fairness

-----------------------------------------------------------------------------
(* Properties.                                                             *)

\* Every migration runs once and in order, whoever starts, dies or repairs.
MigrationsRunOnce == applied = [i \in 1..Len(applied) |-> i]

\* "No query ever meets a schema that is halfway migrated": a replica past Migrate has
\* all the migrations it embeds, and a flag that is on is for a later one.
SchemaIsReady ==
  \A r \in Replicas : pc[r] \in PastMigrate =>
    Binary[r] <= Len(applied) /\ (schema.dirty => schema.version > Binary[r])

\* "Doubling each time and capped at the maximum": a replica waits, now and after every
\* further attempt, for the smaller of the maximum and the initial wait times a power
\* of two, which is also what the worker and the consumer wait after as many attempts.
\* The configuration may have an initial wait above the maximum: the maximum caps the
\* growth, so nothing is said of the wait after the first attempt then.
DoublesUpToTheCap ==
  \A r \in Replicas : pc[r] = "wait" =>
    \A first, cap \in Durations : \A n \in attempt[r]..MaxAttempt :
      n > 1 \/ first <= cap =>
        LET exact == first * TwoTo[n - 1]
            wait  == IF exact < cap THEN exact ELSE cap
        IN  ConnectWait(n, first, cap) = wait /\ backoffFor(n, first, cap) = wait

\* A replica of the newest release serves in the end, and goes on serving.
NewestServes ==
  \A r \in Replicas : Binary[r] = Newest => <>[](pc[r] = "serving")
============================================================================
