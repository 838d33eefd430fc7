--------------------------- MODULE LifecycleProofs ---------------------------
(***************************************************************************)
(* Proofs about the life of a service: how it starts and how it answers a  *)
(* call.                                                                   *)
(*                                                                         *)
(* Startup, for any number of replicas and releases: each migration runs   *)
(* once and in order, no replica goes past Migrate before the schema is    *)
(* its own or newer, and the waits between attempts double up to their     *)
(* cap, for durations of any width.  Requests, for any number of calls:    *)
(* what the interceptors write about a call.                               *)
(***************************************************************************)
EXTENDS Startup, Requests, FiniteSetTheorems, TLAPS

\* The versions a schema has are natural numbers; no bound on them is needed.
Types ==
  /\ pc \in [Replicas -> Places]
  /\ session \in SUBSET Replicas /\ lock \in session \cup {None}
  /\ schema \in [version : Nat, dirty : BOOLEAN]
  /\ applied \in Seq(Nat)

\* What a replica does under the advisory lock of golang-migrate.
Locked == {"mark", "body", "clean"}

\* The lock is held by the replica that applies migrations, as long as its connection
\* lives; only a migrator has a connection.
LockInv ==
  \A r \in session : pc[r] \in Migrating /\ (pc[r] \in Locked <=> lock = r)

\* The version of the table against the migrations that ran: the same, except that it
\* is one ahead from the moment the flag is set to the moment the statements commit.
VersionInv ==
  /\ ~schema.dirty => schema.version = Len(applied)
  /\ \A r \in session :
       /\ pc[r] = "mark"  => ~schema.dirty /\ schema.version < Binary[r]
       /\ pc[r] = "body"  => schema.dirty /\ schema.version = Len(applied) + 1
       /\ pc[r] = "clean" => schema.dirty /\ schema.version = Len(applied)

\* SchemaIsReady, from the moment Up has returned.
ReadyInv ==
  \A r \in Replicas : pc[r] \in PastMigrate \cup {"after"} =>
    Binary[r] <= Len(applied) /\ (schema.dirty => schema.version > Binary[r])

StartupInv ==
  Types /\ LockInv /\ VersionInv /\ ReadyInv /\ MigrationsRunOnce

-----------------------------------------------------------------------------
LEMMA InvHoldsAtFirst == Init => StartupInv
<1> SUFFICES ASSUME Init PROVE StartupInv
  BY Zenon
<1> USE StartupAssumption DEF Init
<1>1. Types
  <2>1. applied \in Seq(Nat) /\ schema \in [version : Nat, dirty : BOOLEAN]
    OBVIOUS
  <2> QED
    BY <2>1, Zenon DEF Types, Places
<1>2. LockInv /\ VersionInv
  BY Zenon DEF LockInv, VersionInv
<1>3. ReadyInv
  BY Zenon DEF ReadyInv, PastMigrate
<1>4. MigrationsRunOnce
  BY DEF MigrationsRunOnce
<1> QED
  BY <1>1, <1>2, <1>3, <1>4, Zenon DEF StartupInv

LEMMA InvIsKept == StartupInv /\ [Next]_vars => StartupInv'
<1> SUFFICES ASSUME StartupInv, [Next]_vars PROVE StartupInv'
  BY Zenon
<1> USE StartupAssumption
    DEF StartupInv, Types, LockInv, VersionInv, ReadyInv, MigrationsRunOnce,
        GoTo, Places, PastMigrate, Migrating, Locked
<1>1. ASSUME NEW r \in Replicas, Boot(r) PROVE StartupInv'
  BY <1>1, Zenon DEF Boot
<1>2. ASSUME NEW r \in Replicas, newMigrator(r) PROVE StartupInv'
  BY <1>2 DEF newMigrator
<1>3. ASSUME NEW r \in Replicas, newMigratorFails(r) PROVE StartupInv'
  BY <1>3, Zenon DEF newMigratorFails, MigrateFails, closeMigrator
<1>4. ASSUME NEW r \in Replicas, Version(r) PROVE StartupInv'
  BY <1>4, Zenon DEF Version
<1>5. ASSUME NEW r \in Replicas, VersionIsDirty(r) PROVE StartupInv'
  BY <1>5, Zenon DEF VersionIsDirty, MigrateFails, closeMigrator
<1>6. ASSUME NEW r \in Replicas, SessionIsLost(r) PROVE StartupInv'
  BY <1>6, Zenon DEF SessionIsLost, MigrateFails, closeMigrator
<1>7. ASSUME NEW r \in Replicas, Up(r) PROVE StartupInv'
  BY <1>7, Zenon DEF Up
<1>8. ASSUME NEW r \in Replicas, UpFindsNothing(r) PROVE StartupInv'
  BY <1>8 DEF UpFindsNothing, MigrateReturns, closeMigrator
<1>9. ASSUME NEW r \in Replicas, UpRefuses(r) PROVE StartupInv'
  BY <1>9, Zenon DEF UpRefuses, MigrateFails, closeMigrator
<1>10. ASSUME NEW r \in Replicas, SetDirty(r) PROVE StartupInv'
  BY <1>10 DEF SetDirty
<1>11. ASSUME NEW r \in Replicas, RunMigration(r) PROVE StartupInv'
  BY <1>11 DEF RunMigration
<1>12. ASSUME NEW r \in Replicas, SetClean(r) PROVE StartupInv'
  <2>1. lock = r /\ schema.dirty /\ schema.version = Len(applied)
    BY <1>12, Zenon DEF SetClean
  <2>2. CASE schema.version < Binary[r]
    BY <1>12, <2>1, <2>2, Zenon DEF SetClean
  <2>3. CASE schema.version >= Binary[r]
    BY <1>12, <2>1, <2>3, Zenon DEF SetClean
  <2> QED
    BY <2>2, <2>3
<1>13. ASSUME NEW r \in Replicas, VersionAfter(r) PROVE StartupInv'
  BY <1>13, Zenon DEF VersionAfter, MigrateReturns, closeMigrator
<1>14. ASSUME NEW r \in Replicas, Connect(r) PROVE StartupInv'
  BY <1>14, Zenon DEF Connect
<1>15. ASSUME NEW r \in Replicas, ConnectFails(r) PROVE StartupInv'
  BY <1>15, Zenon DEF ConnectFails
<1>16. ASSUME NEW r \in Replicas, sleep(r) PROVE StartupInv'
  BY <1>16, Zenon DEF sleep
<1>17. ASSUME NEW r \in Replicas, NewRedis(r) PROVE StartupInv'
  BY <1>17, Zenon DEF NewRedis
<1>18. ASSUME NEW r \in Replicas, ConnectBroker(r) PROVE StartupInv'
  BY <1>18, Zenon DEF ConnectBroker
<1>19. ASSUME NEW r \in Replicas, UpTimesOut(r) PROVE StartupInv'
  BY <1>19, Zenon DEF UpTimesOut, MigrateFails, closeMigrator
<1>20. ASSUME NEW r \in Replicas, RunMigrationFails(r) PROVE StartupInv'
  BY <1>20, Zenon DEF RunMigrationFails, MigrateFails, closeMigrator
<1>21. ASSUME NEW r \in Replicas, Die(r) PROVE StartupInv'
  BY <1>21, Zenon DEF Die, closeMigrator
<1>22. ASSUME NEW d \in Dependencies, Outage(d) PROVE StartupInv'
  BY <1>22, Zenon DEF Outage
<1>23. ASSUME NEW d \in Dependencies, Recovery(d) PROVE StartupInv'
  BY <1>23, Zenon DEF Recovery
<1>24. CASE Repair
  <2>1. Len(applied) \in Nat
    OBVIOUS
  <2>2. schema' = [version |-> Len(applied), dirty |-> FALSE] /\ lock = None
    BY <1>24, Zenon DEF Repair
  <2>3. schema' \in [version : Nat, dirty : BOOLEAN] /\ ~schema'.dirty
        /\ schema'.version = Len(applied)
    BY <2>1, <2>2, Zenon
  <2>4. \A r \in session : pc[r] \notin Locked
    BY <2>2, Zenon
  <2> QED
    BY <1>24, <2>3, <2>4, Zenon DEF Repair
<1>25. CASE UNCHANGED vars
  BY <1>25, Zenon DEF vars
<1> QED
  BY <1>1, <1>2, <1>3, <1>4, <1>5, <1>6, <1>7, <1>8, <1>9, <1>10, <1>11, <1>12, <1>13,
     <1>14, <1>15, <1>16, <1>17, <1>18, <1>19, <1>20, <1>21, <1>22, <1>23, <1>24,
     <1>25, Zenon
     DEF Next, Migrate, serve

LEMMA InvHolds == Spec => []StartupInv
BY InvHoldsAtFirst, InvIsKept, PTL DEF Spec

-----------------------------------------------------------------------------
\* Migrate under golang-migrate's lock: whatever dies, times out, fails or is repaired,
\* no migration is applied twice, left out or applied before an earlier one.
THEOREM EachMigrationRunsOnce == Spec => []MigrationsRunOnce
<1>1. StartupInv => MigrationsRunOnce
  BY Zenon DEF StartupInv
<1> QED
  BY <1>1, InvHolds, PTL

\* main's order, Migrate before serve: a replica that opens its pool finds all of its
\* migrations applied, and the flag is on only for a newer release's migration.
THEOREM NobodyMeetsAHalfMigratedSchema == Spec => []SchemaIsReady
<1>1. StartupInv => SchemaIsReady
  BY Zenon DEF StartupInv, ReadyInv, SchemaIsReady
<1> QED
  BY <1>1, InvHolds, PTL

-----------------------------------------------------------------------------
(* The waits between attempts.  Connect and backoffFor are iterations, so  *)
(* what they compute is shown by induction on the number of doublings;     *)
(* induction is stated of a set, and takes the least number outside it.    *)

LEMMA Induction ==
  ASSUME NEW T, 0 \in T, \A n \in Nat : n \in T => n + 1 \in T
  PROVE  Nat \subseteq T
<1> SUFFICES ASSUME ~(Nat \subseteq T)  PROVE FALSE
  BY Zenon
<1> DEFINE Out == Nat \ T
<1>1. Out \subseteq Nat /\ Out # {}
  BY Zenon
<1>2. PICK m \in Out : \A y \in Out : ~(<<y, m>> \in OpToRel(<, Nat))
  BY <1>1, NatLessThanWellFounded, WFMin, Zenon
<1>3. m \in Nat /\ m # 0
  BY Zenon
<1>4. m - 1 \in Nat /\ (m - 1) + 1 = m /\ m - 1 < m
  BY <1>3
<1>5. m - 1 \notin T
  BY <1>3, <1>4, Zenon
<1>6. <<m - 1, m>> \in OpToRel(<, Nat)
  BY <1>3, <1>4, Zenon DEF OpToRel
<1> QED  BY <1>2, <1>4, <1>5, <1>6, Zenon

\* Iterating a function from a value.
Iterates(g, N, first, next) ==
  g[0] = first /\ \A k \in 1..N : g[k] = next[g[k - 1]]

LEMMA IterationExists ==
  ASSUME NEW S, NEW first \in S, NEW next \in [S -> S], NEW N \in Nat
  PROVE  \E g \in [0..N -> S] : Iterates(g, N, first, next)
<1> DEFINE T == {m \in Nat : \E g \in [0..m -> S] : Iterates(g, m, first, next)}
<1>1. 0 \in T
  <2> DEFINE g == [k \in 0..0 |-> first]
  <2>1. g \in [0..0 -> S] /\ g[0] = first /\ 1..0 = {}
    OBVIOUS
  <2> HIDE DEF g
  <2> QED  BY <2>1, Zenon DEF Iterates
<1>2. ASSUME NEW m \in Nat, m \in T  PROVE m + 1 \in T
  <2>1. PICK g \in [0..m -> S] : Iterates(g, m, first, next)
    BY <1>2, Zenon
  <2> DEFINE h == [k \in 0..m + 1 |-> IF k = m + 1 THEN next[g[m]] ELSE g[k]]
  <2>2. /\ 0 \in 0..m /\ m \in 0..m /\ m + 1 \in 0..m + 1 /\ m + 1 \in Nat /\ 0 # m + 1
        /\ \A k \in 0..m : k \in 0..m + 1 /\ k # m + 1
        /\ \A k \in 0..m + 1 : k = m + 1 \/ k \in 0..m
        /\ \A k \in 1..m + 1 : k = m + 1 \/ k \in 1..m
        /\ \A k \in 1..m : k \in 0..m /\ k - 1 \in 0..m
        /\ (m + 1) - 1 = m
    OBVIOUS
  <2>3. /\ \A k \in 0..m : h[k] = g[k]
        /\ h[m + 1] = next[g[m]]
    BY <2>2, Zenon
  <2>4. g[m] \in S /\ next[g[m]] \in S
    BY <2>2, Zenon
  <2>5. h \in [0..m + 1 -> S]
    <3>1. \A k \in 0..m + 1 : (IF k = m + 1 THEN next[g[m]] ELSE g[k]) \in S
      BY <2>2, <2>4, Zenon
    <3> QED  BY <3>1, Zenon
  <2> HIDE DEF h
  <2>6. Iterates(h, m + 1, first, next)
    <3>1. h[0] = first
      BY <2>1, <2>2, <2>3, Zenon DEF Iterates
    <3>2. ASSUME NEW k \in 1..m + 1  PROVE h[k] = next[h[k - 1]]
      <4>1. CASE k = m + 1
        BY <2>2, <2>3, <4>1, Zenon
      <4>2. CASE k \in 1..m
        BY <2>1, <2>2, <2>3, <4>2, Zenon DEF Iterates
      <4> QED  BY <2>2, <4>1, <4>2, Zenon
    <3> QED  BY <3>1, <3>2, Zenon DEF Iterates
  <2> QED  BY <2>2, <2>5, <2>6, Zenon
<1>3. Nat \subseteq T
  <2> HIDE DEF T
  <2> QED  BY <1>1, <1>2, Induction, Zenon
<1> QED  BY <1>3, Zenon

\* The powers of two a duration and its caps are measured by.
LEMMA PowersOfTwo ==
  /\ TwoTo[0] = 1
  /\ \A n \in 0..Width + MaxAttempt : TwoTo[n] \in Nat \ {0}
  /\ \A n \in 1..Width + MaxAttempt : TwoTo[n] = 2 * TwoTo[n - 1]
<1> DEFINE N == Width + MaxAttempt
           double == [x \in Nat \ {0} |-> 2 * x]
<1>1. N \in Nat /\ double \in [Nat \ {0} -> Nat \ {0}] /\ 1 \in Nat \ {0}
  BY BackoffAssumption
<1>2. PICK g \in [0..N -> Nat \ {0}] : Iterates(g, N, 1, double)
  <2> HIDE DEF N, double
  <2> QED  BY <1>1, IterationExists, Zenon
<1>3. /\ 0 \in 0..N /\ \A n \in 1..N : n \in 0..N /\ n # 0 /\ n - 1 \in 0..N
      /\ \A n \in 0..N : n # 0 => n \in 1..N
  <2> HIDE DEF N
  <2> QED  BY <1>1
<1>4. \A n \in 1..N : g[n] = 2 * g[n - 1]
  <2> HIDE DEF N
  <2> QED  BY <1>2, <1>3, Zenon DEF Iterates
<1>5. g = [n \in 0..N |-> IF n = 0 THEN 1 ELSE 2 * g[n - 1]]
  <2> HIDE DEF N
  <2>1. g = [n \in 0..N |-> g[n]]
    BY Zenon
  <2>2. \A n \in 0..N : g[n] = IF n = 0 THEN 1 ELSE 2 * g[n - 1]
    BY <1>2, <1>3, <1>4, Zenon DEF Iterates
  <2> QED  BY <2>1, <2>2, Zenon
<1>6. TwoTo = [n \in 0..N |-> IF n = 0 THEN 1 ELSE 2 * TwoTo[n - 1]]
  BY <1>5, Zenon DEF TwoTo
<1>7. TwoTo[0] = 1 /\ \A n \in 1..N : TwoTo[n] = 2 * TwoTo[n - 1]
  <2> HIDE DEF N
  <2> QED  BY <1>3, <1>6, Zenon
<1>8. \A n \in 0..N : TwoTo[n] \in Nat \ {0}
  <2> DEFINE T == {n \in Nat : n \in 0..N => TwoTo[n] \in Nat \ {0}}
  <2>1. 0 \in T
    BY <1>7
  <2>2. ASSUME NEW n \in Nat, n \in T  PROVE n + 1 \in T
    <3> SUFFICES ASSUME n + 1 \in 0..N  PROVE TwoTo[n + 1] \in Nat \ {0}
      OBVIOUS
    <3> HIDE DEF N
    <3>1. n + 1 \in 1..N /\ n \in 0..N /\ (n + 1) - 1 = n
      BY <1>1
    <3>2. TwoTo[n] \in Nat \ {0} /\ TwoTo[n + 1] = 2 * TwoTo[n]
      BY <1>7, <2>2, <3>1, Zenon
    <3> QED  BY <3>2
  <2>3. Nat \subseteq T
    <3> HIDE DEF T
    <3> QED  BY <2>1, <2>2, Induction, Zenon
  <2>4. \A n \in 0..N : n \in Nat
    BY <1>1
  <2> QED  BY <2>3, <2>4, Zenon
<1> QED  BY <1>7, <1>8, Zenon

\* A duration that fits is what it is.
LEMMA WrapFits ==
  ASSUME NEW cap \in Durations
  PROVE  cap \in Nat \ {0} /\ \A x \in 0..2 * cap : Wrap(x) = x
<1> DEFINE q == TwoTo[Width - 2]
           h == TwoTo[Width - 1]
<1>1. /\ Width - 2 \in 0..Width + MaxAttempt
      /\ Width - 1 \in 1..Width + MaxAttempt /\ (Width - 1) - 1 = Width - 2
      /\ Width \in 1..Width + MaxAttempt
  BY BackoffAssumption
<1>2. q \in Nat \ {0} /\ h = 2 * q /\ TwoTo[Width] = 2 * h
  BY <1>1, PowersOfTwo, Zenon
<1>3. cap \in 1..q - 1 /\ \A x : Wrap(x) = ((x + h) % (2 * h)) - h
  BY <1>2, Zenon DEF Durations, Wrap
<1> HIDE DEF q, h
<1>4. h \in Nat \ {0} /\ 2 * cap < h /\ cap \in Nat \ {0}
  BY <1>2, <1>3
<1>5. ASSUME NEW x \in 0..2 * cap  PROVE Wrap(x) = x
  <2>1. x + h \in Nat /\ x + h < 2 * h /\ x \in Nat
    BY <1>4
  <2>2. (x + h) % (2 * h) = x + h
    BY <1>4, <2>1
  <2>3. Wrap(x) = (x + h) - h
    BY <1>3, <2>2, Zenon
  <2> QED  BY <1>4, <2>1, <2>3
<1> QED  BY <1>4, <1>5, Zenon

Capped(x, cap) == IF x < cap THEN x ELSE cap

\* One step of Connect, and one of the loop of backoffFor, from a wait that was capped.
LEMMA CappedDoubles ==
  ASSUME NEW cap \in Durations, NEW x \in Nat \ {0}
  PROVE  /\ Capped(x, cap) \in 1..cap
         /\ nextBackoff(Capped(x, cap), cap) = Capped(2 * x, cap)
         /\ x < cap => Wrap(2 * x) = 2 * x
<1>1. cap \in Nat \ {0} /\ \A y \in 0..2 * cap : Wrap(y) = y
  BY WrapFits, Zenon
<1>2. CASE x < cap
  <2>1. Capped(x, cap) = x
    BY <1>2, Zenon DEF Capped
  <2>2. x * 2 = 2 * x /\ 2 * x \in 0..2 * cap /\ x \in 1..cap
    BY <1>1, <1>2
  <2>3. Wrap(x * 2) = 2 * x /\ Wrap(2 * x) = 2 * x
    BY <1>1, <2>2, Zenon
  <2>4. nextBackoff(x, cap) = IF 2 * x > cap THEN cap ELSE 2 * x
    BY <2>3, Zenon DEF nextBackoff
  <2>5. nextBackoff(x, cap) = Capped(2 * x, cap)
    BY <1>1, <2>2, <2>4 DEF Capped
  <2> QED  BY <2>1, <2>2, <2>3, <2>5, Zenon
<1>3. CASE ~(x < cap)
  <2>1. Capped(x, cap) = cap
    BY <1>3, Zenon DEF Capped
  <2>2. cap * 2 \in 0..2 * cap /\ cap \in 1..cap /\ cap * 2 > cap /\ ~(2 * x < cap)
    BY <1>1, <1>3
  <2>3. Wrap(cap * 2) = cap * 2
    BY <1>1, <2>2, Zenon
  <2>4. nextBackoff(cap, cap) = cap
    BY <2>2, <2>3, Zenon DEF nextBackoff
  <2> QED  BY <1>3, <2>1, <2>2, <2>4, Zenon DEF Capped
<1> QED  BY <1>2, <1>3, Zenon

\* first times a power of two, and the next one.
LEMMA ExactDoubles ==
  ASSUME NEW first \in Nat \ {0}, NEW k \in 0..MaxAttempt
  PROVE  /\ first * TwoTo[k] \in Nat \ {0}
         /\ first * TwoTo[k + 1] = 2 * (first * TwoTo[k])
<1> DEFINE t == TwoTo[k]
<1>1. k + 1 \in 1..Width + MaxAttempt /\ k \in 0..Width + MaxAttempt /\ (k + 1) - 1 = k
  BY BackoffAssumption
<1>2. t \in Nat \ {0} /\ TwoTo[k + 1] = 2 * t
  BY <1>1, PowersOfTwo, Zenon
<1> HIDE DEF t
<1>3. first * t \in Nat \ {0}
  BY <1>2
<1>4. first * (2 * t) = 2 * (first * t)
  BY <1>2
<1> QED  BY <1>2, <1>3, <1>4, Zenon DEF t

\* The step from the initial wait, which may be above the cap.
LEMMA NextCaps ==
  ASSUME NEW cap \in Durations, NEW c \in Durations
  PROVE  /\ c \in Nat \ {0} /\ 2 * c \in Nat \ {0} /\ Wrap(2 * c) = 2 * c
         /\ nextBackoff(c, cap) = Capped(2 * c, cap)
         /\ Capped(2 * c, cap) \in Durations
<1>1. cap \in Nat \ {0} /\ c \in Nat \ {0} /\ \A y \in 0..2 * c : Wrap(y) = y
  BY WrapFits, Zenon
<1>2. c * 2 = 2 * c /\ 2 * c \in 0..2 * c /\ 2 * c \in Nat \ {0}
  BY <1>1
<1>3. Wrap(c * 2) = 2 * c /\ Wrap(2 * c) = 2 * c
  BY <1>1, <1>2, Zenon
<1>4. nextBackoff(c, cap) = IF 2 * c > cap THEN cap ELSE 2 * c
  BY <1>3, Zenon DEF nextBackoff
<1>5. nextBackoff(c, cap) = Capped(2 * c, cap)
  BY <1>1, <1>2, <1>4 DEF Capped
<1>6. Capped(2 * c, cap) \in Durations
  <2>1. CASE 2 * c < cap
    <3>1. Capped(2 * c, cap) = 2 * c
      BY <2>1, Zenon DEF Capped
    <3> DEFINE q == TwoTo[Width - 2]
    <3>2. Width - 2 \in 0..Width + MaxAttempt
      BY BackoffAssumption
    <3>3. q \in Nat /\ cap \in 1..q - 1
      BY <3>2, PowersOfTwo, Zenon DEF Durations
    <3> HIDE DEF q
    <3>4. 2 * c \in 1..q - 1
      BY <1>1, <1>2, <2>1, <3>3
    <3> QED  BY <3>1, <3>4, Zenon DEF Durations, q
  <2>2. CASE ~(2 * c < cap)
    BY <2>2, Zenon DEF Capped
  <2> QED  BY <2>1, <2>2, Zenon
<1> QED  BY <1>1, <1>2, <1>3, <1>5, <1>6, Zenon

\* The waits of Connect.
LEMMA ConnectDoubles ==
  ASSUME NEW cap \in Durations, NEW first \in Durations, NEW n \in 1..MaxAttempt,
         n > 1 \/ first <= cap
  PROVE  ConnectWait(n, first, cap) = Capped(first * TwoTo[n - 1], cap)
<1> DEFINE next == [c \in Durations |-> nextBackoff(c, cap)]
           wait == CHOOSE w : w = [k \in 1..MaxAttempt |->
                                     IF k = 1 THEN first ELSE nextBackoff(w[k - 1], cap)]
<1>0. cap \in Nat \ {0} /\ first \in Nat \ {0} /\ MaxAttempt \in Nat \ {0}
  BY WrapFits, BackoffAssumption, Zenon
<1>1. next \in [Durations -> Durations]
  <2>1. ASSUME NEW c \in Durations  PROVE nextBackoff(c, cap) \in Durations
    BY NextCaps, Zenon
  <2> QED  BY <2>1, Zenon
<1>2. PICK g \in [0..MaxAttempt - 1 -> Durations] : Iterates(g, MaxAttempt - 1, first, next)
  <2>1. MaxAttempt - 1 \in Nat
    BY <1>0
  <2> HIDE DEF next
  <2> QED  BY <1>1, <2>1, IterationExists, Zenon
<1> DEFINE w == [k \in 1..MaxAttempt |-> g[k - 1]]
<1>3. w = [k \in 1..MaxAttempt |-> IF k = 1 THEN first ELSE nextBackoff(w[k - 1], cap)]
  <2>1. ASSUME NEW k \in 1..MaxAttempt
        PROVE  g[k - 1] = IF k = 1 THEN first ELSE nextBackoff(w[k - 1], cap)
    <3>1. CASE k = 1
      <4>1. k - 1 = 0
        BY <3>1
      <4> QED  BY <1>2, <3>1, <4>1, Zenon DEF Iterates
    <3>2. CASE k # 1
      <4>1. /\ k - 1 \in 1..MaxAttempt - 1 /\ k - 1 \in 1..MaxAttempt
            /\ (k - 1) - 1 \in 0..MaxAttempt - 1
        BY <1>0, <3>2
      <4>2. w[k - 1] = g[(k - 1) - 1] /\ g[(k - 1) - 1] \in Durations
        BY <4>1, Zenon
      <4>3. g[k - 1] = next[g[(k - 1) - 1]]
        BY <1>2, <4>1, Zenon DEF Iterates
      <4>4. g[k - 1] = nextBackoff(g[(k - 1) - 1], cap)
        BY <4>2, <4>3, Zenon
      <4> QED  BY <3>2, <4>2, <4>4, Zenon
    <3> QED  BY <3>1, <3>2, Zenon
  <2> QED  BY <2>1, Zenon
<1>4. wait = [k \in 1..MaxAttempt |-> IF k = 1 THEN first ELSE nextBackoff(wait[k - 1], cap)]
  <2> HIDE DEF w
  <2> QED  BY <1>3, Zenon
<1>5. ConnectWait(n, first, cap) = wait[n]
  BY Zenon DEF ConnectWait
<1> HIDE DEF wait
<1> DEFINE After(m) == IF m = 0 THEN first ELSE Capped(first * TwoTo[m], cap)
           T == {m \in Nat : m + 1 \in 1..MaxAttempt => wait[m + 1] = After(m)}
<1>6. 0 \in T
  <2>1. 1 \in 1..MaxAttempt /\ 0 + 1 = 1
    BY <1>0
  <2>2. wait[1] = first
    BY <1>4, <2>1, Zenon
  <2> QED  BY <2>1, <2>2, Zenon
<1>7. ASSUME NEW m \in Nat, m \in T  PROVE m + 1 \in T
  <2> SUFFICES ASSUME (m + 1) + 1 \in 1..MaxAttempt
               PROVE  wait[(m + 1) + 1] = Capped(first * TwoTo[m + 1], cap)
    <3>1. m + 1 # 0 /\ m + 1 \in Nat
      OBVIOUS
    <3> QED  BY <3>1, Zenon
  <2> DEFINE x == first * TwoTo[m]
  <2>1. /\ m \in 0..MaxAttempt /\ m + 1 \in 1..MaxAttempt
        /\ ((m + 1) + 1) - 1 = m + 1 /\ (m + 1) + 1 # 1
    BY <1>0
  <2>2. wait[(m + 1) + 1] = nextBackoff(wait[m + 1], cap)
    BY <1>4, <2>1, Zenon
  <2>3. x \in Nat \ {0} /\ first * TwoTo[m + 1] = 2 * x
    BY <1>0, <2>1, ExactDoubles, Zenon
  <2>4. wait[m + 1] = After(m)
    BY <1>7, <2>1, Zenon
  <2>5. CASE m = 0
    <3>1. TwoTo[m] = 1
      BY <2>5, PowersOfTwo, Zenon
    <3>2. first * 1 = first
      BY <1>0
    <3>3. x = first
      BY <3>1, <3>2, Zenon
    <3>4. wait[m + 1] = first /\ nextBackoff(first, cap) = Capped(2 * first, cap)
      BY <2>4, <2>5, NextCaps, Zenon
    <3> QED  BY <2>2, <2>3, <3>3, <3>4, Zenon
  <2>6. CASE m # 0
    <3>1. wait[m + 1] = Capped(x, cap)
      BY <2>4, <2>6, Zenon
    <3> HIDE DEF x
    <3> QED  BY <2>2, <2>3, <3>1, CappedDoubles, Zenon
  <2> QED  BY <2>5, <2>6, Zenon
<1>8. Nat \subseteq T
  <2> HIDE DEF T
  <2> QED  BY <1>6, <1>7, Induction, Zenon
<1>9. n - 1 \in Nat /\ (n - 1) + 1 = n /\ (n > 1 => n - 1 # 0) /\ (n > 1 \/ n = 1)
  BY <1>0
<1>10. wait[n] = After(n - 1)
  BY <1>8, <1>9, Zenon
<1>11. CASE n > 1
  BY <1>5, <1>9, <1>10, <1>11, Zenon
<1>12. CASE n = 1 /\ first <= cap
  <2>1. n - 1 = 0 /\ first * 1 = first /\ (first < cap \/ first = cap)
    BY <1>0, <1>12
  <2>2. TwoTo[0] = 1
    BY PowersOfTwo, Zenon
  <2>3. wait[n] = first
    BY <1>10, <2>1, Zenon
  <2>4. Capped(first, cap) = first
    BY <2>1, Zenon DEF Capped
  <2> QED  BY <1>5, <2>1, <2>2, <2>3, <2>4, Zenon
<1> QED  BY <1>9, <1>11, <1>12, Zenon

\* One turn of the loop of backoffFor.
Turn(s, cap) ==
  IF s.left THEN s
  ELSE IF Wrap(2 * s.backoff) >= cap THEN [backoff |-> cap, left |-> TRUE]
  ELSE [backoff |-> Wrap(2 * s.backoff), left |-> FALSE]

LoopState == [backoff : Durations, left : BOOLEAN]

\* What the loop has after it doubled x: the capped value, and it left only with the cap.
LoopAt(s, x, cap) ==
  /\ s \in LoopState /\ s.backoff = Capped(x, cap)
  /\ s.left => x >= cap

\* A turn doubles what the turn before left, and the first turn the initial wait.
LEMMA TurnFrom ==
  ASSUME NEW cap \in Durations, NEW s \in LoopState, ~s.left
  PROVE  LoopAt(Turn(s, cap), 2 * s.backoff, cap)
<1> DEFINE b == s.backoff
<1>1. b \in Durations
  BY Zenon DEF LoopState
<1>2. /\ b \in Nat \ {0} /\ Wrap(2 * b) = 2 * b
      /\ Capped(2 * b, cap) \in Durations
  BY <1>1, NextCaps, Zenon
<1>3. Turn(s, cap) = IF 2 * b >= cap THEN [backoff |-> cap, left |-> TRUE]
                     ELSE [backoff |-> 2 * b, left |-> FALSE]
  BY <1>2, Zenon DEF Turn
<1>4. cap \in Nat \ {0}
  BY WrapFits, Zenon
<1> HIDE DEF b
<1>5. CASE 2 * b >= cap
  <2> DEFINE r == [backoff |-> cap, left |-> TRUE]
  <2>1. ~(2 * b < cap)
    BY <1>2, <1>4, <1>5
  <2>2. Capped(2 * b, cap) = cap
    BY <2>1, Zenon DEF Capped
  <2>3. r \in LoopState /\ r.backoff = cap
    BY Zenon DEF LoopState
  <2>4. Turn(s, cap) = r
    BY <1>3, <1>5, Zenon
  <2> HIDE DEF r
  <2> QED  BY <1>5, <2>2, <2>3, <2>4, Zenon DEF LoopAt, b
<1>6. CASE ~(2 * b >= cap)
  <2> DEFINE r == [backoff |-> 2 * b, left |-> FALSE]
  <2>1. 2 * b < cap
    BY <1>2, <1>4, <1>6
  <2>2. Capped(2 * b, cap) = 2 * b
    BY <2>1, Zenon DEF Capped
  <2>3. r \in LoopState /\ r.backoff = 2 * b /\ ~r.left
    BY <1>2, <2>2, Zenon DEF LoopState
  <2>4. Turn(s, cap) = r
    BY <1>3, <1>6, Zenon
  <2> HIDE DEF r
  <2> QED  BY <2>2, <2>3, <2>4, Zenon DEF LoopAt, b
<1> QED  BY <1>5, <1>6, Zenon

LEMMA TurnDoubles ==
  ASSUME NEW cap \in Durations, NEW x \in Nat \ {0}, NEW s, LoopAt(s, x, cap)
  PROVE  LoopAt(Turn(s, cap), 2 * x, cap)
<1>1. cap \in Nat \ {0}
  BY WrapFits, Zenon
<1>2. s \in LoopState /\ s.backoff = Capped(x, cap)
  BY Zenon DEF LoopAt
<1>3. CASE s.left
  <2>1. Turn(s, cap) = s /\ x >= cap
    BY <1>3, Zenon DEF Turn, LoopAt
  <2>2. 2 * x >= cap /\ ~(2 * x < cap) /\ ~(x < cap)
    BY <1>1, <2>1
  <2>3. Capped(x, cap) = cap /\ Capped(2 * x, cap) = cap
    BY <2>2, Zenon DEF Capped
  <2> QED  BY <1>2, <2>1, <2>2, <2>3, Zenon DEF LoopAt
<1>4. CASE ~s.left
  <2>1. LoopAt(Turn(s, cap), 2 * s.backoff, cap)
    BY <1>2, <1>4, TurnFrom, Zenon
  <2>2. CASE x < cap
    <3>1. s.backoff = x
      BY <1>2, <2>2, Zenon DEF Capped
    <3> QED  BY <2>1, <3>1, Zenon
  <2>3. CASE ~(x < cap)
    <3>1. s.backoff = cap
      BY <1>2, <2>3, Zenon DEF Capped
    <3>2. 2 * x >= cap /\ ~(2 * x < cap) /\ ~(2 * cap < cap)
      BY <1>1, <2>3
    <3>3. Capped(2 * x, cap) = Capped(2 * cap, cap)
      BY <3>2, Zenon DEF Capped
    <3> QED  BY <2>1, <3>1, <3>2, <3>3, Zenon DEF LoopAt
  <2> QED  BY <2>2, <2>3, Zenon
<1> QED  BY <1>3, <1>4, Zenon

LEMMA TurnStays ==
  ASSUME NEW cap \in Durations, NEW s \in LoopState
  PROVE  Turn(s, cap) \in LoopState
<1>1. CASE s.left
  BY <1>1, Zenon DEF Turn
<1>2. CASE ~s.left
  BY <1>2, TurnFrom, Zenon DEF LoopAt
<1> QED  BY <1>1, <1>2, Zenon

\* The waits of the outbox worker and of the consumer.
LEMMA LoopDoubles ==
  ASSUME NEW cap \in Durations, NEW first \in Durations, NEW n \in 1..MaxAttempt,
         n > 1 \/ first <= cap
  PROVE  backoffFor(n, first, cap) = Capped(first * TwoTo[n - 1], cap)
<1> DEFINE S == LoopState
           start == [backoff |-> first, left |-> FALSE]
           turn == [s \in S |-> Turn(s, cap)]
           loop == CHOOSE l : l = [k \in 0..MaxAttempt |->
                     IF k = 0 THEN [backoff |-> first, left |-> FALSE]
                     ELSE LET doubled == Wrap(2 * l[k - 1].backoff)
                          IN  IF l[k - 1].left THEN l[k - 1]
                              ELSE IF doubled >= cap THEN [backoff |-> cap, left |-> TRUE]
                              ELSE [backoff |-> doubled, left |-> FALSE]]
<1>0. cap \in Nat \ {0} /\ first \in Nat \ {0} /\ MaxAttempt \in Nat \ {0}
  BY WrapFits, BackoffAssumption
<1>1. start \in S /\ start.backoff = first /\ ~start.left
  BY Zenon DEF LoopState
<1>2. turn \in [S -> S]
  BY TurnStays, Zenon
<1>3. PICK g \in [0..MaxAttempt -> S] : Iterates(g, MaxAttempt, start, turn)
  <2>1. MaxAttempt \in Nat
    BY <1>0
  <2> HIDE DEF S, start, turn
  <2> QED  BY <1>1, <1>2, <2>1, IterationExists, Zenon
<1>4. g = [k \in 0..MaxAttempt |-> IF k = 0 THEN start ELSE Turn(g[k - 1], cap)]
  <2>1. ASSUME NEW k \in 0..MaxAttempt
        PROVE  g[k] = IF k = 0 THEN start ELSE Turn(g[k - 1], cap)
    <3> HIDE DEF start
    <3>1. CASE k = 0
      BY <1>3, <3>1, Zenon DEF Iterates
    <3>2. CASE k # 0
      <4>1. k \in 1..MaxAttempt /\ k - 1 \in 0..MaxAttempt
        BY <1>0, <3>2
      <4>2. g[k - 1] \in S /\ g[k] = turn[g[k - 1]]
        BY <1>3, <4>1, Zenon DEF Iterates
      <4> QED  BY <3>2, <4>2, Zenon
    <3> QED  BY <3>1, <3>2, Zenon
  <2>2. g = [k \in 0..MaxAttempt |-> g[k]]
    BY Zenon
  <2> HIDE DEF start
  <2> QED  BY <2>1, <2>2, Zenon
<1>5. loop = [k \in 0..MaxAttempt |-> IF k = 0 THEN start ELSE Turn(loop[k - 1], cap)]
  BY <1>4, Zenon DEF Turn
<1>6. backoffFor(n, first, cap) = IF n <= 1 THEN first ELSE loop[n - 1].backoff
  BY Zenon DEF backoffFor
<1> HIDE DEF loop, start
<1> DEFINE T == {k \in Nat : k + 1 \in 0..MaxAttempt =>
                               LoopAt(loop[k + 1], first * TwoTo[k + 1], cap)}
<1>7. 0 \in T
  <2> SUFFICES ASSUME 0 + 1 \in 0..MaxAttempt
               PROVE  LoopAt(loop[0 + 1], first * TwoTo[0 + 1], cap)
    OBVIOUS
  <2>1. /\ 0 \in 0..MaxAttempt /\ 0 + 1 # 0 /\ (0 + 1) - 1 = 0 /\ first * 1 = first
    BY <1>0
  <2>2. loop[0] = start /\ loop[0 + 1] = Turn(loop[0], cap)
    BY <1>5, <2>1, Zenon
  <2>3. first * TwoTo[0] = first
    BY <2>1, PowersOfTwo, Zenon
  <2>4. first * TwoTo[0 + 1] = 2 * first
    BY <1>0, <2>1, <2>3, ExactDoubles, Zenon
  <2>5. LoopAt(Turn(start, cap), 2 * first, cap)
    BY <1>1, TurnFrom, Zenon
  <2> QED  BY <2>2, <2>4, <2>5, Zenon
<1>8. ASSUME NEW k \in Nat, k \in T  PROVE k + 1 \in T
  <2> SUFFICES ASSUME (k + 1) + 1 \in 0..MaxAttempt
               PROVE  LoopAt(loop[(k + 1) + 1], first * TwoTo[(k + 1) + 1], cap)
    OBVIOUS
  <2> DEFINE x == first * TwoTo[k + 1]
  <2>1. k + 1 \in 0..MaxAttempt /\ ((k + 1) + 1) - 1 = k + 1 /\ (k + 1) + 1 # 0
    BY <1>0
  <2>2. loop[(k + 1) + 1] = Turn(loop[k + 1], cap)
    BY <1>5, <2>1, Zenon
  <2>3. x \in Nat \ {0} /\ first * TwoTo[(k + 1) + 1] = 2 * x
    BY <1>0, <2>1, ExactDoubles, Zenon
  <2>4. LoopAt(loop[k + 1], x, cap)
    BY <1>8, <2>1, Zenon
  <2> HIDE DEF x
  <2> QED  BY <2>2, <2>3, <2>4, TurnDoubles, Zenon
<1>9. Nat \subseteq T
  <2> HIDE DEF T
  <2> QED  BY <1>7, <1>8, Induction, Zenon
<1>10. CASE n > 1
  <2>1. n - 2 \in Nat /\ (n - 2) + 1 = n - 1 /\ n - 1 \in 0..MaxAttempt /\ ~(n <= 1)
    BY <1>0, <1>10
  <2>2. LoopAt(loop[n - 1], first * TwoTo[n - 1], cap)
    BY <1>9, <2>1, Zenon
  <2> QED  BY <1>6, <2>1, <2>2, Zenon DEF LoopAt
<1>11. CASE ~(n > 1)
  <2>1. n <= 1 /\ n - 1 = 0 /\ first * 1 = first /\ (first < cap \/ first = cap)
    BY <1>0, <1>11
  <2>2. TwoTo[0] = 1
    BY PowersOfTwo, Zenon
  <2>3. Capped(first, cap) = first
    BY <2>1, Zenon DEF Capped
  <2> QED  BY <1>6, <2>1, <2>2, <2>3, Zenon
<1> QED  BY <1>10, <1>11, Zenon

LEMMA AttemptsCount == Spec => [](attempt \in [Replicas -> Nat \ {0}])
<1> DEFINE I == attempt \in [Replicas -> Nat \ {0}]
<1>1. Init => I
  BY DEF Init
<1>2. I /\ [Next]_vars => I'
  <2> SUFFICES ASSUME I, [Next]_vars PROVE I'
    BY Zenon
  <2>1. ASSUME NEW r \in Replicas, Boot(r) PROVE I'
    BY <2>1 DEF Boot
  <2>2. ASSUME NEW r \in Replicas, Migrate(r) PROVE I'
    BY <2>2, Zenon
       DEF Migrate, newMigrator, newMigratorFails, Version, VersionIsDirty, SessionIsLost, Up,
           UpFindsNothing, UpRefuses, SetDirty, RunMigration, SetClean, VersionAfter,
           MigrateFails, MigrateReturns
  <2>3. ASSUME NEW r \in Replicas, serve(r) PROVE I'
    <3>1. CASE sleep(r)
      BY <3>1 DEF sleep
    <3>2. CASE Connect(r) \/ ConnectFails(r) \/ NewRedis(r) \/ ConnectBroker(r)
      BY <3>2, Zenon DEF Connect, ConnectFails, NewRedis, ConnectBroker
    <3> QED  BY <2>3, <3>1, <3>2, Zenon DEF serve
  <2>4. ASSUME NEW r \in Replicas, UpTimesOut(r) \/ RunMigrationFails(r) \/ Die(r) PROVE I'
    BY <2>4, Zenon DEF UpTimesOut, RunMigrationFails, MigrateFails, Die
  <2>5. ASSUME NEW d \in Dependencies, Outage(d) \/ Recovery(d) PROVE I'
    BY <2>5, Zenon DEF Outage, Recovery
  <2>6. CASE Repair \/ UNCHANGED vars
    BY <2>6, Zenon DEF Repair, vars
  <2> QED  BY <2>1, <2>2, <2>3, <2>4, <2>5, <2>6, Zenon DEF Next
<1> HIDE DEF I
<1>3. Spec => []I
  BY <1>1, <1>2, PTL DEF Spec
<1> QED  BY <1>3, PTL DEF I

\* "Doubling each time and capped at the maximum" (postgres.go), in the three places that
\* say so: for durations of any width no doubling overflows, whichever of the initial
\* and the maximum wait is the longer.
THEOREM WaitsDoubleUpToTheCap == Spec => []DoublesUpToTheCap
<1>1. attempt \in [Replicas -> Nat \ {0}] => DoublesUpToTheCap
  <2> SUFFICES ASSUME attempt \in [Replicas -> Nat \ {0}], NEW r \in Replicas,
                      NEW first \in Durations, NEW cap \in Durations,
                      NEW n \in attempt[r]..MaxAttempt, n > 1 \/ first <= cap
               PROVE  /\ ConnectWait(n, first, cap) = Capped(first * TwoTo[n - 1], cap)
                      /\ backoffFor(n, first, cap) = Capped(first * TwoTo[n - 1], cap)
    BY Zenon DEF DoublesUpToTheCap, Capped
  <2>1. n \in 1..MaxAttempt
    <3>1. attempt[r] \in Nat \ {0}
      BY Zenon
    <3> QED  BY <3>1, BackoffAssumption
  <2> QED  BY <2>1, ConnectDoubles, LoopDoubles, Zenon
<1> QED  BY <1>1, AttemptsCount, PTL

-----------------------------------------------------------------------------
(* The calls it answers: Requests, a component of its own.  The chain      *)
(* writes about a call what its links see, so the invariant says what has  *)
(* been written by where the call is.                                      *)

\* Where the handler of c is in its chain; the link that maps errors is before it.
LastLink(c) == IF call[c].stream THEN 5 ELSE 7

\* The calls the gauge stands for.
InGauge(c) == c \in panicked \/ at[c] > 3 \/ (at[c] = 3 /\ heading[c] = "out")
Counting   == {c \in Calls : InGauge(c)}

CallTypes ==
  /\ call \in [Calls -> Call]
  /\ at \in [Calls -> Nat] /\ \A c \in Calls : at[c] <= LastLink(c)
  /\ heading \in [Calls -> {"in", "out", "panic"}]
  /\ err \in [Calls -> [kind : Kinds, code : Codes]]
  /\ raised \in [Calls -> HandlerErrors]
  /\ counted \in [Calls -> Codes \cup {"none"}]
  /\ access \in [Calls -> Codes \cup {"none"}]
  /\ panicked \in SUBSET Calls /\ detail \in SUBSET Calls
  /\ answer \in [Calls -> Codes \cup {"none"}]

\* Once past the link that maps errors, an error carries the code declared for it, and
\* one nobody declared was logged and is INTERNAL.
Mapped(c) ==
  /\ err[c].kind \in {"nil", "domain", "status"}
  /\ IF raised[c].kind = "plain" THEN err[c].code = "Internal" /\ c \in detail
     ELSE raised[c].kind # "nil" => err[c].code = raised[c].code

\* A call on its way in, or whose panic is on its way out: nothing is written yet, and a
\* panic comes from inside the metrics link.
GoingIn(c) ==
  /\ at[c] > 0 /\ c \notin panicked /\ access[c] = "none" /\ raised[c] = NoError
  /\ heading[c] = "panic" => at[c] > 3

\* A call on its way out, and what each link it left has written.
ComingOut(c) ==
  /\ at[c] < LastLink(c)
  /\ at[c] = LastLink(c) - 1 => err[c] = raised[c]
  /\ at[c] < LastLink(c) - 1 => Mapped(c)
  /\ at[c] < 3 => counted[c] = err[c].code
  /\ IF at[c] < 2 THEN access[c] = err[c].code ELSE access[c] = "none"
  /\ at[c] = 0 => answer[c] = err[c].code

\* Where a call is decides what has been written about it.
CallInv(c) ==
  /\ answer[c] # "none" <=> at[c] = 0
  /\ heading[c] # "out" => GoingIn(c)
  /\ heading[c] = "out" /\ c \notin panicked => ComingOut(c)
  /\ c \in panicked => heading[c] = "out" /\ at[c] = 0 /\ access[c] = "none"

RequestsInv ==
  /\ CallTypes
  /\ \A c \in Calls : CallInv(c)
  /\ inflight = Cardinality(Counting)

-----------------------------------------------------------------------------
(* The chain.                                                              *)

LEMMA Links ==
  ASSUME NEW c \in Calls, CallTypes
  PROVE  /\ Link(c) = "recovery"    => at[c] = 1
         /\ Link(c) = "logging"     => at[c] = 2
         /\ Link(c) = "metrics"     => at[c] = 3
         /\ Link(c) = "api_version" => at[c] = 4 /\ LastLink(c) = 7
         /\ Link(c) = "validate"    => at[c] = 5 /\ LastLink(c) = 7
         /\ Link(c) = "errors"      => at[c] = LastLink(c) - 1
         /\ Link(c) = "handler"     => at[c] = LastLink(c)
         /\ Link(c) \in {"recovery", "logging", "metrics", "api_version", "validate"}
              => at[c] < LastLink(c) - 1
         /\ LastLink(c) \in {5, 7}
<1>1. at[c] \in 0..LastLink(c) /\ LastLink(c) \in {5, 7}
  BY DEF CallTypes, LastLink
<1>2. CASE call[c].stream
  BY <1>1, <1>2 DEF Link, chain, LastLink
<1>3. CASE ~call[c].stream
  BY <1>1, <1>3 DEF Link, chain, LastLink
<1> QED
  BY <1>2, <1>3, Zenon

LEMMA Positions ==
  ASSUME NEW c \in Calls
  PROVE  Position(c, "recovery") = 1 /\ Position(c, "metrics") = 3
<1> DEFINE links == chain(c)
           last  == Len(links)
<1>1. last = 5 \/ last = 7
  BY Zenon DEF chain
<1>2. \A i \in 1..last : /\ links[i] = "recovery" <=> i = 1
                         /\ links[i] = "metrics" <=> i = 3
  <2>1. CASE call[c].stream
    BY <2>1 DEF chain
  <2>2. CASE ~call[c].stream
    BY <2>2 DEF chain
  <2> QED
    BY <2>1, <2>2, Zenon
<1>3. /\ Position(c, "recovery") = CHOOSE i \in 1..last : links[i] = "recovery"
      /\ Position(c, "metrics") = CHOOSE i \in 1..last : links[i] = "metrics"
  BY Zenon DEF Position
<1> HIDE DEF links, last
<1>4. 1 \in 1..last /\ 3 \in 1..last
  BY <1>1
<1>5. links[1] = "recovery" /\ links[3] = "metrics"
  BY <1>2, <1>4, Zenon
<1>6. Position(c, "recovery") \in 1..last /\ links[Position(c, "recovery")] = "recovery"
  BY <1>3, <1>4, <1>5, Zenon
<1>7. Position(c, "metrics") \in 1..last /\ links[Position(c, "metrics")] = "metrics"
  BY <1>3, <1>4, <1>5, Zenon
<1> QED
  BY <1>2, <1>6, <1>7, Zenon

LEMMA GaugeCounts == inflight = Cardinality(Counting) => GaugeIsExact
<1> DEFINE Between(c) == \/ at[c] > Position(c, "metrics")
                         \/ at[c] = Position(c, "metrics") /\ heading[c] = "out"
<1> SUFFICES ASSUME inflight = Cardinality(Counting), panicked = {}
             PROVE  inflight = Cardinality({c \in Calls : Between(c)})
  BY Zenon DEF GaugeIsExact
<1>1. \A c \in Calls : Between(c) <=> InGauge(c)
  BY Positions, Zenon DEF InGauge
<1>2. Counting = {c \in Calls : Between(c)}
  BY <1>1, Zenon DEF Counting
<1> QED  BY <1>2, Zenon

LEMMA ToStatusMaps ==
  ASSUME NEW e \in HandlerErrors
  PROVE  /\ ToStatus(e) \in [kind : Kinds, code : Codes]
         /\ ToStatus(e).kind \in {"nil", "status"}
         /\ IF e.kind = "plain"
            THEN ToStatus(e).code = "Internal" /\ LoggedByToStatus(e)
            ELSE ToStatus(e).code = e.code
BY DEF HandlerErrors, ToStatus, LoggedByToStatus, Error, NoError,
       Kinds, Codes

LEMMA Known ==
  /\ HandlerErrors \subseteq [kind : Kinds, code : Codes]
  /\ NoError \in HandlerErrors /\ NoError.kind = "nil"
  /\ "none" \notin Codes /\ "Internal" \in Codes
  /\ Error("status", "Internal") \in [kind : Kinds, code : Codes]
BY DEF HandlerErrors, Error, NoError, Kinds, Codes
-----------------------------------------------------------------------------
(* Steps.                                                                  *)

LEMMA ChainHoldsAtFirst == ChainInit => RequestsInv
<1> SUFFICES ASSUME ChainInit PROVE RequestsInv
  BY Zenon
<1>1. CallTypes
  BY Known DEF ChainInit, CallTypes, LastLink
<1>2. \A c \in Calls : CallInv(c)
  BY DEF ChainInit, CallInv, GoingIn
<1>3. Counting = {}
  BY DEF ChainInit, Counting, InGauge
<1> QED
  BY <1>1, <1>2, <1>3, FS_EmptySet, Zenon DEF RequestsInv, ChainInit

\* A step of one call disturbs no other.
LEMMA OthersAreLeftAlone ==
  ASSUME NEW c \in Calls, NEW d \in Calls, c # d, CallInv(d),
         call' = call, at'[d] = at[d], heading'[d] = heading[d], err'[d] = err[d],
         raised'[d] = raised[d], counted'[d] = counted[d], access'[d] = access[d],
         answer'[d] = answer[d], (d \in panicked') = (d \in panicked),
         (d \in detail') = (d \in detail)
  PROVE  CallInv(d)'
BY Zenon DEF CallInv, GoingIn, ComingOut, Mapped, LastLink

\* What a step of c does to the calls the gauge stands for.
LEMMA GaugeStep ==
  ASSUME NEW c \in Calls, \A d \in Calls : d # c => (InGauge(d)' <=> InGauge(d))
  PROVE  /\ (InGauge(c)' <=> InGauge(c)) => Counting' = Counting
         /\ InGauge(c)' /\ ~InGauge(c)   => Counting' = Counting \cup {c} /\ c \notin Counting
         /\ ~InGauge(c)' /\ InGauge(c)   => Counting' = Counting \ {c} /\ c \in Counting
<1>1. \A d : d \in Counting' <=> d \in Calls /\ InGauge(d)'
  BY Zenon DEF Counting
<1>2. \A d : d \in Counting <=> d \in Calls /\ InGauge(d)
  BY Zenon DEF Counting
<1>3. ASSUME InGauge(c)' <=> InGauge(c) PROVE Counting' = Counting
  <2>1. \A d : d \in Counting' <=> d \in Counting
    BY <1>1, <1>2, <1>3, Zenon
  <2> QED  BY <2>1, Zenon
<1>4. ASSUME InGauge(c)', ~InGauge(c) PROVE Counting' = Counting \cup {c} /\ c \notin Counting
  <2>1. \A d : d \in Counting' <=> d \in Counting \cup {c}
    BY <1>1, <1>2, <1>4, Zenon
  <2> QED  BY <2>1, <1>2, <1>4, Zenon
<1>5. ASSUME ~InGauge(c)', InGauge(c) PROVE Counting' = Counting \ {c} /\ c \in Counting
  <2>1. \A d : d \in Counting' <=> d \in Counting \ {c}
    BY <1>1, <1>2, <1>5, Zenon
  <2> QED  BY <2>1, <1>2, <1>5, Zenon
<1> QED  BY <1>3, <1>4, <1>5, Zenon

\* A call that goes one link in.
LEMMA GoesInStep ==
  ASSUME NEW c \in Calls, CallTypes, \A d \in Calls : CallInv(d),
         heading[c] = "in", at[c] < LastLink(c), GoesIn(c),
         UNCHANGED <<call, raised, counted, access, panicked, detail, answer>>
  PROVE  /\ CallTypes' /\ (\A d \in Calls : CallInv(d)')
         /\ at[c] # 3 => Counting' = Counting
         /\ at[c] = 3 => Counting' = Counting \cup {c} /\ c \notin Counting
<1>1. CallInv(c) /\ GoingIn(c) /\ at[c] \in Nat /\ at[c] > 0 /\ c \notin panicked
  BY Zenon DEF CallTypes, CallInv, GoingIn
<1>2. at' = [at EXCEPT ![c] = at[c] + 1] /\ heading' = heading /\ err' = err
  BY Zenon DEF GoesIn
<1>3. /\ at' \in [Calls -> Nat] /\ at'[c] = at[c] + 1
      /\ \A d \in Calls : d # c => at'[d] = at[d]
  <2>1. at[c] + 1 \in Nat
    BY <1>1
  <2> QED  BY <1>2, <2>1, Zenon DEF CallTypes
<1>4. \A d \in Calls : LastLink(d)' = LastLink(d)
  BY Zenon DEF LastLink
<1>5. at[c] + 1 <= LastLink(c) /\ at[c] + 1 > 0 /\ at[c] + 1 # 0 /\ at[c] # 0
  <2>1. LastLink(c) \in {5, 7}
    BY Links, Zenon
  <2> QED  BY <1>1, <2>1
<1>6. CallTypes'
  <2>1. \A d \in Calls : at'[d] <= LastLink(d)'
    BY <1>3, <1>4, <1>5, Zenon DEF CallTypes
  <2> QED  BY <1>2, <1>3, <2>1, Zenon DEF CallTypes
<1>7. CallInv(c)'
  BY <1>1, <1>2, <1>3, <1>5, Zenon DEF CallInv, GoingIn
<1>8. \A d \in Calls : d # c => CallInv(d)'
  BY <1>2, <1>3, OthersAreLeftAlone, Zenon
<1>9. \A d \in Calls : d # c => (InGauge(d)' <=> InGauge(d))
  BY <1>2, <1>3, Zenon DEF InGauge
<1>10. (InGauge(c)' <=> at[c] + 1 > 3) /\ (InGauge(c) <=> at[c] > 3)
  <2>1. heading[c] # "out" /\ heading'[c] # "out"
    BY <1>2, Zenon
  <2> QED  BY <1>1, <1>3, <2>1, Zenon DEF InGauge
<1>11. (at[c] # 3 => (at[c] + 1 > 3 <=> at[c] > 3)) /\ (at[c] = 3 => at[c] + 1 > 3 /\ ~(at[c] > 3))
  BY <1>1
<1> QED
  BY <1>6, <1>7, <1>8, <1>9, <1>10, <1>11, GaugeStep, Zenon

\* A call that comes one link out with the outcome e: what the link wrote decides.
LEMMA ComesOutStep ==
  ASSUME NEW c \in Calls, NEW e \in [kind : Kinds, code : Codes],
         CallTypes, \A d \in Calls : CallInv(d),
         at[c] > 0, c \notin panicked, ComesOut(c, e),
         call' = call, panicked' = panicked,
         raised' \in [Calls -> HandlerErrors], detail' \in SUBSET Calls,
         counted' \in [Calls -> Codes \cup {"none"}],
         access' \in [Calls -> Codes \cup {"none"}],
         \A d \in Calls : d # c => /\ raised'[d] = raised[d] /\ counted'[d] = counted[d]
                                   /\ access'[d] = access[d]
                                   /\ (d \in detail') = (d \in detail),
         at[c] = LastLink(c) => e = raised'[c],
         at[c] < LastLink(c) => /\ e.kind \in {"nil", "domain", "status"}
                                /\ IF raised'[c].kind = "plain"
                                   THEN e.code = "Internal" /\ c \in detail'
                                   ELSE raised'[c].kind # "nil" => e.code = raised'[c].code,
         at[c] <= 3 => counted'[c] = e.code,
         IF at[c] <= 2 THEN access'[c] = e.code ELSE access'[c] = "none"
  PROVE  /\ CallTypes' /\ \A d \in Calls : CallInv(d)'
         /\ at[c] # 3 => Counting' = Counting
         /\ at[c] = 3 /\ heading[c] = "out" => Counting' = Counting \ {c} /\ c \in Counting
<1>1. at[c] \in Nat /\ at[c] <= LastLink(c) /\ LastLink(c) \in {5, 7} /\ CallInv(c)
  BY Links, Zenon DEF CallTypes
<1>2. /\ at' = [at EXCEPT ![c] = at[c] - 1] /\ heading' = [heading EXCEPT ![c] = "out"]
      /\ err' = [err EXCEPT ![c] = e] /\ e.code \in Codes
      /\ answer' = IF at[c] = 1 THEN [answer EXCEPT ![c] = e.code] ELSE answer
  BY Zenon DEF ComesOut, ClientCode
<1>3. /\ answer' \in [Calls -> Codes \cup {"none"}]
      /\ err' \in [Calls -> [kind : Kinds, code : Codes]]
      /\ heading' \in [Calls -> {"in", "out", "panic"}]
  BY <1>2, Zenon DEF CallTypes
<1>4. /\ at[c] - 1 \in Nat /\ at[c] # 0
      /\ at[c] - 1 < LastLink(c) /\ at[c] - 1 <= LastLink(c)
      /\ at[c] - 1 = LastLink(c) - 1 <=> at[c] = LastLink(c)
      /\ at[c] - 1 < LastLink(c) - 1 <=> at[c] < LastLink(c)
      /\ (at[c] - 1 < 3 <=> at[c] <= 3) /\ (at[c] - 1 < 2 <=> at[c] <= 2)
      /\ (at[c] - 1 = 0 <=> at[c] = 1)
      /\ (at[c] - 1 > 3 \/ at[c] - 1 = 3) <=> at[c] > 3
      /\ at[c] = 3 => ~(at[c] > 3)
  BY <1>1
<1>5. /\ at' \in [Calls -> Nat] /\ at'[c] = at[c] - 1 /\ heading'[c] = "out" /\ err'[c] = e
      /\ at[c] = 1 => answer'[c] = e.code
      /\ at[c] # 1 => answer'[c] = answer[c]
      /\ \A d \in Calls : d # c => /\ at'[d] = at[d] /\ heading'[d] = heading[d]
                                   /\ err'[d] = err[d] /\ answer'[d] = answer[d]
  <2>1. /\ at \in [Calls -> Nat] /\ DOMAIN heading = Calls /\ DOMAIN err = Calls
        /\ DOMAIN answer = Calls
    BY Zenon DEF CallTypes
  <2>2. at' \in [Calls -> Nat] /\ at'[c] = at[c] - 1 /\ heading'[c] = "out" /\ err'[c] = e
    BY <1>2, <1>4, <2>1, Zenon
  <2>3. (at[c] = 1 => answer'[c] = e.code) /\ (at[c] # 1 => answer'[c] = answer[c])
    BY <1>2, <2>1, Zenon
  <2>4. \A d \in Calls : d # c => answer'[d] = answer[d]
    BY <1>2, <2>1, Zenon
  <2>5. \A d \in Calls : d # c => /\ at'[d] = at[d] /\ heading'[d] = heading[d]
                                 /\ err'[d] = err[d]
    BY <1>2, <2>1, Zenon
  <2> QED  BY <2>2, <2>3, <2>4, <2>5, Zenon
<1>6. \A d \in Calls : LastLink(d)' = LastLink(d)
  BY Zenon DEF LastLink
<1>7. CallTypes'
  <2>1. at'[c] <= LastLink(c)'
    BY <1>4, <1>5, <1>6, Zenon
  <2>2. ASSUME NEW d \in Calls, d # c PROVE at'[d] <= LastLink(d)'
    <3>1. at[d] <= LastLink(d)
      BY Zenon DEF CallTypes
    <3>2. at'[d] = at[d] /\ LastLink(d)' = LastLink(d)
      BY <1>5, <1>6, <2>2, Zenon
    <3> QED  BY <3>1, <3>2, Zenon
  <2> QED  BY <1>3, <1>5, <2>1, <2>2, Zenon DEF CallTypes
<1>8. answer[c] = "none"
  BY <1>1, <1>4, Zenon DEF CallInv
<1>9. ComingOut(c)'
  <2>1. LastLink(c)' = LastLink(c)
    BY <1>6, Zenon
  <2>2. ASSUME at[c] < LastLink(c) PROVE Mapped(c)'
    <3>1. err'[c].kind \in {"nil", "domain", "status"}
      BY <1>5, <2>2, Zenon
    <3>2. IF raised'[c].kind = "plain" THEN err'[c].code = "Internal" /\ c \in detail'
          ELSE raised'[c].kind # "nil" => err'[c].code = raised'[c].code
      BY <1>5, <2>2, Zenon
    <3> QED  BY <3>1, <3>2, Zenon DEF Mapped
  <2>3. at'[c] < 3 => counted'[c] = err'[c].code
    BY <1>4, <1>5, Zenon
  <2>4. IF at'[c] < 2 THEN access'[c] = err'[c].code ELSE access'[c] = "none"
    BY <1>4, <1>5, Zenon
  <2>5. at'[c] = 0 => answer'[c] = err'[c].code
    BY <1>4, <1>5, Zenon
  <2> HIDE DEF Mapped
  <2> QED  BY <1>4, <1>5, <2>1, <2>2, <2>3, <2>4, <2>5, Zenon DEF ComingOut
<1>10. CallInv(c)'
  <2>1. CASE at[c] = 1
    <3>1. answer'[c] = e.code /\ e.code # "none" /\ at'[c] = 0
      BY <1>2, <1>4, <1>5, <2>1, Known, Zenon
    <3> QED  BY <1>5, <1>9, <3>1, Zenon DEF CallInv
  <2>2. CASE at[c] # 1
    <3>1. answer'[c] = "none" /\ at'[c] # 0
      BY <1>4, <1>5, <1>8, <2>2, Zenon
    <3> QED  BY <1>5, <1>9, <3>1, Zenon DEF CallInv
  <2> QED  BY <2>1, <2>2, Zenon
<1>11. \A d \in Calls : d # c => CallInv(d)'
  BY <1>5, OthersAreLeftAlone, Zenon
<1>12. \A d \in Calls : d # c => (InGauge(d)' <=> InGauge(d))
  BY <1>5, Zenon DEF InGauge
<1>13. InGauge(c)' <=> at[c] > 3
  BY <1>4, <1>5, Zenon DEF InGauge
<1>14. at[c] # 3 => (InGauge(c) <=> at[c] > 3)
  BY Zenon DEF InGauge
<1>15. at[c] = 3 /\ heading[c] = "out" => InGauge(c)
  BY Zenon DEF InGauge
<1>16. at[c] # 3 => Counting' = Counting
  BY <1>12, <1>13, <1>14, GaugeStep, Zenon
<1>17. at[c] = 3 /\ heading[c] = "out" => Counting' = Counting \ {c} /\ c \in Counting
  BY <1>4, <1>12, <1>13, <1>15, GaugeStep, Zenon
<1> QED
  BY <1>7, <1>10, <1>11, <1>16, <1>17, Zenon

LEMMA CountingIsFinite ==
  ASSUME IsFiniteSet(Calls)
  PROVE  IsFiniteSet(Counting) /\ Cardinality(Counting) \in Nat
<1>1. Counting \in SUBSET Calls
  BY Zenon DEF Counting
<1> QED
  BY <1>1, FS_Subset, FS_CardinalityType, Zenon

\* A call that a link refuses on its way in.
LEMMA RefusedStep ==
  ASSUME NEW c \in Calls, NEW e \in [kind : Kinds, code : Codes],
         e.kind \in {"domain", "status"}, RequestsInv, at[c] \in {4, 5}, LastLink(c) = 7,
         heading[c] = "in", ComesOut(c, e),
         UNCHANGED <<call, raised, inflight, counted, access, panicked, detail>>
  PROVE  RequestsInv'
<1>0. /\ CallTypes /\ inflight = Cardinality(Counting)
      /\ \A d \in Calls : CallInv(d)
  BY Zenon DEF RequestsInv
<1>1. c \notin panicked /\ access[c] = "none" /\ raised[c] = NoError
  BY <1>0, Zenon DEF CallInv, GoingIn
<1>2. /\ raised \in [Calls -> HandlerErrors] /\ detail \in SUBSET Calls
      /\ counted \in [Calls -> Codes \cup {"none"}]
      /\ access \in [Calls -> Codes \cup {"none"}]
  BY <1>0, Zenon DEF CallTypes
<1>3. /\ at[c] > 0 /\ at[c] # 3 /\ ~(at[c] <= 3) /\ ~(at[c] <= 2) /\ at[c] # LastLink(c)
      /\ e.kind \in {"nil", "domain", "status"}
  OBVIOUS
<1>4. raised'[c].kind = "nil" /\ raised'[c].kind # "plain" /\ access'[c] = "none"
  BY <1>1, Known, Zenon
<1>5. CallTypes' /\ (\A d \in Calls : CallInv(d)') /\ Counting' = Counting
  BY <1>0, <1>1, <1>2, <1>3, <1>4, ComesOutStep, Zenon
<1> QED
  BY <1>0, <1>5, Zenon DEF RequestsInv

\* A call that passes on, on its way out, an outcome that is mapped already.
LEMMA PassedOnStep ==
  ASSUME NEW c \in Calls, RequestsInv, heading[c] = "out", at[c] > 0, at[c] < LastLink(c) - 1,
         ComesOut(c, err[c]), UNCHANGED <<call, raised, panicked, detail>>,
         counted' \in [Calls -> Codes \cup {"none"}],
         access' \in [Calls -> Codes \cup {"none"}],
         \A d \in Calls : d # c => counted'[d] = counted[d] /\ access'[d] = access[d],
         at[c] = 3 => counted'[c] = err[c].code,
         at[c] # 3 => counted'[c] = counted[c],
         at[c] = 2 => access'[c] = err[c].code,
         at[c] # 2 => access'[c] = access[c]
  PROVE  /\ CallTypes' /\ (\A d \in Calls : CallInv(d)')
         /\ at[c] # 3 => Counting' = Counting
         /\ at[c] = 3 => Counting' = Counting \ {c} /\ c \in Counting
<1> DEFINE e == err[c]
<1>0. CallTypes /\ (\A d \in Calls : CallInv(d)) /\ at[c] \in Nat /\ LastLink(c) \in {5, 7}
  BY Links, Zenon DEF RequestsInv, CallTypes
<1>1. /\ at[c] # 0 /\ at[c] # LastLink(c) /\ at[c] < LastLink(c)
      /\ (at[c] <= 3 <=> at[c] = 3 \/ at[c] < 3) /\ (at[c] <= 2 <=> at[c] = 2 \/ at[c] < 2)
      /\ (at[c] = 2 => at[c] < 3 /\ at[c] # 3 /\ ~(at[c] < 2))
  BY <1>0
<1>2. c \notin panicked
  BY <1>0, <1>1, Zenon DEF CallInv
<1>3. ComingOut(c)
  BY <1>0, <1>2, Zenon DEF CallInv
<1>4. e \in [kind : Kinds, code : Codes] /\ raised \in [Calls -> HandlerErrors]
      /\ detail \in SUBSET Calls
  BY <1>0, Zenon DEF CallTypes
<1>5. /\ e.kind \in {"nil", "domain", "status"}
      /\ IF raised'[c].kind = "plain" THEN e.code = "Internal" /\ c \in detail'
         ELSE raised'[c].kind # "nil" => e.code = raised'[c].code
  BY <1>3, Zenon DEF ComingOut, Mapped
<1>6. at[c] <= 3 => counted'[c] = e.code
  BY <1>1, <1>3, Zenon DEF ComingOut
<1>7. IF at[c] <= 2 THEN access'[c] = e.code ELSE access'[c] = "none"
  BY <1>1, <1>3, Zenon DEF ComingOut
<1>8. ComesOut(c, e)
  OBVIOUS
<1> HIDE DEF e
<1> QED
  BY <1>0, <1>1, <1>2, <1>4, <1>5, <1>6, <1>7, <1>8, ComesOutStep, Zenon

\* The code metrics and the access log write for a mapped outcome is its own.
LEMMA StatusOfMapped ==
  ASSUME NEW c \in Calls, CallTypes, CallInv(c), heading[c] = "out", at[c] > 0,
         at[c] < LastLink(c) - 1
  PROVE  StatusCode(err[c]) = err[c].code /\ err[c].code \in Codes
<1>0. at[c] \in Nat
  BY Zenon DEF CallTypes
<1>1. at[c] # 0
  BY <1>0
<1>2. Mapped(c)
  BY <1>1, Zenon DEF CallInv, ComingOut
<1> QED
  BY <1>2, Zenon DEF StatusCode, Mapped, CallTypes

LEMMA ChainIsKept ==
  ASSUME IsFiniteSet(Calls), RequestsInv, [ChainNext]_chainVars
  PROVE  RequestsInv'
<1> USE DEF inputs, logVars
<1>0. /\ CallTypes /\ inflight = Cardinality(Counting)
      /\ \A d \in Calls : CallInv(d)
  BY Zenon DEF RequestsInv
<1>1. ASSUME NEW c \in Calls, Enter(c) PROVE RequestsInv'
  <2>1. /\ Link(c) \in {"recovery", "logging", "errors"} /\ heading[c] = "in"
        /\ GoesIn(c)
        /\ UNCHANGED <<call, raised, inflight, counted, access, panicked, detail, answer>>
    BY <1>1, Zenon DEF Enter
  <2>2. LastLink(c) \in {5, 7} /\ at[c] \in {1, 2, LastLink(c) - 1}
    BY <1>0, <2>1, Links, Zenon
  <2>3. at[c] < LastLink(c) /\ at[c] # 3
    BY <2>2
  <2>4. CallTypes' /\ (\A d \in Calls : CallInv(d)') /\ Counting' = Counting
    BY <1>0, <2>1, <2>3, GoesInStep, Zenon
  <2> QED
    BY <1>0, <2>1, <2>4, Zenon DEF RequestsInv
<1>2. ASSUME NEW c \in Calls, RequestStarted(c) PROVE RequestsInv'
  <2>1. /\ at[c] = 3 /\ LastLink(c) \in {5, 7} /\ heading[c] = "in" /\ GoesIn(c)
        /\ inflight' = inflight + 1
        /\ UNCHANGED <<call, raised, counted, access, panicked, detail, answer>>
    BY <1>0, <1>2, Links, Zenon DEF RequestStarted
  <2>2. at[c] < LastLink(c)
    BY <2>1
  <2>3. /\ CallTypes' /\ (\A d \in Calls : CallInv(d)')
        /\ Counting' = Counting \cup {c} /\ c \notin Counting
    BY <1>0, <2>1, <2>2, GoesInStep, Zenon
  <2>4. inflight' = Cardinality(Counting')
    BY <1>0, <2>1, <2>3, CountingIsFinite, FS_AddElement, Zenon
  <2> QED
    BY <2>3, <2>4, Zenon DEF RequestsInv
<1>3. ASSUME NEW c \in Calls, APIVersion(c) PROVE RequestsInv'
  <2> DEFINE e == Error("domain", "FailedPrecondition")
  <2>1. /\ at[c] = 4 /\ LastLink(c) = 7 /\ heading[c] = "in"
        /\ UNCHANGED <<call, raised, inflight, counted, access, panicked, detail>>
        /\ \/ GoesIn(c) /\ UNCHANGED answer
           \/ ComesOut(c, e)
    BY <1>0, <1>3, Links, Zenon DEF APIVersion
  <2>2. CASE GoesIn(c) /\ UNCHANGED answer
    <3>1. at[c] < LastLink(c) /\ at[c] # 3
      BY <2>1
    <3>2. CallTypes' /\ (\A d \in Calls : CallInv(d)') /\ Counting' = Counting
      BY <1>0, <2>1, <2>2, <3>1, GoesInStep, Zenon
    <3> QED
      BY <1>0, <2>1, <3>2, Zenon DEF RequestsInv
  <2>3. CASE ComesOut(c, e)
    <3>1. e \in [kind : Kinds, code : Codes] /\ e.kind \in {"domain", "status"}
      BY Zenon DEF Error, Kinds, Codes
    <3> HIDE DEF e
    <3> QED
      BY <2>1, <2>3, <3>1, RefusedStep, Zenon
  <2> QED
    BY <2>1, <2>2, <2>3, Zenon
<1>4. ASSUME NEW c \in Calls, Validate(c) PROVE RequestsInv'
  <2> DEFINE e == Error("status", "InvalidArgument")
  <2>1. /\ at[c] = 5 /\ LastLink(c) = 7 /\ heading[c] = "in"
        /\ UNCHANGED <<call, raised, inflight, counted, access, panicked, detail>>
        /\ \/ GoesIn(c) /\ UNCHANGED answer
           \/ ComesOut(c, e)
    BY <1>0, <1>4, Links, Zenon DEF Validate
  <2>2. CASE GoesIn(c) /\ UNCHANGED answer
    <3>1. at[c] < LastLink(c) /\ at[c] # 3
      BY <2>1
    <3>2. CallTypes' /\ (\A d \in Calls : CallInv(d)') /\ Counting' = Counting
      BY <1>0, <2>1, <2>2, <3>1, GoesInStep, Zenon
    <3> QED
      BY <1>0, <2>1, <3>2, Zenon DEF RequestsInv
  <2>3. CASE ComesOut(c, e)
    <3>1. e \in [kind : Kinds, code : Codes] /\ e.kind \in {"domain", "status"}
      BY Zenon DEF Error, Kinds, Codes
    <3> HIDE DEF e
    <3> QED
      BY <2>1, <2>3, <3>1, RefusedStep, Zenon
  <2> QED
    BY <2>1, <2>2, <2>3, Zenon
<1>5. ASSUME NEW c \in Calls, Handle(c) PROVE RequestsInv'
  <2>1. /\ at[c] = LastLink(c) /\ LastLink(c) \in {5, 7} /\ heading[c] = "in"
        /\ UNCHANGED <<call, inflight, counted, access, panicked, detail>>
    BY <1>0, <1>5, Links, Zenon DEF Handle
  <2>2. PICK e \in HandlerErrors :
               ComesOut(c, e) /\ raised' = [raised EXCEPT ![c] = e]
    BY <1>5, Zenon DEF Handle
  <2>3. c \notin panicked /\ access[c] = "none"
    BY <1>0, <2>1, Zenon DEF CallInv, GoingIn
  <2>4. raised' \in [Calls -> HandlerErrors] /\ raised'[c] = e
        /\ e \in [kind : Kinds, code : Codes]
        /\ \A d \in Calls : d # c => raised'[d] = raised[d]
    BY <1>0, <2>2, Known, Zenon DEF CallTypes
  <2>5. /\ detail' \in SUBSET Calls
        /\ counted' \in [Calls -> Codes \cup {"none"}]
        /\ access' \in [Calls -> Codes \cup {"none"}]
    BY <1>0, <2>1, Zenon DEF CallTypes
  <2>6. /\ at[c] > 0 /\ at[c] # 3 /\ ~(at[c] <= 3) /\ ~(at[c] <= 2) /\ ~(at[c] < LastLink(c))
    BY <2>1
  <2>7. CallTypes' /\ (\A d \in Calls : CallInv(d)') /\ Counting' = Counting
    BY <1>0, <2>1, <2>2, <2>3, <2>4, <2>5, <2>6, ComesOutStep, Zenon
  <2> QED
    BY <1>0, <2>1, <2>7, Zenon DEF RequestsInv
<1>6. ASSUME NEW c \in Calls, Panic(c) PROVE RequestsInv'
  <2>1. /\ Link(c) \in {"api_version", "validate", "errors", "handler"}
        /\ heading[c] = "in" /\ heading' = [heading EXCEPT ![c] = "panic"]
        /\ UNCHANGED <<call, at, err, raised, inflight, counted, access, panicked, detail, answer>>
    BY <1>6, Zenon DEF Panic
  <2>2. at[c] > 3
    <3>1. LastLink(c) \in {5, 7} /\ at[c] \in {4, 5, LastLink(c) - 1, LastLink(c)}
      BY <1>0, <2>1, Links, Zenon
    <3> QED  BY <3>1
  <2>3. CallTypes'
    BY <1>0, <2>1, Zenon DEF CallTypes, LastLink
  <2>4. CallInv(c)'
    BY <1>0, <2>1, <2>2, Zenon DEF CallTypes, CallInv, GoingIn
  <2>5. \A d \in Calls : d # c => CallInv(d)'
    BY <1>0, <2>1, OthersAreLeftAlone, Zenon DEF CallTypes
  <2>6. Counting' = Counting
    <3>1. \A d \in Calls : d # c => (InGauge(d)' <=> InGauge(d))
      BY <1>0, <2>1, Zenon DEF InGauge, CallTypes
    <3>2. InGauge(c)' <=> InGauge(c)
      BY <2>1, <2>2, Zenon DEF InGauge
    <3> QED  BY <3>1, <3>2, GaugeStep, Zenon
  <2> QED
    BY <1>0, <2>1, <2>3, <2>4, <2>5, <2>6, Zenon DEF RequestsInv
<1>7. ASSUME NEW c \in Calls, Errors(c) PROVE RequestsInv'
  <2> DEFINE e == ToStatus(err[c])
  <2>1. /\ at[c] = LastLink(c) - 1 /\ LastLink(c) \in {5, 7} /\ heading[c] = "out"
        /\ ComesOut(c, e)
        /\ detail' = IF LoggedByToStatus(err[c]) THEN detail \cup {c} ELSE detail
        /\ UNCHANGED <<call, raised, inflight, counted, access, panicked>>
    BY <1>0, <1>7, Links, Zenon DEF Errors
  <2>2. /\ at[c] > 0 /\ at[c] # 0 /\ at[c] # 3 /\ ~(at[c] <= 3) /\ ~(at[c] <= 2)
        /\ ~(at[c] < 2) /\ at[c] # LastLink(c)
    BY <2>1
  <2>3. c \notin panicked
    BY <1>0, <2>2, Zenon DEF CallInv
  <2>4. access[c] = "none" /\ err[c] = raised[c] /\ raised[c] \in HandlerErrors
    BY <1>0, <2>1, <2>2, <2>3, Zenon DEF CallInv, ComingOut, CallTypes
  <2>5. /\ e \in [kind : Kinds, code : Codes] /\ e.kind \in {"nil", "domain", "status"}
        /\ IF raised[c].kind = "plain" THEN e.code = "Internal" /\ c \in detail'
           ELSE raised[c].kind # "nil" => e.code = raised[c].code
    BY <2>1, <2>4, ToStatusMaps, Zenon
  <2>6. detail' \in SUBSET Calls /\ \A d \in Calls : d # c => ((d \in detail') = (d \in detail))
    <3>1. detail \in SUBSET Calls /\ (detail' = detail \cup {c} \/ detail' = detail)
      BY <1>0, <2>1, Zenon DEF CallTypes
    <3>2. \A d \in Calls : d # c => (d \in detail' <=> d \in detail)
      BY <3>1, Zenon
    <3> QED  BY <3>1, <3>2
  <2>7. /\ raised' \in [Calls -> HandlerErrors]
        /\ counted' \in [Calls -> Codes \cup {"none"}]
        /\ access' \in [Calls -> Codes \cup {"none"}]
    BY <1>0, <2>1, Zenon DEF CallTypes
  <2> HIDE DEF e
  <2>8. CallTypes' /\ (\A d \in Calls : CallInv(d)') /\ Counting' = Counting
    BY <1>0, <2>1, <2>2, <2>3, <2>4, <2>5, <2>6, <2>7, ComesOutStep, Zenon
  <2> QED
    BY <1>0, <2>1, <2>8, Zenon DEF RequestsInv
<1>8. ASSUME NEW c \in Calls, Leave(c) PROVE RequestsInv'
  <2>1. /\ at[c] \in {1, 4, 5} /\ at[c] < LastLink(c) - 1 /\ heading[c] = "out"
        /\ ComesOut(c, err[c])
        /\ UNCHANGED <<call, raised, inflight, counted, access, panicked, detail>>
    BY <1>0, <1>8, Links, Zenon DEF Leave
  <2>2. at[c] > 0 /\ at[c] # 2 /\ at[c] # 3
    BY <2>1
  <2>3. /\ counted' \in [Calls -> Codes \cup {"none"}]
        /\ access' \in [Calls -> Codes \cup {"none"}]
    BY <1>0, <2>1, Zenon DEF CallTypes
  <2>4. CallTypes' /\ (\A d \in Calls : CallInv(d)') /\ Counting' = Counting
    BY <2>1, <2>2, <2>3, PassedOnStep, Zenon
  <2> QED
    BY <1>0, <2>1, <2>4, Zenon DEF RequestsInv
<1>9. ASSUME NEW c \in Calls, Finish(c) PROVE RequestsInv'
  <2>1. /\ at[c] = 3 /\ at[c] < LastLink(c) - 1 /\ heading[c] = "out" /\ ComesOut(c, err[c])
        /\ inflight' = inflight - 1 /\ counted' = [counted EXCEPT ![c] = StatusCode(err[c])]
        /\ UNCHANGED <<call, raised, access, panicked, detail>>
    BY <1>0, <1>9, Links, Zenon DEF Finish
  <2>2. at[c] > 0 /\ at[c] # 2
    BY <2>1
  <2>3. StatusCode(err[c]) = err[c].code /\ err[c].code \in Codes
    BY <1>0, <2>1, <2>2, StatusOfMapped, Zenon
  <2>4. /\ counted' \in [Calls -> Codes \cup {"none"}]
        /\ access' \in [Calls -> Codes \cup {"none"}] /\ counted'[c] = err[c].code
        /\ \A d \in Calls : d # c => counted'[d] = counted[d]
    BY <1>0, <2>1, <2>3, Zenon DEF CallTypes
  <2>5. /\ CallTypes' /\ (\A d \in Calls : CallInv(d)')
        /\ Counting' = Counting \ {c} /\ c \in Counting
    BY <2>1, <2>2, <2>4, PassedOnStep, Zenon
  <2>6. inflight' = Cardinality(Counting')
    BY <1>0, <2>1, <2>5, CountingIsFinite, FS_RemoveElement, Zenon
  <2> QED
    BY <2>5, <2>6, Zenon DEF RequestsInv
<1>10. ASSUME NEW c \in Calls, writeAccessLog(c) PROVE RequestsInv'
  <2>1. /\ at[c] = 2 /\ at[c] < LastLink(c) - 1 /\ heading[c] = "out" /\ ComesOut(c, err[c])
        /\ access' = [access EXCEPT ![c] = StatusCode(err[c])]
        /\ UNCHANGED <<call, raised, inflight, counted, panicked, detail>>
    BY <1>0, <1>10, Links, Zenon DEF writeAccessLog
  <2>2. at[c] > 0 /\ at[c] # 3
    BY <2>1
  <2>3. StatusCode(err[c]) = err[c].code /\ err[c].code \in Codes
    BY <1>0, <2>1, <2>2, StatusOfMapped, Zenon
  <2>4. /\ access' \in [Calls -> Codes \cup {"none"}]
        /\ counted' \in [Calls -> Codes \cup {"none"}] /\ access'[c] = err[c].code
        /\ \A d \in Calls : d # c => access'[d] = access[d]
    BY <1>0, <2>1, <2>3, Zenon DEF CallTypes
  <2>5. CallTypes' /\ (\A d \in Calls : CallInv(d)') /\ Counting' = Counting
    BY <2>1, <2>2, <2>4, PassedOnStep, Zenon
  <2> QED
    BY <1>0, <2>1, <2>5, Zenon DEF RequestsInv
<1>11. ASSUME NEW c \in Calls, Recover(c) PROVE RequestsInv'
  <2> DEFINE e == Error("status", "Internal")
  <2>1. /\ heading[c] = "panic" /\ panicked' = panicked \cup {c}
        /\ at' = [at EXCEPT ![c] = 0] /\ heading' = [heading EXCEPT ![c] = "out"]
        /\ err' = [err EXCEPT ![c] = e] /\ answer' = [answer EXCEPT ![c] = "Internal"]
        /\ UNCHANGED <<call, raised, inflight, counted, access, detail>>
    <3>1. Position(c, "recovery") = 1
      BY Positions, Zenon
    <3>2. Position(c, "recovery") - 1 = 0
      BY <3>1
    <3> QED
      BY <1>11, <3>1, <3>2, Zenon DEF Recover
  <2>2. at[c] > 3 /\ access[c] = "none"
    BY <1>0, <2>1, Zenon DEF CallInv, GoingIn
  <2>3. e \in [kind : Kinds, code : Codes]
    BY Known, Zenon
  <2> HIDE DEF e
  <2>4. CallTypes'
    <3>1. at' \in [Calls -> Nat] /\ \A d \in Calls : at'[d] <= LastLink(d)'
      BY <1>0, <2>1 DEF CallTypes, LastLink
    <3>2. panicked' \in SUBSET Calls /\ answer' \in [Calls -> Codes \cup {"none"}]
      BY <1>0, <2>1, Known, Zenon DEF CallTypes
    <3> QED
      BY <1>0, <2>1, <2>3, <3>1, <3>2, Zenon DEF CallTypes
  <2>5. CallInv(c)'
    BY <1>0, <2>1, <2>2, Known, Zenon DEF CallTypes, CallInv
  <2>6. ASSUME NEW d \in Calls, d # c
        PROVE  CallInv(d)' /\ (InGauge(d)' <=> InGauge(d))
    <3>1. /\ at'[d] = at[d] /\ heading'[d] = heading[d] /\ err'[d] = err[d]
          /\ answer'[d] = answer[d] /\ (d \in panicked' <=> d \in panicked)
      BY <1>0, <2>1, <2>6, Zenon DEF CallTypes
    <3>2. (d \in panicked') = (d \in panicked)
      BY <3>1
    <3> QED  BY <1>0, <2>1, <2>6, <3>1, <3>2, OthersAreLeftAlone, Zenon DEF InGauge
  <2>7. Counting' = Counting
    <3>1. InGauge(c)' /\ InGauge(c)
      BY <2>1, <2>2, Zenon DEF InGauge
    <3> QED  BY <2>6, <3>1, GaugeStep, Zenon
  <2> QED
    BY <1>0, <2>1, <2>4, <2>5, <2>6, <2>7, Zenon DEF RequestsInv
<1>12. CASE UNCHANGED chainVars
  <2>1. CallTypes' /\ Counting' = Counting /\ inflight' = inflight
    BY <1>0, <1>12, Zenon DEF chainVars, CallTypes, Counting, InGauge, LastLink
  <2>2. \A c \in Calls : CallInv(c)'
    <3> SUFFICES ASSUME NEW c \in Calls  PROVE CallInv(c)'
      BY Zenon
    <3>1. LastLink(c)' = LastLink(c)
      BY <1>12, Zenon DEF chainVars, LastLink
    <3>2. GoingIn(c) => GoingIn(c)'
      BY <1>12, Zenon DEF chainVars, GoingIn
    <3>3. Mapped(c) => Mapped(c)'
      BY <1>12, Zenon DEF chainVars, Mapped
    <3>4. ComingOut(c) => ComingOut(c)'
      BY <1>12, <3>1, <3>3, Zenon DEF chainVars, ComingOut
    <3>5. CallInv(c)
      BY <1>0, Zenon
    <3> QED  BY <1>12, <3>2, <3>4, <3>5, Zenon DEF chainVars, CallInv
  <2> QED
    BY <1>0, <2>1, <2>2, Zenon DEF RequestsInv
<1> QED
  BY <1>1, <1>2, <1>3, <1>4, <1>5, <1>6, <1>7, <1>8, <1>9, <1>10, <1>11, <1>12, Zenon
     DEF ChainNext, Serve

LEMMA ChainHolds == ChainSpec => []RequestsInv
<1>1. RequestsInv /\ [ChainNext]_chainVars => RequestsInv'
  BY ChainIsKept, CallsAssumption, Zenon
<1> QED
  BY <1>1, ChainHoldsAtFirst, PTL DEF ChainSpec

-----------------------------------------------------------------------------
\* The order of the chain, errors inside metrics inside logging: the access line, the
\* counter and the client have the same code, and an undeclared error is INTERNAL.
THEOREM OneCodeForAll == ChainSpec => []CodesAgree
<1>1. RequestsInv => CodesAgree
  <2> SUFFICES ASSUME RequestsInv, NEW c \in Answered \ panicked
               PROVE  /\ access[c] = answer[c] /\ counted[c] = answer[c]
                      /\ IF raised[c].kind = "plain" THEN answer[c] = "Internal" /\ c \in detail
                         ELSE raised[c].kind # "nil" => answer[c] = raised[c].code
    BY Zenon DEF CodesAgree
  <2>1. c \in Calls /\ answer[c] # "none" /\ CallInv(c) /\ CallTypes
    BY Zenon DEF RequestsInv, Answered
  <2>2. at[c] = 0 /\ heading[c] = "out" /\ ComingOut(c)
    <3>1. at[c] = 0 /\ ~(at[c] > 0)
      BY <2>1 DEF CallInv
    <3> QED  BY <2>1, <3>1, Zenon DEF CallInv, GoingIn
  <2>3. at[c] < 2 /\ at[c] < 3 /\ at[c] < LastLink(c) - 1
    <3>1. LastLink(c) \in {5, 7}
      BY <2>1, Links, Zenon
    <3> QED  BY <2>2, <3>1
  <2>4. access[c] = err[c].code /\ counted[c] = err[c].code /\ answer[c] = err[c].code /\ Mapped(c)
    BY <2>2, <2>3, Zenon DEF ComingOut
  <2> QED
    BY <2>4, Zenon DEF Mapped
<1> QED
  BY <1>1, ChainHolds, PTL

\* recovery outermost, logging inside it: a call that returns has an access line and no
\* panic line, a call that panics the reverse.
THEOREM EveryCallLeavesOneLine == ChainSpec => []OneLinePerCall
<1>1. RequestsInv => OneLinePerCall
  <2> SUFFICES ASSUME RequestsInv, NEW c \in Answered
               PROVE  (access[c] # "none") # (c \in panicked)
    BY Zenon DEF OneLinePerCall
  <2>1. c \in Calls /\ answer[c] # "none" /\ CallInv(c) /\ CallTypes
    BY Zenon DEF RequestsInv, Answered
  <2>2. at[c] = 0 /\ at[c] < 2 /\ heading[c] = "out"
    <3>1. at[c] = 0 /\ ~(at[c] > 0) /\ at[c] < 2
      BY <2>1 DEF CallInv
    <3> QED  BY <2>1, <3>1, Zenon DEF CallInv, GoingIn
  <2>3. err[c].code \in Codes
    BY <2>1, Zenon DEF CallTypes
  <2>4. c \in panicked => access[c] = "none"
    BY <2>1, Zenon DEF CallInv
  <2>5. ASSUME c \notin panicked
        PROVE  access[c] = err[c].code
    BY <2>1, <2>2, <2>5, Zenon DEF CallInv, ComingOut
  <2> QED
    BY <2>3, <2>4, <2>5, Known, Zenon
<1> QED
  BY <1>1, ChainHolds, PTL

\* The two halves of the metrics link: while no call has panicked the gauge is the
\* number of calls between them, for any number of calls in any order.  The invariant
\* counts the calls that panicked as well, whose second half never comes.
THEOREM TheGaugeIsExact == ChainSpec => []GaugeIsExact
<1>1. RequestsInv => GaugeIsExact
  BY GaugeCounts, Zenon DEF RequestsInv
<1> QED
  BY <1>1, ChainHolds, PTL
=============================================================================
