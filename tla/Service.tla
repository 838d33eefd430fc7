------------------------------ MODULE Service -------------------------------
(***************************************************************************)
(* The process of a service, from main to its exit: the steps of run and   *)
(* serve, the error reporter, the runner with the components main.go       *)
(* registers, the pool of connections that the outbox worker and the       *)
(* readiness check share, and the HTTP requests: /readyz with its          *)
(* concurrent probes, /v1/ through the gateway to gRPC over loopback, and  *)
(* the routes that need nothing.  Outages come and go.                     *)
(***************************************************************************)
EXTENDS Runner, Services

CONSTANTS
  MaxConns,   \* size of the pool
  MaxOutages  \* bound: how often a dependency stops answering

ASSUME ServiceAssumption ==
  /\ ComponentNames \subseteq Names
  /\ MaxConns \in Nat \ {0} /\ MaxOutages \in Nat

VARIABLES
  phase,     \* "boot", "serve", "flush" or "exit"
  boot,      \* the steps still to take before the runner takes over
  routes,    \* what the HTTP server answers
  rpcs,      \* what the gRPC server answers
  event,     \* the error the process dies of, as Sentry sees it; "off" without a reporter
  died,      \* the step that failed, "run" for the runner, or "none"
  up,        \* the dependencies that answer
  outages,   \* how often one stopped answering
  holders,   \* who holds a connection of the pool
  request,   \* the client's request in flight
  probe,     \* the probes of the readiness check in flight
  seen       \* how each critical dependency was since the check began

bootVars  == <<phase, boot, routes, rpcs, event, died>>
checkVars == <<request, probe, seen>>
serviceVars == <<phase, boot, routes, rpcs, event, died, up, outages, holders,
                 request, probe, seen>>
vars == <<runnerVars, serviceVars>>

-----------------------------------------------------------------------------
(* The checks main.go registers.                                           *)

databaseCheck == [name |-> "postgres", critical |-> TRUE]

cacheCheck  == [name |-> "redis", critical |-> FALSE]
brokerCheck == [name |-> "amqp", critical |-> TRUE]

registry == {databaseCheck, cacheCheck, brokerCheck}

Backends == {"postgres", "redis", "amqp"}
Critical == {check.name : check \in {c \in registry : c.critical}}

Named(name) == {c \in Components : components[c].name = name}
IsClosed(name) == Named(name) \cap asked # {}
Http == Named("http")
Grpc == Named("grpc")

NoProbe == [b \in Backends |-> "none"]
Unseen  == [b \in Critical |-> {}]

TypeOK ==
  /\ RunnerTypeOK
  /\ phase \in {"boot", "serve", "flush", "exit"}
  /\ event \in {"off", "none", "buffered", "sent", "lost"}
  /\ up \subseteq Backends /\ outages \in 0..MaxOutages
  /\ holders \subseteq {"worker", "probe"} /\ Cardinality(holders) <= MaxConns
  /\ request \in {"none", "rpc", "static", "/v1/", "forwarded", "/readyz"}
  /\ probe \in [Backends -> {"none", "pending", "pinging", "up", "down", "busy"}]
  /\ seen \in [Critical -> SUBSET {"up", "down"}]

Init ==
  /\ \E service \in Services :
       /\ RunnerInit(service.components)
       /\ boot = service.boot /\ routes = service.routes /\ rpcs = service.rpcs
  /\ phase = "boot" /\ event = "off" /\ died = "none"
  /\ up = Backends /\ outages = 0 /\ holders = {}
  /\ request = "none" /\ probe = NoProbe /\ seen = Unseen

-----------------------------------------------------------------------------
(* run and serve, before the runner.                                       *)

\* A step that succeeds; the runner takes over after the last.
Goes ==
  /\ boot' = Tail(boot) /\ phase' = IF Tail(boot) = << >> THEN "serve" ELSE "boot"
  /\ UNCHANGED died

\* log.Error reaches every writer of the logger, and the reporter's makes it an event.
Log == event' = IF event = "off" THEN "off" ELSE "buffered"

Dies(next_phase) == phase' = next_phase /\ died' = Head(boot) /\ UNCHANGED boot

Taking(step) ==
  /\ phase = "boot" /\ boot # << >> /\ Head(boot) = step
  /\ UNCHANGED <<runnerVars, routes, rpcs, up, outages, holders, checkVars>>

\* A configuration that does not validate ends the process before there is a reporter.
config_Load == Taking("config") /\ (Goes \/ Dies("exit")) /\ UNCHANGED event

\* An empty DSN disables the reporter; one that does not parse ends the process.
sentry_Setup ==
  /\ Taking("reporter")
  /\ \/ Goes /\ event' \in {"off", "none"}
     \/ Dies("exit") /\ UNCHANGED event

\* Migrations are applied if asked for; what fails is returned, not logged.  With
\* -migrate the process ends here.
database_Migrate ==
  /\ Taking("migrate") /\ UNCHANGED event
  /\ \/ Goes
     \/ phase' = "flush" /\ boot' = Tail(boot) /\ UNCHANGED died
     \/ Dies("flush")

\* The steps of serve: run logs the error that serve returns.
Opens(step, ok) == Taking(step) /\ IF ok THEN Goes /\ UNCHANGED event ELSE Dies("flush") /\ Log

tracing_Setup    == \E ok \in BOOLEAN : Opens("tracing", ok)
database_Connect == Opens("database", "postgres" \in up)
NewRedis         == Opens("cache", "redis" \in up)
amqp_Connect     == Opens("broker", "amqp" \in up)
NewPublisher     == Opens("publisher", "amqp" \in up)
LoadKeySet       == \E ok \in BOOLEAN : Opens("keys", ok)
grpc_Listen      == \E ok \in BOOLEAN : Opens("grpc", ok)
http_Listen      == \E ok \in BOOLEAN : Opens("http", ok)

Boot ==
  \/ config_Load \/ sentry_Setup \/ database_Migrate
  \/ tracing_Setup \/ database_Connect \/ NewRedis \/ amqp_Connect \/ NewPublisher
  \/ LoadKeySet \/ grpc_Listen \/ http_Listen

\* runner.Run returned.
ServeEnds ==
  /\ phase = "serve" /\ run = "returned"
  /\ phase' = "flush"
  /\ IF reported THEN died' = "run" /\ Log ELSE UNCHANGED <<died, event>>
  /\ UNCHANGED <<runnerVars, boot, routes, rpcs, up, outages, holders, checkVars>>

\* The deferred reporter.Close sends what is buffered, or gives up after its timeout.
Flush ==
  /\ phase = "flush" /\ phase' = "exit"
  /\ IF event = "buffered" THEN event' \in {"sent", "lost"} ELSE event' = event
  /\ UNCHANGED <<runnerVars, boot, routes, rpcs, died, up, outages, holders, checkVars>>

-----------------------------------------------------------------------------
(* Outages.  The pool and the Redis client dial again; nothing reopens the *)
(* connection to the broker.  They begin before the shutdown does.         *)

Checking == request = "/readyz"
Sees(b, how) == seen' = IF Checking /\ b \in Critical THEN [seen EXCEPT ![b] = @ \cup {how}] ELSE seen

Outage(b) ==
  /\ phase \in {"boot", "serve"} /\ ~group /\ b \in up /\ outages < MaxOutages
  /\ up' = up \ {b} /\ outages' = outages + 1 /\ Sees(b, "down")
  /\ UNCHANGED <<runnerVars, bootVars, holders, request, probe>>

Recover(b) ==
  /\ phase \in {"boot", "serve"} /\ b \in {"postgres", "redis"} \ up
  /\ up' = up \cup {b} /\ Sees(b, "up")
  /\ UNCHANGED <<runnerVars, bootVars, outages, holders, request, probe>>

-----------------------------------------------------------------------------
(* The outbox worker's statements, on the pool.                            *)

PoolHasRoom == Cardinality(holders) < MaxConns

WorkerQueries ==
  /\ \E w \in Named("outbox-worker") : start[w] = "running"
  /\ ~group /\ ~IsClosed("database") /\ "worker" \notin holders /\ PoolHasRoom
  /\ holders' = holders \cup {"worker"}
  /\ UNCHANGED <<runnerVars, bootVars, up, outages, checkVars>>

\* The statement ends, with the group's context at the latest.
WorkerReleases ==
  /\ "worker" \in holders /\ holders' = holders \ {"worker"}
  /\ UNCHANGED <<runnerVars, bootVars, up, outages, checkVars>>

-----------------------------------------------------------------------------
(* Requests, one client at a time.                                         *)

Kind(path) == IF path \in {"/readyz", "/v1/"} THEN path ELSE "static"

AcceptHTTP(path) ==
  /\ request = "none" /\ path \in routes /\ \E t \in Http : Accept(t)
  /\ request' = Kind(path)
  /\ IF path = "/readyz"
     THEN /\ probe' = [b \in Backends |-> "pending"]
          /\ seen' = [b \in Critical |-> IF b \in up THEN {"up"} ELSE {"down"}]
     ELSE UNCHANGED <<probe, seen>>
  /\ UNCHANGED <<bootVars, up, outages, holders>>

\* The container's healthcheck, the binary probing its own /livez.
Healthcheck == AcceptHTTP("/livez")

\* A static route answers, and the gateway answers without having reached gRPC.
RespondHTTP ==
  /\ request \in {"static", "/v1/"} /\ request' = "none" /\ \E t \in Http : Respond(t)
  /\ UNCHANGED <<bootVars, up, outages, holders, probe, seen>>

\* The gateway's call to gRPC, and its answer on both servers.
Forward ==
  /\ request = "/v1/" /\ "HealthPing" \in rpcs /\ request' = "forwarded" /\ \E g \in Grpc : Accept(g)
  /\ UNCHANGED <<bootVars, up, outages, holders, probe, seen>>

ForwardReturns ==
  /\ request = "forwarded" /\ request' = "/v1/" /\ \E g \in Grpc : Respond(g)
  /\ UNCHANGED <<bootVars, up, outages, holders, probe, seen>>

\* A client's own call to gRPC.
AcceptGRPC ==
  /\ request = "none" /\ rpcs # {} /\ request' = "rpc" /\ \E g \in Grpc : Accept(g)
  /\ UNCHANGED <<bootVars, up, outages, holders, probe, seen>>

RespondGRPC ==
  /\ request = "rpc" /\ request' = "none" /\ \E g \in Grpc : Respond(g)
  /\ UNCHANGED <<bootVars, up, outages, holders, probe, seen>>

-----------------------------------------------------------------------------
(* The readiness check.  Registry.Check runs the probes concurrently, each *)
(* under its own timeout, waits for all of them and decides.               *)

Answers(b, result) == probe' = [probe EXCEPT ![b] = result]

\* db.Ping takes a connection; it finds none within its time, or the pool closed.
Acquire ==
  /\ probe["postgres"] = "pending" /\ ~IsClosed("database") /\ PoolHasRoom
  /\ holders' = holders \cup {"probe"} /\ Answers("postgres", "pinging")
  /\ UNCHANGED <<runnerVars, bootVars, up, outages, request, seen>>

\* Mutant of AcquireFails: the probe has no timeout.
AcquireForever ==
  /\ probe["postgres"] = "pending" /\ IsClosed("database")
  /\ Answers("postgres", "busy")
  /\ UNCHANGED <<runnerVars, bootVars, up, outages, holders, request, seen>>

AcquireFails ==
  /\ probe["postgres"] = "pending" /\ (IsClosed("database") \/ ~PoolHasRoom)
  /\ Answers("postgres", "busy")
  /\ UNCHANGED <<runnerVars, bootVars, up, outages, holders, request, seen>>

\* ... and gives it back, whatever the answer.
PingPostgres ==
  /\ probe["postgres"] = "pinging"
  /\ Answers("postgres", IF "postgres" \in up THEN "up" ELSE "down")
  /\ holders' = holders \ {"probe"}
  /\ UNCHANGED <<runnerVars, bootVars, up, outages, request, seen>>

PingRedis ==
  /\ probe["redis"] = "pending"
  /\ Answers("redis", IF "redis" \in up /\ ~IsClosed("cache") THEN "up" ELSE "down")
  /\ UNCHANGED <<runnerVars, bootVars, up, outages, holders, request, seen>>

\* Connection.Ping only looks at the state the library keeps.
PingBroker ==
  /\ probe["amqp"] = "pending"
  /\ Answers("amqp", IF "amqp" \in up /\ ~IsClosed("broker") THEN "up" ELSE "down")
  /\ UNCHANGED <<runnerVars, bootVars, up, outages, holders, request, seen>>

\* Mutant of Answered: Check does not wait for the probes.
NobodyWaits == Checking

\* wg.Wait.
Answered == Checking /\ \A b \in Backends : probe[b] \in {"up", "down", "busy"}

\* Report.Status: only a critical dependency that is down takes the service out.
Ready == ~ \E check \in registry : check.critical /\ probe[check.name] \in {"down", "busy"}

\* ReadinessHandler writes 200 or 503.
RespondReadyz ==
  /\ Answered
  /\ \E t \in Http : Respond(t)
  /\ request' = "none" /\ probe' = NoProbe /\ seen' = Unseen
  /\ UNCHANGED <<bootVars, up, outages, holders>>

-----------------------------------------------------------------------------
(* The runner, over these components.                                      *)

\* db.Close waits for every connection to come back, and has no error to return.
PoolDrained ==
  closed' # closed /\ components[next].name = "database" => holders = {} /\ unclean' = unclean

\* A check ends within the timeout of its probes, 2 s, and the budget of the shutdown
\* is 15 s: no server gives up on one.
BudgetLasts == Checking => unclean' \cap Http = {}

RunStep ==
  /\ phase = "serve" /\ Shutdown /\ PoolDrained /\ BudgetLasts
  /\ UNCHANGED serviceVars

\* The worker does not return in the middle of a statement.
GoroutineStep(c) ==
  /\ phase = "serve" /\ Goroutine(c)
  /\ c \in Named("outbox-worker") => "worker" \notin holders
  /\ UNCHANGED serviceVars

Happens ==
  /\ phase = "serve"
  /\ Spawn \/ Signal \/ \E c \in Components : Fail(c)
  /\ UNCHANGED serviceVars

\* Requests and probes die with the process.
Client ==
  /\ phase = "serve"
  /\ \/ Healthcheck \/ \E path \in routes \ {"/livez"} : AcceptHTTP(path)
     \/ RespondHTTP \/ Forward \/ ForwardReturns \/ AcceptGRPC \/ RespondGRPC

Check ==
  /\ phase = "serve"
  /\ Acquire \/ AcquireFails \/ PingPostgres \/ PingRedis \/ PingBroker \/ RespondReadyz

Next ==
  \/ Boot \/ ServeEnds \/ Flush
  \/ RunStep \/ Happens \/ \E c \in Components : GoroutineStep(c)
  \/ \E b \in Backends : Outage(b) \/ Recover(b)
  \/ WorkerQueries \/ WorkerReleases
  \/ Client \/ Check

\* Connection.Close waits for the broker to answer, first for the channel and then for
\* the connection; the context of the shutdown is not passed on to it.
BrokerCloses == run = "shutdown" /\ components[next].name = "broker"

\* Every goroutine runs again: Run, the components, the probes under their timeouts,
\* the worker's statement under its context.  Clients, signals, failures, outages,
\* recoveries and the broker's answer to Connection.Close owe nothing.  One formula
\* serves for Run and the components, since each takes finitely many steps.
Fairness ==
  /\ WF_vars(\/ ServeEnds \/ Flush \/ (RunStep /\ ~BrokerCloses)
             \/ \E c \in Components : GoroutineStep(c))
  /\ WF_vars(WorkerReleases)
  /\ WF_vars(Check)

Spec == Init /\ [][Next]_vars /\ Fairness

-----------------------------------------------------------------------------
(* Properties.                                                             *)

\* What a request of each transport may still need: the probes of /readyz use the
\* dependencies, /v1/ is answered by gRPC, and every span ends in the exporter.
Needs(t) ==
  CASE components[t].name = "grpc" -> {"tracing", "database", "cache", "broker"}
    [] components[t].name = "http" -> {"tracing", "database", "cache", "broker"}
                                      \cup (IF "/v1/" \in routes THEN {"grpc"} ELSE {})

\* "Dependencies first, transports last, so the transports drain before what they
\* depend on closes": nothing a request in flight needs is stopped, unless its
\* server gave up on it.
RequestsKeepTheirDependencies ==
  \A t \in Transports : requests[t] > 0 =>
    t \in unclean \/ \A d \in asked : components[d].name \notin Needs(t)

\* /readyz says ready only if every critical dependency answered at some point of the
\* check: a probe that has not returned does not count as up.  It takes the service
\* out of rotation only because Postgres or the broker was down during the check, or
\* the pool had no connection for the probe: Redis alone never does, and neither does
\* a shutdown that begins meanwhile.
ReadinessIsHonest ==
  Answered =>
    IF Ready THEN \A b \in {"postgres", "amqp"} : "up" \in seen[b]
    ELSE probe["postgres"] = "busy" \/ \E b \in {"postgres", "amqp"} : "down" \in seen[b]

\* "Logged before it is returned, so the reporter sees it", and "a context canceled by
\* the signal is the normal exit": given a reporter, the process leaves an event if and
\* only if a step of serve, a component or the stop of one failed.  It says nothing of a
\* migration that failed, whose error run returns without logging it.
FailuresAreReported ==
  phase = "exit" /\ event # "off" /\ died # "migrate" =>
    (event \in {"sent", "lost"} <=>
       \/ died \notin {"none", "run"}
       \/ unclean # {}
       \/ \E c \in Starters : start[c] = "failed")

\* A signal, or a component that dies, takes the process down to the end, whatever
\* holds the pool and whatever is in flight; Connection.Close alone, which waits for the
\* broker without a limit, may keep it for ever.
TheProcessEnds ==
  (group \/ \E c \in Starters : start[c] = "failed") ~> (phase = "exit" \/ []BrokerCloses)

\* Every readiness check is answered, also when the pool has no connection to give,
\* unless the process ends first.
ChecksAreAnswered == Checking ~> ~Checking \/ phase = "exit"
=============================================================================
