--------------------------- MODULE ServiceProofs ----------------------------
(***************************************************************************)
(* For any sequence of components a runner stops them in reverse order,    *)
(* all of them, returns when no goroutine is left and reports exactly what *)
(* failed.  The process of a service is a runner over the components of    *)
(* its main.go with more going on around it, so all of that holds of it;   *)
(* main.go registers every component after what it needs, the reporter     *)
(* sees exactly the failures, and /readyz says what the probes saw.        *)
(***************************************************************************)
EXTENDS Service, TLAPS

-----------------------------------------------------------------------------
(* The runner.                                                             *)

\* How far the shutdown is, in terms of what was asked to stop and what has stopped.
Progress ==
  /\ run \in {"idle", "blocked"} => asked = {} /\ closed = {}
  /\ run = "shutdown" =>
       /\ next \in Stoppers
       /\ \A s \in Stoppers : (s \in asked <=> s >= next) /\ (s \in closed <=> s > next)
  /\ run \in {"waiting", "returned"} => asked = Stoppers /\ closed = Stoppers
  /\ run = "returned" => \A c \in Starters : start[c] \in Returned

\* A server that has stopped has no requests but those it gave up on.
Drained == \A c \in closed : requests[c] > 0 => c \in unclean

RunnerInv == RunnerTypeOK /\ Progress /\ Drained

\* The components are a function on 1..Len, and numbers from there are indices.
LEMMA Indices ==
  ASSUME RunnerTypeOK
  PROVE  /\ Len(components) \in Nat /\ Components = 1..Len(components)
         /\ Starters \subseteq Components /\ Stoppers \subseteq Components
         /\ Transports = Starters \cap Stoppers
BY DEF RunnerTypeOK, Components, Starters, Stoppers, Transports

\* What is registered is in place, and nothing has happened.
LEMMA InitEstablishes ==
  ASSUME NEW registered \in Seq(Registered), RunnerInit(registered)
  PROVE  RunnerInv
<1>1. RunnerTypeOK
  <2>1. components \in Seq(Registered) /\ Len(components) \in Nat
    BY DEF RunnerInit
  <2>2. start \in [Components -> StartState] /\ requests \in [Components -> Nat]
    BY Zenon DEF RunnerInit, Components, StartState
  <2>3. asked = {} /\ closed = {} /\ unclean = {} /\ next = 0 /\ run \in RunState
    BY Zenon DEF RunnerInit, RunState
  <2>4. failed \in BOOLEAN /\ group \in BOOLEAN /\ reported \in BOOLEAN
    BY Zenon DEF RunnerInit
  <2> QED  BY <2>1, <2>2, <2>3, <2>4 DEF RunnerTypeOK
<1>2. Progress /\ Drained
  BY Zenon DEF RunnerInit, Progress, Drained
<1> QED  BY <1>1, <1>2, Zenon DEF RunnerInv

\* The loop of shutdown, from a component all of whose successors have stopped.
LEMMA AdvanceKeeps ==
  ASSUME RunnerTypeOK, NEW c \in 1..Len(components) + 1, NEW n \in 0..Len(components),
         Reaches(c, n), UNCHANGED <<components, groupVars>>, closed' \subseteq Stoppers,
         \A s \in Stoppers : (s \in asked <=> s >= c) /\ (s \in closed' <=> s >= c)
  PROVE  /\ next' \in 0..Len(components) /\ run' \in {"shutdown", "waiting"}
         /\ asked' \subseteq Stoppers /\ closed' \subseteq asked'
         /\ Progress'
<1>1. Components' = Components /\ Stoppers' = Stoppers /\ Starters' = Starters
  BY Zenon DEF Components, Stoppers, Starters
<1>2. /\ n \in Stoppers \cup {0} /\ n < c /\ \A s \in Stoppers : s < c => s <= n
      /\ next' = n /\ asked' = asked \cup ({n} \ {0})
      /\ run' = IF n = 0 THEN "waiting" ELSE "shutdown"
  BY Zenon DEF Reaches
<1>3. Stoppers \subseteq 1..Len(components) /\ Len(components) \in Nat
  BY Indices, Zenon
<1>4. CASE n = 0
  <2>1. \A s \in Stoppers : s >= c
    BY <1>2, <1>3, <1>4
  <2>2. asked = Stoppers /\ closed' = Stoppers
    BY <2>1, Zenon DEF RunnerTypeOK
  <2>3. asked' = Stoppers /\ run' = "waiting"
    BY <1>2, <1>4, <2>2, Zenon
  <2> QED  BY <1>1, <1>2, <2>2, <2>3, Zenon DEF Progress
<1>5. CASE n # 0
  <2>1. n \in Stoppers /\ run' = "shutdown" /\ next' = n
    BY <1>2, <1>5, Zenon
  <2>2. \A s \in Stoppers : (s \in asked' <=> s >= n) /\ (s \in closed' <=> s > n)
    BY <1>2, <1>3, <2>1
  <2>3. asked' \subseteq Stoppers
    BY <1>2, <2>1, Zenon DEF RunnerTypeOK
  <2>4. closed' \subseteq asked'
    BY <1>3, <2>1, <2>2
  <2> QED  BY <1>1, <1>2, <2>1, <2>2, <2>3, <2>4, Zenon DEF Progress
<1> QED  BY <1>4, <1>5, Zenon

LEMMA StepPreserves ==
  ASSUME RunnerInv, [RunnerNext]_runnerVars
  PROVE  RunnerInv'
<1> USE DEF RunnerInv
<1>0. /\ Len(components) \in Nat /\ Components = 1..Len(components)
      /\ Starters \subseteq Components /\ Stoppers \subseteq Components
      /\ Transports = Starters \cap Stoppers
  BY Indices
<1>u. CASE UNCHANGED runnerVars
  BY <1>u, Zenon DEF runnerVars, RunnerTypeOK, Progress, Drained, Components, Starters, Stoppers
<1>1. CASE Spawn
  BY <1>0, <1>1, Zenon DEF Spawn, RunnerTypeOK, Progress, Drained, Components, Starters, Stoppers,
     Transports, StartState, RunState, Returned
<1>2. CASE Signal
  BY <1>2, Zenon DEF Signal, runVars, RunnerTypeOK, Progress, Drained, Components, Starters, Stoppers
<1>3. ASSUME NEW c \in Components, Goroutine(c) \/ Fail(c)  PROVE RunnerInv'
  <2>1. /\ start[c] \notin Returned /\ start' \in [Components -> StartState]
        /\ start' = [start EXCEPT ![c] = start'[c]]
        /\ failed' \in BOOLEAN /\ group' \in BOOLEAN
        /\ UNCHANGED <<components, runVars, requests>>
    BY <1>0, <1>3, Zenon DEF Goroutine, Fail, Begin, WorkerStops, ServeReturns, Return, RunnerTypeOK,
       StartState, Returned
  <2>2. c \in Starters
    BY <1>0, <1>3, Zenon DEF Goroutine, Fail, Begin, WorkerStops, ServeReturns
  <2>3. run # "returned"
    BY <2>1, <2>2, Zenon DEF Progress
  <2>4. Components' = Components /\ Starters' = Starters /\ Stoppers' = Stoppers
    BY <2>1, Zenon DEF Components, Starters, Stoppers
  <2> QED  BY <2>1, <2>3, <2>4, Zenon DEF runVars, RunnerTypeOK, Progress, Drained
<1>4. ASSUME NEW c \in Components, Accept(c) \/ Respond(c)  PROVE RunnerInv'
  <2>1. /\ UNCHANGED <<components, groupVars, runVars>>
        /\ requests' \in [Components -> Nat]
        /\ \A d \in Components \ {c} : requests'[d] = requests[d]
    BY <1>4 DEF Accept, Respond, RunnerTypeOK
  <2>2. c \in closed => requests'[c] <= requests[c] /\ requests[c] > 0
    BY <1>4 DEF Accept, Respond, Serving, RunnerTypeOK
  <2>3. Components' = Components /\ Starters' = Starters /\ Stoppers' = Stoppers
    BY <2>1, Zenon DEF Components, Starters, Stoppers
  <2>4. RunnerTypeOK'
    BY <2>1, <2>3, Zenon DEF groupVars, runVars, RunnerTypeOK
  <2>5. Progress'
    BY <2>1, <2>3, Zenon DEF groupVars, runVars, Progress
  <2>6. Drained'
    BY <1>0, <2>1, <2>2, Zenon DEF runVars, Drained, RunnerTypeOK
  <2> QED  BY <2>4, <2>5, <2>6, Zenon
<1>5. CASE BeginShutdown
  <2>1. PICK n \in 0..Len(components) : Reaches(Len(components) + 1, n)
    BY <1>5, Zenon DEF BeginShutdown, Advances
  <2>2. asked = {} /\ closed = {} /\ closed' = {} /\ unclean = {} /\ unclean' = {}
    BY <1>5, Zenon DEF BeginShutdown, Progress, RunnerTypeOK
  <2>3. \A s \in Stoppers : ~(s >= Len(components) + 1)
    BY <1>0
  <2>4. UNCHANGED <<components, groupVars, unclean, requests, reported>>
    BY <1>5, Zenon DEF BeginShutdown
  <2>5. /\ next' \in 0..Len(components) /\ run' \in {"shutdown", "waiting"}
        /\ asked' \subseteq Stoppers /\ closed' \subseteq asked' /\ Progress'
    BY <1>0, <2>1, <2>2, <2>3, <2>4, AdvanceKeeps
  <2>6. Components' = Components /\ Stoppers' = Stoppers
    BY <2>4, Zenon DEF Components, Stoppers
  <2> QED  BY <2>2, <2>4, <2>5, <2>6, Zenon DEF groupVars, RunnerTypeOK, Drained, RunState
<1>6. CASE StopReturns \/ StopFails
  <2>1. PICK n \in 0..Len(components) : Reaches(next, n)
    BY <1>6, Zenon DEF StopReturns, StopFails, Advances
  <2>2. /\ run = "shutdown" /\ closed' = closed \cup {next}
        /\ UNCHANGED <<components, groupVars, requests, reported>>
    BY <1>6, Zenon DEF StopReturns, StopFails
  <2>3. /\ next \in Stoppers
        /\ \A s \in Stoppers : (s \in asked <=> s >= next) /\ (s \in closed <=> s > next)
    BY <2>2, Zenon DEF Progress
  <2>4. closed' \subseteq Stoppers /\ \A s \in Stoppers : s \in closed' <=> s >= next
    BY <1>0, <2>2, <2>3 DEF RunnerTypeOK
  <2>5. /\ next' \in 0..Len(components) /\ run' \in {"shutdown", "waiting"}
        /\ asked' \subseteq Stoppers /\ closed' \subseteq asked' /\ Progress'
    BY <1>0, <2>1, <2>2, <2>3, <2>4, AdvanceKeeps
  <2>6. /\ unclean' \subseteq closed' /\ unclean \subseteq unclean'
        /\ requests[next] > 0 => next \in unclean'
    <3>1. requests[next] \in Nat /\ unclean \subseteq closed
      BY <1>0, <2>3, Zenon DEF RunnerTypeOK
    <3>2. CASE StopReturns
      BY <2>2, <3>1, <3>2 DEF StopReturns
    <3>3. CASE StopFails
      BY <2>2, <3>1, <3>3, Zenon DEF StopFails
    <3> QED  BY <1>6, <3>2, <3>3, Zenon
  <2>7. Components' = Components /\ Stoppers' = Stoppers
    BY <2>2, Zenon DEF Components, Stoppers
  <2>8. Drained'
    BY <2>2, <2>6, Zenon DEF Drained
  <2> QED  BY <2>2, <2>5, <2>6, <2>7, <2>8, Zenon DEF groupVars, RunnerTypeOK, RunState
<1>7. CASE Wait
  BY <1>0, <1>7, Zenon DEF Wait, groupVars, RunnerTypeOK, Progress, Drained, Components, Starters,
     Stoppers, RunState
<1> QED
  BY <1>u, <1>1, <1>2, <1>3, <1>4, <1>5, <1>6, <1>7, Zenon DEF RunnerNext, Shutdown

\* Every behaviour of a runner keeps the invariant, whatever is registered with it.
THEOREM RunnerInvariant == RunnerSpec => []RunnerInv
<1>1. (\E registered \in Seq(Registered) : RunnerInit(registered)) => RunnerInv
  BY InitEstablishes, Zenon
<1>2. RunnerInv /\ [RunnerNext]_runnerVars => RunnerInv'
  BY StepPreserves, Zenon
<1> QED  BY <1>1, <1>2, PTL DEF RunnerSpec

\* Run (runner.go) returns only when every Stop has returned and every Start too.
THEOREM RunnerStopsEverything == RunnerSpec => []NothingIsLeftRunning
<1>1. RunnerInv => NothingIsLeftRunning
  BY Zenon DEF RunnerInv, Progress, NothingIsLeftRunning
<1> QED  BY <1>1, RunnerInvariant, PTL

\* shutdown (runner.go) stops a component when those registered after it are drained.
THEOREM RunnerDrainsInOrder == RunnerSpec => []DrainsInOrder
<1>1. RunnerInv => DrainsInOrder
  <2> SUFFICES ASSUME RunnerInv, NEW d \in asked, NEW c \in Stoppers, c > d
               PROVE  c \in closed
    BY Zenon DEF DrainsInOrder, RunnerInv, Drained
  <2>1. Stoppers \subseteq 1..Len(components) /\ Len(components) \in Nat /\ d \in Stoppers
    BY Indices, Zenon DEF RunnerInv, RunnerTypeOK
  <2>2. CASE run = "shutdown"
    <3>1. /\ next \in Stoppers
          /\ \A s \in Stoppers : (s \in asked <=> s >= next) /\ (s \in closed <=> s > next)
      BY <2>2, Zenon DEF RunnerInv, Progress
    <3>2. d >= next
      BY <2>1, <3>1, Zenon
    <3>3. c > next
      BY <2>1, <3>1, <3>2
    <3> QED  BY <3>1, <3>3, Zenon
  <2>3. CASE run # "shutdown"
    BY <2>3, Zenon DEF RunnerInv, RunnerTypeOK, RunState, Progress
  <2> QED  BY <2>2, <2>3, Zenon
<1> QED  BY <1>1, RunnerInvariant, PTL

-----------------------------------------------------------------------------
(* The wiring.                                                             *)

\* The two shapes the registrations of the five main.go have.
WithGRPC ==
  << Dependency("tracing"), Dependency("database"), Dependency("cache"), Dependency("broker"),
     Worker("outbox-worker"), Transport("grpc"), Transport("http") >>

WithoutGRPC ==
  << Dependency("tracing"), Dependency("database"), Dependency("cache"), Dependency("broker"),
     Worker("outbox-worker"), Transport("http") >>

Wiring == components = WithGRPC \/ components = WithoutGRPC

\* Every main.go registers components of these shapes, in one of these orders.
LEMMA ServicesAreWired ==
  /\ WithGRPC \in Seq(Registered) /\ WithoutGRPC \in Seq(Registered)
  /\ \A service \in Services :
       service.components = WithGRPC \/ service.components = WithoutGRPC
<1>1. \A name \in ComponentNames : /\ Dependency(name) \in Registered
                                   /\ Worker(name) \in Registered
                                   /\ Transport(name) \in Registered
  BY ServiceAssumption, Zenon DEF Dependency, Worker, Transport, Registered
<1>2. \A a, b, c, d, e, f \in Registered : <<a, b, c, d, e, f>> \in Seq(Registered)
  OBVIOUS
<1>3. \A a, b, c, d, e, f, g \in Registered : <<a, b, c, d, e, f, g>> \in Seq(Registered)
  OBVIOUS
<1>4. WithGRPC \in Seq(Registered) /\ WithoutGRPC \in Seq(Registered)
  <2>1. WithGRPC \in Seq(Registered)
    BY <1>1, <1>3, Zenon DEF WithGRPC, ComponentNames
  <2>2. WithoutGRPC \in Seq(Registered)
    BY <1>1, <1>2, Zenon DEF WithoutGRPC, ComponentNames
  <2> QED  BY <2>1, <2>2, Zenon
<1>5. \A service \in Services :
        service.components = WithGRPC \/ service.components = WithoutGRPC
  BY DEF Services, WithGRPC, WithoutGRPC, IdentityRunner, ToursRunner, BookingRunner,
     AdminRunner, MailDispatcherRunner
<1> QED  BY <1>4, <1>5, Zenon

\* Only the servers are transports, and they are registered last, HTTP after gRPC.
LEMMA WiringIsOrdered ==
  ASSUME Wiring, NEW t \in Transports, NEW d \in Components, components[d].name \in Needs(t)
  PROVE  d < t
<1>1. CASE components = WithGRPC
  <2>1. Components = 1..7 /\ Transports \subseteq {6, 7}
    BY <1>1 DEF WithGRPC, Components, Transports, Starters, Stoppers, Dependency, Worker, Transport
  <2>2. CASE t = 6
    <3>1. components[t].name = "grpc"
      BY <1>1, <2>2, Zenon DEF WithGRPC, Transport
    <3>2. components[d].name \in {"tracing", "database", "cache", "broker"}
      BY <3>1, Zenon DEF Needs
    <3> QED  BY <1>1, <2>1, <2>2, <3>2 DEF WithGRPC, Dependency, Worker, Transport
  <2>3. CASE t = 7
    <3>1. components[t].name = "http"
      BY <1>1, <2>3, Zenon DEF WithGRPC, Transport
    <3>2. components[d].name \in {"tracing", "database", "cache", "broker", "grpc"}
      BY <3>1, Zenon DEF Needs
    <3> QED  BY <1>1, <2>1, <2>3, <3>2 DEF WithGRPC, Dependency, Worker, Transport
  <2> QED  BY <2>1, <2>2, <2>3, Zenon
<1>2. CASE components = WithoutGRPC
  <2>1. Components = 1..6 /\ Transports \subseteq {6}
    BY <1>2 DEF WithoutGRPC, Components, Transports, Starters, Stoppers, Dependency, Worker,
       Transport
  <2>2. components[t].name = "http"
    BY <1>2, <2>1 DEF WithoutGRPC, Transport
  <2>3. components[d].name \in {"tracing", "database", "cache", "broker", "grpc"}
    BY <2>2, Zenon DEF Needs
  <2> QED  BY <1>2, <2>1, <2>3 DEF WithoutGRPC, Dependency, Worker, Transport
<1> QED  BY <1>1, <1>2, Zenon DEF Wiring

-----------------------------------------------------------------------------
(* The process.                                                            *)

LEMMA StartsAsARunner ==
  ASSUME Init
  PROVE  Wiring /\ \E registered \in Seq(Registered) : RunnerInit(registered)
<1>1. PICK service \in Services : RunnerInit(service.components)
  BY Zenon DEF Init
<1>2. service.components = WithGRPC \/ service.components = WithoutGRPC
  BY ServicesAreWired, Zenon
<1>3. service.components \in Seq(Registered)
  BY <1>2, ServicesAreWired, Zenon
<1>4. Wiring
  BY <1>1, <1>2, Zenon DEF RunnerInit, Wiring
<1> QED  BY <1>1, <1>3, <1>4, Zenon

LEMMA StepsAsARunner ==
  ASSUME Next
  PROVE  [RunnerNext]_runnerVars
<1>1. CASE Boot
  BY <1>1, Zenon DEF Boot, config_Load, sentry_Setup, database_Migrate, tracing_Setup, database_Connect,
     NewRedis, amqp_Connect, NewPublisher, LoadKeySet, grpc_Listen, http_Listen, Opens, Taking
<1>2. CASE ServeEnds \/ Flush
  BY <1>2, Zenon DEF ServeEnds, Flush
<1>3. CASE RunStep
  BY <1>3, Zenon DEF RunStep, RunnerNext
<1>4. CASE Happens
  BY <1>4, Zenon DEF Happens, RunnerNext
<1>5. ASSUME NEW c \in Components, GoroutineStep(c)  PROVE [RunnerNext]_runnerVars
  BY <1>5, Zenon DEF GoroutineStep, RunnerNext
<1>6. CASE \E b \in Backends : Outage(b) \/ Recover(b)
  BY <1>6, Zenon DEF Outage, Recover
<1>7. CASE WorkerQueries \/ WorkerReleases
  BY <1>7, Zenon DEF WorkerQueries, WorkerReleases
<1>8. CASE Healthcheck \/ \E path \in routes \ {"/livez"} : AcceptHTTP(path)
  BY <1>8, Zenon DEF Healthcheck, AcceptHTTP, Http, Named, RunnerNext
<1>9. CASE RespondHTTP \/ Forward \/ ForwardReturns \/ AcceptGRPC \/ RespondGRPC
  BY <1>9, Zenon DEF RespondHTTP, Forward, ForwardReturns, AcceptGRPC, RespondGRPC, Http, Grpc, Named,
     RunnerNext
<1>10. CASE Check
  <2>1. CASE RespondReadyz
    BY <2>1, Zenon DEF RespondReadyz, Http, Named, RunnerNext
  <2>2. CASE Acquire \/ AcquireFails \/ PingPostgres \/ PingRedis \/ PingBroker
    BY <2>2, Zenon DEF Acquire, AcquireFails, PingPostgres, PingRedis, PingBroker
  <2> QED  BY <1>10, <2>1, <2>2, Zenon DEF Check
<1> QED
  BY <1>1, <1>2, <1>3, <1>4, <1>5, <1>6, <1>7, <1>8, <1>9, <1>10, Zenon DEF Next, Client

\* What is registered is never changed while it runs.
LEMMA StepsKeepTheComponents ==
  ASSUME [RunnerNext]_runnerVars
  PROVE  UNCHANGED components
BY Zenon DEF RunnerNext, runnerVars, Spawn, Signal, Shutdown, BeginShutdown, StopReturns, StopFails,
   Wait, Goroutine, Begin, WorkerStops, ServeReturns, Return, Fail, Accept, Respond

\* The process of each main.go is a runner: serve, the reporter, the probes and the
\* requests take no step that a Runner (runner.go) does not allow.
THEOREM ServiceIsARunner == Spec => RunnerSpec
<1>1. Init => \E registered \in Seq(Registered) : RunnerInit(registered)
  BY StartsAsARunner, Zenon
<1>2. [Next]_vars => [RunnerNext]_runnerVars
  BY StepsAsARunner, Zenon DEF vars
<1> QED  BY <1>1, <1>2, PTL DEF Spec, RunnerSpec

\* When Run returns in a process of any of the services, nothing is left running.
THEOREM ServiceStopsEverything == Spec => []NothingIsLeftRunning
BY ServiceIsARunner, RunnerStopsEverything, PTL

\* No service stops a dependency under a request, unless its server gave up on it:
\* serve (main.go) registers the dependencies first and the transports last.
THEOREM ServiceKeepsDependencies == Spec => []RequestsKeepTheirDependencies
<1>1. Init => Wiring
  BY StartsAsARunner, Zenon
<1>2. Wiring /\ [Next]_vars => Wiring'
  <2> SUFFICES ASSUME Wiring, [Next]_vars  PROVE Wiring'
    BY Zenon
  <2>1. [RunnerNext]_runnerVars
    BY StepsAsARunner, Zenon DEF vars
  <2> QED  BY <2>1, StepsKeepTheComponents, Zenon DEF Wiring
<1>3. RunnerInv /\ DrainsInOrder /\ Wiring => RequestsKeepTheirDependencies
  <2> SUFFICES ASSUME RunnerInv, DrainsInOrder, Wiring,
                      NEW t \in Transports, requests[t] > 0, t \notin unclean,
                      NEW d \in asked, components[d].name \in Needs(t)
               PROVE  FALSE
    BY Zenon DEF RequestsKeepTheirDependencies
  <2>1. d \in Stoppers /\ d \in Components /\ t \in Stoppers
    BY Zenon DEF RunnerInv, RunnerTypeOK, Stoppers, Transports
  <2>2. d < t /\ Components = 1..Len(components) /\ Len(components) \in Nat
    BY <2>1, WiringIsOrdered, Indices, Zenon DEF RunnerInv
  <2>3. t > d
    BY <2>1, <2>2, Zenon DEF Stoppers
  <2> QED  BY <2>1, <2>3, Zenon DEF DrainsInOrder
<1> QED
  BY <1>1, <1>2, <1>3, ServiceIsARunner, RunnerInvariant, RunnerDrainsInOrder, PTL DEF Spec
-----------------------------------------------------------------------------
(* What the process reports.                                               *)

\* Run's verdict: the group's error is that some Start failed, and what Run returns is
\* that error or that of a Stop.
Verdict ==
  /\ failed <=> \E c \in Starters : start[c] = "failed"
  /\ run = "idle" => unclean = {} /\ \A c \in Components : start[c] = "absent"
  /\ run = "returned" => reported = (failed \/ unclean # {})

LEMMA VerdictAtFirst ==
  ASSUME NEW registered \in Seq(Registered), RunnerInit(registered)
  PROVE  Verdict
BY Zenon DEF RunnerInit, Verdict, Starters, Components

LEMMA VerdictStep ==
  ASSUME RunnerInv, Verdict, [RunnerNext]_runnerVars
  PROVE  Verdict'
<1> USE DEF Verdict
<1>0. /\ Components' = Components /\ Starters' = Starters /\ Starters \subseteq Components
      /\ Transports \subseteq Starters /\ start \in [Components -> StartState]
  BY StepsKeepTheComponents, Zenon DEF Components, Starters, Transports, RunnerInv, RunnerTypeOK
<1>1. CASE UNCHANGED runnerVars
  BY <1>0, <1>1, Zenon DEF runnerVars
<1>2. CASE Spawn
  BY <1>0, <1>2, Zenon DEF Spawn
<1>3. CASE Signal
  BY <1>0, <1>3, Zenon DEF Signal, runVars
<1>4. ASSUME NEW c \in Components, Goroutine(c) \/ Fail(c)  PROVE Verdict'
  <2>1. c \in Starters /\ start[c] \in {"spawned", "running"} /\ UNCHANGED runVars
    BY <1>0, <1>4, Zenon DEF Goroutine, Fail, Begin, WorkerStops, ServeReturns, Return
  <2>2. run # "returned" /\ run # "idle"
    BY <1>0, <2>1, Zenon DEF RunnerInv, Progress, Returned
  <2>3. \/ failed' = failed /\ \E r \in {"running", "ok"} : start' = [start EXCEPT ![c] = r]
        \/ failed' = TRUE /\ start' = [start EXCEPT ![c] = "failed"]
    <3>1. failed \in BOOLEAN
      BY Zenon DEF RunnerInv, RunnerTypeOK
    <3> QED  BY <1>4, <3>1, Zenon DEF Goroutine, Fail, Begin, WorkerStops, ServeReturns, Return
  <2>4. CASE failed' = failed /\ \E r \in {"running", "ok"} : start' = [start EXCEPT ![c] = r]
    BY <1>0, <2>1, <2>2, <2>4, Zenon DEF runVars
  <2>5. CASE failed' = TRUE /\ start' = [start EXCEPT ![c] = "failed"]
    BY <1>0, <2>1, <2>2, <2>5, Zenon DEF runVars
  <2> QED  BY <2>3, <2>4, <2>5, Zenon
<1>5. ASSUME NEW c \in Components, Accept(c) \/ Respond(c)  PROVE Verdict'
  BY <1>0, <1>5 DEF Accept, Respond, groupVars, runVars
<1>6. CASE BeginShutdown \/ StopReturns \/ StopFails
  <2>1. UNCHANGED groupVars /\ run' \in {"shutdown", "waiting"}
    BY <1>6, Zenon DEF BeginShutdown, StopReturns, StopFails, Advances, Reaches
  <2> QED  BY <1>0, <2>1, Zenon DEF groupVars
<1>7. CASE Wait
  BY <1>0, <1>7, Zenon DEF Wait, groupVars
<1> QED
  BY <1>1, <1>2, <1>3, <1>4, <1>5, <1>6, <1>7, Zenon DEF RunnerNext, Shutdown

\* The steps of run and serve; the process dies of the first two without a reporter.
BootSteps == {"config", "reporter", "migrate", "tracing", "database", "cache", "broker",
              "publisher", "keys", "grpc", "http"}
Unreported == {"config", "reporter"}

\* The reporter is set up right after the configuration, and before anything else.
InBootOrder(steps) ==
  \A i, j \in 1..Len(steps) : i < j /\ steps[j] \in Unreported => steps[i] = "config"
ReporterIsUp(steps) == \A i \in 1..Len(steps) : steps[i] \notin Unreported

LEMMA BootsAreOrdered ==
  ASSUME NEW service \in Services
  PROVE  /\ service.boot \in Seq(BootSteps) /\ service.boot # << >>
         /\ InBootOrder(service.boot)
<1> DEFINE long == << "config", "reporter", "migrate", "tracing", "database", "cache", "broker",
                      "publisher", "keys", "grpc", "http" >>
           short == << "config", "reporter", "migrate", "tracing", "database", "cache", "broker",
                       "publisher", "keys", "http" >>
<1>1. service.boot = long \/ service.boot = short
  BY DEF Services, IdentityBoot, ToursBoot, BookingBoot, AdminBoot, MailDispatcherBoot
<1>2. long \in Seq(BootSteps) /\ long # << >> /\ InBootOrder(long)
  BY DEF BootSteps, InBootOrder, Unreported
<1>3. short \in Seq(BootSteps) /\ short # << >> /\ InBootOrder(short)
  BY DEF BootSteps, InBootOrder, Unreported
<1> QED  BY <1>1, <1>2, <1>3, Zenon

LEMMA TailsAreOrdered ==
  ASSUME NEW steps \in Seq(BootSteps), steps # << >>, InBootOrder(steps)
  PROVE  /\ Tail(steps) \in Seq(BootSteps) /\ InBootOrder(Tail(steps))
         /\ Head(steps) # "config" \/ ReporterIsUp(steps) => ReporterIsUp(Tail(steps))
<1>1. /\ Tail(steps) \in Seq(BootSteps) /\ Len(Tail(steps)) = Len(steps) - 1
      /\ Len(steps) \in Nat \ {0} /\ Head(steps) = steps[1]
      /\ \A i \in 1..Len(Tail(steps)) : Tail(steps)[i] = steps[i + 1]
  OBVIOUS
<1>2. \A i \in 1..Len(Tail(steps)) : i + 1 \in 1..Len(steps) /\ 1 \in 1..Len(steps) /\ 1 < i + 1
  BY <1>1
<1>3. InBootOrder(Tail(steps))
  BY <1>1, <1>2 DEF InBootOrder
<1>4. ASSUME Head(steps) # "config" \/ ReporterIsUp(steps)  PROVE ReporterIsUp(Tail(steps))
  BY <1>1, <1>2, <1>4, Zenon DEF InBootOrder, ReporterIsUp
<1> QED  BY <1>1, <1>3, <1>4, Zenon

\* What an event is owed for.
Failure ==
  \/ died \notin {"none", "migrate", "run"} \/ unclean # {}
  \/ \E c \in Starters : start[c] = "failed"

\* No step that has a reporter fails unnoticed, and none is noticed that did not fail.
ReportInv ==
  /\ phase \in {"boot", "serve", "flush", "exit"}
  /\ phase = "boot" =>
       /\ run = "idle" /\ died = "none" /\ event \in {"off", "none"}
       /\ boot \in Seq(BootSteps) /\ boot # << >> /\ InBootOrder(boot)
       /\ event = "none" => ReporterIsUp(boot)
  /\ phase = "serve" => died = "none" /\ event \in {"off", "none"}
  /\ phase = "flush" => \/ event = "off"
                        \/ event = "none" /\ ~Failure
                        \/ event = "buffered" /\ Failure
  /\ phase = "exit"  => \/ event = "off"
                        \/ event = "none" /\ ~Failure
                        \/ event \in {"sent", "lost"} /\ Failure

LEMMA ReportAtFirst == Init => ReportInv
<1> SUFFICES ASSUME Init  PROVE ReportInv
  BY Zenon
<1>1. PICK service \in Services : RunnerInit(service.components) /\ boot = service.boot
  BY Zenon DEF Init
<1>2. run = "idle" /\ phase = "boot" /\ event = "off" /\ died = "none"
  BY <1>1, Zenon DEF Init, RunnerInit
<1> QED  BY <1>1, <1>2, BootsAreOrdered, Zenon DEF ReportInv

\* A step of run or serve succeeds.
LEMMA GoesStep ==
  ASSUME ReportInv, phase = "boot", Goes, UNCHANGED run, event' \in {"off", "none"},
         event' = "none" => Head(boot) # "config" \/ ReporterIsUp(boot)
  PROVE  ReportInv'
<1>1. /\ Tail(boot) \in Seq(BootSteps) /\ InBootOrder(Tail(boot))
      /\ event' = "none" => ReporterIsUp(Tail(boot))
  BY TailsAreOrdered, Zenon DEF ReportInv
<1>2. /\ boot' = Tail(boot) /\ died' = died
      /\ phase' = IF Tail(boot) = << >> THEN "serve" ELSE "boot"
  BY Zenon DEF Goes
<1>3. run = "idle" /\ died = "none"
  BY Zenon DEF ReportInv
<1> QED  BY <1>1, <1>2, <1>3, Zenon DEF ReportInv

\* A step of serve succeeds, or fails and is logged.
LEMMA OpensStep ==
  ASSUME ReportInv, Verdict, NEW step \in BootSteps \ {"config", "reporter", "migrate"},
         NEW ok, Opens(step, ok)
  PROVE  ReportInv'
<1>1. phase = "boot" /\ boot # << >> /\ Head(boot) = step /\ UNCHANGED runnerVars
  BY Zenon DEF Opens, Taking
<1>2. run = "idle" /\ UNCHANGED <<run, unclean, start, components>> /\ event \in {"off", "none"}
  BY <1>1, Zenon DEF ReportInv, runnerVars
<1>3. CASE Goes /\ UNCHANGED event
  BY <1>1, <1>2, <1>3, GoesStep, Zenon DEF ReportInv
<1>4. CASE Dies("flush") /\ Log
  <2>1. phase' = "flush" /\ died' = step /\ event' = IF event = "off" THEN "off" ELSE "buffered"
    BY <1>1, <1>4, Zenon DEF Dies, Log
  <2>2. step \notin {"none", "migrate", "run"}
    BY Zenon DEF BootSteps
  <2>3. Failure'
    BY <2>1, <2>2, Zenon DEF Failure
  <2> QED  BY <1>2, <2>1, <2>3, Zenon DEF ReportInv
<1> QED  BY <1>3, <1>4, Zenon DEF Opens

LEMMA ReportStep ==
  ASSUME RunnerInv, Verdict, ReportInv, [Next]_vars
  PROVE  ReportInv'
<1>0. UNCHANGED components
  BY StepsAsARunner, StepsKeepTheComponents, Zenon DEF vars
<1>1. CASE config_Load
  <2>1. phase = "boot" /\ Head(boot) = "config" /\ UNCHANGED <<runnerVars, event>>
    BY <1>1, Zenon DEF config_Load, Taking
  <2>2. event = "off" /\ UNCHANGED run
    <3>1. Len(boot) \in Nat \ {0} /\ boot[1] = "config"
      BY <2>1 DEF ReportInv
    <3>2. ~ReporterIsUp(boot)
      BY <3>1 DEF ReporterIsUp, Unreported
    <3> QED  BY <2>1, <3>2, Zenon DEF ReportInv, runnerVars
  <2>3. CASE Goes
    BY <2>1, <2>2, <2>3, GoesStep, Zenon
  <2>4. CASE Dies("exit")
    BY <2>1, <2>2, <2>4, Zenon DEF Dies, ReportInv
  <2> QED  BY <1>1, <2>3, <2>4, Zenon DEF config_Load
<1>2. CASE sentry_Setup
  <2>1. phase = "boot" /\ Head(boot) = "reporter" /\ UNCHANGED runnerVars
    BY <1>2, Zenon DEF sentry_Setup, Taking
  <2>2. event = "off" /\ UNCHANGED run
    <3>1. Len(boot) \in Nat \ {0} /\ boot[1] = "reporter"
      BY <2>1 DEF ReportInv
    <3>2. ~ReporterIsUp(boot)
      BY <3>1 DEF ReporterIsUp, Unreported
    <3> QED  BY <2>1, <3>2, Zenon DEF ReportInv, runnerVars
  <2>3. CASE Goes /\ event' \in {"off", "none"}
    BY <2>1, <2>2, <2>3, GoesStep, Zenon
  <2>4. CASE Dies("exit") /\ UNCHANGED event
    BY <2>1, <2>2, <2>4, Zenon DEF Dies, ReportInv
  <2> QED  BY <1>2, <2>3, <2>4, Zenon DEF sentry_Setup
<1>3. CASE database_Migrate
  <2>1. /\ phase = "boot" /\ Head(boot) = "migrate" /\ UNCHANGED <<runnerVars, event>>
        /\ run = "idle" /\ died = "none" /\ event \in {"off", "none"}
    BY <1>3, Zenon DEF database_Migrate, Taking, ReportInv
  <2>2. UNCHANGED <<run, unclean, start, components>>
    BY <2>1, Zenon DEF runnerVars
  <2>3. CASE Goes
    BY <2>1, <2>2, <2>3, GoesStep, Zenon
  <2>4. CASE phase' = "flush" /\ died' \in {"none", "migrate"}
    <3>1. ~Failure'
      BY <2>1, <2>2, <2>4, Zenon DEF Verdict, Failure, Starters, Components
    <3> QED  BY <2>1, <2>4, <3>1, Zenon DEF ReportInv
  <2>5. Goes \/ (phase' = "flush" /\ died' \in {"none", "migrate"})
    BY <1>3, <2>1, Zenon DEF database_Migrate, Dies
  <2> QED  BY <2>3, <2>4, <2>5, Zenon
<1>4. ASSUME NEW step \in BootSteps \ {"config", "reporter", "migrate"}, NEW ok, Opens(step, ok)
      PROVE  ReportInv'
  BY <1>4, OpensStep, Zenon
<1>5. CASE Boot
  <2>0. {"tracing", "database", "cache", "broker", "publisher", "keys", "grpc", "http"}
          \subseteq BootSteps \ {"config", "reporter", "migrate"}
    BY Zenon DEF BootSteps
  <2>1. CASE tracing_Setup
    BY <1>4, <2>0, <2>1, Zenon DEF tracing_Setup
  <2>2. CASE database_Connect
    BY <1>4, <2>0, <2>2, Zenon DEF database_Connect
  <2>3. CASE NewRedis
    BY <1>4, <2>0, <2>3, Zenon DEF NewRedis
  <2>4. CASE amqp_Connect
    BY <1>4, <2>0, <2>4, Zenon DEF amqp_Connect
  <2>5. CASE NewPublisher
    BY <1>4, <2>0, <2>5, Zenon DEF NewPublisher
  <2>6. CASE LoadKeySet
    BY <1>4, <2>0, <2>6, Zenon DEF LoadKeySet
  <2>7. CASE grpc_Listen
    BY <1>4, <2>0, <2>7, Zenon DEF grpc_Listen
  <2>8. CASE http_Listen
    BY <1>4, <2>0, <2>8, Zenon DEF http_Listen
  <2> QED
    BY <1>1, <1>2, <1>3, <1>5, <2>1, <2>2, <2>3, <2>4, <2>5, <2>6, <2>7, <2>8, Zenon DEF Boot
<1>6. CASE ServeEnds
  <2>1. /\ phase = "serve" /\ phase' = "flush" /\ run = "returned" /\ UNCHANGED runnerVars
        /\ died = "none" /\ event \in {"off", "none"}
        /\ IF reported THEN died' = "run" /\ Log ELSE UNCHANGED <<died, event>>
    BY <1>6, Zenon DEF ServeEnds, ReportInv
  <2>2. UNCHANGED <<unclean, start, components>> /\ Starters' = Starters
    BY <2>1, Zenon DEF runnerVars, Starters, Components
  <2>3. reported <=> Failure'
    BY <2>1, <2>2, Zenon DEF Verdict, Failure
  <2> QED  BY <2>1, <2>3, Zenon DEF ReportInv, Log
<1>7. CASE Flush
  <2>1. UNCHANGED <<unclean, start, components, died>>
    BY <1>7, Zenon DEF Flush, runnerVars
  <2>2. Failure' <=> Failure
    BY <2>1, Zenon DEF Failure, Starters, Components
  <2> QED  BY <1>7, <2>2, Zenon DEF Flush, ReportInv
<1>8. CASE RunStep \/ Happens \/ (\E c \in Components : GoroutineStep(c)) \/ Client \/ Check
  <2>1. phase = "serve" /\ UNCHANGED bootVars
    BY <1>8, Zenon DEF RunStep, Happens, GoroutineStep, Client, Check, serviceVars, bootVars, Healthcheck,
       AcceptHTTP, RespondHTTP, Forward, ForwardReturns, AcceptGRPC, RespondGRPC, Acquire,
       AcquireFails, PingPostgres, PingRedis, PingBroker, RespondReadyz
  <2> QED  BY <2>1, Zenon DEF ReportInv, bootVars
<1>9. CASE (\E b \in Backends : Outage(b) \/ Recover(b)) \/ WorkerQueries \/ WorkerReleases
           \/ UNCHANGED vars
  <2>1. UNCHANGED bootVars /\ UNCHANGED runnerVars
    BY <1>9, Zenon DEF Outage, Recover, WorkerQueries, WorkerReleases, vars, serviceVars, bootVars
  <2>2. UNCHANGED <<phase, boot, event, died, run, unclean, start, components>>
    BY <2>1, Zenon DEF bootVars, runnerVars
  <2>3. Failure' <=> Failure
    BY <2>2, Zenon DEF Failure, Starters, Components
  <2> QED  BY <2>2, <2>3, Zenon DEF ReportInv
<1> QED  BY <1>5, <1>6, <1>7, <1>8, <1>9, Zenon DEF Next

LEMMA ProcessInvariant == Spec => [](RunnerInv /\ Wiring /\ Verdict /\ ReportInv)
<1>1. Init => Wiring /\ Verdict /\ ReportInv
  BY StartsAsARunner, VerdictAtFirst, ReportAtFirst, Zenon
<1>2. RunnerInv /\ Wiring /\ Verdict /\ ReportInv /\ [Next]_vars => Wiring' /\ Verdict' /\ ReportInv'
  <2> SUFFICES ASSUME RunnerInv, Wiring, Verdict, ReportInv, [Next]_vars
               PROVE  Wiring' /\ Verdict' /\ ReportInv'
    BY Zenon
  <2>1. [RunnerNext]_runnerVars
    BY StepsAsARunner, Zenon DEF vars
  <2> QED  BY <2>1, StepsKeepTheComponents, VerdictStep, ReportStep, Zenon DEF Wiring
<1> QED  BY <1>1, <1>2, ServiceIsARunner, RunnerInvariant, PTL DEF Spec

\* run (main.go) logs what serve returns before it returns it: with a reporter, the
\* process leaves an event exactly when a step of serve, a component or a Stop failed
\* (a migration that failed aside).
THEOREM ExactlyTheFailuresAreReported == Spec => []FailuresAreReported
<1>1. ReportInv => FailuresAreReported
  BY Zenon DEF ReportInv, FailuresAreReported, Failure
<1> QED  BY <1>1, ProcessInvariant, PTL
-----------------------------------------------------------------------------
(* What /readyz says.                                                      *)

\* A check is a request in flight on a server that does not give up on it, so nothing
\* it probes is closed meanwhile; since it began each critical dependency was seen as it
\* is now, and as its probe found it.
CheckInv ==
  /\ probe \in [Backends -> {"none", "pending", "pinging", "up", "down", "busy"}]
  /\ seen \in [Critical -> SUBSET {"up", "down"}] /\ probe["amqp"] # "busy"
  /\ Checking =>
       /\ \E t \in Http : t \in Transports /\ requests[t] > 0 /\ t \notin unclean
       /\ \A b \in Critical :
            /\ (IF b \in up THEN "up" ELSE "down") \in seen[b]
            /\ probe[b] \in {"up", "down"} => probe[b] \in seen[b]

LEMMA CriticalDependencies == Critical = {"postgres", "amqp"}
<1>1. {c \in registry : c.critical} = {databaseCheck, brokerCheck}
  BY DEF registry, databaseCheck, cacheCheck, brokerCheck
<1>2. databaseCheck.name = "postgres" /\ brokerCheck.name = "amqp"
  BY Zenon DEF databaseCheck, brokerCheck
<1>3. Critical = {check.name : check \in {databaseCheck, brokerCheck}}
  BY <1>1, Zenon DEF Critical
<1>4. Critical = {databaseCheck.name, brokerCheck.name}
  BY <1>3, Zenon
<1> QED  BY <1>2, <1>4, Zenon

LEMMA CheckAtFirst == Init => CheckInv
<1> SUFFICES ASSUME Init  PROVE CheckInv
  BY Zenon
<1>1. seen \in [Critical -> SUBSET {"up", "down"}]
  BY Zenon DEF Init, Unseen
<1>2. /\ probe \in [Backends -> {"none", "pending", "pinging", "up", "down", "busy"}]
      /\ probe["amqp"] # "busy" /\ ~Checking
  BY Zenon DEF Init, NoProbe, Backends, Checking
<1> QED  BY <1>1, <1>2, Zenon DEF CheckInv

\* The broker is not closed under a check.
LEMMA BrokerIsOpen ==
  ASSUME CheckInv, RequestsKeepTheirDependencies, Checking
  PROVE  ~IsClosed("broker")
<1>1. PICK t \in Http : t \in Transports /\ requests[t] > 0 /\ t \notin unclean
  BY Zenon DEF CheckInv
<1>2. components[t].name = "http"
  BY Zenon DEF Http, Named
<1>3. "broker" \in Needs(t)
  BY <1>2, Zenon DEF Needs
<1>4. \A d \in asked : components[d].name \notin Needs(t)
  BY <1>1, Zenon DEF RequestsKeepTheirDependencies
<1> QED  BY <1>3, <1>4, Zenon DEF IsClosed, Named

\* A probe answers; nothing else moves.
LEMMA ProbeStep ==
  ASSUME CheckInv, NEW b \in Backends, NEW how \in {"pinging", "up", "down", "busy"}, Answers(b, how),
         UNCHANGED <<runnerVars, up, request, seen>>, b = "amqp" => how # "busy",
         Checking /\ how = "up" => b \in up,
         Checking /\ how = "down" /\ b # "redis" => b \notin up
  PROVE  CheckInv'
<1>1. probe' = [probe EXCEPT ![b] = how]
  BY Zenon DEF Answers
<1>2. /\ probe' \in [Backends -> {"none", "pending", "pinging", "up", "down", "busy"}]
      /\ probe'[b] = how /\ \A a \in Backends : a # b => probe'[a] = probe[a]
  BY <1>1, Zenon DEF CheckInv
<1>3. /\ Http' = Http /\ Transports' = Transports /\ requests' = requests /\ unclean' = unclean
      /\ Checking' = Checking /\ seen' = seen /\ up' = up
  BY Zenon DEF runnerVars, Http, Named, Components, Transports, Starters, Stoppers, Checking
<1>4. probe'["amqp"] # "busy" /\ "amqp" \in Backends
  BY <1>2, Zenon DEF CheckInv, Backends
<1>5. ASSUME Checking, NEW a \in Critical
      PROVE  /\ (IF a \in up THEN "up" ELSE "down") \in seen[a]
             /\ probe'[a] \in {"up", "down"} => probe'[a] \in seen[a]
  <2>1. a \in Backends /\ a # "redis"
    BY <1>5, CriticalDependencies, Zenon DEF Backends
  <2>2. /\ (IF a \in up THEN "up" ELSE "down") \in seen[a]
        /\ probe[a] \in {"up", "down"} => probe[a] \in seen[a]
    BY <1>5, Zenon DEF CheckInv
  <2>3. CASE a = b
    BY <1>2, <1>5, <2>1, <2>2, <2>3, Zenon
  <2>4. CASE a # b
    BY <1>2, <2>1, <2>2, <2>4, Zenon
  <2> QED  BY <2>3, <2>4, Zenon
<1>6. Checking => \E t \in Http : t \in Transports /\ requests[t] > 0 /\ t \notin unclean
  BY Zenon DEF CheckInv
<1>7. seen' \in [Critical -> SUBSET {"up", "down"}]
  BY <1>3, Zenon DEF CheckInv
<1> QED  BY <1>2, <1>3, <1>4, <1>5, <1>6, <1>7, Zenon DEF CheckInv

LEMMA CheckStep ==
  ASSUME RunnerInv, RequestsKeepTheirDependencies, CheckInv, [Next]_vars
  PROVE  CheckInv'
<1>0. /\ Http' = Http /\ Transports' = Transports /\ Components' = Components
  BY StepsAsARunner, StepsKeepTheComponents, Zenon
     DEF vars, Http, Named, Components, Transports, Starters, Stoppers
<1>1. ASSUME UNCHANGED <<probe, seen, up>>,
             Checking' => Checking /\ UNCHANGED requests /\ (unclean' = unclean \/ unclean' \cap Http = {})
      PROVE  CheckInv'
  <2>1. Checking' => \E t \in Http : t \in Transports /\ requests'[t] > 0 /\ t \notin unclean'
    BY <1>1, Zenon DEF CheckInv
  <2> QED  BY <1>0, <1>1, <2>1, Zenon DEF CheckInv
<1>2. CASE Boot \/ ServeEnds \/ Flush \/ WorkerQueries \/ WorkerReleases \/ UNCHANGED vars
  <2>1. UNCHANGED <<runnerVars, up, request, probe, seen>>
    BY <1>2, Zenon DEF Boot, config_Load, sentry_Setup, database_Migrate, tracing_Setup, database_Connect,
       NewRedis, amqp_Connect, NewPublisher, LoadKeySet, grpc_Listen, http_Listen, Opens, Taking,
       ServeEnds, Flush, WorkerQueries, WorkerReleases, checkVars, vars, serviceVars
  <2> QED  BY <1>1, <2>1, Zenon DEF runnerVars, Checking
<1>3. CASE RunStep
  <2>1. UNCHANGED <<up, request, probe, seen, requests>> /\ BudgetLasts
    BY <1>3, Zenon DEF RunStep, serviceVars, Shutdown, BeginShutdown, StopReturns, StopFails, Wait
  <2> QED  BY <1>1, <2>1, Zenon DEF BudgetLasts, Checking
<1>4. CASE Happens \/ \E c \in Components : GoroutineStep(c)
  <2>1. UNCHANGED <<up, request, probe, seen, requests, unclean>>
    BY <1>4, Zenon DEF Happens, GoroutineStep, serviceVars, Spawn, Signal, Fail, Goroutine, Begin,
       WorkerStops, ServeReturns, Return, runVars
  <2> QED  BY <1>1, <2>1, Zenon DEF Checking
<1>5. ASSUME NEW b \in Backends, NEW how \in {"up", "down"}, Sees(b, how),
             up' = (IF how = "up" THEN up \cup {b} ELSE up \ {b}),
             UNCHANGED <<runnerVars, request, probe>>
      PROVE  CheckInv'
  <2>1. /\ seen' \in [Critical -> SUBSET {"up", "down"}] /\ \A a \in Critical : seen[a] \subseteq seen'[a]
        /\ Checking /\ b \in Critical => how \in seen'[b]
    BY <1>5, Zenon DEF Sees, CheckInv
  <2>2. \A a \in Critical : a # b => (a \in up' <=> a \in up)
    BY <1>5, Zenon
  <2>3. b \in up' <=> how = "up"
    BY <1>5, Zenon
  <2>4. ASSUME Checking, NEW a \in Critical
        PROVE  (IF a \in up' THEN "up" ELSE "down") \in seen'[a]
    <3>1. CASE a = b
      BY <1>5, <2>1, <2>3, <2>4, <3>1, Zenon
    <3>2. CASE a # b
      BY <2>1, <2>2, <2>4, <3>2, Zenon DEF CheckInv
    <3> QED  BY <3>1, <3>2, Zenon
  <2>5. \A a \in Critical : Checking /\ probe[a] \in {"up", "down"} => probe[a] \in seen'[a]
    BY <2>1, Zenon DEF CheckInv
  <2>6. UNCHANGED <<probe, requests, unclean>> /\ Checking' = Checking
    BY <1>5, Zenon DEF runnerVars, Checking
  <2> QED  BY <1>0, <2>1, <2>4, <2>5, <2>6, Zenon DEF CheckInv
<1>6. ASSUME NEW b \in Backends, Outage(b) \/ Recover(b)  PROVE CheckInv'
  BY <1>5, <1>6, Zenon DEF Outage, Recover
<1>7. ASSUME NEW path, AcceptHTTP(path)  PROVE CheckInv'
  <2>1. CASE path = "/readyz"
    <3>1. PICK t \in Http : Accept(t)
      BY <1>7, Zenon DEF AcceptHTTP
    <3>2. /\ probe' = [b \in Backends |-> "pending"] /\ up' = up
          /\ seen' = [b \in Critical |-> IF b \in up THEN {"up"} ELSE {"down"}]
      BY <1>7, <2>1, Zenon DEF AcceptHTTP
    <3>3. t \in Transports /\ t \notin asked /\ unclean' = unclean
          /\ requests' = [requests EXCEPT ![t] = requests[t] + 1]
      BY <3>1, Zenon DEF Accept, Serving, runVars
    <3>4. t \notin unclean' /\ requests'[t] > 0
      BY <3>1, <3>3 DEF RunnerInv, RunnerTypeOK, Http, Named
    <3>5. /\ seen' \in [Critical -> SUBSET {"up", "down"}]
          /\ \A b \in Critical : (IF b \in up THEN "up" ELSE "down") \in seen'[b]
      BY <3>2, Zenon
    <3>6. /\ probe' \in [Backends -> {"none", "pending", "pinging", "up", "down", "busy"}]
          /\ "amqp" \in Backends /\ \A b \in Backends : probe'[b] = "pending"
      BY <3>2, Zenon DEF Backends
    <3>7. \A b \in Critical : probe'[b] \notin {"up", "down"}
      BY <3>6, CriticalDependencies, Zenon DEF Backends
    <3> QED  BY <1>0, <3>1, <3>2, <3>3, <3>4, <3>5, <3>6, <3>7, Zenon DEF CheckInv
  <2>2. CASE path # "/readyz"
    <3>1. UNCHANGED <<probe, seen, up>> /\ ~Checking'
      BY <1>7, <2>2, Zenon DEF AcceptHTTP, Kind, Checking
    <3> QED  BY <1>1, <3>1, Zenon
  <2> QED  BY <2>1, <2>2, Zenon
<1>8. CASE RespondHTTP \/ Forward \/ ForwardReturns \/ AcceptGRPC \/ RespondGRPC
  <2>1. UNCHANGED <<probe, seen, up>> /\ ~Checking'
    BY <1>8, Zenon DEF RespondHTTP, Forward, ForwardReturns, AcceptGRPC, RespondGRPC, Checking
  <2> QED  BY <1>1, <2>1, Zenon
<1>9. CASE Acquire \/ AcquireFails
  <2>1. \E how \in {"pinging", "busy"} :
          Answers("postgres", how) /\ UNCHANGED <<runnerVars, up, request, seen>>
    BY <1>9, Zenon DEF Acquire, AcquireFails
  <2> QED  BY <2>1, ProbeStep, Zenon DEF Backends
<1>10. CASE PingPostgres
  <2>1. /\ Answers("postgres", IF "postgres" \in up THEN "up" ELSE "down")
        /\ UNCHANGED <<runnerVars, up, request, seen>>
    BY <1>10, Zenon DEF PingPostgres
  <2> QED  BY <2>1, ProbeStep, Zenon DEF Backends
<1>11. CASE PingRedis
  <2>1. /\ Answers("redis", IF "redis" \in up /\ ~IsClosed("cache") THEN "up" ELSE "down")
        /\ UNCHANGED <<runnerVars, up, request, seen>>
    BY <1>11, Zenon DEF PingRedis
  <2> QED  BY <2>1, ProbeStep, Zenon DEF Backends
<1>12. CASE PingBroker
  <2>1. /\ Answers("amqp", IF "amqp" \in up /\ ~IsClosed("broker") THEN "up" ELSE "down")
        /\ UNCHANGED <<runnerVars, up, request, seen>>
    BY <1>12, Zenon DEF PingBroker
  <2>2. Checking => ~IsClosed("broker")
    BY BrokerIsOpen, Zenon
  <2> QED  BY <2>1, <2>2, ProbeStep, Zenon DEF Backends
<1>13. CASE RespondReadyz
  <2>1. probe' = NoProbe /\ seen' = Unseen /\ ~Checking'
    BY <1>13, Zenon DEF RespondReadyz, Checking
  <2> QED  BY <2>1, Zenon DEF CheckInv, NoProbe, Unseen, Backends
<1> QED
  BY <1>2, <1>3, <1>4, <1>6, <1>7, <1>8, <1>9, <1>10, <1>11, <1>12, <1>13, Zenon
     DEF Next, Client, Check, Healthcheck

\* Registry.Check and ReadinessHandler (pkg/health): whatever outages, recoveries,
\* shutdowns and statements of the worker interleave with the probes, 200 means each
\* critical dependency answered during the check, and 503 that one was down during it or
\* the pool had no connection for the probe.
THEOREM ReadyzIsHonest == Spec => []ReadinessIsHonest
<1>1. RunnerInv /\ RequestsKeepTheirDependencies /\ CheckInv /\ [Next]_vars => CheckInv'
  BY CheckStep, Zenon
<1>2. CheckInv => ReadinessIsHonest
  <2> SUFFICES ASSUME CheckInv, Answered
               PROVE  IF Ready THEN \A b \in {"postgres", "amqp"} : "up" \in seen[b]
                      ELSE \/ probe["postgres"] = "busy"
                           \/ \E b \in {"postgres", "amqp"} : "down" \in seen[b]
    BY Zenon DEF ReadinessIsHonest
  <2>1. \A b \in {"postgres", "amqp"} :
          /\ probe[b] \in {"up", "down", "busy"}
          /\ probe[b] \in {"up", "down"} => probe[b] \in seen[b]
    BY CriticalDependencies, Zenon DEF CheckInv, Answered, Backends
  <2>2. Ready <=> \A b \in {"postgres", "amqp"} : probe[b] \notin {"down", "busy"}
    BY DEF Ready, registry, databaseCheck, cacheCheck, brokerCheck
  <2> QED  BY <2>1, <2>2, Zenon DEF CheckInv
<1> QED  BY <1>1, <1>2, CheckAtFirst, ProcessInvariant, ServiceKeepsDependencies, PTL DEF Spec
=============================================================================
