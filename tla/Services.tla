------------------------------ MODULE Services ------------------------------
(***************************************************************************)
(* The five entry points, cmd/server/main.go of each service: the steps    *)
(* that run and serve take, in order, each of which may end the process;   *)
(* the components serve registers with the runner, in order; the RPCs of   *)
(* buildGRPC and the routes of buildHTTP.                                  *)
(***************************************************************************)

\* The three shapes of a bootstrap.Component.
Dependency(name) == [name |-> name, start |-> FALSE, stop |-> TRUE]
Worker(name)     == [name |-> name, start |-> TRUE,  stop |-> FALSE]
Transport(name)  == [name |-> name, start |-> TRUE,  stop |-> TRUE]

ComponentNames ==
  {"tracing", "database", "cache", "broker", "outbox-worker", "grpc", "http"}

\* grpcserver.New: every server has the standard health service.
RPCs(own) == {"Health"} \cup own

\* DialGRPC and RegisterGateways: one route, whose calls go to gRPC over loopback.
Gateway == {"/v1/"}

\* httpserver.New: the operational routes are always there.
Routes(gateway, extra) == {"/livez", "/readyz", "/metrics"} \cup gateway \cup extra

IdentityBoot ==
  << "config", "reporter", "migrate",
     "tracing", "database", "cache", "broker", "publisher", "keys", "grpc", "http" >>

\* Mutant of IdentityRunner: the gateway's server closes before the gateway.
IdentityRunnerSwapped ==
  << Dependency("tracing"), Dependency("database"), Dependency("cache"), Dependency("broker"),
     Worker("outbox-worker"), Transport("http"), Transport("grpc") >>

IdentityRunner ==
  << Dependency("tracing"), Dependency("database"), Dependency("cache"), Dependency("broker"),
     Worker("outbox-worker"), Transport("grpc"), Transport("http") >>

\* The RPC of the reference slice.
IdentityRPCs == RPCs({"HealthPing"})

\* Only identity publishes the key set.
IdentityRoutes == Routes(Gateway, {"/.well-known/jwks.json"})

ToursBoot ==
  << "config", "reporter", "migrate",
     "tracing", "database", "cache", "broker", "publisher", "keys", "grpc", "http" >>

ToursRunner ==
  << Dependency("tracing"), Dependency("database"), Dependency("cache"), Dependency("broker"),
     Worker("outbox-worker"), Transport("grpc"), Transport("http") >>

ToursRPCs == RPCs({})

ToursRoutes == Routes({}, {})

BookingBoot ==
  << "config", "reporter", "migrate",
     "tracing", "database", "cache", "broker", "publisher", "keys", "grpc", "http" >>

BookingRunner ==
  << Dependency("tracing"), Dependency("database"), Dependency("cache"), Dependency("broker"),
     Worker("outbox-worker"), Transport("grpc"), Transport("http") >>

BookingRPCs == RPCs({})

BookingRoutes == Routes({}, {})

AdminBoot ==
  << "config", "reporter", "migrate",
     "tracing", "database", "cache", "broker", "publisher", "keys", "grpc", "http" >>

AdminRunner ==
  << Dependency("tracing"), Dependency("database"), Dependency("cache"), Dependency("broker"),
     Worker("outbox-worker"), Transport("grpc"), Transport("http") >>

AdminRPCs == RPCs({})

AdminRoutes == Routes({}, {})

\* mail-dispatcher serves no RPC: it has no gRPC server at all.
MailDispatcherBoot ==
  << "config", "reporter", "migrate",
     "tracing", "database", "cache", "broker", "publisher", "keys", "http" >>

MailDispatcherRunner ==
  << Dependency("tracing"), Dependency("database"), Dependency("cache"), Dependency("broker"),
     Worker("outbox-worker"), Transport("http") >>

MailDispatcherRoutes == Routes({}, {})

Services ==
  { [boot |-> IdentityBoot, components |-> IdentityRunner, routes |-> IdentityRoutes,
     rpcs |-> IdentityRPCs],
    [boot |-> ToursBoot, components |-> ToursRunner, routes |-> ToursRoutes,
     rpcs |-> ToursRPCs],
    [boot |-> BookingBoot, components |-> BookingRunner, routes |-> BookingRoutes,
     rpcs |-> BookingRPCs],
    [boot |-> AdminBoot, components |-> AdminRunner, routes |-> AdminRoutes,
     rpcs |-> AdminRPCs],
    [boot |-> MailDispatcherBoot, components |-> MailDispatcherRunner,
     routes |-> MailDispatcherRoutes, rpcs |-> {}] }
=============================================================================
