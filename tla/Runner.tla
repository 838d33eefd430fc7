------------------------------- MODULE Runner -------------------------------
(***************************************************************************)
(* bootstrap.Runner: components are registered in order, each with a       *)
(* Start, a Stop or both.  Run starts them all; the first that fails, or a *)
(* signal, ends the group's context, and then they are stopped in reverse  *)
(* order.  A transport's Start serves requests until its Stop is called,   *)
(* and its Stop waits for the requests in flight or gives up on them.      *)
(***************************************************************************)
EXTENDS Integers, Sequences, FiniteSets

CONSTANTS
  Names,      \* what components may be called
  MaxUnclean  \* bound: dependencies whose Stop fails

ASSUME RunnerAssumption == MaxUnclean \in Nat

VARIABLES
  components,  \* what was registered, in order: records of a name, a start and a stop
  start,       \* the goroutine of each component's Start
  failed,      \* the group has an error: some Start returned one
  group,       \* the group's context is done
  run,         \* where Run is
  next,        \* the component whose Stop is running, 0 after the last
  asked,       \* components whose Stop was called
  closed,      \* components whose Stop returned
  unclean,     \* components whose Stop returned an error
  requests,    \* requests in flight per component
  reported     \* Run's result is an error

groupVars == <<start, failed, group>>
runVars   == <<run, next, asked, closed, unclean, reported>>
runnerVars == <<components, start, failed, group, run, next, asked, closed, unclean,
                requests, reported>>

Components == DOMAIN components
Starters   == {c \in Components : components[c].start}
Stoppers   == {c \in Components : components[c].stop}
Transports == Starters \cap Stoppers

StartState == {"absent", "spawned", "running", "ok", "failed"}
Returned   == {"ok", "failed"}
RunState   == {"idle", "blocked", "shutdown", "waiting", "returned"}

Registered == [name : Names, start : BOOLEAN, stop : BOOLEAN]

RunnerTypeOK ==
  /\ components \in Seq(Registered)
  /\ start \in [Components -> StartState]
  /\ failed \in BOOLEAN /\ group \in BOOLEAN
  /\ run \in RunState
  /\ next \in 0..Len(components)
  /\ asked \subseteq Stoppers /\ closed \subseteq asked /\ unclean \subseteq closed
  /\ requests \in [Components -> Nat]
  /\ reported \in BOOLEAN

\* NewRunner, and an Add for each component of the sequence.
RunnerInit(registered) ==
  /\ components = registered
  /\ start = [c \in DOMAIN registered |-> "absent"]
  /\ failed = FALSE /\ group = FALSE
  /\ run = "idle" /\ next = 0
  /\ asked = {} /\ closed = {} /\ unclean = {}
  /\ requests = [c \in DOMAIN registered |-> 0] /\ reported = FALSE

-----------------------------------------------------------------------------
(* The signal, and the goroutines of the group.                            *)

\* Run spawns a goroutine for every Start.  The worker's loop is as good as running;
\* a server may be told to stop before its Serve is called.
Spawn ==
  /\ run = "idle" /\ run' = "blocked"
  /\ start' = [c \in Components |->
       IF c \in Transports THEN "spawned" ELSE IF c \in Starters THEN "running" ELSE "absent"]
  /\ UNCHANGED <<components, failed, group, next, asked, closed, unclean, requests, reported>>

Signal ==
  /\ run # "idle" /\ ~group /\ group' = TRUE
  /\ UNCHANGED <<components, start, failed, runVars, requests>>

\* Mutant of Return: a failure does not end the group's context.
ReturnUnnoticed(c, result) ==
  /\ start' = [start EXCEPT ![c] = result]
  /\ failed' = (failed \/ result # "ok")
  /\ UNCHANGED <<components, group, runVars, requests>>

\* A Start returns.  The first error ends the group's context and is what Wait
\* returns; no component of these services returns the context's own error.
Return(c, result) ==
  /\ start' = [start EXCEPT ![c] = result]
  /\ failed' = (failed \/ result # "ok")
  /\ group' = (group \/ result # "ok")
  /\ UNCHANGED <<components, runVars, requests>>

Begin(c) ==
  /\ c \in Starters /\ start[c] = "spawned"
  /\ start' = [start EXCEPT ![c] = "running"]
  /\ UNCHANGED <<components, failed, group, runVars, requests>>

\* A transport's Serve fails; the outbox worker's Run has no way to.
Fail(c) == c \in Transports /\ start[c] = "running" /\ Return(c, "failed")

\* The outbox worker has no Stop: it ends with the group's context.
WorkerStops(c) ==
  /\ c \in Starters \ Transports /\ start[c] = "running" /\ group
  /\ Return(c, "ok")

\* Serve returns nil once its server is being shut down, also when Serve is
\* only called then.
ServeReturns(t) ==
  /\ t \in Transports /\ start[t] = "running" /\ t \in asked
  /\ Return(t, "ok")

-----------------------------------------------------------------------------
(* Requests.                                                               *)

Serving(t) == t \in Transports /\ start[t] = "running" /\ t \notin asked

Accept(t) ==
  /\ Serving(t)
  /\ requests' = [requests EXCEPT ![t] = @ + 1]
  /\ UNCHANGED <<components, groupVars, runVars>>

Respond(t) ==
  /\ t \in Transports /\ requests[t] > 0
  /\ requests' = [requests EXCEPT ![t] = @ - 1]
  /\ UNCHANGED <<components, groupVars, runVars>>

-----------------------------------------------------------------------------
(* Run.                                                                    *)

\* shutdown's loop, in reverse order from c: n is the next component with a Stop, 0
\* if none is left, and its Stop is called.
Reaches(c, n) ==
  /\ n \in Stoppers \cup {0} /\ n < c /\ \A s \in Stoppers : s < c => s <= n
  /\ next' = n /\ asked' = asked \cup ({n} \ {0})
  /\ run' = IF n = 0 THEN "waiting" ELSE "shutdown"

Advances(c) == \E n \in 0..Len(components) : Reaches(c, n)

\* Run stops waiting when the group's context is done, not when the group is.
BeginShutdown ==
  /\ run = "blocked" /\ group
  /\ Advances(Len(components) + 1)
  /\ UNCHANGED <<components, groupVars, closed, unclean, requests, reported>>

\* A server's Stop returns when its requests are answered, a dependency's when whatever
\* it waits for has come: nothing obliges a Stop to return.
StopReturns ==
  /\ run = "shutdown" /\ requests[next] = 0
  /\ closed' = closed \cup {next} /\ Advances(next)
  /\ UNCHANGED <<components, groupVars, unclean, requests, reported>>

\* A server's Stop fails when the budget they share runs out, its own requests being
\* in flight or an earlier server having spent it; a dependency's for its own reasons.
MayFail(c) ==
  IF c \in Transports
  THEN requests[c] > 0 \/ unclean # {}
  ELSE Cardinality(unclean \ Transports) < MaxUnclean

\* Mutant of StopFails: the rest is not stopped.
StopFailsAtOnce ==
  /\ run = "shutdown" /\ MayFail(next)
  /\ closed' = closed \cup {next} /\ unclean' = unclean \cup {next}
  /\ next' = 0 /\ run' = "waiting"
  /\ UNCHANGED <<components, groupVars, asked, requests, reported>>

\* The error is kept and the rest is stopped.
StopFails ==
  /\ run = "shutdown" /\ MayFail(next)
  /\ closed' = closed \cup {next} /\ unclean' = unclean \cup {next}
  /\ Advances(next)
  /\ UNCHANGED <<components, groupVars, requests, reported>>

\* Mutant of Wait: the context's own error is reported too.
WaitReportsCancel ==
  /\ run = "waiting" /\ \A c \in Starters : start[c] \in Returned
  /\ run' = "returned"
  /\ reported' = (group \/ unclean # {})
  /\ UNCHANGED <<components, groupVars, next, asked, closed, unclean, requests>>

\* group.Wait, and what Run returns: the context a signal canceled is not a failure.
Wait ==
  /\ run = "waiting" /\ \A c \in Starters : start[c] \in Returned
  /\ run' = "returned"
  /\ reported' = (failed \/ unclean # {})
  /\ UNCHANGED <<components, groupVars, next, asked, closed, unclean, requests>>

-----------------------------------------------------------------------------
Goroutine(c) == Begin(c) \/ WorkerStops(c) \/ ServeReturns(c)

Shutdown == BeginShutdown \/ StopReturns \/ StopFails \/ Wait

\* What Run, its components and their clients may do, whatever the components are.
RunnerNext ==
  \/ Spawn \/ Signal \/ Shutdown
  \/ \E c \in Components : Goroutine(c) \/ Fail(c) \/ Accept(c) \/ Respond(c)

RunnerSpec ==
  (\E registered \in Seq(Registered) : RunnerInit(registered)) /\ [][RunnerNext]_runnerVars

-----------------------------------------------------------------------------
(* Properties.                                                             *)

\* "Registration order is shutdown order reversed": by the time a component is told to
\* stop, those registered after it have stopped, and a server among them has no
\* request in flight unless it gave up on it.
DrainsInOrder ==
  \A d \in asked : \A c \in Stoppers :
    c > d => c \in closed /\ (requests[c] > 0 => c \in unclean)

\* "Everything registered is drained the same way", whoever failed, and by then no
\* goroutine is left behind.
NothingIsLeftRunning ==
  run = "returned" => closed = Stoppers /\ \A c \in Starters : start[c] \in Returned
=============================================================================
