---------------------------- MODULE OutboxSystem ----------------------------
(***************************************************************************)
(* The outbox workers over the publisher pkg/amqp promises: Publish        *)
(* returns nil only after the broker took responsibility for the message   *)
(* it sent.  A call that fails says nothing: the message may be lost, may  *)
(* be with the broker already, or may still get there later.               *)
(***************************************************************************)
EXTENDS Outbox

CONSTANT CopyCap   \* bound: copies of an event the model tells apart

ASSUME CopyAssumption == CopyCap \in Nat \ {0, 1}

VARIABLES
  copies,     \* copies of each event the broker took
  held,       \* the broker took the copy the worker's current call sent
  abandoned,  \* events with a copy still on the wire after its call ended
  disturbed   \* history: events with a failed call, a failed mark or a crash

brokerVars == <<copies, held, abandoned, disturbed>>
vars == <<outboxVars, brokerVars>>

TypeOK ==
  /\ OutboxTypeOK
  /\ copies    \in [Events -> 0..CopyCap]
  /\ held      \in [Workers -> BOOLEAN]
  /\ abandoned \in SUBSET Events
  /\ disturbed \in SUBSET Events

Init ==
  /\ OutboxInit
  /\ copies    = [e \in Events |-> 0]
  /\ held      = [w \in Workers |-> FALSE]
  /\ abandoned = {}
  /\ disturbed = {}

-----------------------------------------------------------------------------
OneMore(n) == IF n < CopyCap THEN n + 1 ELSE n

Send(w) ==
  /\ BeginPublish(w)
  /\ UNCHANGED brokerVars

BrokerTakes(w) ==
  /\ pc[w] = "publishing" /\ ~held[w]
  /\ held'   = [held EXCEPT ![w] = TRUE]
  /\ copies' = [copies EXCEPT ![event[w]] = OneMore(@)]
  /\ UNCHANGED <<outboxVars, abandoned, disturbed>>

BrokerTakesLate(e) ==
  /\ e \in abandoned
  /\ abandoned' = abandoned \ {e}
  /\ copies'    = [copies EXCEPT ![e] = OneMore(@)]
  /\ UNCHANGED <<outboxVars, held, disturbed>>

Confirmed(w) ==
  /\ held[w]
  /\ PublishSucceeds(w)
  /\ held' = [held EXCEPT ![w] = FALSE]
  /\ UNCHANGED <<copies, abandoned, disturbed>>

\* The copy a call leaves on the wire when it ends before the broker took it.
LeftBehind(w) == IF held[w] THEN {} ELSE {event[w]}

Unconfirmed(w) ==
  /\ PublishFails(w)
  /\ abandoned' = abandoned \cup LeftBehind(w)
  /\ disturbed' = disturbed \cup {event[w]}
  /\ held' = [held EXCEPT ![w] = FALSE]
  /\ UNCHANGED copies

MarkLost(w) ==
  /\ MarkFails(w)
  /\ disturbed' = disturbed \cup {event[w]}
  /\ UNCHANGED <<copies, held, abandoned>>

ProcessCrash(w) ==
  /\ Crash(w)
  /\ held' = [held EXCEPT ![w] = FALSE]
  /\ abandoned' = IF pc[w] = "publishing" THEN abandoned \cup LeftBehind(w)
                                          ELSE abandoned
  /\ disturbed' = IF pc[w] \in Handling THEN disturbed \cup {event[w]}
                                        ELSE disturbed
  /\ UNCHANGED copies

\* Steps of the table and the workers the broker has no part in.
Quiet(w) ==
  \/ ClaimPending(w) \/ ClaimFails(w) \/ AbandonRound(w)
  \/ MarkPublished(w) \/ Reschedule(w) \/ RescheduleFails(w)
  \/ Poll(w) \/ Stop(w) \/ Cancel(w) \/ Restart(w)

Next ==
  \/ \E e \in Events :
       \/ (Insert(e) \/ Commit(e) \/ Rollback(e) \/ BackoffElapses(e))
          /\ UNCHANGED brokerVars
       \/ BrokerTakesLate(e)
  \/ \E S \in SUBSET Events : DeletePublishedBefore(S) /\ UNCHANGED brokerVars
  \/ \E w \in Workers :
       \/ Quiet(w) /\ UNCHANGED brokerVars
       \/ Send(w) \/ BrokerTakes(w) \/ Confirmed(w) \/ Unconfirmed(w)
       \/ MarkLost(w) \/ ProcessCrash(w)

SafetySpec == Init /\ [][Next]_vars

\* What the goroutine of a worker does next, whatever the outcome.  Publish
\* always returns: PublishTimeout bounds its wait.
GoroutineStep(w) ==
  \/ ( \/ ClaimPending(w) \/ ClaimFails(w) \/ AbandonRound(w) \/ MarkPublished(w)
       \/ Reschedule(w) \/ RescheduleFails(w) \/ Poll(w) \/ Stop(w))
     /\ UNCHANGED brokerVars
  \/ Send(w) \/ Confirmed(w) \/ Unconfirmed(w) \/ MarkLost(w)

\* The goroutine runs, the supervisor restarts the process, delays pass, and the
\* database answers a claim now and then: the pool dials again.  Nothing is asked of
\* the broker or of the statement that marks, every publication and every mark may
\* fail: a connection to the broker that is lost stays lost.
Fairness ==
  /\ \A e \in Events : WF_vars(BackoffElapses(e) /\ UNCHANGED brokerVars)
  /\ \A w \in Workers :
       /\ WF_vars(GoroutineStep(w))
       /\ WF_vars(Restart(w) /\ UNCHANGED brokerVars)
       /\ SF_vars(ClaimPending(w) /\ UNCHANGED brokerVars)

Spec == SafetySpec /\ Fairness

-----------------------------------------------------------------------------
(* Properties.                                                             *)

\* "The event is marked published only after the broker has confirmed it":
\* a row marked published, or pruned since, has a copy with the broker.
NoEventLost == \A e \in Events : row[e] \in Settled => copies[e] > 0

\* No event goes out for a state change that did not commit: what the broker
\* took, or may still take off the wire, belongs to a committed transaction.
NoPhantomEvent ==
  \A e \in Events : copies[e] > 0 \/ e \in abandoned => row[e] \in Committed

\* With one worker a second copy of an event is explained by a failed call, a
\* failed mark or a crash (publishOne logs each so the duplicate is explainable).
DuplicatesAreExplained == \A e \in Events : copies[e] > 1 => e \in disturbed

\* With one worker the delay of a retry is the one of the attempt just counted:
\* the Attempts reschedule uses is never stale.
BackoffFollowsAttempts == \A e \in Events : backoff[e] = attempts[e]

\* With any number of workers a stale Attempts only ever shortens the delay.
BackoffNeverAhead == \A e \in Events : backoff[e] <= attempts[e]

\* The workers implement the promise of the outbox.
ALO == INSTANCE AtLeastOnce WITH
         Event     <- Events,
         recorded  <- {e \in Events : row[e] \in Committed},
         delivered <- {e \in Events : copies[e] > 0},
         settled   <- {e \in Events : row[e] \in Settled}

ImplementsAtLeastOnce == ALO!Safety

\* The worker gives up on no event: after any number of failed rounds, crashes and
\* restarts a committed event is marked, or it is in hand again; so it is published
\* in the end, or tried for ever.  Not so in a service that is stopped or killed over
\* and over.  A batch has room for the events of the instance: behind a batch full of
\* failing events a younger one may wait longer.
NoEventIsForgotten ==
  \/ []<>(\E w \in Workers : canceled[w] \/ ~Running(w))
  \/ \A e \in Events :
       row[e] = "pending" ~> row[e] \in Settled \/ \E w \in Workers : event[w] = e

\* Run returns once its context is canceled, whatever the round was doing.
CancellationStopsTheWorker ==
  \A w \in Workers : canceled[w] ~> ~Running(w)
=============================================================================
