-------------------------- MODULE ConsumerShutdown --------------------------
(***************************************************************************)
(* How amqp.Consumer shuts down: Consume, told to stop by its context,     *)
(* cancels its subscription; Close, called by another goroutine, closes    *)
(* the channel.  Both wait for a reply that arrives through the one        *)
(* goroutine of amqp091 that reads the connection, and that goroutine      *)
(* stops at a delivery nobody reads.                                       *)
(*                                                                         *)
(* The library and the broker are external, and modelled as the comments   *)
(* of consumer.go describe them: frames are dispatched one by one in       *)
(* order, a delivery needs a reader at the other end, and a reply goes to  *)
(* any of the callers that wait for one.                                   *)
(*                                                                         *)
(* The mutex keeps cancel and Close apart.  Consume waits for its          *)
(* subscription outside it, so that wait may meet one of Close.            *)
(***************************************************************************)
EXTENDS Naturals, Sequences

CONSTANT MaxDeliveries   \* bound: messages in the queue

ASSUME ShutdownAssumption == MaxDeliveries \in Nat

VARIABLES
  silent,     \* the broker never confirms a cancellation
  queue,      \* messages the broker has yet to deliver
  broker,     \* the subscription: "idle", "delivering", "over", or "closed" with the channel
  requests,   \* requests on their way to the broker
  inbox,      \* frames on their way to the client, in order
  feed,       \* the deliveries channel: "none", "open" or "closed"
  known,      \* c.deliveries is set
  closed,     \* the channel is closed
  canceled,   \* the context of Consume is done
  mutex,      \* holder of c.rpc: "nobody", "consume" or "close"
  consume,    \* where Consume is
  drainer,    \* the goroutine of stop
  closer,     \* where Close is
  keeper      \* the goroutine of keepDrained

netVars    == <<silent, queue, broker, requests, inbox>>
clientVars == <<feed, known, closed, canceled, mutex, consume, drainer, closer, keeper>>
vars == <<silent, queue, broker, requests, inbox,
          feed, known, closed, canceled, mutex, consume, drainer, closer, keeper>>

Reply == {"consume-ok", "cancel-ok", "close-ok"}

TypeOK ==
  /\ silent \in BOOLEAN
  /\ queue \in 0..MaxDeliveries /\ broker \in {"idle", "delivering", "over", "closed"}
  /\ requests \in Seq({"consume", "cancel", "close"})
  /\ inbox \in Seq(Reply \cup {"delivery"})
  /\ feed \in {"none", "open", "closed"}
  /\ known \in BOOLEAN /\ closed \in BOOLEAN /\ canceled \in BOOLEAN
  /\ mutex \in {"nobody", "consume", "close"}
  /\ consume \in {"start", "subscribing", "subscribed", "loop", "handling",
                  "cancel", "canceling", "draining", "returned"}
  /\ closer \in {"idle", "lock", "closing", "release", "returned"}
  /\ drainer \in {"none", "reading", "done"} /\ keeper \in {"none", "reading", "done"}
  /\ mutex = "consume" <=> consume = "canceling"
  /\ mutex = "close" <=> closer = "closing"

Init ==
  /\ silent \in BOOLEAN
  /\ queue = MaxDeliveries /\ broker = "idle" /\ requests = <<>> /\ inbox = <<>>
  /\ feed = "none" /\ known = FALSE /\ closed = FALSE /\ canceled = FALSE
  /\ mutex = "nobody" /\ consume = "start" /\ drainer = "none"
  /\ closer = "idle" /\ keeper = "none"

-----------------------------------------------------------------------------
(* The broker.                                                             *)

Deliver ==
  /\ broker = "delivering" /\ queue > 0
  /\ queue' = queue - 1
  /\ inbox' = Append(inbox, "delivery")
  /\ UNCHANGED <<silent, broker, requests, clientVars>>

Answer ==
  /\ requests # <<>> /\ broker # "closed" /\ (Head(requests) = "cancel" => ~silent)
  /\ inbox'    = Append(inbox, [consume |-> "consume-ok", cancel |-> "cancel-ok",
                                close |-> "close-ok"][Head(requests)])
  /\ broker'   = [consume |-> "delivering", cancel |-> "over", close |-> "closed"][Head(requests)]
  /\ requests' = Tail(requests)
  /\ UNCHANGED <<silent, queue, clientVars>>

\* A request on a channel that was closed has no answer.
Ignore ==
  /\ requests # <<>> /\ broker = "closed"
  /\ requests' = Tail(requests)
  /\ UNCHANGED <<silent, queue, broker, inbox, clientVars>>

-----------------------------------------------------------------------------
(* The reading goroutine of the library.                                   *)

\* The callers that wait for a reply.
Waiting ==
  {g \in {"consume", "close"} :
     \/ g = "consume" /\ consume \in {"subscribing", "canceling"}
     \/ g = "close" /\ closer = "closing"}

Receive == inbox # <<>> /\ inbox' = Tail(inbox) /\ UNCHANGED <<silent, queue, broker, requests>>

\* A delivery is handed to whoever reads the deliveries channel; there is
\* nobody to hand it to once that channel is closed.
DispatchToLoop ==
  /\ inbox # <<>> /\ Head(inbox) = "delivery" /\ feed = "open" /\ consume = "loop"
  /\ Receive
  /\ consume' = "handling"
  /\ UNCHANGED <<feed, known, closed, canceled, mutex, drainer, closer, keeper>>

DispatchToDrain ==
  /\ inbox # <<>> /\ Head(inbox) = "delivery"
  /\ feed = "closed" \/ drainer = "reading" \/ keeper = "reading"
  /\ Receive
  /\ UNCHANGED clientVars

\* The subscription is in place: deliveries have a channel to go to.
ConsumeGets(reply) ==
  IF consume = "subscribing"
  THEN /\ feed'    = IF reply = "consume-ok" THEN "open" ELSE feed
       /\ consume' = IF reply = "consume-ok" THEN "subscribed" ELSE "returned"
       /\ UNCHANGED mutex
  ELSE /\ feed'    = IF reply = "cancel-ok" THEN "closed" ELSE feed
       /\ consume' = "draining"
       /\ mutex'   = "nobody"

\* The library closes the channel: the deliveries end, and every call that waits on
\* it returns.
ChannelCloses ==
  /\ closed' = TRUE
  /\ feed'    = IF feed = "open" THEN "closed" ELSE feed
  /\ consume' = CASE consume = "subscribing" -> "returned"
                  [] consume = "canceling"   -> "draining"
                  [] OTHER                   -> consume
  /\ closer'  = IF closer = "closing" THEN "release" ELSE closer
  /\ mutex'   = "nobody"

\* A caller handed the reply to another call takes it for the answer to its own,
\* fails and discards it.  After the reply to Close, right or wrong, the channel is
\* closed.
DispatchReply(g) ==
  /\ inbox # <<>> /\ Head(inbox) \in Reply /\ g \in Waiting
  /\ Receive
  /\ IF g = "consume" THEN ConsumeGets(Head(inbox)) /\ UNCHANGED <<closed, closer>>
                      ELSE ChannelCloses
  /\ UNCHANGED <<known, canceled, drainer, keeper>>

\* The connection drops: nothing arrives any more.
ConnectionDrops ==
  /\ ~closed /\ ChannelCloses
  /\ broker' = "over" /\ requests' = <<>> /\ inbox' = <<>>
  /\ UNCHANGED <<silent, queue, known, canceled, drainer, keeper>>

-----------------------------------------------------------------------------
(* Consume.                                                                *)

Request(r) == requests' = Append(requests, r) /\ UNCHANGED <<silent, queue, broker, inbox>>

\* channel.Consume: a request and its reply, outside the mutex.
Subscribe ==
  /\ consume = "start"
  /\ IF closed THEN consume' = "returned" /\ UNCHANGED netVars
               ELSE consume' = "subscribing" /\ Request("consume")
  /\ UNCHANGED <<feed, known, closed, canceled, mutex, drainer, closer, keeper>>

SetDeliveries ==
  /\ consume = "subscribed"
  /\ known' = TRUE /\ consume' = "loop"
  /\ UNCHANGED <<netVars, feed, closed, canceled, mutex, drainer, closer, keeper>>

HandlerReturns ==
  /\ consume = "handling"
  /\ consume' = "loop"
  /\ UNCHANGED <<netVars, feed, known, closed, canceled, mutex, drainer, closer, keeper>>

\* The deliveries channel is closed under the loop.
LoopEnds ==
  /\ consume = "loop" /\ feed = "closed"
  /\ consume' = "returned"
  /\ UNCHANGED <<netVars, feed, known, closed, canceled, mutex, drainer, closer, keeper>>

\* Mutant of stop: the drain is left to start after the cancellation.
StopUndrained ==
  /\ consume = "loop" /\ canceled
  /\ consume' = "cancel" /\ drainer' = "done"
  /\ UNCHANGED <<netVars, feed, known, closed, canceled, mutex, closer, keeper>>

\* stop: the drain starts first and runs while the cancel is in flight.
stop ==
  /\ consume = "loop" /\ canceled
  /\ consume' = "cancel" /\ drainer' = "reading"
  /\ UNCHANGED <<netVars, feed, known, closed, canceled, mutex, closer, keeper>>

cancel ==
  /\ consume = "cancel" /\ mutex = "nobody"
  /\ IF closed
     THEN consume' = "draining" /\ UNCHANGED <<netVars, mutex>>
     ELSE consume' = "canceling" /\ mutex' = "consume" /\ Request("cancel")
  /\ UNCHANGED <<feed, known, closed, canceled, drainer, closer, keeper>>

drain ==
  /\ drainer = "reading" /\ feed = "closed"
  /\ drainer' = "done"
  /\ UNCHANGED <<netVars, feed, known, closed, canceled, mutex, consume, closer, keeper>>

\* Mutant of DrainTimesOut: the timer is restarted instead of ending the drain.
DrainRestarts ==
  /\ drainer = "reading" /\ silent /\ consume \in {"canceling", "draining"}
  /\ UNCHANGED vars

\* drainTimeout runs out on a cancellation the broker does not confirm: the other
\* steps take milliseconds.
DrainTimesOut ==
  /\ drainer = "reading" /\ silent /\ consume \in {"canceling", "draining"}
  /\ drainer' = "done"
  /\ UNCHANGED <<netVars, feed, known, closed, canceled, mutex, consume, closer, keeper>>

Drained ==
  /\ consume = "draining" /\ drainer = "done"
  /\ consume' = "returned"
  /\ UNCHANGED <<netVars, feed, known, closed, canceled, mutex, drainer, closer, keeper>>

Cancel ==
  /\ ~canceled /\ canceled' = TRUE
  /\ UNCHANGED <<netVars, feed, known, closed, mutex, consume, drainer, closer, keeper>>

-----------------------------------------------------------------------------
(* Close.                                                                  *)

\* Mutant of keepDrained: Close does not read what it waits behind.
KeepUndrained ==
  /\ closer = "idle"
  /\ closer' = "lock" /\ keeper' = "done"
  /\ UNCHANGED <<netVars, feed, known, closed, canceled, mutex, consume, drainer>>

\* keepDrained, which has nothing to read before Consume set c.deliveries.
keepDrained ==
  /\ closer = "idle"
  /\ closer' = "lock"
  /\ keeper' = IF known THEN "reading" ELSE "none"
  /\ UNCHANGED <<netVars, feed, known, closed, canceled, mutex, consume, drainer>>

Close ==
  /\ closer = "lock" /\ mutex = "nobody"
  /\ IF closed THEN closer' = "release" /\ UNCHANGED <<netVars, mutex>>
               ELSE closer' = "closing" /\ mutex' = "close" /\ Request("close")
  /\ UNCHANGED <<feed, known, closed, canceled, consume, drainer, keeper>>

\* The deferred release: the reading stops.
Release ==
  /\ closer = "release"
  /\ closer' = "returned"
  /\ keeper' = IF keeper = "reading" THEN "done" ELSE keeper
  /\ UNCHANGED <<netVars, feed, known, closed, canceled, mutex, consume, drainer>>

-----------------------------------------------------------------------------
Library == DispatchToLoop \/ DispatchToDrain \/ \E g \in {"consume", "close"} : DispatchReply(g)

ConsumeStep == Subscribe \/ SetDeliveries \/ LoopEnds \/ stop \/ cancel \/ Drained

DrainStep == drain \/ DrainTimesOut

CloseStep == Close \/ Release

Next ==
  \/ Deliver \/ Answer \/ Ignore \/ Library \/ ConnectionDrops \/ ConsumeStep \/ HandlerReturns
  \/ DrainStep \/ Cancel \/ keepDrained \/ CloseStep

\* The goroutines and the broker run, and the loop notices a context that is done;
\* nobody has to cancel or to call Close, and a handler may never return.
Fairness ==
  /\ WF_vars(Answer) /\ WF_vars(Library) /\ WF_vars(ConsumeStep) /\ SF_vars(stop)
  /\ WF_vars(DrainStep) /\ WF_vars(CloseStep)

Spec == Init /\ [][Next]_vars /\ Fairness

-----------------------------------------------------------------------------
(* Properties.                                                             *)

\* No two callers wait for a reply at once.
OneWaiter == Waiting # {"consume", "close"}

\* Consume returns once its context is done, wherever Close is, with deliveries
\* still arriving, if the broker confirms the cancellation and no handler hangs.
ConsumeReturns ==
  canceled /\ consume # "start" /\ ~silent ~>
    consume = "returned" \/ [](consume = "handling")

\* Close returns with such a broker, also while Consume cancels, and while a handler
\* hangs with deliveries behind it; but for a Close called before c.deliveries was
\* set, which has nothing to drain, and for one that met Consume waiting for its
\* subscription: that wait is not under the mutex, and may take the reply of Close.
CloseReturns ==
  []OneWaiter =>
    (closer # "idle" /\ ~silent ~>
       closer = "returned" \/ [](keeper = "none" /\ consume = "handling"))

\* The goroutine of stop ends, also when the broker never confirms.
DrainEnds == drainer = "reading" ~> drainer = "done"
=============================================================================
