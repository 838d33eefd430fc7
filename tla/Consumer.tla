------------------------------ MODULE Consumer ------------------------------
(***************************************************************************)
(* amqp.Consumer with its retry and dead-letter policy: the queue of one   *)
(* subscription, its retry queue and its dead-letter queue, read by one    *)
(* consumer per replica.                                                   *)
(*                                                                         *)
(* A failed message is published again, to the retry queue or to the       *)
(* dead-letter queue, and then acknowledged.  Neither call waits for an    *)
(* answer: both are frames on the channel, which the broker handles in     *)
(* order until the channel is lost.  What was delivered and not settled by *)
(* then goes back to the queue, with the attempts header it already had.   *)
(* The broker and the amqp091 library are external.                        *)
(***************************************************************************)
EXTENDS Naturals, Sequences, FiniteSets

CONSTANTS
  Consumers,     \* one per replica
  MaxMessages,   \* bound: events routed to the queue
  MaxAttempts,   \* Config.MaxAttempts
  Prefetch,      \* Config.Prefetch
  MaxCopies,     \* bound: copies the broker creates
  MaxInterrupts  \* bound: shutdowns, crashes and channels lost

ASSUME ConsumerAssumption ==
  /\ MaxAttempts \in Nat \ {0}
  /\ Prefetch \in Nat \ {0}
  /\ MaxMessages \in Nat \ {0}
  /\ MaxCopies \in Nat /\ MaxMessages <= MaxCopies
  /\ MaxInterrupts \in Nat
  /\ Consumers \cap {"unborn", "ready", "waiting", "dead", "gone"} = {}

VARIABLES
  place,       \* where the broker has each copy: a queue, or with a consumer
  message,     \* the message a copy is of
  attempts,    \* its attempts header, 0 when absent
  open,        \* the consumer's channel is usable
  consuming,   \* Consume has not been told to stop
  buffer,      \* deliveries channel of each consumer
  hand,        \* copy each consumer is handling, or None
  stage,       \* what is left to do with it
  wire,        \* frames sent and not yet handled by the broker
  interrupts,  \* shutdowns, crashes and channels lost so far
  runs,        \* history: handler runs per message
  returned,    \* history: deliveries put back in the queue, per message
  handled,     \* history: messages some run handled
  refused      \* history: messages whose publication failed

copyVars     == <<place, message, attempts>>
consumerVars == <<open, consuming, buffer, hand, stage, wire>>
history      == <<interrupts, runs, returned, handled, refused>>
vars == <<copyVars, consumerVars, history>>

Messages == 1..MaxMessages
Copies == 1..MaxCopies
None   == 0
Place  == {"unborn", "ready", "waiting", "dead", "gone"} \cup Consumers
Op     == {"retry", "dead", "ack", "reject"}
Stage  == {"idle", "handle", "retry", "dead", "ack"}

TypeOK ==
  /\ place \in [Copies -> Place]
  /\ message \in [Copies -> Messages]
  /\ attempts \in [Copies -> 0..MaxAttempts]
  /\ open \in [Consumers -> BOOLEAN]
  /\ consuming \in [Consumers -> BOOLEAN]
  /\ buffer \in [Consumers -> Seq(Copies)]
  /\ hand \in [Consumers -> Copies \cup {None}]
  /\ stage \in [Consumers -> Stage]
  /\ wire \in [Consumers -> Seq([op : Op, copy : Copies])]
  /\ interrupts \in 0..MaxInterrupts
  /\ runs \in [Messages -> Nat]
  /\ returned \in [Messages -> Nat]
  /\ handled \in SUBSET Messages
  /\ refused \in SUBSET Messages

\* One copy of every message is in the queue, published by the outbox.
Init ==
  /\ place     = [i \in Copies |-> IF i \in Messages THEN "ready" ELSE "unborn"]
  /\ message   = [i \in Copies |-> IF i \in Messages THEN i ELSE 1]
  /\ attempts  = [i \in Copies |-> 0]
  /\ open      = [c \in Consumers |-> TRUE]
  /\ consuming = [c \in Consumers |-> TRUE]
  /\ buffer    = [c \in Consumers |-> <<>>]
  /\ hand      = [c \in Consumers |-> None]
  /\ stage     = [c \in Consumers |-> "idle"]
  /\ wire      = [c \in Consumers |-> <<>>]
  /\ interrupts    = 0
  /\ runs      = [m \in Messages |-> 0]
  /\ returned  = [m \in Messages |-> 0]
  /\ handled   = {}
  /\ refused   = {}

-----------------------------------------------------------------------------
(* The broker.                                                             *)

With(c) == {i \in Copies : place[i] = c}

Deliver(c, i) ==
  /\ open[c] /\ consuming[c]
  /\ place[i] = "ready" /\ Cardinality(With(c)) < Prefetch
  /\ place'  = [place EXCEPT ![i] = c]
  /\ buffer' = [buffer EXCEPT ![c] = Append(@, i)]
  /\ UNCHANGED <<message, attempts, open, consuming, hand, stage, wire, history>>

\* The TTL of a message in the retry queue expires: back to the queue.
BackoffExpires(i) ==
  /\ place[i] = "waiting"
  /\ place' = [place EXCEPT ![i] = "ready"]
  /\ UNCHANGED <<message, attempts, consumerVars, history>>

\* Mutant of Arrive: the attempts header is not carried forward.
ArriveUncounted(i, queue) ==
  \E n \in Copies :
    /\ place[n] = "unborn" /\ \A o \in Copies : place[o] = "unborn" => n <= o
    /\ place'    = [place EXCEPT ![n] = queue]
    /\ message'  = [message EXCEPT ![n] = message[i]]
    /\ attempts' = [attempts EXCEPT ![n] = IF queue = "dead" THEN MaxAttempts ELSE attempts[i]]

\* A publication arrives: a new copy of the message of i, with one more attempt.
Arrive(i, queue) ==
  \E n \in Copies :
    /\ place[n] = "unborn" /\ \A o \in Copies : place[o] = "unborn" => n <= o
    /\ place'    = [place EXCEPT ![n] = queue]
    /\ message'  = [message EXCEPT ![n] = message[i]]
    /\ attempts' = [attempts EXCEPT ![n] = attempts[i] + 1]

\* A nack without requeue goes where the queue's own policy sends it: the
\* dead-letter queue, with the headers it had.
HandleFrame(c) ==
  /\ open[c] /\ wire[c] # <<>>
  /\ wire' = [wire EXCEPT ![c] = Tail(@)]
  /\ LET i == Head(wire[c]).copy
     IN  CASE Head(wire[c]).op = "retry"  -> Arrive(i, "waiting")
           [] Head(wire[c]).op = "dead"   -> Arrive(i, "dead")
           [] Head(wire[c]).op = "ack"    -> place' = [place EXCEPT ![i] = "gone"]
                                             /\ UNCHANGED <<message, attempts>>
           [] Head(wire[c]).op = "reject" -> place' = [place EXCEPT ![i] = "dead"]
                                             /\ UNCHANGED <<message, attempts>>
  /\ UNCHANGED <<open, consuming, buffer, hand, stage, history>>

\* What the consumer did not settle goes back to the queue.
Requeue(c) ==
  /\ place'    = [i \in Copies |-> IF place[i] = c THEN "ready" ELSE place[i]]
  /\ returned' = [m \in Messages |-> returned[m] +
                    Cardinality({i \in With(c) : message[i] = m})]

-----------------------------------------------------------------------------
(* Consume and handle.                                                     *)

\* The loop takes the next delivery and runs the handler.
Take(c) ==
  /\ consuming[c] /\ stage[c] = "idle" /\ buffer[c] # <<>>
  /\ hand'   = [hand EXCEPT ![c] = Head(buffer[c])]
  /\ buffer' = [buffer EXCEPT ![c] = Tail(@)]
  /\ stage'  = [stage EXCEPT ![c] = "handle"]
  /\ runs'   = [runs EXCEPT ![message[Head(buffer[c])]] = @ + 1]
  /\ UNCHANGED <<copyVars, open, consuming, wire, interrupts, returned, handled, refused>>

\* A frame of consumer c about the copy in its hand; none on a closed channel.
Send(c, op) ==
  wire' = IF open[c] THEN [wire EXCEPT ![c] = Append(@, [op |-> op, copy |-> hand[c]])]
                     ELSE wire

Finish(c) ==
  /\ hand'  = [hand EXCEPT ![c] = None]
  /\ stage' = [stage EXCEPT ![c] = "idle"]

\* Mutant of HandlerSucceeds: the outcome does not look at the handler's error.
HandlerSucceedsUnnoticed(c) ==
  /\ stage[c] = "handle"
  /\ handled' = handled \cup {message[hand[c]]}
  /\ stage' = [stage EXCEPT ![c] = IF attempts[hand[c]] + 1 >= MaxAttempts THEN "dead" ELSE "retry"]
  /\ UNCHANGED <<copyVars, open, consuming, buffer, hand, wire, interrupts, runs, returned, refused>>

HandlerSucceeds(c) ==
  /\ stage[c] = "handle"
  /\ handled' = handled \cup {message[hand[c]]}
  /\ Send(c, "ack") /\ Finish(c)
  /\ UNCHANGED <<copyVars, open, consuming, buffer, interrupts, runs, returned, refused>>

\* Mutant of decide: one attempt too few.
decideEarly(prior) == IF prior + 2 >= MaxAttempts THEN "dead" ELSE "retry"

\* The attempt just made counts.
decide(prior) == IF prior + 1 >= MaxAttempts THEN "dead" ELSE "retry"

\* Mutant of HandlerFails: the original is acknowledged before its successor.
HandlerFailsAcked(c) ==
  /\ stage[c] = "handle"
  /\ stage' = [stage EXCEPT ![c] = decide(attempts[hand[c]])]
  /\ Send(c, "ack")
  /\ UNCHANGED <<copyVars, open, consuming, buffer, hand, history>>

HandlerFails(c) ==
  /\ stage[c] = "handle"
  /\ stage' = [stage EXCEPT ![c] = decide(attempts[hand[c]])]
  /\ UNCHANGED <<copyVars, open, consuming, buffer, hand, wire, history>>

\* scheduleRetry or deadLetter: publishRaw, without a confirmation.
PublishRaw(c) ==
  /\ stage[c] \in {"retry", "dead"} /\ open[c]
  /\ Send(c, stage[c])
  /\ stage' = [stage EXCEPT ![c] = "ack"]
  /\ UNCHANGED <<copyVars, open, consuming, buffer, hand, history>>

\* Mutant of PublishRawFails: the error is logged and the delivery left unsettled.
PublishRawFailsUnsettled(c) ==
  /\ stage[c] \in {"retry", "dead"}
  /\ refused' = refused \cup {message[hand[c]]}
  /\ Finish(c)
  /\ UNCHANGED <<copyVars, open, consuming, buffer, wire, interrupts, runs, returned, handled>>

\* publishRaw returned an error: the message is nacked without requeue.
PublishRawFails(c) ==
  /\ stage[c] \in {"retry", "dead"}
  /\ refused' = refused \cup {message[hand[c]]}
  /\ Send(c, "reject") /\ Finish(c)
  /\ UNCHANGED <<copyVars, open, consuming, buffer, interrupts, runs, returned, handled>>

\* The original is acknowledged once its successor is on the wire.
Ack(c) ==
  /\ stage[c] = "ack"
  /\ Send(c, "ack") /\ Finish(c)
  /\ UNCHANGED <<copyVars, open, consuming, buffer, history>>

-----------------------------------------------------------------------------
(* Shutdown, loss of the channel, restart.                                 *)

\* The context is done: the loop leaves between two messages, cancels the
\* consumer and throws away what is buffered.
stop(c) ==
  /\ consuming[c] /\ stage[c] = "idle" /\ interrupts < MaxInterrupts
  /\ interrupts' = interrupts + 1
  /\ consuming' = [consuming EXCEPT ![c] = FALSE]
  /\ buffer'    = [buffer EXCEPT ![c] = <<>>]
  /\ UNCHANGED <<copyVars, open, hand, stage, wire, runs, returned, handled, refused>>

\* An orderly close: the broker has handled every frame sent before.
Close(c) ==
  /\ open[c] /\ ~consuming[c] /\ wire[c] = <<>>
  /\ Requeue(c)
  /\ open' = [open EXCEPT ![c] = FALSE]
  /\ UNCHANGED <<message, attempts, consuming, buffer, hand, stage, wire,
                 interrupts, runs, handled, refused>>

\* The connection drops: frames on the wire are lost, deliveries already handed
\* over may still be taken, and a handler in progress keeps running.
ChannelLost(c) ==
  /\ open[c] /\ interrupts < MaxInterrupts
  /\ interrupts' = interrupts + 1
  /\ Requeue(c)
  /\ open' = [open EXCEPT ![c] = FALSE]
  /\ wire' = [wire EXCEPT ![c] = <<>>]
  /\ \E k \in 0..Len(buffer[c]) : buffer' = [buffer EXCEPT ![c] = SubSeq(@, 1, k)]
  /\ UNCHANGED <<message, attempts, consuming, hand, stage, runs, handled, refused>>

\* The process dies with its channel.
Crash(c) ==
  /\ open[c] /\ interrupts < MaxInterrupts
  /\ interrupts' = interrupts + 1
  /\ Requeue(c) /\ Finish(c)
  /\ open'   = [open EXCEPT ![c] = FALSE]
  /\ wire'   = [wire EXCEPT ![c] = <<>>]
  /\ buffer' = [buffer EXCEPT ![c] = <<>>]
  /\ UNCHANGED <<message, attempts, consuming, runs, handled, refused>>

\* Consume has returned, and a new process, or the supervisor, starts over.
NewConsumer(c) ==
  /\ ~open[c] /\ stage[c] = "idle" /\ buffer[c] = <<>>
  /\ open'      = [open EXCEPT ![c] = TRUE]
  /\ consuming' = [consuming EXCEPT ![c] = TRUE]
  /\ UNCHANGED <<copyVars, buffer, hand, stage, wire, history>>

-----------------------------------------------------------------------------
ConsumerStep(c) ==
  \/ Take(c) \/ HandlerSucceeds(c) \/ HandlerFails(c)
  \/ PublishRaw(c) \/ PublishRawFails(c) \/ Ack(c)

Next ==
  \/ \E i \in Copies : BackoffExpires(i)
  \/ \E c \in Consumers :
       \/ \E i \in Copies : Deliver(c, i)
       \/ HandleFrame(c) \/ ConsumerStep(c)
       \/ stop(c) \/ Close(c) \/ ChannelLost(c) \/ Crash(c) \/ NewConsumer(c)

SafetySpec == Init /\ [][Next]_vars

\* The handler returns, the loop goes on, the broker handles what it gets, TTLs
\* expire, and a process that lost its channel is started again.
Fairness ==
  /\ \A i \in Copies : WF_vars(BackoffExpires(i))
  /\ \A c \in Consumers :
       /\ WF_vars(\E i \in Copies : Deliver(c, i))
       /\ WF_vars(HandleFrame(c))
       /\ WF_vars(ConsumerStep(c))
       /\ WF_vars(Close(c))
       /\ WF_vars(NewConsumer(c))

Spec == SafetySpec /\ Fairness

-----------------------------------------------------------------------------
(* Properties.                                                             *)

Live(m) == {i \in Copies : message[i] = m /\ place[i] \notin {"unborn", "gone"}}
DeadLetters(m) == {i \in Copies : message[i] = m /\ place[i] = "dead"}

\* Publishing the successor before acknowledging the original loses nothing: a
\* message not handled yet is in a queue, or would go back to one.
NoMessageLost == \A m \in Messages : m \in handled \/ Live(m) # {}

\* A message reaches the dead-letter queue when its attempts are exhausted, or
\* because a publication failed and the nack fell back on the queue's policy.
DeadLettersAreExhausted ==
  \A i \in Copies : place[i] = "dead" =>
                      attempts[i] = MaxAttempts \/ message[i] \in refused

\* "A message that recovered must not" reach the dead-letter queue: true of one
\* whose deliveries were all settled.
RecoveredStaysOut ==
  \A m \in handled : returned[m] = 0 => DeadLetters(m) = {}

\* The header counts failures the consumer got to record.  Every delivery put
\* back in the queue can cost one more series of attempts, and nothing else can.
RunsAreBounded ==
  \A m \in Messages : runs[m] <= MaxAttempts * (1 + returned[m])

\* Every message ends up handled or in the dead-letter queue, once the shutdowns,
\* the crashes and the losses stop.
EveryMessageEnds == \A m \in Messages : <>(m \in handled \/ DeadLetters(m) # {})
=============================================================================
