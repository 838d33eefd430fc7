----------------------------- MODULE Publisher -----------------------------
(***************************************************************************)
(* amqp.Publisher: one channel in confirm mode, one notification channel   *)
(* shared by every call, one caller at a time (the outbox worker).  The    *)
(* broker and the amqp091 library are external: the broker handles what is *)
(* on the wire in order and answers each message with an ack or a nack,    *)
(* and the library hands the answers over in that order.                   *)
(*                                                                         *)
(* waitForConfirm takes the next confirmation, whichever message it is     *)
(* for; the delivery tags below are what the broker numbers messages with  *)
(* and what the code does not look at.                                     *)
(***************************************************************************)
EXTENDS Naturals, Sequences

CONSTANTS
  Messages,    \* messages callers publish
  Routable,    \* those some queue is bound for
  None,        \* no call in progress
  MaxPublish,  \* bound: publications per connection
  MaxAbandon   \* bound: calls that give up waiting, per connection

ASSUME PublisherAssumption ==
  /\ Routable \subseteq Messages
  /\ None \notin Messages
  /\ MaxPublish \in Nat
  /\ MaxAbandon \in Nat

VARIABLES
  open,        \* the connection is usable
  call,        \* message of the call in progress, or None
  tag,         \* delivery tag of the last message sent
  wire,        \* messages sent and not yet handled by the broker
  confirms,    \* confirmations nobody has taken, oldest first
  abandoned,   \* calls that gave up waiting on this connection
  queued,      \* history: messages the broker put in a queue
  returned,    \* history: messages the broker returned as unroutable
  acked        \* history: messages Publish returned nil for

connVars  == <<open, call, tag, wire, confirms, abandoned>>
ledger    == <<queued, returned, acked>>
publisherVars == <<open, call, tag, wire, confirms, abandoned,
                   queued, returned, acked>>

Sent         == [tag : Nat, msg : Messages]
Confirmation == [tag : Nat, ack : BOOLEAN]

PublisherTypeOK ==
  /\ open      \in BOOLEAN
  /\ call      \in Messages \cup {None}
  /\ tag       \in 0..MaxPublish
  /\ wire      \in Seq(Sent)
  /\ confirms  \in Seq(Confirmation)
  /\ abandoned \in 0..MaxAbandon
  /\ queued    \in SUBSET Messages
  /\ returned  \in SUBSET Messages
  /\ acked     \in SUBSET Messages

\* NewPublisher: a fresh channel in confirm mode.
NewPublisher ==
  /\ open = TRUE /\ call = None /\ tag = 0 /\ wire = <<>>
  /\ confirms = <<>> /\ abandoned = 0

PublisherInit == NewPublisher /\ queued = {} /\ returned = {} /\ acked = {}

-----------------------------------------------------------------------------
\* publishTo up to the wait.  On a closed channel it fails at once and nothing
\* changes.
Publish(m) ==
  /\ open /\ call = None /\ tag < MaxPublish
  /\ call' = m
  /\ tag'  = tag + 1
  /\ wire' = Append(wire, [tag |-> tag + 1, msg |-> m])
  /\ UNCHANGED <<open, confirms, abandoned, ledger>>

\* The broker handles the next message and acks it: routed to a queue, or else
\* returned, as mandatory asks.  Nobody listens for returns, so a returned
\* message is dropped.  On a lost connection the answer goes nowhere.
\* The channel of confirmations holds one: of several that nobody takes, the library's
\* reader holds the second and waits, and the others are still on the connection.
BrokerAcks ==
  /\ wire # <<>>
  /\ LET m == Head(wire).msg
     IN  IF m \in Routable
         THEN queued' = queued \cup {m} /\ UNCHANGED returned
         ELSE returned' = returned \cup {m} /\ UNCHANGED queued
  /\ confirms' = IF open THEN Append(confirms, [tag |-> Head(wire).tag, ack |-> TRUE])
                         ELSE confirms
  /\ wire' = Tail(wire)
  /\ UNCHANGED <<open, call, tag, abandoned, acked>>

BrokerNacks ==
  /\ open /\ wire # <<>>
  /\ confirms' = Append(confirms, [tag |-> Head(wire).tag, ack |-> FALSE])
  /\ wire'     = Tail(wire)
  /\ UNCHANGED <<open, call, tag, abandoned, ledger>>

\* waitForConfirm receives an ack, and returns nil.
TakeAck ==
  /\ call # None /\ confirms # <<>> /\ Head(confirms).ack
  /\ acked'    = acked \cup {call}
  /\ confirms' = Tail(confirms)
  /\ call'     = None
  /\ UNCHANGED <<open, tag, wire, abandoned, queued, returned>>

\* waitForConfirm receives a nack, and returns ErrNotConfirmed.
TakeNack ==
  /\ call # None /\ confirms # <<>> /\ ~Head(confirms).ack
  /\ confirms' = Tail(confirms)
  /\ call'     = None
  /\ UNCHANGED <<open, tag, wire, abandoned, ledger>>

\* The notification channel is closed and empty: ErrConnectionClosed.
TakeClosed ==
  /\ call # None /\ ~open /\ confirms = <<>>
  /\ call' = None
  /\ UNCHANGED <<open, tag, wire, confirms, abandoned, ledger>>

\* Mutant: a confirmation that is there when the wait ends is thrown away.
GiveUpDraining ==
  /\ call # None /\ abandoned < MaxAbandon
  /\ abandoned' = abandoned + 1
  /\ call'      = None
  /\ confirms'  = IF confirms # <<>> THEN Tail(confirms) ELSE confirms
  /\ UNCHANGED <<open, tag, wire, ledger>>

\* PublishTimeout, or the caller's context, ends the wait: ErrNotConfirmed.
GiveUp ==
  /\ call # None /\ abandoned < MaxAbandon
  /\ abandoned' = abandoned + 1
  /\ call'      = None
  /\ UNCHANGED <<open, tag, wire, confirms, ledger>>

\* The connection is lost and nothing reopens it.  Confirmations already read
\* from it can still be taken; the broker may still handle what it received.
Disconnect ==
  /\ open
  /\ open' = FALSE
  /\ \E k \in 0..Len(confirms) : confirms' = SubSeq(confirms, 1, k)
  /\ UNCHANGED <<call, tag, wire, abandoned, ledger>>

PublisherNext ==
  \/ \E m \in Messages : Publish(m)
  \/ BrokerAcks \/ BrokerNacks \/ Disconnect
  \/ TakeAck \/ TakeNack \/ TakeClosed \/ GiveUp

PublisherSpec == PublisherInit /\ [][PublisherNext]_publisherVars

-----------------------------------------------------------------------------
(* Properties.                                                             *)

\* The tag of the confirmation the next wait will take.
NextConfirm ==
  IF confirms # <<>> THEN Head(confirms).tag
  ELSE IF wire # <<>> THEN Head(wire).tag ELSE tag + 1

\* waitForConfirm does not look at delivery tags.  A call is answered by the
\* confirmation of the message sent as many calls earlier as calls gave up
\* waiting on this connection: by its own only while none did, and the shift
\* is never made up for.
ConfirmationsLag ==
  call # None /\ (open \/ confirms # <<>>) => NextConfirm = tag - abandoned

\* "mandatory: an event nobody is bound to must not vanish silently": Publish
\* does not return nil for a message no queue received.
NothingVanishesSilently == acked \cap returned = {}
=============================================================================
