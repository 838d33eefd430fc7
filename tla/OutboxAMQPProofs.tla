-------------------------- MODULE OutboxAMQPProofs --------------------------
(***************************************************************************)
(* Which confirmation a call of Publish takes, and the worker over that    *)
(* publisher, for any number of events, batch size, publications and calls *)
(* that give up.                                                           *)
(***************************************************************************)
EXTENDS OutboxAMQP, Integers, TLAPS

(* The publisher by itself.                                                *)

\* The tag of the oldest message whose confirmation nobody has taken.
Oldest == tag - abandoned + (IF call = None THEN 1 ELSE 0)

\* What is waiting to be taken, and behind it what the broker has yet to handle, are
\* numbered without a gap from there on, up to the last message sent.  Once the
\* connection is lost only what was read from it counts.
InSequence ==
  /\ \A i \in 1..Len(confirms) : confirms[i].tag = Oldest + i - 1
  /\ open => /\ \A i \in 1..Len(wire) : wire[i].tag = Oldest + Len(confirms) + i - 1
             /\ Oldest + Len(confirms) + Len(wire) = tag + 1

PublisherInv == PublisherTypeOK /\ InSequence

LEMMA PublishStep ==
  ASSUME PublisherInv, NEW m \in Messages, Publish(m)
  PROVE  PublisherInv'
<1> USE PublisherAssumption
<1> DEFINE sent == [tag |-> tag + 1, msg |-> m]
<1>1. /\ open /\ call = None /\ tag < MaxPublish /\ call' = m /\ tag' = tag + 1
      /\ wire' = Append(wire, sent) /\ sent \in Sent
      /\ UNCHANGED <<open, confirms, abandoned, ledger>>
  BY DEF Publish, PublisherInv, PublisherTypeOK, Sent
<1>2. PublisherTypeOK'
  BY <1>1 DEF PublisherInv, PublisherTypeOK, ledger
<1>3. Oldest' = Oldest /\ Oldest \in Int
  BY <1>1 DEF Oldest, PublisherInv, PublisherTypeOK
<1>4. /\ Len(wire') = Len(wire) + 1 /\ wire'[Len(wire) + 1] = sent
      /\ \A i \in 1..Len(wire) : wire'[i] = wire[i]
      /\ Len(wire) \in Nat /\ Len(confirms) \in Nat
  BY <1>1 DEF PublisherInv, PublisherTypeOK
<1>5. sent.tag = tag + 1
  BY Zenon
<1> HIDE DEF sent
<1>6. InSequence'
  <2>1. \A i \in 1..Len(confirms') : confirms'[i].tag = Oldest' + i - 1
    BY <1>1, <1>3, Zenon DEF PublisherInv, InSequence
  <2>2. \A i \in 1..Len(wire') : wire'[i].tag = Oldest' + Len(confirms') + i - 1
    <3> SUFFICES ASSUME NEW i \in 1..Len(wire')
                 PROVE  wire'[i].tag = Oldest + Len(confirms) + i - 1
      BY <1>1, <1>3, Zenon
    <3>1. CASE i = Len(wire) + 1
      BY <1>1, <1>3, <1>4, <1>5, <3>1 DEF PublisherInv, InSequence, PublisherTypeOK
    <3>2. CASE i \in 1..Len(wire)
      BY <1>1, <1>4, <3>2, Zenon DEF PublisherInv, InSequence
    <3> QED  BY <1>4, <3>1, <3>2
  <2>3. Oldest' + Len(confirms') + Len(wire') = tag' + 1
    BY <1>1, <1>3, <1>4 DEF PublisherInv, InSequence, PublisherTypeOK
  <2> QED  BY <2>1, <2>2, <2>3, Zenon DEF InSequence
<1> QED  BY <1>2, <1>6, Zenon DEF PublisherInv

LEMMA FirstSent ==
  ASSUME PublisherInv, wire # <<>>
  PROVE  Head(wire) \in Sent /\ Head(wire) = wire[1] /\ 1 \in 1..Len(wire)
<1>1. wire \in Seq(Sent)
  BY Zenon DEF PublisherInv, PublisherTypeOK
<1>2. Len(wire) \in Nat \ {0} /\ Head(wire) = wire[1]
  BY <1>1
<1>3. 1 \in 1..Len(wire)
  BY <1>2
<1>4. wire[1] \in Sent
  BY <1>1, <1>3
<1> QED  BY <1>2, <1>3, <1>4, Zenon

\* The broker moves the first message of the wire to the end of the confirmations.
LEMMA BrokerStep ==
  ASSUME PublisherInv, BrokerAcks \/ BrokerNacks
  PROVE  PublisherInv'
<1> USE PublisherAssumption
<1>1. PICK ack \in BOOLEAN :
        /\ wire # <<>> /\ wire' = Tail(wire)
        /\ confirms' = IF open THEN Append(confirms, [tag |-> Head(wire).tag, ack |-> ack])
                               ELSE confirms
        /\ UNCHANGED <<open, call, tag, abandoned, acked>>
        /\ queued' \in SUBSET Messages /\ returned' \in SUBSET Messages
  <2>1. CASE BrokerAcks
    <3>1. Head(wire) \in Sent
      BY <2>1, FirstSent, Zenon DEF BrokerAcks
    <3>2. Head(wire).msg \in Messages
      BY <3>1, Zenon DEF Sent
    <3> QED  BY <2>1, <3>2, Zenon DEF BrokerAcks, PublisherInv, PublisherTypeOK
  <2>2. CASE BrokerNacks
    BY <2>2, Zenon DEF BrokerNacks, PublisherInv, PublisherTypeOK, ledger
  <2> QED  BY <2>1, <2>2, Zenon
<1> DEFINE confirmation == [tag |-> Head(wire).tag, ack |-> ack]
<1>2. /\ Head(wire) = wire[1] /\ Len(wire) \in Nat \ {0} /\ wire \in Seq(Sent)
      /\ confirms \in Seq(Confirmation) /\ Len(confirms) \in Nat
  BY <1>1 DEF PublisherInv, PublisherTypeOK
<1>3. confirmation \in Confirmation /\ confirmation.tag = wire[1].tag
  <2>1. wire[1] \in Sent
    BY <1>2
  <2>2. wire[1].tag \in Nat
    BY <2>1, Zenon DEF Sent
  <2> QED  BY <1>2, <2>2, Zenon DEF Confirmation
<1>4. wire' \in Seq(Sent) /\ Len(wire') = Len(wire) - 1
      /\ \A i \in 1..Len(wire') : wire'[i] = wire[i + 1]
  BY <1>1, <1>2
<1> HIDE DEF confirmation
<1>5. Oldest' = Oldest /\ Oldest \in Int
  BY <1>1 DEF Oldest, PublisherInv, PublisherTypeOK
<1>6. CASE ~open
  <2>1. PublisherTypeOK'
    BY <1>1, <1>4, <1>6, Zenon DEF PublisherInv, PublisherTypeOK
  <2>2. InSequence'
    BY <1>1, <1>5, <1>6, Zenon DEF PublisherInv, InSequence
  <2> QED  BY <2>1, <2>2, Zenon DEF PublisherInv
<1>7. CASE open
  <2>1. /\ confirms' = Append(confirms, confirmation) /\ Len(confirms') = Len(confirms) + 1
        /\ confirms'[Len(confirms) + 1] = confirmation
        /\ \A i \in 1..Len(confirms) : confirms'[i] = confirms[i]
    BY <1>1, <1>2, <1>3, <1>7 DEF confirmation
  <2>2. PublisherTypeOK'
    BY <1>1, <1>2, <1>3, <1>4, <2>1 DEF PublisherInv, PublisherTypeOK
  <2>3. wire[1].tag = Oldest + Len(confirms)
    BY <1>2, <1>5, <1>7 DEF PublisherInv, InSequence
  <2>4. \A i \in 1..Len(confirms') : confirms'[i].tag = Oldest' + i - 1
    <3> SUFFICES ASSUME NEW i \in 1..Len(confirms')
                 PROVE  confirms'[i].tag = Oldest + i - 1
      BY <1>5, Zenon
    <3>1. CASE i = Len(confirms) + 1
      BY <1>2, <1>3, <1>5, <2>1, <2>3, <3>1
    <3>2. CASE i \in 1..Len(confirms)
      BY <2>1, <3>2, Zenon DEF PublisherInv, InSequence
    <3> QED  BY <1>2, <2>1, <3>1, <3>2
  <2>5. \A i \in 1..Len(wire') : wire'[i].tag = Oldest' + Len(confirms') + i - 1
    <3> SUFFICES ASSUME NEW i \in 1..Len(wire')
                 PROVE  wire'[i].tag = Oldest + (Len(confirms) + 1) + i - 1
      BY <1>5, <2>1, Zenon
    <3>1. i \in Int /\ i + 1 \in 1..Len(wire) /\ wire'[i] = wire[i + 1]
      BY <1>2, <1>4
    <3>2. wire[i + 1].tag = Oldest + Len(confirms) + (i + 1) - 1
      BY <1>7, <3>1, Zenon DEF PublisherInv, InSequence
    <3> QED  BY <1>2, <1>5, <3>1, <3>2
  <2>6. Oldest' + Len(confirms') + Len(wire') = tag' + 1
    BY <1>1, <1>2, <1>4, <1>5, <1>7, <2>1 DEF PublisherInv, InSequence
  <2> QED  BY <2>2, <2>4, <2>5, <2>6, Zenon DEF PublisherInv, InSequence
<1> QED  BY <1>6, <1>7, Zenon

\* A wait that takes a confirmation is done with the oldest.
LEMMA TakeStep ==
  ASSUME PublisherInv, TakeAck \/ TakeNack
  PROVE  PublisherInv'
<1> USE PublisherAssumption
<1>1. /\ call # None /\ call' = None /\ confirms # <<>> /\ confirms' = Tail(confirms)
      /\ UNCHANGED <<open, tag, wire, abandoned, queued, returned>>
      /\ acked' \in SUBSET Messages
  BY Zenon DEF TakeAck, TakeNack, PublisherInv, PublisherTypeOK, ledger
<1>2. /\ Len(confirms) \in Nat \ {0} /\ confirms' \in Seq(Confirmation)
      /\ Len(confirms') = Len(confirms) - 1
      /\ \A i \in 1..Len(confirms') : confirms'[i] = confirms[i + 1]
  BY <1>1 DEF PublisherInv, PublisherTypeOK
<1>3. Oldest' = Oldest + 1 /\ Oldest \in Int /\ Len(wire) \in Nat
  BY <1>1 DEF Oldest, PublisherInv, PublisherTypeOK
<1>4. PublisherTypeOK'
  BY <1>1, <1>2, Zenon DEF PublisherInv, PublisherTypeOK
<1>5. InSequence'
  BY <1>1, <1>2, <1>3 DEF PublisherInv, InSequence
<1> QED  BY <1>4, <1>5, Zenon DEF PublisherInv

\* A wait that ends without one leaves it to the next call.
LEMMA GiveUpStep ==
  ASSUME PublisherInv, GiveUp \/ TakeClosed
  PROVE  PublisherInv'
<1> USE PublisherAssumption
<1>1. CASE GiveUp
  <2>1. Oldest' = Oldest
    BY <1>1 DEF GiveUp, Oldest, PublisherInv, PublisherTypeOK
  <2>2. PublisherTypeOK'
    BY <1>1 DEF GiveUp, PublisherInv, PublisherTypeOK, ledger
  <2> QED  BY <1>1, <2>1, <2>2, Zenon DEF GiveUp, PublisherInv, InSequence
<1>2. CASE TakeClosed
  <2>1. PublisherTypeOK'
    BY <1>2, Zenon DEF TakeClosed, PublisherInv, PublisherTypeOK, ledger
  <2> QED  BY <1>2, <2>1 DEF TakeClosed, PublisherInv, InSequence
<1> QED  BY <1>1, <1>2, Zenon

LEMMA DisconnectStep ==
  ASSUME PublisherInv, Disconnect
  PROVE  PublisherInv'
<1>1. PICK k \in 0..Len(confirms) :
        confirms' = SubSeq(confirms, 1, k) /\ open' = FALSE
        /\ UNCHANGED <<call, tag, wire, abandoned, ledger>>
  BY Zenon DEF Disconnect
<1>2. confirms \in Seq(Confirmation) /\ Len(confirms) \in Nat /\ k \in Int /\ k <= Len(confirms)
  BY DEF PublisherInv, PublisherTypeOK
<1>3. /\ confirms' \in Seq(Confirmation) /\ Len(confirms') <= Len(confirms)
      /\ \A i \in 1..Len(confirms') : confirms'[i] = confirms[i]
  <2>1. CASE k = 0
    BY <1>1, <1>2, <2>1
  <2>2. CASE k > 0
    BY <1>1, <1>2, <2>2
  <2> QED  BY <1>2, <2>1, <2>2
<1>4. PublisherTypeOK'
  BY <1>1, <1>3, Zenon DEF PublisherInv, PublisherTypeOK, ledger
<1>5. Oldest' = Oldest
  BY <1>1, Zenon DEF Oldest
<1>6. InSequence'
  BY <1>1, <1>2, <1>3, <1>5 DEF PublisherInv, InSequence
<1> QED  BY <1>4, <1>6, Zenon DEF PublisherInv

LEMMA FreshPublisher ==
  ASSUME NewPublisher, queued \in SUBSET Messages, returned \in SUBSET Messages,
         acked \in SUBSET Messages
  PROVE  PublisherInv
BY PublisherAssumption DEF NewPublisher, PublisherInv, PublisherTypeOK, InSequence, Oldest

LEMMA InvExplainsTheLag ==
  ASSUME PublisherInv
  PROVE  ConfirmationsLag
<1> SUFFICES ASSUME call # None, open \/ confirms # <<>>
             PROVE  NextConfirm = tag - abandoned
  BY Zenon DEF ConfirmationsLag
<1>1. Oldest = tag - abandoned /\ Oldest \in Int
  BY PublisherAssumption DEF Oldest, PublisherInv, PublisherTypeOK
<1>2. CASE confirms # <<>>
  <2>1. Len(confirms) \in Nat \ {0} /\ Head(confirms) = confirms[1]
    BY <1>2 DEF PublisherInv, PublisherTypeOK
  <2>2. confirms[1].tag = Oldest
    BY <1>1, <2>1 DEF PublisherInv, InSequence
  <2> QED  BY <1>1, <1>2, <2>1, <2>2, Zenon DEF NextConfirm
<1>3. CASE confirms = <<>> /\ wire # <<>>
  <2>1. Len(wire) \in Nat \ {0} /\ Head(wire) = wire[1] /\ Len(confirms) = 0 /\ open
    BY <1>3 DEF PublisherInv, PublisherTypeOK
  <2>2. wire[1].tag = Oldest
    BY <1>1, <2>1 DEF PublisherInv, InSequence
  <2> QED  BY <1>1, <1>3, <2>1, <2>2, Zenon DEF NextConfirm
<1>4. CASE confirms = <<>> /\ wire = <<>>
  <2>1. Len(confirms) = 0 /\ Len(wire) = 0 /\ open /\ tag \in Nat
    BY <1>4, PublisherAssumption DEF PublisherInv, PublisherTypeOK
  <2>2. Oldest = tag + 1
    BY <1>1, <2>1 DEF PublisherInv, InSequence
  <2> QED  BY <1>1, <1>4, <2>2, Zenon DEF NextConfirm
<1> QED  BY <1>2, <1>3, <1>4, Zenon

\* waitForConfirm (publisher.go) answers a call with the confirmation of the message sent
\* as many calls earlier as calls gave up, on every connection and whoever calls it.
THEOREM CallsTakeInOrder == PublisherSpec => []ConfirmationsLag
<1>1. PublisherInit => PublisherInv
  BY FreshPublisher, Zenon DEF PublisherInit
<1>2. PublisherInv /\ [PublisherNext]_publisherVars => PublisherInv'
  <2> SUFFICES ASSUME PublisherInv, [PublisherNext]_publisherVars  PROVE PublisherInv'
    BY Zenon
  <2>1. CASE UNCHANGED publisherVars
    BY <2>1, Zenon DEF publisherVars, PublisherInv, PublisherTypeOK, InSequence, Oldest
  <2>2. CASE PublisherNext
    BY <2>2, PublishStep, BrokerStep, TakeStep, GiveUpStep, DisconnectStep, Zenon DEF PublisherNext
  <2> QED  BY <2>1, <2>2, Zenon
<1>3. PublisherInv => ConfirmationsLag
  BY InvExplainsTheLag, Zenon
<1> QED  BY <1>1, <1>2, <1>3, PTL DEF PublisherSpec

-----------------------------------------------------------------------------
(* What the worker has in memory refers to rows that are there.            *)

RowsAndWorkers ==
  /\ row   \in [Events -> RowState]
  /\ pc    \in [Workers -> WorkerState]
  /\ batch \in [Workers -> SUBSET Events]
  /\ event \in [Workers -> Events \cup {NoEvent}]

EventInHand == \A w \in Workers : pc[w] \in Handling => event[w] \in batch[w]

BatchCommitted == \A w \in Workers : \A e \in batch[w] : row[e] \in Committed

Held == RowsAndWorkers /\ EventInHand /\ BatchCommitted

\* No row is taken back once its transaction committed.
StaysCommitted == \A e \in Events : row[e] \in Committed => row'[e] \in Committed

(* How the worker and the publisher are tied together.                     *)

WireCommitted == \A i \in 1..Len(wire) : row[wire[i].msg] \in Committed

\* The call in progress is the one for the event in the worker's hand.
CallInHand == call # None => \A w \in Workers : pc[w] = "publishing" /\ event[w] = call

\* The last tag belongs to that call: its message is the one on the wire, and an ack
\* that carries the tag says it is in a queue.
CallHasLastTag ==
  call # None => /\ \A i \in 1..Len(wire) : wire[i].tag = tag => wire[i].msg = call
                 /\ \A i \in 1..Len(confirms) :
                      confirms[i].tag = tag /\ confirms[i].ack => call \in queued

\* An event about to be marked is in a queue, unless a call gave up before.
MarkIsTrue == abandoned = 0 => \A w \in Workers : pc[w] = "mark" => event[w] \in queued

Tied == WireCommitted /\ CallInHand /\ CallHasLastTag /\ MarkIsTrue

Inv == PublisherInv /\ Held

-----------------------------------------------------------------------------
(* The worker's side.                                                      *)

LEMMA TableHeld ==
  ASSUME Held, \/ \E e \in Events : TableStep(e)
               \/ \E S \in SUBSET Events : DeletePublishedBefore(S)
  PROVE  Held' /\ StaysCommitted /\ UNCHANGED <<pc, batch, event>>
<1>1. UNCHANGED <<pc, batch, event>>
  BY Zenon DEF TableStep, Insert, Commit, Rollback, BackoffElapses, DeletePublishedBefore, workerVars
<1>2. row' \in [Events -> RowState] /\ StaysCommitted
  BY Zenon DEF TableStep, Insert, Commit, Rollback, BackoffElapses, DeletePublishedBefore,
         Held, RowsAndWorkers, RowState, StaysCommitted, Committed
<1> QED  BY <1>1, <1>2, Zenon DEF Held, RowsAndWorkers, EventInHand, BatchCommitted, StaysCommitted

\* Steps of the worker outside Publish: none ends in "mark" that did not begin there.
LEMMA QuietHeld ==
  ASSUME Held, NEW w \in Workers, Quiet(w)
  PROVE  /\ Held' /\ StaysCommitted /\ pc[w] # "publishing"
         /\ \A v \in Workers : pc'[v] = "mark" => pc[v] = "mark" /\ event'[v] = event[v]
<1> USE DEF Held, RowsAndWorkers, EventInHand, BatchCommitted, StaysCommitted, WorkerState,
            Handling, AfterRound
<1>1. CASE ClaimPending(w)
  <2>1. PICK B \in SUBSET Events :
          /\ B \subseteq Claimable
          /\ batch' = [batch EXCEPT ![w] = B]
          /\ pc' = [pc EXCEPT ![w] = IF B = {} THEN "poll" ELSE "publish"]
    BY <1>1, Zenon DEF ClaimPending, IsBatchOf
  <2>2. pc[w] = "top" /\ UNCHANGED <<row, event>>
    BY <1>1, Zenon DEF ClaimPending, tableVars
  <2>3. \A e \in B : row[e] \in Committed
    BY <2>1, Zenon DEF Claimable, Committed
  <2> QED  BY <2>1, <2>2, <2>3, Zenon
<1>2. CASE ClaimFails(w) \/ Poll(w) \/ Stop(w)
  BY <1>2, Zenon DEF ClaimFails, Poll, Stop, tableVars
<1>3. CASE AbandonRound(w)
  BY <1>3, Zenon DEF AbandonRound, tableVars
<1>4. CASE MarkPublished(w) \/ MarkFails(w) \/ Reschedule(w) \/ RescheduleFails(w)
  <2>1. /\ pc[w] \in {"mark", "reschedule"}
        /\ batch' = [batch EXCEPT ![w] = batch[w] \ {event[w]}]
        /\ event' = [event EXCEPT ![w] = NoEvent]
        /\ \E next \in {"top", "poll", "publish"} : pc' = [pc EXCEPT ![w] = next]
    BY <1>4, Zenon DEF MarkPublished, MarkFails, Reschedule, RescheduleFails, Advance
  <2>2. event[w] \in Events /\ row[event[w]] \in Committed
    BY <2>1, Zenon
  <2>3. row' \in [Events -> RowState] /\ StaysCommitted
    BY <1>4, <2>2, Zenon DEF MarkPublished, MarkFails, Reschedule, RescheduleFails, tableVars,
                      RowState, Committed
  <2> QED  BY <2>1, <2>3, Zenon
<1> QED  BY <1>1, <1>2, <1>3, <1>4, Zenon DEF Quiet

LEMMA SendHeld ==
  ASSUME Held, NEW w \in Workers, BeginPublish(w)
  PROVE  /\ Held' /\ StaysCommitted /\ pc[w] = "publish" /\ pc'[w] = "publishing"
         /\ event'[w] \in Events /\ row'[event'[w]] \in Committed
         /\ \A v \in Workers : pc'[v] = "mark" => pc[v] = "mark" /\ event'[v] = event[v]
<1>1. PICK e \in batch[w] : event' = [event EXCEPT ![w] = e]
  BY Zenon DEF BeginPublish
<1>2. /\ pc[w] = "publish" /\ pc' = [pc EXCEPT ![w] = "publishing"]
      /\ UNCHANGED <<row, batch>>
  BY Zenon DEF BeginPublish, tableVars
<1> QED  BY <1>1, <1>2, Zenon DEF Held, RowsAndWorkers, EventInHand, BatchCommitted, StaysCommitted,
                           WorkerState, Handling

LEMMA ControlHeld ==
  ASSUME Held, NEW w \in Workers,
         \/ PublishSucceeds(w) \/ PublishFails(w) \/ Cancel(w) \/ Crash(w) \/ Restart(w)
  PROVE  Held' /\ StaysCommitted /\ row' = row
<1>1. CASE PublishSucceeds(w) \/ PublishFails(w)
  BY <1>1, Zenon DEF PublishSucceeds, PublishFails, tableVars, Held, RowsAndWorkers, EventInHand,
              BatchCommitted, StaysCommitted, WorkerState, Handling
<1>2. CASE Cancel(w) \/ Restart(w)
  BY <1>2, Zenon DEF Cancel, Restart, tableVars, Held, RowsAndWorkers, EventInHand,
              BatchCommitted, StaysCommitted, WorkerState, Handling
<1>3. CASE Crash(w)
  BY <1>3, Zenon DEF Crash, tableVars, Held, RowsAndWorkers, EventInHand,
              BatchCommitted, StaysCommitted, WorkerState, Handling
<1> QED  BY <1>1, <1>2, <1>3, Zenon

-----------------------------------------------------------------------------
(* The publisher's side, driven by the worker.                             *)

LEMMA SameConnection ==
  ASSUME PublisherInv, UNCHANGED publisherVars
  PROVE  PublisherInv'
BY Zenon DEF publisherVars, PublisherInv, PublisherTypeOK, InSequence, Oldest

LEMMA LostWithTheProcess ==
  ASSUME PublisherInv, NEW w \in Workers, ProcessCrash(w) \/ ProcessStart(w)
  PROVE  PublisherInv'
<1>1. CASE ProcessCrash(w)
  <2>1. /\ open' = FALSE /\ call' = None /\ wire' = <<>> /\ confirms' = <<>>
        /\ UNCHANGED <<tag, abandoned, queued, returned, acked>>
    BY <1>1, OneProcess, Zenon DEF ProcessCrash
  <2>2. wire' \in Seq(Sent) /\ confirms' \in Seq(Confirmation)
    BY <2>1
  <2>3. PublisherTypeOK'
    BY <2>1, <2>2, Zenon DEF PublisherInv, PublisherTypeOK
  <2>4. InSequence'
    BY <2>1 DEF InSequence
  <2> QED  BY <2>3, <2>4, Zenon DEF PublisherInv
<1>2. CASE ProcessStart(w)
  BY <1>2, PublisherAssumption, OneProcess DEF ProcessStart, PublisherInv, PublisherTypeOK, InSequence, Oldest
<1> QED  BY <1>1, <1>2, Zenon

LEMMA InvNext == Inv /\ [Next]_vars => Inv'
<1> SUFFICES ASSUME Inv, [Next]_vars  PROVE Inv'
  BY Zenon
<1> USE DEF Inv
<1>1. CASE UNCHANGED vars
  BY <1>1, SameConnection, Zenon DEF vars, outboxVars, publisherVars, Held, RowsAndWorkers,
                              EventInHand, BatchCommitted
<1>2. CASE UNCHANGED publisherVars /\ (\/ \E e \in Events : TableStep(e)
                                       \/ \E S \in SUBSET Events : DeletePublishedBefore(S))
  BY <1>2, TableHeld, SameConnection, Zenon
<1>3. ASSUME NEW w \in Workers, Quiet(w) \/ Cancel(w), UNCHANGED publisherVars  PROVE Inv'
  BY <1>3, QuietHeld, ControlHeld, SameConnection, Zenon
<1>4. ASSUME NEW w \in Workers, Send(w)  PROVE Inv'
  <2>1. Held' /\ event'[w] \in Messages
    BY <1>4, SendHeld, OneProcess, Zenon DEF Send
  <2>2. PublisherInv'
    BY <1>4, <2>1, PublishStep, SameConnection, Zenon DEF Send
  <2> QED  BY <2>1, <2>2, Zenon
<1>5. ASSUME NEW w \in Workers, Confirmed(w) \/ Unconfirmed(w)  PROVE Inv'
  BY <1>5, ControlHeld, TakeStep, GiveUpStep, SameConnection, Zenon DEF Confirmed, Unconfirmed
<1>6. ASSUME NEW w \in Workers, ProcessCrash(w) \/ ProcessStart(w)  PROVE Inv'
  BY <1>6, ControlHeld, LostWithTheProcess, Zenon DEF ProcessCrash, ProcessStart
<1>7. CASE (BrokerAcks \/ BrokerNacks \/ Disconnect) /\ UNCHANGED outboxVars
  <2>1. PublisherInv'
    BY <1>7, BrokerStep, DisconnectStep, Zenon
  <2> QED  BY <1>7, <2>1, Zenon DEF outboxVars, Held, RowsAndWorkers, EventInHand, BatchCommitted
<1> QED  BY <1>1, <1>2, <1>3, <1>4, <1>5, <1>6, <1>7, Zenon DEF Next, WorkerStep

LEMMA InvInit == Init => Inv
<1> SUFFICES ASSUME Init  PROVE Inv
  BY Zenon
<1>1. PublisherInv
  BY FreshPublisher, Zenon DEF Init, PublisherInit
<1>2. Held
  BY Zenon DEF Init, OutboxInit, Held, RowsAndWorkers, EventInHand, BatchCommitted, RowState,
         WorkerState, Handling
<1> QED  BY <1>1, <1>2, Zenon DEF Inv

\* Through timeouts, nacks, lost connections, crashes and restarts of the process, a call
\* of waitForConfirm takes the confirmation as many messages back as calls gave up.
THEOREM WorkerTakesInOrder == SafetySpec => []ConfirmationsLag
<1>1. Inv => ConfirmationsLag
  BY InvExplainsTheLag, Zenon DEF Inv
<1> QED  BY <1>1, InvInit, InvNext, PTL DEF SafetySpec

-----------------------------------------------------------------------------
(* The promise of the outbox, on a connection where no call gave up.       *)

\* Steps that leave the publisher alone.
LEMMA TiedApart ==
  ASSUME Inv, Tied, UNCHANGED publisherVars, StaysCommitted,
         \A v \in Workers : pc'[v] = "mark" => pc[v] = "mark" /\ event'[v] = event[v],
         call # None => \A v \in Workers : pc'[v] = pc[v] /\ event'[v] = event[v]
  PROVE  Tied'
<1>1. WireCommitted'
  <2> SUFFICES ASSUME NEW i \in 1..Len(wire)  PROVE row'[wire[i].msg] \in Committed
    BY Zenon DEF WireCommitted, publisherVars
  <2>1. wire[i] \in Sent
    BY DEF Inv, PublisherInv, PublisherTypeOK
  <2>2. wire[i].msg \in Events
    BY <2>1, OneProcess, Zenon DEF Sent
  <2> QED  BY <2>2, Zenon DEF Tied, WireCommitted, StaysCommitted
<1>2. (CallInHand /\ CallHasLastTag /\ MarkIsTrue)'
  BY Zenon DEF Tied, CallInHand, CallHasLastTag, MarkIsTrue, publisherVars
<1> QED  BY <1>1, <1>2, Zenon DEF Tied

LEMMA TiedSend ==
  ASSUME Inv, Tied, NEW w \in Workers, Send(w)
  PROVE  Tied'
<1>1. /\ StaysCommitted /\ pc[w] = "publish" /\ pc'[w] = "publishing"
      /\ event'[w] \in Events /\ row'[event'[w]] \in Committed
      /\ \A v \in Workers : pc'[v] = "mark" => pc[v] = "mark" /\ event'[v] = event[v]
  BY SendHeld, Zenon DEF Send, Inv
<1>2. call = None /\ \A v \in Workers : v = w
  BY <1>1, OneProcess, Zenon DEF Tied, CallInHand
<1>3. CASE ~open
  BY <1>1, <1>2, <1>3, TiedApart, Zenon DEF Send
<1>4. CASE open
  <2> DEFINE m == event'[w]
             sent == [tag |-> tag + 1, msg |-> m]
  <2>1. /\ call' = m /\ tag' = tag + 1 /\ wire' = Append(wire, sent)
        /\ UNCHANGED <<open, confirms, abandoned, queued>>
    BY <1>4, Zenon DEF Send, Publish, ledger
  <2>2. /\ wire \in Seq(Sent) /\ sent \in Sent /\ Len(wire) \in Nat /\ Len(confirms) \in Nat
        /\ tag \in Nat /\ sent.tag = tag + 1 /\ sent.msg = m /\ Oldest \in Int
    BY <1>1, <1>2, OneProcess, PublisherAssumption
    DEF Inv, PublisherInv, PublisherTypeOK, Sent, Oldest
  <2> HIDE DEF sent, m
  <2>3. /\ Len(wire') = Len(wire) + 1 /\ wire'[Len(wire) + 1] = sent
        /\ \A i \in 1..Len(wire) : wire'[i] = wire[i]
    BY <2>1, <2>2
  <2>4. /\ \A i \in 1..Len(wire) : wire[i].tag # tag'
        /\ \A i \in 1..Len(confirms) : confirms[i].tag # tag'
    <3>1. Oldest + Len(confirms) + Len(wire) = tag + 1
      BY <1>4, Zenon DEF Inv, PublisherInv, InSequence
    <3>2. ASSUME NEW i \in 1..Len(wire)  PROVE wire[i].tag # tag + 1
      <4>1. wire[i].tag = Oldest + Len(confirms) + i - 1
        BY <1>4, Zenon DEF Inv, PublisherInv, InSequence
      <4> QED  BY <2>2, <3>1, <4>1
    <3>3. ASSUME NEW i \in 1..Len(confirms)  PROVE confirms[i].tag # tag + 1
      <4>1. confirms[i].tag = Oldest + i - 1
        BY Zenon DEF Inv, PublisherInv, InSequence
      <4> QED  BY <2>2, <3>1, <4>1
    <3> QED  BY <2>1, <3>2, <3>3, Zenon
  <2>5. WireCommitted'
    <3> SUFFICES ASSUME NEW i \in 1..Len(wire')  PROVE row'[wire'[i].msg] \in Committed
      BY Zenon DEF WireCommitted
    <3>1. CASE i = Len(wire) + 1
      BY <1>1, <2>2, <2>3, <3>1, Zenon DEF m
    <3>2. CASE i \in 1..Len(wire)
      <4>1. wire[i] \in Sent
        BY <2>2, <3>2
      <4>2. wire[i].msg \in Events
        BY <4>1, OneProcess, Zenon DEF Sent
      <4>3. row[wire[i].msg] \in Committed /\ wire'[i] = wire[i]
        BY <2>3, <3>2, Zenon DEF Tied, WireCommitted
      <4> QED  BY <1>1, <4>2, <4>3, Zenon DEF StaysCommitted
    <3> QED  BY <2>2, <2>3, <3>1, <3>2
  <2>6. CallInHand'
    BY <1>1, <1>2, <2>1, Zenon DEF CallInHand, m
  <2>7. CallHasLastTag'
    <3>1. ASSUME NEW i \in 1..Len(wire'), wire'[i].tag = tag'  PROVE wire'[i].msg = call'
      <4>1. i = Len(wire) + 1
        BY <2>2, <2>3, <2>4, <3>1
      <4> QED  BY <2>1, <2>2, <2>3, <4>1, Zenon
    <3> QED  BY <2>1, <2>4, <3>1, Zenon DEF CallHasLastTag
  <2>8. MarkIsTrue'
    BY <1>1, <2>1, Zenon DEF Tied, MarkIsTrue
  <2> QED  BY <2>5, <2>6, <2>7, <2>8, Zenon DEF Tied
<1> QED  BY <1>3, <1>4, Zenon

\* With nobody behind, the ack a call takes is its own.
LEMMA TiedConfirmed ==
  ASSUME Inv, Tied, NEW w \in Workers, Confirmed(w)
  PROVE  Tied'
<1>1. /\ pc' = [pc EXCEPT ![w] = "mark"] /\ UNCHANGED <<row, event>>
      /\ call # None /\ confirms # <<>> /\ Head(confirms).ack /\ call' = None
      /\ UNCHANGED <<wire, abandoned, queued>>
  BY Zenon DEF Confirmed, PublishSucceeds, TakeAck, tableVars
<1>2. abandoned = 0 => call \in queued
  <2> SUFFICES ASSUME abandoned = 0  PROVE call \in queued
    BY Zenon
  <2>1. Oldest = tag /\ tag \in Int
    BY <1>1, PublisherAssumption DEF Inv, PublisherInv, PublisherTypeOK, Oldest
  <2>2. Len(confirms) \in Nat \ {0} /\ Head(confirms) = confirms[1]
    BY <1>1 DEF Inv, PublisherInv, PublisherTypeOK
  <2>3. confirms[1].tag = tag
    BY <2>1, <2>2 DEF Inv, PublisherInv, InSequence
  <2> QED  BY <1>1, <2>2, <2>3 DEF Tied, CallHasLastTag
<1>3. event[w] = call /\ \A v \in Workers : v = w
  BY <1>1, OneProcess, Zenon DEF Tied, CallInHand
<1>4. MarkIsTrue'
  BY <1>1, <1>2, <1>3, Zenon DEF MarkIsTrue
<1>5. (WireCommitted /\ CallInHand /\ CallHasLastTag)'
  BY <1>1, Zenon DEF Tied, WireCommitted, CallInHand, CallHasLastTag
<1> QED  BY <1>4, <1>5, Zenon DEF Tied

LEMMA TiedUnconfirmed ==
  ASSUME Inv, Tied, NEW w \in Workers, Unconfirmed(w)
  PROVE  Tied'
<1>1. /\ pc' = [pc EXCEPT ![w] = "reschedule"] /\ UNCHANGED <<row, event, wire, queued>>
      /\ call' = None
  BY OneProcess, Zenon
  DEF Unconfirmed, PublishFails, TakeNack, TakeClosed, GiveUp, ledger, tableVars, publisherVars
<1>2. \A v \in Workers : pc'[v] # "mark"
  BY <1>1, OneProcess, Zenon DEF Inv, Held, RowsAndWorkers
<1> QED  BY <1>1, <1>2, Zenon DEF Tied, WireCommitted, CallInHand, CallHasLastTag, MarkIsTrue

LEMMA TiedProcess ==
  ASSUME Inv, Tied, NEW w \in Workers, ProcessCrash(w) \/ ProcessStart(w)
  PROVE  Tied'
<1>1. call' = None /\ wire' = <<>> /\ \E to \in {"down", "top"} : pc' = [pc EXCEPT ![w] = to]
  BY OneProcess, Zenon DEF ProcessCrash, ProcessStart, Crash, Restart
<1>2. \A v \in Workers : pc'[v] # "mark"
  BY <1>1, OneProcess, Zenon DEF Inv, Held, RowsAndWorkers
<1>3. Len(wire') = 0
  BY <1>1, Zenon
<1> QED  BY <1>1, <1>2, <1>3 DEF Tied, WireCommitted, CallInHand, CallHasLastTag, MarkIsTrue

LEMMA TiedBroker ==
  ASSUME Routable = Messages, Inv, Tied, BrokerAcks \/ BrokerNacks, UNCHANGED outboxVars
  PROVE  Tied'
<1> DEFINE m == Head(wire).msg
<1>1. PICK ack \in BOOLEAN :
        /\ wire # <<>> /\ wire' = Tail(wire)
        /\ confirms' = IF open THEN Append(confirms, [tag |-> Head(wire).tag, ack |-> ack])
                               ELSE confirms
        /\ UNCHANGED <<call, tag, abandoned>>
        /\ queued \subseteq queued' /\ (ack => m \in queued')
  <2>1. CASE BrokerAcks
    <3>1. Head(wire) \in Sent
      BY <2>1, FirstSent, Zenon DEF BrokerAcks, Inv
    <3>2. m \in Routable
      BY <3>1, Zenon DEF Sent
    <3>3. queued' = queued \cup {m}
      BY <2>1, <3>2, Zenon DEF BrokerAcks
    <3> QED  BY <2>1, <3>3, Zenon DEF BrokerAcks
  <2>2. CASE BrokerNacks
    BY <2>2, Zenon DEF BrokerNacks, ledger
  <2> QED  BY <2>1, <2>2, Zenon
<1> DEFINE confirmation == [tag |-> Head(wire).tag, ack |-> ack]
<1>2. /\ wire \in Seq(Sent) /\ Len(wire) \in Nat \ {0} /\ Head(wire) = wire[1]
      /\ confirms \in Seq(Confirmation) /\ Len(confirms) \in Nat
      /\ confirmation.tag = wire[1].tag /\ confirmation.ack = ack
  BY <1>1 DEF Inv, PublisherInv, PublisherTypeOK
<1>3. /\ Len(wire') = Len(wire) - 1
      /\ \A i \in 1..Len(wire') : i + 1 \in 1..Len(wire) /\ wire'[i] = wire[i + 1]
  BY <1>1, <1>2
<1>4. confirmation \in Confirmation
  <2>1. wire[1] \in Sent
    BY <1>2
  <2> QED  BY <1>2, <2>1, Zenon DEF Sent, Confirmation
<1>5. \A i \in 1..Len(confirms') :
        \/ i \in 1..Len(confirms) /\ confirms'[i] = confirms[i]
        \/ confirms'[i] = confirmation
  <2>1. CASE open
    <3>1. confirms' = Append(confirms, confirmation)
      BY <1>1, <2>1, Zenon
    <3> HIDE DEF confirmation
    <3> QED  BY <1>2, <1>4, <3>1
  <2>2. CASE ~open
    BY <1>1, <2>2, Zenon
  <2> QED  BY <2>1, <2>2, Zenon
<1> HIDE DEF confirmation
<1>6. WireCommitted' /\ CallInHand' /\ MarkIsTrue'
  BY <1>1, <1>3, Zenon DEF Tied, WireCommitted, CallInHand, MarkIsTrue, outboxVars
<1>7. CallHasLastTag'
  <2> SUFFICES ASSUME call # None
               PROVE  /\ \A i \in 1..Len(wire') : wire'[i].tag = tag => wire'[i].msg = call
                      /\ \A i \in 1..Len(confirms') :
                           confirms'[i].tag = tag /\ confirms'[i].ack => call \in queued'
    BY <1>1, Zenon DEF CallHasLastTag
  <2>1. \A i \in 1..Len(wire') : wire'[i].tag = tag => wire'[i].msg = call
    BY <1>3, Zenon DEF Tied, CallHasLastTag
  <2>2. confirmation.tag = tag /\ confirmation.ack => call \in queued'
    <3>1. 1 \in 1..Len(wire) /\ m = wire[1].msg
      BY <1>2
    <3>2. wire[1].tag = tag => wire[1].msg = call
      BY <3>1, Zenon DEF Tied, CallHasLastTag
    <3> HIDE DEF m
    <3> QED  BY <1>1, <1>2, <3>1, <3>2, Zenon
  <2>3. \A i \in 1..Len(confirms') :
          confirms'[i].tag = tag /\ confirms'[i].ack => call \in queued'
    BY <1>1, <1>5, <2>2, Zenon DEF Tied, CallHasLastTag
  <2> QED  BY <2>1, <2>3, Zenon
<1> QED  BY <1>6, <1>7, Zenon DEF Tied

LEMMA TiedDisconnect ==
  ASSUME Inv, Tied, Disconnect, UNCHANGED outboxVars
  PROVE  Tied'
<1>1. PICK k \in 0..Len(confirms) :
        confirms' = SubSeq(confirms, 1, k) /\ UNCHANGED <<call, tag, wire, abandoned, queued>>
  BY Zenon DEF Disconnect, ledger
<1>2. confirms \in Seq(Confirmation) /\ Len(confirms) \in Nat /\ k \in Int /\ k <= Len(confirms)
  BY DEF Inv, PublisherInv, PublisherTypeOK
<1>3. \A i \in 1..Len(confirms') : i \in 1..Len(confirms) /\ confirms'[i] = confirms[i]
  <2>1. CASE k = 0
    BY <1>1, <1>2, <2>1
  <2>2. CASE k > 0
    BY <1>1, <1>2, <2>2
  <2> QED  BY <1>2, <2>1, <2>2
<1> QED  BY <1>1, <1>3, Zenon
         DEF Tied, WireCommitted, CallInHand, CallHasLastTag, MarkIsTrue, outboxVars

LEMMA TiedNext ==
  ASSUME Routable = Messages, Inv, Tied, [Next]_vars
  PROVE  Tied'
<1>1. CASE UNCHANGED vars
  BY <1>1, TiedApart, Zenon DEF vars, outboxVars, publisherVars, StaysCommitted
<1>2. CASE UNCHANGED publisherVars /\ (\/ \E e \in Events : TableStep(e)
                                       \/ \E S \in SUBSET Events : DeletePublishedBefore(S))
  BY <1>2, TableHeld, TiedApart, Zenon DEF Inv
<1>3. ASSUME NEW w \in Workers, Quiet(w), UNCHANGED publisherVars  PROVE Tied'
  <2>1. call = None
    BY <1>3, QuietHeld, Zenon DEF Inv, Tied, CallInHand
  <2> QED  BY <1>3, <2>1, QuietHeld, TiedApart, Zenon DEF Inv
<1>4. ASSUME NEW w \in Workers, Cancel(w), UNCHANGED publisherVars  PROVE Tied'
  <2>1. UNCHANGED <<pc, event>>
    BY <1>4, Zenon DEF Cancel
  <2> QED  BY <1>4, <2>1, ControlHeld, TiedApart, Zenon DEF Inv
<1>5. CASE (BrokerAcks \/ BrokerNacks \/ Disconnect) /\ UNCHANGED outboxVars
  BY <1>5, TiedBroker, TiedDisconnect, Zenon
<1> QED
  BY <1>1, <1>2, <1>3, <1>4, <1>5, TiedSend, TiedConfirmed, TiedUnconfirmed, TiedProcess, Zenon
  DEF Next, WorkerStep

LEMMA TiedInit == Init => Tied
BY DEF Init, OutboxInit, PublisherInit, NewPublisher, Tied, WireCommitted, CallInHand,
       CallHasLastTag, MarkIsTrue

Promised == ALO!Next \/ UNCHANGED <<Recorded, queued, Forgotten>>

LEMMA StepKeepsThePromise ==
  ASSUME Routable = Messages, Inv, Tied, [Next]_vars, abandoned = 0
  PROVE  Promised
<1>1. ASSUME UNCHANGED <<row, queued>>  PROVE Promised
  BY <1>1, Zenon DEF Promised, Recorded, Forgotten
<1>2. ASSUME NEW e \in Events, TableStep(e), UNCHANGED publisherVars  PROVE Promised
  <2>1. CASE Commit(e)
    <3>1. ALO!Record(e)
      BY <1>2, <2>1, Zenon DEF Commit, ALO!Record, Recorded, Forgotten, Committed, Settled,
                        publisherVars, Inv, Held, RowsAndWorkers
    <3> QED  BY <3>1, Zenon DEF Promised, ALO!Next
  <2>2. CASE Insert(e) \/ Rollback(e)
    <3>1. \A o \in Events : \/ row'[o] = row[o]
                            \/ row[o] \notin Committed /\ row'[o] \notin Committed
      BY <2>2, Zenon DEF Insert, Rollback, Committed, Inv, Held, RowsAndWorkers
    <3> QED  BY <1>2, <3>1, Zenon DEF Promised, Recorded, Forgotten, Committed, Settled, publisherVars
  <2>3. CASE BackoffElapses(e)
    BY <1>1, <1>2, <2>3, Zenon DEF BackoffElapses, publisherVars
  <2> QED  BY <1>2, <2>1, <2>2, <2>3, Zenon DEF TableStep
<1>3. ASSUME NEW S \in SUBSET Events, DeletePublishedBefore(S), UNCHANGED publisherVars
      PROVE  Promised
  BY <1>3, Zenon DEF DeletePublishedBefore, Promised, Recorded, Forgotten, Committed, Settled,
              publisherVars
<1>4. ASSUME NEW w \in Workers, MarkPublished(w), UNCHANGED publisherVars  PROVE Promised
  <2>1. PICK e \in Events : e = event[w] /\ e \in queued /\ row[e] \in Committed
    BY <1>4, Zenon DEF MarkPublished, Inv, Held, RowsAndWorkers, EventInHand, BatchCommitted,
                Handling, Tied, MarkIsTrue
  <2>2. ALO!Settle(e)
    BY <1>4, <2>1, Zenon DEF MarkPublished, ALO!Settle, Recorded, Forgotten, Committed, Settled,
                      publisherVars, Inv, Held, RowsAndWorkers
  <2> QED  BY <2>2, Zenon DEF Promised, ALO!Next
<1>5. ASSUME NEW w \in Workers, Quiet(w) \/ Cancel(w), UNCHANGED publisherVars  PROVE Promised
  <2>1. CASE ~MarkPublished(w)
    BY <1>1, <1>5, <2>1, Zenon
    DEF Quiet, ClaimPending, ClaimFails, AbandonRound, MarkFails, Reschedule,
        RescheduleFails, Poll, Stop, Cancel, tableVars, publisherVars
  <2> QED  BY <1>4, <1>5, <2>1, Zenon
<1>6. ASSUME NEW w \in Workers,
             Send(w) \/ Confirmed(w) \/ Unconfirmed(w) \/ ProcessCrash(w) \/ ProcessStart(w)
      PROVE  Promised
  BY <1>1, <1>6, Zenon
  DEF Send, BeginPublish, Publish, Confirmed, PublishSucceeds, TakeAck, Unconfirmed,
      PublishFails, TakeNack, TakeClosed, GiveUp, ProcessCrash, Crash, ProcessStart, Restart,
      ledger, tableVars, publisherVars
<1>7. ASSUME BrokerAcks, UNCHANGED outboxVars  PROVE Promised
  <2>1. Head(wire) \in Sent /\ Head(wire) = wire[1] /\ 1 \in 1..Len(wire)
    BY <1>7, FirstSent, Zenon DEF BrokerAcks, Inv
  <2>2. PICK e \in Events : e = Head(wire).msg /\ row[e] \in Committed
    BY <2>1, OneProcess, Zenon DEF Sent, Tied, WireCommitted
  <2>3. queued' = queued \cup {e} /\ row' = row
    BY <1>7, <2>2, OneProcess, Zenon DEF BrokerAcks, outboxVars
  <2>4. ALO!Deliver(e)
    BY <2>2, <2>3, Zenon DEF ALO!Deliver, Recorded, Forgotten
  <2> QED  BY <2>4, Zenon DEF Promised, ALO!Next
<1>8. CASE (BrokerNacks \/ Disconnect) /\ UNCHANGED outboxVars
  BY <1>1, <1>8, Zenon DEF BrokerNacks, Disconnect, ledger, outboxVars
<1>9. CASE UNCHANGED vars
  BY <1>1, <1>9, Zenon DEF vars, outboxVars, publisherVars
<1> QED
  BY <1>2, <1>3, <1>5, <1>6, <1>7, <1>8, <1>9, Zenon DEF Next, WorkerStep

\* When some queue is bound for every event, the worker over the real publisher only
\* marks an event published once it is in a queue, on every connection on which no call
\* of Publish gave up waiting, crashes and restarts included.
THEOREM PromiseHoldsUntilAbandoned ==
  ASSUME Routable = Messages
  PROVE  SafetySpec => KeepsThePromiseUntilAbandoned
<1>1. Init => Inv /\ Tied
  BY InvInit, TiedInit, Zenon
<1>2. Inv /\ Tied /\ [Next]_vars => (Inv /\ Tied)'
  BY InvNext, TiedNext, Zenon
<1>3. Inv /\ Tied /\ [Next]_vars
        => [abandoned = 0 => ALO!Next \/ UNCHANGED <<Recorded, queued, Forgotten>>]_vars
  BY StepKeepsThePromise, Zenon DEF Promised
<1> QED  BY <1>1, <1>2, <1>3, PTL DEF SafetySpec, KeepsThePromiseUntilAbandoned
=============================================================================
