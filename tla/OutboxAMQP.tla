----------------------------- MODULE OutboxAMQP -----------------------------
(***************************************************************************)
(* One service process: its outbox worker publishes through the code of    *)
(* amqp.Publisher, over the one connection the process opens at start-up   *)
(* (serve in cmd/server/main.go).                                          *)
(***************************************************************************)
EXTENDS Outbox, Publisher

ASSUME OneProcess ==
  /\ \E w \in Workers : Workers = {w}
  /\ Messages = Events /\ None = NoEvent

vars == <<outboxVars, publisherVars>>

TypeOK == OutboxTypeOK /\ PublisherTypeOK

Init == OutboxInit /\ PublisherInit

-----------------------------------------------------------------------------
\* publishOne calls Publish; on a lost connection nothing is sent.
Send(w) ==
  /\ BeginPublish(w)
  /\ IF open THEN Publish(event'[w]) ELSE UNCHANGED publisherVars

\* Mutant: no publisher confirms, sending is enough.
ConfirmedOnceSent(w) ==
  /\ PublishSucceeds(w)
  /\ call # NoEvent /\ call' = NoEvent
  /\ UNCHANGED <<open, tag, wire, confirms, abandoned, queued, returned, acked>>

Confirmed(w) == PublishSucceeds(w) /\ TakeAck

\* Publish returns an error: a nack, the timeout, or a connection that is lost.
Unconfirmed(w) ==
  /\ PublishFails(w)
  /\ \/ TakeNack \/ TakeClosed \/ GiveUp
     \/ call = NoEvent /\ UNCHANGED publisherVars

\* The connection dies with the process, and with it what is on the wire.
ProcessCrash(w) ==
  /\ Crash(w)
  /\ open' = FALSE /\ call' = NoEvent /\ wire' = <<>> /\ confirms' = <<>>
  /\ UNCHANGED <<tag, abandoned, queued, returned, acked>>

\* A new process starts with a new connection and a new publisher.
ProcessStart(w) ==
  /\ Restart(w)
  /\ open' = TRUE /\ tag' = 0 /\ abandoned' = 0 /\ call' = NoEvent
  /\ wire' = <<>> /\ confirms' = <<>>
  /\ UNCHANGED <<queued, returned, acked>>

Quiet(w) ==
  \/ ClaimPending(w) \/ ClaimFails(w) \/ AbandonRound(w)
  \/ MarkPublished(w) \/ MarkFails(w) \/ Reschedule(w) \/ RescheduleFails(w)
  \/ Poll(w) \/ Stop(w)

WorkerStep(w) ==
  \/ Quiet(w) /\ UNCHANGED publisherVars
  \/ Send(w) \/ Confirmed(w) \/ Unconfirmed(w)

TableStep(e) == Insert(e) \/ Commit(e) \/ Rollback(e) \/ BackoffElapses(e)

Next ==
  \/ \E e \in Events : TableStep(e) /\ UNCHANGED publisherVars
  \/ \E S \in SUBSET Events : DeletePublishedBefore(S) /\ UNCHANGED publisherVars
  \/ \E w \in Workers :
       \/ WorkerStep(w)
       \/ Cancel(w) /\ UNCHANGED publisherVars
       \/ ProcessCrash(w) \/ ProcessStart(w)
  \/ (BrokerAcks \/ BrokerNacks \/ Disconnect) /\ UNCHANGED outboxVars

SafetySpec == Init /\ [][Next]_vars

-----------------------------------------------------------------------------
(* Properties.                                                             *)

Recorded  == {e \in Events : row[e] \in Committed}
Forgotten == {e \in Events : row[e] \in Settled}

ALO == INSTANCE AtLeastOnce WITH Event <- Events,
         recorded <- Recorded, delivered <- queued, settled <- Forgotten

\* The worker and the publisher together keep the promise of the outbox: "the
\* worker must only mark an event published after the broker has taken
\* responsibility for it".
KeepsThePromise == ALO!Safety

\* They do keep it on a connection where no call gave up waiting, whatever
\* happened on earlier connections; a restart wipes the slate clean.
KeepsThePromiseUntilAbandoned ==
  [][abandoned = 0 => ALO!Next \/ UNCHANGED <<Recorded, queued, Forgotten>>]_vars
=============================================================================
