------------------------- MODULE OutboxSystemProofs -------------------------
(***************************************************************************)
(* Proofs about OutboxSystem, for any number of workers and events, any    *)
(* batch size and any bounds.                                              *)
(***************************************************************************)
EXTENDS OutboxSystem, TLAPS

(* The inductive invariant: what is true at every point of publishOne.     *)

\* A worker inside publishOne works on an event of its batch.
EventInHand == \A w \in Workers : pc[w] \in Handling => event[w] \in batch[w]

\* A batch only holds events of committed transactions.
BatchCommitted == \A w \in Workers : \A e \in batch[w] : row[e] \in Committed

\* A worker that is about to mark an event has seen the broker take it.
MarkFollowsTake == \A w \in Workers : pc[w] = "mark" => copies[event[w]] > 0

\* What the broker holds for a call in progress is a copy of its event.
HeldIsTaken ==
  \A w \in Workers : held[w] => pc[w] = "publishing" /\ copies[event[w]] > 0

\* A claimed count of attempts is at most behind the table.
SeenNeverAhead == \A w \in Workers, e \in Events : seen[w][e] <= attempts[e]

Inv ==
  /\ TypeOK
  /\ EventInHand
  /\ BatchCommitted
  /\ MarkFollowsTake
  /\ HeldIsTaken
  /\ NoEventLost
  /\ NoPhantomEvent
  /\ SeenNeverAhead
  /\ BackoffNeverAhead

-----------------------------------------------------------------------------
(* The invariant holds and is preserved.                                   *)

\* Inv holds initially.
LEMMA InvInit == Init => Inv
  BY OutboxAssumption, CopyAssumption
  DEF Init, OutboxInit, Inv, TypeOK, OutboxTypeOK, EventInHand, BatchCommitted,
      MarkFollowsTake, HeldIsTaken, NoEventLost, NoPhantomEvent, SeenNeverAhead,
      BackoffNeverAhead, RowState, WorkerState, Handling, Settled, NoEvent

\* A step of a business transaction, of the clock or of the housekeeping
\* preserves Inv.
LEMMA TableStepInv ==
  ASSUME Inv, UNCHANGED brokerVars,
         \/ \E e \in Events :
              Insert(e) \/ Commit(e) \/ Rollback(e) \/ BackoffElapses(e)
         \/ \E S \in SUBSET Events : DeletePublishedBefore(S)
  PROVE  Inv'
<1>. USE DEF Inv, TypeOK, OutboxTypeOK, EventInHand, BatchCommitted,
             MarkFollowsTake, HeldIsTaken, NoEventLost, NoPhantomEvent,
             SeenNeverAhead, BackoffNeverAhead, RowState, Settled, Committed,
             brokerVars, workerVars
<1>1. ASSUME NEW e \in Events, Insert(e) PROVE Inv'
  BY <1>1, Zenon DEF Insert
<1>2. ASSUME NEW e \in Events, Commit(e) PROVE Inv'
  BY <1>2, Zenon DEF Commit
<1>3. ASSUME NEW e \in Events, Rollback(e) PROVE Inv'
  BY <1>3, Zenon DEF Rollback
<1>4. ASSUME NEW e \in Events, BackoffElapses(e) PROVE Inv'
  BY <1>4, Zenon DEF BackoffElapses
<1>5. ASSUME NEW S \in SUBSET Events, DeletePublishedBefore(S) PROVE Inv'
  BY <1>5, Zenon DEF DeletePublishedBefore
<1>. QED
  BY <1>1, <1>2, <1>3, <1>4, <1>5, Zenon

\* A claim preserves Inv.
LEMMA ClaimInv ==
  ASSUME Inv, UNCHANGED brokerVars, NEW w \in Workers, ClaimPending(w)
  PROVE  Inv'
<1>1. PICK B \in SUBSET Events :
        /\ \A e \in B : row[e] = "pending"
        /\ batch' = [batch EXCEPT ![w] = B]
        /\ seen'  = [seen EXCEPT ![w] =
                       [e \in Events |-> IF e \in B THEN attempts[e] ELSE 0]]
        /\ pc' = [pc EXCEPT ![w] = IF B = {} THEN "poll" ELSE "publish"]
  BY Zenon DEF ClaimPending, IsBatchOf, Claimable
<1>2. pc[w] = "top" /\ UNCHANGED <<tableVars, event, progress, canceled>>
  BY Zenon DEF ClaimPending
<1>3. TypeOK'
  <2>1. seen' \in [Workers -> [Events -> 0..AttemptCap]]
    <3>1. [e \in Events |-> IF e \in B THEN attempts[e] ELSE 0]
            \in [Events -> 0..AttemptCap]
      BY OutboxAssumption DEF Inv, TypeOK, OutboxTypeOK
    <3>. QED
      BY <1>1, <3>1, Zenon DEF Inv, TypeOK, OutboxTypeOK
  <2>. QED
    BY <1>1, <1>2, <2>1, Zenon
    DEF Inv, TypeOK, OutboxTypeOK, WorkerState, tableVars, brokerVars
<1>4. (EventInHand /\ BatchCommitted)'
  BY <1>1, <1>2, Zenon DEF Inv, TypeOK, OutboxTypeOK, EventInHand, BatchCommitted,
                    Handling, Committed, tableVars
<1>5. (MarkFollowsTake /\ HeldIsTaken)'
  BY <1>1, <1>2, Zenon DEF Inv, TypeOK, OutboxTypeOK, MarkFollowsTake, HeldIsTaken,
                    brokerVars
<1>6. SeenNeverAhead'
  BY <1>1, <1>2 DEF Inv, TypeOK, OutboxTypeOK, SeenNeverAhead, tableVars
<1>7. (NoEventLost /\ NoPhantomEvent /\ BackoffNeverAhead)'
  BY <1>2, Zenon DEF Inv, NoEventLost, NoPhantomEvent, BackoffNeverAhead, tableVars,
              brokerVars
<1>. QED
  BY <1>3, <1>4, <1>5, <1>6, <1>7, Zenon DEF Inv

\* A step that only moves a worker outside publishOne, or cancels its context,
\* preserves Inv.
LEMMA ControlInv ==
  ASSUME Inv, UNCHANGED brokerVars, NEW w \in Workers,
         ClaimFails(w) \/ Poll(w) \/ Stop(w) \/ Cancel(w) \/ Restart(w)
  PROVE  Inv'
<1>1. UNCHANGED <<tableVars, batch, seen, event, progress>>
  BY Zenon DEF ClaimFails, Poll, Stop, Cancel, Restart
<1>2. \/ pc' = pc
      \/ /\ pc[w] \in {"top", "poll", "stopped", "down"}
         /\ pc' \in {[pc EXCEPT ![w] = s] : s \in {"top", "poll", "stopped"}}
  BY Zenon DEF Inv, TypeOK, OutboxTypeOK, WorkerState, Running,
         ClaimFails, Poll, Stop, Cancel, Restart
<1>3. canceled' \in [Workers -> BOOLEAN]
  BY Zenon DEF Inv, TypeOK, OutboxTypeOK, ClaimFails, Poll, Stop, Cancel, Restart
<1>4. TypeOK'
  BY <1>1, <1>2, <1>3, Zenon
  DEF Inv, TypeOK, OutboxTypeOK, WorkerState, tableVars, brokerVars
<1>5. (EventInHand /\ BatchCommitted /\ MarkFollowsTake /\ HeldIsTaken)'
  BY <1>1, <1>2, Zenon
  DEF Inv, TypeOK, OutboxTypeOK, EventInHand, BatchCommitted, MarkFollowsTake,
      HeldIsTaken, Handling, Committed, tableVars, brokerVars
<1>6. (NoEventLost /\ NoPhantomEvent /\ SeenNeverAhead /\ BackoffNeverAhead)'
  BY <1>1, Zenon DEF Inv, NoEventLost, NoPhantomEvent, SeenNeverAhead, BackoffNeverAhead,
              tableVars, brokerVars
<1>. QED
  BY <1>4, <1>5, <1>6, Zenon DEF Inv

\* A worker that drops its batch, at a canceled round or in a crash, preserves Inv.
LEMMA DropBatchInv ==
  ASSUME Inv, NEW w \in Workers,
         (AbandonRound(w) /\ UNCHANGED brokerVars) \/ ProcessCrash(w)
  PROVE  Inv'
<1>1. /\ UNCHANGED <<tableVars, copies>>
      /\ batch' = [batch EXCEPT ![w] = {}]
      /\ seen'  = [seen EXCEPT ![w] = [e \in Events |-> 0]]
      /\ pc' \in {[pc EXCEPT ![w] = s] : s \in {"top", "poll", "down"}}
      /\ held' = [held EXCEPT ![w] = FALSE]
  BY Zenon DEF Inv, TypeOK, OutboxTypeOK, HeldIsTaken, AbandonRound, AfterRound,
         ProcessCrash, Crash, brokerVars
<1>2. /\ event' \in [Workers -> Events \cup {NoEvent}]
      /\ progress' \in [Workers -> BOOLEAN]
      /\ canceled' \in [Workers -> BOOLEAN]
      /\ \A v \in Workers \ {w} : event'[v] = event[v]
  BY Zenon DEF Inv, TypeOK, OutboxTypeOK, AbandonRound, ProcessCrash, Crash
<1>3. abandoned' \in SUBSET Events /\ disturbed' \in SUBSET Events
  BY DEF Inv, TypeOK, OutboxTypeOK, EventInHand, AbandonRound, ProcessCrash,
         Crash, LeftBehind, Handling, brokerVars
<1>4. \A e \in abandoned' : row[e] \in Committed
  BY DEF Inv, TypeOK, OutboxTypeOK, EventInHand, BatchCommitted, NoPhantomEvent,
         AbandonRound, ProcessCrash, Crash, LeftBehind, Handling, brokerVars
<1>5. TypeOK'
  <2>1. seen' \in [Workers -> [Events -> 0..AttemptCap]]
    <3>1. [e \in Events |-> 0] \in [Events -> 0..AttemptCap]
      BY OutboxAssumption
    <3>. QED
      BY <1>1, <3>1, Zenon DEF Inv, TypeOK, OutboxTypeOK
  <2>2. batch' \in [Workers -> SUBSET Events] /\ pc' \in [Workers -> WorkerState]
    BY <1>1, Zenon DEF Inv, TypeOK, OutboxTypeOK, WorkerState
  <2>3. copies' \in [Events -> 0..CopyCap] /\ held' \in [Workers -> BOOLEAN]
    BY <1>1, Zenon DEF Inv, TypeOK
  <2>. QED
    BY <1>1, <1>2, <1>3, <2>1, <2>2, <2>3, Zenon
    DEF Inv, TypeOK, OutboxTypeOK, tableVars
<1>6. (EventInHand /\ BatchCommitted /\ MarkFollowsTake /\ HeldIsTaken)'
  BY <1>1, <1>2, Zenon
  DEF Inv, TypeOK, OutboxTypeOK, EventInHand, BatchCommitted, MarkFollowsTake,
      HeldIsTaken, Handling, tableVars
<1>7. (NoEventLost /\ NoPhantomEvent /\ BackoffNeverAhead)'
  BY <1>1, <1>4, Zenon DEF Inv, NoEventLost, NoPhantomEvent, BackoffNeverAhead, tableVars
<1>8. SeenNeverAhead'
  BY <1>1 DEF Inv, TypeOK, OutboxTypeOK, SeenNeverAhead, tableVars
<1>. QED
  BY <1>5, <1>6, <1>7, <1>8, Zenon DEF Inv

\* Sending an event preserves Inv.
LEMMA SendInv ==
  ASSUME Inv, NEW w \in Workers, Send(w)
  PROVE  Inv'
<1>1. PICK e \in batch[w] : event' = [event EXCEPT ![w] = e]
  BY Zenon DEF Send, BeginPublish
<1>2. /\ pc[w] = "publish" /\ pc' = [pc EXCEPT ![w] = "publishing"]
      /\ UNCHANGED <<tableVars, batch, seen, progress, canceled, brokerVars>>
  BY Zenon DEF Send, BeginPublish
<1>3. TypeOK'
  BY <1>1, <1>2, Zenon DEF Inv, TypeOK, OutboxTypeOK, WorkerState, tableVars, brokerVars
<1>4. (EventInHand /\ BatchCommitted /\ MarkFollowsTake /\ HeldIsTaken)'
  BY <1>1, <1>2, Zenon
  DEF Inv, TypeOK, OutboxTypeOK, EventInHand, BatchCommitted, MarkFollowsTake,
      HeldIsTaken, Handling, tableVars, brokerVars
<1>5. (NoEventLost /\ NoPhantomEvent /\ SeenNeverAhead /\ BackoffNeverAhead)'
  BY <1>2, Zenon DEF Inv, NoEventLost, NoPhantomEvent, SeenNeverAhead, BackoffNeverAhead,
              tableVars, brokerVars
<1>. QED
  BY <1>3, <1>4, <1>5, Zenon DEF Inv

\* The broker taking a copy preserves Inv.
LEMMA TakeInv ==
  ASSUME Inv, NEW e \in Events, row[e] \in Committed,
         copies' = [copies EXCEPT ![e] = OneMore(@)],
         UNCHANGED outboxVars, abandoned' \subseteq abandoned, UNCHANGED disturbed,
         held' \in [Workers -> BOOLEAN],
         \A v \in Workers : held'[v] => held[v] \/ (pc[v] = "publishing" /\ event[v] = e)
  PROVE  Inv'
<1>1. /\ copies' \in [Events -> 0..CopyCap]
      /\ copies'[e] > 0
      /\ \A o \in Events : copies'[o] >= copies[o]
  BY CopyAssumption DEF Inv, TypeOK, OneMore
<1>2. TypeOK'
  BY <1>1, Zenon DEF Inv, TypeOK, OutboxTypeOK, outboxVars
<1>3. \A v \in Workers : pc[v] \in Handling => event[v] \in Events
  BY Zenon DEF Inv, TypeOK, OutboxTypeOK, EventInHand
<1>4. (MarkFollowsTake /\ HeldIsTaken)'
  BY <1>1, <1>3, Zenon DEF Inv, TypeOK, MarkFollowsTake, HeldIsTaken, Handling, outboxVars
<1>5. NoEventLost'
  BY <1>1, Zenon DEF Inv, TypeOK, NoEventLost, outboxVars
<1>6. NoPhantomEvent'
  BY Zenon DEF Inv, TypeOK, NoPhantomEvent, outboxVars
<1>7. (EventInHand /\ BatchCommitted /\ SeenNeverAhead /\ BackoffNeverAhead)'
  BY Zenon DEF Inv, EventInHand, BatchCommitted, SeenNeverAhead, BackoffNeverAhead,
         outboxVars
<1>. QED
  BY <1>2, <1>4, <1>5, <1>6, <1>7, Zenon DEF Inv

\* The broker taking the copy of a call in progress preserves Inv.
LEMMA BrokerTakesInv ==
  ASSUME Inv, NEW w \in Workers, BrokerTakes(w)
  PROVE  Inv'
<1>1. event[w] \in Events /\ row[event[w]] \in Committed
  BY Zenon DEF Inv, TypeOK, OutboxTypeOK, EventInHand, BatchCommitted, Handling, BrokerTakes
<1>2. held' \in [Workers -> BOOLEAN]
      /\ \A v \in Workers : held'[v] =>
           held[v] \/ (pc[v] = "publishing" /\ event[v] = event[w])
  BY Zenon DEF Inv, TypeOK, BrokerTakes
<1>. QED
  BY <1>1, <1>2, TakeInv, Zenon DEF BrokerTakes

\* The broker taking a copy whose call ended preserves Inv.
LEMMA BrokerTakesLateInv ==
  ASSUME Inv, NEW e \in Events, BrokerTakesLate(e)
  PROVE  Inv'
  BY TakeInv, Zenon DEF BrokerTakesLate, Inv, TypeOK, NoPhantomEvent

\* The end of a call to Publish preserves Inv.
LEMMA CallEndsInv ==
  ASSUME Inv, NEW w \in Workers, Confirmed(w) \/ Unconfirmed(w)
  PROVE  Inv'
<1>1. /\ pc[w] = "publishing"
      /\ \/ pc' = [pc EXCEPT ![w] = "mark"] /\ held[w]
         \/ pc' = [pc EXCEPT ![w] = "reschedule"]
      /\ UNCHANGED <<tableVars, batch, seen, event, progress, canceled, copies>>
      /\ held' = [held EXCEPT ![w] = FALSE]
  BY Zenon DEF Confirmed, Unconfirmed, PublishSucceeds, PublishFails
<1>2. event[w] \in Events /\ row[event[w]] \in Committed
  BY <1>1, Zenon DEF Inv, TypeOK, OutboxTypeOK, EventInHand, BatchCommitted, Handling
<1>3. /\ abandoned' \subseteq abandoned \cup {event[w]}
      /\ disturbed' \subseteq disturbed \cup {event[w]}
  BY Zenon DEF Confirmed, Unconfirmed, LeftBehind
<1>4. TypeOK'
  BY <1>1, <1>2, <1>3, Zenon DEF Inv, TypeOK, OutboxTypeOK, WorkerState, tableVars
<1>5. (EventInHand /\ BatchCommitted /\ MarkFollowsTake /\ HeldIsTaken)'
  BY <1>1, Zenon
  DEF Inv, TypeOK, OutboxTypeOK, EventInHand, BatchCommitted, MarkFollowsTake,
      HeldIsTaken, Handling, tableVars
<1>6. (NoEventLost /\ NoPhantomEvent /\ SeenNeverAhead /\ BackoffNeverAhead)'
  BY <1>1, <1>2, <1>3, Zenon DEF Inv, NoEventLost, NoPhantomEvent, SeenNeverAhead,
                          BackoffNeverAhead, tableVars
<1>. QED
  BY <1>4, <1>5, <1>6, Zenon DEF Inv

\* The end of publishOne preserves what Inv says of the workers.
LEMMA AdvanceWorkers ==
  ASSUME Inv, NEW w \in Workers, pc[w] \in {"mark", "reschedule"},
         NEW published \in BOOLEAN, Advance(w, published),
         UNCHANGED <<copies, held>>,
         \A e \in Events : row[e] \in Committed => row'[e] \in Committed
  PROVE  /\ pc' \in [Workers -> WorkerState]
         /\ batch' \in [Workers -> SUBSET Events]
         /\ seen' \in [Workers -> [Events -> 0..AttemptCap]]
         /\ event' \in [Workers -> Events \cup {NoEvent}]
         /\ progress' \in [Workers -> BOOLEAN]
         /\ canceled' \in [Workers -> BOOLEAN]
         /\ (EventInHand /\ BatchCommitted /\ MarkFollowsTake /\ HeldIsTaken)'
         /\ \A v \in Workers, e \in Events : seen'[v][e] <= seen[v][e]
<1>. DEFINE rest == batch[w] \ {event[w]}
            any  == progress[w] \/ published
<1>1. event[w] \in Events
  BY Zenon DEF Inv, TypeOK, OutboxTypeOK, EventInHand, Handling
<1>2. /\ batch'    = [batch EXCEPT ![w] = rest]
      /\ event'    = [event EXCEPT ![w] = NoEvent]
      /\ progress' = [progress EXCEPT ![w] = any /\ rest # {}]
      /\ UNCHANGED canceled
      /\ \/ pc' = [pc EXCEPT ![w] = "top"]
         \/ pc' = [pc EXCEPT ![w] = "poll"]
         \/ pc' = [pc EXCEPT ![w] = "publish"]
  BY Zenon DEF Advance, AfterRound
<1>3. seen' = [seen EXCEPT ![w] = [seen[w] EXCEPT ![event[w]] = 0]]
  BY Zenon DEF Advance
<1>4. /\ seen' \in [Workers -> [Events -> 0..AttemptCap]]
      /\ \A v \in Workers, e \in Events : seen'[v][e] <= seen[v][e]
  <2>1. /\ [seen[w] EXCEPT ![event[w]] = 0] \in [Events -> 0..AttemptCap]
        /\ \A e \in Events : [seen[w] EXCEPT ![event[w]] = 0][e] <= seen[w][e]
    BY <1>1, OutboxAssumption DEF Inv, TypeOK, OutboxTypeOK
  <2>. QED
    BY <1>3, <2>1 DEF Inv, TypeOK, OutboxTypeOK
<1>5. pc' \in [Workers -> WorkerState] /\ batch' \in [Workers -> SUBSET Events]
  BY <1>2, Zenon DEF Inv, TypeOK, OutboxTypeOK, WorkerState
<1>6. /\ event' \in [Workers -> Events \cup {NoEvent}]
      /\ progress' \in [Workers -> BOOLEAN]
      /\ canceled' \in [Workers -> BOOLEAN]
  BY <1>2, Zenon DEF Inv, TypeOK, OutboxTypeOK
<1>7. (EventInHand /\ BatchCommitted /\ MarkFollowsTake /\ HeldIsTaken)'
  BY <1>2 DEF Inv, TypeOK, OutboxTypeOK, EventInHand, BatchCommitted,
              MarkFollowsTake, HeldIsTaken, Handling
<1>. QED
  BY <1>4, <1>5, <1>6, <1>7, Zenon

\* Recording the outcome of a publication, or failing to, preserves Inv.
LEMMA MarkInv ==
  ASSUME Inv, NEW w \in Workers,
         (MarkPublished(w) /\ UNCHANGED brokerVars) \/ MarkLost(w)
  PROVE  Inv'
<1>1. /\ pc[w] = "mark" /\ Advance(w, TRUE)
      /\ UNCHANGED <<attempts, backoff, due, copies, held, abandoned>>
      /\ \/ row' = row
         \/ row' = [row EXCEPT ![event[w]] = IF @ = "pruned" THEN @ ELSE "published"]
  BY Zenon DEF MarkPublished, MarkLost, MarkFails, tableVars, brokerVars
<1>2. event[w] \in Events /\ copies[event[w]] > 0
  BY <1>1, Zenon DEF Inv, TypeOK, OutboxTypeOK, EventInHand, MarkFollowsTake, Handling
<1>3. /\ row' \in [Events -> RowState]
      /\ \A e \in Events : row[e] \in Committed => row'[e] \in Committed
      /\ \A e \in Events : row'[e] \in Settled => row[e] \in Settled \/ e = event[w]
  BY <1>1, <1>2, Zenon DEF Inv, TypeOK, OutboxTypeOK, RowState, Committed, Settled
<1>4. disturbed' \in SUBSET Events
  BY <1>2, Zenon DEF Inv, TypeOK, MarkLost, brokerVars
<1>5. /\ pc' \in [Workers -> WorkerState]
      /\ batch' \in [Workers -> SUBSET Events]
      /\ seen' \in [Workers -> [Events -> 0..AttemptCap]]
      /\ event' \in [Workers -> Events \cup {NoEvent}]
      /\ progress' \in [Workers -> BOOLEAN]
      /\ canceled' \in [Workers -> BOOLEAN]
      /\ (EventInHand /\ BatchCommitted /\ MarkFollowsTake /\ HeldIsTaken)'
      /\ \A v \in Workers, e \in Events : seen'[v][e] <= seen[v][e]
  BY <1>1, <1>3, AdvanceWorkers, Zenon
<1>6. TypeOK'
  BY <1>1, <1>3, <1>4, <1>5, Zenon DEF Inv, TypeOK, OutboxTypeOK
<1>7. (NoEventLost /\ NoPhantomEvent)'
  BY <1>1, <1>2, <1>3, Zenon DEF Inv, NoEventLost, NoPhantomEvent
<1>8. (SeenNeverAhead /\ BackoffNeverAhead)'
  BY <1>1, <1>5, <1>6 DEF Inv, TypeOK, OutboxTypeOK, SeenNeverAhead, BackoffNeverAhead
<1>. QED
  BY <1>5, <1>6, <1>7, <1>8, Zenon DEF Inv

\* Rescheduling an event, or failing to, preserves Inv.
LEMMA RescheduleInv ==
  ASSUME Inv, NEW w \in Workers, Reschedule(w) \/ RescheduleFails(w),
         UNCHANGED brokerVars
  PROVE  Inv'
<1>. DEFINE e == event[w]
<1>1. /\ pc[w] = "reschedule" /\ Advance(w, FALSE) /\ UNCHANGED row
      /\ \/ UNCHANGED <<attempts, backoff, due>>
         \/ /\ attempts' = [attempts EXCEPT ![e] = NextAttempt(@)]
            /\ backoff'  = [backoff EXCEPT ![e] = NextAttempt(seen[w][e])]
            /\ due'      = [due EXCEPT ![e] = FALSE]
  BY Zenon DEF Reschedule, RescheduleFails, tableVars
<1>2. e \in Events
  BY <1>1, Zenon DEF Inv, TypeOK, OutboxTypeOK, EventInHand, Handling
<1>3. /\ pc' \in [Workers -> WorkerState]
      /\ batch' \in [Workers -> SUBSET Events]
      /\ seen' \in [Workers -> [Events -> 0..AttemptCap]]
      /\ event' \in [Workers -> Events \cup {NoEvent}]
      /\ progress' \in [Workers -> BOOLEAN]
      /\ canceled' \in [Workers -> BOOLEAN]
      /\ (EventInHand /\ BatchCommitted /\ MarkFollowsTake /\ HeldIsTaken)'
      /\ \A v \in Workers, o \in Events : seen'[v][o] <= seen[v][o]
  BY <1>1, AdvanceWorkers, Zenon DEF brokerVars
<1>4. \A m, n \in 0..AttemptCap :
        /\ NextAttempt(n) \in 0..AttemptCap
        /\ n <= NextAttempt(n)
        /\ m <= n => NextAttempt(m) <= NextAttempt(n)
  BY OutboxAssumption DEF NextAttempt
<1>5. /\ attempts' \in [Events -> 0..AttemptCap]
      /\ backoff' \in [Events -> 0..AttemptCap]
      /\ due' \in [Events -> BOOLEAN]
  <2>1. /\ NextAttempt(attempts[e]) \in 0..AttemptCap
        /\ NextAttempt(seen[w][e]) \in 0..AttemptCap
    BY <1>2, <1>4 DEF Inv, TypeOK, OutboxTypeOK
  <2>2. attempts' \in [Events -> 0..AttemptCap]
    BY <1>1, <1>2, <2>1, Zenon DEF Inv, TypeOK, OutboxTypeOK
  <2>3. backoff' \in [Events -> 0..AttemptCap]
    BY <1>1, <1>2, <2>1, Zenon DEF Inv, TypeOK, OutboxTypeOK
  <2>4. due' \in [Events -> BOOLEAN]
    BY <1>1, <1>2, Zenon DEF Inv, TypeOK, OutboxTypeOK
  <2>. QED
    BY <2>2, <2>3, <2>4, Zenon
<1>6. TypeOK'
  BY <1>1, <1>3, <1>5, Zenon DEF Inv, TypeOK, OutboxTypeOK, brokerVars
<1>7. (NoEventLost /\ NoPhantomEvent)'
  BY <1>1, Zenon DEF Inv, NoEventLost, NoPhantomEvent, brokerVars
<1>8. \A o \in Events : attempts[o] <= attempts'[o] /\ backoff'[o] <= attempts'[o]
  <2>1. /\ attempts[e] <= NextAttempt(attempts[e])
        /\ NextAttempt(seen[w][e]) <= NextAttempt(attempts[e])
    BY <1>2, <1>4, Zenon DEF Inv, TypeOK, OutboxTypeOK, SeenNeverAhead
  <2>2. \A o \in Events : attempts[o] \in Nat /\ backoff[o] <= attempts[o]
    BY DEF Inv, TypeOK, OutboxTypeOK, BackoffNeverAhead
  <2>. QED
    BY <1>1, <1>2, <2>1, <2>2 DEF Inv, TypeOK, OutboxTypeOK
<1>9. SeenNeverAhead'
  BY <1>3, <1>5, <1>8 DEF Inv, TypeOK, OutboxTypeOK, SeenNeverAhead
<1>. QED
  BY <1>3, <1>6, <1>7, <1>8, <1>9, Zenon DEF Inv, BackoffNeverAhead

-----------------------------------------------------------------------------
(* The theorems.                                                           *)

\* Every step preserves Inv.
LEMMA InvNext == Inv /\ [Next]_vars => Inv'
<1>. SUFFICES ASSUME Inv, [Next]_vars PROVE Inv'
  BY Zenon
<1>1. CASE UNCHANGED vars
  BY <1>1, Zenon DEF vars, outboxVars, brokerVars, Inv, TypeOK, OutboxTypeOK, EventInHand,
              BatchCommitted, MarkFollowsTake, HeldIsTaken, NoEventLost,
              NoPhantomEvent, SeenNeverAhead, BackoffNeverAhead
<1>2. CASE \E e \in Events :
             (Insert(e) \/ Commit(e) \/ Rollback(e) \/ BackoffElapses(e))
             /\ UNCHANGED brokerVars
  BY <1>2, TableStepInv, Zenon
<1>3. CASE \E S \in SUBSET Events : DeletePublishedBefore(S) /\ UNCHANGED brokerVars
  BY <1>3, TableStepInv, Zenon
<1>4. CASE \E e \in Events : BrokerTakesLate(e)
  BY <1>4, BrokerTakesLateInv, Zenon
<1>5. ASSUME NEW w \in Workers, Quiet(w), UNCHANGED brokerVars PROVE Inv'
  BY <1>5, ClaimInv, ControlInv, DropBatchInv, MarkInv, RescheduleInv, Zenon DEF Quiet
<1>6. ASSUME NEW w \in Workers, Send(w) PROVE Inv'
  BY <1>6, SendInv, Zenon
<1>7. ASSUME NEW w \in Workers, BrokerTakes(w) PROVE Inv'
  BY <1>7, BrokerTakesInv, Zenon
<1>8. ASSUME NEW w \in Workers, Confirmed(w) \/ Unconfirmed(w) PROVE Inv'
  BY <1>8, CallEndsInv, Zenon
<1>9. ASSUME NEW w \in Workers, MarkLost(w) PROVE Inv'
  BY <1>9, MarkInv, Zenon
<1>10. ASSUME NEW w \in Workers, ProcessCrash(w) PROVE Inv'
  BY <1>10, DropBatchInv, Zenon
<1>. QED
  BY <1>1, <1>2, <1>3, <1>4, <1>5, <1>6, <1>7, <1>8, <1>9, <1>10, Zenon DEF Next

\* Inv always holds.
LEMMA Invariance == SafetySpec => []Inv
  BY InvInit, InvNext, PTL DEF SafetySpec

\* The model is well typed: no step of the table, the workers or the broker
\* leaves the value sets of the code.
THEOREM TypeCorrect == SafetySpec => []TypeOK
  BY Invariance, PTL DEF Inv

\* Whatever the number of workers, the failures and the crashes, a row is marked
\* published only if the broker took the event.
THEOREM NothingIsLost == SafetySpec => []NoEventLost
  BY Invariance, PTL DEF Inv

\* Nothing reaches the broker for a transaction that did not commit.
THEOREM NothingIsPhantom == SafetySpec => []NoPhantomEvent
  BY Invariance, PTL DEF Inv

\* A stale claim only ever shortens the delay of a retry.
THEOREM StaleClaimsRetrySooner == SafetySpec => []BackoffNeverAhead
  BY Invariance, PTL DEF Inv

-----------------------------------------------------------------------------
(* The workers implement AtLeastOnce.                                      *)

\* Every step is a step of AtLeastOnce under the refinement mapping, or none.
LEMMA StepRefines ==
  ASSUME Inv, [Next]_vars
  PROVE  [ALO!Next]_(ALO!vars)
<1>1. ASSUME UNCHANGED <<row, copies>> PROVE UNCHANGED ALO!vars
  BY <1>1, Zenon DEF ALO!vars
<1>2. ASSUME NEW e \in Events, Insert(e) \/ Rollback(e), UNCHANGED brokerVars
      PROVE  UNCHANGED ALO!vars
  <2>1. UNCHANGED copies /\ \A o \in Events : \/ row'[o] = row[o]
                                              \/ row[o] \notin Committed /\ row'[o] \notin Committed
    BY <1>2, Zenon DEF Insert, Rollback, Inv, TypeOK, OutboxTypeOK, Committed, brokerVars
  <2>. QED
    BY <2>1, Zenon DEF ALO!vars, Committed, Settled
<1>3. ASSUME NEW e \in Events, Commit(e), UNCHANGED brokerVars PROVE ALO!Record(e)
  BY <1>3, Zenon DEF Commit, ALO!Record, Inv, TypeOK, OutboxTypeOK, Committed, Settled, brokerVars
<1>4. ASSUME NEW S \in SUBSET Events, DeletePublishedBefore(S), UNCHANGED brokerVars
      PROVE  UNCHANGED ALO!vars
  BY <1>4, Zenon DEF DeletePublishedBefore, ALO!vars, Committed, Settled, brokerVars
<1>5. ASSUME NEW e \in Events, row[e] \in Committed, UNCHANGED row,
             copies' = [copies EXCEPT ![e] = OneMore(@)]
      PROVE  ALO!Deliver(e)
  BY <1>5, CopyAssumption DEF ALO!Deliver, OneMore, Inv, TypeOK
<1>6. ASSUME NEW w \in Workers, MarkPublished(w), UNCHANGED brokerVars
      PROVE  \E e \in Events : ALO!Settle(e)
  <2>1. PICK e \in Events : e = event[w] /\ copies[e] > 0 /\ row[e] \in Committed
    BY <1>6, Zenon DEF MarkPublished, Inv, TypeOK, OutboxTypeOK, EventInHand, MarkFollowsTake,
                BatchCommitted, Handling
  <2>2. ALO!Settle(e)
    BY <1>6, <2>1, Zenon DEF MarkPublished, ALO!Settle, Inv, TypeOK, OutboxTypeOK, Committed,
                      Settled, brokerVars
  <2>. QED
    BY <2>2, Zenon
<1>7. ASSUME NEW w \in Workers, BrokerTakes(w) PROVE \E e \in Events : ALO!Deliver(e)
  <2>1. PICK e \in Events : e = event[w] /\ row[e] \in Committed
    BY <1>7, Zenon DEF BrokerTakes, Inv, TypeOK, OutboxTypeOK, EventInHand, BatchCommitted, Handling
  <2>2. row' = row /\ copies' = [copies EXCEPT ![e] = OneMore(@)]
    BY <1>7, <2>1, Zenon DEF BrokerTakes, outboxVars
  <2>. QED
    BY <1>5, <2>1, <2>2, Zenon
<1>8. ASSUME NEW e \in Events, BrokerTakesLate(e) PROVE ALO!Deliver(e)
  BY <1>5, <1>8, Zenon DEF BrokerTakesLate, outboxVars, Inv, NoPhantomEvent
<1>9. ASSUME NEW w \in Workers, Quiet(w), UNCHANGED brokerVars, ~MarkPublished(w)
      PROVE  UNCHANGED <<row, copies>>
  BY <1>9, Zenon DEF Quiet, ClaimPending, ClaimFails, AbandonRound, Reschedule, RescheduleFails,
              Poll, Stop, Cancel, Restart, tableVars, brokerVars
<1>10. ASSUME NEW w \in Workers,
              Send(w) \/ Confirmed(w) \/ Unconfirmed(w) \/ MarkLost(w) \/ ProcessCrash(w)
       PROVE  UNCHANGED <<row, copies>>
  BY <1>10, Zenon DEF Send, BeginPublish, Confirmed, PublishSucceeds, Unconfirmed, PublishFails,
               MarkLost, MarkFails, ProcessCrash, Crash, tableVars, brokerVars
<1>11. ASSUME NEW e \in Events, BackoffElapses(e), UNCHANGED brokerVars
       PROVE  UNCHANGED <<row, copies>>
  BY <1>11, Zenon DEF BackoffElapses, brokerVars
<1>12. UNCHANGED vars => UNCHANGED <<row, copies>>
  BY Zenon DEF vars, outboxVars, brokerVars
<1>13. ASSUME NEW e \in Events,
              Insert(e) \/ Commit(e) \/ Rollback(e) \/ BackoffElapses(e), UNCHANGED brokerVars
       PROVE  [ALO!Next]_(ALO!vars)
  BY <1>1, <1>2, <1>3, <1>11, <1>13, Zenon DEF ALO!Next
<1>14. ASSUME NEW w \in Workers, Quiet(w), UNCHANGED brokerVars
       PROVE  [ALO!Next]_(ALO!vars)
  BY <1>1, <1>6, <1>9, <1>14, Zenon DEF ALO!Next
<1>15. ASSUME NEW w \in Workers,
              \/ Send(w) \/ BrokerTakes(w) \/ Confirmed(w) \/ Unconfirmed(w)
              \/ MarkLost(w) \/ ProcessCrash(w)
       PROVE  [ALO!Next]_(ALO!vars)
  BY <1>1, <1>7, <1>10, <1>15, Zenon DEF ALO!Next
<1>16. ASSUME NEW e \in Events, BrokerTakesLate(e) PROVE [ALO!Next]_(ALO!vars)
  BY <1>8, <1>16, Zenon DEF ALO!Next
<1>17. CASE UNCHANGED vars
  BY <1>1, <1>12, <1>17, Zenon
<1>. QED
  BY <1>4, <1>13, <1>14, <1>15, <1>16, <1>17, Zenon DEF Next

\* The outbox keeps its promise: under the refinement mapping every behaviour of
\* the workers and the broker is one of AtLeastOnce.
THEOREM RefinesAtLeastOnce == SafetySpec => ImplementsAtLeastOnce
<1>1. Init => ALO!Init
  BY DEF Init, OutboxInit, ALO!Init, Committed, Settled
<1>. QED
  BY <1>1, Invariance, StepRefines, PTL DEF SafetySpec, ImplementsAtLeastOnce, ALO!Safety

-----------------------------------------------------------------------------
(* What a deployment with one replica of the service can rely on besides.  *)

SoleWorker == \A v, w \in Workers : v = w

-----------------------------------------------------------------------------
(* The delay of a retry.                                                   *)

\* What the worker claimed is what the table still says.
SeenIsCurrent ==
  \A w \in Workers : \A e \in batch[w] : seen[w][e] = attempts[e]

BackoffInv == SeenIsCurrent /\ BackoffFollowsAttempts

\* With one worker every step preserves BackoffInv.
LEMMA BackoffInvNext ==
  ASSUME SoleWorker, Inv, BackoffInv, [Next]_vars
  PROVE  BackoffInv'
<1>. USE DEF BackoffInv, SeenIsCurrent, BackoffFollowsAttempts
<1>1. CASE UNCHANGED <<attempts, backoff, batch, seen>>
  BY <1>1, Zenon
<1>2. ASSUME NEW w \in Workers, ClaimPending(w) PROVE BackoffInv'
  <2>1. PICK B \in SUBSET Events :
          /\ batch' = [batch EXCEPT ![w] = B]
          /\ seen'  = [seen EXCEPT ![w] =
                         [e \in Events |-> IF e \in B THEN attempts[e] ELSE 0]]
    BY <1>2, Zenon DEF ClaimPending
  <2>2. UNCHANGED <<attempts, backoff>>
    BY <1>2, Zenon DEF ClaimPending, tableVars
  <2>3. \A e \in B : seen'[w][e] = attempts[e]
    BY <2>1, Zenon DEF Inv, TypeOK, OutboxTypeOK
  <2>. QED
    BY <2>1, <2>2, <2>3, Zenon DEF Inv, TypeOK, OutboxTypeOK
<1>3. ASSUME NEW w \in Workers, AbandonRound(w) \/ ProcessCrash(w) PROVE BackoffInv'
  <2>1. UNCHANGED <<attempts, backoff>> /\ batch' = [batch EXCEPT ![w] = {}]
    BY <1>3, Zenon DEF AbandonRound, ProcessCrash, Crash, tableVars
  <2>2. \A v \in Workers : batch'[v] = {}
    BY <2>1, Zenon DEF SoleWorker, Inv, TypeOK, OutboxTypeOK
  <2>. QED
    BY <2>1, <2>2, Zenon
<1>4. ASSUME NEW w \in Workers, pc[w] \in {"mark", "reschedule"},
             NEW published \in BOOLEAN, Advance(w, published)
      PROVE  /\ event[w] \in batch[w] /\ event[w] \in Events
             /\ \A v \in Workers : /\ batch'[v] = batch[v] \ {event[w]}
                                   /\ \A e \in batch'[v] : seen'[v][e] = seen[v][e]
  <2>1. event[w] \in batch[w] /\ event[w] \in Events
    BY <1>4, Zenon DEF Inv, TypeOK, OutboxTypeOK, EventInHand, Handling
  <2>2. /\ batch' = [batch EXCEPT ![w] = batch[w] \ {event[w]}]
        /\ seen' = [seen EXCEPT ![w] = [seen[w] EXCEPT ![event[w]] = 0]]
    BY <1>4, Zenon DEF Advance
  <2>. QED
    BY <2>1, <2>2, Zenon DEF Inv, TypeOK, OutboxTypeOK, SoleWorker
<1>5. ASSUME NEW w \in Workers, MarkPublished(w) \/ MarkFails(w) \/ RescheduleFails(w)
      PROVE  BackoffInv'
  <2>1. UNCHANGED <<attempts, backoff>>
    BY <1>5, Zenon DEF MarkPublished, MarkFails, RescheduleFails, tableVars
  <2>2. PICK published \in BOOLEAN : Advance(w, published)
    BY <1>5, Zenon DEF MarkPublished, MarkFails, RescheduleFails
  <2>3. pc[w] \in {"mark", "reschedule"}
    BY <1>5, Zenon DEF MarkPublished, MarkFails, RescheduleFails
  <2>. QED
    BY <1>4, <2>1, <2>2, <2>3
<1>6. ASSUME NEW w \in Workers, Reschedule(w) PROVE BackoffInv'
  <2>. DEFINE e == event[w]
  <2>1. /\ pc[w] = "reschedule" /\ Advance(w, FALSE)
        /\ \/ UNCHANGED <<attempts, backoff>>
           \/ /\ attempts' = [attempts EXCEPT ![e] = NextAttempt(@)]
              /\ backoff'  = [backoff EXCEPT ![e] = NextAttempt(seen[w][e])]
    BY <1>6, Zenon DEF Reschedule, tableVars
  <2>2. e \in Events /\ seen[w][e] = attempts[e]
    BY <1>4, <2>1, Zenon
  <2>3. BackoffFollowsAttempts'
    <3>1. CASE UNCHANGED <<attempts, backoff>>
      BY <3>1, Zenon
    <3>2. CASE /\ attempts' = [attempts EXCEPT ![e] = NextAttempt(@)]
               /\ backoff'  = [backoff EXCEPT ![e] = NextAttempt(seen[w][e])]
      <4>1. attempts'[e] = NextAttempt(attempts[e]) /\ backoff'[e] = NextAttempt(attempts[e])
        BY <2>2, <3>2, Zenon DEF Inv, TypeOK, OutboxTypeOK
      <4>2. \A o \in Events : o # e => attempts'[o] = attempts[o] /\ backoff'[o] = backoff[o]
        BY <3>2, Zenon DEF Inv, TypeOK, OutboxTypeOK
      <4>. QED
        BY <4>1, <4>2, Zenon
    <3>. QED
      BY <2>1, <3>1, <3>2, Zenon
  <2>4. \A o \in Events : o # e => attempts'[o] = attempts[o]
    BY <2>1, Zenon DEF Inv, TypeOK, OutboxTypeOK
  <2>5. \A v \in Workers : batch[v] \subseteq Events
    BY Zenon DEF Inv, TypeOK, OutboxTypeOK
  <2>6. SeenIsCurrent'
    <3>1. \A v \in Workers : /\ batch'[v] = batch[v] \ {e}
                             /\ \A o \in batch'[v] : seen'[v][o] = seen[v][o]
      BY <1>4, <2>1, Zenon
    <3>2. ASSUME NEW v \in Workers, NEW o \in batch'[v]
          PROVE  seen'[v][o] = attempts'[o]
      <4>1. o \in batch[v] /\ o # e /\ o \in Events /\ seen'[v][o] = seen[v][o]
        BY <2>5, <3>1, Zenon
      <4>2. seen[v][o] = attempts[o] /\ attempts'[o] = attempts[o]
        BY <2>4, <4>1, Zenon
      <4>. QED
        BY <4>1, <4>2, Zenon
    <3>. QED
      BY <3>2, Zenon
  <2>. QED
    BY <2>3, <2>6, Zenon
<1>7. ASSUME NEW w \in Workers, Quiet(w), UNCHANGED brokerVars PROVE BackoffInv'
  <2>1. ClaimFails(w) \/ Poll(w) \/ Stop(w) \/ Cancel(w) \/ Restart(w)
          => UNCHANGED <<attempts, backoff, batch, seen>>
    BY Zenon DEF ClaimFails, Poll, Stop, Cancel, Restart, tableVars
  <2>. QED
    BY <1>1, <1>2, <1>3, <1>5, <1>6, <1>7, <2>1, Zenon DEF Quiet
<1>8. ASSUME NEW w \in Workers,
             Send(w) \/ BrokerTakes(w) \/ Confirmed(w) \/ Unconfirmed(w)
      PROVE  UNCHANGED <<attempts, backoff, batch, seen>>
  BY <1>8, Zenon DEF Send, BeginPublish, BrokerTakes, Confirmed, PublishSucceeds, Unconfirmed,
              PublishFails, tableVars, outboxVars
<1>9. ASSUME NEW e \in Events,
             \/ Insert(e) \/ Commit(e) \/ Rollback(e) \/ BackoffElapses(e)
             \/ BrokerTakesLate(e)
      PROVE  UNCHANGED <<attempts, backoff, batch, seen>>
  BY <1>9, Zenon DEF Insert, Commit, Rollback, BackoffElapses, BrokerTakesLate, workerVars,
              outboxVars
<1>10. ASSUME NEW S \in SUBSET Events, DeletePublishedBefore(S)
       PROVE  UNCHANGED <<attempts, backoff, batch, seen>>
  BY <1>10, Zenon DEF DeletePublishedBefore, workerVars
<1>11. UNCHANGED vars => UNCHANGED <<attempts, backoff, batch, seen>>
  BY Zenon DEF vars, outboxVars
<1>12. ASSUME NEW w \in Workers, MarkLost(w) PROVE BackoffInv'
  BY <1>5, <1>12, Zenon DEF MarkLost
<1>. HIDE DEF BackoffInv
<1>. QED
  BY <1>1, <1>3, <1>7, <1>8, <1>9, <1>10, <1>11, <1>12, Zenon DEF Next

\* With one replica the delay of a retry is that of the attempt just counted: the
\* Attempts that reschedule uses is never stale.
THEOREM RetriesBackOffInStep ==
  ASSUME SoleWorker
  PROVE  SafetySpec => []BackoffFollowsAttempts
<1>1. Init => BackoffInv
  BY Zenon DEF Init, OutboxInit, BackoffInv, SeenIsCurrent, BackoffFollowsAttempts
<1>2. BackoffInv => BackoffFollowsAttempts
  BY Zenon DEF BackoffInv
<1>. QED
  BY <1>1, <1>2, Invariance, BackoffInvNext, PTL DEF SafetySpec

-----------------------------------------------------------------------------
(* Duplicates.                                                             *)

\* The worker has just had e taken by the broker and has yet to mark it.
Pending(w, e) == event[w] = e /\ (pc[w] = "mark" \/ held[w])

\* The event is marked, and the worker is done with it.
Done(e) == row[e] \in Settled /\ \A w \in Workers : e \notin batch[w]

\* An event nothing went wrong with was taken at most once, and if it was it is
\* marked or about to be.
CleanEvents ==
  \A e \in Events \ disturbed :
    /\ copies[e] <= 1
    /\ copies[e] > 0 => Done(e) \/ \E w \in Workers : Pending(w, e)

DuplicateInv == abandoned \subseteq disturbed /\ CleanEvents

\* DuplicateInv survives a step that leaves every clean event where it was.
LEMMA CleanStep ==
  ASSUME Inv, DuplicateInv,
         disturbed \subseteq disturbed', abandoned' \subseteq disturbed',
         \A e \in Events \ disturbed' :
           /\ copies'[e] = copies[e]
           /\ Done(e) => Done(e)'
           /\ \A w \in Workers : Pending(w, e) => Done(e)' \/ Pending(w, e)'
  PROVE  DuplicateInv'
  BY Zenon DEF DuplicateInv, CleanEvents

\* With one worker every step preserves DuplicateInv.
LEMMA DuplicateInvNext ==
  ASSUME SoleWorker, Inv, DuplicateInv, [Next]_vars
  PROVE  DuplicateInv'
<1>1. ASSUME UNCHANGED <<row, batch, pc, event, brokerVars>> PROVE DuplicateInv'
  BY <1>1, Zenon DEF DuplicateInv, CleanEvents, Done, Pending, brokerVars
<1>2. ASSUME NEW e \in Events, Insert(e) \/ Commit(e) \/ Rollback(e), UNCHANGED brokerVars
      PROVE  DuplicateInv'
  <2>1. /\ row[e] \notin Settled /\ \A o \in Events \ {e} : row'[o] = row[o]
        /\ UNCHANGED workerVars
    BY <1>2, Zenon DEF Insert, Commit, Rollback, Inv, TypeOK, OutboxTypeOK, Settled
  <2>. QED
    BY <1>2, <2>1, CleanStep, Zenon DEF DuplicateInv, Done, Pending, brokerVars, workerVars
<1>3. ASSUME NEW S \in SUBSET Events, DeletePublishedBefore(S), UNCHANGED brokerVars
      PROVE  DuplicateInv'
  <2>1. (\A o \in Events : row[o] \in Settled => row'[o] \in Settled) /\ UNCHANGED workerVars
    BY <1>3, Zenon DEF DeletePublishedBefore, Settled
  <2>. QED
    BY <1>3, <2>1, CleanStep, Zenon DEF DuplicateInv, Done, Pending, brokerVars, workerVars
<1>4. ASSUME NEW w \in Workers, ClaimPending(w), UNCHANGED brokerVars PROVE DuplicateInv'
  <2>1. PICK B \in SUBSET Events :
          /\ \A e \in B : row[e] = "pending"
          /\ batch' = [batch EXCEPT ![w] = B]
    BY <1>4, Zenon DEF ClaimPending, IsBatchOf, Claimable
  <2>2. pc[w] = "top" /\ UNCHANGED <<row, event>>
    BY <1>4, Zenon DEF ClaimPending, tableVars
  <2>3. \A e \in Events, v \in Workers : ~Pending(v, e)
    BY <2>2, Zenon DEF Pending, SoleWorker, Inv, HeldIsTaken
  <2>4. \A e \in Events : Done(e) => Done(e)'
    BY <2>1, <2>2, Zenon DEF Done, Settled, Inv, TypeOK, OutboxTypeOK
  <2>. QED
    BY <1>4, <2>3, <2>4, CleanStep, Zenon DEF DuplicateInv, brokerVars
<1>5. ASSUME NEW w \in Workers,
             ClaimFails(w) \/ Poll(w) \/ Stop(w) \/ Cancel(w) \/ Restart(w) \/ AbandonRound(w),
             UNCHANGED brokerVars
      PROVE  DuplicateInv'
  <2>1. UNCHANGED <<row, event>> /\ \A v \in Workers : batch'[v] \subseteq batch[v]
    BY <1>5, Zenon DEF ClaimFails, Poll, Stop, Cancel, Restart, AbandonRound, tableVars,
                Inv, TypeOK, OutboxTypeOK
  <2>2. UNCHANGED pc \/ pc[w] \notin Handling
    BY <1>5, Zenon DEF ClaimFails, Poll, Stop, Cancel, Restart, Running, AbandonRound, Handling
  <2>3. \A e \in Events, v \in Workers : Pending(v, e) => Pending(v, e)'
    BY <1>5, <2>1, <2>2, Zenon DEF Pending, SoleWorker, Inv, HeldIsTaken, Handling, brokerVars
  <2>4. \A e \in Events : Done(e) => Done(e)'
    BY <2>1, Zenon DEF Done
  <2>. QED
    BY <1>5, <2>3, <2>4, CleanStep, Zenon DEF DuplicateInv, brokerVars
<1>6. ASSUME NEW w \in Workers, Send(w) PROVE DuplicateInv'
  <2>1. pc[w] = "publish" /\ UNCHANGED <<row, batch, brokerVars>>
    BY <1>6, Zenon DEF Send, BeginPublish, tableVars
  <2>2. \A e \in Events, v \in Workers : ~Pending(v, e)
    BY <2>1, Zenon DEF Pending, SoleWorker, Inv, HeldIsTaken
  <2>3. \A e \in Events : Done(e) => Done(e)'
    BY <2>1, Zenon DEF Done
  <2>. QED
    BY <2>1, <2>2, <2>3, CleanStep, Zenon DEF DuplicateInv, brokerVars
<1>7. ASSUME NEW w \in Workers, BrokerTakes(w) PROVE DuplicateInv'
  <2>1. PICK e \in Events :
        /\ pc[w] = "publishing" /\ ~held[w]
        /\ e = event[w] /\ e \in batch[w]
        /\ UNCHANGED <<outboxVars, abandoned, disturbed>>
        /\ held' = [held EXCEPT ![w] = TRUE]
        /\ copies' = [copies EXCEPT ![e] = OneMore(@)]
    BY <1>7, Zenon DEF BrokerTakes, Inv, TypeOK, OutboxTypeOK, EventInHand, Handling
  <2>2. ~Done(e) /\ \A o \in Events, v \in Workers : ~Pending(v, o)
    BY <2>1, Zenon DEF Done, Pending, SoleWorker
  <2>3. e \notin disturbed => copies[e] = 0
    BY <2>1, <2>2 DEF DuplicateInv, CleanEvents, Inv, TypeOK
  <2>4. Pending(w, e)'
    BY <2>1, Zenon DEF Pending, outboxVars, Inv, TypeOK
  <2>5. \A o \in Events : Done(o) => Done(o)'
    BY <2>1, Zenon DEF Done, outboxVars
  <2>6. \A o \in Events \ disturbed : o # e =>
          /\ copies'[o] <= 1
          /\ copies'[o] > 0 => Done(o)'
    BY <2>1, <2>2, <2>5, Zenon DEF DuplicateInv, CleanEvents, Inv, TypeOK
  <2>7. e \notin disturbed => copies'[e] <= 1
    BY <2>1, <2>3, CopyAssumption DEF OneMore, Inv, TypeOK
  <2>. QED
    BY <2>1, <2>4, <2>6, <2>7, Zenon DEF DuplicateInv, CleanEvents
<1>8. ASSUME NEW e \in Events, BrokerTakesLate(e) PROVE DuplicateInv'
  <2>1. /\ e \in disturbed
        /\ \A o \in Events \ disturbed : copies'[o] = copies[o]
    BY <1>8, Zenon DEF BrokerTakesLate, DuplicateInv, Inv, TypeOK
  <2>. QED
    BY <1>8, <2>1, CleanStep, Zenon DEF BrokerTakesLate, DuplicateInv, Done, Pending, outboxVars
<1>9. ASSUME NEW w \in Workers, Confirmed(w) PROVE DuplicateInv'
  <2>1. /\ UNCHANGED <<row, batch, event, copies, abandoned, disturbed>>
        /\ pc'[w] = "mark"
    BY <1>9, Zenon DEF Confirmed, PublishSucceeds, tableVars, Inv, TypeOK, OutboxTypeOK
  <2>2. \A o \in Events, v \in Workers : Pending(v, o) => Pending(v, o)'
    BY <2>1, Zenon DEF Pending, SoleWorker
  <2>3. \A o \in Events : Done(o) => Done(o)'
    BY <2>1, Zenon DEF Done
  <2>. QED
    BY <2>1, <2>2, <2>3, CleanStep, Zenon DEF DuplicateInv
<1>10. ASSUME NEW w \in Workers, Unconfirmed(w) \/ MarkLost(w) \/ ProcessCrash(w)
       PROVE  DuplicateInv'
  <2>1. /\ UNCHANGED <<row, copies>>
        /\ \A v \in Workers : batch'[v] \subseteq batch[v]
        /\ disturbed \subseteq disturbed'
        /\ pc[w] \in Handling => event[w] \in disturbed'
    <3>1. CASE Unconfirmed(w)
      BY <3>1, Zenon DEF Unconfirmed, PublishFails, tableVars
    <3>2. CASE MarkLost(w)
      <4>1. batch' = [batch EXCEPT ![w] = batch[w] \ {event[w]}]
        BY <3>2, Zenon DEF MarkLost, MarkFails, Advance
      <4>. QED
        BY <3>2, <4>1, Zenon DEF MarkLost, MarkFails, tableVars, Inv, TypeOK, OutboxTypeOK
    <3>3. CASE ProcessCrash(w)
      BY <3>3, Zenon DEF ProcessCrash, Crash, tableVars, Inv, TypeOK, OutboxTypeOK
    <3>. QED
      BY <1>10, <3>1, <3>2, <3>3, Zenon
  <2>2. abandoned' \subseteq disturbed'
    BY <1>10, <2>1, Zenon DEF Unconfirmed, PublishFails, MarkLost, ProcessCrash, LeftBehind,
                       Handling, DuplicateInv
  <2>3. \A o \in Events \ disturbed', v \in Workers : ~Pending(v, o)
    BY <2>1, Zenon DEF Pending, SoleWorker, Inv, HeldIsTaken, Handling
  <2>4. \A o \in Events : Done(o) => Done(o)'
    BY <2>1, Zenon DEF Done
  <2>. QED
    BY <2>1, <2>2, <2>3, <2>4, CleanStep, Zenon
<1>11. ASSUME NEW w \in Workers, MarkPublished(w), UNCHANGED brokerVars PROVE DuplicateInv'
  <2>1. /\ pc[w] = "mark" /\ event[w] \in Events
        /\ row' = [row EXCEPT ![event[w]] = IF @ = "pruned" THEN @ ELSE "published"]
        /\ batch' = [batch EXCEPT ![w] = batch[w] \ {event[w]}]
    BY <1>11, Zenon DEF MarkPublished, Advance, Inv, TypeOK, OutboxTypeOK, EventInHand, Handling
  <2>2. \A o \in Events : Done(o) => Done(o)'
    BY <2>1, Zenon DEF Done, Settled, Inv, TypeOK, OutboxTypeOK
  <2>3. \A o \in Events, v \in Workers : Pending(v, o) => Done(o)'
    BY <2>1, Zenon DEF Pending, Done, SoleWorker, Settled, Inv, TypeOK, OutboxTypeOK
  <2>. QED
    BY <1>11, <2>2, <2>3, CleanStep, Zenon DEF DuplicateInv, brokerVars
<1>12. ASSUME NEW w \in Workers, Reschedule(w) \/ RescheduleFails(w), UNCHANGED brokerVars
       PROVE  DuplicateInv'
  <2>1. /\ pc[w] = "reschedule" /\ UNCHANGED row
        /\ \A v \in Workers : batch'[v] \subseteq batch[v]
    <3>1. batch' = [batch EXCEPT ![w] = batch[w] \ {event[w]}]
      BY <1>12, Zenon DEF Reschedule, RescheduleFails, Advance
    <3>. QED
      BY <1>12, <3>1, Zenon DEF Reschedule, RescheduleFails, tableVars, Inv, TypeOK, OutboxTypeOK
  <2>2. \A o \in Events, v \in Workers : ~Pending(v, o)
    BY <2>1, Zenon DEF Pending, SoleWorker, Inv, HeldIsTaken
  <2>3. \A o \in Events : Done(o) => Done(o)'
    BY <2>1, Zenon DEF Done
  <2>. QED
    BY <1>12, <2>2, <2>3, CleanStep, Zenon DEF DuplicateInv, brokerVars
<1>13. ASSUME NEW e \in Events, BackoffElapses(e), UNCHANGED brokerVars PROVE DuplicateInv'
  BY <1>1, <1>13, Zenon DEF BackoffElapses, workerVars
<1>14. CASE UNCHANGED vars
  BY <1>1, <1>14, Zenon DEF vars, outboxVars
<1>15. ASSUME NEW w \in Workers, Quiet(w), UNCHANGED brokerVars PROVE DuplicateInv'
  BY <1>4, <1>5, <1>11, <1>12, <1>15, Zenon DEF Quiet
<1>. QED
  BY <1>2, <1>3, <1>6, <1>7, <1>8, <1>9, <1>10, <1>13, <1>14, <1>15, Zenon DEF Next

\* With one replica a second copy of an event with the broker is explained by a
\* failed call, a failed mark or a crash.
THEOREM DuplicatesHaveACause ==
  ASSUME SoleWorker
  PROVE  SafetySpec => []DuplicatesAreExplained
<1>1. Init => DuplicateInv
  BY DEF Init, DuplicateInv, CleanEvents
<1>2. Inv /\ DuplicateInv => DuplicatesAreExplained
  BY DEF DuplicateInv, CleanEvents, DuplicatesAreExplained, Inv, TypeOK
<1>. QED
  BY <1>1, <1>2, Invariance, DuplicateInvNext, PTL DEF SafetySpec
=============================================================================
