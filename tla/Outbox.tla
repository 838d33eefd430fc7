------------------------------- MODULE Outbox -------------------------------
(***************************************************************************)
(* The transactional outbox of a service: the outbox table and the worker  *)
(* loop of pkg/outbox, one worker per running replica of the service.      *)
(*                                                                         *)
(* A business transaction inserts an event and commits or rolls back.  A   *)
(* worker claims a batch of due rows, publishes them one by one and        *)
(* records each outcome.  The claim runs on the pool, in no transaction    *)
(* (cmd/server/main.go builds the worker over repo.OutboxStore()), so the  *)
(* row locks of FOR UPDATE SKIP LOCKED end with the statement: the claim   *)
(* is a read that skips what a concurrent statement holds and reserves     *)
(* nothing.                                                                *)
(*                                                                         *)
(* What Publish does is left open here: OutboxSystem composes the workers  *)
(* with what pkg/amqp promises, OutboxAMQP with what its code does.        *)
(***************************************************************************)
EXTENDS Naturals, FiniteSets

CONSTANTS
  Workers,     \* replicas of the service, each runs one outbox worker
  MaxEvents,   \* bound: rows the identity column hands out
  BatchSize,   \* WorkerConfig.BatchSize
  AttemptCap   \* bound: attempts from which the backoff no longer grows

ASSUME OutboxAssumption ==
  /\ MaxEvents \in Nat
  /\ BatchSize \in Nat \ {0}
  /\ AttemptCap \in Nat \ {0}

VARIABLES
  row,        \* life of each outbox row
  attempts,   \* column attempts
  backoff,    \* attempt number whose delay last pushed available_at forward
  due,        \* available_at <= now()
  pc,         \* where each worker is in Run
  batch,      \* events claimed and not yet handled in this round
  seen,       \* Attempts as claimed, possibly stale when it is used
  event,      \* the loop variable of ProcessBatch, NoEvent outside publishOne
  progress,   \* the round in course has published something
  canceled    \* the context given to Run is done

tableVars  == <<row, attempts, backoff, due>>
workerVars == <<pc, batch, seen, event, progress, canceled>>
outboxVars == <<row, attempts, backoff, due,
                pc, batch, seen, event, progress, canceled>>

Events  == 1..MaxEvents
NoEvent == 0

RowState == {"absent", "open", "rolledback", "pending", "published", "pruned"}

\* Rows a committed transaction left behind, and those the worker is done with.
Committed == {"pending", "published", "pruned"}
Settled   == {"published", "pruned"}

WorkerState ==
  {"top", "publish", "publishing", "mark", "reschedule", "poll", "stopped", "down"}

\* States in which a worker is inside publishOne.
Handling == {"publishing", "mark", "reschedule"}

OutboxTypeOK ==
  /\ row      \in [Events -> RowState]
  /\ attempts \in [Events -> 0..AttemptCap]
  /\ backoff  \in [Events -> 0..AttemptCap]
  /\ due      \in [Events -> BOOLEAN]
  /\ pc       \in [Workers -> WorkerState]
  /\ batch    \in [Workers -> SUBSET Events]
  /\ seen     \in [Workers -> [Events -> 0..AttemptCap]]
  /\ event    \in [Workers -> Events \cup {NoEvent}]
  /\ progress \in [Workers -> BOOLEAN]
  /\ canceled \in [Workers -> BOOLEAN]

OutboxInit ==
  /\ row      = [e \in Events |-> "absent"]
  /\ attempts = [e \in Events |-> 0]
  /\ backoff  = [e \in Events |-> 0]
  /\ due      = [e \in Events |-> TRUE]
  /\ pc       = [w \in Workers |-> "top"]
  /\ batch    = [w \in Workers |-> {}]
  /\ seen     = [w \in Workers |-> [e \in Events |-> 0]]
  /\ event    = [w \in Workers |-> NoEvent]
  /\ progress = [w \in Workers |-> FALSE]
  /\ canceled = [w \in Workers |-> FALSE]

-----------------------------------------------------------------------------
(* The business transaction.                                               *)

\* PublishFor on the transaction in progress: the row takes the next id of the
\* identity column at once, but nobody else sees it before the commit.
Insert(e) ==
  /\ row[e] = "absent"
  /\ \A o \in Events : o < e => row[o] # "absent"
  /\ row' = [row EXCEPT ![e] = "open"]
  /\ UNCHANGED <<attempts, backoff, due, workerVars>>

Commit(e) ==
  /\ row[e] = "open"
  /\ row' = [row EXCEPT ![e] = "pending"]
  /\ UNCHANGED <<attempts, backoff, due, workerVars>>

Rollback(e) ==
  /\ row[e] = "open"
  /\ row' = [row EXCEPT ![e] = "rolledback"]
  /\ UNCHANGED <<attempts, backoff, due, workerVars>>

\* available_at is reached.
BackoffElapses(e) ==
  /\ ~due[e]
  /\ due' = [due EXCEPT ![e] = TRUE]
  /\ UNCHANGED <<row, attempts, backoff, workerVars>>

\* published_at < cutoff for the rows of S.
DeletePublishedBefore(S) ==
  /\ S # {}
  /\ \A e \in S : row[e] = "published"
  /\ row' = [e \in Events |-> IF e \in S THEN "pruned" ELSE row[e]]
  /\ UNCHANGED <<attempts, backoff, due, workerVars>>

-----------------------------------------------------------------------------
(* Run and ProcessBatch.                                                   *)

\* Mutants of Claimable: rows of a transaction still open, the condition
\* "published_at is null" missing, a limit on attempts.
ClaimableSeesOpen      == {e \in Events : row[e] \in {"open", "pending"} /\ due[e]}
ClaimableSeesPublished == {e \in Events : row[e] \in {"pending", "published"} /\ due[e]}
ClaimableGivesUp == {e \in Events : row[e] = "pending" /\ due[e] /\ attempts[e] < AttemptCap}

Claimable == {e \in Events : row[e] = "pending" /\ due[e]}

\* Rows another worker's statement may be holding at this moment: the one its
\* update is on, or any of them while it claims.
Lockable(w) ==
  {e \in Events : \E v \in Workers \ {w} :
                    pc[v] = "top" \/ (pc[v] \in {"mark", "reschedule"} /\ event[v] = e)}

\* The rows "order by id limit BatchSize" returns out of the set S.
IsBatchOf(B, S) ==
  /\ B \subseteq S
  /\ Cardinality(B) <= BatchSize
  /\ \A e \in S \ B : Cardinality(B) = BatchSize /\ \A b \in B : b < e

\* Where Run goes when a round ends: straight back when it published something,
\* to the poll interval otherwise.
AfterRound(published) == IF published THEN "top" ELSE "poll"

ClaimPending(w) ==
  /\ pc[w] = "top" /\ ~canceled[w]
  /\ \E B \in SUBSET Events, locked \in SUBSET Lockable(w) :
       /\ IsBatchOf(B, Claimable \ locked)
       /\ batch' = [batch EXCEPT ![w] = B]
       /\ seen'  = [seen EXCEPT ![w] =
                      [e \in Events |-> IF e \in B THEN attempts[e] ELSE 0]]
       /\ pc'    = [pc EXCEPT ![w] = IF B = {} THEN "poll" ELSE "publish"]
  /\ UNCHANGED <<tableVars, event, progress, canceled>>

\* ClaimPending returned an error: logged, and the round published nothing.
ClaimFails(w) ==
  /\ pc[w] = "top" /\ ~canceled[w]
  /\ pc' = [pc EXCEPT ![w] = "poll"]
  /\ UNCHANGED <<tableVars, batch, seen, event, progress, canceled>>

\* The next event of the batch, in id order.
BeginPublish(w) ==
  /\ pc[w] = "publish" /\ ~canceled[w]
  /\ \E e \in batch[w] :
       /\ \A o \in batch[w] : e <= o
       /\ event' = [event EXCEPT ![w] = e]
  /\ pc' = [pc EXCEPT ![w] = "publishing"]
  /\ UNCHANGED <<tableVars, batch, seen, progress, canceled>>

\* ctx.Err() between two events ends the round early.
AbandonRound(w) ==
  /\ pc[w] = "publish" /\ canceled[w]
  /\ batch' = [batch EXCEPT ![w] = {}]
  /\ seen'  = [seen EXCEPT ![w] = [e \in Events |-> 0]]
  /\ pc'    = [pc EXCEPT ![w] = AfterRound(progress[w])]
  /\ progress' = [progress EXCEPT ![w] = FALSE]
  /\ UNCHANGED <<tableVars, event, canceled>>

PublishSucceeds(w) ==
  /\ pc[w] = "publishing"
  /\ pc' = [pc EXCEPT ![w] = "mark"]
  /\ UNCHANGED <<tableVars, batch, seen, event, progress, canceled>>

\* Mutant: the error of Publish is ignored.
PublishFailsUnnoticed(w) ==
  /\ pc[w] = "publishing"
  /\ pc' = [pc EXCEPT ![w] = "mark"]
  /\ UNCHANGED <<tableVars, batch, seen, event, progress, canceled>>

PublishFails(w) ==
  /\ pc[w] = "publishing"
  /\ pc' = [pc EXCEPT ![w] = "reschedule"]
  /\ UNCHANGED <<tableVars, batch, seen, event, progress, canceled>>

\* publishOne returned published; on to the next event of the batch.
Advance(w, published) ==
  LET rest == batch[w] \ {event[w]}
      any  == progress[w] \/ published
  IN  /\ batch'    = [batch EXCEPT ![w] = rest]
      /\ seen'     = [seen EXCEPT ![w][event[w]] = 0]
      /\ event'    = [event EXCEPT ![w] = NoEvent]
      /\ progress' = [progress EXCEPT ![w] = any /\ rest # {}]
      /\ pc' = [pc EXCEPT ![w] = IF rest = {} THEN AfterRound(any) ELSE "publish"]
      /\ UNCHANGED canceled

\* The update is by id alone: a pruned row is simply not there.
MarkPublished(w) ==
  /\ pc[w] = "mark"
  /\ row' = [row EXCEPT ![event[w]] = IF @ = "pruned" THEN @ ELSE "published"]
  /\ Advance(w, TRUE)
  /\ UNCHANGED <<attempts, backoff, due>>

\* The failure is logged and the event still counts as published.
MarkFails(w) ==
  /\ pc[w] = "mark"
  /\ Advance(w, TRUE)
  /\ UNCHANGED tableVars

NextAttempt(n) == IF n < AttemptCap THEN n + 1 ELSE n

\* Mutants of Reschedule: attempts is not incremented, published_at is cleared,
\* the delay is the one of the attempt before.
RescheduleUncounted(w) ==
  LET e == event[w]
  IN  /\ pc[w] = "reschedule"
      /\ backoff' = [backoff EXCEPT ![e] = NextAttempt(seen[w][e])]
      /\ due'     = [due EXCEPT ![e] = FALSE]
      /\ Advance(w, FALSE)
      /\ UNCHANGED <<row, attempts>>

RescheduleReopens(w) ==
  LET e == event[w]
  IN  /\ pc[w] = "reschedule"
      /\ row'      = [row EXCEPT ![e] = IF @ = "pruned" THEN @ ELSE "pending"]
      /\ attempts' = [attempts EXCEPT ![e] = NextAttempt(@)]
      /\ backoff'  = [backoff EXCEPT ![e] = NextAttempt(seen[w][e])]
      /\ due'      = [due EXCEPT ![e] = FALSE]
      /\ Advance(w, FALSE)

RescheduleLate(w) ==
  LET e == event[w]
  IN  /\ pc[w] = "reschedule"
      /\ attempts' = [attempts EXCEPT ![e] = NextAttempt(@)]
      /\ backoff'  = [backoff EXCEPT ![e] = seen[w][e]]
      /\ due'      = [due EXCEPT ![e] = FALSE]
      /\ Advance(w, FALSE)
      /\ UNCHANGED row

\* attempts is incremented in the table, the delay comes from the claimed value.
\* The update is by id alone: it also applies to a row published meanwhile.
Reschedule(w) ==
  LET e == event[w]
  IN  /\ pc[w] = "reschedule"
      /\ IF row[e] = "pruned"
         THEN UNCHANGED tableVars
         ELSE /\ attempts' = [attempts EXCEPT ![e] = NextAttempt(@)]
              /\ backoff'  = [backoff EXCEPT ![e] = NextAttempt(seen[w][e])]
              /\ due'      = [due EXCEPT ![e] = FALSE]
              /\ UNCHANGED row
      /\ Advance(w, FALSE)

\* The failure is logged: the event stays due, with no backoff.
RescheduleFails(w) ==
  /\ pc[w] = "reschedule"
  /\ Advance(w, FALSE)
  /\ UNCHANGED tableVars

\* The poll interval elapses.
Poll(w) ==
  /\ pc[w] = "poll"
  /\ pc' = [pc EXCEPT ![w] = "top"]
  /\ UNCHANGED <<tableVars, batch, seen, event, progress, canceled>>

\* Mutant: the loop only looks at the context while it waits for the next poll.
StopOnlyWhilePolling(w) ==
  /\ pc[w] = "poll" /\ canceled[w]
  /\ pc' = [pc EXCEPT ![w] = "stopped"]
  /\ UNCHANGED <<tableVars, batch, seen, event, progress, canceled>>

\* Run returns nil, at the top of the loop or out of the poll wait.
Stop(w) ==
  /\ pc[w] \in {"top", "poll"} /\ canceled[w]
  /\ pc' = [pc EXCEPT ![w] = "stopped"]
  /\ UNCHANGED <<tableVars, batch, seen, event, progress, canceled>>

-----------------------------------------------------------------------------
(* The process around the worker.                                          *)

Running(w) == pc[w] \notin {"stopped", "down"}

\* A termination signal, or another component failing, cancels the context.
Cancel(w) ==
  /\ Running(w) /\ ~canceled[w]
  /\ canceled' = [canceled EXCEPT ![w] = TRUE]
  /\ UNCHANGED <<tableVars, pc, batch, seen, event, progress>>

\* Everything the worker held was in memory.
Crash(w) ==
  /\ Running(w)
  /\ pc'       = [pc EXCEPT ![w] = "down"]
  /\ batch'    = [batch EXCEPT ![w] = {}]
  /\ seen'     = [seen EXCEPT ![w] = [e \in Events |-> 0]]
  /\ event'    = [event EXCEPT ![w] = NoEvent]
  /\ progress' = [progress EXCEPT ![w] = FALSE]
  /\ canceled' = [canceled EXCEPT ![w] = FALSE]
  /\ UNCHANGED tableVars

Restart(w) ==
  /\ ~Running(w)
  /\ pc'       = [pc EXCEPT ![w] = "top"]
  /\ canceled' = [canceled EXCEPT ![w] = FALSE]
  /\ UNCHANGED <<tableVars, batch, seen, event, progress>>
=============================================================================
