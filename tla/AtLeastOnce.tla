---------------------------- MODULE AtLeastOnce ----------------------------
(***************************************************************************)
(* What the outbox promises (package comment of pkg/outbox): the event is  *)
(* recorded by the transaction that changed the state, it reaches the      *)
(* broker at least once, and it is only forgotten after it did.            *)
(***************************************************************************)
CONSTANT Event

VARIABLES
  recorded,   \* events of committed transactions
  delivered,  \* events the broker has at least one copy of
  settled     \* events the service will not publish again on purpose

vars == <<recorded, delivered, settled>>

Init == recorded = {} /\ delivered = {} /\ settled = {}

Record(e) ==
  /\ recorded' = recorded \cup {e}
  /\ UNCHANGED <<delivered, settled>>

Deliver(e) ==
  /\ e \in recorded
  /\ delivered' = delivered \cup {e}
  /\ UNCHANGED <<recorded, settled>>

Settle(e) ==
  /\ e \in delivered
  /\ settled' = settled \cup {e}
  /\ UNCHANGED <<recorded, delivered>>

Next == \E e \in Event : Record(e) \/ Deliver(e) \/ Settle(e)

Safety == Init /\ [][Next]_vars
=============================================================================
