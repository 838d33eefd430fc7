------------------------------ MODULE Backoff ------------------------------
(***************************************************************************)
(* The waits between attempts: backoffFor, the same code in pkg/outbox and *)
(* in pkg/amqp, and nextBackoff, which pkg/database applies step by step.  *)
(* A Go duration is a signed integer of fixed width, here of Width bits.   *)
(***************************************************************************)
EXTENDS Integers

CONSTANTS
  Width,       \* bits of a duration
  MaxAttempt   \* bound: attempts looked at

ASSUME BackoffAssumption == Width \in Nat \ {0, 1} /\ MaxAttempt \in Nat \ {0}

\* 2^n, in a form a proof can unfold.
TwoTo[n \in 0..Width + MaxAttempt] == IF n = 0 THEN 1 ELSE 2 * TwoTo[n - 1]

\* What a multiplication leaves in Width bits.
Wrap(x) == ((x + TwoTo[Width - 1]) % TwoTo[Width]) - TwoTo[Width - 1]

\* InitialBackoff and MaxBackoff: positive after withDefaults, and small enough to be
\* doubled.  Nothing orders the two.
Durations == 1..(TwoTo[Width - 2] - 1)

\* The loop doubles n - 1 times and leaves early, with the cap, on reaching it.
backoffFor(n, first, cap) ==
  LET loop[k \in 0..MaxAttempt] ==
        IF k = 0 THEN [backoff |-> first, left |-> FALSE]
        ELSE LET doubled == Wrap(2 * loop[k - 1].backoff)
             IN  IF loop[k - 1].left THEN loop[k - 1]
                 ELSE IF doubled >= cap THEN [backoff |-> cap, left |-> TRUE]
                 ELSE [backoff |-> doubled, left |-> FALSE]
  IN  IF n <= 1 THEN first ELSE loop[n - 1].backoff

\* Mutant of nextBackoff: no cap.
nextBackoffUncapped(current, cap) == Wrap(current * 2)

nextBackoff(current, cap) == IF Wrap(current * 2) > cap THEN cap ELSE Wrap(current * 2)

\* The wait of Connect after its n-th attempt.
ConnectWait(n, first, cap) ==
  LET wait[k \in 1..MaxAttempt] == IF k = 1 THEN first ELSE nextBackoff(wait[k - 1], cap)
  IN  wait[n]
=============================================================================
