----------------------- MODULE ConsumerCountingProofs -----------------------
(***************************************************************************)
(* How often the retry protocol of amqp.Consumer may run a handler, for    *)
(* any number of consumers, messages, attempts and interruptions.          *)
(***************************************************************************)
EXTENDS ConsumerProofs, FiniteSetTheorems

(* Counting what may still happen to a message.                            *)

Queued == {"ready", "waiting", "dead"}
Acting == {"handle", "retry", "dead"}

\* Where a delivery of a message can be: in a queue, in a deliveries channel, in the
\* hand of a consumer, or in a frame that publishes or rejects it.
Token ==
  ({"queue"} \X {0} \X Copies) \cup ({"hand"} \X Consumers \X {0})
    \cup ({"buffer", "wire"} \X Consumers \X Nat)

Pends(t, m) ==
  \/ t[1] = "queue" /\ place[t[3]] \in Queued /\ message[t[3]] = m
  \/ t[1] = "hand" /\ stage[t[2]] \in Acting /\ message[hand[t[2]]] = m
  \/ t[1] = "buffer" /\ t[3] \in 1..Len(buffer[t[2]]) /\ message[buffer[t[2]][t[3]]] = m
  \/ /\ t[1] = "wire" /\ t[3] \in 1..Len(wire[t[2]])
     /\ wire[t[2]][t[3]].op # "ack" /\ message[wire[t[2]][t[3]].copy] = m

Pending(m) == {t \in Token : Pends(t, m)}

\* The handler runs a delivery still has before it.
Left ==
  [t \in Token |->
     CASE t[1] = "queue"  -> IF place[t[3]] = "dead" THEN 0 ELSE MaxAttempts - attempts[t[3]]
       [] t[1] = "hand"   -> MaxAttempts - attempts[hand[t[2]]] - 1
       [] t[1] = "buffer" -> MaxAttempts - attempts[buffer[t[2]][t[3]]]
       [] t[1] = "wire"   -> MaxAttempts - attempts[wire[t[2]][t[3]].copy] - 1]

Future(S, L) == {p \in S \X (1..MaxAttempts) : p[2] <= L[p[1]]}

\* Every delivery put back accounts for one more that may fail after the message was
\* handled, and for one more series of runs.
TokensOf(m) ==
  /\ IsFiniteSet(Pending(m))
  /\ Cardinality(Pending(m)) + (IF m \in handled THEN 1 ELSE 0) <= 1 + returned[m]
  /\ runs[m] + Cardinality(Future(Pending(m), Left)) <= MaxAttempts * (1 + returned[m])

TokenInv == \A m \in Messages : TokensOf(m)

\* The runs before finitely many deliveries are finitely many.
LEMMA FutureIsFinite ==
  ASSUME NEW S, IsFiniteSet(S), NEW L
  PROVE  IsFiniteSet(Future(S, L)) /\ Cardinality(Future(S, L)) \in Nat
<1>1. IsFiniteSet(1..MaxAttempts)
  BY AttemptsAreFinite, Zenon
<1>2. IsFiniteSet(S \X (1..MaxAttempts))
  BY <1>1, FS_Product, Zenon
<1>3. Future(S, L) \in SUBSET (S \X (1..MaxAttempts))
  BY Zenon DEF Future
<1> QED  BY <1>2, <1>3, FS_Subset, FS_CardinalityType, Zenon

\* Deliveries that came each from another one, with no more runs before it.
LEMMA Injected ==
  ASSUME NEW S, NEW T, IsFiniteSet(S), NEW g \in [T -> S],
         \A x, y \in T : g[x] = g[y] => x = y,
         NEW L, NEW K, \A t \in T : \A a \in 1..MaxAttempts : a <= K[t] => a <= L[g[t]]
  PROVE  /\ IsFiniteSet(T) /\ Cardinality(T) <= Cardinality(S)
         /\ Cardinality(Future(T, K)) <= Cardinality(Future(S, L))
<1>1. g \in Injection(T, S)
  BY Zenon DEF Injection, IsInjective
<1>2. IsFiniteSet(T) /\ Cardinality(T) <= Cardinality(S)
  BY <1>1, FS_Injection, Zenon
<1> DEFINE f == [p \in Future(T, K) |-> <<g[p[1]], p[2]>>]
<1>3. ASSUME NEW p \in Future(T, K)  PROVE <<g[p[1]], p[2]>> \in Future(S, L)
  <2>1. p[1] \in T /\ p[2] \in 1..MaxAttempts /\ p[2] <= K[p[1]]
    BY Zenon DEF Future
  <2> QED  BY <2>1, Zenon DEF Future
<1>4. ASSUME NEW p \in Future(T, K), NEW q \in Future(T, K),
             <<g[p[1]], p[2]>> = <<g[q[1]], q[2]>>
      PROVE  p = q
  <2>1. p \in T \X (1..MaxAttempts) /\ q \in T \X (1..MaxAttempts)
    BY Zenon DEF Future
  <2>2. p[1] = q[1] /\ p[2] = q[2]
    BY <1>4, <2>1, Zenon
  <2> QED  BY <2>1, <2>2
<1>5. f \in Injection(Future(T, K), Future(S, L))
  <2>1. f \in [Future(T, K) -> Future(S, L)]
    BY <1>3, Zenon
  <2>2. ASSUME NEW p \in Future(T, K), NEW q \in Future(T, K), f[p] = f[q]  PROVE p = q
    <3>1. <<g[p[1]], p[2]>> = <<g[q[1]], q[2]>>
      BY <2>2, Zenon
    <3> QED  BY <1>4, <3>1, Zenon
  <2> HIDE DEF f
  <2> QED  BY <2>1, <2>2, Zenon DEF Injection, IsInjective
<1>6. Cardinality(Future(T, K)) <= Cardinality(Future(S, L))
  BY <1>5, FutureIsFinite, FS_Injection, Zenon
<1> QED  BY <1>2, <1>6, Zenon

\* One delivery was y and is x; the others are where they were.
LEMMA Renamed ==
  ASSUME NEW S, NEW T, IsFiniteSet(S), NEW x, NEW y, NEW L, NEW K,
         \A t \in T : t # x => t # y /\ t \in S,
         \A t \in T : t # x => \A a \in 1..MaxAttempts : a <= K[t] => a <= L[t],
         x \in T => y \in S /\ \A a \in 1..MaxAttempts : a <= K[x] => a <= L[y]
  PROVE  /\ IsFiniteSet(T) /\ Cardinality(T) <= Cardinality(S)
         /\ Cardinality(Future(T, K)) <= Cardinality(Future(S, L))
<1> DEFINE g == [t \in T |-> IF t = x THEN y ELSE t]
<1>1. g \in [T -> S]
  BY Zenon
<1>2. ASSUME NEW u \in T, NEW v \in T, g[u] = g[v]  PROVE u = v
  <2>1. CASE u = x
    BY <1>2, <2>1, Zenon
  <2>2. CASE v = x
    BY <1>2, <2>2, Zenon
  <2>3. CASE u # x /\ v # x
    BY <1>2, <2>3, Zenon
  <2> QED  BY <2>1, <2>2, <2>3, Zenon
<1>3. \A t \in T : \A a \in 1..MaxAttempts : a <= K[t] => a <= L[g[t]]
  BY Zenon
<1> HIDE DEF g
<1> QED  BY <1>1, <1>2, <1>3, Injected, Zenon

\* The first delivery of a sequence is x now; the others have moved up by one.
IsShift(S, L, T, K, kind, c, x) ==
  /\ x \in T => /\ <<kind, c, 1>> \in S
                /\ \A a \in 1..MaxAttempts : a <= K[x] => a <= L[<<kind, c, 1>>]
  /\ \A k \in Nat : <<kind, c, k>> \in T =>
       /\ k # 0 /\ <<kind, c, k + 1>> \in S
       /\ \A a \in 1..MaxAttempts : a <= K[<<kind, c, k>>] => a <= L[<<kind, c, k + 1>>]
  /\ \A t \in T : t # x /\ ~(t[1] = kind /\ t[2] = c) =>
       t \in S /\ \A a \in 1..MaxAttempts : a <= K[t] => a <= L[t]

\* One delivery was the first of a sequence and is x; those behind it moved up by one.
LEMMA Shifted ==
  ASSUME NEW S, NEW T \in SUBSET Token, IsFiniteSet(S), NEW kind \in {"buffer", "wire"},
         NEW c \in Consumers, NEW x, x[1] # kind, NEW L, NEW K, IsShift(S, L, T, K, kind, c, x)
  PROVE  /\ IsFiniteSet(T) /\ Cardinality(T) <= Cardinality(S)
         /\ Cardinality(Future(T, K)) <= Cardinality(Future(S, L))
<1> DEFINE up(t) == <<kind, c, t[3] + 1>>
           In(t) == t[1] = kind /\ t[2] = c
           g == [t \in T |-> IF t = x THEN <<kind, c, 1>> ELSE IF In(t) THEN up(t) ELSE t]
<1>1. ASSUME NEW t \in T, In(t)
      PROVE  /\ t # x /\ t[3] \in Nat \ {0} /\ t = <<kind, c, t[3]>>
             /\ up(t) \in S /\ \A a \in 1..MaxAttempts : a <= K[t] => a <= L[up(t)]
  <2>1. t \in {"buffer", "wire"} \X Consumers \X Nat
    BY <1>1, Zenon DEF Token
  <2>2. t[3] \in Nat /\ t = <<kind, c, t[3]>>
    BY <1>1, <2>1
  <2> QED  BY <1>1, <2>2, Zenon DEF IsShift
<1>2. g \in [T -> S]
  BY <1>1, Zenon DEF IsShift
<1>3. ASSUME NEW t \in T
      PROVE  /\ t = x => g[t] = <<kind, c, 1>>
             /\ In(t) => g[t] = <<kind, c, t[3] + 1>> /\ t[3] + 1 # 1
             /\ t # x /\ ~In(t) => g[t] = t
  BY <1>1
<1>4. \A t \in T : \A a \in 1..MaxAttempts : a <= K[t] => a <= L[g[t]]
  BY <1>1, <1>3, Zenon DEF IsShift
<1> HIDE DEF g
<1>5. ASSUME NEW u \in T, NEW v \in T, g[u] = g[v]  PROVE u = v
  <2>1. CASE u = x
    <3>1. g[v] = <<kind, c, 1>>
      BY <1>3, <1>5, <2>1, Zenon
    <3>2. ~(v # x /\ ~In(v))
      <4>1. SUFFICES ASSUME v # x, ~In(v)  PROVE FALSE
        BY Zenon
      <4>2. v = <<kind, c, 1>>
        BY <1>3, <3>1, <4>1, Zenon
      <4> QED  BY <4>1, <4>2, Zenon
    <3>3. ~In(v)
      <4>1. SUFFICES ASSUME In(v)  PROVE FALSE
        BY Zenon
      <4>2. <<kind, c, v[3] + 1>> = <<kind, c, 1>> /\ v[3] + 1 # 1
        BY <1>3, <3>1, <4>1, Zenon
      <4> QED  BY <4>2, Zenon
    <3> QED  BY <2>1, <3>2, <3>3, Zenon
  <2>2. CASE In(u)
    <3>1. g[v] = <<kind, c, u[3] + 1>> /\ u[3] + 1 # 1
      BY <1>3, <1>5, <2>2, Zenon
    <3>2. v # x
      BY <1>3, <3>1
    <3>3. In(v)
      <4>1. SUFFICES ASSUME ~In(v)  PROVE FALSE
        BY Zenon
      <4>2. v = <<kind, c, u[3] + 1>>
        BY <1>3, <3>1, <3>2, <4>1, Zenon
      <4> QED  BY <4>1, <4>2, Zenon
    <3>4. <<kind, c, v[3] + 1>> = <<kind, c, u[3] + 1>>
      BY <1>3, <3>1, <3>3, Zenon
    <3>5. u[3] = v[3]
      <4>1. v[3] + 1 = u[3] + 1 /\ u[3] \in Nat /\ v[3] \in Nat
        BY <1>1, <2>2, <3>3, <3>4, Zenon
      <4> QED  BY <4>1
    <3> QED  BY <1>1, <2>2, <3>3, <3>5, Zenon
  <2>3. CASE u # x /\ ~In(u)
    <3>1. g[v] = u
      BY <1>3, <1>5, <2>3, Zenon
    <3>2. v # x
      <4>1. SUFFICES ASSUME v = x  PROVE FALSE
        BY Zenon
      <4>2. u = <<kind, c, 1>>
        BY <1>3, <3>1, <4>1, Zenon
      <4> QED  BY <2>3, <4>2, Zenon
    <3>3. ~In(v)
      <4>1. SUFFICES ASSUME In(v)  PROVE FALSE
        BY Zenon
      <4>2. u = <<kind, c, v[3] + 1>>
        BY <1>3, <3>1, <4>1, Zenon
      <4> QED  BY <2>3, <4>2, Zenon
    <3> QED  BY <1>3, <3>1, <3>2, <3>3, Zenon
  <2> QED  BY <2>1, <2>2, <2>3, Zenon
<1> HIDE DEF In, up
<1> QED  BY <1>2, <1>4, <1>5, Injected, Zenon

\* The four places a delivery can be in.
LEMMA TokenKinds ==
  ASSUME NEW t \in Token
  PROVE  \/ \E i \in Copies : t = <<"queue", 0, i>>
         \/ \E c \in Consumers : t = <<"hand", c, 0>>
         \/ \E c \in Consumers, k \in Nat : t = <<"buffer", c, k>>
         \/ \E c \in Consumers, k \in Nat : t = <<"wire", c, k>>
  BY DEF Token

\* What each of them says of the state, and of the runs left.
LEMMA QueueToken ==
  ASSUME NEW m, NEW i \in Copies
  PROVE  /\ <<"queue", 0, i>> \in Token
         /\ <<"queue", 0, i>> \in Pending(m) <=> place[i] \in Queued /\ message[i] = m
         /\ Left[<<"queue", 0, i>>] = IF place[i] = "dead" THEN 0 ELSE MaxAttempts - attempts[i]
         /\ <<"queue", 0, i>> \in Pending(m)' <=> place'[i] \in Queued /\ message'[i] = m
         /\ Left'[<<"queue", 0, i>>] = IF place'[i] = "dead" THEN 0 ELSE MaxAttempts - attempts'[i]
<1>1. <<"queue", 0, i>> \in Token
  BY Zenon DEF Token
<1> QED  BY <1>1, Zenon DEF Pending, Pends, Left

LEMMA HandToken ==
  ASSUME NEW m, NEW c \in Consumers
  PROVE  /\ <<"hand", c, 0>> \in Token
         /\ <<"hand", c, 0>> \in Pending(m) <=> stage[c] \in Acting /\ message[hand[c]] = m
         /\ Left[<<"hand", c, 0>>] = MaxAttempts - attempts[hand[c]] - 1
         /\ <<"hand", c, 0>> \in Pending(m)' <=> stage'[c] \in Acting /\ message'[hand'[c]] = m
         /\ Left'[<<"hand", c, 0>>] = MaxAttempts - attempts'[hand'[c]] - 1
<1>1. <<"hand", c, 0>> \in Token
  BY Zenon DEF Token
<1> QED  BY <1>1, Zenon DEF Pending, Pends, Left

LEMMA BufferToken ==
  ASSUME NEW m, NEW c \in Consumers, NEW k \in Nat
  PROVE  /\ <<"buffer", c, k>> \in Token
         /\ <<"buffer", c, k>> \in Pending(m) <=>
              k \in 1..Len(buffer[c]) /\ message[buffer[c][k]] = m
         /\ Left[<<"buffer", c, k>>] = MaxAttempts - attempts[buffer[c][k]]
         /\ <<"buffer", c, k>> \in Pending(m)' <=>
              k \in 1..Len(buffer'[c]) /\ message'[buffer'[c][k]] = m
         /\ Left'[<<"buffer", c, k>>] = MaxAttempts - attempts'[buffer'[c][k]]
<1>1. <<"buffer", c, k>> \in Token
  BY Zenon DEF Token
<1> QED  BY <1>1, Zenon DEF Pending, Pends, Left

LEMMA WireToken ==
  ASSUME NEW m, NEW c \in Consumers, NEW k \in Nat
  PROVE  /\ <<"wire", c, k>> \in Token
         /\ <<"wire", c, k>> \in Pending(m) <=>
              k \in 1..Len(wire[c]) /\ wire[c][k].op # "ack" /\ message[wire[c][k].copy] = m
         /\ Left[<<"wire", c, k>>] = MaxAttempts - attempts[wire[c][k].copy] - 1
         /\ <<"wire", c, k>> \in Pending(m)' <=>
              k \in 1..Len(wire'[c]) /\ wire'[c][k].op # "ack" /\ message'[wire'[c][k].copy] = m
         /\ Left'[<<"wire", c, k>>] = MaxAttempts - attempts'[wire'[c][k].copy] - 1
<1>1. <<"wire", c, k>> \in Token
  BY Zenon DEF Token
<1> QED  BY <1>1, Zenon DEF Pending, Pends, Left

LEMMA WirePends ==
  ASSUME NEW m, NEW c \in Consumers, NEW k \in Nat, <<"wire", c, k>> \in Pending(m)'
  PROVE  k \in 1..Len(wire'[c]) /\ wire'[c][k].op # "ack" /\ message'[wire'[c][k].copy] = m
BY WireToken, Zenon

LEMMA WireLeft ==
  ASSUME NEW c \in Consumers, NEW k \in Nat
  PROVE  /\ Left[<<"wire", c, k>>] = MaxAttempts - attempts[wire[c][k].copy] - 1
         /\ Left'[<<"wire", c, k>>] = MaxAttempts - attempts'[wire'[c][k].copy] - 1
BY WireToken, Zenon

\* The delivery t of the next state is the delivery u of this one.
Comes(t, u, m) ==
  u \in Pending(m) /\ \A a \in 1..MaxAttempts : a <= Left'[t] => a <= Left[u]

\* A message has no more deliveries, and no more runs before it, than it had.
NoMore(m) ==
  /\ IsFiniteSet(Pending(m)') /\ Cardinality(Pending(m)') <= Cardinality(Pending(m))
  /\ Cardinality(Future(Pending(m)', Left')) <= Cardinality(Future(Pending(m), Left))

\* A step after which at most x is new, and comes from y, adds nothing.
LEMMA OneMoves ==
  ASSUME NEW m, IsFiniteSet(Pending(m)), NEW x, NEW y,
         \A t \in Pending(m)' : t # x => t # y /\ Comes(t, t, m),
         x \in Pending(m)' => Comes(x, y, m)
  PROVE  NoMore(m)
<1> DEFINE S == Pending(m)
           T == Pending(m)'
           L == Left
           K == Left'
<1>1. \A t \in T : t # x => t # y /\ t \in S
  BY Zenon DEF Comes
<1>2. \A t \in T : t # x => \A a \in 1..MaxAttempts : a <= K[t] => a <= L[t]
  BY Zenon DEF Comes
<1>3. x \in T => y \in S /\ \A a \in 1..MaxAttempts : a <= K[x] => a <= L[y]
  BY Zenon DEF Comes
<1>4. IsFiniteSet(S)
  BY Zenon
<1> HIDE DEF S, T, L, K
<1>5. /\ IsFiniteSet(T) /\ Cardinality(T) <= Cardinality(S)
      /\ Cardinality(Future(T, K)) <= Cardinality(Future(S, L))
  BY <1>1, <1>2, <1>3, <1>4, Renamed, Zenon
<1> QED  BY <1>5, Zenon DEF S, T, L, K, NoMore

\* When a delivery in each place comes from where u says.
LEMMA QueueComes ==
  ASSUME ConsumerInv, Kept, NEW m, NEW i \in Copies, <<"queue", 0, i>> \in Pending(m)',
         place[i] \in Queued, place[i] = "dead" => place'[i] = "dead"
  PROVE  Comes(<<"queue", 0, i>>, <<"queue", 0, i>>, m)
<1>1. message'[i] = message[i] /\ attempts'[i] = attempts[i]
  BY Zenon DEF Kept, Born, Queued
<1>2. <<"queue", 0, i>> \in Pending(m)
  BY <1>1, QueueToken, Zenon
<1>3. \A a \in 1..MaxAttempts : a <= Left'[<<"queue", 0, i>>] => a <= Left[<<"queue", 0, i>>]
  <2>1. CASE place'[i] = "dead"
    BY <2>1, QueueToken
  <2>2. CASE place'[i] # "dead"
    BY <1>1, <2>2, QueueToken
  <2> QED  BY <2>1, <2>2, Zenon
<1> QED  BY <1>2, <1>3, Zenon DEF Comes

LEMMA HandComes ==
  ASSUME ConsumerInv, Kept, NEW m, NEW c \in Consumers, <<"hand", c, 0>> \in Pending(m)',
         stage[c] \in Acting, hand'[c] = hand[c]
  PROVE  Comes(<<"hand", c, 0>>, <<"hand", c, 0>>, m)
<1>1. PICK i \in Copies : i = hand[c] /\ Born(i)
  BY InHand, Zenon DEF Acting
<1>2. message'[i] = message[i] /\ attempts'[i] = attempts[i]
  BY <1>1, Zenon DEF Kept
<1>3. <<"hand", c, 0>> \in Pending(m)
  BY <1>1, <1>2, HandToken, Zenon
<1>4. Left'[<<"hand", c, 0>>] = Left[<<"hand", c, 0>>]
  BY <1>1, <1>2, HandToken
<1> QED  BY <1>3, <1>4, Zenon DEF Comes

LEMMA BufferComes ==
  ASSUME ConsumerInv, Kept, NEW m, NEW c \in Consumers, NEW k \in Nat,
         <<"buffer", c, k>> \in Pending(m)', NEW l \in 1..Len(buffer[c]),
         buffer'[c][k] = buffer[c][l]
  PROVE  Comes(<<"buffer", c, k>>, <<"buffer", c, l>>, m)
<1>1. PICK i \in Copies : i = buffer[c][l] /\ Born(i) /\ l \in Nat
  <2>1. buffer[c] \in Seq(Copies)
    BY Zenon DEF ConsumerInv, TypeOK
  <2>2. buffer[c][l] \in Copies
    BY <2>1, ElementOfSequence, Zenon
  <2> QED  BY <2>2 DEF ConsumerInv, BufferInv, InPlay
<1>2. message'[i] = message[i] /\ attempts'[i] = attempts[i]
  BY <1>1, Zenon DEF Kept
<1>3. <<"buffer", c, l>> \in Pending(m)
  <2>1. message'[buffer'[c][k]] = m
    BY BufferToken, Zenon
  <2>2. message[buffer[c][l]] = m
    BY <1>1, <1>2, <2>1, Zenon
  <2> QED  BY <1>1, <2>2, BufferToken, Zenon
<1>4. Left'[<<"buffer", c, k>>] = Left[<<"buffer", c, l>>]
  <2>1. Left'[<<"buffer", c, k>>] = MaxAttempts - attempts'[buffer'[c][k]]
    BY BufferToken, Zenon
  <2>2. Left[<<"buffer", c, l>>] = MaxAttempts - attempts[buffer[c][l]]
    BY <1>1, BufferToken, Zenon
  <2> QED  BY <1>1, <1>2, <2>1, <2>2, Zenon
<1> QED  BY <1>3, <1>4, Zenon DEF Comes

LEMMA WireComes ==
  ASSUME ConsumerInv, Kept, NEW m, NEW c \in Consumers, NEW k \in Nat,
         <<"wire", c, k>> \in Pending(m)', NEW l \in 1..Len(wire[c]),
         wire'[c][k] = wire[c][l]
  PROVE  Comes(<<"wire", c, k>>, <<"wire", c, l>>, m)
<1>1. PICK i \in Copies : i = wire[c][l].copy /\ Born(i) /\ l \in Nat
  BY FrameFacts
<1>2. message'[i] = message[i] /\ attempts'[i] = attempts[i]
  BY <1>1, Zenon DEF Kept
<1>3. <<"wire", c, l>> \in Pending(m)
  <2>1. wire'[c][k].op # "ack" /\ message'[wire'[c][k].copy] = m
    BY WirePends
  <2>2. wire[c][l].op # "ack" /\ message[wire[c][l].copy] = m
    BY <1>1, <1>2, <2>1
  <2> QED  BY <1>1, <2>2, WireToken, Zenon
<1>4. Left'[<<"wire", c, k>>] = Left[<<"wire", c, l>>]
  <2>1. Left'[<<"wire", c, k>>] = MaxAttempts - attempts'[wire'[c][k].copy] - 1
    BY WireLeft, Zenon
  <2>2. Left[<<"wire", c, l>>] = MaxAttempts - attempts[wire[c][l].copy] - 1
    BY <1>1, WireLeft, Zenon
  <2> QED  BY <1>1, <1>2, <2>1, <2>2, Zenon
<1> QED  BY <1>3, <1>4, Zenon DEF Comes

\* The deliveries but x are where they were, none of them y; kind by kind.
OthersStay(m, x, y) ==
  /\ \A i \in Copies : <<"queue", 0, i>> \in Pending(m)' /\ <<"queue", 0, i>> # x =>
       /\ <<"queue", 0, i>> # y
       /\ place[i] \in Queued /\ (place[i] = "dead" => place'[i] = "dead")
  /\ \A c \in Consumers : <<"hand", c, 0>> \in Pending(m)' /\ <<"hand", c, 0>> # x =>
       <<"hand", c, 0>> # y /\ stage[c] \in Acting /\ hand'[c] = hand[c]
  /\ \A c \in Consumers, k \in Nat :
       <<"buffer", c, k>> \in Pending(m)' /\ <<"buffer", c, k>> # x =>
         <<"buffer", c, k>> # y /\ k \in 1..Len(buffer[c]) /\ buffer'[c][k] = buffer[c][k]
  /\ \A c \in Consumers, k \in Nat :
       <<"wire", c, k>> \in Pending(m)' /\ <<"wire", c, k>> # x =>
         <<"wire", c, k>> # y /\ k \in 1..Len(wire[c]) /\ wire'[c][k] = wire[c][k]

\* OneMoves, place by place.
LEMMA KindsMove ==
  ASSUME ConsumerInv, Kept, NEW m, IsFiniteSet(Pending(m)), NEW x, NEW y,
         OthersStay(m, x, y), x \in Pending(m)' => Comes(x, y, m)
  PROVE  NoMore(m)
<1>1. ASSUME NEW t \in Pending(m)', t # x  PROVE t # y /\ Comes(t, t, m)
  <2>1. t \in Token
    BY Zenon DEF Pending
  <2>2. ASSUME NEW i \in Copies, t = <<"queue", 0, i>>  PROVE t # y /\ Comes(t, t, m)
    BY <1>1, <2>2, QueueComes, Zenon DEF OthersStay
  <2>3. ASSUME NEW c \in Consumers, t = <<"hand", c, 0>>  PROVE t # y /\ Comes(t, t, m)
    BY <1>1, <2>3, HandComes, Zenon DEF OthersStay
  <2>4. ASSUME NEW c \in Consumers, NEW k \in Nat, t = <<"buffer", c, k>>
        PROVE  t # y /\ Comes(t, t, m)
    BY <1>1, <2>4, BufferComes, Zenon DEF OthersStay
  <2>5. ASSUME NEW c \in Consumers, NEW k \in Nat, t = <<"wire", c, k>>
        PROVE  t # y /\ Comes(t, t, m)
    BY <1>1, <2>5, WireComes, Zenon DEF OthersStay
  <2> QED  BY <2>1, <2>2, <2>3, <2>4, <2>5, TokenKinds, Zenon
<1> QED  BY <1>1, OneMoves, Zenon

\* Where nothing changed, every delivery stays.
LEMMA QueuesStay ==
  ASSUME place' = place, message' = message, NEW m, NEW i \in Copies,
         <<"queue", 0, i>> \in Pending(m)'
  PROVE  place[i] \in Queued /\ (place[i] = "dead" => place'[i] = "dead")
  BY QueueToken, Zenon

LEMMA HandsStay ==
  ASSUME NEW c \in Consumers, hand'[c] = hand[c], stage'[c] = stage[c], NEW m,
         <<"hand", c, 0>> \in Pending(m)'
  PROVE  stage[c] \in Acting /\ hand'[c] = hand[c]
  BY HandToken, Zenon

LEMMA BuffersStay ==
  ASSUME NEW c \in Consumers, buffer'[c] = buffer[c], NEW m, NEW k \in Nat,
         <<"buffer", c, k>> \in Pending(m)'
  PROVE  k \in 1..Len(buffer[c]) /\ buffer'[c][k] = buffer[c][k]
  BY BufferToken, Zenon

LEMMA WiresStay ==
  ASSUME NEW c \in Consumers, wire'[c] = wire[c], NEW m, NEW k \in Nat,
         <<"wire", c, k>> \in Pending(m)'
  PROVE  k \in 1..Len(wire[c]) /\ wire'[c][k] = wire[c][k]
  BY WireToken, Zenon

\* What is left is where it was.
AllStay(m) ==
  /\ \A i \in Copies : <<"queue", 0, i>> \in Pending(m)' =>
       place[i] \in Queued /\ (place[i] = "dead" => place'[i] = "dead")
  /\ \A c \in Consumers : <<"hand", c, 0>> \in Pending(m)' =>
       stage[c] \in Acting /\ hand'[c] = hand[c]
  /\ \A c \in Consumers, k \in Nat : <<"buffer", c, k>> \in Pending(m)' =>
       k \in 1..Len(buffer[c]) /\ buffer'[c][k] = buffer[c][k]
  /\ \A c \in Consumers, k \in Nat : <<"wire", c, k>> \in Pending(m)' =>
       k \in 1..Len(wire[c]) /\ wire'[c][k] = wire[c][k]

\* A step that moves no delivery adds nothing.
LEMMA NothingMoves ==
  ASSUME ConsumerInv, Kept, NEW m, IsFiniteSet(Pending(m)), AllStay(m)
  PROVE  NoMore(m) /\ \A t \in Pending(m)' : t \in Pending(m)
<1>1. ASSUME NEW t \in Pending(m)'  PROVE Comes(t, t, m)
  <2>1. t \in Token
    BY Zenon DEF Pending
  <2>2. ASSUME NEW i \in Copies, t = <<"queue", 0, i>>  PROVE Comes(t, t, m)
    BY <2>2, QueueComes, Zenon DEF AllStay
  <2>3. ASSUME NEW c \in Consumers, t = <<"hand", c, 0>>  PROVE Comes(t, t, m)
    BY <2>3, HandComes, Zenon DEF AllStay
  <2>4. ASSUME NEW c \in Consumers, NEW k \in Nat, t = <<"buffer", c, k>>  PROVE Comes(t, t, m)
    BY <2>4, BufferComes, Zenon DEF AllStay
  <2>5. ASSUME NEW c \in Consumers, NEW k \in Nat, t = <<"wire", c, k>>  PROVE Comes(t, t, m)
    BY <2>5, WireComes, Zenon DEF AllStay
  <2> QED  BY <2>1, <2>2, <2>3, <2>4, <2>5, TokenKinds, Zenon
<1>2. \A t \in Pending(m)' : t # 0 => t # 0 /\ Comes(t, t, m)
  BY <1>1, Zenon
<1>3. 0 \in Pending(m)' => Comes(0, 0, m)
  BY <1>1, Zenon
<1>4. NoMore(m)
  BY <1>2, <1>3, OneMoves, Zenon
<1> QED  BY <1>1, <1>4, Zenon DEF Comes

\* The first of a sequence became x; the others of that sequence moved up.
LEMMA SequenceMoves ==
  ASSUME NEW m, IsFiniteSet(Pending(m)), NEW kind \in {"buffer", "wire"}, NEW c \in Consumers,
         NEW x, x[1] # kind, x \in Pending(m)' => Comes(x, <<kind, c, 1>>, m),
         \A k \in Nat : <<kind, c, k>> \in Pending(m)' =>
           k # 0 /\ Comes(<<kind, c, k>>, <<kind, c, k + 1>>, m),
         \A t \in Pending(m)' : t # x /\ ~(t[1] = kind /\ t[2] = c) => Comes(t, t, m)
  PROVE  NoMore(m)
<1> DEFINE S == Pending(m)
           T == Pending(m)'
           L == Left
           K == Left'
<1>1. x \in T => /\ <<kind, c, 1>> \in S
                 /\ \A a \in 1..MaxAttempts : a <= K[x] => a <= L[<<kind, c, 1>>]
  BY Zenon DEF Comes
<1>2. \A k \in Nat : <<kind, c, k>> \in T =>
        /\ k # 0 /\ <<kind, c, k + 1>> \in S
        /\ \A a \in 1..MaxAttempts : a <= K[<<kind, c, k>>] => a <= L[<<kind, c, k + 1>>]
  BY Zenon DEF Comes
<1>3. \A t \in T : t # x /\ ~(t[1] = kind /\ t[2] = c) =>
        t \in S /\ \A a \in 1..MaxAttempts : a <= K[t] => a <= L[t]
  BY Zenon DEF Comes
<1>4. IsFiniteSet(S) /\ T \in SUBSET Token /\ IsShift(S, L, T, K, kind, c, x)
  BY <1>1, <1>2, <1>3, Zenon DEF Pending, IsShift
<1> HIDE DEF S, T, L, K
<1>5. /\ IsFiniteSet(T) /\ Cardinality(T) <= Cardinality(S)
      /\ Cardinality(Future(T, K)) <= Cardinality(Future(S, L))
  BY <1>4, Shifted, Zenon
<1> QED  BY <1>5, Zenon DEF S, T, L, K, NoMore

-----------------------------------------------------------------------------
(* The steps that move deliveries.                                         *)

\* The broker delivers: a copy leaves its queue for a deliveries channel.
LEMMA DeliverMoves ==
  ASSUME ConsumerInv, Kept, NEW c \in Consumers, NEW j \in Copies, Deliver(c, j),
         NEW m \in Messages, IsFiniteSet(Pending(m))
  PROVE  NoMore(m)
<1> DEFINE n == Len(buffer[c]) + 1
           x == <<"buffer", c, n>>
           y == <<"queue", 0, j>>
<1>1. /\ place[j] = "ready" /\ place' = [place EXCEPT ![j] = c]
      /\ buffer' = [buffer EXCEPT ![c] = Append(buffer[c], j)]
      /\ UNCHANGED <<message, attempts, hand, stage, wire>>
  BY Zenon DEF Deliver
<1>2. /\ place'[j] = c /\ c \notin Queued /\ \A i \in Copies \ {j} : place'[i] = place[i]
      /\ buffer'[c] = Append(buffer[c], j) /\ \A d \in Consumers \ {c} : buffer'[d] = buffer[d]
  BY <1>1, ConsumerAssumption, Zenon DEF ConsumerInv, TypeOK, Queued
<1>3. /\ n \in Nat /\ Len(buffer'[c]) = n /\ buffer'[c][n] = j
      /\ \A k \in 1..n : k # n => k \in 1..Len(buffer[c]) /\ buffer'[c][k] = buffer[c][k]
  <2>1. buffer[c] \in Seq(Copies)
    BY Zenon DEF ConsumerInv, TypeOK
  <2>2. Len(buffer[c]) \in Nat /\ Len(buffer'[c]) = n /\ buffer'[c][n] = j
    BY <1>2, <2>1, AppendElements, SMTT(30)
  <2>3. \A k \in 1..n : k # n => k \in 1..Len(buffer[c])
    BY <2>2
  <2> QED  BY <1>2, <2>1, <2>2, <2>3, AppendElements
<1> HIDE DEF n
<1>4. ASSUME NEW i \in Copies, <<"queue", 0, i>> \in Pending(m)'
      PROVE  /\ <<"queue", 0, i>> # y /\ place[i] \in Queued
             /\ place[i] = "dead" => place'[i] = "dead"
  <2>1. i # j
    BY <1>2, <1>4, QueueToken, Zenon
  <2>2. <<"queue", 0, i>> # y
    BY <2>1, Zenon
  <2> QED  BY <1>2, <1>4, <2>1, <2>2, QueueToken, Zenon
<1>5. ASSUME NEW d \in Consumers, <<"hand", d, 0>> \in Pending(m)'
      PROVE  <<"hand", d, 0>> # y /\ stage[d] \in Acting /\ hand'[d] = hand[d]
  BY <1>1, <1>5, HandsStay, Zenon
<1>6. ASSUME NEW d \in Consumers, NEW k \in Nat, <<"buffer", d, k>> \in Pending(m)',
             <<"buffer", d, k>> # x
      PROVE  /\ <<"buffer", d, k>> # y
             /\ k \in 1..Len(buffer[d]) /\ buffer'[d][k] = buffer[d][k]
  <2>1. CASE d = c
    <3>1. k # n
      BY <1>6, <2>1, Zenon
    <3>2. k \in 1..n
      BY <1>3, <1>6, <2>1, BufferToken, Zenon
    <3> QED  BY <1>3, <2>1, <3>1, <3>2, Zenon
  <2>2. CASE d # c
    BY <1>2, <1>6, <2>2, BuffersStay, Zenon
  <2> QED  BY <2>1, <2>2, Zenon
<1>7. ASSUME NEW d \in Consumers, NEW k \in Nat, <<"wire", d, k>> \in Pending(m)'
      PROVE  /\ <<"wire", d, k>> # y
             /\ k \in 1..Len(wire[d]) /\ wire'[d][k] = wire[d][k]
  BY <1>1, <1>7, WiresStay, Zenon
<1>8. x \in Pending(m)' => Comes(x, y, m)
  <2> SUFFICES ASSUME x \in Pending(m)'  PROVE Comes(x, y, m)
    BY Zenon
  <2>1. message[j] = m
    BY <1>1, <1>3, BufferToken
  <2>2. y \in Pending(m)
    BY <1>1, <2>1, QueueToken, Zenon DEF Queued
  <2>3. Left'[x] = MaxAttempts - attempts[j]
    <3>1. Left'[x] = MaxAttempts - attempts'[buffer'[c][n]]
      BY <1>3, BufferToken, Zenon
    <3> QED  BY <1>1, <1>3, <3>1, Zenon
  <2>4. Left[y] = MaxAttempts - attempts[j]
    BY <1>1, QueueToken, Zenon
  <2> QED  BY <2>2, <2>3, <2>4, Zenon DEF Comes
<1> HIDE DEF x, y
<1>9. OthersStay(m, x, y)
  BY <1>4, <1>5, <1>6, <1>7, Zenon DEF OthersStay
<1> QED  BY <1>8, <1>9, KindsMove, Zenon

\* The broker handles a frame: what it was about is in a queue, or gone.
LEMMA HandleFrameMoves ==
  ASSUME ConsumerInv, Kept, NEW c \in Consumers, HandleFrame(c),
         NEW m \in Messages, IsFiniteSet(Pending(m))
  PROVE  NoMore(m)
<1>1. wire[c] # <<>> /\ wire[c] \in Seq([op : Op, copy : Copies])
      /\ wire' = [wire EXCEPT ![c] = Tail(wire[c])] /\ UNCHANGED <<buffer, hand, stage>>
  BY Zenon DEF HandleFrame, ConsumerInv, TypeOK
<1>2. wire'[c] = Tail(wire[c]) /\ \A d \in Consumers \ {c} : wire'[d] = wire[d]
  BY <1>1, Zenon DEF ConsumerInv, TypeOK
<1>3. /\ 1 \in 1..Len(wire[c]) /\ Head(wire[c]) = wire[c][1]
      /\ \A k \in 1..Len(wire'[c]) :
           k # 0 /\ k + 1 \in 1..Len(wire[c]) /\ wire'[c][k] = wire[c][k + 1]
  BY <1>1, <1>2, TailMoves, Zenon
<1>4. PICK h \in Copies, o \in Op : h = wire[c][1].copy /\ o = wire[c][1].op
  BY <1>3, FrameFacts, Zenon
<1>5. InPlay(h) /\ Born(h)
  BY <1>3, <1>4, FrameFacts, Zenon
<1>6. <<"wire", c, 1>> \in Pending(m) <=> o # "ack" /\ message[h] = m
  BY <1>3, <1>4, WireToken
<1>7. Left[<<"wire", c, 1>>] = MaxAttempts - attempts[h] - 1
  BY <1>4, WireToken, SMTT(30)
\* The copy the frame put in a queue, if it did.
<1>8. \E n \in Copies :
        /\ \A i \in Copies \ {n} : place'[i] = place[i] \/ place'[i] = "gone"
        /\ place'[n] \in Queued =>
             /\ o # "ack" /\ message'[n] = message[h]
             /\ place'[n] # "dead" => attempts'[n] = attempts[h] + 1
  <2>1. ASSUME NEW queue \in {"waiting", "dead"}, Arrive(h, queue), o # "ack"  PROVE <1>8!:
    <3>1. PICK n \in Copies :
           /\ place' = [place EXCEPT ![n] = queue]
           /\ message'[n] = message[h] /\ attempts'[n] = attempts[h] + 1
      BY <1>5, <2>1, ArriveStep DEF ConsumerInv, InPlay
    <3>2. \A i \in Copies \ {n} : place'[i] = place[i]
      BY <3>1, Zenon DEF ConsumerInv, TypeOK
    <3> QED  BY <2>1, <3>1, <3>2, Zenon
  <2>2. ASSUME NEW q \in {"gone", "dead"}, place' = [place EXCEPT ![h] = q],
               message' = message, q = "dead" => o # "ack"
        PROVE  <1>8!:
    <3>1. place'[h] = q /\ \A i \in Copies \ {h} : place'[i] = place[i]
      BY <2>2, Zenon DEF ConsumerInv, TypeOK
    <3>2. place'[h] \in Queued => q = "dead"
      BY <3>1, Zenon DEF Queued
    <3> QED  BY <2>2, <3>1, <3>2, Zenon
  <2>3. CASE o = "retry"
    BY <1>3, <1>4, <2>1, <2>3, Zenon DEF HandleFrame
  <2>4. CASE o = "dead"
    BY <1>3, <1>4, <2>1, <2>4, Zenon DEF HandleFrame
  <2>5. CASE o = "ack"
    BY <1>3, <1>4, <2>2, <2>5, Zenon DEF HandleFrame
  <2>6. CASE o = "reject"
    BY <1>3, <1>4, <2>2, <2>6, Zenon DEF HandleFrame
  <2> QED  BY <2>3, <2>4, <2>5, <2>6, Zenon DEF Op
<1>9. PICK n \in Copies :
        /\ \A i \in Copies \ {n} : place'[i] = place[i] \/ place'[i] = "gone"
        /\ place'[n] \in Queued =>
             /\ o # "ack" /\ message'[n] = message[h]
             /\ place'[n] # "dead" => attempts'[n] = attempts[h] + 1
  BY <1>8, Zenon
<1> DEFINE x == <<"queue", 0, n>>
<1>10. x \in Pending(m)' => Comes(x, <<"wire", c, 1>>, m)
  <2> SUFFICES ASSUME x \in Pending(m)'  PROVE Comes(x, <<"wire", c, 1>>, m)
    BY Zenon
  <2>1. place'[n] \in Queued /\ message'[n] = m
    BY QueueToken, Zenon
  <2>2. <<"wire", c, 1>> \in Pending(m)
    BY <1>6, <1>9, <2>1, Zenon
  <2>3. CASE place'[n] = "dead"
    <3>1. Left'[x] = 0
      BY <2>3, QueueToken, Zenon
    <3>2. \A a \in 1..MaxAttempts : a <= Left'[x] => a <= Left[<<"wire", c, 1>>]
      BY <3>1, SMTT(30)
    <3> QED  BY <2>2, <3>2, Zenon DEF Comes
  <2>4. CASE place'[n] # "dead"
    <3>1. Left'[x] = MaxAttempts - attempts'[n] /\ attempts'[n] = attempts[h] + 1
      BY <1>9, <2>1, <2>4, QueueToken, Zenon
    <3>2. attempts[h] \in Nat /\ MaxAttempts \in Nat
      BY ConsumerAssumption, SMTT(30) DEF ConsumerInv, TypeOK
    <3>3. Left'[x] = Left[<<"wire", c, 1>>]
      BY <1>7, <3>1, <3>2, SMTT(30)
    <3> QED  BY <2>2, <3>3, Zenon DEF Comes
  <2> QED  BY <2>3, <2>4, Zenon
<1>11. ASSUME NEW k \in Nat, <<"wire", c, k>> \in Pending(m)'
       PROVE  k # 0 /\ Comes(<<"wire", c, k>>, <<"wire", c, k + 1>>, m)
  <2>1. k \in 1..Len(wire'[c])
    BY <1>11, WireToken, Zenon
  <2>2. k # 0 /\ k + 1 \in 1..Len(wire[c]) /\ wire'[c][k] = wire[c][k + 1]
    BY <1>3, <2>1, Zenon
  <2> QED  BY <1>11, <2>2, WireComes, Zenon
<1>12. ASSUME NEW t \in Pending(m)', t # x, ~(t[1] = "wire" /\ t[2] = c)
       PROVE  Comes(t, t, m)
  <2>1. t \in Token
    BY Zenon DEF Pending
  <2>2. ASSUME NEW i \in Copies, t = <<"queue", 0, i>>  PROVE Comes(t, t, m)
    <3>1. i # n
      BY <1>12, <2>2, Zenon
    <3>2. place'[i] \in Queued /\ place'[i] = place[i]
      BY <1>9, <2>2, <3>1, QueueToken, Zenon DEF Queued
    <3> QED  BY <2>2, <3>2, QueueComes, Zenon
  <2>3. ASSUME NEW d \in Consumers, t = <<"hand", d, 0>>  PROVE Comes(t, t, m)
    BY <1>1, <2>3, HandsStay, HandComes, Zenon
  <2>4. ASSUME NEW d \in Consumers, NEW k \in Nat, t = <<"buffer", d, k>>  PROVE Comes(t, t, m)
    BY <1>1, <2>4, BuffersStay, BufferComes, Zenon
  <2>5. ASSUME NEW d \in Consumers, NEW k \in Nat, t = <<"wire", d, k>>  PROVE Comes(t, t, m)
    <3>1. d # c
      BY <1>12, <2>5, Zenon
    <3> QED  BY <1>2, <2>5, <3>1, WiresStay, WireComes, Zenon
  <2> QED  BY <2>1, <2>2, <2>3, <2>4, <2>5, TokenKinds, Zenon
<1>13. x[1] # "wire"
  BY Zenon
<1> HIDE DEF x
<1> QED  BY <1>10, <1>11, <1>12, <1>13, SequenceMoves, Zenon

\* The handler fails: PublishRaw or PublishRawFails puts what is in hand on the wire.
LEMMA SendMoves ==
  ASSUME ConsumerInv, Kept, NEW c \in Consumers, stage[c] \in Acting, NEW o \in Op, Send(c, o),
         stage'[c] \notin Acting, \A d \in Consumers \ {c} : hand'[d] = hand[d] /\ stage'[d] = stage[d],
         UNCHANGED <<place, message, attempts, buffer>>,
         NEW m \in Messages, IsFiniteSet(Pending(m))
  PROVE  NoMore(m)
<1>1. PICK i \in Copies : i = hand[c] /\ Born(i)
  BY InHand, Zenon DEF Acting
<1>2. PICK n \in Nat : n = Len(wire[c]) + 1
  BY SMTT(30) DEF ConsumerInv, TypeOK
<1> DEFINE x == <<"wire", c, n>>
           y == <<"hand", c, 0>>
<1>3. \A d \in Consumers \ {c} : wire'[d] = wire[d]
  BY Zenon DEF Send, ConsumerInv, TypeOK
<1>4. /\ \A k \in 1..Len(wire'[c]) : k # n => k \in 1..Len(wire[c]) /\ wire'[c][k] = wire[c][k]
      /\ n \in 1..Len(wire'[c]) => wire'[c][n].copy = i
  <2>1. wire[c] \in Seq([op : Op, copy : Copies])
    BY Zenon DEF ConsumerInv, TypeOK
  <2>2. Len(wire[c]) \in Nat
    BY <2>1, SMTT(30)
  <2>3. CASE open[c]
    <3>1. wire'[c] = Append(wire[c], [op |-> o, copy |-> i])
      BY <1>1, <2>3, Zenon DEF Send, ConsumerInv, TypeOK
    <3>2. [op |-> o, copy |-> i] \in [op : Op, copy : Copies]
      BY Zenon
    <3>3. /\ Len(wire'[c]) = n /\ wire'[c][n] = [op |-> o, copy |-> i]
          /\ \A k \in 1..Len(wire[c]) : wire'[c][k] = wire[c][k]
      BY <1>2, <2>1, <3>1, <3>2, AppendElements
    <3>4. \A k \in 1..n : k # n => k \in 1..Len(wire[c])
      BY <1>2, <2>2
    <3> QED  BY <3>3, <3>4, SMTT(30)
  <2>4. CASE ~open[c]
    <3>1. wire'[c] = wire[c] /\ n \notin 1..Len(wire[c])
      BY <1>2, <2>2, <2>4 DEF Send
    <3> QED  BY <3>1, Zenon
  <2> QED  BY <2>3, <2>4, Zenon
<1>5. ASSUME NEW j \in Copies, <<"queue", 0, j>> \in Pending(m)'
      PROVE  /\ <<"queue", 0, j>> # y
             /\ place[j] \in Queued /\ (place[j] = "dead" => place'[j] = "dead")
  BY <1>5, QueuesStay, Zenon
<1>6. ASSUME NEW d \in Consumers, <<"hand", d, 0>> \in Pending(m)'
      PROVE  <<"hand", d, 0>> # y /\ stage[d] \in Acting /\ hand'[d] = hand[d]
  <2>1. d # c
    BY <1>6, HandToken, Zenon
  <2>2. <<"hand", d, 0>> # y
    BY <2>1, Zenon
  <2> QED  BY <1>6, <2>1, <2>2, HandsStay, Zenon
<1>7. ASSUME NEW d \in Consumers, NEW k \in Nat, <<"buffer", d, k>> \in Pending(m)'
      PROVE  /\ <<"buffer", d, k>> # y
             /\ k \in 1..Len(buffer[d]) /\ buffer'[d][k] = buffer[d][k]
  BY <1>7, BuffersStay, Zenon
<1>8. ASSUME NEW d \in Consumers, NEW k \in Nat, <<"wire", d, k>> \in Pending(m)',
             <<"wire", d, k>> # x
      PROVE  /\ <<"wire", d, k>> # y
             /\ k \in 1..Len(wire[d]) /\ wire'[d][k] = wire[d][k]
  <2>1. CASE d = c
    <3>1. k # n /\ k \in 1..Len(wire'[c])
      BY <1>8, <2>1, WireToken, Zenon
    <3> QED  BY <1>4, <2>1, <3>1, Zenon
  <2>2. CASE d # c
    BY <1>3, <1>8, <2>2, WiresStay, Zenon
  <2> QED  BY <2>1, <2>2, Zenon
<1>9. x \in Pending(m)' => Comes(x, y, m)
  <2> SUFFICES ASSUME x \in Pending(m)'  PROVE Comes(x, y, m)
    BY Zenon
  <2>1. n \in 1..Len(wire'[c]) /\ message'[wire'[c][n].copy] = m
    BY WirePends
  <2>2. wire'[c][n].copy = i /\ message[i] = m
    BY <1>4, <2>1, Zenon
  <2>3. y \in Pending(m)
    BY <1>1, <2>2, HandToken, Zenon
  <2>4. Left'[x] = MaxAttempts - attempts'[wire'[c][n].copy] - 1
    BY WireLeft, Zenon
  <2>5. Left[y] = MaxAttempts - attempts[hand[c]] - 1
    BY HandToken, Zenon
  <2>6. Left'[x] = Left[y]
    BY <1>1, <2>2, <2>4, <2>5, Zenon
  <2> QED  BY <2>3, <2>6, Zenon DEF Comes
<1> HIDE DEF x, y
<1>10. OthersStay(m, x, y)
  BY <1>5, <1>6, <1>7, <1>8, Zenon DEF OthersStay
<1> QED  BY <1>9, <1>10, KindsMove, Zenon

\* The loop takes a delivery: one of the runs before it is made.
LEMMA TakeMoves ==
  ASSUME ConsumerInv, Kept, NEW c \in Consumers, Take(c),
         NEW m \in Messages, IsFiniteSet(Pending(m))
  PROVE  /\ NoMore(m)
         /\ message[Head(buffer[c])] = m =>
              Cardinality(Future(Pending(m)', Left')) + 1 <= Cardinality(Future(Pending(m), Left))
<1> DEFINE x == <<"hand", c, 0>>
           b == <<"buffer", c, 1>>
<1>1. /\ buffer[c] \in Seq(Copies) /\ buffer[c] # <<>> /\ stage[c] = "idle"
      /\ buffer' = [buffer EXCEPT ![c] = Tail(buffer[c])]
      /\ hand' = [hand EXCEPT ![c] = Head(buffer[c])]
      /\ stage' = [stage EXCEPT ![c] = "handle"]
      /\ UNCHANGED <<place, message, attempts, wire>>
  BY Zenon DEF Take, ConsumerInv, TypeOK, copyVars
<1>2. /\ buffer'[c] = Tail(buffer[c]) /\ hand'[c] = Head(buffer[c]) /\ stage'[c] = "handle"
      /\ \A d \in Consumers \ {c} :
           buffer'[d] = buffer[d] /\ hand'[d] = hand[d] /\ stage'[d] = stage[d]
  BY <1>1, Zenon DEF ConsumerInv, TypeOK
<1>3. /\ 1 \in 1..Len(buffer[c]) /\ Head(buffer[c]) = buffer[c][1] /\ buffer[c][1] \in Copies
      /\ \A k \in 1..Len(buffer'[c]) : k \in 1..Len(buffer[c]) - 1
      /\ \A k \in 1..Len(buffer[c]) - 1 :
           buffer'[c][k] = buffer[c][k + 1] /\ k + 1 \in 1..Len(buffer[c])
  <2>1. /\ 1 \in 1..Len(buffer[c]) /\ Head(buffer[c]) = buffer[c][1] /\ buffer[c][1] \in Copies
        /\ Len(Tail(buffer[c])) = Len(buffer[c]) - 1
    BY <1>1, TailElements, Zenon
  <2>2. \A k \in 1..Len(buffer[c]) - 1 :
          Tail(buffer[c])[k] = buffer[c][k + 1] /\ k + 1 \in 1..Len(buffer[c])
    BY <1>1, TailElements, Zenon
  <2> QED  BY <1>2, <2>1, <2>2, Zenon
<1>4. PICK i \in Copies : i = buffer[c][1] /\ attempts[i] < MaxAttempts
  BY <1>3, Zenon DEF ConsumerInv, BufferInv, InPlay
<1>5. attempts[i] \in Nat /\ MaxAttempts \in Nat
  BY ConsumerAssumption, SMTT(30) DEF ConsumerInv, TypeOK
<1>6. /\ b \in Pending(m) <=> message[i] = m
      /\ Left[b] = MaxAttempts - attempts[i]
  BY <1>3, <1>4, BufferToken, SMTT(30)
<1>7. x \in Pending(m)' <=> message[i] = m
  BY <1>1, <1>2, <1>3, <1>4, HandToken, SMTT(30) DEF Acting
<1>8. Left'[x] = Left[b] - 1 /\ Left[b] \in 1..MaxAttempts
  <2>1. Left'[x] = MaxAttempts - attempts'[hand'[c]] - 1
    BY HandToken, Zenon
  <2>2. Left'[x] = MaxAttempts - attempts[i] - 1
    BY <1>1, <1>2, <1>3, <1>4, <2>1, Zenon
  <2> QED  BY <1>4, <1>5, <1>6, <2>2, SMTT(30)
<1>9. x \in Pending(m)' => Comes(x, b, m)
  BY <1>6, <1>7, <1>8, SMTT(30) DEF Comes
<1>10. ASSUME NEW k \in Nat, <<"buffer", c, k>> \in Pending(m)'
       PROVE  k # 0 /\ Comes(<<"buffer", c, k>>, <<"buffer", c, k + 1>>, m)
  <2>1. k \in 1..Len(buffer'[c])
    BY <1>10, BufferToken, Zenon
  <2>2. k # 0 /\ k + 1 \in 1..Len(buffer[c]) /\ buffer'[c][k] = buffer[c][k + 1]
    BY <1>3, <2>1
  <2> QED  BY <1>10, <2>2, BufferComes, Zenon
<1>11. ASSUME NEW t \in Pending(m)', t # x, ~(t[1] = "buffer" /\ t[2] = c)
       PROVE  Comes(t, t, m)
  <2>1. t \in Token
    BY Zenon DEF Pending
  <2>2. ASSUME NEW j \in Copies, t = <<"queue", 0, j>>  PROVE Comes(t, t, m)
    BY <1>1, <2>2, QueuesStay, QueueComes, Zenon
  <2>3. ASSUME NEW d \in Consumers, t = <<"hand", d, 0>>  PROVE Comes(t, t, m)
    <3>1. d # c
      BY <1>11, <2>3, Zenon
    <3> QED  BY <1>2, <2>3, <3>1, HandsStay, HandComes, Zenon
  <2>4. ASSUME NEW d \in Consumers, NEW k \in Nat, t = <<"buffer", d, k>>  PROVE Comes(t, t, m)
    <3>1. d # c
      BY <1>11, <2>4, Zenon
    <3> QED  BY <1>2, <2>4, <3>1, BuffersStay, BufferComes, Zenon
  <2>5. ASSUME NEW d \in Consumers, NEW k \in Nat, t = <<"wire", d, k>>  PROVE Comes(t, t, m)
    BY <1>1, <2>5, WiresStay, WireComes, Zenon
  <2> QED  BY <2>1, <2>2, <2>3, <2>4, <2>5, TokenKinds, Zenon
<1>12. x[1] # "buffer"
  BY Zenon
<1>13. NoMore(m)
  <2> HIDE DEF x
  <2> QED  BY <1>9, <1>10, <1>11, <1>12, SequenceMoves, Zenon
<1>14. ASSUME message[i] = m
       PROVE  Cardinality(Future(Pending(m)', Left')) + 1 <= Cardinality(Future(Pending(m), Left))
  <2> DEFINE S == Pending(m)
             T == Pending(m)'
             K == Left'
             L == [Left EXCEPT ![b] = @ - 1]
             top == <<b, Left[b]>>
  <2>1. b \in Token /\ L[b] = Left[b] - 1 /\ \A u \in Token \ {b} : L[u] = Left[u]
    BY BufferToken, Zenon DEF Left
  <2>2. S \in SUBSET Token /\ T \in SUBSET Token /\ IsFiniteSet(S)
    BY Zenon DEF Pending
  <2>3. IsShift(S, L, T, K, "buffer", c, x)
    <3>1. x \in T => /\ <<"buffer", c, 1>> \in S
                     /\ \A a \in 1..MaxAttempts : a <= K[x] => a <= L[<<"buffer", c, 1>>]
      BY <1>6, <1>8, <1>14, <2>1, Zenon
    <3>2. ASSUME NEW k \in Nat, <<"buffer", c, k>> \in T
          PROVE  /\ k # 0 /\ <<"buffer", c, k + 1>> \in S
                 /\ \A a \in 1..MaxAttempts : a <= K[<<"buffer", c, k>>] => a <= L[<<"buffer", c, k + 1>>]
      <4>1. k # 0 /\ Comes(<<"buffer", c, k>>, <<"buffer", c, k + 1>>, m)
        BY <1>10, <3>2, Zenon
      <4>2. <<"buffer", c, k + 1>> # b
        BY <4>1
      <4>3. <<"buffer", c, k + 1>> \in Token
        BY BufferToken
      <4>4. L[<<"buffer", c, k + 1>>] = Left[<<"buffer", c, k + 1>>]
        BY <2>1, <4>2, <4>3, Zenon
      <4> QED  BY <4>1, <4>4, Zenon DEF Comes
    <3>3. ASSUME NEW t \in T, t # x, ~(t[1] = "buffer" /\ t[2] = c)
          PROVE  t \in S /\ \A a \in 1..MaxAttempts : a <= K[t] => a <= L[t]
      <4>1. Comes(t, t, m) /\ t # b /\ t \in Token
        BY <1>11, <2>2, <3>3
      <4>2. L[t] = Left[t]
        BY <2>1, <4>1, Zenon
      <4> QED  BY <4>1, <4>2, Zenon DEF Comes
    <3> HIDE DEF S, T, K, L, x
    <3> QED  BY <3>1, <3>2, <3>3, Zenon DEF IsShift
  <2>4. Cardinality(Future(T, K)) <= Cardinality(Future(S, L))
    <3> HIDE DEF S, T, K, L, x
    <3> QED  BY <1>12, <2>2, <2>3, Shifted, Zenon
  <2>5. top \in Future(S, Left)
    BY <1>6, <1>8, <1>14 DEF Future
  <2>6. Future(S, L) \in SUBSET (Future(S, Left) \ {top})
    <3> SUFFICES ASSUME NEW p \in Future(S, L)  PROVE p \in Future(S, Left) /\ p # top
      BY Zenon
    <3>1. p \in S \X (1..MaxAttempts) /\ p[2] <= L[p[1]] /\ p[1] \in Token
      BY <2>2, Zenon DEF Future
    <3>2. CASE p[1] = b
      <4>1. p[2] <= Left[b] - 1 /\ p[2] \in 1..MaxAttempts
        BY <2>1, <3>1, <3>2, Zenon
      <4>2. p[2] <= Left[b] /\ p[2] # Left[b]
        BY <1>8, <4>1
      <4> QED  BY <3>1, <3>2, <4>2 DEF Future
    <3>3. CASE p[1] # b
      <4>1. p[2] <= Left[p[1]] /\ p # top
        BY <2>1, <3>1, <3>3
      <4> QED  BY <3>1, <4>1, Zenon DEF Future
    <3> QED  BY <3>2, <3>3, Zenon
  <2>7. /\ IsFiniteSet(Future(S, Left)) /\ Cardinality(Future(S, Left)) \in Nat
        /\ IsFiniteSet(T) /\ Cardinality(Future(T, K)) \in Nat
        /\ IsFiniteSet(Future(S, L)) /\ Cardinality(Future(S, L)) \in Nat
    BY <1>13, <2>2, FutureIsFinite, Zenon DEF NoMore
  <2>8. Cardinality(Future(S, L)) <= Cardinality(Future(S, Left)) - 1
    <3> DEFINE F == Future(S, Left)
               G == Future(S, L)
    <3>1. IsFiniteSet(F) /\ top \in F /\ G \in SUBSET (F \ {top})
      BY <2>5, <2>6, <2>7, Zenon
    <3> HIDE DEF F, G, top
    <3>2. IsFiniteSet(F \ {top}) /\ Cardinality(F \ {top}) = Cardinality(F) - 1
      BY <3>1, FS_RemoveElement, Zenon
    <3>3. Cardinality(G) <= Cardinality(F \ {top})
      BY <3>1, <3>2, FS_Subset, Zenon
    <3> QED  BY <3>2, <3>3, Zenon DEF F, G
  <2> HIDE DEF S, T, K, L
  <2>9. Cardinality(Future(T, K)) + 1 <= Cardinality(Future(S, Left))
    BY <2>4, <2>7, <2>8
  <2> QED  BY <2>9, Zenon DEF S, T, K
<1> QED  BY <1>3, <1>4, <1>13, <1>14, Zenon

\* An acknowledgement on the wire is of nothing that may still happen.
LEMMA AckStays ==
  ASSUME ConsumerInv, NEW c \in Consumers, stage[c] # "idle", Send(c, "ack"),
         NEW m, NEW d \in Consumers, NEW k \in Nat, <<"wire", d, k>> \in Pending(m)'
  PROVE  k \in 1..Len(wire[d]) /\ wire'[d][k] = wire[d][k]
<1>1. CASE wire'[d] = wire[d]
  BY <1>1, WiresStay, Zenon
<1>2. CASE wire'[d] # wire[d]
  <2>1. PICK i \in Copies : i = hand[c]
    BY InHand, Zenon
  <2>2. d = c /\ wire'[c] = Append(wire[c], [op |-> "ack", copy |-> i])
    BY <1>2, <2>1, Zenon DEF Send, ConsumerInv, TypeOK
  <2>3. wire[c] \in Seq([op : Op, copy : Copies]) /\ [op |-> "ack", copy |-> i] \in [op : Op, copy : Copies]
    BY Zenon DEF ConsumerInv, TypeOK, Op
  <2>4. /\ Len(wire[c]) \in Nat /\ Len(wire'[c]) = Len(wire[c]) + 1
        /\ wire'[c][Len(wire[c]) + 1] = [op |-> "ack", copy |-> i]
        /\ \A l \in 1..Len(wire[c]) : wire'[c][l] = wire[c][l]
    BY <2>2, <2>3, AppendElements
  <2>5. k \in 1..Len(wire'[d]) /\ wire'[d][k].op # "ack"
    <3>1. k \in 1..Len(wire'[d])
      BY WireToken, Zenon
    <3>2. Pends(<<"wire", d, k>>, m)'
      BY Zenon DEF Pending
    <3>3. wire'[d][k].op # "ack"
      BY <3>2, Zenon DEF Pends
    <3> QED  BY <3>1, <3>3, Zenon
  <2>6. k # Len(wire[c]) + 1
    BY <2>2, <2>4, <2>5
  <2>7. k \in 1..Len(wire[c])
    BY <2>2, <2>4, <2>5, <2>6
  <2> QED  BY <2>2, <2>4, <2>7, Zenon
<1> QED  BY <1>1, <1>2, Zenon

\* The handler succeeds: its delivery will not fail any more.
LEMMA HandlerSucceedsMoves ==
  ASSUME ConsumerInv, Kept, NEW c \in Consumers, HandlerSucceeds(c),
         NEW m \in Messages, IsFiniteSet(Pending(m))
  PROVE  /\ NoMore(m)
         /\ message[hand[c]] = m => Cardinality(Pending(m)') + 1 <= Cardinality(Pending(m))
<1> DEFINE h == <<"hand", c, 0>>
<1>1. /\ stage[c] = "handle" /\ Send(c, "ack") /\ stage' = [stage EXCEPT ![c] = "idle"]
      /\ hand' = [hand EXCEPT ![c] = None] /\ UNCHANGED <<place, message, attempts, buffer>>
  BY Zenon DEF HandlerSucceeds, Finish, copyVars
<1>2. stage'[c] = "idle" /\ \A d \in Consumers \ {c} : stage'[d] = stage[d] /\ hand'[d] = hand[d]
  BY <1>1, Zenon DEF ConsumerInv, TypeOK
<1>3. h \notin Pending(m)'
  BY <1>2, HandToken, Zenon DEF Acting
<1>4. AllStay(m)
  <2>1. ASSUME NEW d \in Consumers, <<"hand", d, 0>> \in Pending(m)'
        PROVE  stage[d] \in Acting /\ hand'[d] = hand[d]
    <3>1. d # c
      BY <1>3, <2>1, Zenon
    <3> QED  BY <1>2, <2>1, <3>1, HandsStay, Zenon
  <2>2. \A i \in Copies : <<"queue", 0, i>> \in Pending(m)' =>
          place[i] \in Queued /\ (place[i] = "dead" => place'[i] = "dead")
    BY <1>1, QueuesStay, Zenon
  <2>3. \A d \in Consumers, k \in Nat : <<"buffer", d, k>> \in Pending(m)' =>
          k \in 1..Len(buffer[d]) /\ buffer'[d][k] = buffer[d][k]
    BY <1>1, BuffersStay, Zenon
  <2>4. \A d \in Consumers, k \in Nat : <<"wire", d, k>> \in Pending(m)' =>
          k \in 1..Len(wire[d]) /\ wire'[d][k] = wire[d][k]
    BY <1>1, AckStays, Zenon
  <2> QED  BY <2>1, <2>2, <2>3, <2>4, Zenon DEF AllStay
<1>5. NoMore(m) /\ \A t \in Pending(m)' : t \in Pending(m)
  BY <1>4, NothingMoves, Zenon
<1>6. ASSUME message[hand[c]] = m  PROVE Cardinality(Pending(m)') + 1 <= Cardinality(Pending(m))
  <2> DEFINE S == Pending(m)
             T == Pending(m)'
  <2>1. h \in S
    BY <1>1, <1>6, HandToken, Zenon DEF Acting
  <2>2. T \in SUBSET (S \ {h}) /\ IsFiniteSet(S) /\ IsFiniteSet(T)
    BY <1>3, <1>5, Zenon DEF NoMore
  <2> HIDE DEF S, T, h
  <2>3. IsFiniteSet(S \ {h}) /\ Cardinality(S \ {h}) = Cardinality(S) - 1
    BY <2>1, <2>2, FS_RemoveElement, Zenon
  <2>4. Cardinality(T) <= Cardinality(S \ {h})
    BY <2>2, <2>3, FS_Subset, Zenon
  <2>5. Cardinality(S) \in Nat /\ Cardinality(T) \in Nat
    BY <2>2, FS_CardinalityType, Zenon
  <2>6. Cardinality(T) + 1 <= Cardinality(S)
    BY <2>3, <2>4, <2>5
  <2> QED  BY <2>6, Zenon DEF S, T
<1> QED  BY <1>5, <1>6, Zenon

\* What a consumer had goes back: every copy is at most one more delivery.
Returning(c, m) == {i \in With(c) : message[i] = m}

\* The broker puts back what a consumer had: each is one delivery more.
LEMMA RequeueMoves ==
  ASSUME ConsumerInv, Kept, NEW c \in Consumers, Requeue(c), UNCHANGED <<message, attempts>>,
         NEW m \in Messages, IsFiniteSet(Pending(m)),
         \A d \in Consumers : <<"hand", d, 0>> \in Pending(m)' =>
           stage[d] \in Acting /\ hand'[d] = hand[d],
         \A d \in Consumers, k \in Nat : <<"buffer", d, k>> \in Pending(m)' =>
           k \in 1..Len(buffer[d]) /\ buffer'[d][k] = buffer[d][k],
         \A d \in Consumers, k \in Nat : <<"wire", d, k>> \in Pending(m)' =>
           k \in 1..Len(wire[d]) /\ wire'[d][k] = wire[d][k]
  PROVE  /\ IsFiniteSet(Pending(m)') /\ Cardinality(Returning(c, m)) \in Nat
         /\ Cardinality(Pending(m)') <= Cardinality(Pending(m)) + Cardinality(Returning(c, m))
         /\ Cardinality(Future(Pending(m)', Left')) <=
              Cardinality(Future(Pending(m), Left)) + Cardinality(Returning(c, m)) * MaxAttempts
<1> DEFINE S == Pending(m)
           T == Pending(m)'
           K == Left'
           R == Returning(c, m)
           N == {t \in T : t[1] = "queue" /\ t[3] \in R}
<1>1. ASSUME NEW t \in T, t \notin N  PROVE Comes(t, t, m)
  <2>1. t \in Token
    BY Zenon DEF Pending
  <2>2. ASSUME NEW i \in Copies, t = <<"queue", 0, i>>  PROVE Comes(t, t, m)
    <3>1. place'[i] \in Queued /\ message'[i] = m
      BY <2>2, QueueToken, Zenon
    <3>2. i \notin R
      BY <1>1, <2>2, Zenon
    <3>3. place[i] # c
      BY <3>1, <3>2, Zenon DEF Returning, With
    <3>4. place'[i] = place[i]
      BY <3>3, RequeueStep, Zenon DEF ConsumerInv
    <3> QED  BY <2>2, <3>1, <3>4, QueueComes, Zenon
  <2>3. ASSUME NEW d \in Consumers, t = <<"hand", d, 0>>  PROVE Comes(t, t, m)
    BY <2>3, HandComes, Zenon
  <2>4. ASSUME NEW d \in Consumers, NEW k \in Nat, t = <<"buffer", d, k>>  PROVE Comes(t, t, m)
    BY <2>4, BufferComes, Zenon
  <2>5. ASSUME NEW d \in Consumers, NEW k \in Nat, t = <<"wire", d, k>>  PROVE Comes(t, t, m)
    BY <2>5, WireComes, Zenon
  <2> QED  BY <2>1, <2>2, <2>3, <2>4, <2>5, TokenKinds, Zenon
<1>2. IsFiniteSet(R) /\ Cardinality(R) \in Nat
  <2>1. IsFiniteSet(Copies)
    BY CopiesAreFinite, Zenon
  <2>2. R \in SUBSET Copies
    BY Zenon DEF Returning, With
  <2> QED  BY <2>1, <2>2, FS_Subset, FS_CardinalityType, Zenon
<1>3. ASSUME NEW t \in N  PROVE t[3] \in R /\ t = <<"queue", 0, t[3]>>
  BY TokenKinds DEF Pending
<1> DEFINE full == [i \in R |-> MaxAttempts]
           g == [t \in N |-> t[3]]
<1>4. /\ IsFiniteSet(N) /\ Cardinality(N) <= Cardinality(R)
      /\ Cardinality(Future(N, K)) <= Cardinality(Future(R, full))
  <2>1. g \in [N -> R]
    BY <1>3, Zenon
  <2>2. \A u, v \in N : g[u] = g[v] => u = v
    <3>1. ASSUME NEW u \in N, NEW v \in N, g[u] = g[v]  PROVE u = v
      <4>1. u[3] = v[3]
        BY <3>1, Zenon
      <4> QED  BY <1>3, <4>1, Zenon
    <3> QED  BY <3>1, Zenon
  <2>3. \A t \in N : \A a \in 1..MaxAttempts : a <= K[t] => a <= full[g[t]]
    <3>1. \A t \in N : full[g[t]] = MaxAttempts
      BY <1>3, Zenon
    <3> QED  BY <3>1, ConsumerAssumption, SMTT(30)
  <2> HIDE DEF N, R, K, g, full
  <2> QED  BY <1>2, <2>1, <2>2, <2>3, Injected, Zenon
<1>5. Cardinality(Future(R, full)) <= Cardinality(R) * MaxAttempts
  <2>1. /\ IsFiniteSet(1..MaxAttempts) /\ Cardinality(1..MaxAttempts) = MaxAttempts
    BY AttemptsAreFinite, Zenon
  <2>2. /\ IsFiniteSet(R \X (1..MaxAttempts))
        /\ Cardinality(R \X (1..MaxAttempts)) = Cardinality(R) * MaxAttempts
    BY <1>2, <2>1, FS_Product, Zenon
  <2>3. Future(R, full) \in SUBSET (R \X (1..MaxAttempts))
    BY Zenon DEF Future
  <2>4. Cardinality(Future(R, full)) <= Cardinality(R \X (1..MaxAttempts))
    BY <2>2, <2>3, FS_Subset, Zenon
  <2> QED  BY <2>2, <2>4, Zenon
<1>6. T \in SUBSET (S \cup N) /\ Future(T, K) \in SUBSET (Future(S, Left) \cup Future(N, K))
  <2>1. T \in SUBSET (S \cup N)
    BY <1>1, Zenon DEF Comes
  <2>2. ASSUME NEW p \in Future(T, K)  PROVE p \in Future(S, Left) \cup Future(N, K)
    <3>1. p \in T \X (1..MaxAttempts) /\ p[2] <= K[p[1]] /\ p[1] \in T /\ p[2] \in 1..MaxAttempts
      BY Zenon DEF Future
    <3>2. CASE p[1] \in N
      BY <3>1, <3>2, Zenon DEF Future
    <3>3. CASE p[1] \notin N
      <4>1. p[1] \in S /\ p[2] <= Left[p[1]]
        BY <1>1, <3>1, <3>3, Zenon DEF Comes
      <4> QED  BY <3>1, <4>1, Zenon DEF Future
    <3> QED  BY <3>2, <3>3, Zenon
  <2> QED  BY <2>1, <2>2, Zenon
<1>7. IsFiniteSet(S)
  BY Zenon
<1> HIDE DEF S, T, K, R, N, full
<1>8. /\ IsFiniteSet(S \cup N) /\ Cardinality(S \cup N) <= Cardinality(S) + Cardinality(N)
  <2>1. Cardinality(S \cup N) = Cardinality(S) + Cardinality(N) - Cardinality(S \cap N)
        /\ IsFiniteSet(S \cup N) /\ IsFiniteSet(S \cap N)
    BY <1>4, <1>7, FS_Union, FS_Intersection, Zenon
  <2>2. Cardinality(S \cap N) \in Nat /\ Cardinality(S) \in Nat /\ Cardinality(N) \in Nat
    BY <1>4, <1>7, <2>1, FS_CardinalityType, Zenon
  <2> QED  BY <2>1, <2>2, SMTT(30)
<1>9. IsFiniteSet(T) /\ Cardinality(T) <= Cardinality(S) + Cardinality(R)
  <2>1. IsFiniteSet(T) /\ Cardinality(T) <= Cardinality(S \cup N)
    BY <1>6, <1>8, FS_Subset, Zenon
  <2>2. /\ Cardinality(T) \in Nat /\ Cardinality(S) \in Nat /\ Cardinality(N) \in Nat
        /\ Cardinality(S \cup N) \in Nat
    BY <1>4, <1>7, <1>8, <2>1, FS_CardinalityType, Zenon
  <2> QED  BY <1>2, <1>4, <1>8, <2>1, <2>2, SMTT(30)
<1> DEFINE F == Future(S, Left)
           G == Future(N, K)
           H == Future(T, K)
<1>10. IsFiniteSet(F) /\ Cardinality(F) \in Nat /\ IsFiniteSet(G) /\ Cardinality(G) \in Nat
       /\ Cardinality(H) \in Nat
  BY <1>4, <1>7, <1>9, FutureIsFinite, Zenon
<1>11. H \in SUBSET (F \cup G)
  BY <1>6, Zenon
<1>12. Cardinality(G) <= Cardinality(R) * MaxAttempts
  <2>1. Cardinality(Future(R, full)) \in Nat /\ Cardinality(R) * MaxAttempts \in Nat
    BY <1>2, FutureIsFinite, ConsumerAssumption, SMTT(30)
  <2> QED  BY <1>4, <1>5, <1>10, <2>1, SMTT(30)
<1> HIDE DEF F, G, H
<1>13. Cardinality(H) <= Cardinality(F) + Cardinality(G)
  <2>1. /\ Cardinality(F \cup G) = Cardinality(F) + Cardinality(G) - Cardinality(F \cap G)
        /\ IsFiniteSet(F \cup G) /\ IsFiniteSet(F \cap G)
    BY <1>10, FS_Union, FS_Intersection, Zenon
  <2>2. Cardinality(F \cap G) \in Nat /\ Cardinality(F \cup G) \in Nat
    BY <2>1, FS_CardinalityType, Zenon
  <2>3. Cardinality(H) <= Cardinality(F \cup G)
    BY <1>11, <2>1, FS_Subset, Zenon
  <2> QED  BY <1>10, <2>1, <2>2, <2>3, SMTT(30)
<1>14. Cardinality(H) <= Cardinality(F) + Cardinality(R) * MaxAttempts
  <2>1. Cardinality(R) * MaxAttempts \in Nat
    BY <1>2, ConsumerAssumption
  <2> QED  BY <1>10, <1>12, <1>13, <2>1, SMTT(30)
<1> QED  BY <1>2, <1>9, <1>14, Zenon DEF S, T, K, R, F, H

-----------------------------------------------------------------------------
(* Every step keeps the count.                                             *)

\* r deliveries of m went back: that many more deliveries, and series of runs.
Counts(m, r) ==
  /\ IsFiniteSet(Pending(m)') /\ returned'[m] = returned[m] + r
  /\ Cardinality(Pending(m)') + (IF m \in handled' THEN 1 ELSE 0) <=
       Cardinality(Pending(m)) + (IF m \in handled THEN 1 ELSE 0) + r
  /\ runs'[m] + Cardinality(Future(Pending(m)', Left')) <=
       runs[m] + Cardinality(Future(Pending(m), Left)) + r * MaxAttempts

\* Each delivery put back opens a series of runs.
LEMMA Series ==
  ASSUME NEW a \in Nat, NEW b \in Nat, NEW r \in Nat
  PROVE  a * (1 + b) + r * a = a * (1 + (b + r))
  OBVIOUS

\* A step that counts what it puts back keeps the bounds.
LEMMA CountsKept ==
  ASSUME TypeOK, TypeOK', NEW m \in Messages, TokensOf(m), NEW r \in Nat, Counts(m, r)
  PROVE  TokensOf(m)'
<1> DEFINE p == Cardinality(Pending(m))
           q == Cardinality(Pending(m)')
           f == Cardinality(Future(Pending(m), Left))
           g == Cardinality(Future(Pending(m)', Left'))
           h == IF m \in handled THEN 1 ELSE 0
           j == IF m \in handled' THEN 1 ELSE 0
           b == returned[m]
           x == runs[m]
           y == runs'[m]
<1>1. p \in Nat /\ q \in Nat /\ f \in Nat /\ g \in Nat
  BY FS_CardinalityType, FutureIsFinite, Zenon DEF TokensOf, Counts
<1>2. h \in Nat /\ j \in Nat /\ b \in Nat /\ x \in Nat /\ y \in Nat /\ MaxAttempts \in Nat
  BY ConsumerAssumption, Zenon DEF TypeOK
<1>3. p + h <= 1 + b /\ x + f <= MaxAttempts * (1 + b)
  BY Zenon DEF TokensOf
<1>4. q + j <= p + h + r /\ y + g <= x + f + r * MaxAttempts /\ returned'[m] = b + r
  BY Zenon DEF Counts
<1> HIDE DEF p, q, f, g, h, j, b, x, y
<1>5. q + j <= 1 + (b + r)
  BY <1>1, <1>2, <1>3, <1>4
<1>6. y + g <= MaxAttempts * (1 + (b + r))
  <2>1. MaxAttempts * (1 + b) + r * MaxAttempts = MaxAttempts * (1 + (b + r))
    BY <1>2, Series
  <2>2. MaxAttempts * (1 + b) \in Nat /\ r * MaxAttempts \in Nat
    BY <1>2
  <2> QED  BY <1>1, <1>2, <1>3, <1>4, <2>1, <2>2
<1>7. Future(Pending(m), Left)' = Future(Pending(m)', Left')
  BY Zenon DEF Future
<1> QED  BY <1>4, <1>5, <1>6, <1>7, Zenon DEF TokensOf, Counts, q, j, y, g

\* A step that adds no delivery, runs no handler and puts nothing back.
LEMMA NoMoreCounts ==
  ASSUME TypeOK, TypeOK', NEW m \in Messages, IsFiniteSet(Pending(m)), NoMore(m),
         UNCHANGED <<runs, returned, handled>>
  PROVE  Counts(m, 0)
<1> DEFINE p == Cardinality(Pending(m))
           q == Cardinality(Pending(m)')
           f == Cardinality(Future(Pending(m), Left))
           g == Cardinality(Future(Pending(m)', Left'))
           h == IF m \in handled THEN 1 ELSE 0
           x == runs[m]
           b == returned[m]
<1>1. IsFiniteSet(Pending(m)') /\ q <= p /\ g <= f
  BY Zenon DEF NoMore
<1>2. p \in Nat /\ q \in Nat /\ f \in Nat /\ g \in Nat
  BY <1>1, FS_CardinalityType, FutureIsFinite, Zenon
<1>3. /\ h \in Nat /\ x \in Nat /\ b \in Nat /\ MaxAttempts \in Nat
      /\ runs'[m] = x /\ returned'[m] = b /\ handled' = handled
  BY ConsumerAssumption, Zenon DEF TypeOK
<1>4. b = b + 0 /\ q + h <= p + h + 0 /\ x + g <= x + f + 0 * MaxAttempts
  <2> HIDE DEF p, q, f, g, h, x, b
  <2> QED  BY <1>1, <1>2, <1>3
<1> QED  BY <1>1, <1>3, <1>4, Zenon DEF Counts

\* A step that puts deliveries back counts each of them.
LEMMA RequeueCounts ==
  ASSUME TypeOK, TypeOK', NEW c \in Consumers, Requeue(c), NEW m \in Messages, IsFiniteSet(Pending(m)),
         UNCHANGED <<runs, handled>>,
         IsFiniteSet(Pending(m)'), Cardinality(Returning(c, m)) \in Nat,
         Cardinality(Pending(m)') <= Cardinality(Pending(m)) + Cardinality(Returning(c, m)),
         Cardinality(Future(Pending(m)', Left')) <=
           Cardinality(Future(Pending(m), Left)) + Cardinality(Returning(c, m)) * MaxAttempts
  PROVE  Counts(m, Cardinality(Returning(c, m)))
<1> DEFINE r == Cardinality(Returning(c, m))
           p == Cardinality(Pending(m))
           q == Cardinality(Pending(m)')
           f == Cardinality(Future(Pending(m), Left))
           g == Cardinality(Future(Pending(m)', Left'))
           h == IF m \in handled THEN 1 ELSE 0
           x == runs[m]
<1>1. returned'[m] = returned[m] + r
  BY Zenon DEF Requeue, Returning
<1>2. r \in Nat /\ r * MaxAttempts \in Nat
  BY ConsumerAssumption
<1>3. p \in Nat /\ q \in Nat /\ f \in Nat /\ g \in Nat
  BY FS_CardinalityType, FutureIsFinite, Zenon
<1>4. h \in Nat /\ x \in Nat /\ runs'[m] = x /\ handled' = handled
  BY Zenon DEF TypeOK
<1>5. q <= p + r /\ g <= f + r * MaxAttempts
  BY Zenon
<1>6. q + h <= p + h + r /\ x + g <= x + f + r * MaxAttempts
  <2> HIDE DEF r, p, q, f, g, h, x
  <2> QED  BY <1>2, <1>3, <1>4, <1>5
<1> QED  BY <1>1, <1>4, <1>6, Zenon DEF Counts

\* One step per action of the consumers and of the broker.
LEMMA CountsStep ==
  ASSUME ConsumerInv, ConsumerInv', Kept, [Next]_vars, NEW m \in Messages, IsFiniteSet(Pending(m))
  PROVE  \E r \in Nat : Counts(m, r)
<1> DEFINE Done == \E r \in Nat : Counts(m, r)
<1>1. TypeOK /\ TypeOK'
  BY Zenon DEF ConsumerInv
<1>2. ASSUME NoMore(m), UNCHANGED <<runs, returned, handled>>  PROVE Done
  BY <1>1, <1>2, NoMoreCounts, Zenon
<1>3. ASSUME AllStay(m), UNCHANGED <<runs, returned, handled>>  PROVE Done
  BY <1>2, <1>3, NothingMoves, Zenon
<1>4. ASSUME NEW i \in Copies, BackoffExpires(i)  PROVE Done
  <2>1. /\ place[i] = "waiting" /\ place' = [place EXCEPT ![i] = "ready"]
        /\ UNCHANGED <<message, buffer, hand, stage, wire, runs, returned, handled>>
    BY <1>4, Zenon DEF BackoffExpires, consumerVars, history
  <2>2. ASSUME NEW j \in Copies, <<"queue", 0, j>> \in Pending(m)'
        PROVE  place[j] \in Queued /\ (place[j] = "dead" => place'[j] = "dead")
    <3>1. place'[j] \in Queued
      BY <2>2, QueueToken, Zenon
    <3> QED  BY <1>1, <2>1, <3>1, Zenon DEF TypeOK, Queued
  <2>3. AllStay(m)
    BY <2>1, <2>2, HandsStay, BuffersStay, WiresStay, Zenon DEF AllStay
  <2> QED  BY <1>3, <2>1, <2>3, Zenon
<1>5. ASSUME NEW c \in Consumers, NEW i \in Copies, Deliver(c, i)  PROVE Done
  <2>1. UNCHANGED <<runs, returned, handled>>
    BY <1>5, Zenon DEF Deliver, history
  <2> QED  BY <1>2, <1>5, <2>1, DeliverMoves, Zenon
<1>6. ASSUME NEW c \in Consumers, HandleFrame(c)  PROVE Done
  <2>1. UNCHANGED <<runs, returned, handled>>
    BY <1>6, Zenon DEF HandleFrame, history
  <2> QED  BY <1>2, <1>6, <2>1, HandleFrameMoves, Zenon
<1>7. ASSUME NEW c \in Consumers, Take(c)  PROVE Done
  <2> DEFINE n == message[Head(buffer[c])]
             F == Cardinality(Future(Pending(m), Left))
             G == Cardinality(Future(Pending(m)', Left'))
  <2>1. UNCHANGED <<returned, handled>> /\ runs' = [runs EXCEPT ![n] = @ + 1]
    BY <1>7, Zenon DEF Take
  <2>2. NoMore(m) /\ (n = m => G + 1 <= F)
    BY <1>7, TakeMoves, Zenon
  <2>3. IsFiniteSet(Pending(m)') /\ Cardinality(Pending(m)') \in Nat /\ Cardinality(Pending(m)) \in Nat
    BY <2>2, FS_CardinalityType, Zenon DEF NoMore
  <2>4. F \in Nat /\ G \in Nat
    BY <2>3, FutureIsFinite, Zenon
  <2>5. runs[m] \in Nat /\ returned[m] \in Nat /\ 0 * MaxAttempts = 0
    BY <1>1, ConsumerAssumption DEF TypeOK
  <2>6. G <= F /\ Cardinality(Pending(m)') <= Cardinality(Pending(m))
    BY <2>2, Zenon DEF NoMore
  <2>7. runs'[m] = runs[m] \/ (n = m /\ runs'[m] = runs[m] + 1)
    BY <1>1, <2>1, Zenon DEF TypeOK
  <2>8. runs'[m] + G <= runs[m] + F
    <3> HIDE DEF F, G, n
    <3> QED  BY <2>2, <2>4, <2>5, <2>6, <2>7
  <2>9. Counts(m, 0)
    <3>1. runs'[m] + G <= runs[m] + F + 0 * MaxAttempts
      <4> HIDE DEF F, G
      <4> QED  BY <2>4, <2>5, <2>8
    <3>2. Cardinality(Pending(m)') + (IF m \in handled' THEN 1 ELSE 0) <=
            Cardinality(Pending(m)) + (IF m \in handled THEN 1 ELSE 0) + 0
      BY <2>1, <2>3, <2>6
    <3>3. returned'[m] = returned[m] + 0
      BY <2>1, <2>5, SMTT(30)
    <3> QED  BY <2>3, <3>1, <3>2, <3>3, Zenon DEF Counts
  <2> QED  BY <2>9, Zenon
<1>8. ASSUME NEW c \in Consumers, HandlerSucceeds(c)  PROVE Done
  <2> DEFINE n == message[hand[c]]
             F == Cardinality(Future(Pending(m), Left))
             G == Cardinality(Future(Pending(m)', Left'))
             p == Cardinality(Pending(m))
             q == Cardinality(Pending(m)')
  <2>1. UNCHANGED <<returned, runs>> /\ handled' = handled \cup {n}
    BY <1>8, Zenon DEF HandlerSucceeds
  <2>2. NoMore(m) /\ (n = m => q + 1 <= p)
    BY <1>8, HandlerSucceedsMoves, Zenon
  <2>3. IsFiniteSet(Pending(m)') /\ q \in Nat /\ p \in Nat
    BY <2>2, FS_CardinalityType, Zenon DEF NoMore
  <2>4. F \in Nat /\ G \in Nat
    BY <2>3, FutureIsFinite, Zenon
  <2>5. runs[m] \in Nat /\ returned[m] \in Nat /\ 0 * MaxAttempts = 0
    BY <1>1, ConsumerAssumption DEF TypeOK
  <2>6. G <= F /\ q <= p
    BY <2>2, Zenon DEF NoMore
  <2>7. q + (IF m \in handled' THEN 1 ELSE 0) <= p + (IF m \in handled THEN 1 ELSE 0) + 0
    <3>1. n # m => (m \in handled' <=> m \in handled)
      BY <2>1, Zenon
    <3> HIDE DEF p, q, n
    <3> QED  BY <2>2, <2>3, <2>6, <3>1
  <2>8. runs'[m] + G <= runs[m] + F + 0 * MaxAttempts
    <3>1. runs'[m] = runs[m]
      BY <2>1, Zenon
    <3> HIDE DEF F, G
    <3> QED  BY <2>4, <2>5, <2>6, <3>1
  <2>9. returned'[m] = returned[m] + 0
    BY <2>1, <2>5
  <2> QED  BY <2>3, <2>7, <2>8, <2>9, Zenon DEF Counts
<1>9. ASSUME NEW c \in Consumers, HandlerFails(c)  PROVE Done
  <2>1. /\ stage[c] = "handle" /\ stage' = [stage EXCEPT ![c] = decide(attempts[hand[c]])]
        /\ UNCHANGED <<place, message, buffer, hand, wire, runs, returned, handled>>
    BY <1>9, Zenon DEF HandlerFails, copyVars, history
  <2>2. ASSUME NEW d \in Consumers, <<"hand", d, 0>> \in Pending(m)'
        PROVE  stage[d] \in Acting /\ hand'[d] = hand[d]
    <3>1. stage'[d] \in Acting
      BY <2>2, HandToken, Zenon
    <3> QED  BY <1>1, <2>1, <3>1, Zenon DEF TypeOK, Acting
  <2>3. AllStay(m)
    BY <2>1, <2>2, QueuesStay, BuffersStay, WiresStay, Zenon DEF AllStay
  <2> QED  BY <1>3, <2>1, <2>3, Zenon
<1>10. ASSUME NEW c \in Consumers, PublishRaw(c)  PROVE Done
  <2>1. /\ stage[c] \in {"retry", "dead"} /\ Send(c, stage[c]) /\ stage' = [stage EXCEPT ![c] = "ack"]
        /\ UNCHANGED <<place, message, attempts, buffer, hand, runs, returned, handled>>
    BY <1>10, Zenon DEF PublishRaw, copyVars, history
  <2>2. /\ stage[c] \in Acting /\ stage[c] \in Op /\ stage'[c] \notin Acting
        /\ \A d \in Consumers \ {c} : hand'[d] = hand[d] /\ stage'[d] = stage[d]
    BY <1>1, <2>1, Zenon DEF TypeOK, Acting, Op
  <2>3. NoMore(m)
    BY <2>1, <2>2, SendMoves, Zenon
  <2> QED  BY <1>2, <2>1, <2>3, Zenon
<1>11. ASSUME NEW c \in Consumers, PublishRawFails(c)  PROVE Done
  <2>1. /\ stage[c] \in {"retry", "dead"} /\ Send(c, "reject") /\ stage' = [stage EXCEPT ![c] = "idle"]
        /\ hand' = [hand EXCEPT ![c] = None]
        /\ UNCHANGED <<place, message, attempts, buffer, runs, returned, handled>>
    BY <1>11, Zenon DEF PublishRawFails, Finish, copyVars
  <2>2. /\ stage[c] \in Acting /\ "reject" \in Op /\ stage'[c] \notin Acting
        /\ \A d \in Consumers \ {c} : hand'[d] = hand[d] /\ stage'[d] = stage[d]
    BY <1>1, <2>1, Zenon DEF TypeOK, Acting, Op
  <2>3. NoMore(m)
    BY <2>1, <2>2, SendMoves, Zenon
  <2> QED  BY <1>2, <2>1, <2>3, Zenon
<1>12. ASSUME NEW c \in Consumers, Ack(c)  PROVE Done
  <2>1. /\ stage[c] = "ack" /\ Send(c, "ack") /\ stage' = [stage EXCEPT ![c] = "idle"]
        /\ hand' = [hand EXCEPT ![c] = None]
        /\ UNCHANGED <<place, message, buffer, runs, returned, handled>>
    BY <1>12, Zenon DEF Ack, Finish, copyVars, history
  <2>2. stage'[c] = "idle" /\ \A d \in Consumers \ {c} : hand'[d] = hand[d] /\ stage'[d] = stage[d]
    BY <1>1, <2>1, Zenon DEF TypeOK
  <2>3. ASSUME NEW d \in Consumers, <<"hand", d, 0>> \in Pending(m)'
        PROVE  stage[d] \in Acting /\ hand'[d] = hand[d]
    <3>1. d # c
      BY <2>2, <2>3, HandToken, Zenon DEF Acting
    <3> QED  BY <2>2, <2>3, <3>1, HandsStay, Zenon
  <2>4. AllStay(m)
    BY <2>1, <2>3, QueuesStay, BuffersStay, AckStays, Zenon DEF AllStay
  <2> QED  BY <1>3, <2>1, <2>4, Zenon
<1>13. ASSUME NEW c \in Consumers, stop(c)  PROVE Done
  <2>1. /\ buffer' = [buffer EXCEPT ![c] = <<>>]
        /\ UNCHANGED <<place, message, hand, stage, wire, runs, returned, handled>>
    BY <1>13, Zenon DEF stop, copyVars
  <2>2. buffer'[c] = <<>> /\ \A d \in Consumers \ {c} : buffer'[d] = buffer[d]
    BY <1>1, <2>1, Zenon DEF TypeOK
  <2>3. ASSUME NEW d \in Consumers, NEW k \in Nat, <<"buffer", d, k>> \in Pending(m)'
        PROVE  k \in 1..Len(buffer[d]) /\ buffer'[d][k] = buffer[d][k]
    <3>1. k \in 1..Len(buffer'[d])
      BY <2>3, BufferToken, Zenon
    <3>2. d # c
      BY <2>2, <3>1, NoElements, Zenon
    <3> QED  BY <2>2, <2>3, <3>2, BuffersStay, Zenon
  <2>4. AllStay(m)
    BY <2>1, <2>3, QueuesStay, HandsStay, WiresStay, Zenon DEF AllStay
  <2> QED  BY <1>3, <2>1, <2>4, Zenon
<1>14. ASSUME NEW c \in Consumers, Close(c)  PROVE Done
  <2>1. Requeue(c) /\ UNCHANGED <<message, attempts, buffer, hand, stage, wire, runs, handled>>
    BY <1>14, Zenon DEF Close
  <2>2. Counts(m, Cardinality(Returning(c, m))) /\ Cardinality(Returning(c, m)) \in Nat
    BY <1>1, <2>1, HandsStay, BuffersStay, WiresStay, RequeueMoves, RequeueCounts, Zenon
  <2> QED  BY <2>2, Zenon
<1>15. ASSUME NEW c \in Consumers, ChannelLost(c)  PROVE Done
  <2>1. /\ Requeue(c) /\ wire' = [wire EXCEPT ![c] = <<>>]
        /\ UNCHANGED <<message, attempts, hand, stage, runs, handled>>
    BY <1>15, Zenon DEF ChannelLost
  <2>2. PICK n \in 0..Len(buffer[c]) : buffer' = [buffer EXCEPT ![c] = SubSeq(buffer[c], 1, n)]
    BY <1>15, Zenon DEF ChannelLost
  <2>3. /\ wire'[c] = <<>> /\ buffer'[c] = SubSeq(buffer[c], 1, n) /\ buffer[c] \in Seq(Copies)
        /\ \A d \in Consumers \ {c} : wire'[d] = wire[d] /\ buffer'[d] = buffer[d]
    BY <1>1, <2>1, <2>2, Zenon DEF TypeOK
  <2>4. ASSUME NEW d \in Consumers, NEW k \in Nat, <<"wire", d, k>> \in Pending(m)'
        PROVE  k \in 1..Len(wire[d]) /\ wire'[d][k] = wire[d][k]
    <3>1. k \in 1..Len(wire'[d])
      BY <2>4, WireToken, Zenon
    <3>2. d # c
      BY <2>3, <3>1, NoElements, Zenon
    <3> QED  BY <2>3, <2>4, <3>2, WiresStay, Zenon
  <2>5. ASSUME NEW d \in Consumers, NEW k \in Nat, <<"buffer", d, k>> \in Pending(m)'
        PROVE  k \in 1..Len(buffer[d]) /\ buffer'[d][k] = buffer[d][k]
    <3>1. k \in 1..Len(buffer'[d])
      BY <2>5, BufferToken, Zenon
    <3>2. CASE d = c
      <4> DEFINE b == SubSeq(buffer[c], 1, n)
      <4>1. Len(b) = n /\ \A l \in 1..n : b[l] = buffer[c][l] /\ l \in 1..Len(buffer[c])
        BY <2>3, PrefixElements, Zenon
      <4>2. buffer'[d] = b
        BY <2>3, <3>2, Zenon
      <4> HIDE DEF b
      <4> QED  BY <3>1, <3>2, <4>1, <4>2, Zenon
    <3>3. CASE d # c
      BY <2>3, <2>5, <3>3, BuffersStay, Zenon
    <3> QED  BY <3>2, <3>3, Zenon
  <2>6. Counts(m, Cardinality(Returning(c, m))) /\ Cardinality(Returning(c, m)) \in Nat
    BY <1>1, <2>1, <2>4, <2>5, HandsStay, RequeueMoves, RequeueCounts, Zenon
  <2> QED  BY <2>6, Zenon
<1>16. ASSUME NEW c \in Consumers, Crash(c)  PROVE Done
  <2>1. /\ Requeue(c) /\ wire' = [wire EXCEPT ![c] = <<>>] /\ buffer' = [buffer EXCEPT ![c] = <<>>]
        /\ hand' = [hand EXCEPT ![c] = None] /\ stage' = [stage EXCEPT ![c] = "idle"]
        /\ UNCHANGED <<message, attempts, runs, handled>>
    BY <1>16, Zenon DEF Crash, Finish
  <2>2. /\ wire'[c] = <<>> /\ buffer'[c] = <<>> /\ stage'[c] = "idle"
        /\ \A d \in Consumers \ {c} : /\ wire'[d] = wire[d] /\ buffer'[d] = buffer[d]
                                      /\ hand'[d] = hand[d] /\ stage'[d] = stage[d]
    BY <1>1, <2>1, Zenon DEF TypeOK
  <2>3. ASSUME NEW d \in Consumers, NEW k \in Nat, <<"wire", d, k>> \in Pending(m)'
        PROVE  k \in 1..Len(wire[d]) /\ wire'[d][k] = wire[d][k]
    <3>1. k \in 1..Len(wire'[d])
      BY <2>3, WireToken, Zenon
    <3>2. d # c
      BY <2>2, <3>1, NoElements, Zenon
    <3> QED  BY <2>2, <2>3, <3>2, WiresStay, Zenon
  <2>4. ASSUME NEW d \in Consumers, NEW k \in Nat, <<"buffer", d, k>> \in Pending(m)'
        PROVE  k \in 1..Len(buffer[d]) /\ buffer'[d][k] = buffer[d][k]
    <3>1. k \in 1..Len(buffer'[d])
      BY <2>4, BufferToken, Zenon
    <3>2. d # c
      BY <2>2, <3>1, NoElements, Zenon
    <3> QED  BY <2>2, <2>4, <3>2, BuffersStay, Zenon
  <2>5. ASSUME NEW d \in Consumers, <<"hand", d, 0>> \in Pending(m)'
        PROVE  stage[d] \in Acting /\ hand'[d] = hand[d]
    <3>1. d # c
      BY <2>2, <2>5, HandToken, Zenon DEF Acting
    <3> QED  BY <2>2, <2>5, <3>1, HandsStay, Zenon
  <2>6. Counts(m, Cardinality(Returning(c, m))) /\ Cardinality(Returning(c, m)) \in Nat
    BY <1>1, <2>1, <2>3, <2>4, <2>5, RequeueMoves, RequeueCounts, Zenon
  <2> QED  BY <2>6, Zenon
<1>17. ASSUME NEW c \in Consumers, NewConsumer(c)  PROVE Done
  <2>1. UNCHANGED <<place, message, buffer, hand, stage, wire, runs, returned, handled>>
    BY <1>17, Zenon DEF NewConsumer, copyVars, history
  <2>2. AllStay(m)
    BY <2>1, QueuesStay, HandsStay, BuffersStay, WiresStay, Zenon DEF AllStay
  <2> QED  BY <1>3, <2>1, <2>2, Zenon
<1>18. ASSUME UNCHANGED vars  PROVE Done
  <2>1. UNCHANGED <<place, message, buffer, hand, stage, wire, runs, returned, handled>>
    BY <1>18, Zenon DEF vars, copyVars, consumerVars, history
  <2>2. AllStay(m)
    BY <2>1, QueuesStay, HandsStay, BuffersStay, WiresStay, Zenon DEF AllStay
  <2> QED  BY <1>3, <2>1, <2>2, Zenon
<1> HIDE DEF Done
<1>19. Done
  BY <1>4, <1>5, <1>6, <1>7, <1>8, <1>9, <1>10, <1>11, <1>12, <1>13, <1>14, <1>15, <1>16, <1>17,
     <1>18, Zenon DEF Next, ConsumerStep
<1> QED  BY <1>19, Zenon DEF Done

LEMMA TokenIsKept ==
  ASSUME ConsumerInv, TokenInv, [Next]_vars
  PROVE  TokenInv'
<1>1. ConsumerInv' /\ Kept /\ TypeOK /\ TypeOK'
  BY InvIsKept, TypeStep, Zenon DEF ConsumerInv
<1>2. ASSUME NEW m \in Messages  PROVE TokensOf(m)'
  <2>1. TokensOf(m) /\ IsFiniteSet(Pending(m))
    BY Zenon DEF TokenInv, TokensOf
  <2>2. PICK r \in Nat : Counts(m, r)
    BY <1>1, <2>1, CountsStep, Zenon
  <2> QED  BY <1>1, <2>1, <2>2, CountsKept, Zenon
<1> QED  BY <1>2, Zenon DEF TokenInv

\* At first a message has one delivery, with MaxAttempts runs before it.
LEMMA TokenHoldsAtFirst == Init => TokenInv
<1> SUFFICES ASSUME Init, NEW m \in Messages  PROVE TokensOf(m)
  BY Zenon DEF TokenInv
<1> DEFINE S == Pending(m)
           x == <<"queue", 0, m>>
<1>1. m \in Copies /\ Messages \subseteq Copies
  BY ConsumerAssumption DEF Messages, Copies
<1>2. ASSUME NEW t \in S  PROVE t = x
  <2>1. t \in Token
    BY Zenon DEF Pending
  <2>2. ASSUME NEW i \in Copies, t = <<"queue", 0, i>>  PROVE t = x
    <3>1. place[i] \in Queued /\ message[i] = m
      BY <2>2, QueueToken, Zenon
    <3>2. i \in Messages
      BY <3>1, Zenon DEF Init, Queued
    <3>3. message[i] = i
      BY <1>1, <3>2, Zenon DEF Init
    <3> QED  BY <2>2, <3>1, <3>3, Zenon
  <2>3. ASSUME NEW d \in Consumers, t = <<"hand", d, 0>>  PROVE t = x
    <3>1. stage[d] \in Acting /\ stage[d] = "idle"
      BY <2>3, HandToken, Zenon DEF Init
    <3> QED  BY <3>1, Zenon DEF Acting
  <2>4. ASSUME NEW d \in Consumers, NEW k \in Nat, t = <<"buffer", d, k>>  PROVE t = x
    <3>1. k \in 1..Len(buffer[d]) /\ buffer[d] = <<>>
      BY <2>4, BufferToken, Zenon DEF Init
    <3> QED  BY <3>1
  <2>5. ASSUME NEW d \in Consumers, NEW k \in Nat, t = <<"wire", d, k>>  PROVE t = x
    <3>1. k \in 1..Len(wire[d]) /\ wire[d] = <<>>
      BY <2>5, WireToken, Zenon DEF Init
    <3> QED  BY <3>1
  <2> QED  BY <2>1, <2>2, <2>3, <2>4, <2>5, TokenKinds, Zenon
<1>3. S \in SUBSET {x} /\ IsFiniteSet({x}) /\ Cardinality({x}) = 1
  BY <1>2, FS_Singleton, Zenon
<1> HIDE DEF S, x
<1>4. IsFiniteSet(S) /\ Cardinality(S) <= 1 /\ Cardinality(S) \in Nat
  <2>1. IsFiniteSet(S) /\ Cardinality(S) <= Cardinality({x})
    BY <1>3, FS_Subset, Zenon
  <2> QED  BY <1>3, <2>1, FS_CardinalityType, Zenon
<1>5. Cardinality(Future(S, Left)) <= MaxAttempts /\ Cardinality(Future(S, Left)) \in Nat
  <2>1. IsFiniteSet(1..MaxAttempts) /\ Cardinality(1..MaxAttempts) = MaxAttempts
    BY AttemptsAreFinite, Zenon
  <2>2. /\ IsFiniteSet({x} \X (1..MaxAttempts))
        /\ Cardinality({x} \X (1..MaxAttempts)) = 1 * MaxAttempts
    <3> DEFINE A == {x}
    <3>1. IsFiniteSet(A) /\ Cardinality(A) = 1
      BY <1>3, Zenon
    <3> HIDE DEF A
    <3>2. /\ IsFiniteSet(A \X (1..MaxAttempts))
          /\ Cardinality(A \X (1..MaxAttempts)) = Cardinality(A) * Cardinality(1..MaxAttempts)
      BY <2>1, <3>1, FS_Product, Zenon
    <3> QED  BY <2>1, <3>1, <3>2, Zenon DEF A
  <2>3. Future(S, Left) \in SUBSET ({x} \X (1..MaxAttempts))
    BY <1>3, Zenon DEF Future
  <2>4. Cardinality(Future(S, Left)) <= Cardinality({x} \X (1..MaxAttempts))
    BY <2>2, <2>3, FS_Subset, Zenon
  <2> QED  BY <1>4, <2>2, <2>4, FutureIsFinite, ConsumerAssumption
<1>6. runs[m] = 0 /\ returned[m] = 0 /\ m \notin handled
  BY Zenon DEF Init
<1>7. MaxAttempts * (1 + 0) = MaxAttempts
  BY ConsumerAssumption
<1> QED  BY <1>4, <1>5, <1>6, <1>7, SMTT(30) DEF TokensOf, S

LEMMA TokenHolds == SafetySpec => [](ConsumerInv /\ TokenInv)
<1>1. Init => ConsumerInv /\ TokenInv
  BY InvHoldsAtFirst, TokenHoldsAtFirst, Zenon
<1>2. ConsumerInv /\ TokenInv /\ [Next]_vars => ConsumerInv' /\ TokenInv'
  BY InvIsKept, TokenIsKept, Zenon
<1> QED  BY <1>1, <1>2, PTL DEF SafetySpec

\* handle acknowledges a success and publishes nothing for it: a message some handler run
\* handled, and none of whose deliveries was put back in the queue, is not in the
\* dead-letter queue.
THEOREM TheRecoveredStayOut == SafetySpec => []RecoveredStaysOut
<1>1. ConsumerInv /\ TokenInv => RecoveredStaysOut
  <2> SUFFICES ASSUME ConsumerInv, TokenInv, NEW m \in handled, returned[m] = 0,
                      NEW i \in Copies, message[i] = m, place[i] = "dead"
               PROVE  FALSE
    BY Zenon DEF RecoveredStaysOut, DeadLetters
  <2>1. m \in Messages
    BY Zenon DEF ConsumerInv, TypeOK
  <2>2. IsFiniteSet(Pending(m)) /\ Cardinality(Pending(m)) + 1 <= 1
    BY <2>1, SMTT(30) DEF TokenInv, TokensOf
  <2>3. Cardinality(Pending(m)) = 0
    BY <2>2, FS_CardinalityType, SMTT(30)
  <2>4. Pending(m) = {}
    BY <2>2, <2>3, FS_EmptySet, Zenon
  <2>5. <<"queue", 0, i>> \in Pending(m)
    <3>1. place[i] \in Queued
      BY Zenon DEF Queued
    <3> QED  BY <3>1, QueueToken, Zenon
  <2> QED  BY <2>4, <2>5, Zenon
<1> QED  BY <1>1, TokenHolds, PTL

\* decide against the attempts header: the handler runs at most MaxAttempts times for a
\* message, and as many times more for every delivery of it that a lost channel, a crash
\* or a shutdown puts back.
THEOREM TheRunsAreBounded == SafetySpec => []RunsAreBounded
<1>1. ConsumerInv /\ TokenInv => RunsAreBounded
  <2> SUFFICES ASSUME ConsumerInv, TokenInv, NEW m \in Messages
               PROVE  runs[m] <= MaxAttempts * (1 + returned[m])
    BY Zenon DEF RunsAreBounded
  <2>1. /\ IsFiniteSet(Pending(m))
        /\ runs[m] + Cardinality(Future(Pending(m), Left)) <= MaxAttempts * (1 + returned[m])
    BY Zenon DEF TokenInv, TokensOf
  <2>2. Cardinality(Future(Pending(m), Left)) \in Nat
    BY <2>1, FutureIsFinite, Zenon
  <2>3. runs[m] \in Nat /\ MaxAttempts * (1 + returned[m]) \in Nat
    BY ConsumerAssumption DEF ConsumerInv, TypeOK
  <2> QED  BY <2>1, <2>2, <2>3
<1> QED  BY <1>1, TokenHolds, PTL
=============================================================================
