-------------------------- MODULE ConsumerProofs ----------------------------
(***************************************************************************)
(* What the retry protocol of amqp.Consumer guarantees, for any number of  *)
(* consumers, messages, attempts and interruptions.                        *)
(***************************************************************************)
EXTENDS Consumer, FiniteSetTheorems, TLAPS

Born(i) == place[i] # "unborn"

\* A copy some consumer has, or has had: it is not exhausted.
InPlay(i) == Born(i) /\ attempts[i] < MaxAttempts

\* What an outcome says of the copy it is about.
Counted(op, i) ==
  /\ op = "retry" => attempts[i] + 1 < MaxAttempts
  /\ op = "dead" => attempts[i] + 1 = MaxAttempts
  /\ op = "reject" => message[i] \in refused

\* The copy i may be acknowledged: its message is handled, or a later copy exists.
Succeeded(i) ==
  \/ message[i] \in handled
  \/ \E j \in Copies : Born(j) /\ message[j] = message[i] /\ attempts[j] > attempts[i]

\* Or the first n frames on the wire hold the publication of one.
Promised(c, i, n) ==
  \/ Succeeded(i)
  \/ \E k \in 1..n : wire[c][k].copy = i /\ wire[c][k].op \in {"retry", "dead"}

CopyInv(i) ==
  /\ place[i] \in {"ready", "waiting"} \cup Consumers => attempts[i] < MaxAttempts
  /\ place[i] = "dead" => attempts[i] = MaxAttempts \/ message[i] \in refused
  /\ place[i] = "gone" => Succeeded(i)

BufferInv(c) == \A k \in 1..Len(buffer[c]) : InPlay(buffer[c][k])

HandInv(c) ==
  stage[c] # "idle" =>
    /\ hand[c] \in Copies /\ InPlay(hand[c]) /\ Counted(stage[c], hand[c])
    /\ open[c] /\ stage[c] = "ack" => Promised(c, hand[c], Len(wire[c]))

WireInv(c) ==
  \A k \in 1..Len(wire[c]) :
    /\ InPlay(wire[c][k].copy) /\ Counted(wire[c][k].op, wire[c][k].copy)
    /\ wire[c][k].op = "ack" => Promised(c, wire[c][k].copy, k - 1)

ConsumerInv ==
  /\ TypeOK
  /\ \A m \in Messages : Born(m) /\ message[m] = m
  /\ \A i \in Copies : CopyInv(i)
  /\ \A c \in Consumers : BufferInv(c) /\ HandInv(c) /\ WireInv(c)

-----------------------------------------------------------------------------
(* Sequences and sets.                                                     *)

LEMMA ElementOfSequence ==
  ASSUME NEW S, NEW s \in Seq(S), NEW k \in 1..Len(s)
  PROVE  s[k] \in S
  OBVIOUS

LEMMA TailElements ==
  ASSUME NEW S, NEW s \in Seq(S), s # <<>>
  PROVE  /\ Tail(s) \in Seq(S) /\ Len(Tail(s)) = Len(s) - 1
         /\ Len(s) \in Nat /\ 1 \in 1..Len(s) /\ Head(s) = s[1] /\ s[1] \in S
         /\ \A k \in 1..Len(s) - 1 : Tail(s)[k] = s[k + 1] /\ k + 1 \in 1..Len(s)
  OBVIOUS

LEMMA TailMoves ==
  ASSUME NEW S, NEW s \in Seq(S), s # <<>>, NEW t, t = Tail(s)
  PROVE  /\ 1 \in 1..Len(s) /\ Head(s) = s[1]
         /\ \A k \in 1..Len(t) : k # 0 /\ k + 1 \in 1..Len(s) /\ t[k] = s[k + 1]
<1>1. \A k \in 1..Len(t) : k \in 1..Len(s) - 1 /\ k # 0
  BY TailElements
<1> QED  BY <1>1, TailElements, Zenon

LEMMA NoElements == \A k : k \notin 1..Len(<<>>)
  OBVIOUS

LEMMA AppendElements ==
  ASSUME NEW S, NEW s \in Seq(S), NEW e \in S
  PROVE  /\ Append(s, e) \in Seq(S) /\ Len(Append(s, e)) = Len(s) + 1 /\ Len(s) \in Nat
         /\ Append(s, e)[Len(s) + 1] = e
         /\ \A k \in 1..Len(s) : Append(s, e)[k] = s[k]
  OBVIOUS

LEMMA PrefixElements ==
  ASSUME NEW S, NEW s \in Seq(S), NEW n \in 0..Len(s)
  PROVE  /\ SubSeq(s, 1, n) \in Seq(S) /\ Len(SubSeq(s, 1, n)) = n /\ Len(s) \in Nat
         /\ \A k \in 1..n : SubSeq(s, 1, n)[k] = s[k] /\ k \in 1..Len(s)
  OBVIOUS

LEMMA EmptiedSequence ==
  ASSUME NEW S, NEW D, NEW f \in [D -> Seq(S)], NEW d \in D
  PROVE  [f EXCEPT ![d] = <<>>] \in [D -> Seq(S)]
<1>1. <<>> \in Seq(S)
  OBVIOUS
<1> QED  BY <1>1, Zenon

LEMMA CopiesAreFinite == IsFiniteSet(Copies)
  BY FS_Interval, ConsumerAssumption DEF Copies

LEMMA AttemptsAreFinite ==
  IsFiniteSet(1..MaxAttempts) /\ Cardinality(1..MaxAttempts) = MaxAttempts
  BY FS_Interval, ConsumerAssumption

-----------------------------------------------------------------------------
(* What a step leaves alone.                                               *)

\* A copy keeps its message and its header; nothing recorded is forgotten.
Kept ==
  /\ \A i \in Copies : Born(i) => Born(i)' /\ message'[i] = message[i] /\ attempts'[i] = attempts[i]
  /\ handled \subseteq handled' /\ refused \subseteq refused'

\* A publication of a copy reaches its queue: a copy is born, the others stay.
LEMMA ArriveStep ==
  ASSUME TypeOK, NEW i \in Copies, Born(i), attempts[i] < MaxAttempts,
         NEW queue \in {"waiting", "dead"}, Arrive(i, queue)
  PROVE  \E n \in Copies :
           /\ place[n] = "unborn" /\ n # i
           /\ place' = [place EXCEPT ![n] = queue]
           /\ message' = [message EXCEPT ![n] = message[i]]
           /\ attempts' = [attempts EXCEPT ![n] = attempts[i] + 1]
           /\ place'[n] = queue /\ message'[n] = message[i] /\ attempts'[n] = attempts[i] + 1
           /\ place' \in [Copies -> Place] /\ message' \in [Copies -> Messages]
           /\ attempts' \in [Copies -> 0..MaxAttempts]
<1>1. PICK n \in Copies :
           /\ place[n] = "unborn"
           /\ place' = [place EXCEPT ![n] = queue]
           /\ message' = [message EXCEPT ![n] = message[i]]
           /\ attempts' = [attempts EXCEPT ![n] = attempts[i] + 1]
  BY Zenon DEF Arrive
<1>2. n # i /\ place'[n] = queue /\ message'[n] = message[i] /\ attempts'[n] = attempts[i] + 1
  BY <1>1, Zenon DEF TypeOK, Born
<1>3. place' \in [Copies -> Place] /\ message' \in [Copies -> Messages]
  BY <1>1, Zenon DEF TypeOK, Place
<1>4. attempts' \in [Copies -> 0..MaxAttempts]
  <2>1. attempts[i] + 1 \in 0..MaxAttempts
    BY ConsumerAssumption DEF TypeOK
  <2> QED  BY <1>1, <2>1, Zenon DEF TypeOK
<1> QED  BY <1>1, <1>2, <1>3, <1>4, Zenon

\* Types, and the facts that stay, when the broker handles a frame.
LEMMA FrameStep ==
  ASSUME ConsumerInv, NEW c \in Consumers, HandleFrame(c)
  PROVE  TypeOK' /\ Kept
<1> DEFINE f == wire[c][1]
<1>1. /\ wire[c] \in Seq([op : Op, copy : Copies]) /\ wire[c] # <<>>
      /\ Head(wire[c]) = f /\ f \in [op : Op, copy : Copies] /\ 1 \in 1..Len(wire[c])
      /\ Tail(wire[c]) \in Seq([op : Op, copy : Copies])
  <2>1. wire[c] \in Seq([op : Op, copy : Copies]) /\ wire[c] # <<>>
    BY Zenon DEF HandleFrame, ConsumerInv, TypeOK
  <2> QED  BY <2>1, TailElements, Zenon
<1>2. f.copy \in Copies /\ f.op \in Op
  BY <1>1, Zenon
<1>3. Born(f.copy) /\ attempts[f.copy] < MaxAttempts
  BY <1>1, Zenon DEF ConsumerInv, WireInv, InPlay
<1>4. wire' \in [Consumers -> Seq([op : Op, copy : Copies])]
  BY <1>1, Zenon DEF HandleFrame, ConsumerInv, TypeOK
<1>5. /\ place' \in [Copies -> Place] /\ message' \in [Copies -> Messages]
      /\ attempts' \in [Copies -> 0..MaxAttempts]
      /\ \A i \in Copies : Born(i) => Born(i)' /\ message'[i] = message[i] /\ attempts'[i] = attempts[i]
  <2> HIDE DEF f
  <2>1. ASSUME NEW queue \in {"waiting", "dead"}, Arrive(f.copy, queue)  PROVE <1>5!:
    <3>1. PICK n \in Copies :
           /\ place[n] = "unborn"
           /\ place' = [place EXCEPT ![n] = queue]
           /\ message' = [message EXCEPT ![n] = message[f.copy]]
           /\ attempts' = [attempts EXCEPT ![n] = attempts[f.copy] + 1]
           /\ place' \in [Copies -> Place] /\ message' \in [Copies -> Messages]
           /\ attempts' \in [Copies -> 0..MaxAttempts]
      BY <1>2, <1>3, <2>1, ArriveStep DEF ConsumerInv
    <3> QED  BY <3>1, Zenon DEF ConsumerInv, TypeOK, Born
  <2>2. ASSUME NEW q \in {"gone", "dead"}, place' = [place EXCEPT ![f.copy] = q],
               UNCHANGED <<message, attempts>>
        PROVE  <1>5!:
    BY <1>2, <2>2, Zenon DEF ConsumerInv, TypeOK, Born, Place
  <2>3. CASE f.op = "retry"
    BY <1>1, <2>1, <2>3, Zenon DEF HandleFrame
  <2>4. CASE f.op = "dead"
    BY <1>1, <2>1, <2>4, Zenon DEF HandleFrame
  <2>5. CASE f.op = "ack"
    BY <1>1, <2>2, <2>5, Zenon DEF HandleFrame
  <2>6. CASE f.op = "reject"
    BY <1>1, <2>2, <2>6, Zenon DEF HandleFrame
  <2> QED  BY <1>2, <2>3, <2>4, <2>5, <2>6, Zenon DEF Op
<1>6. UNCHANGED <<open, consuming, buffer, hand, stage, history>>
  BY Zenon DEF HandleFrame
<1> QED  BY <1>4, <1>5, <1>6, Zenon DEF ConsumerInv, TypeOK, Kept, history

\* The same when it puts back what a consumer had.
LEMMA RequeueStep ==
  ASSUME TypeOK, NEW c \in Consumers, Requeue(c), UNCHANGED <<message, attempts>>
  PROVE  /\ place' \in [Copies -> Place] /\ returned' \in [Messages -> Nat]
         /\ \A i \in Copies : Born(i) => Born(i)'
         /\ \A i \in Copies : place'[i] = place[i] \/ (place[i] = c /\ place'[i] = "ready")
<1>1. /\ place' \in [Copies -> Place]
      /\ \A i \in Copies : Born(i) => Born(i)'
      /\ \A i \in Copies : place'[i] = place[i] \/ (place[i] = c /\ place'[i] = "ready")
  <2>1. ASSUME NEW i \in Copies  PROVE (IF place[i] = c THEN "ready" ELSE place[i]) \in Place
    BY Zenon DEF TypeOK, Place
  <2>2. place' = [i \in Copies |-> IF place[i] = c THEN "ready" ELSE place[i]]
    BY Zenon DEF Requeue
  <2>3. place' \in [Copies -> Place]
    BY <2>1, <2>2, Zenon
  <2>4. ASSUME NEW i \in Copies
        PROVE  place'[i] = place[i] \/ (place[i] = c /\ place'[i] = "ready")
    <3>1. place'[i] = IF place[i] = c THEN "ready" ELSE place[i]
      BY <2>2, Zenon
    <3> QED  BY <3>1, Zenon
  <2> QED  BY <2>3, <2>4, Zenon DEF Born
<1>2. ASSUME NEW m \in Messages  PROVE Cardinality({i \in With(c) : message[i] = m}) \in Nat
  <2>1. IsFiniteSet(Copies)
    BY CopiesAreFinite, Zenon
  <2>2. {i \in With(c) : message[i] = m} \in SUBSET Copies
    BY Zenon DEF With
  <2> QED  BY <2>1, <2>2, FS_Subset, FS_CardinalityType, Zenon
<1>3. returned' \in [Messages -> Nat]
  <2>1. ASSUME NEW m \in Messages
        PROVE  returned[m] + Cardinality({i \in With(c) : message[i] = m}) \in Nat
    <3> DEFINE n == Cardinality({i \in With(c) : message[i] = m})
    <3>1. n \in Nat /\ returned[m] \in Nat
      BY <1>2, Zenon DEF TypeOK
    <3> HIDE DEF n
    <3>2. returned[m] + n \in Nat
      BY <3>1
    <3> QED  BY <3>2, Zenon DEF n
  <2> QED  BY <2>1, Zenon DEF Requeue
<1> QED  BY <1>1, <1>3, Zenon

\* The same for every step.
LEMMA TypeStep ==
  ASSUME ConsumerInv, [Next]_vars
  PROVE  TypeOK' /\ Kept
<1> USE DEF ConsumerInv, Kept
<1>1. ASSUME NEW i \in Copies, BackoffExpires(i)  PROVE TypeOK' /\ Kept
  BY <1>1, Zenon DEF BackoffExpires, TypeOK, Place, Born, consumerVars, history
<1>2. ASSUME NEW c \in Consumers, NEW i \in Copies, Deliver(c, i)  PROVE TypeOK' /\ Kept
  <2>1. Append(buffer[c], i) \in Seq(Copies)
    BY AppendElements, Zenon DEF TypeOK
  <2>2. buffer' \in [Consumers -> Seq(Copies)]
    BY <1>2, <2>1, Zenon DEF Deliver, TypeOK
  <2>3. place' \in [Copies -> Place] /\ \A j \in Copies : Born(j) => Born(j)'
    BY <1>2, ConsumerAssumption, Zenon DEF Deliver, TypeOK, Place, Born
  <2> QED  BY <1>2, <2>2, <2>3, Zenon DEF Deliver, TypeOK, history
<1>3. ASSUME NEW c \in Consumers, HandleFrame(c)  PROVE TypeOK' /\ Kept
  BY <1>3, FrameStep, Zenon
<1>4. ASSUME NEW c \in Consumers, Take(c)  PROVE TypeOK' /\ Kept
  <2>1. Tail(buffer[c]) \in Seq(Copies) /\ Head(buffer[c]) \in Copies
    BY <1>4, TailElements DEF Take, TypeOK
  <2>2. buffer' \in [Consumers -> Seq(Copies)] /\ hand' \in [Consumers -> Copies \cup {None}]
        /\ stage' \in [Consumers -> Stage]
    BY <1>4, <2>1, Zenon DEF Take, TypeOK, Stage
  <2>3. message[Head(buffer[c])] \in Messages
    BY <2>1, Zenon DEF TypeOK
  <2>4. runs' \in [Messages -> Nat]
    <3>1. runs[message[Head(buffer[c])]] + 1 \in Nat
      BY <2>3 DEF TypeOK
    <3> QED  BY <1>4, <2>3, <3>1, Zenon DEF Take, TypeOK
  <2> QED  BY <1>4, <2>2, <2>4, Zenon DEF Take, TypeOK, copyVars, Born
<1>5. ASSUME NEW c \in Consumers, NEW op \in Op, Send(c, op), stage[c] # "idle"
      PROVE  wire' \in [Consumers -> Seq([op : Op, copy : Copies])]
  <2>1. [op |-> op, copy |-> hand[c]] \in [op : Op, copy : Copies]
    BY <1>5, Zenon DEF HandInv
  <2>2. Append(wire[c], [op |-> op, copy |-> hand[c]]) \in Seq([op : Op, copy : Copies])
    BY <2>1, AppendElements, Zenon DEF TypeOK
  <2> QED  BY <1>5, <2>2, Zenon DEF Send, TypeOK
<1>6. ASSUME NEW c \in Consumers, Finish(c)
      PROVE  hand' \in [Consumers -> Copies \cup {None}] /\ stage' \in [Consumers -> Stage]
  BY <1>6, Zenon DEF Finish, TypeOK, Stage
<1>7. ASSUME NEW c \in Consumers, HandlerSucceeds(c)  PROVE TypeOK' /\ Kept
  <2>1. wire' \in [Consumers -> Seq([op : Op, copy : Copies])]
    BY <1>5, <1>7, Zenon DEF HandlerSucceeds, Op
  <2>2. message[hand[c]] \in Messages
    BY <1>7, Zenon DEF HandlerSucceeds, HandInv, TypeOK
  <2> QED  BY <1>6, <1>7, <2>1, <2>2, Zenon DEF HandlerSucceeds, TypeOK, copyVars, Born
<1>8. ASSUME NEW c \in Consumers, HandlerFails(c)  PROVE TypeOK' /\ Kept
  BY <1>8, Zenon DEF HandlerFails, decide, TypeOK, Stage, copyVars, history, Born
<1>9. ASSUME NEW c \in Consumers, PublishRaw(c)  PROVE TypeOK' /\ Kept
  <2>1. wire' \in [Consumers -> Seq([op : Op, copy : Copies])]
    BY <1>5, <1>9, Zenon DEF PublishRaw, Op
  <2> QED  BY <1>9, <2>1, Zenon DEF PublishRaw, TypeOK, Stage, copyVars, history, Born
<1>10. ASSUME NEW c \in Consumers, PublishRawFails(c)  PROVE TypeOK' /\ Kept
  <2>1. wire' \in [Consumers -> Seq([op : Op, copy : Copies])]
    BY <1>5, <1>10, Zenon DEF PublishRawFails, Op
  <2>2. message[hand[c]] \in Messages
    BY <1>10, Zenon DEF PublishRawFails, HandInv, TypeOK
  <2> QED  BY <1>6, <1>10, <2>1, <2>2, Zenon DEF PublishRawFails, TypeOK, copyVars, Born
<1>11. ASSUME NEW c \in Consumers, Ack(c)  PROVE TypeOK' /\ Kept
  <2>1. wire' \in [Consumers -> Seq([op : Op, copy : Copies])]
    BY <1>5, <1>11, Zenon DEF Ack, Op
  <2> QED  BY <1>6, <1>11, <2>1, Zenon DEF Ack, TypeOK, copyVars, history, Born
<1>12. ASSUME NEW c \in Consumers, stop(c)  PROVE TypeOK' /\ Kept
  <2>1. interrupts' \in 0..MaxInterrupts
    BY <1>12, ConsumerAssumption DEF stop, TypeOK
  <2>2. buffer' \in [Consumers -> Seq(Copies)]
    BY <1>12 DEF stop, TypeOK
  <2> QED  BY <1>12, <2>1, <2>2, Zenon DEF stop, TypeOK, copyVars, Born
<1>13. ASSUME NEW c \in Consumers, Close(c)  PROVE TypeOK' /\ Kept
  BY <1>13, RequeueStep, Zenon DEF Close, TypeOK
<1>14. ASSUME NEW c \in Consumers, ChannelLost(c)  PROVE TypeOK' /\ Kept
  <2>1. buffer' \in [Consumers -> Seq(Copies)]
    <3>1. PICK k \in 0..Len(buffer[c]) : buffer' = [buffer EXCEPT ![c] = SubSeq(@, 1, k)]
      BY <1>14, Zenon DEF ChannelLost
    <3>2. SubSeq(buffer[c], 1, k) \in Seq(Copies)
      BY PrefixElements, Zenon DEF TypeOK
    <3> QED  BY <3>1, <3>2, Zenon DEF TypeOK
  <2>2. wire' \in [Consumers -> Seq([op : Op, copy : Copies])] /\ open' \in [Consumers -> BOOLEAN]
    <3>1. wire' = [wire EXCEPT ![c] = <<>>] /\ open' = [open EXCEPT ![c] = FALSE]
      BY <1>14, Zenon DEF ChannelLost
    <3>2. wire' \in [Consumers -> Seq([op : Op, copy : Copies])]
      BY <3>1, EmptiedSequence, Zenon DEF TypeOK
    <3>3. open' \in [Consumers -> BOOLEAN]
      BY <3>1, Zenon DEF TypeOK
    <3> QED  BY <3>2, <3>3, Zenon
  <2>3. interrupts' \in 0..MaxInterrupts
    BY <1>14, ConsumerAssumption DEF ChannelLost, TypeOK
  <2> QED  BY <1>14, <2>1, <2>2, <2>3, RequeueStep, Zenon DEF ChannelLost, TypeOK
<1>15. ASSUME NEW c \in Consumers, Crash(c)  PROVE TypeOK' /\ Kept
  <2>1. /\ wire' \in [Consumers -> Seq([op : Op, copy : Copies])]
        /\ open' \in [Consumers -> BOOLEAN] /\ buffer' \in [Consumers -> Seq(Copies)]
    <3>1. /\ wire' = [wire EXCEPT ![c] = <<>>] /\ open' = [open EXCEPT ![c] = FALSE]
          /\ buffer' = [buffer EXCEPT ![c] = <<>>]
      BY <1>15, Zenon DEF Crash
    <3>2. wire' \in [Consumers -> Seq([op : Op, copy : Copies])]
      BY <3>1, EmptiedSequence, Zenon DEF TypeOK
    <3>3. buffer' \in [Consumers -> Seq(Copies)]
      BY <3>1, EmptiedSequence, Zenon DEF TypeOK
    <3>4. open' \in [Consumers -> BOOLEAN]
      BY <3>1, Zenon DEF TypeOK
    <3> QED  BY <3>2, <3>3, <3>4, Zenon
  <2>2. interrupts' \in 0..MaxInterrupts
    BY <1>15, ConsumerAssumption DEF Crash, TypeOK
  <2> QED  BY <1>6, <1>15, <2>1, <2>2, RequeueStep, Zenon DEF Crash, TypeOK
<1>16. ASSUME NEW c \in Consumers, NewConsumer(c)  PROVE TypeOK' /\ Kept
  BY <1>16, Zenon DEF NewConsumer, TypeOK, copyVars, history, Born
<1>17. CASE UNCHANGED vars
  BY <1>17, Zenon DEF vars, copyVars, consumerVars, history, TypeOK, Born
<1> QED
  BY <1>1, <1>2, <1>3, <1>4, <1>7, <1>8, <1>9, <1>10, <1>11, <1>12, <1>13, <1>14, <1>15,
     <1>16, <1>17, Zenon DEF Next, ConsumerStep

-----------------------------------------------------------------------------
(* How the parts of the invariant survive a step.                          *)

\* Born, out of attempts, succeeded: what is true of a copy stays true.
LEMMA FactsStay ==
  ASSUME TypeOK, Kept, NEW i \in Copies, Born(i)
  PROVE  /\ InPlay(i) => InPlay(i)'
         /\ Succeeded(i) => Succeeded(i)'
         /\ \A op : Counted(op, i) => Counted(op, i)'
<1>1. Born(i)' /\ message'[i] = message[i] /\ attempts'[i] = attempts[i]
  BY Zenon DEF Kept
<1>2. InPlay(i) => InPlay(i)'
  BY <1>1, Zenon DEF InPlay
<1>3. Succeeded(i) => Succeeded(i)'
  <2>1. CASE message[i] \in handled
    BY <1>1, <2>1, Zenon DEF Kept, Succeeded
  <2>2. ASSUME NEW j \in Copies, Born(j), message[j] = message[i], attempts[j] > attempts[i]
        PROVE  Succeeded(i)'
    <3>1. Born(j)' /\ message'[j] = message'[i] /\ attempts'[j] > attempts'[i]
      BY <1>1, <2>2, Zenon DEF Kept
    <3> QED  BY <3>1, Zenon DEF Succeeded
  <2> QED  BY <2>1, <2>2, Zenon DEF Succeeded
<1>4. ASSUME NEW op, Counted(op, i)  PROVE Counted(op, i)'
  BY <1>1, <1>4, Zenon DEF Counted, Kept
<1> QED  BY <1>2, <1>3, <1>4, Zenon

\* A copy that stays where it is, or is not born yet.
LEMMA CopyKept ==
  ASSUME ConsumerInv, Kept, NEW i \in Copies, place'[i] = place[i], Born(i)
  PROVE  CopyInv(i)'
<1>1. CopyInv(i) /\ message'[i] = message[i] /\ attempts'[i] = attempts[i]
  BY Zenon DEF ConsumerInv, Kept
<1>2. Succeeded(i) => Succeeded(i)'
  BY FactsStay, Zenon DEF ConsumerInv
<1> QED  BY <1>1, <1>2, Zenon DEF CopyInv, Kept

LEMMA UnbornKept ==
  ASSUME NEW i, place'[i] = "unborn"
  PROVE  CopyInv(i)'
  BY ConsumerAssumption, Zenon DEF CopyInv

\* What a consumer holds stays in play.
LEMMA BufferKept ==
  ASSUME ConsumerInv, Kept, NEW c \in Consumers,
         \A k \in 1..Len(buffer'[c]) : \E l \in 1..Len(buffer[c]) : buffer'[c][k] = buffer[c][l]
  PROVE  BufferInv(c)'
<1> SUFFICES ASSUME NEW k \in 1..Len(buffer'[c])  PROVE InPlay(buffer[c][k])'
  BY Zenon DEF BufferInv
<1>1. PICK l \in 1..Len(buffer[c]) : buffer'[c][k] = buffer[c][l]
  BY Zenon
<1>2. buffer[c][l] \in Copies /\ InPlay(buffer[c][l])
  BY DEF ConsumerInv, TypeOK, BufferInv
<1>3. PICK i \in Copies : i = buffer[c][l]
  BY <1>2, Zenon
<1>4. InPlay(i)'
  BY <1>2, <1>3, FactsStay, Zenon DEF ConsumerInv, InPlay
<1>5. buffer'[c][k] = i
  BY <1>1, <1>3, Zenon
<1> QED  BY <1>4, <1>5, Zenon DEF InPlay, Born

\* A promise holds as long as the frames it rests on are where they were.
LEMMA PromiseStays ==
  ASSUME ConsumerInv, Kept, NEW c \in Consumers, NEW i \in Copies, Born(i),
         NEW n \in 0..Len(wire[c]), Promised(c, i, n),
         \A k \in 1..n : wire'[c][k] = wire[c][k]
  PROVE  Promised(c, i, n)'
<1>1. Succeeded(i) => Succeeded(i)'
  BY FactsStay, Zenon DEF ConsumerInv
<1> QED  BY <1>1, Zenon DEF Promised

LEMMA FrameFacts ==
  ASSUME ConsumerInv, NEW c \in Consumers, NEW k \in 1..Len(wire[c])
  PROVE  /\ wire[c][k] \in [op : Op, copy : Copies]
         /\ wire[c][k].copy \in Copies /\ Born(wire[c][k].copy)
         /\ InPlay(wire[c][k].copy) /\ Counted(wire[c][k].op, wire[c][k].copy)
         /\ wire[c][k].op = "ack" => Promised(c, wire[c][k].copy, k - 1)
<1>1. wire[c][k] \in [op : Op, copy : Copies]
  <2>1. wire[c] \in Seq([op : Op, copy : Copies])
    BY Zenon DEF ConsumerInv, TypeOK
  <2> QED  BY <2>1, ElementOfSequence, Zenon
<1> QED  BY <1>1, Zenon DEF ConsumerInv, WireInv, InPlay

\* A frame that is still k-th on the wire.
LEMMA FrameKept ==
  ASSUME ConsumerInv, Kept, NEW c \in Consumers, NEW k \in 1..Len(wire[c]),
         \A l \in 1..k : wire'[c][l] = wire[c][l]
  PROVE  /\ InPlay(wire[c][k].copy)' /\ Counted(wire[c][k].op, wire[c][k].copy)'
         /\ (wire[c][k].op = "ack" => Promised(c, wire[c][k].copy, k - 1))'
<1>1. PICK i \in Copies, o \in Op : i = wire[c][k].copy /\ o = wire[c][k].op
  BY FrameFacts, Zenon
<1>2. Born(i) /\ InPlay(i) /\ Counted(o, i) /\ (o = "ack" => Promised(c, i, k - 1))
  BY <1>1, FrameFacts, Zenon
<1>3. wire'[c][k] = wire[c][k] /\ k - 1 \in 0..Len(wire[c]) /\ \A l \in 1..k-1 : l \in 1..k
  <2>1. wire[c] \in Seq([op : Op, copy : Copies])
    BY Zenon DEF ConsumerInv, TypeOK
  <2> DEFINE n == Len(wire[c])
  <2>2. n \in Nat
    BY <2>1
  <2> HIDE DEF n
  <2>3. k \in 1..n
    BY Zenon DEF n
  <2>4. k \in 1..k /\ k - 1 \in 0..n /\ \A l \in 1..k-1 : l \in 1..k
    BY <2>2, <2>3
  <2> QED  BY <2>4, Zenon DEF n
<1>4. InPlay(i)' /\ Counted(o, i)'
  BY <1>2, FactsStay, Zenon DEF ConsumerInv
<1>5. o = "ack" => Promised(c, i, k - 1)'
  BY <1>2, <1>3, PromiseStays, Zenon
<1>6. wire'[c][k].copy = i /\ wire'[c][k].op = o
  BY <1>1, <1>3, Zenon
<1>7. InPlay(wire[c][k].copy)' /\ Counted(wire[c][k].op, wire[c][k].copy)'
  BY <1>4, <1>6, Zenon DEF InPlay, Born, Counted
<1>8. (wire[c][k].op = "ack" => Promised(c, wire[c][k].copy, k - 1))'
  BY <1>5, <1>6, Zenon DEF Promised, Succeeded
<1> QED  BY <1>7, <1>8, Zenon

\* A wire nothing is sent on or read from.
LEMMA WireKept ==
  ASSUME ConsumerInv, Kept, NEW c \in Consumers, wire'[c] = wire[c]
  PROVE  WireInv(c)'
<1> SUFFICES ASSUME NEW k \in 1..Len(wire[c])
             PROVE  /\ InPlay(wire[c][k].copy)' /\ Counted(wire[c][k].op, wire[c][k].copy)'
                    /\ (wire[c][k].op = "ack" => Promised(c, wire[c][k].copy, k - 1))'
  BY Zenon DEF WireInv
<1> QED  BY FrameKept, Zenon

\* A frame about the copy in hand is sent.
LEMMA WireGrows ==
  ASSUME ConsumerInv, Kept, NEW c \in Consumers, NEW i \in Copies, NEW o \in Op,
         InPlay(i), Counted(o, i)', o = "ack" => Promised(c, i, Len(wire[c])) \/ Succeeded(i)',
         wire'[c] = Append(wire[c], [op |-> o, copy |-> i])
  PROVE  WireInv(c)'
<1> DEFINE e == [op |-> o, copy |-> i]
<1>1. PICK n \in Nat : n = Len(wire[c])
  BY DEF ConsumerInv, TypeOK
<1>2. /\ Len(wire'[c]) = n + 1 /\ wire'[c][n + 1] = e
      /\ \A k \in 1..n : wire'[c][k] = wire[c][k]
  <2>1. wire[c] \in Seq([op : Op, copy : Copies]) /\ e \in [op : Op, copy : Copies]
    BY Zenon DEF ConsumerInv, TypeOK
  <2> QED  BY <1>1, <2>1, AppendElements
<1>3. InPlay(i)' /\ Born(i)
  BY FactsStay, Zenon DEF ConsumerInv, InPlay
<1>4. o = "ack" => Promised(c, i, n)'
  <2>1. Promised(c, i, n) => Promised(c, i, n)'
    BY <1>1, <1>2, <1>3, PromiseStays
  <2> QED  BY <1>1, <2>1, Zenon DEF Promised
<1> SUFFICES ASSUME NEW k \in 1..n + 1
             PROVE  /\ InPlay(wire[c][k].copy)' /\ Counted(wire[c][k].op, wire[c][k].copy)'
                    /\ (wire[c][k].op = "ack" => Promised(c, wire[c][k].copy, k - 1))'
  BY <1>2, Zenon DEF WireInv
<1>5. CASE k \in 1..n
  <2>1. \A l \in 1..k : l \in 1..n
    BY <1>1, <1>5
  <2> QED  BY <1>1, <1>2, <1>5, <2>1, FrameKept, Zenon
<1>6. CASE k = n + 1
  <2>1. wire'[c][k].copy = i /\ wire'[c][k].op = o /\ k - 1 = n
    BY <1>2, <1>6
  <2>2. InPlay(wire[c][k].copy)' /\ Counted(wire[c][k].op, wire[c][k].copy)'
    BY <1>3, <2>1, Zenon DEF InPlay, Born, Counted
  <2>3. (wire[c][k].op = "ack" => Promised(c, wire[c][k].copy, k - 1))'
    BY <1>4, <2>1, Zenon DEF Promised, Succeeded
  <2> QED  BY <2>2, <2>3, Zenon
<1>7. k \in 1..n \/ k = n + 1
  OBVIOUS
<1> QED  BY <1>5, <1>6, <1>7, Zenon

\* The broker handles the first frame.  If it was a publication, the copy exists now.
LEMMA PromiseShifts ==
  ASSUME ConsumerInv, Kept, NEW c \in Consumers, wire[c] # <<>>, wire'[c] = Tail(wire[c]),
         NEW h \in Copies, h = wire[c][1].copy,
         wire[c][1].op \in {"retry", "dead"} => Succeeded(h)',
         NEW i \in Copies, Born(i), NEW n \in 0..Len(wire[c]) - 1, Promised(c, i, n + 1)
  PROVE  Promised(c, i, n)'
<1>1. Succeeded(i) => Succeeded(i)'
  BY FactsStay, Zenon DEF ConsumerInv
<1>2. CASE Succeeded(i)
  BY <1>1, <1>2, Zenon DEF Promised
<1>3. ASSUME NEW k \in 1..n + 1, wire[c][k].copy = i, wire[c][k].op \in {"retry", "dead"}
      PROVE  Promised(c, i, n)'
  <2>1. CASE k = 1
    BY <1>3, <2>1, Zenon DEF Promised
  <2>2. CASE k # 1
    <3>1. PICK l \in 1..n : k = l + 1
      <4>1. k - 1 \in 1..n /\ k = (k - 1) + 1
        BY <2>2
      <4> QED  BY <4>1, Zenon
    <3>2. wire'[c][l] = wire[c][k]
      <4>1. wire[c] \in Seq([op : Op, copy : Copies])
        BY Zenon DEF ConsumerInv, TypeOK
      <4>2. l \in 1..Len(wire[c]) - 1
        <5>1. Len(wire[c]) \in Nat
          BY <4>1
        <5> QED  BY <5>1
      <4> QED  BY <3>1, <4>1, <4>2, TailElements, Zenon
    <3> QED  BY <1>3, <3>1, <3>2, Zenon DEF Promised
  <2> QED  BY <2>1, <2>2, Zenon
<1> QED  BY <1>2, <1>3, Zenon DEF Promised

\* The frames behind the first.
LEMMA WireShrinks ==
  ASSUME ConsumerInv, Kept, NEW c \in Consumers, wire[c] # <<>>, wire'[c] = Tail(wire[c]),
         NEW h \in Copies, h = wire[c][1].copy,
         wire[c][1].op \in {"retry", "dead"} => Succeeded(h)',
         hand'[c] = hand[c], stage'[c] = stage[c], open'[c] = open[c]
  PROVE  HandInv(c)' /\ WireInv(c)'
<1>1. wire[c] \in Seq([op : Op, copy : Copies])
  BY Zenon DEF ConsumerInv, TypeOK
<1>2. PICK n \in Nat : n = Len(wire[c]) - 1 /\ Len(wire'[c]) = n
  <2>1. Len(wire[c]) \in Nat /\ 1 \in 1..Len(wire[c]) /\ Len(wire'[c]) = Len(wire[c]) - 1
    BY <1>1, TailElements, Zenon
  <2>2. Len(wire[c]) - 1 \in Nat
    BY <2>1
  <2> QED  BY <2>1, <2>2, Zenon
<1>3. ASSUME NEW k \in 1..n
      PROVE  /\ InPlay(wire[c][k].copy)' /\ Counted(wire[c][k].op, wire[c][k].copy)'
             /\ (wire[c][k].op = "ack" => Promised(c, wire[c][k].copy, k - 1))'
  <2>1. wire'[c][k] = wire[c][k + 1] /\ k + 1 \in 1..Len(wire[c]) /\ (k + 1) - 1 = (k - 1) + 1
        /\ k - 1 \in 0..Len(wire[c]) - 1
    BY <1>1, <1>2, TailElements
  <2>2. PICK i \in Copies, o \in Op : i = wire[c][k + 1].copy /\ o = wire[c][k + 1].op
    BY <2>1, FrameFacts, Zenon
  <2>3. Born(i) /\ InPlay(i) /\ Counted(o, i) /\ (o = "ack" => Promised(c, i, (k - 1) + 1))
    BY <2>1, <2>2, FrameFacts, Zenon
  <2>4. InPlay(i)' /\ Counted(o, i)'
    BY <2>3, FactsStay, Zenon DEF ConsumerInv
  <2>5. o = "ack" => Promised(c, i, k - 1)'
    BY <2>1, <2>3, PromiseShifts, Zenon
  <2>6. wire'[c][k].copy = i /\ wire'[c][k].op = o
    BY <2>1, <2>2, Zenon
  <2>7. InPlay(wire[c][k].copy)' /\ Counted(wire[c][k].op, wire[c][k].copy)'
    BY <2>4, <2>6, Zenon DEF InPlay, Born, Counted
  <2>8. (wire[c][k].op = "ack" => Promised(c, wire[c][k].copy, k - 1))'
    BY <2>5, <2>6, Zenon DEF Promised, Succeeded
  <2> QED  BY <2>7, <2>8, Zenon
<1>4. WireInv(c)'
  BY <1>2, <1>3, Zenon DEF WireInv
<1>5. HandInv(c)'
  <2> SUFFICES ASSUME stage[c] # "idle"  PROVE HandInv(c)'
    BY Zenon DEF HandInv
  <2>1. PICK i \in Copies, s \in Stage : i = hand[c] /\ s = stage[c]
    BY Zenon DEF ConsumerInv, HandInv, TypeOK
  <2>2. /\ Born(i) /\ InPlay(i) /\ Counted(s, i)
        /\ open[c] /\ s = "ack" => Promised(c, i, n + 1)
    BY <1>2, <2>1, SMTT(30) DEF ConsumerInv, HandInv, InPlay
  <2>3. InPlay(i)' /\ Counted(s, i)'
    BY <2>2, FactsStay, Zenon DEF ConsumerInv
  <2>4. open[c] /\ s = "ack" => Promised(c, i, n)'
    BY <1>2, <2>2, PromiseShifts
  <2>5. hand'[c] = i /\ stage'[c] = s
    BY <2>1, Zenon
  <2>6. InPlay(hand[c])' /\ Counted(stage[c], hand[c])'
    BY <2>3, <2>5, Zenon DEF InPlay, Born, Counted
  <2>7. (open[c] /\ stage[c] = "ack" => Promised(c, hand[c], Len(wire[c])))'
    BY <1>2, <2>4, <2>5, Zenon DEF Promised, Succeeded
  <2> QED  BY <2>5, <2>6, <2>7, Zenon DEF HandInv
<1> QED  BY <1>4, <1>5, Zenon

\* A delivery in hand while the wire is as it was.
LEMMA HandKept ==
  ASSUME ConsumerInv, Kept, NEW c \in Consumers, hand'[c] = hand[c], stage'[c] = stage[c],
         open'[c] => open[c] /\ wire'[c] = wire[c]
  PROVE  HandInv(c)'
<1> SUFFICES ASSUME stage[c] # "idle"  PROVE HandInv(c)'
  BY Zenon DEF HandInv
<1>1. PICK i \in Copies, s \in Stage : i = hand[c] /\ s = stage[c]
  BY Zenon DEF ConsumerInv, HandInv, TypeOK
<1>2. PICK n \in Nat : n = Len(wire[c])
  BY DEF ConsumerInv, TypeOK
<1>3. /\ Born(i) /\ InPlay(i) /\ Counted(s, i)
      /\ open[c] /\ s = "ack" => Promised(c, i, n)
  BY <1>1, <1>2, Zenon DEF ConsumerInv, HandInv, InPlay
<1>4. InPlay(i)' /\ Counted(s, i)'
  BY <1>3, FactsStay, Zenon DEF ConsumerInv
<1>5. open'[c] /\ s = "ack" => Promised(c, i, n)'
  BY <1>2, <1>3, PromiseStays
<1>6. hand'[c] = i /\ stage'[c] = s
  BY <1>1, Zenon
<1>7. InPlay(hand[c])' /\ Counted(stage[c], hand[c])'
  BY <1>4, <1>6, Zenon DEF InPlay, Born, Counted
<1>8. (open[c] /\ stage[c] = "ack" => Promised(c, hand[c], Len(wire[c])))'
  BY <1>2, <1>5, <1>6, Zenon DEF Promised, Succeeded
<1> QED  BY <1>6, <1>7, <1>8, Zenon DEF HandInv

\* What the invariant says of a consumer.
OfConsumer(c) == BufferInv(c) /\ HandInv(c) /\ WireInv(c)

LEMMA ConsumerKept ==
  ASSUME ConsumerInv, Kept, NEW c \in Consumers, buffer'[c] = buffer[c], hand'[c] = hand[c],
         stage'[c] = stage[c], open'[c] = open[c], wire'[c] = wire[c]
  PROVE  OfConsumer(c)'
  BY BufferKept, HandKept, WireKept, Zenon DEF OfConsumer

LEMMA CopiesKept ==
  ASSUME ConsumerInv, Kept, place' = place
  PROVE  \A i \in Copies : CopyInv(i)'
<1> SUFFICES ASSUME NEW i \in Copies  PROVE CopyInv(i)'
  BY Zenon
<1> QED  BY CopyKept, UnbornKept, Zenon DEF Born

\* What the broker takes back is in the queue again.
LEMMA RequeueKeeps ==
  ASSUME ConsumerInv, Kept, NEW c \in Consumers, Requeue(c), UNCHANGED <<message, attempts>>
  PROVE  \A i \in Copies : CopyInv(i)'
<1> SUFFICES ASSUME NEW i \in Copies  PROVE CopyInv(i)'
  BY Zenon
<1>1. CASE place'[i] = place[i]
  BY <1>1, CopyKept, UnbornKept, Zenon DEF Born
<1>2. CASE place[i] = c /\ place'[i] = "ready"
  <2>1. attempts'[i] < MaxAttempts
    BY <1>2, Zenon DEF ConsumerInv, CopyInv
  <2> QED  BY <1>2, <2>1, Zenon DEF CopyInv
<1> QED  BY <1>1, <1>2, RequeueStep, Zenon DEF ConsumerInv

\* The broker handles a frame.
LEMMA HandleFrameStep ==
  ASSUME ConsumerInv, TypeOK', Kept, NEW c \in Consumers, HandleFrame(c)
  PROVE  (\A i \in Copies : CopyInv(i)') /\ \A d \in Consumers : OfConsumer(d)'
<1>1. wire[c] # <<>> /\ wire[c] \in Seq([op : Op, copy : Copies])
      /\ wire' = [wire EXCEPT ![c] = Tail(wire[c])]
  BY Zenon DEF HandleFrame, ConsumerInv, TypeOK
<1>2. wire'[c] = Tail(wire[c]) /\ \A d \in Consumers \ {c} : wire'[d] = wire[d]
  BY <1>1, Zenon DEF ConsumerInv, TypeOK
<1>3. 1 \in 1..Len(wire[c]) /\ Head(wire[c]) = wire[c][1]
  BY <1>1, TailElements, Zenon
<1>4. PICK h \in Copies, o \in Op : h = wire[c][1].copy /\ o = wire[c][1].op
  BY <1>3, FrameFacts, Zenon
<1>5. InPlay(h) /\ Born(h) /\ Counted(o, h) /\ (o = "ack" => Promised(c, h, 0))
  BY <1>3, <1>4, FrameFacts
<1>6. /\ \A i \in Copies : CopyInv(i)'
      /\ o \in {"retry", "dead"} => Succeeded(h)'
  <2>1. ASSUME NEW queue \in {"waiting", "dead"}, Arrive(h, queue),
               queue = "waiting" => o = "retry", queue = "dead" => o = "dead"
        PROVE  (\A i \in Copies : CopyInv(i)') /\ Succeeded(h)'
    <3>1. PICK n \in Copies :
           /\ place[n] = "unborn" /\ n # h
           /\ place' = [place EXCEPT ![n] = queue]
           /\ place'[n] = queue /\ message'[n] = message[h] /\ attempts'[n] = attempts[h] + 1
      BY <1>5, <2>1, ArriveStep DEF ConsumerInv, InPlay
    <3>2. Succeeded(h)'
      <4>1. message'[h] = message[h] /\ attempts'[h] = attempts[h] /\ attempts[h] \in Nat
        BY <1>5 DEF Kept, ConsumerInv, TypeOK
      <4>2. Born(n)' /\ message'[n] = message'[h] /\ attempts'[n] > attempts'[h]
        BY <3>1, <4>1 DEF Born
      <4> QED  BY <4>2, Zenon DEF Succeeded
    <3>3. CopyInv(n)'
      BY <1>5, <2>1, <3>1, ConsumerAssumption, Zenon DEF CopyInv, Counted
    <3>4. ASSUME NEW i \in Copies, i # n  PROVE CopyInv(i)'
      <4>1. place'[i] = place[i]
        BY <3>1, <3>4, Zenon DEF ConsumerInv, TypeOK
      <4> QED  BY <4>1, CopyKept, UnbornKept, Zenon DEF Born
    <3> QED  BY <3>2, <3>3, <3>4, Zenon
  <2>2. ASSUME NEW q \in {"gone", "dead"}, place' = [place EXCEPT ![h] = q],
               q = "gone" => o = "ack", q = "dead" => o = "reject"
        PROVE  \A i \in Copies : CopyInv(i)'
    <3>1. place'[h] = q
      BY <2>2, Zenon DEF ConsumerInv, TypeOK
    <3>2. ASSUME NEW i \in Copies, i # h  PROVE CopyInv(i)'
      <4>1. place'[i] = place[i]
        BY <2>2, <3>2, Zenon DEF ConsumerInv, TypeOK
      <4> QED  BY <4>1, CopyKept, UnbornKept, Zenon DEF Born
    <3>3. CASE q = "gone"
      <4>1. Succeeded(h)'
        BY <1>5, <2>2, <3>3, FactsStay DEF Promised, ConsumerInv
      <4> QED  BY <3>1, <3>2, <3>3, <4>1, ConsumerAssumption, Zenon DEF CopyInv
    <3>4. CASE q = "dead"
      <4>1. message'[h] \in refused'
        BY <1>5, <2>2, <3>4, Zenon DEF Counted, Kept
      <4> QED  BY <3>1, <3>2, <3>4, <4>1, ConsumerAssumption, Zenon DEF CopyInv
    <3> QED  BY <3>3, <3>4, Zenon
  <2>3. CASE o = "retry"
    BY <1>3, <1>4, <2>1, <2>3, Zenon DEF HandleFrame
  <2>4. CASE o = "dead"
    BY <1>3, <1>4, <2>1, <2>4, Zenon DEF HandleFrame
  <2>5. CASE o = "ack"
    BY <1>3, <1>4, <2>2, <2>5, Zenon DEF HandleFrame
  <2>6. CASE o = "reject"
    BY <1>3, <1>4, <2>2, <2>6, Zenon DEF HandleFrame
  <2> QED  BY <2>3, <2>4, <2>5, <2>6, Zenon DEF Op
<1>7. UNCHANGED <<open, buffer, hand, stage>>
  BY Zenon DEF HandleFrame
<1>8. OfConsumer(c)'
  <2>1. BufferInv(c)'
    BY <1>7, BufferKept, Zenon
  <2>2. HandInv(c)' /\ WireInv(c)'
    BY <1>1, <1>2, <1>4, <1>6, <1>7, WireShrinks, Zenon
  <2> QED  BY <2>1, <2>2, Zenon DEF OfConsumer
<1>9. ASSUME NEW d \in Consumers, d # c  PROVE OfConsumer(d)'
  BY <1>2, <1>7, <1>9, ConsumerKept, Zenon
<1> QED  BY <1>6, <1>8, <1>9, Zenon

\* A consumer sends a frame about the copy in its hand.
LEMMA SendKeeps ==
  ASSUME ConsumerInv, Kept, NEW c \in Consumers, NEW o \in Op, NEW i \in Copies, i = hand[c],
         Send(c, o), InPlay(i), Counted(o, i)',
         o = "ack" /\ open[c] => Promised(c, i, Len(wire[c])) \/ Succeeded(i)'
  PROVE  WireInv(c)' /\ \A d \in Consumers \ {c} : wire'[d] = wire[d]
<1>1. CASE open[c]
  <2>1. wire' = [wire EXCEPT ![c] = Append(wire[c], [op |-> o, copy |-> i])]
    BY <1>1, Zenon DEF Send
  <2>2. wire'[c] = Append(wire[c], [op |-> o, copy |-> i])
        /\ \A d \in Consumers \ {c} : wire'[d] = wire[d]
    BY <2>1, Zenon DEF ConsumerInv, TypeOK
  <2> QED  BY <1>1, <2>2, WireGrows, Zenon
<1>2. CASE ~open[c]
  BY <1>2, WireKept, Zenon DEF Send
<1> QED  BY <1>1, <1>2, Zenon

LEMMA InHand ==
  ASSUME ConsumerInv, NEW c \in Consumers, stage[c] # "idle"
  PROVE  \E i \in Copies :
           /\ i = hand[c] /\ InPlay(i) /\ Born(i) /\ Counted(stage[c], i)
           /\ open[c] /\ stage[c] = "ack" => Promised(c, i, Len(wire[c]))
  BY Zenon DEF ConsumerInv, HandInv, InPlay

\* A step of consumer c leaves the others alone.
LEMMA OthersKept ==
  ASSUME ConsumerInv, Kept, NEW c \in Consumers,
         \A d \in Consumers \ {c} : /\ buffer'[d] = buffer[d] /\ hand'[d] = hand[d]
                                    /\ stage'[d] = stage[d] /\ open'[d] = open[d]
                                    /\ wire'[d] = wire[d],
         OfConsumer(c)'
  PROVE  \A d \in Consumers : OfConsumer(d)'
<1> SUFFICES ASSUME NEW d \in Consumers, d # c  PROVE OfConsumer(d)'
  BY Zenon
<1> QED  BY ConsumerKept, Zenon

\* The steps of the loop of Consume.
LEMMA ConsumerStepKeeps ==
  ASSUME ConsumerInv, TypeOK', Kept, NEW c \in Consumers, ConsumerStep(c)
  PROVE  \A d \in Consumers : OfConsumer(d)'
<1>1. TypeOK
  BY Zenon DEF ConsumerInv
<1>2. CASE Take(c)
  <2>1. /\ buffer[c] \in Seq(Copies) /\ buffer[c] # <<>>
        /\ buffer' = [buffer EXCEPT ![c] = Tail(buffer[c])]
        /\ hand' = [hand EXCEPT ![c] = Head(buffer[c])]
        /\ stage' = [stage EXCEPT ![c] = "handle"]
        /\ UNCHANGED <<open, wire>>
    BY <1>1, <1>2, Zenon DEF Take, TypeOK
  <2>2. PICK i \in Copies : i = Head(buffer[c]) /\ InPlay(i) /\ Born(i)
    <3>1. Head(buffer[c]) = buffer[c][1] /\ buffer[c][1] \in Copies /\ 1 \in 1..Len(buffer[c])
      BY <2>1, TailElements, Zenon
    <3> QED  BY <3>1, Zenon DEF ConsumerInv, BufferInv, InPlay
  <2>3. buffer'[c] = Tail(buffer[c]) /\ hand'[c] = i /\ stage'[c] = "handle"
    BY <1>1, <2>1, <2>2, Zenon DEF TypeOK
  <2>4. BufferInv(c)'
    <3>1. \A k \in 1..Len(Tail(buffer[c])) : k \in 1..Len(buffer[c]) - 1
      BY <2>1, TailElements, Zenon
    <3>2. \A k \in 1..Len(Tail(buffer[c])) :
             k + 1 \in 1..Len(buffer[c]) /\ Tail(buffer[c])[k] = buffer[c][k + 1]
      BY <2>1, <3>1, TailElements, Zenon
    <3> QED  BY <2>3, <3>2, BufferKept, Zenon
  <2>5. HandInv(c)'
    <3>1. InPlay(i)' /\ Counted("handle", i)'
      BY <1>1, <2>2, FactsStay, Zenon DEF Counted
    <3> QED  BY <2>3, <3>1, Zenon DEF HandInv, InPlay, Born, Counted
  <2>6. WireInv(c)'
    BY <2>1, WireKept, Zenon
  <2>7. \A d \in Consumers \ {c} : buffer'[d] = buffer[d] /\ hand'[d] = hand[d] /\ stage'[d] = stage[d]
    BY <1>1, <2>1, Zenon DEF TypeOK
  <2> QED  BY <2>1, <2>4, <2>5, <2>6, <2>7, OthersKept, Zenon DEF OfConsumer
<1>3. ASSUME stage[c] # "idle", NEW o \in Op, Send(c, o), Finish(c), UNCHANGED <<open, buffer>>,
             \A i \in Copies : i = hand[c] /\ Born(i) /\ Counted(stage[c], i) => Counted(o, i)',
             o = "ack" /\ open[c] =>
               stage[c] = "ack" \/ \A i \in Copies : i = hand[c] => Succeeded(i)'
      PROVE  \A d \in Consumers : OfConsumer(d)'
  <2>1. PICK i \in Copies :
           /\ i = hand[c] /\ InPlay(i) /\ Born(i) /\ Counted(stage[c], i)
           /\ open[c] /\ stage[c] = "ack" => Promised(c, i, Len(wire[c]))
    BY <1>3, InHand, Zenon
  <2>2. WireInv(c)' /\ \A d \in Consumers \ {c} : wire'[d] = wire[d]
    BY <1>3, <2>1, SendKeeps, Zenon
  <2>3. stage'[c] = "idle" /\ \A d \in Consumers \ {c} : hand'[d] = hand[d] /\ stage'[d] = stage[d]
    BY <1>1, <1>3, Zenon DEF Finish, TypeOK
  <2>4. HandInv(c)'
    BY <2>3, Zenon DEF HandInv
  <2>5. BufferInv(c)'
    BY <1>3, BufferKept, Zenon
  <2> QED  BY <1>3, <2>2, <2>3, <2>4, <2>5, OthersKept, Zenon DEF OfConsumer
<1>4. CASE HandlerSucceeds(c)
  <2>1. \A i \in Copies : i = hand[c] => Succeeded(i)'
    BY <1>4, Zenon DEF HandlerSucceeds, Succeeded, copyVars
  <2> QED  BY <1>3, <1>4, <2>1, Zenon DEF HandlerSucceeds, Op, Counted
<1>5. CASE HandlerFails(c)
  <2>1. PICK i \in Copies : i = hand[c] /\ InPlay(i) /\ Born(i)
    BY <1>5, InHand, Zenon DEF HandlerFails
  <2>2. stage' = [stage EXCEPT ![c] = decide(attempts[i])] /\ UNCHANGED <<hand, open, buffer, wire>>
    BY <1>5, <2>1, Zenon DEF HandlerFails
  <2>3. stage'[c] = decide(attempts[i]) /\ \A d \in Consumers \ {c} : stage'[d] = stage[d]
    BY <1>1, <2>2, Zenon DEF TypeOK
  <2>4. PICK s \in {"retry", "dead"} : s = stage'[c] /\ Counted(s, i)
    <3>1. attempts[i] \in Nat /\ attempts[i] < MaxAttempts /\ MaxAttempts \in Nat
      BY <1>1, <2>1, ConsumerAssumption DEF TypeOK, InPlay
    <3>2. CASE attempts[i] + 1 >= MaxAttempts
      BY <2>3, <3>1, <3>2 DEF decide, Counted
    <3>3. CASE attempts[i] + 1 < MaxAttempts
      BY <2>3, <3>1, <3>3 DEF decide, Counted
    <3> QED  BY <3>1, <3>2, <3>3
  <2>5. HandInv(c)'
    <3>1. InPlay(i)' /\ Counted(s, i)' /\ hand'[c] = i /\ s = stage'[c] /\ s # "ack"
      BY <1>1, <2>1, <2>2, <2>4, FactsStay, Zenon
    <3> QED  BY <3>1, Zenon DEF HandInv, InPlay, Born, Counted
  <2> QED  BY <2>2, <2>3, <2>5, BufferKept, WireKept, OthersKept, Zenon DEF OfConsumer
<1>6. CASE PublishRaw(c)
  <2>1. PICK i \in Copies, o \in {"retry", "dead"} :
           i = hand[c] /\ o = stage[c] /\ InPlay(i) /\ Born(i) /\ Counted(o, i)
    BY <1>6, InHand, Zenon DEF PublishRaw
  <2>2. open[c] /\ Send(c, o) /\ stage' = [stage EXCEPT ![c] = "ack"] /\ UNCHANGED <<open, hand, buffer>>
    BY <1>6, <2>1, Zenon DEF PublishRaw
  <2>3. stage'[c] = "ack" /\ \A d \in Consumers \ {c} : stage'[d] = stage[d]
    BY <1>1, <2>2, Zenon DEF TypeOK
  <2>4. InPlay(i)' /\ Counted(o, i)' /\ o \in Op /\ o # "ack"
    BY <1>1, <2>1, FactsStay, Zenon DEF Op
  <2>5. WireInv(c)' /\ \A d \in Consumers \ {c} : wire'[d] = wire[d]
    BY <2>1, <2>2, <2>4, SendKeeps, Zenon
  <2>6. HandInv(c)'
    <3>1. /\ wire[c] \in Seq([op : Op, copy : Copies])
          /\ [op |-> o, copy |-> i] \in [op : Op, copy : Copies]
          /\ wire'[c] = Append(wire[c], [op |-> o, copy |-> i])
      BY <1>1, <2>1, <2>2, <2>4, Zenon DEF Send, TypeOK
    <3>2. /\ Len(wire'[c]) \in 1..Len(wire'[c])
          /\ wire'[c][Len(wire'[c])] = [op |-> o, copy |-> i]
      BY <3>1, AppendElements
    <3>3. Promised(c, i, Len(wire[c]))'
      BY <2>1, <3>2 DEF Promised
    <3>4. Counted("ack", i)'
      BY Zenon DEF Counted
    <3> QED  BY <2>1, <2>2, <2>3, <2>4, <3>3, <3>4, Zenon DEF HandInv, InPlay, Born, Counted, Promised, Succeeded
  <2> QED  BY <2>2, <2>3, <2>5, <2>6, BufferKept, OthersKept, Zenon DEF OfConsumer
<1>7. CASE PublishRawFails(c)
  <2>1. \A i \in Copies : i = hand[c] /\ Born(i) => message'[i] \in refused'
    BY <1>7, Zenon DEF PublishRawFails, Kept
  <2> QED  BY <1>3, <1>7, <2>1, Zenon DEF PublishRawFails, Op, Counted
<1>8. CASE Ack(c)
  BY <1>3, <1>8, Zenon DEF Ack, Op, Counted
<1> QED  BY <1>2, <1>4, <1>5, <1>6, <1>7, <1>8, Zenon DEF ConsumerStep

\* One step per action.
LEMMA InvIsKept ==
  ASSUME ConsumerInv, [Next]_vars
  PROVE  ConsumerInv'
<1> DEFINE Done == (\A i \in Copies : CopyInv(i)') /\ \A d \in Consumers : OfConsumer(d)'
<1>1. TypeOK /\ TypeOK' /\ Kept
  BY TypeStep, Zenon DEF ConsumerInv
<1>2. \A m \in Messages : Born(m)' /\ message'[m] = m
  <2>1. Messages \subseteq Copies
    BY ConsumerAssumption DEF Messages, Copies
  <2> QED  BY <1>1, <2>1, Zenon DEF ConsumerInv, Kept
<1>3. ASSUME NEW i \in Copies, BackoffExpires(i)  PROVE Done
  <2>1. place[i] = "waiting" /\ place' = [place EXCEPT ![i] = "ready"] /\ UNCHANGED consumerVars
    BY <1>3, Zenon DEF BackoffExpires
  <2>2. CopyInv(i)'
    <3>1. place'[i] = "ready" /\ attempts'[i] < MaxAttempts
      BY <1>1, <1>3, <2>1, Zenon DEF BackoffExpires, TypeOK, ConsumerInv, CopyInv
    <3> QED  BY <3>1, Zenon DEF CopyInv
  <2>3. ASSUME NEW j \in Copies, j # i  PROVE CopyInv(j)'
    <3>1. place'[j] = place[j]
      BY <1>1, <2>1, <2>3, Zenon DEF TypeOK
    <3> QED  BY <1>1, <3>1, CopyKept, UnbornKept, Zenon DEF Born
  <2>4. \A d \in Consumers : OfConsumer(d)'
    BY <1>1, <2>1, ConsumerKept, Zenon DEF consumerVars
  <2> QED  BY <2>2, <2>3, <2>4, Zenon
<1>4. ASSUME NEW c \in Consumers, NEW i \in Copies, Deliver(c, i)  PROVE Done
  <2>1. /\ place[i] = "ready" /\ place' = [place EXCEPT ![i] = c]
        /\ buffer' = [buffer EXCEPT ![c] = Append(buffer[c], i)]
        /\ UNCHANGED <<message, attempts, open, hand, stage, wire>>
    BY <1>4, Zenon DEF Deliver
  <2>2. place'[i] = c /\ \A j \in Copies \ {i} : place'[j] = place[j]
    BY <1>1, <2>1, Zenon DEF TypeOK
  <2>3. CopyInv(i)' /\ InPlay(i)'
    <3>1. attempts'[i] < MaxAttempts
      BY <1>1, <2>1, Zenon DEF TypeOK, ConsumerInv, CopyInv
    <3> QED  BY <2>2, <3>1, ConsumerAssumption, Zenon DEF CopyInv, InPlay, Born
  <2>4. ASSUME NEW j \in Copies, j # i  PROVE CopyInv(j)'
    BY <1>1, <2>2, <2>4, CopyKept, UnbornKept, Zenon DEF Born
  <2>5. buffer'[c] = Append(buffer[c], i) /\ \A d \in Consumers \ {c} : buffer'[d] = buffer[d]
    BY <1>1, <2>1, Zenon DEF TypeOK
  <2>6. BufferInv(c)'
    <3>1. /\ Len(buffer[c]) \in Nat /\ Len(buffer'[c]) = Len(buffer[c]) + 1
          /\ buffer'[c][Len(buffer[c]) + 1] = i
          /\ \A k \in 1..Len(buffer[c]) : buffer'[c][k] = buffer[c][k]
      <4>1. buffer[c] \in Seq(Copies)
        BY <1>1, Zenon DEF TypeOK
      <4> QED  BY <2>5, <4>1, AppendElements
    <3>2. ASSUME NEW k \in 1..Len(buffer[c])  PROVE InPlay(buffer[c][k])'
      <4>1. PICK j \in Copies : j = buffer[c][k] /\ InPlay(j) /\ Born(j)
        <5>1. buffer[c] \in Seq(Copies)
          BY <1>1, Zenon DEF TypeOK
        <5>2. buffer[c][k] \in Copies
          BY <5>1, ElementOfSequence, Zenon
        <5> QED  BY <5>2, Zenon DEF ConsumerInv, BufferInv, InPlay
      <4>2. InPlay(j)' /\ buffer'[c][k] = j
        BY <1>1, <3>1, <4>1, FactsStay, Zenon
      <4> QED  BY <4>2, Zenon DEF InPlay, Born
    <3>3. ASSUME NEW k \in 1..Len(buffer'[c])  PROVE InPlay(buffer[c][k])'
      <4>1. k \in 1..Len(buffer[c]) \/ k = Len(buffer[c]) + 1
        BY <3>1
      <4>2. CASE k = Len(buffer[c]) + 1
        BY <2>3, <3>1, <4>2, Zenon DEF InPlay, Born
      <4> QED  BY <3>2, <4>1, <4>2, Zenon
    <3> QED  BY <3>3, Zenon DEF BufferInv
  <2>7. OfConsumer(c)'
    BY <1>1, <2>1, <2>6, HandKept, WireKept, Zenon DEF OfConsumer
  <2> QED  BY <1>1, <2>1, <2>3, <2>4, <2>5, <2>7, OthersKept, Zenon
<1>5. ASSUME NEW c \in Consumers, HandleFrame(c)  PROVE Done
  BY <1>1, <1>5, HandleFrameStep, Zenon
<1>6. ASSUME NEW c \in Consumers, ConsumerStep(c)  PROVE Done
  <2>1. place' = place
    BY <1>6, Zenon DEF ConsumerStep, Take, HandlerSucceeds, HandlerFails, PublishRaw, PublishRawFails, Ack,
                copyVars
  <2> QED  BY <1>1, <1>6, <2>1, ConsumerStepKeeps, CopiesKept, Zenon
\* A consumer whose channel is gone, and the frames with it.
<1>7. ASSUME NEW c \in Consumers, \A i \in Copies : CopyInv(i)', BufferInv(c)', HandInv(c)', WireInv(c)',
             \A d \in Consumers \ {c} : /\ buffer'[d] = buffer[d] /\ hand'[d] = hand[d]
                                        /\ stage'[d] = stage[d] /\ open'[d] = open[d]
                                        /\ wire'[d] = wire[d]
      PROVE  Done
  BY <1>1, <1>7, OthersKept, Zenon DEF OfConsumer
<1>8. ASSUME NEW c \in Consumers, stop(c)  PROVE Done
  <2>1. place' = place /\ buffer' = [buffer EXCEPT ![c] = <<>>] /\ UNCHANGED <<open, hand, stage, wire>>
    BY <1>8, Zenon DEF stop, copyVars
  <2>2. buffer'[c] = <<>> /\ \A d \in Consumers \ {c} : buffer'[d] = buffer[d]
    BY <1>1, <2>1, Zenon DEF TypeOK
  <2>3. BufferInv(c)'
    BY <2>2 DEF BufferInv
  <2> QED  BY <1>1, <1>7, <2>1, <2>2, <2>3, HandKept, WireKept, CopiesKept, Zenon
<1>9. ASSUME NEW c \in Consumers, Close(c)  PROVE Done
  <2>1. /\ Requeue(c) /\ open' = [open EXCEPT ![c] = FALSE]
        /\ UNCHANGED <<message, attempts, buffer, hand, stage, wire>>
    BY <1>9, Zenon DEF Close
  <2>2. ~open'[c] /\ \A d \in Consumers \ {c} : open'[d] = open[d]
    BY <1>1, <2>1, Zenon DEF TypeOK
  <2> QED  BY <1>1, <1>7, <2>1, <2>2, BufferKept, HandKept, WireKept, RequeueKeeps, Zenon
<1>10. ASSUME NEW c \in Consumers, ChannelLost(c)  PROVE Done
  <2>1. /\ Requeue(c) /\ open' = [open EXCEPT ![c] = FALSE] /\ wire' = [wire EXCEPT ![c] = <<>>]
        /\ UNCHANGED <<message, attempts, hand, stage>>
    BY <1>10, Zenon DEF ChannelLost
  <2>2. PICK n \in 0..Len(buffer[c]) : buffer' = [buffer EXCEPT ![c] = SubSeq(buffer[c], 1, n)]
    BY <1>10, Zenon DEF ChannelLost
  <2>3. /\ ~open'[c] /\ wire'[c] = <<>> /\ buffer'[c] = SubSeq(buffer[c], 1, n)
        /\ \A d \in Consumers \ {c} :
             open'[d] = open[d] /\ wire'[d] = wire[d] /\ buffer'[d] = buffer[d]
    BY <1>1, <2>1, <2>2, Zenon DEF TypeOK
  <2>4. BufferInv(c)'
    <3>1. \A k \in 1..Len(buffer'[c]) : k \in 1..Len(buffer[c]) /\ buffer'[c][k] = buffer[c][k]
      <4>1. buffer[c] \in Seq(Copies)
        BY <1>1, Zenon DEF TypeOK
      <4>2. Len(buffer'[c]) = n
        BY <2>3, <4>1, PrefixElements
      <4>3. \A k \in 1..n : SubSeq(buffer[c], 1, n)[k] = buffer[c][k] /\ k \in 1..Len(buffer[c])
        BY <4>1, PrefixElements, Zenon
      <4> QED  BY <2>3, <4>2, <4>3, Zenon
    <3> QED  BY <1>1, <3>1, BufferKept, Zenon
  <2>5. WireInv(c)'
    BY <2>3 DEF WireInv
  <2> QED  BY <1>1, <1>7, <2>1, <2>3, <2>4, <2>5, HandKept, RequeueKeeps, Zenon
<1>11. ASSUME NEW c \in Consumers, Crash(c)  PROVE Done
  <2>1. /\ Requeue(c) /\ open' = [open EXCEPT ![c] = FALSE] /\ wire' = [wire EXCEPT ![c] = <<>>]
        /\ buffer' = [buffer EXCEPT ![c] = <<>>] /\ hand' = [hand EXCEPT ![c] = None]
        /\ stage' = [stage EXCEPT ![c] = "idle"]
        /\ UNCHANGED <<message, attempts>>
    BY <1>11, Zenon DEF Crash, Finish
  <2>2. /\ stage'[c] = "idle" /\ wire'[c] = <<>> /\ buffer'[c] = <<>>
        /\ \A d \in Consumers \ {c} :
             /\ open'[d] = open[d] /\ wire'[d] = wire[d] /\ buffer'[d] = buffer[d]
             /\ hand'[d] = hand[d] /\ stage'[d] = stage[d]
    BY <1>1, <2>1, Zenon DEF TypeOK
  <2>3. BufferInv(c)' /\ WireInv(c)' /\ HandInv(c)'
    BY <2>2 DEF BufferInv, WireInv, HandInv
  <2> QED  BY <1>1, <1>7, <2>1, <2>2, <2>3, RequeueKeeps, Zenon
<1>12. ASSUME NEW c \in Consumers, NewConsumer(c)  PROVE Done
  <2>1. /\ stage[c] = "idle" /\ open' = [open EXCEPT ![c] = TRUE] /\ place' = place
        /\ UNCHANGED <<buffer, hand, stage, wire>>
    BY <1>12, Zenon DEF NewConsumer, copyVars
  <2>2. \A d \in Consumers \ {c} : open'[d] = open[d]
    BY <1>1, <2>1, Zenon DEF TypeOK
  <2>3. HandInv(c)'
    BY <2>1, Zenon DEF HandInv
  <2> QED  BY <1>1, <1>7, <2>1, <2>2, <2>3, BufferKept, WireKept, CopiesKept, Zenon
<1>13. ASSUME UNCHANGED vars  PROVE Done
  <2>1. place' = place /\ UNCHANGED consumerVars
    BY <1>13, Zenon DEF vars, copyVars
  <2>2. \A d \in Consumers : OfConsumer(d)'
    BY <1>1, <2>1, ConsumerKept, Zenon DEF consumerVars
  <2>3. \A i \in Copies : CopyInv(i)'
    BY <1>1, <2>1, CopiesKept, Zenon
  <2> QED  BY <2>2, <2>3, Zenon
<1> HIDE DEF Done
<1>14. Done
  BY <1>3, <1>4, <1>5, <1>6, <1>8, <1>9, <1>10, <1>11, <1>12, <1>13, Zenon DEF Next
<1> QED  BY <1>1, <1>2, <1>14, Zenon DEF ConsumerInv, OfConsumer, Done

LEMMA InvHoldsAtFirst == Init => ConsumerInv
<1> SUFFICES ASSUME Init  PROVE ConsumerInv
  BY Zenon
<1>1. TypeOK
  <2>1. 1 \in Messages /\ Messages \subseteq Copies /\ 0 \in 0..MaxAttempts /\ 0 \in 0..MaxInterrupts
    BY ConsumerAssumption DEF Messages, Copies
  <2>2. place \in [Copies -> Place] /\ message \in [Copies -> Messages]
    BY <2>1, Zenon DEF Init, Place
  <2>3. attempts \in [Copies -> 0..MaxAttempts] /\ interrupts \in 0..MaxInterrupts
    BY <2>1, Zenon DEF Init
  <2>4. buffer \in [Consumers -> Seq(Copies)] /\ wire \in [Consumers -> Seq([op : Op, copy : Copies])]
    BY DEF Init
  <2>5. hand \in [Consumers -> Copies \cup {None}] /\ stage \in [Consumers -> Stage]
    BY Zenon DEF Init, Stage
  <2>6. open \in [Consumers -> BOOLEAN] /\ consuming \in [Consumers -> BOOLEAN]
    BY Zenon DEF Init
  <2>7. runs \in [Messages -> Nat] /\ returned \in [Messages -> Nat]
    BY Zenon DEF Init
  <2>8. handled \in SUBSET Messages /\ refused \in SUBSET Messages
    BY Zenon DEF Init
  <2> QED  BY <2>2, <2>3, <2>4, <2>5, <2>6, <2>7, <2>8, Zenon DEF TypeOK
<1>2. \A m \in Messages : Born(m) /\ message[m] = m
  BY ConsumerAssumption DEF Init, Messages, Copies, Born
<1>3. ASSUME NEW i \in Copies  PROVE CopyInv(i)
  <2>1. place[i] \in {"ready", "unborn"} /\ attempts[i] = 0
    BY Zenon DEF Init
  <2> QED  BY <2>1, ConsumerAssumption DEF CopyInv
<1>4. ASSUME NEW c \in Consumers  PROVE BufferInv(c) /\ HandInv(c) /\ WireInv(c)
  <2>1. buffer[c] = <<>> /\ wire[c] = <<>> /\ stage[c] = "idle"
    BY Zenon DEF Init
  <2> QED  BY <2>1 DEF BufferInv, HandInv, WireInv
<1> QED  BY <1>1, <1>2, <1>3, <1>4, Zenon DEF ConsumerInv

LEMMA InvHolds == SafetySpec => []ConsumerInv
<1>1. ConsumerInv /\ [Next]_vars => ConsumerInv'
  BY InvIsKept, Zenon
<1> QED  BY <1>1, InvHoldsAtFirst, PTL DEF SafetySpec

\* In a set of copies some has made as many attempts as any other.
LEMMA MostAttempts ==
  ASSUME TypeOK, NEW S \in SUBSET Copies, S # {}
  PROVE  \E i \in S : \A j \in S : attempts[j] <= attempts[i]
<1> DEFINE T == {MaxAttempts - attempts[i] : i \in S}
<1>1. \A i \in S : attempts[i] \in 0..MaxAttempts
  BY Zenon DEF TypeOK
<1>2. T \subseteq Nat /\ T # {}
  BY <1>1, ConsumerAssumption
<1>3. PICK x \in T : \A y \in T : ~(<<y, x>> \in OpToRel(<, Nat))
  BY <1>2, NatLessThanWellFounded, WFMin, Zenon
<1>4. PICK i \in S : x = MaxAttempts - attempts[i]
  BY Zenon
<1>5. ASSUME NEW j \in S  PROVE attempts[j] <= attempts[i]
  <2>1. MaxAttempts - attempts[j] \in Nat /\ x \in Nat
    BY <1>2, Zenon
  <2>2. ~(MaxAttempts - attempts[j] < x)
    BY <1>3, <2>1, Zenon DEF OpToRel
  <2>3. attempts[j] \in Nat /\ attempts[i] \in Nat /\ MaxAttempts \in Nat
    BY <1>1, ConsumerAssumption
  <2> QED  BY <1>4, <2>2, <2>3
<1> QED  BY <1>5, Zenon

\* handle publishes the copy for the retry or the dead-letter queue (publishRaw) before it
\* acknowledges the original: whatever is lost or crashes in between, a message is handled
\* or some copy of it is still in a queue or with a consumer.
THEOREM NothingIsLost == SafetySpec => []NoMessageLost
<1>1. ConsumerInv => NoMessageLost
  <2> SUFFICES ASSUME ConsumerInv, NEW m \in Messages, m \notin handled, Live(m) = {}
               PROVE  FALSE
    BY Zenon DEF NoMessageLost
  <2> DEFINE S == {i \in Copies : Born(i) /\ message[i] = m}
  <2>1. TypeOK /\ m \in S
    BY ConsumerAssumption DEF ConsumerInv, Messages, Copies
  <2>2. PICK i \in S : \A j \in S : attempts[j] <= attempts[i]
    BY <2>1, MostAttempts, Zenon
  <2>3. place[i] = "gone" /\ Succeeded(i)
    BY Zenon DEF Live, Born, ConsumerInv, CopyInv
  <2>4. PICK j \in S : attempts[j] > attempts[i]
    BY <2>3, Zenon DEF Succeeded
  <2>5. attempts[j] \in Nat /\ attempts[i] \in Nat /\ attempts[j] <= attempts[i]
    BY <2>1, <2>2 DEF TypeOK
  <2> QED  BY <2>4, <2>5
<1> QED  BY <1>1, InvHolds, PTL

\* decide and publishRaw: a dead letter has made its MaxAttempts attempts, or it was
\* rejected because its own publication failed.
THEOREM OnlyTheExhaustedAreDead == SafetySpec => []DeadLettersAreExhausted
<1>1. ConsumerInv => DeadLettersAreExhausted
  BY Zenon DEF ConsumerInv, CopyInv, DeadLettersAreExhausted
<1> QED  BY <1>1, InvHolds, PTL
=============================================================================
