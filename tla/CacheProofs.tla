---------------------------- MODULE CacheProofs ----------------------------
(***************************************************************************)
(* Proofs about the cache, for any number of clients, releases, items and  *)
(* versions, any batch size and any walk of SCAN.                          *)
(*                                                                         *)
(* The first half is about the text of the keys: versioned keys of         *)
(* different items or versions differ, and a key has the prefix of an item *)
(* exactly when it is one of that item's.  The second half is the          *)
(* inductive invariant: what is stored under a key, what a reader holds,   *)
(* and where on its walk a sweep still has keys to delete.                 *)
(***************************************************************************)
EXTENDS Cache, SequenceTheorems, FiniteSetTheorems, TLAPS

\* A version in use is one the item can have.
Types ==
  /\ current \in [Items -> Nat] /\ \A item \in Items : current[item] \in VersionsOf(item)
  /\ store = [key \in Keys |-> store[key]]
  /\ client = [c \in Clients |-> client[c]]
  /\ doomed = [c \in Clients |-> doomed[c]]

\* Under the key of a version is that item, as it was then or later.
StoreInv ==
  \A item \in Items : \A v \in VersionsOf(item) :
    LET entry == store[Versioned(item, v)]
    IN  entry # Nothing => entry.item = item /\ entry.version >= v

\* A reader asks for a version that was published, and gets that one or a later one.
ReaderInv(c) ==
  LET state == client[c]
  IN  /\ state.at \in {"missed", "poisoned", "hit"} =>
           /\ state.item \in Items /\ state.version \in VersionsOf(state.item)
           /\ state.version <= current[state.item]
      /\ state.at = "poisoned" =>
           state = [at |-> "poisoned", item |-> state.item, version |-> state.version]
      /\ state.at = "hit" =>
           /\ state.got.item = state.item /\ state.got.version >= state.version
           /\ state.got.release = Release[c]

\* Where on the walk the keys are that a sweep has yet to delete.
Left(c) == {b \in 1..Len(Buckets) : Buckets[b] \in doomed[c] \cap Present}

\* They are ahead of the cursor, or in the batch that goes next.
SweepInv(c) ==
  LET state == client[c]
  IN  /\ state.at \in {"scan", "delete", "swept"} =>
           state.item \in Items /\ doomed[c] \subseteq KeysOf(state.item)
      /\ state.at = "scan" => state.cursor \in Nat /\ \A b \in Left(c) : b > state.cursor
      /\ state.at = "delete" =>
           /\ state.keys \subseteq KeysOf(state.item) /\ state.next \in Nat
           /\ \A b \in Left(c) : Buckets[b] \in state.keys \/ (state.next # 0 /\ b > state.next)
      /\ state.at = "swept" => Left(c) = {}

CacheInv ==
  Types /\ StoreInv /\ \A c \in Clients : ReaderInv(c) /\ SweepInv(c)

-----------------------------------------------------------------------------
(* Keys.                                                                   *)

\* A text, with separators or without.  The provers do not know that ":" and "v" are
\* strings.
Letters == STRING \cup {":", "v"}
Texts   == Seq(Letters)

LEMMA SegmentsAreTexts ==
  ASSUME NEW a \in Segments
  PROVE  a \in Texts /\ Len(a) \in Nat /\ \A i \in 1..Len(a) : a[i] # ":"
BY DEF Segments, Texts, Letters

LEMMA TextsConcat ==
  ASSUME NEW s \in Texts, NEW t \in Texts
  PROVE  /\ s \o t \in Texts /\ Len(s) \in Nat /\ Len(t) \in Nat /\ Len(s \o t) = Len(s) + Len(t)
         /\ \A i \in 1..Len(s) : (s \o t)[i] = s[i]
         /\ \A i \in 1..Len(t) : (s \o t)[Len(s) + i] = t[i]
<1>1. /\ s \o t \in Seq(Letters) /\ Len(s \o t) = Len(s) + Len(t)
      /\ \A i \in 1..Len(s) + Len(t) : (s \o t)[i] = IF i <= Len(s) THEN s[i] ELSE t[i - Len(s)]
  BY ConcatProperties DEF Texts
<1>2. Len(s) \in Nat /\ Len(t) \in Nat
  BY DEF Texts
<1> DEFINE u == s \o t
<1> HIDE DEF u
<1>3. \A i \in 1..Len(s) + Len(t) : u[i] = IF i <= Len(s) THEN s[i] ELSE t[i - Len(s)]
  BY <1>1, Zenon DEF u
<1>4. \A i \in 1..Len(s) : u[i] = s[i]
  BY <1>2, <1>3
<1>5. \A i \in 1..Len(t) : u[Len(s) + i] = t[i]
  <2> SUFFICES ASSUME NEW i \in 1..Len(t)  PROVE u[Len(s) + i] = t[i]
    BY Zenon
  <2>1. Len(s) + i \in 1..Len(s) + Len(t) /\ ~(Len(s) + i <= Len(s)) /\ (Len(s) + i) - Len(s) = i
    BY <1>2
  <2> QED  BY <1>3, <2>1, Zenon
<1> QED  BY <1>1, <1>2, <1>4, <1>5, Zenon DEF Texts, u

LEMMA KeyProperties ==
  ASSUME NEW a \in Texts, NEW x \in Texts
  PROVE  /\ Key(a, x) \in Texts /\ Len(Key(a, x)) = Len(a) + 1 + Len(x)
         /\ \A i \in 1..Len(a) : Key(a, x)[i] = a[i]
         /\ Key(a, x)[Len(a) + 1] = ":"
         /\ \A i \in 1..Len(x) : Key(a, x)[Len(a) + 1 + i] = x[i]
<1> DEFINE u == a \o Separator
<1>1. Separator \in Texts /\ Len(Separator) = 1 /\ Separator[1] = ":"
  BY DEF Separator, Letters, Texts
<1>2. /\ u \in Texts /\ Len(a) \in Nat /\ Len(u) = Len(a) + Len(Separator)
      /\ \A i \in 1..Len(a) : u[i] = a[i]
      /\ \A i \in 1..Len(Separator) : u[Len(a) + i] = Separator[i]
  BY <1>1, TextsConcat, Zenon
<1> HIDE DEF u
<1>3. /\ u \o x \in Texts /\ Len(u \o x) = Len(u) + Len(x)
      /\ \A i \in 1..Len(u) : (u \o x)[i] = u[i]
      /\ \A i \in 1..Len(x) : (u \o x)[Len(u) + i] = x[i]
  BY <1>2, TextsConcat, Zenon
<1> DEFINE k == Key(a, x)
<1>4. k = u \o x
  BY Zenon DEF Key, u
<1> HIDE DEF k
<1>5. Len(u) = Len(a) + 1 /\ 1 \in 1..Len(Separator)
  BY <1>1, <1>2
<1>6. /\ k \in Texts /\ Len(k) = Len(a) + 1 + Len(x)
      /\ \A i \in 1..Len(a) + 1 : k[i] = u[i]
      /\ \A i \in 1..Len(x) : k[Len(a) + 1 + i] = x[i]
  BY <1>3, <1>4, <1>5, Zenon
<1>7. (\A i \in 1..Len(a) : i \in 1..Len(a) + 1) /\ Len(a) + 1 \in 1..Len(a) + 1
  BY <1>2
<1>8. u[Len(a) + 1] = ":"
  BY <1>1, <1>2, <1>5, Zenon
<1> QED  BY <1>2, <1>6, <1>7, <1>8, Zenon DEF k

\* The first separator of a key ends its first segment.
LEMMA KeySplits ==
  ASSUME NEW a \in Segments, NEW b \in Segments, NEW x \in Texts, NEW y \in Texts,
         Key(a, x) = Key(b, y)
  PROVE  a = b /\ x = y
<1> DEFINE k == Key(a, x)
<1>1. /\ a \in Texts /\ b \in Texts /\ Len(a) \in Nat /\ Len(b) \in Nat
      /\ \A i \in 1..Len(a) : a[i] # ":"
      /\ \A i \in 1..Len(b) : b[i] # ":"
  BY SegmentsAreTexts
<1>2. /\ Len(k) = Len(a) + 1 + Len(x)
      /\ \A i \in 1..Len(a) : k[i] = a[i]
      /\ k[Len(a) + 1] = ":"
      /\ \A i \in 1..Len(x) : k[Len(a) + 1 + i] = x[i]
  BY <1>1, KeyProperties, Zenon
<1>3. /\ Len(k) = Len(b) + 1 + Len(y)
      /\ \A i \in 1..Len(b) : k[i] = b[i]
      /\ k[Len(b) + 1] = ":"
      /\ \A i \in 1..Len(y) : k[Len(b) + 1 + i] = y[i]
  <2> DEFINE l == Key(b, y)
  <2>1. /\ Len(l) = Len(b) + 1 + Len(y)
        /\ \A i \in 1..Len(b) : l[i] = b[i]
        /\ l[Len(b) + 1] = ":"
        /\ \A i \in 1..Len(y) : l[Len(b) + 1 + i] = y[i]
    BY <1>1, KeyProperties, Zenon
  <2>2. k = l
    BY Zenon
  <2> HIDE DEF k, l
  <2> QED  BY <2>1, <2>2, Zenon
<1> HIDE DEF k
<1>4. Len(x) \in Nat /\ Len(y) \in Nat
  BY DEF Texts
<1>5. Len(a) = Len(b)
  <2>1. ~(Len(a) < Len(b))
    <3> SUFFICES ASSUME Len(a) < Len(b)  PROVE FALSE
      BY Zenon
    <3>1. Len(a) + 1 \in 1..Len(b)
      BY <1>1
    <3> QED  BY <1>1, <1>2, <1>3, <3>1, Zenon
  <2>2. ~(Len(b) < Len(a))
    <3> SUFFICES ASSUME Len(b) < Len(a)  PROVE FALSE
      BY Zenon
    <3>1. Len(b) + 1 \in 1..Len(a)
      BY <1>1
    <3> QED  BY <1>1, <1>2, <1>3, <3>1, Zenon
  <2> QED  BY <1>1, <2>1, <2>2
<1>6. Len(x) = Len(y)
  BY <1>1, <1>2, <1>3, <1>4, <1>5
<1>7. \A i \in 1..Len(a) : a[i] = b[i]
  BY <1>2, <1>3, <1>5, Zenon
<1>8. \A i \in 1..Len(x) : x[i] = y[i]
  BY <1>2, <1>3, <1>5, <1>6, Zenon
<1>9. a = b
  BY <1>1, <1>5, <1>7, SeqEqual DEF Texts
<1>10. x = y
  BY <1>6, <1>8, SeqEqual DEF Texts
<1> QED  BY <1>9, <1>10

\* A SCAN that matches a prefix.
LEMMA PrefixMeansConcat ==
  ASSUME NEW s \in Texts, NEW t \in Texts
  PROVE  HasPrefix(t, s) <=> \E y \in Texts : t = s \o y
<1>1. Len(s) \in Nat /\ Len(t) \in Nat
  BY DEF Texts
<1>2. ASSUME HasPrefix(t, s)  PROVE \E y \in Texts : t = s \o y
  <2> DEFINE y == SubSeq(t, Len(s) + 1, Len(t))
  <2>1. Len(s) <= Len(t) /\ SubSeq(t, 1, Len(s)) = s
    BY <1>2, Zenon DEF HasPrefix
  <2>2. SubSeq(t, 1, Len(t)) = t
    BY SubSeqFull DEF Texts
  <2>3. SubSeq(t, 1, Len(s)) \o y = SubSeq(t, 1, Len(t))
    <3>1. 1 \in 1..Len(t) + 1 /\ Len(s) \in 1 - 1..Len(t) /\ Len(t) \in Len(s)..Len(t)
      BY <1>1, <2>1
    <3> QED  BY <3>1, ConcatAdjacentSubSeq, Zenon DEF Texts
  <2>4. y \in Texts
    BY <1>1, <2>1 DEF Texts
  <2> QED  BY <2>1, <2>2, <2>3, <2>4, Zenon
<1>3. ASSUME NEW y \in Texts, t = s \o y  PROVE HasPrefix(t, s)
  <2>1. Len(t) = Len(s) + Len(y) /\ Len(y) \in Nat /\ \A i \in 1..Len(s) : t[i] = s[i]
    <3> DEFINE u == s \o y
    <3>1. Len(u) = Len(s) + Len(y) /\ Len(y) \in Nat /\ \A i \in 1..Len(s) : u[i] = s[i]
      BY TextsConcat, Zenon
    <3>2. t = u
      BY <1>3, Zenon
    <3> HIDE DEF u
    <3> QED  BY <3>1, <3>2, Zenon
  <2>2. Len(s) <= Len(t)
    BY <1>1, <2>1
  <2>3. SubSeq(s, 1, Len(s)) = SubSeq(t, 1, Len(s))
    BY <1>1, <2>1, <2>2 DEF Texts
  <2>4. SubSeq(s, 1, Len(s)) = s
    BY SubSeqFull DEF Texts
  <2> QED  BY <2>2, <2>3, <2>4, Zenon DEF HasPrefix
<1> QED  BY <1>2, <1>3, Zenon

LEMMA ItemTexts ==
  ASSUME NEW item \in Items
  PROVE  /\ item.service \in Segments /\ item.entity \in Segments /\ item.id \in Segments
         /\ item.service \in Texts /\ item.entity \in Texts /\ item.id \in Texts
         /\ item = [service |-> item.service, entity |-> item.entity, id |-> item.id]
<1>1. /\ item.service \in Segments /\ item.entity \in Segments /\ item.id \in Segments
      /\ item = [service |-> item.service, entity |-> item.entity, id |-> item.id]
  BY TextAssumption
<1> QED  BY <1>1, SegmentsAreTexts, Zenon

LEMMA VersionTexts ==
  ASSUME NEW item \in Items, NEW v \in VersionsOf(item)
  PROVE  v \in 1..MaxVersion /\ <<"v">> \o Itoa[v] \in Texts
<1>1. v \in 1..MaxVersion
  BY CacheAssumption DEF VersionsOf
<1>2. Itoa[v] \in Texts
  BY <1>1, TextAssumption, SegmentsAreTexts, Zenon
<1>3. <<"v">> \in Texts
  BY DEF Texts, Letters
<1> QED  BY <1>1, <1>2, <1>3, TextsConcat, Zenon

\* A text under an item: its segments, and what follows them.
Under(item, x) == Key(item.service, Key(item.entity, Key(item.id, x)))

LEMMA UnderIsText ==
  ASSUME NEW item \in Items, NEW x \in Texts
  PROVE  Under(item, x) \in Texts
<1> DEFINE x3 == Key(item.id, x)
           x2 == Key(item.entity, x3)
<1>1. item.service \in Texts /\ item.entity \in Texts /\ item.id \in Texts
  BY ItemTexts, Zenon
<1>2. x3 \in Texts
  BY <1>1, KeyProperties, Zenon
<1>3. x2 \in Texts
  <2> HIDE DEF x3
  <2> QED  BY <1>1, <1>2, KeyProperties, Zenon
<1>4. Key(item.service, x2) \in Texts
  <2> HIDE DEF x2
  <2> QED  BY <1>1, <1>3, KeyProperties, Zenon
<1> QED  BY <1>4, Zenon DEF Under

\* An item and what follows it can be read off the text.
LEMMA UnderIsInjective ==
  ASSUME NEW i \in Items, NEW j \in Items, NEW x \in Texts, NEW y \in Texts,
         Under(i, x) = Under(j, y)
  PROVE  i = j /\ x = y
<1> DEFINE a1 == i.service
           a2 == i.entity
           a3 == i.id
           b1 == j.service
           b2 == j.entity
           b3 == j.id
           x3 == Key(a3, x)
           y3 == Key(b3, y)
           x2 == Key(a2, x3)
           y2 == Key(b2, y3)
<1>1. /\ a1 \in Segments /\ a2 \in Segments /\ a3 \in Segments
      /\ b1 \in Segments /\ b2 \in Segments /\ b3 \in Segments
      /\ a2 \in Texts /\ a3 \in Texts /\ b2 \in Texts /\ b3 \in Texts
  BY ItemTexts, Zenon
<1>2. Key(a1, x2) = Key(b1, y2)
  BY Zenon DEF Under
<1>3. i = j <=> (a1 = b1 /\ a2 = b2 /\ a3 = b3)
  BY ItemTexts, Zenon
<1> HIDE DEF a1, a2, a3, b1, b2, b3
<1>4. x3 \in Texts /\ y3 \in Texts
  BY <1>1, KeyProperties, Zenon
<1>5. x2 \in Texts /\ y2 \in Texts
  <2> HIDE DEF x3, y3
  <2> QED  BY <1>1, <1>4, KeyProperties, Zenon
<1>6. a1 = b1 /\ x2 = y2
  <2> HIDE DEF x2, y2
  <2> QED  BY <1>1, <1>2, <1>5, KeySplits
<1>7. a2 = b2 /\ x3 = y3
  <2>1. Key(a2, x3) = Key(b2, y3)
    BY <1>6, Zenon
  <2> HIDE DEF x3, y3
  <2> QED  BY <1>1, <1>4, <2>1, KeySplits
<1>8. a3 = b3 /\ x = y
  <2>1. Key(a3, x) = Key(b3, y)
    BY <1>7, Zenon
  <2> QED  BY <1>1, <2>1, KeySplits
<1> QED  BY <1>3, <1>6, <1>7, <1>8, Zenon

\* Two keys are the same only for one version of one item.
LEMMA VersionedIsInjective ==
  ASSUME NEW i \in Items, NEW v \in VersionsOf(i), NEW j \in Items, NEW w \in VersionsOf(j),
         Versioned(i, v) = Versioned(j, w)
  PROVE  i = j /\ v = w
<1> DEFINE dv == <<"v">> \o Itoa[v]
           dw == <<"v">> \o Itoa[w]
<1>1. /\ v \in 1..MaxVersion /\ w \in 1..MaxVersion /\ dv \in Texts /\ dw \in Texts
  BY VersionTexts, Zenon
<1>2. dv = dw => v = w
  <2> SUFFICES ASSUME dv = dw  PROVE v = w
    BY Zenon
  <2>1. Itoa[v] \in Texts /\ Itoa[w] \in Texts /\ <<"v">> \in Texts
    BY <1>1, TextAssumption, SegmentsAreTexts DEF Texts, Letters
  <2>2. Itoa[v] = Itoa[w]
    BY <2>1, ConcatSimplifications DEF Texts
  <2> QED  BY <1>1, <2>2, TextAssumption, Zenon
<1>3. Under(i, dv) = Under(j, dw)
  BY Zenon DEF Versioned, Under
<1> HIDE DEF dv, dw
<1> QED  BY <1>1, <1>2, <1>3, UnderIsInjective

LEMMA TextsAssociate ==
  ASSUME NEW s \in Texts, NEW t \in Texts, NEW u \in Texts
  PROVE  (s \o t) \o u = s \o (t \o u)
BY ConcatAssociative DEF Texts

LEMMA KeyConcat ==
  ASSUME NEW a \in Texts, NEW x \in Texts, NEW y \in Texts
  PROVE  Key(a, x) \o y = Key(a, x \o y)
<1> DEFINE u == a \o Separator
<1>1. Separator \in Texts
  BY DEF Separator, Letters, Texts
<1>2. u \in Texts
  BY <1>1, TextsConcat, Zenon
<1> HIDE DEF u
<1>3. (u \o x) \o y = u \o (x \o y)
  BY <1>2, TextsAssociate, Zenon
<1> QED  BY <1>3, Zenon DEF Key, u

\* What follows a key follows its last segment; named, for the provers to
\* find the instance they need.
Follows(a, x, y) == Key(a, x) \o y = Key(a, x \o y)
FollowsTwo(s, e, d, z) ==
  Key(s, Key(e, d)) \in Texts /\ Key(s, Key(e, d)) \o z = Key(s, Key(e, d \o z))

LEMMA KeysConcat == \A s, e, d, z \in Texts : FollowsTwo(s, e, d, z)
<1>1. \A a, x, y \in Texts : Follows(a, x, y)
  BY KeyConcat, Zenon DEF Follows
<1> SUFFICES ASSUME NEW s \in Texts, NEW e \in Texts, NEW d \in Texts, NEW z \in Texts
             PROVE  FollowsTwo(s, e, d, z)
  BY Zenon
<1> DEFINE f == Key(e, d)
<1>2. f \in Texts
  BY KeyProperties, Zenon
<1> HIDE DEF f
<1>3. Follows(e, d, z) /\ Follows(s, f, z)
  BY <1>1, <1>2, Zenon
<1>4. Key(s, f) \in Texts
  BY <1>2, KeyProperties, Zenon
<1> QED  BY <1>3, <1>4, Zenon DEF Follows, FollowsTwo, f

\* Where the separator is put does not matter: k ends in a segment.
LEMMA SeparatorMoves ==
  ASSUME NEW k \in Texts, NEW y \in Texts
  PROVE  k \o Separator \in Texts /\ Separator \o y \in Texts
         /\ (k \o Separator) \o y = k \o (Separator \o y)
<1> DEFINE u == Separator
<1>1. u \in Texts
  BY DEF Separator, Letters, Texts
<1> HIDE DEF u
<1>2. k \o u \in Texts /\ u \o y \in Texts
  BY <1>1, TextsConcat, Zenon
<1>3. (k \o u) \o y = k \o (u \o y)
  BY <1>1, TextsAssociate, Zenon
<1> QED  BY <1>2, <1>3, Zenon DEF u

LEMMA PrefixConcat ==
  ASSUME NEW i \in Items, NEW y \in Texts
  PROVE  Prefix(i) \in Texts /\ Prefix(i) \o y = Under(i, y)
<1> DEFINE s == i.service
           e == i.entity
           d == i.id
           z == Separator \o y
           k == Key(s, Key(e, d))
<1>1. s \in Texts /\ e \in Texts /\ d \in Texts
  BY ItemTexts, Zenon
<1>2. Prefix(i) = k \o Separator /\ Under(i, y) = Key(s, Key(e, Key(d, y)))
  BY Zenon DEF Prefix, Under
<1> HIDE DEF s, e, d
<1>3. z \in Texts /\ (d \o Separator) \o y = d \o z
  BY <1>1, SeparatorMoves, Zenon
<1>4. Key(d, y) = d \o z
  BY <1>3, Zenon DEF Key
<1> HIDE DEF z
<1>5. k \in Texts /\ k \o z = Key(s, Key(e, d \o z))
  <2>1. FollowsTwo(s, e, d, z)
    BY <1>1, <1>3, KeysConcat, Zenon
  <2> QED  BY <2>1, Zenon DEF FollowsTwo
<1> HIDE DEF k
<1>6. k \o Separator \in Texts /\ (k \o Separator) \o y = k \o z
  BY <1>5, SeparatorMoves, Zenon DEF z
<1> QED  BY <1>2, <1>4, <1>5, <1>6, Zenon

\* "Otherwise tours:tour:t1 would also match tours:tour:t12": the prefix of an item
\* begins the keys of that item and of no other.
LEMMA PrefixIsExact ==
  ASSUME NEW i \in Items, NEW j \in Items, NEW v \in VersionsOf(j)
  PROVE  HasPrefix(Versioned(j, v), Prefix(i)) <=> i = j
<1> DEFINE dv == <<"v">> \o Itoa[v]
           t == Under(j, dv)
<1>1. dv \in Texts
  BY VersionTexts, Zenon
<1>2. Versioned(j, v) = t
  BY Zenon DEF Versioned, Under
<1> HIDE DEF dv
<1>3. t \in Texts
  BY <1>1, UnderIsText, Zenon
<1>4. Prefix(i) \in Texts
  BY <1>1, PrefixConcat, Zenon
<1>5. HasPrefix(t, Prefix(i)) <=> \E y \in Texts : t = Prefix(i) \o y
  <2> HIDE DEF t
  <2> QED  BY <1>3, <1>4, PrefixMeansConcat, Zenon
<1>6. ASSUME NEW y \in Texts, t = Prefix(i) \o y  PROVE i = j
  <2>1. Under(i, y) = Under(j, dv)
    BY <1>6, PrefixConcat, Zenon
  <2> QED  BY <1>1, <2>1, UnderIsInjective, Zenon
<1>7. i = j => t = Prefix(i) \o dv
  BY <1>1, PrefixConcat, Zenon
<1> HIDE DEF t
<1> QED  BY <1>1, <1>2, <1>5, <1>6, <1>7, Zenon

LEMMA KeysAreVersioned ==
  /\ \A item \in Items : \A v \in VersionsOf(item) :
       Versioned(item, v) \in Keys /\ Versioned(item, v) \in KeysOf(item)
  /\ \A key \in Keys : \E item \in Items : \E v \in VersionsOf(item) : key = Versioned(item, v)
<1>1. ASSUME NEW item \in Items, NEW v \in VersionsOf(item)
      PROVE  Versioned(item, v) \in Keys /\ Versioned(item, v) \in KeysOf(item)
  <2>1. Versioned(item, v) \in KeysOf(item)
    BY Zenon DEF KeysOf
  <2> QED  BY <2>1, Zenon DEF Keys
<1>2. ASSUME NEW key \in Keys
      PROVE  \E item \in Items : \E v \in VersionsOf(item) : key = Versioned(item, v)
  <2>1. PICK item \in Items : key \in KeysOf(item)
    BY Zenon DEF Keys
  <2> QED  BY <2>1, Zenon DEF KeysOf
<1> QED  BY <1>1, <1>2, Zenon

LEMMA KeysAreFinite == IsFiniteSet(Keys)
<1> DEFINE R == 1..MaxVersion
           P == Items \X R
           f == [p \in P |-> Versioned(p[1], p[2])]
           T == {f[p] : p \in P}
<1>1. IsFiniteSet(R)
  BY CacheAssumption, FS_Interval
<1>2. IsFiniteSet(P)
  <2> HIDE DEF R
  <2> QED  BY <1>1, TextAssumption, FS_Product
<1>3. f \in Surjection(P, T)
  BY Zenon DEF Surjection
<1>4. IsFiniteSet(T)
  <2> HIDE DEF P, f, T
  <2> QED  BY <1>2, <1>3, FS_Surjection, Zenon
<1>5. Keys \subseteq T
  <2> SUFFICES ASSUME NEW item \in Items, NEW v \in VersionsOf(item)  PROVE Versioned(item, v) \in T
    <3> HIDE DEF T
    <3> QED  BY KeysAreVersioned, Zenon
  <2>1. v \in R
    BY VersionTexts, Zenon
  <2>2. <<item, v>> \in P /\ f[<<item, v>>] = Versioned(item, v)
    BY <2>1
  <2> QED  BY <2>2, Zenon
<1> QED
  <2> HIDE DEF T
  <2> QED  BY <1>4, <1>5, FS_Subset, Zenon

\* The walk visits every key.
LEMMA BucketsCover ==
  /\ Len(Buckets) \in Nat /\ Buckets \in [1..Len(Buckets) -> Keys]
  /\ \A key \in Keys : \E b \in 1..Len(Buckets) : Buckets[b] = key
<1> DEFINE n == Cardinality(Keys)
<1>1. n \in Nat /\ \E f : f \in [1..n -> Keys] /\ IsInjective(f)
  <2>1. n \in Nat /\ ExistsBijection(1..n, Keys)
    BY KeysAreFinite, FS_CardinalityType, Zenon
  <2> QED  BY <2>1, Zenon DEF ExistsBijection, Bijection, Injection
<1>2. Buckets \in [1..n -> Keys] /\ IsInjective(Buckets)
  BY <1>1, Zenon DEF Buckets, Injection
<1>3. IsFiniteSet(1..n) /\ Cardinality(1..n) = n
  BY <1>1, FS_Interval
<1>4. Buckets \in Surjection(1..n, Keys)
  <2>1. Buckets \in Injection(1..n, Keys)
    BY <1>2, Zenon DEF Injection
  <2> QED  BY <1>3, <2>1, KeysAreFinite, FS_Injection, Zenon
<1>5. Len(Buckets) = n
  <2> DEFINE B == Buckets
  <2> HIDE DEF B, n
  <2>1. n \in Nat /\ B \in [1..n -> Keys]
    BY <1>1, <1>2, Zenon DEF B
  <2>2. Len(B) = n
    BY <2>1
  <2> QED  BY <2>2, Zenon DEF B
<1> QED  BY <1>1, <1>2, <1>4, <1>5, Zenon DEF Surjection

-----------------------------------------------------------------------------
(* What a step leaves alone.                                               *)

LEMMA CurrentIsNat ==
  ASSUME Types, NEW item \in Items, NEW v \in VersionsOf(item)
  PROVE  current[item] \in Nat /\ current[item] \in VersionsOf(item) /\ v \in Nat
<1>1. v \in Nat
  BY VersionTexts, CacheAssumption
<1> QED  BY <1>1, Zenon DEF Types

\* Versions only grow: a reader that does nothing keeps what it knows.
LEMMA ReaderFrame ==
  ASSUME Types, NEW d \in Clients, ReaderInv(d), client'[d] = client[d],
         \A item \in Items : current'[item] \in Nat /\ current'[item] >= current[item]
  PROVE  ReaderInv(d)'
<1> DEFINE state == client[d]
<1>1. ASSUME state.at \in {"missed", "poisoned", "hit"}
      PROVE  state.version <= current'[state.item]
  <2>1. state.item \in Items /\ state.version \in VersionsOf(state.item)
        /\ state.version <= current[state.item]
    BY <1>1, Zenon DEF ReaderInv
  <2>2. state.version \in Nat /\ current[state.item] \in Nat
    BY <2>1, CurrentIsNat, Zenon
  <2> HIDE DEF state
  <2>3. current'[state.item] \in Nat /\ current'[state.item] >= current[state.item]
    BY <2>1, Zenon
  <2> QED  BY <2>1, <2>2, <2>3
<1> QED  BY <1>1, Zenon DEF ReaderInv

\* A sweep that does nothing has no more left to delete.
LEMMA SweepFrame ==
  ASSUME NEW d \in Clients, SweepInv(d), client'[d] = client[d],
         doomed'[d] \subseteq doomed[d], doomed'[d] \cap Present' \subseteq Present
  PROVE  SweepInv(d)'
<1>1. Left(d)' \subseteq Left(d)
  BY Zenon DEF Left
<1> QED  BY <1>1, Zenon DEF SweepInv

\* What holds of the store goes on holding when entries go.
LEMMA StoreFrame ==
  ASSUME StoreInv, \A key \in Keys : store'[key] \in {store[key], Nothing}
  PROVE  StoreInv' /\ Present' \subseteq Present
<1>1. StoreInv'
  <2> SUFFICES ASSUME NEW item \in Items, NEW v \in VersionsOf(item),
                      store'[Versioned(item, v)] # Nothing
               PROVE  /\ store'[Versioned(item, v)].item = item
                      /\ store'[Versioned(item, v)].version >= v
    BY Zenon DEF StoreInv
  <2>1. store'[Versioned(item, v)] = store[Versioned(item, v)]
    BY KeysAreVersioned, Zenon
  <2> QED  BY <2>1, Zenon DEF StoreInv
<1>2. Present' \subseteq Present
  BY Zenon DEF Present
<1> QED  BY <1>1, <1>2

\* A step of one client, or of none, in which entries may go.
LEMMA OthersFrame ==
  ASSUME CacheInv, NEW S,
         \A item \in Items : current'[item] \in Nat /\ current'[item] >= current[item],
         \A d \in Clients \ S : client'[d] = client[d],
         \A d \in Clients \ S : doomed'[d] \subseteq doomed[d]
                                /\ doomed'[d] \cap Present' \subseteq Present
  PROVE  \A d \in Clients \ S : ReaderInv(d)' /\ SweepInv(d)'
<1> SUFFICES ASSUME NEW d \in Clients \ S  PROVE ReaderInv(d)' /\ SweepInv(d)'
  BY Zenon
<1>1. Types /\ ReaderInv(d) /\ SweepInv(d) /\ d \in Clients
  BY Zenon DEF CacheInv
<1>2. ReaderInv(d)'
  BY <1>1, ReaderFrame, Zenon
<1>3. SweepInv(d)'
  BY <1>1, SweepFrame, Zenon
<1> QED  BY <1>2, <1>3

LEMMA OneMoves ==
  ASSUME Types, NEW c \in Clients, NEW state, Continue(c, state)
  PROVE  /\ client' = [d \in Clients |-> client'[d]] /\ client'[c] = state
         /\ \A d \in Clients \ {c} : client'[d] = client[d]
<1>1. client = [d \in Clients |-> client[d]]
  BY Zenon DEF Types
<1> QED  BY <1>1, Zenon DEF Continue

\* Current versions stay, and so does the type.
LEMMA CurrentStays ==
  ASSUME Types, UNCHANGED current
  PROVE  \A item \in Items : current'[item] \in Nat /\ current'[item] >= current[item]
<1> SUFFICES ASSUME NEW item \in Items  PROVE current[item] \in Nat /\ current[item] >= current[item]
  BY Zenon
<1>1. current[item] \in Nat
  BY Zenon DEF Types
<1> QED  BY <1>1

-----------------------------------------------------------------------------
(* One lemma per operation.                                                *)

LEMMA InitEstablishes == Init => CacheInv
<1> SUFFICES ASSUME Init  PROVE CacheInv
  BY Zenon
<1>1. Types
  <2>1. \A item \in Items : 1 \in VersionsOf(item)
    BY CacheAssumption DEF VersionsOf
  <2> QED  BY <2>1 DEF Init, Types
<1>2. StoreInv
  BY KeysAreVersioned, Zenon DEF Init, StoreInv
<1>3. \A c \in Clients : client[c].at = "idle"
  BY Zenon DEF Init, Idle
<1>4. \A c \in Clients : ReaderInv(c) /\ SweepInv(c)
  BY <1>3 DEF ReaderInv, SweepInv
<1> QED  BY <1>1, <1>2, <1>4, Zenon DEF CacheInv

LEMMA PublishPreserves ==
  ASSUME CacheInv, NEW item \in Items, Publish(item)
  PROVE  CacheInv'
<1>1. Types /\ StoreInv /\ UNCHANGED <<store, client, doomed>>
  BY Zenon DEF CacheInv, Publish
<1>2. /\ item \in Versioning /\ current[item] < MaxVersion
      /\ current' = [current EXCEPT ![item] = current[item] + 1]
  BY Zenon DEF Publish
<1>3. /\ current' \in [Items -> Nat]
      /\ \A i \in Items : current'[i] \in Nat /\ current'[i] >= current[i]
  BY <1>1, <1>2 DEF Types
<1>4. \A i \in Items : current'[i] \in VersionsOf(i)
  <2>1. current[item] + 1 \in VersionsOf(item)
    BY <1>1, <1>2, CacheAssumption DEF Types, VersionsOf
  <2> QED  BY <1>1, <1>2, <2>1 DEF Types
<1>5. Types' /\ StoreInv'
  BY <1>1, <1>3, <1>4, Zenon DEF Types, StoreInv
<1>6. \A d \in Clients \ {} : ReaderInv(d)' /\ SweepInv(d)'
  BY <1>1, <1>3, OthersFrame, Zenon DEF Present
<1> QED  BY <1>5, <1>6, Zenon DEF CacheInv

\* Expire and Delete: an entry goes, and nobody moves.
LEMMA RemovalPreserves ==
  ASSUME CacheInv, NEW key \in Keys, store' = [store EXCEPT ![key] = Nothing],
         UNCHANGED <<current, client, doomed>>
  PROVE  CacheInv'
<1>1. Types /\ StoreInv
  BY Zenon DEF CacheInv
<1>2. /\ store' = [k \in Keys |-> store'[k]]
      /\ \A k \in Keys : store'[k] \in {store[k], Nothing}
  BY <1>1, Zenon DEF Types
<1>3. StoreInv' /\ Present' \subseteq Present
  BY <1>1, <1>2, StoreFrame, Zenon
<1>4. \A item \in Items : current'[item] \in Nat /\ current'[item] >= current[item]
  BY <1>1, CurrentStays, Zenon
<1>5. \A d \in Clients \ {} : ReaderInv(d)' /\ SweepInv(d)'
  BY <1>3, <1>4, OthersFrame, Zenon
<1> QED  BY <1>1, <1>2, <1>3, <1>5, Zenon DEF CacheInv, Types

LEMMA GetPreserves ==
  ASSUME CacheInv, NEW c \in Clients, NEW item \in Items, Get(c, item)
  PROVE  CacheInv'
<1> DEFINE version == current[item]
           entry == store[Versioned(item, version)]
           at(place) == [at |-> place, item |-> item, version |-> version]
           hit == [at |-> "hit", item |-> item, version |-> version, got |-> entry]
<1>1. Types /\ StoreInv /\ UNCHANGED <<current, store, doomed>>
  BY Zenon DEF CacheInv, Get
<1>2. version \in VersionsOf(item) /\ version \in Nat
  BY <1>1, Zenon DEF Types
<1>3. PICK state : /\ Continue(c, state)
                   /\ \/ state \in {at("missed"), at("poisoned")}
                      \/ state = hit /\ entry # Nothing /\ Decodes(c, entry)
  BY DEF Get
<1>4. entry # Nothing => entry.item = item /\ entry.version >= version
  BY <1>1, <1>2, Zenon DEF StoreInv
<1> HIDE DEF version, entry
<1>5. /\ client' = [d \in Clients |-> client'[d]] /\ client'[c] = state
      /\ \A d \in Clients \ {c} : client'[d] = client[d]
  BY <1>1, <1>3, OneMoves, Zenon
<1>6. \A i \in Items : current'[i] \in Nat /\ current'[i] >= current[i]
  BY <1>1, CurrentStays, Zenon
<1>7. \A d \in Clients \ {c} : ReaderInv(d)' /\ SweepInv(d)'
  BY <1>1, <1>5, <1>6, OthersFrame, Zenon DEF Present
<1>8. version <= version /\ current'[item] = version
  BY <1>1, <1>2 DEF version
<1>9. ReaderInv(c)' /\ SweepInv(c)'
  <2>1. CASE state = at("missed")
    <3>1. state.at = "missed" /\ state.item = item /\ state.version = version
      BY <2>1
    <3> QED  BY <1>2, <1>5, <1>8, <3>1 DEF ReaderInv, SweepInv
  <2>2. CASE state = at("poisoned")
    <3>1. /\ state.at = "poisoned" /\ state.item = item /\ state.version = version
          /\ state = [at |-> "poisoned", item |-> state.item, version |-> state.version]
      BY <2>2
    <3> QED  BY <1>2, <1>5, <1>8, <3>1 DEF ReaderInv, SweepInv
  <2>3. CASE state = hit /\ entry # Nothing /\ Decodes(c, entry)
    <3>1. state.at = "hit" /\ state.item = item /\ state.version = version /\ state.got = entry
      BY <2>3
    <3>2. entry.item = item /\ entry.version >= version /\ entry.release = Release[c]
      BY <1>4, <2>3, Zenon DEF Decodes
    <3> QED  BY <1>2, <1>5, <1>8, <3>1, <3>2 DEF ReaderInv, SweepInv
  <2> QED  BY <1>3, <2>1, <2>2, <2>3, Zenon
<1>10. Types' /\ StoreInv'
  BY <1>1, <1>5, Zenon DEF Types, StoreInv
<1> QED  BY <1>7, <1>9, <1>10, Zenon DEF CacheInv

LEMMA DropPoisonedPreserves ==
  ASSUME CacheInv, NEW c \in Clients, DropPoisoned(c)
  PROVE  CacheInv'
<1> DEFINE state == client[c]
           key == Versioned(state.item, state.version)
           next == [state EXCEPT !.at = "missed"]
<1>1. Types /\ StoreInv /\ ReaderInv(c) /\ UNCHANGED <<current, doomed>>
  BY Zenon DEF CacheInv, DropPoisoned
<1>2. /\ state.at = "poisoned" /\ Continue(c, next)
      /\ store' = store \/ store' = [store EXCEPT ![key] = Nothing]
  BY Zenon DEF DropPoisoned
<1>3. /\ state.item \in Items /\ state.version \in VersionsOf(state.item)
      /\ state.version <= current[state.item]
      /\ state = [at |-> "poisoned", item |-> state.item, version |-> state.version]
  BY <1>1, <1>2 DEF ReaderInv
<1>4. next.at = "missed" /\ next.item = state.item /\ next.version = state.version
  <2> HIDE DEF state
  <2> QED  BY <1>3
<1>5. key \in Keys
  BY <1>3, KeysAreVersioned, Zenon
<1> HIDE DEF state, key, next
<1>6. /\ store' = [k \in Keys |-> store'[k]]
      /\ \A k \in Keys : store'[k] \in {store[k], Nothing}
  BY <1>1, <1>2, <1>5, Zenon DEF Types
<1>7. StoreInv' /\ Present' \subseteq Present
  BY <1>1, <1>6, StoreFrame, Zenon
<1>8. /\ client' = [d \in Clients |-> client'[d]] /\ client'[c] = next
      /\ \A d \in Clients \ {c} : client'[d] = client[d]
  BY <1>1, <1>2, OneMoves, Zenon
<1>9. \A i \in Items : current'[i] \in Nat /\ current'[i] >= current[i]
  BY <1>1, CurrentStays, Zenon
<1>10. \A d \in Clients \ {c} : ReaderInv(d)' /\ SweepInv(d)'
  BY <1>1, <1>7, <1>8, <1>9, OthersFrame, Zenon
<1>11. ReaderInv(c)' /\ SweepInv(c)'
  BY <1>1, <1>3, <1>4, <1>8 DEF ReaderInv, SweepInv
<1>12. Types'
  BY <1>1, <1>6, <1>8, Zenon DEF Types
<1> QED  BY <1>7, <1>10, <1>11, <1>12, Zenon DEF CacheInv

\* Return and SweepFails: the client is idle again.
LEMMA IdlePreserves ==
  ASSUME CacheInv, NEW c \in Clients, Continue(c, Idle),
         doomed' = [doomed EXCEPT ![c] = {}], UNCHANGED <<current, store>>
  PROVE  CacheInv'
<1>1. Types /\ StoreInv
  BY Zenon DEF CacheInv
<1>2. /\ client' = [d \in Clients |-> client'[d]] /\ client'[c] = Idle
      /\ \A d \in Clients \ {c} : client'[d] = client[d]
  BY <1>1, OneMoves, Zenon
<1>3. /\ doomed' = [d \in Clients |-> doomed'[d]]
      /\ \A d \in Clients \ {c} : doomed'[d] = doomed[d]
  BY <1>1, Zenon DEF Types
<1>4. \A i \in Items : current'[i] \in Nat /\ current'[i] >= current[i]
  BY <1>1, CurrentStays, Zenon
<1>5. \A d \in Clients \ {c} : ReaderInv(d)' /\ SweepInv(d)'
  BY <1>2, <1>3, <1>4, OthersFrame, Zenon DEF Present
<1>6. ReaderInv(c)' /\ SweepInv(c)'
  BY <1>2 DEF ReaderInv, SweepInv, Idle
<1>7. Types' /\ StoreInv'
  BY <1>1, <1>2, <1>3, Zenon DEF Types, StoreInv
<1> QED  BY <1>5, <1>6, <1>7, Zenon DEF CacheInv

\* The value is as new as the database: at least the version that was asked for.
LEMMA SetPreserves ==
  ASSUME CacheInv, NEW c \in Clients, Set(c)
  PROVE  CacheInv'
<1> DEFINE state == client[c]
           key == Versioned(state.item, state.version)
<1>1. Types /\ StoreInv /\ ReaderInv(c) /\ UNCHANGED current
  BY Zenon DEF CacheInv, Set
<1>2. /\ state.at = "missed" /\ Continue(c, Idle)
      /\ doomed' = [d \in Clients |-> doomed[d] \ {key}]
  BY Zenon DEF Set
<1>3. PICK entry : /\ store' = [store EXCEPT ![key] = entry]
                   /\ entry.item = state.item /\ entry.version = current[state.item]
  <2>1. PICK ttl \in {-2, -1, 0, 1} :
          store' = [store EXCEPT ![key] =
            [item |-> state.item, version |-> current[state.item], release |-> Release[c],
             ttl |-> Expiry(key, ttlFor(ttl))]]
    BY Zenon DEF Set
  <2> DEFINE new == [item |-> state.item, version |-> current[state.item], release |-> Release[c],
                     ttl |-> Expiry(key, ttlFor(ttl))]
  <2>2. new.item = state.item /\ new.version = current[state.item]
    BY Zenon
  <2>3. store' = [store EXCEPT ![key] = new]
    BY <2>1, Zenon
  <2> HIDE DEF new
  <2> QED  BY <2>2, <2>3, Zenon
<1>4. /\ state.item \in Items /\ state.version \in VersionsOf(state.item)
      /\ state.version <= current[state.item]
  BY <1>1, <1>2 DEF ReaderInv
<1>5. key \in Keys
  BY <1>4, KeysAreVersioned, Zenon
<1>6. entry.version >= state.version
  <2>1. state.version \in Nat /\ current[state.item] \in Nat
    BY <1>1, <1>4, CurrentIsNat, Zenon
  <2> HIDE DEF state
  <2> QED  BY <1>3, <1>4, <2>1
<1>7. /\ store' = [k \in Keys |-> store'[k]] /\ store'[key] = entry
      /\ \A k \in Keys \ {key} : store'[k] = store[k]
  <2> HIDE DEF key
  <2> QED  BY <1>1, <1>3, <1>5, Zenon DEF Types
<1>8. StoreInv'
  <2> SUFFICES ASSUME NEW item \in Items, NEW v \in VersionsOf(item),
                      store'[Versioned(item, v)] # Nothing
               PROVE  /\ store'[Versioned(item, v)].item = item
                      /\ store'[Versioned(item, v)].version >= v
    BY Zenon DEF StoreInv
  <2>1. CASE Versioned(item, v) = key
    <3>1. item = state.item /\ v = state.version
      <4> DEFINE i == state.item
                 w == state.version
      <4>1. i \in Items /\ w \in VersionsOf(i) /\ Versioned(item, v) = Versioned(i, w)
        BY <1>4, <2>1, Zenon
      <4> HIDE DEF i, w
      <4>2. item = i /\ v = w
        BY <4>1, VersionedIsInjective
      <4> QED  BY <4>2, Zenon DEF i, w
    <3> QED  BY <1>3, <1>6, <1>7, <2>1, <3>1, Zenon
  <2>2. CASE Versioned(item, v) # key
    <3>1. store'[Versioned(item, v)] = store[Versioned(item, v)]
      BY <1>7, <2>2, KeysAreVersioned, Zenon
    <3> QED  BY <1>1, <3>1, Zenon DEF StoreInv
  <2> QED  BY <2>1, <2>2, Zenon
<1> HIDE DEF key
<1>9. /\ client' = [d \in Clients |-> client'[d]] /\ client'[c] = Idle
      /\ \A d \in Clients \ {c} : client'[d] = client[d]
  BY <1>1, <1>2, OneMoves, Zenon
<1>10. \A i \in Items : current'[i] \in Nat /\ current'[i] >= current[i]
  BY <1>1, CurrentStays, Zenon
<1>11. \A d \in Clients : doomed'[d] \subseteq doomed[d] /\ doomed'[d] \cap Present' \subseteq Present
  BY <1>2, <1>7, Zenon DEF Present
<1>12. \A d \in Clients \ {c} : ReaderInv(d)' /\ SweepInv(d)'
  BY <1>9, <1>10, <1>11, OthersFrame, Zenon
<1>13. ReaderInv(c)' /\ SweepInv(c)'
  BY <1>9 DEF ReaderInv, SweepInv, Idle
<1>14. Types'
  BY <1>1, <1>2, <1>7, <1>9, Zenon DEF Types
<1> QED  BY <1>8, <1>12, <1>13, <1>14, Zenon DEF CacheInv

LEMMA DeleteByPrefixPreserves ==
  ASSUME CacheInv, NEW c \in Clients, NEW item \in Items, DeleteByPrefix(c, item)
  PROVE  CacheInv'
<1> DEFINE state == [at |-> "scan", item |-> item, cursor |-> 0]
<1>1. Types /\ StoreInv /\ UNCHANGED <<current, store>>
  BY Zenon DEF CacheInv, DeleteByPrefix
<1>2. Continue(c, state) /\ doomed' = [doomed EXCEPT ![c] = KeysOf(item) \cap Present]
  BY Zenon DEF DeleteByPrefix
<1>3. state.at = "scan" /\ state.item = item /\ state.cursor = 0
  OBVIOUS
<1> HIDE DEF state
<1>4. /\ client' = [d \in Clients |-> client'[d]] /\ client'[c] = state
      /\ \A d \in Clients \ {c} : client'[d] = client[d]
  BY <1>1, <1>2, OneMoves, Zenon
<1>5. /\ doomed' = [d \in Clients |-> doomed'[d]] /\ doomed'[c] \subseteq KeysOf(item)
      /\ \A d \in Clients \ {c} : doomed'[d] = doomed[d]
  BY <1>1, <1>2, Zenon DEF Types
<1>6. \A i \in Items : current'[i] \in Nat /\ current'[i] >= current[i]
  BY <1>1, CurrentStays, Zenon
<1>7. \A d \in Clients \ {c} : ReaderInv(d)' /\ SweepInv(d)'
  BY <1>1, <1>4, <1>5, <1>6, OthersFrame, Zenon DEF Present
<1>8. \A b \in Left(c)' : b > 0
  BY BucketsCover DEF Left
<1>9. ReaderInv(c)' /\ SweepInv(c)'
  BY <1>3, <1>4, <1>5, <1>8 DEF ReaderInv, SweepInv
<1>10. Types' /\ StoreInv'
  BY <1>1, <1>4, <1>5, Zenon DEF Types, StoreInv
<1> QED  BY <1>7, <1>9, <1>10, Zenon DEF CacheInv

LEMMA ScanPreserves ==
  ASSUME CacheInv, NEW c \in Clients, Scan(c)
  PROVE  CacheInv'
<1> DEFINE item == client[c].item
           cursor == client[c].cursor
           keys == Scanned(cursor, Prefix(item))
           next == NextCursor(cursor)
           state == [at |-> "delete", item |-> item, keys |-> keys, next |-> next]
<1>1. Types /\ StoreInv /\ SweepInv(c) /\ UNCHANGED <<current, store, doomed>>
  BY Zenon DEF CacheInv, Scan
<1>2. client[c].at = "scan" /\ Continue(c, state)
  BY Zenon DEF Scan
<1>3. state.at = "delete" /\ state.item = item /\ state.keys = keys /\ state.next = next
  BY Zenon
<1>4. /\ item \in Items /\ doomed[c] \subseteq KeysOf(item) /\ cursor \in Nat
      /\ \A b \in Left(c) : b > cursor
  BY <1>1, <1>2 DEF SweepInv
<1> HIDE DEF item, cursor, state
<1>5. \A key \in Keys : HasPrefix(key, Prefix(item)) <=> key \in KeysOf(item)
  <2> SUFFICES ASSUME NEW j \in Items, NEW v \in VersionsOf(j)
               PROVE  HasPrefix(Versioned(j, v), Prefix(item)) <=> Versioned(j, v) \in KeysOf(item)
    BY KeysAreVersioned, Zenon
  <2>1. ASSUME Versioned(j, v) \in KeysOf(item)  PROVE item = j
    <3>1. PICK w \in VersionsOf(item) : Versioned(j, v) = Versioned(item, w)
      BY <2>1, Zenon DEF KeysOf
    <3> QED  BY <1>4, <3>1, VersionedIsInjective
  <2>2. item = j => Versioned(j, v) \in KeysOf(item)
    BY Zenon DEF KeysOf
  <2>3. HasPrefix(Versioned(j, v), Prefix(item)) <=> item = j
    BY <1>4, PrefixIsExact, Zenon
  <2> QED  BY <2>1, <2>2, <2>3, Zenon
<1>6. keys \subseteq KeysOf(item)
  BY <1>5, Zenon DEF Scanned, Present
<1>7. next \in Nat /\ Len(Buckets) \in Nat
  <2>1. Len(Buckets) \in Nat
    BY BucketsCover, Zenon
  <2> DEFINE n == Len(Buckets)
  <2>2. next = IF cursor + Batch >= n THEN 0 ELSE cursor + Batch
    BY Zenon DEF NextCursor
  <2> HIDE DEF n, next
  <2>3. n \in Nat
    BY <2>1, Zenon DEF n
  <2> QED  BY <1>4, <2>1, <2>2, <2>3, CacheAssumption
<1>8. \A b \in Left(c) : Buckets[b] \in keys \/ (next # 0 /\ b > next)
  <2> SUFFICES ASSUME NEW b \in Left(c)  PROVE Buckets[b] \in keys \/ (next # 0 /\ b > next)
    BY Zenon
  <2>1. b \in 1..Len(Buckets) /\ Buckets[b] \in doomed[c] /\ Buckets[b] \in Present /\ b > cursor
    BY <1>4, Zenon DEF Left
  <2>2. Buckets[b] \in Keys /\ HasPrefix(Buckets[b], Prefix(item))
    BY <1>4, <1>5, <2>1, Zenon DEF Present
  <2> DEFINE n == Len(Buckets)
  <2>3. n \in Nat /\ b \in 1..n /\ b > cursor
    BY <1>7, <2>1, Zenon
  <2>4. CASE b <= cursor + Batch
    <3>1. b \in cursor + 1..cursor + Batch /\ b <= n
      <4> HIDE DEF n
      <4> QED  BY <1>4, <2>3, <2>4, CacheAssumption
    <3> QED  BY <2>1, <2>2, <3>1, Zenon DEF Scanned
  <2>5. CASE ~(b <= cursor + Batch)
    <3>1. next = IF cursor + Batch >= n THEN 0 ELSE cursor + Batch
      BY Zenon DEF NextCursor
    <3> HIDE DEF n, next
    <3>2. next # 0 /\ b > next
      BY <1>4, <2>3, <2>5, <3>1, CacheAssumption
    <3> QED  BY <3>2
  <2> QED  BY <2>4, <2>5, Zenon
<1> HIDE DEF keys, next
<1>9. /\ client' = [d \in Clients |-> client'[d]] /\ client'[c] = state
      /\ \A d \in Clients \ {c} : client'[d] = client[d]
  BY <1>1, <1>2, OneMoves, Zenon
<1>10. \A i \in Items : current'[i] \in Nat /\ current'[i] >= current[i]
  BY <1>1, CurrentStays, Zenon
<1>11. \A d \in Clients \ {c} : ReaderInv(d)' /\ SweepInv(d)'
  BY <1>1, <1>9, <1>10, OthersFrame, Zenon DEF Present
<1>12. Left(c)' = Left(c)
  BY <1>1, Zenon DEF Left, Present
<1>13. ReaderInv(c)' /\ SweepInv(c)'
  BY <1>1, <1>3, <1>4, <1>6, <1>7, <1>8, <1>9, <1>12 DEF ReaderInv, SweepInv
<1>14. Types' /\ StoreInv'
  BY <1>1, <1>9, Zenon DEF Types, StoreInv
<1> QED  BY <1>11, <1>13, <1>14, Zenon DEF CacheInv

LEMMA DeleteBatchPreserves ==
  ASSUME CacheInv, NEW c \in Clients, DeleteBatch(c)
  PROVE  CacheInv'
<1> DEFINE item == client[c].item
           keys == client[c].keys
           next == client[c].next
           state == AfterBatch(item, keys, next)
<1>1. Types /\ StoreInv /\ SweepInv(c) /\ UNCHANGED <<current, doomed>>
  BY Zenon DEF CacheInv, DeleteBatch
<1>2. /\ client[c].at = "delete" /\ Continue(c, state)
      /\ store' = [key \in Keys |-> IF key \in keys THEN Nothing ELSE store[key]]
  BY Zenon DEF DeleteBatch
<1>3. /\ item \in Items /\ doomed[c] \subseteq KeysOf(item) /\ next \in Nat
      /\ \A b \in Left(c) : Buckets[b] \in keys \/ (next # 0 /\ b > next)
  BY <1>1, <1>2 DEF SweepInv
<1> HIDE DEF item, keys, next
<1>4. /\ next = 0  => state.at = "swept" /\ state.item = item
      /\ next # 0 => state.at = "scan" /\ state.item = item /\ state.cursor = next
  BY DEF AfterBatch
<1> HIDE DEF state
<1>5. /\ store' = [key \in Keys |-> store'[key]]
      /\ \A key \in Keys : store'[key] \in {store[key], Nothing}
      /\ \A key \in Keys : key \in keys => store'[key] = Nothing
  BY <1>2, Zenon
<1>6. StoreInv' /\ Present' \subseteq Present
  BY <1>1, <1>5, StoreFrame, Zenon
<1>7. \A b \in Left(c)' : b \in Left(c) /\ Buckets[b] \notin keys
  BY <1>1, <1>5, <1>6, Zenon DEF Left, Present
<1>8. \A b \in Left(c)' : next # 0 /\ b > next
  BY <1>3, <1>7, Zenon
<1>9. /\ client' = [d \in Clients |-> client'[d]] /\ client'[c] = state
      /\ \A d \in Clients \ {c} : client'[d] = client[d]
  BY <1>1, <1>2, OneMoves, Zenon
<1>10. \A i \in Items : current'[i] \in Nat /\ current'[i] >= current[i]
  BY <1>1, CurrentStays, Zenon
<1>11. \A d \in Clients \ {c} : ReaderInv(d)' /\ SweepInv(d)'
  BY <1>1, <1>6, <1>9, <1>10, OthersFrame, Zenon
<1>12. ReaderInv(c)' /\ SweepInv(c)'
  <2>1. CASE next = 0
    <3>1. Left(c)' = {}
      BY <1>8, <2>1, Zenon
    <3> QED  BY <1>1, <1>3, <1>4, <1>9, <2>1, <3>1 DEF ReaderInv, SweepInv
  <2>2. CASE next # 0
    BY <1>1, <1>3, <1>4, <1>8, <1>9, <2>2 DEF ReaderInv, SweepInv
  <2> QED  BY <2>1, <2>2, Zenon
<1>13. Types'
  BY <1>1, <1>5, <1>9, Zenon DEF Types
<1> QED  BY <1>6, <1>11, <1>12, <1>13, Zenon DEF CacheInv

LEMMA CacheInvariant == Spec => []CacheInv
<1>1. CacheInv /\ [Next]_vars => CacheInv'
  <2> SUFFICES ASSUME CacheInv, [Next]_vars  PROVE CacheInv'
    OBVIOUS
  <2>1. CASE UNCHANGED vars
    <3>1. UNCHANGED <<current, store, client, doomed>>
      BY <2>1, Zenon DEF vars
    <3>2. Types' /\ StoreInv'
      BY <3>1, Zenon DEF CacheInv, Types, StoreInv
    <3>3. \A i \in Items : current'[i] \in Nat /\ current'[i] >= current[i]
      BY <3>1, CurrentStays, Zenon DEF CacheInv
    <3>4. \A d \in Clients \ {} : ReaderInv(d)' /\ SweepInv(d)'
      BY <3>1, <3>3, OthersFrame, Zenon DEF Present
    <3> QED  BY <3>2, <3>4, Zenon DEF CacheInv
  <2>2. CASE \E item \in Items : Publish(item)
    BY <2>2, PublishPreserves, Zenon
  <2>3. CASE \E key \in Keys : Expire(key)
    <3>1. PICK key \in Keys : Expire(key)
      BY <2>3, Zenon
    <3> QED  BY <3>1, RemovalPreserves, Zenon DEF Expire
  <2>4. ASSUME NEW c \in Clients, Goes(c) \/ SweepFails(c)  PROVE CacheInv'
    <3>1. CASE DropPoisoned(c)
      BY <3>1, DropPoisonedPreserves, Zenon
    <3>2. CASE Set(c)
      BY <3>2, SetPreserves, Zenon
    <3>3. CASE Return(c)
      BY <3>3, IdlePreserves, Zenon DEF Return
    <3>4. CASE Scan(c)
      BY <3>4, ScanPreserves, Zenon
    <3>5. CASE DeleteBatch(c)
      BY <3>5, DeleteBatchPreserves, Zenon
    <3>6. CASE SweepFails(c)
      BY <3>6, IdlePreserves, Zenon DEF SweepFails
    <3> QED  BY <2>4, <3>1, <3>2, <3>3, <3>4, <3>5, <3>6, Zenon DEF Goes
  <2>5. ASSUME NEW c \in Clients, NEW item \in Items, Get(c, item) \/ DeleteByPrefix(c, item)
        PROVE  CacheInv'
    BY <2>5, GetPreserves, DeleteByPrefixPreserves, Zenon
  <2>6. ASSUME NEW c \in Clients, NEW key \in Keys, Delete(c, key)  PROVE CacheInv'
    BY <2>6, RemovalPreserves, Zenon DEF Delete
  <2> HIDE DEF CacheInv
  <2> QED  BY <2>1, <2>2, <2>3, <2>4, <2>5, <2>6, Zenon DEF Next
<1> QED  BY <1>1, InitEstablishes, PTL DEF Spec

-----------------------------------------------------------------------------
\* Get, Set and the keys of Versioned: whatever the replicas store, drop, sweep or
\* publish meanwhile, a reader gets its item, in the version it asked for or a later
\* one, from a release it can read.
THEOREM ReadersGetWhatTheyAskedFor == Spec => []HitsAreGood
<1>1. CacheInv => HitsAreGood
  BY Zenon DEF CacheInv, ReaderInv, HitsAreGood
<1> QED  BY <1>1, CacheInvariant, PTL

\* DeleteByPrefix: a sweep takes keys of its item only, and one that succeeds has taken
\* every key that was there from its beginning to its end, in however many batches.
\* Keys are texts of any length; that none holds the separator or a character of a
\* pattern inside a segment is the callers' part (TextAssumption).
THEOREM SweepsTakeTheirItem == Spec => []SweepsAreExact
<1>1. CacheInv => SweepsAreExact
  <2> SUFFICES ASSUME CacheInv, NEW c \in Clients
               PROVE  /\ client[c].at = "delete" => client[c].keys \subseteq KeysOf(client[c].item)
                      /\ client[c].at = "swept" => doomed[c] \cap Present = {}
    BY Zenon DEF SweepsAreExact
  <2>1. SweepInv(c)
    BY Zenon DEF CacheInv
  <2>2. ASSUME client[c].at = "swept"  PROVE doomed[c] \cap Present = {}
    <3>1. Left(c) = {}
      BY <2>1, <2>2, Zenon DEF SweepInv
    <3>2. \A key \in Present : \E b \in 1..Len(Buckets) : Buckets[b] = key
      BY BucketsCover, Zenon DEF Present
    <3> QED  BY <3>1, <3>2, Zenon DEF Left
  <2> QED  BY <2>1, <2>2, Zenon DEF SweepInv
<1> QED  BY <1>1, CacheInvariant, PTL

=============================================================================
