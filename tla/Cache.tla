------------------------------- MODULE Cache --------------------------------
(***************************************************************************)
(* pkg/cache: the read cache that the replicas of the services share in    *)
(* Redis.  A key is the text <service>:<entity>:<id>:v<version>; a reader  *)
(* looks up the version it wants, reads the key, and on a miss computes    *)
(* the value and stores it.  Replicas of two releases may be running, and  *)
(* what one stored the other may be unable to decode.  A prefix is deleted *)
(* batch by batch while the others go on.                                  *)
(***************************************************************************)
EXTENDS Integers, Sequences, FiniteSets, Functions

CONSTANTS
  Clients,     \* replicas
  Release,     \* the release each of them runs
  Items,       \* what is cached: records of a service, an entity and an id, as texts
  Versioning,  \* the items whose version changes
  MaxVersion,  \* bound: versions of an item
  Itoa,        \* strconv.Itoa: the digits of a version
  DefaultTTL,  \* Config.DefaultTTL
  Batch        \* buckets of the keyspace that a SCAN visits

\* What a service, an entity or an id may be: a text without the separator and without
\* the characters that a pattern of Redis gives a meaning.
Segments == Seq(STRING \ {":", "*", "?", "[", "\\"})

ASSUME CacheAssumption ==
  /\ Versioning \subseteq Items /\ MaxVersion \in Nat \ {0}
  /\ DefaultTTL \in Nat /\ Batch \in Nat \ {0}

\* "The convention is <service>:<entity>:<id>:v<version>": Key escapes nothing and neither
\* does DeleteByPrefix, so their callers owe them segments of plain characters.
ASSUME TextAssumption ==
  /\ IsFiniteSet(Items) /\ Items \subseteq [service : Segments, entity : Segments, id : Segments]
  /\ Itoa \in [1..MaxVersion -> Segments]
  /\ \A v, w \in 1..MaxVersion : Itoa[v] = Itoa[w] => v = w

VARIABLES
  current,  \* the version of each item in the database
  store,    \* what Redis holds
  client,   \* where each replica is: its operation and what it knows
  doomed    \* keys there when a replica's prefix delete began and not stored since

vars == <<current, store, client, doomed>>

-----------------------------------------------------------------------------
(* Keys.  A text is a sequence of letters.                                 *)

Separator == <<":">>

\* strings.Join, of a segment and of those that follow it.
Key(segment, rest) == segment \o Separator \o rest

\* Mutant of Versioned: the key of the latest version, whichever that is.
VersionedLatest(item, version) ==
  Key(item.service, Key(item.entity, Key(item.id, <<"v">>)))

\* "v" and the digits of the version.
Versioned(item, version) ==
  Key(item.service, Key(item.entity, Key(item.id, <<"v">> \o Itoa[version])))

\* Mutant of Prefix: the separator at its end is forgotten.
PrefixOpen(item) == Key(item.service, Key(item.entity, item.id))

\* What the keys of an item begin with, and those of no other.
Prefix(item) == Key(item.service, Key(item.entity, item.id)) \o Separator

\* The pattern of a SCAN, the prefix and a star, matches a key.  It is a glob, and its
\* letters stand for themselves only because of what the callers owe (TextAssumption).
HasPrefix(key, prefix) ==
  Len(prefix) <= Len(key) /\ SubSeq(key, 1, Len(prefix)) = prefix

VersionsOf(item) == IF item \in Versioning THEN 1..MaxVersion ELSE {1}
KeysOf(item)     == {Versioned(item, v) : v \in VersionsOf(item)}
Keys             == UNION {KeysOf(item) : item \in Items}

\* Redis walks its keyspace in an order that has nothing to do with the texts; a key
\* that is there throughout the walk is visited.
Buckets == CHOOSE walk \in Injection(1..Cardinality(Keys), Keys) : TRUE

-----------------------------------------------------------------------------
Nothing == [version |-> 0]
Idle    == [at |-> "idle"]

Init ==
  /\ current = [item \in Items |-> 1]
  /\ store = [key \in Keys |-> Nothing]
  /\ client = [c \in Clients |-> Idle]
  /\ doomed = [c \in Clients |-> {}]

Present == {key \in Keys : store[key] # Nothing}

Continue(c, state) == client' = [client EXCEPT ![c] = state]

-----------------------------------------------------------------------------
(* The database and Redis themselves.                                      *)

\* A new version is published.
Publish(item) ==
  /\ item \in Versioning /\ current[item] < MaxVersion
  /\ current' = [current EXCEPT ![item] = @ + 1]
  /\ UNCHANGED <<store, client, doomed>>

\* An entry without a time to live stays.
Expire(key) ==
  /\ key \in Present /\ store[key].ttl > 0
  /\ store' = [store EXCEPT ![key] = Nothing]
  /\ UNCHANGED <<current, client, doomed>>

-----------------------------------------------------------------------------
(* Reading.                                                                *)

\* json.Unmarshal: a struct of the other release does not decode.
Decodes(c, entry) == entry.release = Release[c]

\* The client asks for the version that is current, and Get finds it, misses, or finds
\* an entry that does not decode.
Get(c, item) ==
  LET version == current[item]
      entry == store[Versioned(item, version)]
      at(place) == [at |-> place, item |-> item, version |-> version]
  IN /\ client[c] = Idle
     /\ Continue(c, CASE entry = Nothing -> at("missed")
                      [] entry # Nothing /\ Decodes(c, entry) ->
                           [at |-> "hit", item |-> item, version |-> version, got |-> entry]
                      [] OTHER -> at("poisoned"))
     /\ UNCHANGED <<current, store, doomed>>

\* Get deletes what it could not decode, or what has taken its place since, and reports
\* a miss; whether the Del succeeds is ignored.
DropPoisoned(c) ==
  /\ client[c].at = "poisoned"
  /\ Continue(c, [client[c] EXCEPT !.at = "missed"])
  /\ \E fails \in BOOLEAN :
       store' = IF fails THEN store
                ELSE [store EXCEPT ![Versioned(client[c].item, client[c].version)] = Nothing]
  /\ UNCHANGED <<current, doomed>>

\* The caller is done with what it got; after an error, too.
Return(c) ==
  /\ client[c].at \in {"hit", "missed", "swept"}
  /\ Continue(c, Idle) /\ doomed' = [doomed EXCEPT ![c] = {}]
  /\ UNCHANGED <<current, store>>

-----------------------------------------------------------------------------
(* Storing.                                                                *)

\* Zero stands for the default; what is negative is passed on.
ttlFor(ttl) == IF ttl = 0 THEN DefaultTTL ELSE ttl

\* The SET of go-redis: a ttl of -1 is its KeepTTL, which leaves the key the time it has;
\* without a time to live (0) an entry stays.
Expiry(key, ttl) ==
  IF ttl > 0 THEN ttl
  ELSE IF ttl = -1 /\ store[key] # Nothing THEN store[key].ttl ELSE 0

\* After a miss: the value as the database has it now, under the key asked for.
Set(c) ==
  /\ client[c].at = "missed"
  /\ LET item == client[c].item
         key == Versioned(item, client[c].version)
     IN /\ \E ttl \in {-2, -1, 0, 1} :
             store' = [store EXCEPT ![key] =
               [item |-> item, version |-> current[item], release |-> Release[c],
                ttl |-> Expiry(key, ttlFor(ttl))]]
        /\ doomed' = [d \in Clients |-> doomed[d] \ {key}]
  /\ Continue(c, Idle)
  /\ UNCHANGED current

-----------------------------------------------------------------------------
(* Deleting.                                                               *)

\* Delete of one key.
Delete(c, key) ==
  /\ client[c] = Idle
  /\ store' = [store EXCEPT ![key] = Nothing]
  /\ UNCHANGED <<current, client, doomed>>

\* DeleteByPrefix of everything under an item.
DeleteByPrefix(c, item) ==
  /\ client[c] = Idle
  /\ Continue(c, [at |-> "scan", item |-> item, cursor |-> 0])
  /\ doomed' = [doomed EXCEPT ![c] = KeysOf(item) \cap Present]
  /\ UNCHANGED <<current, store>>

\* SCAN with a match: the keys of the next buckets that begin with the prefix, and the
\* cursor to go on from, 0 at the end.
Scanned(cursor, prefix) ==
  {key \in Present : /\ HasPrefix(key, prefix)
                     /\ \E b \in cursor + 1..cursor + Batch : b <= Len(Buckets) /\ Buckets[b] = key}

NextCursor(cursor) == IF cursor + Batch >= Len(Buckets) THEN 0 ELSE cursor + Batch

Scan(c) ==
  /\ client[c].at = "scan"
  /\ Continue(c, [at |-> "delete", item |-> client[c].item,
                  keys |-> Scanned(client[c].cursor, Prefix(client[c].item)),
                  next |-> NextCursor(client[c].cursor)])
  /\ UNCHANGED <<current, store, doomed>>

\* Mutant of AfterBatch: the walk begins anew until it finds nothing.
AfterBatchAgain(item, keys, cursor) ==
  IF keys = {} /\ cursor = 0 THEN [at |-> "swept", item |-> item]
  ELSE [at |-> "scan", item |-> item, cursor |-> cursor]

\* The walk is over when the cursor is 0 again, empty batches or not.
AfterBatch(item, keys, cursor) ==
  IF cursor = 0 THEN [at |-> "swept", item |-> item]
  ELSE [at |-> "scan", item |-> item, cursor |-> cursor]

DeleteBatch(c) ==
  /\ client[c].at = "delete"
  /\ store' = [key \in Keys |-> IF key \in client[c].keys THEN Nothing ELSE store[key]]
  /\ Continue(c, AfterBatch(client[c].item, client[c].keys, client[c].next))
  /\ UNCHANGED <<current, doomed>>

\* A command of the walk fails: the rest is left alone and the caller is told.
SweepFails(c) ==
  /\ client[c].at \in {"scan", "delete"}
  /\ Continue(c, Idle) /\ doomed' = [doomed EXCEPT ![c] = {}]
  /\ UNCHANGED <<current, store>>

-----------------------------------------------------------------------------
Goes(c) == DropPoisoned(c) \/ Set(c) \/ Return(c) \/ Scan(c) \/ DeleteBatch(c)

Next ==
  \/ \E item \in Items : Publish(item)
  \/ \E key \in Keys : Expire(key)
  \/ \E c \in Clients :
       \/ Goes(c) \/ SweepFails(c)
       \/ \E item \in Items : Get(c, item) \/ DeleteByPrefix(c, item)
       \/ \E key \in Keys : Delete(c, key)

\* A client goes on with what it began.
Fairness == \A c \in Clients : WF_vars(Goes(c))

Spec == Init /\ [][Next]_vars /\ Fairness

-----------------------------------------------------------------------------
(* Properties.                                                             *)

\* A reader never gets another item, a version older than the one it asked for, or a
\* value of a release that its own cannot read, whatever the others store, drop or
\* publish meanwhile.
HitsAreGood ==
  \A c \in Clients : client[c].at = "hit" =>
    /\ client[c].got.item = client[c].item
    /\ client[c].got.version >= client[c].version
    /\ client[c].got.release = Release[c]

\* "The prefix has to end in the separator, otherwise tours:tour:t1 would also match
\* tours:tour:t12 and invalidate an unrelated entry": a prefix delete takes keys
\* of its item only; and when it succeeds, every key that was there when it began and
\* was not stored again is gone, in however many batches.  The segments hold no character
\* of a pattern, which the SCAN would give a meaning.
SweepsAreExact ==
  \A c \in Clients :
    /\ client[c].at = "delete" => client[c].keys \subseteq KeysOf(client[c].item)
    /\ client[c].at = "swept" => doomed[c] \cap Present = {}

\* A prefix delete ends, however many keys the others store behind or before it.
SweepsEnd ==
  \A c \in Clients : client[c].at = "scan" ~> client[c].at \in {"idle", "swept"}
=============================================================================
