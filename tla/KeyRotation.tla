---------------------------- MODULE KeyRotation ----------------------------
(***************************************************************************)
(* The keys of pkg/jwt across a deployment: replicas of the issuing        *)
(* service sign access tokens, every replica verifies them, and each one   *)
(* reads its keys from its environment when it starts (LoadKeySet).        *)
(*                                                                         *)
(* The operator is external.  It deploys a new private key whenever it     *)
(* likes and keeps the previous public one, which jwks.go calls the whole  *)
(* procedure; it gives the public half to the others before that, after    *)
(* it or never; and a retired key stays until the tokens it signed have    *)
(* expired on every replica, leeway included.  Blocks of the list of       *)
(* public keys may be garbled on their way to a process.  Claims other     *)
(* than the times are left out, and so is SetActive, which nothing calls.  *)
(***************************************************************************)
EXTENDS Integers, FiniteSets

CONSTANTS
  Keys,        \* key pairs; a key's kid is derived from its public half
  None,        \* no key
  Issuers,     \* replicas of the service that signs
  Verifiers,   \* replicas of the services that only verify
  TTL,         \* Config.AccessTokenTTL
  ClockSkew,   \* Config.ClockSkew
  MaxTime,     \* bound: ticks
  MaxTokens    \* bound: tokens issued

ASSUME KeysAssumption ==
  /\ None \notin Keys /\ Keys # {}
  /\ Issuers \cap Verifiers = {}
  /\ TTL \in Nat /\ ClockSkew \in Nat /\ MaxTime \in Nat /\ MaxTokens \in Nat

Processes == Issuers \cup Verifiers

VARIABLES
  now,      \* true time
  ahead,    \* how far each replica's clock is ahead of it
  config,   \* what the next start of an issuer, or of a verifier, reads
  env,      \* what each replica read when it last started
  keys,     \* KeySet.keys of each replica: the halves it holds of every key
  active,   \* KeySet.activeKID
  up,       \* replicas that started
  tokens,   \* tokens in circulation
  jwks      \* the JWKS some cache holds, and the tokens it has to cover

vars == <<now, ahead, config, env, keys, active, up, tokens, jwks>>

Half   == {"absent", "public", "pair"}          \* what a process holds of a key
Roles  == {"issuer", "verifier"}
Config == [private : Keys \cup {None}, public : SUBSET Keys]

\* What a process was given: its Config, and the public keys of it that are readable.
Given == [private : Keys \cup {None}, public : SUBSET Keys, readable : SUBSET Keys]

Role(p)  == IF p \in Issuers THEN "issuer" ELSE "verifier"
Clock(p) == now + ahead[p]

\* Clocks are at most ClockSkew apart, which is what it is for.
Token == [kid : Keys, iat : 0..(MaxTime + ClockSkew), told : SUBSET Processes]

TypeOK ==
  /\ now \in 0..MaxTime /\ ahead \in [Processes -> 0..ClockSkew]
  /\ config \in [Roles -> Config] /\ env \in [Processes -> Given]
  /\ keys \in [Processes -> [Keys -> Half]]
  /\ active \in [Processes -> Keys \cup {None}]
  /\ up \in SUBSET Processes
  /\ tokens \in SUBSET Token
  /\ jwks \in [keys : SUBSET Keys, tokens : SUBSET Token]

-----------------------------------------------------------------------------
(* KeySet and LoadKeySet, on records of the keys and the active one.       *)

NewKeySet == [keys |-> [k \in Keys |-> "absent"], active |-> None]

Add(set, k, half) ==
  [keys   |-> [set.keys EXCEPT ![k] = half],
   active |-> IF set.active = None /\ half = "pair" THEN k ELSE set.active]

\* A key held as a pair is not downgraded.
addPublicKeys(set, ks) ==
  [set EXCEPT !.keys =
     [k \in Keys |-> IF k \in ks /\ set.keys[k] # "pair" THEN "public" ELSE set.keys[k]]]

\* Mutant: the public keys are only read when there is no private one.
LoadKeySetEither(c) ==
  IF c.private # None THEN Add(NewKeySet, c.private, "pair")
                      ELSE addPublicKeys(NewKeySet, c.readable)

LoadKeySet(c) ==
  addPublicKeys(IF c.private # None THEN Add(NewKeySet, c.private, "pair") ELSE NewKeySet,
                c.readable)

\* The public keys are set and the key set is empty: an error, and the process does not
\* start.
LoadFails(c) ==
  c.public # {} /\ \A k \in Keys : LoadKeySet(c).keys[k] = "absent"

\* nextPublicKey: of the list, what pem.Decode makes nothing of is passed over without
\* an error, here and there or to the end.
nextPublicKey(c) ==
  {[private |-> c.private, public |-> c.public, readable |-> ks] : ks \in SUBSET c.public}

\* Deployed with the first key everywhere.
FirstConfig(k) ==
  [r \in Roles |-> [private |-> IF r = "issuer" THEN k ELSE None, public |-> {k}]]

Init ==
  /\ now = 0 /\ ahead \in [Processes -> 0..ClockSkew]
  /\ \E k \in Keys : config = FirstConfig(k)
  /\ env    = [p \in Processes |-> [private |-> config[Role(p)].private,
                                   public |-> config[Role(p)].public,
                                   readable |-> config[Role(p)].public]]
  /\ keys   = [p \in Processes |-> LoadKeySet(env[p]).keys]
  /\ active = [p \in Processes |-> LoadKeySet(env[p]).active]
  /\ up = Processes /\ tokens = {} /\ jwks = [keys |-> {}, tokens |-> {}]

-----------------------------------------------------------------------------
(* A replica.                                                              *)

\* It starts again, for whatever reason, with what its environment says now.  A block
\* that decodes and is no key is an error too, as is a private key that does not parse.
Start(p) ==
  \E c \in nextPublicKey(config[Role(p)]), faulty \in BOOLEAN :
    LET fails == faulty \/ LoadFails(c)
        set == IF fails THEN NewKeySet ELSE LoadKeySet(c)
    IN  /\ env' = IF fails THEN env ELSE [env EXCEPT ![p] = c]
        /\ keys'   = [keys EXCEPT ![p] = set.keys]
        /\ active' = [active EXCEPT ![p] = set.active]
        /\ up' = IF fails THEN up \ {p} ELSE up \cup {p}
        /\ UNCHANGED <<now, ahead, config, tokens, jwks>>

\* A process holds a key in either form.
Get(p, k) == keys[p][k] # "absent"

\* It has an active key, and can sign with it.
CanSign(p) == active[p] # None /\ keys[p][active[p]] = "pair"

\* History: a replica was started with the key, and the next start will have it.
Lists(c, k) == c.private = k \/ k \in c.public
Told(p, k)  == Lists(env[p], k) /\ Lists(config[Role(p)], k)

Issue(p) ==
  /\ p \in up /\ CanSign(p)
  /\ Cardinality(tokens) < MaxTokens
  /\ tokens' = tokens \cup {[kid |-> active[p], iat |-> Clock(p),
                             told |-> {q \in Processes : Told(q, active[p])}]}
  /\ UNCHANGED <<now, ahead, config, env, keys, active, up, jwks>>

Expired(p, t)     == Clock(p) >= t.iat + TTL + ClockSkew
NotYetValid(p, t) == Clock(p) < t.iat - ClockSkew

Verify(p, t) ==
  CASE ~Get(p, t.kid) -> "unknown kid"
    [] Get(p, t.kid) /\ Expired(p, t) -> "expired"
    [] Get(p, t.kid) /\ ~Expired(p, t) /\ NotYetValid(p, t) -> "invalid"
    [] OTHER -> "ok"

\* A replica has the list but not the key: its block was passed over.
Garbled(p, k) == k \in env[p].public \ env[p].readable /\ k # env[p].private

\* History: the tokens a copy fetched from p now has to cover.
Covers(p) == {t \in tokens : p \in t.told /\ ~Garbled(p, t.kid)}

\* Mutant of JWKS: only the key in use is published.
JWKSActive(p) ==
  /\ p \in Issuers \cap up
  /\ jwks' = [keys |-> {active[p]}, tokens |-> Covers(p)]
  /\ UNCHANGED <<now, ahead, config, env, keys, active, up, tokens>>

\* Somebody fetches the JWKS of an issuer, and keeps it.
JWKS(p) ==
  /\ p \in Issuers \cap up
  /\ jwks' = [keys |-> {k \in Keys : Get(p, k)}, tokens |-> Covers(p)]
  /\ UNCHANGED <<now, ahead, config, env, keys, active, up, tokens>>

-----------------------------------------------------------------------------
(* The operator, and time.                                                 *)

Tick ==
  /\ now < MaxTime /\ now' = now + 1
  /\ UNCHANGED <<ahead, config, env, keys, active, up, tokens, jwks>>

\* The public half of a new key is given to everyone.
Publish(k) ==
  /\ \E r \in Roles : k \notin config[r].public
  /\ config' = [r \in Roles |-> [config[r] EXCEPT !.public = @ \cup {k}]]
  /\ UNCHANGED <<now, ahead, env, keys, active, up, tokens, jwks>>

\* "Deploy the new private key while keeping the previous public one."
Activate(k) ==
  /\ config["issuer"].private # k
  /\ config' = [r \in Roles |->
                  [private |-> IF r = "issuer" THEN k ELSE config[r].private,
                   public |-> config[r].public \cup {config["issuer"].private}]]
  /\ UNCHANGED <<now, ahead, env, keys, active, up, tokens, jwks>>

\* A key nobody signs with is dropped once every token it signed has expired.
Retire(k) ==
  /\ k # config["issuer"].private /\ \A p \in Processes : active[p] # k
  /\ \A t \in tokens : t.kid = k => \A p \in Processes : Expired(p, t)
  /\ \E r \in Roles : k \in config[r].public
  /\ config' = [r \in Roles |-> [config[r] EXCEPT !.public = @ \ {k}]]
  /\ UNCHANGED <<now, ahead, env, keys, active, up, tokens, jwks>>

Next ==
  \/ \E p \in Processes : Start(p) \/ Issue(p) \/ JWKS(p)
  \/ \E k \in Keys : Publish(k) \/ Activate(k) \/ Retire(k)
  \/ Tick

Spec == Init /\ [][Next]_vars

-----------------------------------------------------------------------------
(* Properties.                                                             *)

\* Every running issuer can sign with its active key: "adding it again would drop
\* its ability to sign" (addPublicKeys).
IssuersCanSign ==
  \A p \in Issuers \cap up : CanSign(p)

\* "Nobody is signed out by a key change", "tokens already issued remain valid until they
\* expire": a replica that was told of the key when a token was signed accepts it until its
\* own clock has passed the expiry and the leeway, through any rotations and restarts, in
\* any mixture of configurations, whichever other keys of its list are garbled.  Whether
\* every replica is told before a key signs is the operator's choice: the procedure of
\* jwks.go does not ask for it, and a replica that was not told rejects the token.
FreshTokensVerify ==
  \A p \in up, t \in tokens :
    p \in t.told /\ ~Garbled(p, t.kid) /\ ~Expired(p, t) => Verify(p, t) = "ok"

\* "A slightly stale copy is still correct for every token already in circulation": a
\* cached JWKS has the key of every token that was issued before it was fetched, under a
\* key its issuer had been told of, and has not expired since.
StaleJWKSIsCorrect ==
  \A t \in jwks.tokens :
    (\E p \in Processes : ~Expired(p, t)) => t.kid \in jwks.keys
=============================================================================
