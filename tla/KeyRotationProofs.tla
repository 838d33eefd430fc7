------------------------- MODULE KeyRotationProofs --------------------------
(***************************************************************************)
(* A rotation signs nobody out who was signed in, for any number of keys,  *)
(* replicas and tokens and any drift of the clocks up to ClockSkew.        *)
(***************************************************************************)
EXTENDS KeyRotation, TLAPS

Live(t) == \E p \in Processes : ~Expired(p, t)

\* Only issuers are given a private key.
Deployed == config["issuer"].private \in Keys /\ config["verifier"].private = None

\* What LoadKeySet left in a replica that started.
Loaded ==
  \A p \in up :
    /\ p \in Issuers => CanSign(p)
    /\ \A k \in Keys : Lists(env[p], k) /\ ~Garbled(p, k) => Get(p, k)

\* A replica that was told of a key is given it at every start, until the last token the
\* key signed has expired.
Kept == \A t \in tokens : Live(t) => \A p \in t.told : Told(p, t.kid)

\* The clock an issuer stamps a token with is at most ClockSkew ahead.
Stamped == \A t \in tokens : t.iat <= now + ClockSkew

Inv == TypeOK /\ Deployed /\ Loaded /\ Kept /\ Stamped /\ StaleJWKSIsCorrect

-----------------------------------------------------------------------------
(* LoadKeySet.                                                             *)

LEMMA LoadKeySetIsTyped ==
  ASSUME NEW c \in Given
  PROVE  /\ LoadKeySet(c).keys \in [Keys -> Half]
         /\ LoadKeySet(c).active = c.private
         /\ c.private \in Keys => LoadKeySet(c).keys[c.private] = "pair"
         /\ \A k \in c.readable : LoadKeySet(c).keys[k] # "absent"
<1>1. c.readable \subseteq Keys
  BY Zenon DEF Given
<1>2. CASE c.private = None
  BY <1>1, <1>2, KeysAssumption, Zenon DEF LoadKeySet, addPublicKeys, NewKeySet, Half, Given
<1>3. CASE c.private # None
  <2>1. c.private \in Keys
    BY <1>3, Zenon DEF Given
  <2>2. /\ Add(NewKeySet, c.private, "pair").keys
             = [k \in Keys |-> IF k = c.private THEN "pair" ELSE "absent"]
        /\ Add(NewKeySet, c.private, "pair").active = c.private
    BY <2>1, Zenon DEF Add, NewKeySet
  <2>3. /\ LoadKeySet(c).keys
             = [k \in Keys |-> IF k \in c.readable /\ k # c.private THEN "public"
                               ELSE IF k = c.private THEN "pair" ELSE "absent"]
        /\ LoadKeySet(c).active = c.private
    BY <1>3, <2>1, <2>2, Zenon DEF LoadKeySet, addPublicKeys, Add
  <2> QED  BY <1>1, <2>1, <2>3, Zenon DEF Half
<1> QED  BY <1>2, <1>3, Zenon

\* What was listed and not passed over is held.
LEMMA ListedIsHeld ==
  ASSUME NEW c \in Given, NEW k \in Keys, Lists(c, k), ~(k \in c.public \ c.readable /\ k # c.private)
  PROVE  LoadKeySet(c).keys[k] # "absent"
<1>1. CASE c.private = k
  <2>1. LoadKeySet(c).keys[k] = "pair"
    BY <1>1, LoadKeySetIsTyped, Zenon
  <2> QED  BY <2>1
<1>2. CASE c.private # k
  BY <1>2, LoadKeySetIsTyped, Zenon DEF Lists
<1> QED  BY <1>1, <1>2, Zenon

-----------------------------------------------------------------------------
(* Time.                                                                   *)

\* A token that is live after a step was live before it.
LEMMA LiveIsStable ==
  ASSUME TypeOK, ahead' = ahead, now' \in Nat, now <= now', NEW t \in Token, Live(t)'
  PROVE  Live(t)
<1>1. PICK p \in Processes : ~Expired(p, t)'
  BY Zenon DEF Live
<1>2. now \in Nat /\ ahead[p] \in Nat /\ t.iat \in Nat
  BY KeysAssumption DEF TypeOK, Token
<1>3. ~Expired(p, t)
  BY <1>1, <1>2, KeysAssumption DEF Expired, Clock
<1> QED  BY <1>3, Zenon DEF Live

-----------------------------------------------------------------------------
(* The steps.                                                              *)

LEMMA InitEstablishes == Init => Inv
<1> SUFFICES ASSUME Init  PROVE Inv
  BY Zenon
<1>1. PICK k \in Keys : config = FirstConfig(k)
  BY Zenon DEF Init
<1>2. /\ config["issuer"] = [private |-> k, public |-> {k}]
      /\ config["verifier"] = [private |-> None, public |-> {k}]
      /\ config \in [Roles -> Config]
  BY <1>1, Zenon DEF FirstConfig, Roles, Config
<1>3. \A p \in Processes :
        env[p] = [private |-> IF p \in Issuers THEN k ELSE None, public |-> {k}, readable |-> {k}]
  <2> SUFFICES ASSUME NEW p \in Processes
               PROVE  env[p] = [private |-> IF p \in Issuers THEN k ELSE None, public |-> {k},
                                readable |-> {k}]
    BY Zenon
  <2>1. env[p] = [private |-> config[Role(p)].private, public |-> config[Role(p)].public,
                  readable |-> config[Role(p)].public]
    BY Zenon DEF Init
  <2>2. /\ config[Role(p)].private = IF p \in Issuers THEN k ELSE None
        /\ config[Role(p)].public = {k}
    <3>1. CASE p \in Issuers
      BY <1>2, <3>1 DEF Role
    <3>2. CASE p \notin Issuers
      BY <1>2, <3>2 DEF Role
    <3> QED  BY <3>1, <3>2, Zenon
  <2> QED  BY <2>1, <2>2, Zenon
<1>4. \A p \in Processes : /\ env[p] \in Given
                           /\ env[p].private = IF p \in Issuers THEN k ELSE None
  <2> SUFFICES ASSUME NEW p \in Processes
               PROVE  env[p] \in Given /\ env[p].private = IF p \in Issuers THEN k ELSE None
    BY Zenon
  <2> DEFINE x == IF p \in Issuers THEN k ELSE None
  <2>1. env[p] = [private |-> x, public |-> {k}, readable |-> {k}]
    BY <1>3, Zenon
  <2>2. x \in Keys \cup {None} /\ {k} \in SUBSET Keys
    BY Zenon
  <2> HIDE DEF x
  <2>3. env[p] \in Given /\ env[p].private = x
    BY <2>1, <2>2 DEF Given
  <2> QED  BY <2>3, Zenon DEF x
<1>5. \A p \in Processes : /\ keys[p] = LoadKeySet(env[p]).keys
                           /\ active[p] = LoadKeySet(env[p]).active
  BY Zenon DEF Init
<1>6. TypeOK
  <2>1. env \in [Processes -> Given]
    BY <1>4, Zenon DEF Init
  <2>2. keys \in [Processes -> [Keys -> Half]]
    BY <1>4, <1>5, LoadKeySetIsTyped, Zenon DEF Init
  <2>3. active \in [Processes -> Keys \cup {None}]
    BY <1>4, <1>5, LoadKeySetIsTyped DEF Init
  <2> QED  BY <1>2, <2>1, <2>2, <2>3, KeysAssumption DEF Init, TypeOK
<1>7. Deployed
  BY <1>2 DEF Deployed
<1>8. Loaded
  <2> SUFFICES ASSUME NEW p \in Processes
               PROVE  /\ p \in Issuers => CanSign(p)
                      /\ \A q \in Keys : Lists(env[p], q) /\ ~Garbled(p, q) => Get(p, q)
    BY Zenon DEF Loaded, Init
  <2>1. p \in Issuers => CanSign(p)
    BY <1>4, <1>5, LoadKeySetIsTyped, KeysAssumption DEF CanSign
  <2>2. \A q \in Keys : Lists(env[p], q) /\ ~Garbled(p, q) => Get(p, q)
    BY <1>4, <1>5, ListedIsHeld, Zenon DEF Get, Garbled
  <2> QED  BY <2>1, <2>2, Zenon
<1>9. Kept /\ Stamped /\ StaleJWKSIsCorrect
  BY Zenon DEF Init, Kept, Stamped, StaleJWKSIsCorrect
<1> QED  BY <1>6, <1>7, <1>8, <1>9, Zenon DEF Inv

LEMMA StartPreserves ==
  ASSUME Inv, NEW p \in Processes, Start(p)
  PROVE  Inv'
<1> USE DEF Inv
<1>1. PICK c \in nextPublicKey(config[Role(p)]), faulty \in BOOLEAN :
        LET fails == faulty \/ LoadFails(c)
            set == IF fails THEN NewKeySet ELSE LoadKeySet(c)
        IN  /\ env' = IF fails THEN env ELSE [env EXCEPT ![p] = c]
            /\ keys'   = [keys EXCEPT ![p] = set.keys]
            /\ active' = [active EXCEPT ![p] = set.active]
            /\ up' = IF fails THEN up \ {p} ELSE up \cup {p}
            /\ UNCHANGED <<now, ahead, config, tokens, jwks>>
  BY Zenon DEF Start
<1> DEFINE fails == faulty \/ LoadFails(c)
           set == IF fails THEN NewKeySet ELSE LoadKeySet(c)
<1>2. /\ c \in Given /\ Role(p) \in Roles /\ config[Role(p)] \in Config
      /\ c.private = config[Role(p)].private /\ c.public = config[Role(p)].public
  <2>1. Role(p) \in Roles /\ config[Role(p)] \in Config
    BY Zenon DEF TypeOK, Role, Roles
  <2>2. PICK ks \in SUBSET config[Role(p)].public :
          c = [private |-> config[Role(p)].private, public |-> config[Role(p)].public,
               readable |-> ks]
    BY Zenon DEF nextPublicKey
  <2> QED  BY <2>1, <2>2, Zenon DEF Given, Config
<1>3. set.keys \in [Keys -> Half] /\ set.active \in Keys \cup {None}
  BY <1>2, LoadKeySetIsTyped, Zenon DEF NewKeySet, Half, Given
<1> HIDE DEF fails, set
<1>4. /\ env' = (IF fails THEN env ELSE [env EXCEPT ![p] = c])
      /\ keys' = [keys EXCEPT ![p] = set.keys]
      /\ active' = [active EXCEPT ![p] = set.active]
      /\ up' = (IF fails THEN up \ {p} ELSE up \cup {p})
      /\ UNCHANGED <<now, ahead, config, tokens, jwks>>
  BY <1>1, Zenon DEF fails, set
<1>5. TypeOK'
  BY <1>2, <1>3, <1>4, Zenon DEF TypeOK
<1>6. Deployed'
  BY <1>4, Zenon DEF Deployed
<1>7. Loaded'
  <2> SUFFICES ASSUME NEW q \in up'
               PROVE  /\ q \in Issuers => CanSign(q)'
                      /\ \A k \in Keys : Lists(env'[q], k) /\ ~Garbled(q, k)' => Get(q, k)'
    BY Zenon DEF Loaded
  <2>1. CASE q # p
    <3>1. /\ q \in up /\ env'[q] = env[q] /\ keys'[q] = keys[q] /\ active'[q] = active[q]
      BY <1>4, <2>1, Zenon DEF TypeOK
    <3> QED  BY <3>1, Zenon DEF Loaded, CanSign, Get, Garbled
  <2>2. CASE q = p
    <3>1. ~fails /\ env'[p] = c /\ keys'[p] = set.keys /\ active'[p] = set.active
      BY <1>4, <2>2, Zenon DEF TypeOK
    <3>2. set = LoadKeySet(c)
      BY <3>1, Zenon DEF set
    <3>3. p \in Issuers => CanSign(p)'
      <4> SUFFICES ASSUME p \in Issuers  PROVE CanSign(p)'
        BY Zenon
      <4>1. c.private \in Keys
        BY <1>2, Zenon DEF Deployed, Role
      <4> QED  BY <1>2, <3>1, <3>2, <4>1, LoadKeySetIsTyped, KeysAssumption DEF CanSign
    <3>4. ASSUME NEW k \in Keys, Lists(env'[p], k), ~Garbled(p, k)'  PROVE Get(p, k)'
      BY <1>2, <3>1, <3>2, <3>4, ListedIsHeld, Zenon DEF Get, Garbled
    <3> QED  BY <2>2, <3>3, <3>4, Zenon
  <2> QED  BY <2>1, <2>2, Zenon
<1>8. Kept'
  <2>1. ASSUME NEW q \in Processes, NEW k \in Keys, Told(q, k)  PROVE Told(q, k)'
    <3>1. CASE env'[q] = env[q]
      BY <1>4, <2>1, <3>1, Zenon DEF Told
    <3>2. CASE env'[q] # env[q]
      <4>1. q = p /\ env'[q] = c
        BY <1>4, <3>2, Zenon DEF TypeOK
      <4>2. Lists(c, k)
        BY <1>2, <2>1, <4>1, Zenon DEF Told, Lists
      <4> QED  BY <1>4, <2>1, <4>1, <4>2, Zenon DEF Told
    <3> QED  BY <3>1, <3>2, Zenon
  <2>2. \A t \in tokens : t.kid \in Keys /\ t.told \subseteq Processes
    BY Zenon DEF TypeOK, Token
  <2>3. \A t \in tokens : Live(t)' => Live(t)
    BY <1>4, Zenon DEF Live, Expired, Clock
  <2> QED  BY <1>4, <2>1, <2>2, <2>3, Zenon DEF Kept
<1>9. Stamped' /\ StaleJWKSIsCorrect'
  BY <1>4, Zenon DEF Stamped, StaleJWKSIsCorrect, Expired, Clock
<1> QED  BY <1>5, <1>6, <1>7, <1>8, <1>9, Zenon

LEMMA IssuePreserves ==
  ASSUME Inv, NEW p \in Processes, Issue(p)
  PROVE  Inv'
<1> USE DEF Inv
<1> DEFINE t == [kid |-> active[p], iat |-> Clock(p), told |-> {q \in Processes : Told(q, active[p])}]
<1>1. /\ tokens' = tokens \cup {t} /\ active[p] \in Keys
      /\ UNCHANGED <<now, ahead, config, env, keys, active, up, jwks>>
  BY Zenon DEF Issue, CanSign, TypeOK
<1>2. now \in 0..MaxTime /\ ahead[p] \in 0..ClockSkew
  BY Zenon DEF TypeOK
<1>3. Clock(p) \in 0..(MaxTime + ClockSkew) /\ Clock(p) <= now + ClockSkew
  BY <1>2, KeysAssumption DEF Clock
<1>4. /\ t \in Token /\ t.iat <= now + ClockSkew
      /\ \A q \in t.told : Told(q, t.kid)
  BY <1>1, <1>3, Zenon DEF Token
<1> HIDE DEF t
<1>5. TypeOK'
  BY <1>1, <1>4, Zenon DEF TypeOK
<1>6. Loaded' /\ Deployed'
  BY <1>1, Zenon DEF Loaded, Deployed, CanSign, Get, Garbled
<1>7. Kept'
  BY <1>1, <1>4, Zenon DEF Kept, Told, Live, Expired, Clock
<1>8. Stamped' /\ StaleJWKSIsCorrect'
  BY <1>1, <1>4, Zenon DEF Stamped, StaleJWKSIsCorrect, Expired, Clock
<1> QED  BY <1>5, <1>6, <1>7, <1>8, Zenon

LEMMA JWKSPreserves ==
  ASSUME Inv, NEW p \in Processes, JWKS(p)
  PROVE  Inv'
<1> USE DEF Inv
<1>1. /\ p \in up /\ jwks' = [keys |-> {k \in Keys : Get(p, k)}, tokens |-> Covers(p)]
      /\ UNCHANGED <<now, ahead, config, env, keys, active, up, tokens>>
  BY Zenon DEF JWKS
<1>2. TypeOK'
  BY <1>1, Zenon DEF TypeOK, Covers
<1>3. Deployed' /\ Loaded' /\ Kept' /\ Stamped'
  BY <1>1, Zenon DEF Deployed, Loaded, Kept, Stamped, CanSign, Get, Garbled, Told, Live, Expired, Clock
<1>4. StaleJWKSIsCorrect'
  <2> SUFFICES ASSUME NEW t \in Covers(p), Live(t)
               PROVE  t.kid \in Keys /\ Get(p, t.kid)
    BY <1>1, Zenon DEF StaleJWKSIsCorrect, Live, Expired, Clock
  <2>1. t \in tokens /\ p \in t.told /\ ~Garbled(p, t.kid) /\ t.kid \in Keys
    BY Zenon DEF Covers, TypeOK, Token
  <2>2. Lists(env[p], t.kid)
    BY <2>1, Zenon DEF Kept, Told
  <2> QED  BY <1>1, <2>1, <2>2, Zenon DEF Loaded
<1> QED  BY <1>2, <1>3, <1>4, Zenon

LEMMA TickPreserves ==
  ASSUME Inv, Tick
  PROVE  Inv'
<1> USE DEF Inv
<1>1. /\ now' = now + 1 /\ now < MaxTime
      /\ UNCHANGED <<ahead, config, env, keys, active, up, tokens, jwks>>
  BY Zenon DEF Tick
<1>2. now \in Nat /\ now' \in 0..MaxTime /\ now' \in Nat /\ now <= now'
  BY <1>1, KeysAssumption DEF TypeOK
<1>3. TypeOK'
  BY <1>1, <1>2, Zenon DEF TypeOK
<1>4. \A t \in Token : Live(t)' => Live(t)
  BY <1>1, <1>2, LiveIsStable, Zenon
<1>5. Deployed' /\ Loaded'
  BY <1>1, Zenon DEF Deployed, Loaded, CanSign, Get, Garbled
<1>6. Kept'
  <2>1. \A p, k : Told(p, k)' <=> Told(p, k)
    BY <1>1, Zenon DEF Told
  <2> QED  BY <1>1, <1>4, <2>1, Zenon DEF Kept, TypeOK
<1>7. Stamped'
  <2> SUFFICES ASSUME NEW t \in tokens  PROVE t.iat <= now' + ClockSkew
    BY <1>1, Zenon DEF Stamped
  <2>1. t.iat \in Nat /\ t.iat <= now + ClockSkew
    BY KeysAssumption DEF Stamped, TypeOK, Token
  <2> QED  BY <1>1, <1>2, <2>1, KeysAssumption
<1>8. StaleJWKSIsCorrect'
  <2> SUFFICES ASSUME NEW t \in jwks.tokens, Live(t)'  PROVE t.kid \in jwks.keys
    BY <1>1, Zenon DEF StaleJWKSIsCorrect, Live
  <2>1. t \in Token
    BY Zenon DEF TypeOK
  <2>2. Live(t)
    BY <1>4, <2>1, Zenon
  <2> QED  BY <2>2, Zenon DEF StaleJWKSIsCorrect, Live
<1> QED  BY <1>3, <1>5, <1>6, <1>7, <1>8, Zenon

\* A configuration whose public keys are replaced, as Publish and Retire do.
LEMMA PublicReplaced ==
  ASSUME NEW c \in Config, NEW S \in SUBSET Keys
  PROVE  /\ [c EXCEPT !.public = S] \in Config
         /\ [c EXCEPT !.public = S].private = c.private
         /\ [c EXCEPT !.public = S].public = S
BY Zenon DEF Config

\* The operator's steps change what will be deployed, and nothing that runs.  Every key
\* that a configuration listed it lists still, but for the one that is retired.
LEMMA OperatorPreserves ==
  ASSUME Inv, NEW k \in Keys, Publish(k) \/ Activate(k) \/ Retire(k)
  PROVE  Inv'
<1> USE DEF Inv
<1>1. UNCHANGED <<now, ahead, env, keys, active, up, tokens, jwks>>
  BY Zenon DEF Publish, Activate, Retire
<1>2. \A r \in Roles : config[r] \in Config /\ config[r].public \subseteq Keys
  BY Zenon DEF TypeOK, Config
<1>3. /\ config' \in [Roles -> Config] /\ Deployed'
      /\ \A t \in tokens : Live(t) =>
           \A r \in Roles : Lists(config[r], t.kid) => Lists(config'[r], t.kid)
  <2>1. CASE Publish(k)
    <3>1. ASSUME NEW r \in Roles
          PROVE  /\ config'[r].private = config[r].private
                 /\ config'[r].public = config[r].public \cup {k}
                 /\ config'[r] \in Config
      <4> DEFINE S == config[r].public \cup {k}
      <4>1. config'[r] = [config[r] EXCEPT !.public = S] /\ S \in SUBSET Keys
        BY <1>2, <2>1, Zenon DEF Publish
      <4> HIDE DEF S
      <4>2. /\ config'[r].private = config[r].private /\ config'[r].public = S
            /\ config'[r] \in Config
        <5> DEFINE c == config[r]
        <5>1. c \in Config /\ config'[r] = [c EXCEPT !.public = S]
          BY <1>2, <4>1, Zenon
        <5> HIDE DEF c
        <5>2. /\ [c EXCEPT !.public = S] \in Config
              /\ [c EXCEPT !.public = S].private = c.private
              /\ [c EXCEPT !.public = S].public = S
          BY <4>1, <5>1, PublicReplaced, Zenon
        <5> QED  BY <5>1, <5>2, Zenon DEF c
      <4> QED  BY <4>2, Zenon DEF S
    <3>2. config' = [r \in Roles |-> config'[r]]
      BY <2>1, Zenon DEF Publish
    <3> QED  BY <3>1, <3>2, Zenon DEF Deployed, Roles, Lists
  <2>2. CASE Activate(k)
    <3> DEFINE old == config["issuer"].private
    <3>1. old \in Keys /\ "issuer" \in Roles /\ "verifier" \in Roles
      BY Zenon DEF Deployed, Roles
    <3>2. ASSUME NEW r \in Roles
          PROVE  /\ config'[r].private = IF r = "issuer" THEN k ELSE config[r].private
                 /\ config'[r].public = config[r].public \cup {old}
                 /\ config'[r] \in Config
      <4>1. config'[r] = [private |-> IF r = "issuer" THEN k ELSE config[r].private,
                          public |-> config[r].public \cup {old}]
        BY <2>2, Zenon DEF Activate
      <4>2. config[r].private \in Keys \cup {None} /\ config[r].public \cup {old} \in SUBSET Keys
        BY <1>2, <3>1, Zenon DEF Config
      <4> DEFINE x == IF r = "issuer" THEN k ELSE config[r].private
                 S == config[r].public \cup {old}
      <4>3. config'[r] = [private |-> x, public |-> S] /\ x \in Keys \cup {None} /\ S \in SUBSET Keys
        BY <4>1, <4>2, Zenon
      <4> HIDE DEF x, S
      <4>4. config'[r].private = x /\ config'[r].public = S /\ config'[r] \in Config
        BY <4>3 DEF Config
      <4> QED  BY <4>4, Zenon DEF x, S
    <3>3. config' = [r \in Roles |-> config'[r]]
      BY <2>2, Zenon DEF Activate
    <3>4. config'["issuer"].private = k /\ config'["verifier"].private = None
      <4>1. "verifier" # "issuer"
        OBVIOUS
      <4> QED  BY <3>1, <3>2, <4>1, Zenon DEF Deployed
    <3>5. ASSUME NEW r \in Roles, NEW x, Lists(config[r], x)  PROVE Lists(config'[r], x)
      <4>1. CASE r = "issuer"
        BY <3>2, <3>5, <4>1, Zenon DEF Lists
      <4>2. CASE r # "issuer"
        BY <3>2, <3>5, <4>2, Zenon DEF Lists
      <4> QED  BY <4>1, <4>2, Zenon
    <3> QED  BY <3>2, <3>3, <3>4, <3>5, Zenon DEF Deployed
  <2>3. CASE Retire(k)
    <3>1. ASSUME NEW r \in Roles
          PROVE  /\ config'[r].private = config[r].private
                 /\ config'[r].public = config[r].public \ {k}
                 /\ config'[r] \in Config
      <4> DEFINE S == config[r].public \ {k}
      <4>1. config'[r] = [config[r] EXCEPT !.public = S] /\ S \in SUBSET Keys
        BY <1>2, <2>3, Zenon DEF Retire
      <4> HIDE DEF S
      <4>2. /\ config'[r].private = config[r].private /\ config'[r].public = S
            /\ config'[r] \in Config
        <5> DEFINE c == config[r]
        <5>1. c \in Config /\ config'[r] = [c EXCEPT !.public = S]
          BY <1>2, <4>1, Zenon
        <5> HIDE DEF c
        <5>2. /\ [c EXCEPT !.public = S] \in Config
              /\ [c EXCEPT !.public = S].private = c.private
              /\ [c EXCEPT !.public = S].public = S
          BY <4>1, <5>1, PublicReplaced, Zenon
        <5> QED  BY <5>1, <5>2, Zenon DEF c
      <4> QED  BY <4>2, Zenon DEF S
    <3>2. config' = [r \in Roles |-> config'[r]]
      BY <2>3, Zenon DEF Retire
    <3>3. \A t \in tokens : Live(t) => t.kid # k
      BY <2>3, Zenon DEF Retire, Live
    <3> QED  BY <3>1, <3>2, <3>3, Zenon DEF Deployed, Roles, Lists
  <2> QED  BY <2>1, <2>2, <2>3, Zenon
<1>4. TypeOK'
  BY <1>1, <1>3, Zenon DEF TypeOK
<1>5. Loaded' /\ Stamped' /\ StaleJWKSIsCorrect'
  BY <1>1, Zenon DEF Loaded, Stamped, StaleJWKSIsCorrect, CanSign, Get, Garbled, Expired, Clock
<1>6. Kept'
  <2>1. \A t \in tokens : Live(t)' => Live(t)
    BY <1>1, Zenon DEF Live, Expired, Clock
  <2>2. \A p \in Processes : Role(p) \in Roles
    BY Zenon DEF Role, Roles
  <2>3. \A t \in tokens : t.told \subseteq Processes
    BY Zenon DEF TypeOK, Token
  <2> QED  BY <1>1, <1>3, <2>1, <2>2, <2>3, Zenon DEF Kept, Told
<1> QED  BY <1>3, <1>4, <1>5, <1>6, Zenon

THEOREM RotationInvariant == Spec => []Inv
<1>1. Init => Inv
  BY InitEstablishes, Zenon
<1>2. Inv /\ [Next]_vars => Inv'
  <2> SUFFICES ASSUME Inv, [Next]_vars  PROVE Inv'
    BY Zenon
  <2>1. CASE UNCHANGED vars
    BY <2>1, Zenon DEF vars, Inv, TypeOK, Deployed, Loaded, Kept, Stamped, StaleJWKSIsCorrect, CanSign,
       Get, Garbled, Told, Live, Expired, Clock
  <2>2. CASE Next
    BY <2>2, StartPreserves, IssuePreserves, JWKSPreserves, TickPreserves, OperatorPreserves, Zenon
       DEF Next
  <2> QED  BY <2>1, <2>2, Zenon
<1> QED  BY <1>1, <1>2, PTL DEF Spec

-----------------------------------------------------------------------------
(* What follows.                                                           *)

\* "Adding it again would drop its ability to sign" (addPublicKeys): every issuer that
\* started can sign.
THEOREM IssuersKeepTheirKey == Spec => []IssuersCanSign
<1>1. Inv => IssuersCanSign
  BY Zenon DEF Inv, Loaded, IssuersCanSign
<1> QED  BY <1>1, RotationInvariant, PTL

\* "Tokens already issued remain valid until they expire": a replica that had the key when
\* a token was signed accepts it through every rotation and restart, as long as the block
\* of that key reaches it.
THEOREM NobodyIsSignedOut == Spec => []FreshTokensVerify
<1>1. Inv => FreshTokensVerify
  <2> SUFFICES ASSUME Inv, NEW p \in up, NEW t \in tokens,
                      p \in t.told, ~Garbled(p, t.kid), ~Expired(p, t)
               PROVE  Verify(p, t) = "ok"
    BY Zenon DEF FreshTokensVerify
  <2>1. p \in Processes /\ t \in Token /\ now \in Nat /\ ahead[p] \in Nat
    BY KeysAssumption DEF Inv, TypeOK
  <2>2. Lists(env[p], t.kid) /\ t.kid \in Keys
    BY <2>1, Zenon DEF Inv, Kept, Told, Live, Token
  <2>3. Get(p, t.kid)
    BY <2>2, Zenon DEF Inv, Loaded
  <2>4. ~NotYetValid(p, t)
    <3>1. t.iat <= now + ClockSkew /\ t.iat \in Nat
      BY <2>1, KeysAssumption DEF Inv, Stamped, Token
    <3> QED  BY <2>1, <3>1, KeysAssumption DEF NotYetValid, Clock
  <2> QED  BY <2>3, <2>4, Zenon DEF Verify
<1> QED  BY <1>1, RotationInvariant, PTL

\* "A slightly stale copy is still correct for every token already in circulation", whose
\* key its issuer had been told of.
THEOREM StaleCopiesAreGood == Spec => []StaleJWKSIsCorrect
<1>1. Inv => StaleJWKSIsCorrect
  BY Zenon DEF Inv
<1> QED  BY <1>1, RotationInvariant, PTL
=============================================================================
