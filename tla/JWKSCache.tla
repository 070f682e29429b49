------------------------------- MODULE JWKSCache -------------------------------
(***************************************************************************)
(* OIDCValidator (internal/api/wif.go): the JWKS cache that concurrent     *)
(* token-exchange requests share, its refresh over two HTTP calls to the   *)
(* issuer, and the verification of one JWT per request.                    *)
(*                                                                         *)
(* Nothing but the cache pointer is under OIDCValidator.mu: between a miss *)
(* and the second look-up the lock is free, and every request that misses  *)
(* fetches the key set for itself.  The issuer rotates its keys while the  *)
(* requests run, and any of the calls may fail or be cut by the client's   *)
(* timeout.                                                                *)
(*                                                                         *)
(* Timing: what a goroutine does between two calls takes less than a tick. *)
(* A tick therefore passes only while every request waits for the issuer,  *)
(* and for none of them longer than the HTTP client's timeout.             *)
(***************************************************************************)
EXTENDS Integers

CONSTANTS
    Kid,        \* the key ids the issuer may publish
    KeyType,    \* KeyType[k]: "RSA", "EC", or "none" if its JWK cannot be used
    JWT,        \* the tokens clients present, see JWTType
    Request,    \* token-exchange requests that may run at the same time
    CacheTTL,   \* jwksCacheTTL
    MaxFetch,   \* http.Client.Timeout, for each of the two calls
    MaxClock,   \* bound on the clock
    Absent      \* nil

\* form: is it three base64 parts with a JSON header; kid, alg: the header's;
\* sig: the form of the signature that key kid has made ("forged": another
\* key has); exp: the expiry claim, 0 for none; claims: issuer and audience match.
JWTType == [form : {"jws", "malformed"}, kid : Kid,
            alg : {"RS256", "ES256", "HS256"},
            sig : {"pkcs1", "raw", "der", "forged"},
            exp : Nat, claims : BOOLEAN]

ASSUME TimeAssumption == CacheTTL \in Nat \ {0} /\ MaxFetch \in Nat /\ MaxClock \in Nat
ASSUME KeyAssumption == KeyType \in [Kid -> {"RSA", "EC", "none"}]
ASSUME JWTAssumption == JWT \subseteq JWTType
ASSUME AbsentAssumption == Absent \notin Int /\ Absent \notin JWT

VARIABLES
    clock,   \* time.Now()
    served,  \* the kids in the key set the issuer's jwks_uri returns now
    since,   \* history: since[k], the time k was last published or withdrawn
    jwks,    \* v.jwks: the cached keys and fetchedAt, or NoCache (nil)
    req      \* req[q]: the locals of the request's goroutine

vars == <<clock, served, since, jwks, req>>

Time == 0 .. MaxClock

\* parseRSAPublicKey and parseECPublicKey fail on bad base64 or an unknown
\* curve, and a kty other than RSA and EC is not looked at.
Usable == {k \in Kid : KeyType[k] # "none"}
NoCache == [keys |-> {}, fetchedAt |-> Absent]

\* pc "start": in Validate; "discover", "fetch": waiting for the first byte of
\* a call, "body": reading the key set the issuer has sent; "reread": back in
\* getKey after a refresh; "verify": has a key; the rest are verdicts.
Verdict == {"accepted", "malformed", "refreshFailed", "notFound", "badSignature", "badClaims"}
InCall == {"discover", "fetch", "body"}
Idle == [pc |-> "idle", jwt |-> Absent, deadline |-> Absent, body |-> {}]

Init ==
    /\ clock = 0
    /\ served \in SUBSET Kid
    /\ since = [k \in Kid |-> Absent]
    /\ jwks = NoCache
    /\ req = [q \in Request |-> Idle]

-------------------------------------------------------------------------------
(* The environment: time and the issuer.                                    *)

Tick ==
    /\ clock < MaxClock
    /\ \A q \in Request :
          \/ req[q].pc = "idle"
          \/ req[q].pc \in InCall /\ clock < req[q].deadline
    /\ clock' = clock + 1
    /\ UNCHANGED <<served, since, jwks, req>>

\* The issuer publishes or withdraws a key.
Rotate(k) ==
    /\ served' = IF k \in served THEN served \ {k} ELSE served \cup {k}
    /\ since' = [since EXCEPT ![k] = clock]
    /\ UNCHANGED <<clock, jwks, req>>

-------------------------------------------------------------------------------
(* Validate and getKey.                                                     *)

Begin(q, j) ==
    /\ req[q].pc = "idle"
    /\ req' = [req EXCEPT ![q] =
                  [Idle EXCEPT !.jwt = j,
                               !.pc = IF j.form = "jws" THEN "start" ELSE "malformed"]]
    /\ UNCHANGED <<clock, served, since, jwks>>

\* Mutant: a cached key set is used however old it is.
FreshForEver(cache, now) == cache # NoCache

Fresh(cache, now) == cache # NoCache /\ now - cache.fetchedAt < CacheTTL

\* Mutant: a kid that a fresh cache lacks is refused without a refresh.
LookupNoRefresh(q) ==
    /\ req[q].pc = "start"
    /\ \/ /\ Fresh(jwks, clock)
          /\ req' = [req EXCEPT ![q].pc =
                        IF req[q].jwt.kid \in jwks.keys THEN "verify" ELSE "notFound"]
       \/ /\ ~ Fresh(jwks, clock)
          /\ req' = [req EXCEPT ![q].pc = "discover", ![q].deadline = clock + MaxFetch]
    /\ UNCHANGED <<clock, served, since, jwks>>

\* The first section under RLock; a miss starts the discovery call.
Lookup(q) ==
    /\ req[q].pc = "start"
    /\ \/ /\ Fresh(jwks, clock) /\ req[q].jwt.kid \in jwks.keys
          /\ req' = [req EXCEPT ![q].pc = "verify"]
       \/ /\ ~ (Fresh(jwks, clock) /\ req[q].jwt.kid \in jwks.keys)
          /\ req' = [req EXCEPT ![q].pc = "discover", ![q].deadline = clock + MaxFetch]
    /\ UNCHANGED <<clock, served, since, jwks>>

\* discoverJWKSURI has returned, and the JWKS call is sent.
Discovered(q) ==
    /\ req[q].pc = "discover"
    /\ req' = [req EXCEPT ![q].pc = "fetch", ![q].deadline = clock + MaxFetch]
    /\ UNCHANGED <<clock, served, since, jwks>>

\* The issuer answers with the key set it serves at this moment.
IssuerAnswers(q) ==
    /\ req[q].pc = "fetch"
    /\ req' = [req EXCEPT ![q].pc = "body", ![q].body = served]
    /\ UNCHANGED <<clock, served, since, jwks>>

\* Mutant: the old set is dropped before the new one is there.
CallFailsForgets(q) ==
    /\ req[q].pc \in InCall
    /\ req' = [req EXCEPT ![q].pc = "refreshFailed", ![q].deadline = Absent]
    /\ jwks' = NoCache
    /\ UNCHANGED <<clock, served, since>>

\* Connection error, status other than 200, unreadable document, missing
\* jwks_uri, timeout, or the caller has gone: refreshJWKS returns an error and
\* the cache stays as it is.
CallFails(q) ==
    /\ req[q].pc \in InCall
    /\ req' = [req EXCEPT ![q].pc = "refreshFailed", ![q].deadline = Absent]
    /\ UNCHANGED <<clock, served, since, jwks>>

\* Mutant: a key that cannot be parsed is entered as nil instead of skipped.
ParsedAll(set) == set

\* The keys of a key set that refreshJWKS can parse.
Parsed(set) == set \cap Usable

\* The whole body has been read and parsed; v.jwks is replaced under the lock
\* and stamped with the time of the replacement.
StoreJWKS(q) ==
    /\ req[q].pc = "body"
    /\ jwks' = [keys |-> Parsed(req[q].body), fetchedAt |-> clock]
    /\ req' = [req EXCEPT ![q].pc = "reread", ![q].deadline = Absent]
    /\ UNCHANGED <<clock, served, since>>

\* The second section under RLock: whatever key set is there by now decides.
Reread(q) ==
    /\ req[q].pc = "reread"
    /\ req' = [req EXCEPT ![q].pc = IF req[q].jwt.kid \in jwks.keys THEN "verify"
                                                                   ELSE "notFound"]
    /\ UNCHANGED <<clock, served, since, jwks>>

\* verifySignature: RS256 wants an RSA key and PKCS #1 v1.5, ES256 an EC key
\* and, by ecdsa.VerifyASN1, a DER signature.
SignatureVerifies(j) ==
    \/ j.alg = "RS256" /\ KeyType[j.kid] = "RSA" /\ j.sig = "pkcs1"
    \/ j.alg = "ES256" /\ KeyType[j.kid] = "EC" /\ j.sig = "der"

ClaimsHold(j, now) == ~ (j.exp # 0 /\ now > j.exp) /\ j.claims

Verify(q) ==
    /\ req[q].pc = "verify"
    /\ LET j == req[q].jwt IN
       req' = [req EXCEPT ![q].pc =
                  IF ~ SignatureVerifies(j) THEN "badSignature"
                  ELSE IF ~ ClaimsHold(j, clock) THEN "badClaims" ELSE "accepted"]
    /\ UNCHANGED <<clock, served, since, jwks>>

\* TokenExchangeHandler answers 401, or goes on to issue a token.
Finish(q) ==
    /\ req[q].pc \in Verdict
    /\ req' = [req EXCEPT ![q] = Idle]
    /\ UNCHANGED <<clock, served, since, jwks>>

-------------------------------------------------------------------------------
ValidateStep(q) ==
    \/ Lookup(q) \/ Discovered(q) \/ IssuerAnswers(q) \/ CallFails(q)
    \/ StoreJWKS(q) \/ Reread(q) \/ Verify(q) \/ Finish(q)

Next ==
    \/ Tick
    \/ \E k \in Kid : Rotate(k)
    \/ \E q \in Request : ValidateStep(q) \/ \E j \in JWT : Begin(q, j)

Spec == Init /\ [][Next]_vars

-------------------------------------------------------------------------------
(* Properties.                                                              *)

TypeOK ==
    /\ clock \in Time
    /\ served \subseteq Kid
    /\ since \in [Kid -> Time \cup {Absent}]
    /\ jwks \in [keys : SUBSET Usable, fetchedAt : Time \cup {Absent}]
    /\ req \in [Request -> [pc : {"idle", "start", "reread", "verify"} \cup InCall \cup Verdict,
                            jwt : JWT \cup {Absent},
                            deadline : (0 .. MaxClock + MaxFetch) \cup {Absent},
                            body : SUBSET Kid]]

\* A JWT is accepted only if its key is published, or was withdrawn less than
\* jwksCacheTTL plus one call's timeout ago: a slow answer that is stored late
\* (and stamped late) cannot keep a withdrawn key alive any longer, whoever
\* else refreshes meanwhile (getKey, refreshJWKS).
WithdrawnKeysDie ==
    \A q \in Request :
        req[q].pc = "accepted" =>
            LET k == req[q].jwt.kid IN
            \/ k \in served
            \/ since[k] # Absent /\ clock - since[k] < CacheTTL + MaxFetch

\* Once a usable key has been published for longer than one call can last, no
\* request is refused with "kid not found": what a slow refresh may put back
\* into the cache is by then a set that has the key (getKey, refreshJWKS).
PublishedKeysFound ==
    \A q \in Request :
        req[q].pc = "notFound" =>
            LET k == req[q].jwt.kid IN
            \/ k \notin served \/ k \notin Usable
            \/ since[k] # Absent /\ clock - since[k] <= MaxFetch

\* A key in the cache that the issuer serves, and has served for longer than one
\* call can last, stays there: no refresh that fails, is overtaken, or stores an
\* old answer late takes it from the requests that need it (refreshJWKS).
ServedKeysStay ==
    [][\A k \in Kid :
          k \in jwks.keys /\ k \notin jwks'.keys =>
             \/ k \notin served
             \/ since[k] # Absent /\ clock - since[k] <= MaxFetch]_vars

\* A request is told that its kid is not in the JWKS only if the JWKS it has
\* just fetched itself lacks the kid, or the issuer serves it no longer ("kid %q
\* not found in JWKS").
NotFoundMeansNotFetched ==
    \A q \in Request :
        req[q].pc = "notFound" =>
            req[q].jwt.kid \notin Parsed(req[q].body) \/ req[q].jwt.kid \notin served

\* A genuine signature in the form RFC 7518 gives the algorithm is not refused
\* ("verifies a JWT signature for supported algorithms").
GenuineSignature(j) ==
    \/ j.alg = "RS256" /\ KeyType[j.kid] = "RSA" /\ j.sig = "pkcs1"
    \/ j.alg = "ES256" /\ KeyType[j.kid] = "EC" /\ j.sig = "raw"
SupportedAlgorithmsVerify ==
    \A q \in Request : req[q].pc = "badSignature" => ~ GenuineSignature(req[q].jwt)
===============================================================================
