---------------------------- MODULE JWKSCache_proofs ----------------------------
(***************************************************************************)
(* The JWKS cache for any number of requests, keys and tokens, and any     *)
(* lifetime of the cache and timeout of the calls.  A key set that is in   *)
(* flight or in the cache agrees with the issuer's about every key that    *)
(* has not been published or withdrawn since the set may have been sent.   *)
(***************************************************************************)
EXTENDS JWKSCache, TLAPS

PC == {"idle", "start", "reread", "verify"} \cup InCall \cup Verdict
Deadline == (0 .. MaxClock + MaxFetch) \cup {Absent}
ReqState == [pc : PC, jwt : JWT \cup {Absent}, deadline : Deadline, body : SUBSET Kid]

\* Key k has been published or withdrawn at time t or later.
Moved(k, t) == since[k] # Absent /\ since[k] >= t

\* A set of keys that was sent at time t or later says of k what the issuer
\* says, unless k has moved.
Agrees(set, k, t) == (k \in set <=> k \in served) \/ Moved(k, t)

Refreshed == jwks # NoCache /\ jwks.fetchedAt = clock

\* What the two safety properties say of a request.
Held(j) ==
    \/ j.kid \in served
    \/ since[j.kid] # Absent /\ clock - since[j.kid] < CacheTTL + MaxFetch
Missed(j) ==
    \/ j.kid \notin served \/ j.kid \notin Usable
    \/ since[j.kid] # Absent /\ clock - since[j.kid] <= MaxFetch

RequestOK(r) ==
    /\ r.pc # "idle" => r.jwt \in JWT
    /\ r.pc \in InCall => /\ r.deadline \in Int
                          /\ clock <= r.deadline /\ r.deadline <= clock + MaxFetch
    /\ r.pc = "body" => \A k \in Kid : Agrees(r.body, k, r.deadline - MaxFetch)
    /\ r.pc \in {"verify", "accepted"} => Held(r.jwt)
    /\ r.pc = "notFound" => Missed(r.jwt)

IssuerType ==
    /\ clock \in Time /\ served \subseteq Kid
    /\ since \in [Kid -> Time \cup {Absent}]
    /\ \A k \in Kid : since[k] # Absent => since[k] <= clock

\* The cache is at most one call's timeout behind its stamp.
CacheOK ==
    /\ jwks \in [keys : SUBSET Usable, fetchedAt : Time \cup {Absent}]
    /\ jwks # NoCache =>
          /\ jwks.fetchedAt \in Time /\ jwks.fetchedAt <= clock
          /\ \A k \in Usable : Agrees(jwks.keys, k, jwks.fetchedAt - MaxFetch)

RequestsType == req \in [Request -> ReqState]
RequestsOK == \A q \in Request : RequestOK(req[q])

\* No time passes between the refresh and the second look-up.
RereadOK == \A q \in Request : req[q].pc = "reread" => Refreshed

IInv == IssuerType /\ CacheOK /\ RequestsType /\ RequestsOK /\ RereadOK

-------------------------------------------------------------------------------
LEMMA TimesAreNumbers ==
    /\ \A t \in Time : t \in Int /\ t # Absent
    /\ MaxFetch \in Int /\ MaxFetch >= 0
    /\ MaxClock \in Int /\ CacheTTL \in Int /\ CacheTTL > 0
BY TimeAssumption, AbsentAssumption DEF Time

LEMMA KidsTyped == \A j \in JWT : j.kid \in Kid
BY JWTAssumption, Zenon DEF JWTType

LEMMA UsableKids == Usable \subseteq Kid
BY DEF Usable

LEMMA Starts == ASSUME Init PROVE IInv
<1>1. 0 \in Time /\ 0 <= 0
  BY TimeAssumption DEF Time
<1>2. IssuerType
  BY <1>1 DEF Init, IssuerType
<1>3. CacheOK
  BY DEF Init, CacheOK, NoCache
<1>4. Idle \in ReqState
  BY DEF Idle, ReqState, PC, Deadline
<1>5. RequestOK(Idle)
  BY DEF Idle, RequestOK, InCall
<1> QED BY <1>2, <1>3, <1>4, <1>5 DEF Init, IInv, RequestsType, RequestsOK, RereadOK, Idle

-------------------------------------------------------------------------------
(* Time and the issuer.                                                     *)

LEMMA TickKeeps == ASSUME IInv, Tick PROVE IInv'
<1>1. /\ clock' = clock + 1 /\ clock < MaxClock
      /\ served' = served /\ since' = since /\ jwks' = jwks /\ req' = req
  BY DEF Tick
<1>2. clock \in Time /\ clock' \in Time /\ clock \in Int /\ clock' \in Int
  BY <1>1, TimeAssumption DEF IInv, IssuerType, Time
<1>3. IssuerType'
  <2>1. \A k \in Kid : since[k] # Absent => since[k] \in Int /\ since[k] <= clock
    BY TimesAreNumbers DEF IInv, IssuerType
  <2>2. \A k \in Kid : since[k] # Absent => since[k] <= clock'
    BY <1>1, <1>2, <2>1
  <2> QED BY <1>1, <1>2, <2>2 DEF IInv, IssuerType
<1>4. CacheOK'
  <2>1. jwks # NoCache => jwks.fetchedAt \in Time /\ jwks.fetchedAt <= clock
    BY DEF IInv, CacheOK
  <2>2. jwks # NoCache => jwks.fetchedAt <= clock'
    <3>1. jwks # NoCache => jwks.fetchedAt \in Int /\ jwks.fetchedAt <= clock
      BY <2>1, TimesAreNumbers
    <3>2. \A t \in Int : t <= clock => t <= clock'
      BY <1>1, <1>2
    <3> QED BY <3>1, <3>2
  <2>3. \A k \in Usable : Agrees(jwks.keys, k, jwks.fetchedAt - MaxFetch)
                          => Agrees(jwks.keys, k, jwks.fetchedAt - MaxFetch)'
    BY <1>1 DEF Agrees, Moved
  <2> QED BY <1>1, <2>1, <2>2, <2>3 DEF IInv, CacheOK
<1>5. ASSUME NEW q \in Request PROVE req[q].pc # "reread" /\ RequestOK(req[q])'
  <2>1. req[q].pc = "idle" \/ (req[q].pc \in InCall /\ clock < req[q].deadline)
    BY DEF Tick
  <2>2. RequestOK(req[q])
    BY DEF IInv, RequestsOK
  <2>3. CASE req[q].pc = "idle"
    BY <1>1, <2>2, <2>3 DEF RequestOK, InCall
  <2>4. CASE req[q].pc \in InCall /\ clock < req[q].deadline
    <3>1. req[q].deadline \in Int
      BY <2>2, <2>4 DEF RequestOK
    <3>2. clock' <= req[q].deadline /\ req[q].deadline <= clock' + MaxFetch
      BY <1>1, <1>2, <2>2, <2>4, <3>1, TimesAreNumbers DEF RequestOK
    <3> QED BY <1>1, <2>2, <2>4, <3>1, <3>2 DEF RequestOK, InCall, Agrees, Moved
  <2> QED BY <2>1, <2>3, <2>4
<1> QED BY <1>1, <1>3, <1>4, <1>5 DEF IInv, RequestsType, RequestsOK, RereadOK

LEMMA RotateKeeps == ASSUME IInv, NEW k \in Kid, Rotate(k) PROVE IInv'
<1>1. /\ clock' = clock /\ jwks' = jwks /\ req' = req
      /\ since' = [since EXCEPT ![k] = clock]
      /\ served' = IF k \in served THEN served \ {k} ELSE served \cup {k}
  BY DEF Rotate
<1>2. clock \in Time /\ clock \in Int
  BY TimesAreNumbers DEF IInv, IssuerType
<1>3. since'[k] = clock
  BY <1>1 DEF IInv, IssuerType
<1>4. \A l \in Kid : l # k => since'[l] = since[l] /\ (l \in served' <=> l \in served)
  BY <1>1 DEF IInv, IssuerType
<1>5. IssuerType'
  BY <1>1, <1>2, <1>3, <1>4 DEF IInv, IssuerType
<1>6. ASSUME NEW set, NEW l \in Kid, NEW t \in Int, t <= clock, Agrees(set, l, t)
      PROVE  (l \in set <=> l \in served') \/ (since'[l] # Absent /\ since'[l] >= t)
  <2>1. CASE l = k
    BY <1>2, <1>3, <1>6, <2>1, TimesAreNumbers
  <2>2. CASE l # k
    <3>1. since'[l] = since[l] /\ (l \in served' <=> l \in served)
      BY <1>4, <2>2
    <3> QED BY <1>6, <3>1 DEF Agrees, Moved
  <2> QED BY <2>1, <2>2
<1>7. CacheOK'
  <2>1. CASE jwks = NoCache
    BY <1>1, <2>1 DEF IInv, CacheOK
  <2>2. CASE jwks # NoCache
    <3>1. jwks.fetchedAt \in Time /\ jwks.fetchedAt <= clock
      BY <2>2 DEF IInv, CacheOK
    <3>2. jwks.fetchedAt - MaxFetch \in Int /\ jwks.fetchedAt - MaxFetch <= clock
      <4>1. jwks.fetchedAt \in Int
        BY <3>1, TimesAreNumbers
      <4>2. \A t \in Int : t <= clock => t - MaxFetch \in Int /\ t - MaxFetch <= clock
        BY <1>2, TimesAreNumbers
      <4> QED BY <3>1, <4>1, <4>2
    <3>3. \A l \in Usable : Agrees(jwks.keys, l, jwks.fetchedAt - MaxFetch)'
      BY <1>1, <1>6, <2>2, <3>2, UsableKids DEF IInv, CacheOK, Agrees, Moved
    <3> QED BY <1>1, <2>2, <3>1, <3>3 DEF IInv, CacheOK
  <2> QED BY <2>1, <2>2
<1>8. ASSUME NEW q \in Request PROVE RequestOK(req[q])'
  <2>1. RequestOK(req[q])
    BY DEF IInv, RequestsOK
  <2>2. req[q].pc # "idle" => req[q].jwt.kid \in Kid
    BY <2>1, KidsTyped DEF RequestOK
  <2>3. req[q].pc \in {"verify", "accepted"} => Held(req[q].jwt)'
    <3>1. CASE req[q].jwt.kid = k
      BY <1>1, <1>2, <1>3, <3>1, TimesAreNumbers DEF Held
    <3>2. CASE req[q].jwt.kid # k
      BY <1>1, <1>4, <2>1, <2>2, <3>2 DEF RequestOK, Held
    <3> QED BY <3>1, <3>2
  <2>4. req[q].pc = "notFound" => Missed(req[q].jwt)'
    <3>1. CASE req[q].jwt.kid = k
      BY <1>1, <1>2, <1>3, <3>1, TimesAreNumbers DEF Missed
    <3>2. CASE req[q].jwt.kid # k
      BY <1>1, <1>4, <2>1, <2>2, <3>2 DEF RequestOK, Missed
    <3> QED BY <3>1, <3>2
  <2>5. ASSUME req[q].pc = "body"
        PROVE  \A l \in Kid : Agrees(req[q].body, l, req[q].deadline - MaxFetch)'
    <3>1. req[q].deadline - MaxFetch \in Int /\ req[q].deadline - MaxFetch <= clock
      BY <1>2, <2>1, <2>5, TimesAreNumbers DEF RequestOK, InCall
    <3> QED BY <1>1, <1>6, <2>1, <2>5, <3>1 DEF RequestOK, Agrees, Moved
  <2> QED BY <1>1, <2>1, <2>3, <2>4, <2>5 DEF RequestOK
<1> QED BY <1>1, <1>5, <1>7, <1>8 DEF IInv, RequestsType, RequestsOK, RereadOK, Refreshed
-------------------------------------------------------------------------------
(* The requests.                                                            *)

\* Request q takes a step, and its locals become r.
LEMMA Stepping ==
    ASSUME IInv, NEW q \in Request, NEW r \in ReqState, RequestOK(r),
           req' = [req EXCEPT ![q] = r], UNCHANGED <<clock, served, since, jwks>>,
           r.pc # "reread"
    PROVE  IInv'
<1>1. IssuerType' /\ CacheOK'
  BY DEF IInv, IssuerType, CacheOK, Agrees, Moved
<1>2. RequestsType' /\ \A p \in Request : req'[p] = IF p = q THEN r ELSE req[p]
  BY DEF IInv, RequestsType
<1>3. \A p \in Request : RequestOK(req'[p])
  BY <1>2 DEF IInv, RequestsOK
<1>4. RequestsOK'
  BY <1>3 DEF RequestsOK, RequestOK, Held, Missed, Agrees, Moved
<1>5. RereadOK'
  BY <1>2 DEF IInv, RereadOK, Refreshed
<1> QED BY <1>1, <1>2, <1>4, <1>5 DEF IInv

\* A step that gives only a verdict, or nothing that must be kept true.
LEMMA Judging ==
    ASSUME IInv, NEW q \in Request, req[q].pc # "idle", NEW pc \in PC \ (InCall \cup {"reread"}),
           req' = [req EXCEPT ![q].pc = pc], UNCHANGED <<clock, served, since, jwks>>,
           pc \in {"verify", "accepted"} => Held(req[q].jwt),
           pc = "notFound" => Missed(req[q].jwt)
    PROVE  IInv'
<1> DEFINE r == [req[q] EXCEPT !.pc = pc]
<1>1. req \in [Request -> ReqState] /\ req[q] \in ReqState /\ RequestOK(req[q])
  BY DEF IInv, RequestsType, RequestsOK
<1>2. r \in ReqState
  BY <1>1 DEF ReqState
<1>3. r.pc = pc /\ r.jwt = req[q].jwt
  BY <1>1 DEF ReqState
<1>4. req' = [req EXCEPT ![q] = r]
  BY <1>1
<1>5. pc \notin InCall /\ pc # "body" /\ pc # "reread"
  BY DEF InCall
<1> HIDE DEF r
<1>6. RequestOK(r)
  BY <1>1, <1>3, <1>5 DEF RequestOK
<1> QED BY <1>2, <1>3, <1>4, <1>5, <1>6, Stepping

\* A call to the issuer is sent now.
LEMMA Calling ==
    ASSUME IInv, NEW q \in Request, req[q].pc # "idle", NEW pc \in {"discover", "fetch"},
           req' = [req EXCEPT ![q].pc = pc, ![q].deadline = clock + MaxFetch],
           UNCHANGED <<clock, served, since, jwks>>
    PROVE  IInv'
<1> DEFINE r == [req[q] EXCEPT !.pc = pc, !.deadline = clock + MaxFetch]
<1>1. req \in [Request -> ReqState] /\ req[q] \in ReqState /\ RequestOK(req[q])
  BY DEF IInv, RequestsType, RequestsOK
<1>2. clock \in 0 .. MaxClock
  BY DEF IInv, IssuerType, Time
<1>3. /\ clock + MaxFetch \in Int /\ clock + MaxFetch \in 0 .. MaxClock + MaxFetch
      /\ clock <= clock + MaxFetch
  BY <1>2, TimeAssumption
<1>4. clock + MaxFetch \in Deadline
  BY <1>3 DEF Deadline
<1>5. pc \in PC
  BY DEF PC, InCall
<1>6. r \in ReqState
  BY <1>1, <1>4, <1>5 DEF ReqState
<1>7. r.pc = pc /\ r.jwt = req[q].jwt /\ r.deadline = clock + MaxFetch
  BY <1>1 DEF ReqState
<1>8. req' = [req EXCEPT ![q] = r]
  BY <1>1
<1> HIDE DEF r
<1>9. RequestOK(r)
  BY <1>1, <1>3, <1>7 DEF RequestOK
<1> QED BY <1>6, <1>7, <1>8, <1>9, Stepping

LEMMA BeginKeeps ==
    ASSUME IInv, NEW q \in Request, NEW j \in JWT, Begin(q, j)
    PROVE  IInv'
<1> DEFINE pc == IF j.form = "jws" THEN "start" ELSE "malformed"
           r == [Idle EXCEPT !.jwt = j, !.pc = pc]
<1>1. req' = [req EXCEPT ![q] = r] /\ UNCHANGED <<clock, served, since, jwks>>
  BY DEF Begin
<1>2. pc \in {"start", "malformed"}
  OBVIOUS
<1> HIDE DEF pc
<1>3. r \in ReqState
  BY <1>2 DEF Idle, ReqState, PC, Verdict, Deadline
<1>4. r.pc = pc /\ r.jwt = j
  BY DEF Idle
<1> HIDE DEF r
<1>5. RequestOK(r)
  BY <1>2, <1>4 DEF RequestOK, InCall
<1> QED BY <1>1, <1>2, <1>3, <1>4, <1>5, Stepping

LEMMA LookupKeeps ==
    ASSUME IInv, NEW q \in Request, Lookup(q)
    PROVE  IInv'
<1>1. req[q].pc = "start" /\ UNCHANGED <<clock, served, since, jwks>>
  BY DEF Lookup
<1>2. CASE /\ Fresh(jwks, clock) /\ req[q].jwt.kid \in jwks.keys
           /\ req' = [req EXCEPT ![q].pc = "verify"]
  <2> DEFINE k == req[q].jwt.kid
             f == jwks.fetchedAt
  <2>1. jwks # NoCache /\ f \in Time /\ k \in Usable /\ Agrees(jwks.keys, k, f - MaxFetch)
    BY <1>2 DEF IInv, CacheOK, Fresh
  <2>2. f \in Int /\ clock \in Int /\ k \in Kid /\ clock - f < CacheTTL
    BY <1>2, <2>1, TimesAreNumbers, UsableKids DEF Fresh, IInv, IssuerType
  <2>3. since[k] # Absent => since[k] \in Int
    BY <2>2, TimesAreNumbers DEF IInv, IssuerType
  <2>4. \A t \in Int : t >= f - MaxFetch => clock - t < CacheTTL + MaxFetch
    BY <2>2, TimesAreNumbers
  <2>5. Held(req[q].jwt)
    BY <1>2, <2>1, <2>3, <2>4 DEF Agrees, Moved, Held
  <2>6. "verify" \in PC \ (InCall \cup {"reread"})
    BY DEF PC, InCall
  <2> QED BY <1>1, <1>2, <2>5, <2>6, Judging
<1>3. CASE req' = [req EXCEPT ![q].pc = "discover", ![q].deadline = clock + MaxFetch]
  BY <1>1, <1>3, Calling
<1> QED BY <1>2, <1>3 DEF Lookup
LEMMA DiscoveredKeeps ==
    ASSUME IInv, NEW q \in Request, Discovered(q)
    PROVE  IInv'
BY Calling DEF Discovered

LEMMA AnswerKeeps ==
    ASSUME IInv, NEW q \in Request, IssuerAnswers(q)
    PROVE  IInv'
<1> DEFINE r == [req[q] EXCEPT !.pc = "body", !.body = served]
<1>1. /\ req[q].pc = "fetch" /\ UNCHANGED <<clock, served, since, jwks>>
      /\ req' = [req EXCEPT ![q].pc = "body", ![q].body = served]
  BY DEF IssuerAnswers
<1>2. req \in [Request -> ReqState] /\ req[q] \in ReqState /\ RequestOK(req[q])
  BY DEF IInv, RequestsType, RequestsOK
<1>3. served \in SUBSET Kid
  BY DEF IInv, IssuerType
<1>4. r \in ReqState
  BY <1>2, <1>3 DEF ReqState, PC, InCall
<1>5. r.pc = "body" /\ r.jwt = req[q].jwt /\ r.deadline = req[q].deadline /\ r.body = served
  BY <1>2 DEF ReqState
<1>6. req' = [req EXCEPT ![q] = r]
  BY <1>1, <1>2
<1> HIDE DEF r
<1>7. RequestOK(r)
  BY <1>1, <1>2, <1>5 DEF RequestOK, InCall, Agrees
<1> QED BY <1>1, <1>4, <1>5, <1>6, <1>7, Stepping

LEMMA FailureKeeps ==
    ASSUME IInv, NEW q \in Request, CallFails(q)
    PROVE  IInv'
<1> DEFINE r == [req[q] EXCEPT !.pc = "refreshFailed", !.deadline = Absent]
<1>1. /\ req[q].pc \in InCall /\ UNCHANGED <<clock, served, since, jwks>>
      /\ req' = [req EXCEPT ![q].pc = "refreshFailed", ![q].deadline = Absent]
  BY DEF CallFails
<1>2. req \in [Request -> ReqState] /\ req[q] \in ReqState /\ RequestOK(req[q])
  BY DEF IInv, RequestsType, RequestsOK
<1>3. Absent \in Deadline
  BY DEF Deadline
<1>4. r \in ReqState
  BY <1>2, <1>3 DEF ReqState, PC, Verdict
<1>5. r.pc = "refreshFailed" /\ r.jwt = req[q].jwt
  BY <1>2 DEF ReqState
<1>6. req' = [req EXCEPT ![q] = r]
  BY <1>1, <1>2
<1> HIDE DEF r
<1>7. RequestOK(r)
  BY <1>1, <1>2, <1>5 DEF RequestOK, InCall
<1> QED BY <1>1, <1>4, <1>5, <1>6, <1>7, Stepping

\* What is stored was sent no earlier than one timeout before its stamp.
LEMMA StoreKeeps ==
    ASSUME IInv, NEW q \in Request, StoreJWKS(q)
    PROVE  IInv'
<1> DEFINE r == [req[q] EXCEPT !.pc = "reread", !.deadline = Absent]
           d == req[q].deadline
<1>1. /\ req[q].pc = "body" /\ UNCHANGED <<clock, served, since>>
      /\ req' = [req EXCEPT ![q].pc = "reread", ![q].deadline = Absent]
      /\ jwks' = [keys |-> Parsed(req[q].body), fetchedAt |-> clock]
  BY DEF StoreJWKS
<1>2. req \in [Request -> ReqState] /\ req[q] \in ReqState /\ RequestOK(req[q])
  BY DEF IInv, RequestsType, RequestsOK
<1>3. Absent \in Deadline
  BY DEF Deadline
<1>4. r \in ReqState
  BY <1>2, <1>3 DEF ReqState, PC
<1>5. r.pc = "reread" /\ r.jwt = req[q].jwt
  BY <1>2 DEF ReqState
<1>6. req' = [req EXCEPT ![q] = r]
  BY <1>1, <1>2
<1>7. /\ d \in Int /\ clock <= d /\ clock \in Int /\ clock \in Time
      /\ \A k \in Kid : Agrees(req[q].body, k, d - MaxFetch)
  BY <1>1, <1>2, TimesAreNumbers DEF RequestOK, InCall, IInv, IssuerType
<1> HIDE DEF r
<1>8. IssuerType'
  BY <1>1 DEF IInv, IssuerType
<1>9. clock # Absent /\ jwks' # NoCache /\ jwks'.fetchedAt = clock
      /\ jwks'.keys = Parsed(req[q].body)
  BY <1>1, <1>7, TimesAreNumbers DEF NoCache
<1>10. \A k \in Usable : Agrees(Parsed(req[q].body), k, clock - MaxFetch)
  <2> TAKE k \in Usable
  <2>1. k \in Kid /\ Agrees(req[q].body, k, d - MaxFetch)
    BY <1>7, UsableKids
  <2>2. k \in Parsed(req[q].body) <=> k \in req[q].body
    BY DEF Parsed
  <2>3. since[k] # Absent => since[k] \in Int
    BY <2>1, TimesAreNumbers DEF IInv, IssuerType
  <2>4. \A t \in Int : t >= d - MaxFetch => t >= clock - MaxFetch
    BY <1>7, TimesAreNumbers
  <2> QED BY <2>1, <2>2, <2>3, <2>4 DEF Agrees, Moved
<1>11. CacheOK'
  <2>1. jwks' \in [keys : SUBSET Usable, fetchedAt : Time \cup {Absent}]
    BY <1>1, <1>7 DEF Parsed
  <2>2. (\A k \in Usable : Agrees(jwks.keys, k, jwks.fetchedAt - MaxFetch))'
    BY <1>1, <1>9, <1>10 DEF Agrees, Moved
  <2>3. clock <= clock
    BY <1>7
  <2> QED BY <1>1, <1>7, <1>9, <2>1, <2>2, <2>3 DEF CacheOK
<1>12. RequestsType' /\ \A p \in Request : req'[p] = IF p = q THEN r ELSE req[p]
  BY <1>4, <1>6 DEF IInv, RequestsType
<1>13. RequestOK(r)
  BY <1>1, <1>2, <1>5 DEF RequestOK, InCall
<1>14. \A p \in Request : RequestOK(req'[p])
  BY <1>12, <1>13 DEF IInv, RequestsOK
<1>15. RequestsOK'
  BY <1>1, <1>14 DEF RequestsOK, RequestOK, Held, Missed, Agrees, Moved
<1>16. RereadOK'
  BY <1>1, <1>9 DEF RereadOK, Refreshed
<1> QED BY <1>8, <1>11, <1>12, <1>15, <1>16 DEF IInv

\* The second look-up does not ask how old the cache is, and need not.
LEMMA RereadKeeps ==
    ASSUME IInv, NEW q \in Request, Reread(q)
    PROVE  IInv'
<1> DEFINE k == req[q].jwt.kid
           pc == IF k \in jwks.keys THEN "verify" ELSE "notFound"
<1>1. /\ req[q].pc = "reread" /\ req' = [req EXCEPT ![q].pc = pc]
      /\ UNCHANGED <<clock, served, since, jwks>>
  BY DEF Reread
<1>2. jwks # NoCache /\ jwks.fetchedAt = clock /\ clock \in Time /\ clock \in Int
  BY <1>1, TimesAreNumbers DEF IInv, RereadOK, Refreshed, IssuerType
<1>3. req[q].jwt \in JWT /\ k \in Kid
  BY <1>1, KidsTyped DEF IInv, RequestsOK, RequestOK
<1>4. jwks.keys \subseteq Usable /\ (k \in Usable => Agrees(jwks.keys, k, clock - MaxFetch))
  BY <1>2 DEF IInv, CacheOK
<1>5. since[k] # Absent => since[k] \in Int
  BY <1>3, TimesAreNumbers DEF IInv, IssuerType
<1>6. \A t \in Int : t >= clock - MaxFetch =>
         clock - t <= MaxFetch /\ clock - t < CacheTTL + MaxFetch
  BY <1>2, TimesAreNumbers
<1>7. k \in jwks.keys => Held(req[q].jwt)
  BY <1>4, <1>5, <1>6 DEF Agrees, Moved, Held
<1>8. k \notin jwks.keys => Missed(req[q].jwt)
  BY <1>4, <1>5, <1>6 DEF Agrees, Moved, Missed
<1>9. pc \in PC \ (InCall \cup {"reread"})
  BY DEF PC, InCall, Verdict
<1>10. /\ pc \in {"verify", "accepted"} => k \in jwks.keys
       /\ pc = "notFound" => k \notin jwks.keys
  OBVIOUS
<1> HIDE DEF pc
<1> QED BY <1>1, <1>7, <1>8, <1>9, <1>10, Judging

LEMMA VerifyKeeps ==
    ASSUME IInv, NEW q \in Request, Verify(q)
    PROVE  IInv'
<1>1. /\ req[q].pc = "verify" /\ UNCHANGED <<clock, served, since, jwks>>
      /\ \E pc \in {"badSignature", "badClaims", "accepted"} : req' = [req EXCEPT ![q].pc = pc]
  BY DEF Verify
<1>2. PICK pc \in {"badSignature", "badClaims", "accepted"} : req' = [req EXCEPT ![q].pc = pc]
  BY <1>1
<1>3. Held(req[q].jwt)
  BY <1>1 DEF IInv, RequestsOK, RequestOK
<1>4. pc \in PC \ (InCall \cup {"reread"}) /\ pc # "notFound"
  BY DEF PC, InCall, Verdict
<1> QED BY <1>1, <1>2, <1>3, <1>4, Judging

LEMMA FinishKeeps ==
    ASSUME IInv, NEW q \in Request, Finish(q)
    PROVE  IInv'
<1>1. Idle \in ReqState /\ Idle.pc = "idle"
  BY DEF Idle, ReqState, PC, Deadline
<1>2. RequestOK(Idle)
  BY <1>1 DEF RequestOK, InCall
<1> QED BY <1>1, <1>2, Stepping DEF Finish

-------------------------------------------------------------------------------
(* The theorems.                                                            *)

LEMMA Steps == ASSUME IInv, [Next]_vars PROVE IInv'
<1>1. CASE Tick
  BY <1>1, TickKeeps
<1>2. ASSUME NEW k \in Kid, Rotate(k) PROVE IInv'
  BY <1>2, RotateKeeps
<1>3. ASSUME NEW q \in Request, ValidateStep(q) PROVE IInv'
  BY <1>3, LookupKeeps, DiscoveredKeeps, AnswerKeeps, FailureKeeps, StoreKeeps, RereadKeeps,
     VerifyKeeps, FinishKeeps DEF ValidateStep
<1>4. ASSUME NEW q \in Request, NEW j \in JWT, Begin(q, j) PROVE IInv'
  BY <1>4, BeginKeeps
<1>5. CASE UNCHANGED vars
  BY <1>5 DEF vars, IInv, IssuerType, CacheOK, RequestsType, RequestsOK, RereadOK, RequestOK,
              Refreshed, Held, Missed, Agrees, Moved
<1> QED BY <1>1, <1>2, <1>3, <1>4, <1>5 DEF Next

LEMMA Invariance == Spec => []IInv
BY Starts, Steps, PTL DEF Spec

\* The cache and the locals of the requests keep their types (OIDCValidator).
THEOREM CacheTypeCorrect == Spec => []TypeOK
<1>1. IInv => TypeOK
  BY DEF IInv, IssuerType, CacheOK, RequestsType, ReqState, PC, Deadline, TypeOK
<1> QED BY <1>1, Invariance, PTL

\* A key that the issuer has withdrawn is accepted no longer than the cache's
\* lifetime and one call's timeout, however many requests refresh the cache in
\* whatever order (getKey, refreshJWKS).
THEOREM WithdrawnDie == Spec => []WithdrawnKeysDie
<1>1. IInv => WithdrawnKeysDie
  BY DEF IInv, RequestsOK, RequestOK, Held, WithdrawnKeysDie
<1> QED BY <1>1, Invariance, PTL

\* A usable key that has been published for longer than one call's timeout is
\* found by every request (getKey, refreshJWKS).
THEOREM PublishedFound == Spec => []PublishedKeysFound
<1>1. IInv => PublishedKeysFound
  BY DEF IInv, RequestsOK, RequestOK, Missed, PublishedKeysFound
<1> QED BY <1>1, Invariance, PTL

\* A key that the issuer serves, and has served for longer than one call's
\* timeout, does not leave the cache: what a refresh stores has it too, and a
\* refresh that fails stores nothing (refreshJWKS).
THEOREM ServedStay == Spec => ServedKeysStay
<1>1. IInv /\ [Next]_vars /\ IInv' =>
        [\A k \in Kid :
            k \in jwks.keys /\ k \notin jwks'.keys =>
               \/ k \notin served
               \/ since[k] # Absent /\ clock - since[k] <= MaxFetch]_vars
  <2> SUFFICES ASSUME IInv, [Next]_vars, CacheOK', NEW k \in Kid,
                      k \in jwks.keys, k \notin jwks'.keys, k \in served
               PROVE  since[k] # Absent /\ clock - since[k] <= MaxFetch
    BY DEF IInv
  <2>1. PICK q \in Request : StoreJWKS(q)
    BY DEF Next, vars, Tick, Rotate, ValidateStep, Begin, Lookup, Discovered, IssuerAnswers,
           CallFails, Reread, Verify, Finish
  <2>2. /\ UNCHANGED <<served, since>> /\ jwks'.fetchedAt = clock
        /\ clock \in Time /\ clock \in Int /\ clock # Absent
    BY <2>1, TimesAreNumbers DEF StoreJWKS, IInv, IssuerType
  <2>3. jwks' # NoCache /\ k \in Usable
    BY <2>2 DEF NoCache, IInv, CacheOK
  <2>4. Agrees(jwks.keys, k, jwks.fetchedAt - MaxFetch)'
    BY <2>3 DEF CacheOK
  <2>5. since[k] # Absent /\ since[k] >= clock - MaxFetch
    BY <2>2, <2>4 DEF Agrees, Moved
  <2>6. since[k] \in Int
    BY <2>5, TimesAreNumbers DEF IInv, IssuerType
  <2> QED BY <2>2, <2>5, <2>6, TimesAreNumbers
<1> QED BY <1>1, Invariance, PTL DEF Spec, ServedKeysStay
=============================================================================
