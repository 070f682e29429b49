----------------------------- MODULE Gateway_proofs -----------------------------
(***************************************************************************)
(* Proofs about Gateway, for any texts a credential may be and any tokens. *)
(***************************************************************************)
EXTENDS Gateway, TLAPS

\* The client's refusals, as long as the API key is good: it is refused only
\* while it holds a token that was lost, and the next one is in the store.
RefusalsCounted ==
    /\ client.pc = "served" => client.refusals = 0
    /\ trusted /\ client.refusals # 0 =>
          /\ client.refusals = 1
          /\ client.pc = "holding" => Own \in store

IInv ==
    /\ TypeOK
    /\ state = "up" => Valid(cfg)
    /\ AccessIsProved
    /\ RefusalsCounted

-------------------------------------------------------------------------------
(* With a valid configuration a favourable verdict is a proof.              *)

\* The statuses the verdicts tell apart are different numbers.
LEMMA Statuses == 200 # 401 /\ 200 # 400 /\ 200 # 501 /\ 500 # 401
OBVIOUS

\* A client that gets a token at /oauth/token has presented the configured id
\* and secret, neither of them blank.
LEMMA OAuthProves ==
    ASSUME Valid(cfg), NEW h, NEW f, OAuthVerdict(h, f) = 200
    PROVE  Proves(h, f)
<1>1. /\ OAuthCredentials(h, f).ok
      /\ OAuthCredentials(h, f).id = cfg.id /\ OAuthCredentials(h, f).secret = cfg.secret
  BY DEF OAuthVerdict
<1>2. ~ Blank(cfg.id) /\ ~ Blank(cfg.secret)
  BY DEF Valid
<1>3. CASE BasicUser(h) # ""
  <2>1. h.user = cfg.id /\ h.password = cfg.secret
    BY <1>1, <1>3 DEF OAuthCredentials
  <2> QED BY <1>2, <2>1 DEF Proves, Configured
<1>4. CASE BasicUser(h) = ""
  <2>1. f.id = cfg.id /\ f.secret = cfg.secret
    BY <1>1, <1>4 DEF OAuthCredentials
  <2> QED BY <1>2, <2>1 DEF Proves, Configured
<1> QED BY <1>3, <1>4

\* A client that gets a token at /oauth/token-exchange has presented a good JWT
\* and the configured client id, which is not blank.
LEMMA ExchangeProves ==
    ASSUME Valid(cfg), NEW h, NEW f \in FormOf.exchange, ExchangeVerdict(h, f) = 200
    PROVE  Proves(h, f)
<1> DEFINE id == IF BasicUser(h) # "" THEN h.user ELSE f.id
           malformed == f.grant # "client_credentials" \/ id = ""
           theirs == id = cfg.wifID
           missing == f.jwt = ""
           bad == f.jwt = "bad"
<1>1. ~ cfg.wif => ExchangeVerdict(h, f) = 501
  BY Zenon DEF ExchangeVerdict
<1>2. cfg.wif /\ malformed => ExchangeVerdict(h, f) = 400
  BY Zenon DEF ExchangeVerdict
<1>3. cfg.wif /\ ~ malformed /\ ~ theirs => ExchangeVerdict(h, f) = 401
  BY Zenon DEF ExchangeVerdict
<1>4. cfg.wif /\ ~ malformed /\ theirs /\ missing => ExchangeVerdict(h, f) = 400
  BY Zenon DEF ExchangeVerdict
<1>5. cfg.wif /\ ~ malformed /\ theirs /\ ~ missing /\ bad => ExchangeVerdict(h, f) = 401
  BY Zenon DEF ExchangeVerdict
<1>6. cfg.wif /\ theirs /\ ~ missing /\ ~ bad
  <2> HIDE DEF malformed, theirs, missing, bad
  <2> QED BY <1>1, <1>2, <1>3, <1>4, <1>5, Statuses
<1>7. f.jwt = "good"
  BY <1>6 DEF FormOf
<1>8. ~ Blank(cfg.wifID)
  BY <1>6 DEF Valid
<1>9. h.user = cfg.wifID \/ f.id = cfg.wifID
  BY <1>6
<1> QED BY <1>6, <1>7, <1>8, <1>9 DEF Proves, Configured

\* The header's credential is one the middleware knows.
Known(h) == Credential(h) = cfg.apiKey \/ Credential(h) \in store

\* What passes the middleware is the API key of headscale or a token of the store.
LEMMA MiddlewareKnows ==
    ASSUME NEW h, MiddlewareVerdict(h) = 200
    PROVE  Credential(h) # "" /\ Known(h)
<1> DEFINE none == Credential(h) = ""
<1>1. none => MiddlewareVerdict(h) = 401
  BY Zenon DEF MiddlewareVerdict
<1>2. ~ none /\ ~ Known(h) => MiddlewareVerdict(h) = 401
  BY Zenon DEF MiddlewareVerdict, Known
<1>3. ~ none /\ Known(h)
  <2> HIDE DEF none
  <2> QED BY <1>1, <1>2, Statuses
<1> QED BY <1>3

\* A request that passes the middleware proves something itself, or the token
\* it carries was issued to one that did.
LEMMA MiddlewareProves ==
    ASSUME Valid(cfg), NEW h, NEW f, MiddlewareVerdict(h) = 200
    PROVE  Proves(h, f) \/ store # {}
<1>1. Credential(h) # "" /\ Known(h)
  BY MiddlewareKnows
<1>2. ~ Blank(cfg.apiKey)
  BY DEF Valid
<1>3. Credential(h) # "" => Credential(h) = h.user
  BY DEF Credential, Trim, BasicUser
<1>4. CASE Credential(h) = cfg.apiKey
  BY <1>1, <1>2, <1>3, <1>4 DEF Proves, Configured
<1>5. CASE Credential(h) \in store
  BY <1>5
<1> QED BY <1>1, <1>4, <1>5 DEF Known

-------------------------------------------------------------------------------
(* The client's own calls.                                                  *)

Holding == [scheme |-> "bearer", user |-> Own, password |-> ""]

\* The client's header carries its token and nothing else.
LEMMA HoldingOwn == Credential(Holding) = Own /\ Own # ""
<1>1. Own # "" /\ Own # " "
  BY ClientAssumption, TextAssumption
<1>2. Trim(Own) = Own
  BY <1>1 DEF Trim
<1> QED BY <1>1, <1>2 DEF Credential, Holding

\* Its token is no API key: it passes if and only if the store has it.
LEMMA HoldingPasses ==
    ASSUME cfg.apiKey \in Text
    PROVE  /\ Own \in store => MiddlewareVerdict(Holding) = 200
           /\ MiddlewareVerdict(Holding) = 200 => Own \in store
<1>1. Own # cfg.apiKey
  BY ClientAssumption, TextAssumption
<1>2. Own \in store => MiddlewareVerdict(Holding) = 200
  BY HoldingOwn, Zenon DEF MiddlewareVerdict
<1>3. ASSUME MiddlewareVerdict(Holding) = 200 PROVE Own \in store
  <2>1. Known(Holding)
    BY <1>3, MiddlewareKnows
  <2> QED BY <1>1, <2>1, HoldingOwn DEF Known
<1> QED BY <1>2, <1>3

\* errors.go makes a 401 of nothing but Unauthenticated.
LEMMA OnlyUnauthenticated ==
    ASSUME NEW c \in Code, c # "Unauthenticated"
    PROVE  HTTPStatus(c) # 401
<1>1. CASE c \in DOMAIN Case
  <2>1. Case[c] \in {200, 400, 403, 404, 409}
    BY <1>1 DEF Case
  <2> QED BY <1>1, <2>1 DEF HTTPStatus
<1>2. CASE c \notin DOMAIN Case
  <2>1. HTTPStatus(c) = 500
    BY <1>2, Zenon DEF HTTPStatus
  <2> QED BY <2>1, Statuses
<1> QED BY <1>1, <1>2

\* A 401 that a client with a stored token is given comes from headscale.
LEMMA FreshTokensPass ==
    ASSUME cfg.apiKey \in Text, trusted, Own \in store, NEW code \in Outcome
    PROVE  ApiStatus(Holding, code) # 401
<1>1. MiddlewareVerdict(Holding) = 200
  BY HoldingPasses
<1>2. code \in Code /\ code # "Unauthenticated"
  BY DEF Outcome
<1>3. HTTPStatus(code) # 401
  BY <1>2, OnlyUnauthenticated
<1>4. ApiStatus(Holding, code) = HTTPStatus(code)
  BY <1>1, Zenon DEF ApiStatus
<1> QED BY <1>3, <1>4

-------------------------------------------------------------------------------
(* The invariant is inductive.                                              *)

\* A request to a token endpoint keeps access proved: a token is issued only
\* on a proof.
LEMMA AskKeepsAccess ==
    ASSUME IInv, NEW to \in {"oauth", "exchange"}, NEW h, NEW f \in FormOf[to], NEW t \in Token,
           AskForToken(to, h, f, t)
    PROVE  /\ proved' \in BOOLEAN /\ (proved => proved')
           /\ store \subseteq store' /\ store' \subseteq Token
           /\ store' # {} => store # {} \/ proved'
<1>1. /\ Valid(cfg) /\ store \subseteq Token
  BY DEF IInv, TypeOK, AskForToken
<1>2. proved' = (proved \/ Proves(h, f))
  BY DEF AskForToken
<1>3. proved' \in BOOLEAN
  BY <1>2
<1>4. store' = store \/ (store' = store \cup {t} /\ Proves(h, f))
  <2>1. CASE to = "oauth" /\ OAuthVerdict(h, f) = 200
    BY <1>1, <2>1, OAuthProves DEF AskForToken, Generated
  <2>2. CASE to = "exchange" /\ ExchangeVerdict(h, f) = 200
    <3>1. f \in FormOf.exchange
      BY <2>2
    <3>2. Proves(h, f)
      BY <1>1, <2>2, <3>1, ExchangeProves
    <3> QED BY <2>2, <3>2 DEF AskForToken, Generated
  <2>3. CASE (to = "oauth" => OAuthVerdict(h, f) # 200)
             /\ (to = "exchange" => ExchangeVerdict(h, f) # 200)
    BY <2>3 DEF AskForToken
  <2> QED BY <2>1, <2>2, <2>3
<1> QED BY <1>1, <1>2, <1>3, <1>4

\* What a change of both fields leaves of the client.
LEMMA ClientFields ==
    ASSUME client \in ClientState,
           NEW p \in {"tokenless", "holding", "served"}, NEW n \in 0 .. 2,
           client' = [client EXCEPT !.pc = p, !.refusals = n]
    PROVE  client' \in ClientState /\ client'.pc = p /\ client'.refusals = n
<1>1. /\ client = [pc |-> client.pc, by |-> client.by, refusals |-> client.refusals]
      /\ client.by \in {"header", "form"}
  BY DEF ClientState
<1>2. client' = [pc |-> p, by |-> client.by, refusals |-> n]
  BY <1>1
<1> QED BY <1>1, <1>2 DEF ClientState

LEMMA InitIInv == Init => IInv
<1> SUFFICES ASSUME Init PROVE IInv
  OBVIOUS
<1>1. client \in ClientState /\ client.refusals = 0 /\ client.pc = "tokenless"
  BY DEF Init, ClientState
<1>2. TypeOK
  <2>1. {proved, trusted, passed} \subseteq BOOLEAN
    BY DEF Init, AdmissionInit
  <2>2. forgets \in 0 .. MaxForgets
    BY ClientAssumption DEF Init
  <2> QED BY <1>1, <2>1, <2>2 DEF Init, AdmissionInit, TypeOK
<1> QED BY <1>1, <1>2 DEF IInv, Init, AdmissionInit, AccessIsProved, RefusalsCounted

\* What every step keeps: the configuration is not read again, and the process
\* is up only with one that Load accepted.
LEMMA ConfigStays ==
    ASSUME IInv, [Next]_vars
    PROVE  cfg' = cfg /\ state' \in {"starting", "up", "exited"} /\ (state' = "up" => Valid(cfg)')
<1>1. cfg' = cfg /\ (state' = state \/ (state' \in {"up", "exited"} /\ (state' = "up" => Valid(cfg))))
  BY DEF Next, vars, LoadConfig, Load, Stranger, StrangerAsks, StrangerCalls, AskForToken,
         Client, ClientRenews, ClientCalls, Forget, Revoke, Exited
<1>2. state \in {"starting", "up", "exited"} /\ (state = "up" => Valid(cfg))
  BY DEF IInv, TypeOK
<1>3. Valid(cfg) => Valid(cfg)'
  BY <1>1 DEF Valid, Blank, Trim
<1> QED BY <1>1, <1>2, <1>3

\* A step that leaves the client and headscale alone, grows the store on a proof
\* only, and lets through a proof or a token only.
LEMMA OthersKeepIInv ==
    ASSUME IInv, [Next]_vars, UNCHANGED <<client, trusted, forgets>>,
           store \subseteq store', store' \subseteq Token,
           proved' \in BOOLEAN, passed' \in BOOLEAN, proved => proved',
           store' # {} \/ passed' => store # {} \/ passed \/ proved'
    PROVE  IInv'
<1>1. TypeOK'
  BY ConfigStays DEF IInv, TypeOK
<1>2. AccessIsProved'
  BY DEF IInv, AccessIsProved
<1>3. RefusalsCounted'
  BY DEF IInv, RefusalsCounted
<1> QED BY <1>1, <1>2, <1>3, ConfigStays DEF IInv

\* The client gets a token if its credentials are the configured ones, and then
\* the store has the token too.
LEMMA RenewKeepsIInv ==
    ASSUME IInv, [Next]_vars, ClientRenews
    PROVE  IInv'
<1>1. AskForToken("oauth", ClientHeader, ClientForm, Own) /\ UNCHANGED <<trusted, passed, forgets>>
  BY DEF ClientRenews
<1>2. ClientForm \in FormOf["oauth"]
  <2>1. cfg.id \in Text /\ cfg.secret \in Text
    BY DEF IInv, TypeOK, Config
  <2>2. FormOf["oauth"] = [grant : Grant, id : Text, secret : Text, jwt : {""}]
    BY DEF FormOf
  <2>3. CASE client.by = "header"
    <3>1. ClientForm = [grant |-> "client_credentials", id |-> "", secret |-> "", jwt |-> ""]
      BY <2>3 DEF ClientForm, NoForm
    <3> QED BY <2>2, <3>1, TextAssumption DEF Grant
  <2>4. CASE client.by # "header"
    <3>1. ClientForm = [grant |-> "client_credentials", id |-> cfg.id, secret |-> cfg.secret, jwt |-> ""]
      BY <2>4 DEF ClientForm
    <3> QED BY <2>1, <2>2, <3>1 DEF Grant
  <2> QED BY <2>3, <2>4
<1>3. /\ proved' \in BOOLEAN /\ (proved => proved')
      /\ store \subseteq store' /\ store' \subseteq Token
      /\ store' # {} => store # {} \/ proved'
  BY <1>1, <1>2, AskKeepsAccess, ClientAssumption
<1>4. client \in ClientState
  BY DEF IInv, TypeOK
<1>5. CASE OAuthVerdict(ClientHeader, ClientForm) = 200
  <2>1. client' = [client EXCEPT !.pc = "holding"]
    BY <1>5 DEF ClientRenews
  <2>2. client' \in ClientState /\ client'.pc = "holding" /\ client'.refusals = client.refusals
    BY <1>4, <2>1 DEF ClientState
  <2>3. Own \in store'
    BY <1>1, <1>5 DEF AskForToken, Generated
  <2> QED BY <1>1, <1>3, <2>2, <2>3, ConfigStays
          DEF IInv, TypeOK, AccessIsProved, RefusalsCounted
<1>6. CASE OAuthVerdict(ClientHeader, ClientForm) # 200
  <2>1. client' = client
    BY <1>6 DEF ClientRenews
  <2> QED BY <1>1, <1>3, <2>1, OthersKeepIInv DEF IInv, TypeOK
<1> QED BY <1>5, <1>6

LEMMA CallKeepsIInv ==
    ASSUME IInv, [Next]_vars, ClientCalls
    PROVE  IInv'
<1> DEFINE more == IF client.refusals = 0 THEN 1 ELSE 2
<1>1. PICK code \in Outcome :
        client' = IF ApiStatus(Holding, code) = 401
                  THEN [client EXCEPT !.pc = "tokenless", !.refusals = more]
                  ELSE [client EXCEPT !.pc = "served", !.refusals = 0]
  BY DEF ClientCalls, Holding
<1>2. /\ UNCHANGED <<cfg, state, store, proved, trusted, forgets>>
      /\ passed' = (passed \/ MiddlewareVerdict(Holding) = 200)
      /\ client.pc \in {"holding", "served"}
  BY DEF ClientCalls, Holding
<1>3. cfg.apiKey \in Text /\ client \in ClientState
  BY DEF IInv, TypeOK, Config
<1>4. ASSUME passed' PROVE store # {} \/ passed
  BY <1>2, <1>3, <1>4, HoldingPasses
<1>5. passed' \in BOOLEAN
  BY <1>2
<1>6. AccessIsProved'
  BY <1>2, <1>4 DEF IInv, AccessIsProved
<1>7. CASE ApiStatus(Holding, code) = 401
  <2>1. /\ client' \in ClientState /\ client'.pc = "tokenless"
        /\ client'.refusals = more
    <3>1. more \in 0 .. 2
      OBVIOUS
    <3>2. client' = [client EXCEPT !.pc = "tokenless", !.refusals = more]
      BY <1>1, <1>7
    <3> HIDE DEF more
    <3> QED BY <1>3, <3>1, <3>2, ClientFields
  <2>2. trusted => Own \notin store
    BY <1>3, <1>7, FreshTokensPass
  <2>3. trusted => client.refusals = 0
    BY <1>2, <2>2 DEF IInv, RefusalsCounted
  <2> QED BY <1>2, <1>5, <1>6, <2>1, <2>3, ConfigStays DEF IInv, TypeOK, RefusalsCounted
<1>8. CASE ApiStatus(Holding, code) # 401
  <2>1. client' \in ClientState /\ client'.pc = "served" /\ client'.refusals = 0
    BY <1>1, <1>3, <1>8, ClientFields
  <2> QED BY <1>2, <1>5, <1>6, <2>1, ConfigStays DEF IInv, TypeOK, RefusalsCounted
<1> QED BY <1>7, <1>8

LEMMA ForgetKeepsIInv ==
    ASSUME IInv, [Next]_vars, NEW lost \in SUBSET store, Forget(lost)
    PROVE  IInv'
<1>1. /\ UNCHANGED <<cfg, state, proved, trusted, passed>> /\ store' = store \ lost
      /\ forgets' = forgets + 1 /\ forgets < MaxForgets
      /\ client' = IF Own \in lost THEN [client EXCEPT !.refusals = 0] ELSE client
  BY DEF Forget
<1>2. client \in ClientState /\ forgets \in 0 .. MaxForgets
  BY DEF IInv, TypeOK
<1>3. /\ client' \in ClientState /\ client'.pc = client.pc
      /\ client'.refusals = IF Own \in lost THEN 0 ELSE client.refusals
  BY <1>1, <1>2 DEF ClientState
<1>4. forgets' \in 0 .. MaxForgets
  BY <1>1, <1>2, ClientAssumption
<1>5. TypeOK'
  BY <1>1, <1>3, <1>4, ConfigStays DEF IInv, TypeOK
<1>6. AccessIsProved' /\ RefusalsCounted'
  BY <1>1, <1>3 DEF IInv, AccessIsProved, RefusalsCounted
<1> QED BY <1>5, <1>6, ConfigStays DEF IInv

LEMMA NextIInv == IInv /\ [Next]_vars => IInv'
<1> SUFFICES ASSUME IInv, [Next]_vars PROVE IInv'
  OBVIOUS
<1>0. store \subseteq Token /\ proved \in BOOLEAN /\ passed \in BOOLEAN
  BY DEF IInv, TypeOK
<1>1. CASE LoadConfig \/ Exited \/ UNCHANGED vars
  <2>1. UNCHANGED <<client, trusted, forgets, store, proved, passed>>
    BY <1>1 DEF LoadConfig, Load, Exited, vars
  <2> QED BY <1>0, <2>1, OthersKeepIInv
<1>2. ASSUME NEW h \in Header, NEW to \in DOMAIN FormOf, NEW t \in Token, NEW f \in FormOf[to],
             StrangerAsks(to, h, f, t)
      PROVE  IInv'
  <2>1. to \in {"oauth", "exchange"}
    BY DEF FormOf
  <2>2. AskForToken(to, h, f, t) /\ UNCHANGED <<trusted, passed, client, forgets>>
    BY <1>2 DEF StrangerAsks
  <2> QED BY <1>0, <2>1, <2>2, AskKeepsAccess, OthersKeepIInv
<1>3. ASSUME NEW h \in Header, NEW route, StrangerCalls(route, h)
      PROVE  IInv'
  <2>1. /\ UNCHANGED <<cfg, state, store, trusted, client, forgets>> /\ state = "up"
        /\ passed' = (passed \/ (route \in Api /\ MiddlewareVerdict(h) = 200))
        /\ proved' = (proved \/ Proves(h, NoForm))
    BY <1>3 DEF StrangerCalls
  <2>2. proved' \in BOOLEAN /\ passed' \in BOOLEAN
    BY <2>1
  <2>3. MiddlewareVerdict(h) = 200 => Proves(h, NoForm) \/ store # {}
    BY <2>1, MiddlewareProves DEF IInv
  <2> QED BY <1>0, <2>1, <2>2, <2>3, OthersKeepIInv
<1>4. CASE \E lost \in SUBSET store : Forget(lost)
  BY <1>4, ForgetKeepsIInv
<1>5. CASE Revoke
  BY <1>5, ConfigStays DEF Revoke, IInv, TypeOK, AccessIsProved, RefusalsCounted
<1> QED BY <1>1, <1>2, <1>3, <1>4, <1>5, RenewKeepsIInv, CallKeepsIInv DEF Next, Stranger, Client

-------------------------------------------------------------------------------
(* The theorems.                                                            *)

LEMMA Invariance == Spec => []IInv
  BY InitIInv, NextIInv, PTL DEF Spec

\* Every reachable state is well typed.
THEOREM GatewayTypeCorrect == Spec => []TypeOK
<1>1. IInv => TypeOK
  BY DEF IInv
<1> QED BY Invariance, <1>1, PTL

\* No token exists, and nothing under /api/v2 has run, without a request that
\* carried what the operator configured: config.go validate leaves no blank
\* setting that opens one of the three ways in.
THEOREM AccessProved == Spec => []AccessIsProved
<1>1. IInv => AccessIsProved
  BY DEF IInv
<1> QED BY Invariance, <1>1, PTL

\* Two 401s in a row for tokens that were not lost come from headscale, which
\* refuses the API key (errors.go).
THEOREM RefusalsMeanRevoked == Spec => []TwoRefusalsMeanRevoked
<1>1. IInv => TwoRefusalsMeanRevoked
  <2> SUFFICES ASSUME IInv, client.refusals = 2, trusted PROVE FALSE
    BY DEF IInv, TypeOK, TwoRefusalsMeanRevoked
  <2>1. client.refusals # 0
    OBVIOUS
  <2> QED BY <2>1 DEF IInv, RefusalsCounted
<1> QED BY Invariance, <1>1, PTL
-------------------------------------------------------------------------------
(* How the renewing client gets through.                                    *)

\* The client is waiting to be served, and nothing stands against it.
Waiting == state = "up" /\ client.pc # "served" /\ trusted

\* What is between the client and its answer: each loss of tokens that is still
\* to come costs it at most the call that is refused, the renewal and the call
\* with the new token.
Stage ==
    CASE client.pc = "holding" /\ Own \notin store -> 3
      [] client.pc = "tokenless"                   -> 2
      [] client.pc = "holding" /\ Own \in store    -> 1
      [] OTHER                                     -> 0
Distance == 4 * (MaxForgets - forgets) + Stage

\* While the client waits nobody throws it back, not even a loss of its token,
\* and each step of its own brings it nearer, unless it is served by it or the
\* API key is revoked: strangers, refusals and renewals cannot keep it going
\* round in circles (BearerAuthMiddleware, OAuthTokenHandler, errors.go).
DrawsNear ==
    [][Waiting /\ Waiting' => Distance' <= Distance /\ (Client => Distance' < Distance)]_vars

\* What the distance is, spelt out.
DistanceSpelt ==
    /\ client.pc \in {"tokenless", "holding", "served"}
    /\ client.pc = "tokenless" => Stage = 2
    /\ client.pc = "holding" => Stage = IF Own \in store THEN 1 ELSE 3
    /\ forgets \in Int /\ MaxForgets \in Int
    /\ Distance \in Nat /\ Distance = 4 * (MaxForgets - forgets) + Stage

LEMMA DistanceIsSpelt == IInv => DistanceSpelt
<1> SUFFICES ASSUME IInv PROVE DistanceSpelt
  OBVIOUS
<1>1. client.pc \in {"tokenless", "holding", "served"} /\ forgets \in 0 .. MaxForgets
  BY DEF IInv, TypeOK, ClientState
<1>2. Stage \in 0 .. 3
  BY DEF Stage
<1>3. Distance \in Nat /\ Distance = 4 * (MaxForgets - forgets) + Stage
  BY <1>1, <1>2, ClientAssumption DEF Distance
<1> QED BY <1>1, <1>3, ClientAssumption DEF DistanceSpelt, Stage

\* The client that knows the configured id and secret is always given a token.
LEMMA RenewalSucceeds ==
    ASSUME IInv, state = "up"
    PROVE  OAuthVerdict(ClientHeader, ClientForm) = 200
<1>1. ~ Blank(cfg.id) /\ ~ Blank(cfg.secret)
  BY DEF IInv, Valid
<1>2. cfg.id # "" /\ cfg.secret # ""
  BY <1>1 DEF Blank, Trim
<1>3. client.by \in {"header", "form"}
  BY DEF IInv, TypeOK, ClientState
<1>4. /\ OAuthCredentials(ClientHeader, ClientForm).ok
      /\ OAuthCredentials(ClientHeader, ClientForm).id = cfg.id
      /\ OAuthCredentials(ClientHeader, ClientForm).secret = cfg.secret
      /\ ClientForm.grant = "client_credentials"
  <2>1. CASE client.by = "header"
    BY <1>2, <2>1 DEF OAuthCredentials, ClientHeader, ClientForm, BasicUser, NoForm
  <2>2. CASE client.by = "form"
    BY <1>2, <2>2 DEF OAuthCredentials, ClientHeader, ClientForm, BasicUser, NoHeader
  <2> QED BY <1>3, <2>1, <2>2
<1> QED BY <1>4, Zenon DEF OAuthVerdict

\* A renewal is granted and stored, and a call that is answered 401 was made with
\* a token that is not in the store.
LEMMA ClientDrawsNear ==
    ASSUME IInv, DistanceSpelt, DistanceSpelt', Waiting, Waiting', Client
    PROVE  Distance' < Distance
<1>0. client \in ClientState /\ cfg.apiKey \in Text
  BY DEF IInv, TypeOK, Config
<1>1. CASE ClientRenews
  <2>1. OAuthVerdict(ClientHeader, ClientForm) = 200
    BY RenewalSucceeds DEF Waiting
  <2>2. /\ client' = [client EXCEPT !.pc = "holding"]
        /\ forgets' = forgets /\ client.pc = "tokenless"
    BY <1>1, <2>1 DEF ClientRenews
  <2>3. client'.pc = "holding" /\ Own \in store'
    BY <1>0, <1>1, <2>1, <2>2 DEF ClientRenews, ClientState, AskForToken, Generated
  <2> QED BY <2>2, <2>3 DEF DistanceSpelt
<1>2. CASE ClientCalls
  <2> DEFINE more == IF client.refusals = 0 THEN 1 ELSE 2
  <2>1. PICK code \in Outcome :
          client' = IF ApiStatus(Holding, code) = 401
                    THEN [client EXCEPT !.pc = "tokenless", !.refusals = more]
                    ELSE [client EXCEPT !.pc = "served", !.refusals = 0]
    BY <1>2 DEF ClientCalls, Holding
  <2>2. client.pc = "holding" /\ forgets' = forgets
    BY <1>2 DEF ClientCalls, Waiting
  <2>3. ApiStatus(Holding, code) = 401
    <3>1. SUFFICES ASSUME ApiStatus(Holding, code) # 401 PROVE FALSE
      OBVIOUS
    <3>2. client'.pc = "served"
      BY <1>0, <2>1, <3>1, ClientFields
    <3> QED BY <3>2 DEF Waiting
  <2>4. client'.pc = "tokenless"
    <3>1. more \in 0 .. 2 /\ client' = [client EXCEPT !.pc = "tokenless", !.refusals = more]
      BY <2>1, <2>3
    <3> HIDE DEF more
    <3> QED BY <1>0, <3>1, ClientFields
  <2>5. Own \notin store
    BY <1>0, <2>3, FreshTokensPass DEF Waiting
  <2> QED BY <2>2, <2>4, <2>5 DEF DistanceSpelt
<1> QED BY <1>1, <1>2 DEF Client

\* Others leave the client alone, and its token too, but for the losses that are
\* counted.
LEMMA OthersDoNotThrowBack ==
    ASSUME IInv, DistanceSpelt, DistanceSpelt', Waiting, Waiting', [Next]_vars, ~ Client
    PROVE  Distance' <= Distance
<1>1. CASE \E lost \in SUBSET store : Forget(lost)
  <2>1. client.pc = client'.pc /\ forgets' = forgets + 1
    BY <1>1 DEF Forget, IInv, TypeOK, ClientState
  <2> QED BY <2>1 DEF DistanceSpelt, Waiting
<1>2. CASE Stranger \/ LoadConfig \/ Revoke \/ Exited \/ UNCHANGED vars
  <2>1. client' = client /\ forgets' = forgets
    BY <1>2 DEF Stranger, StrangerAsks, StrangerCalls, LoadConfig, Revoke, Exited, vars
  <2>2. Own \in store => Own \in store'
    BY <1>2 DEF Stranger, StrangerAsks, StrangerCalls, LoadConfig, Load, Revoke, Exited, vars,
                AskForToken, Generated
  <2> QED BY <2>1, <2>2 DEF DistanceSpelt, Waiting
<1> QED BY <1>1, <1>2 DEF Next

\* No waiting client is thrown back, and each of its own calls and renewals
\* brings it nearer: the safety half of RenewingClientServed.
THEOREM NobodyGoesInCircles == Spec => [](Distance \in Nat) /\ DrawsNear
<1>1. DistanceSpelt => Distance \in Nat
  BY DEF DistanceSpelt
<1>2. IInv /\ DistanceSpelt /\ DistanceSpelt' /\ [Next]_vars
        => [Waiting /\ Waiting' => Distance' <= Distance /\ (Client => Distance' < Distance)]_vars
  <2> SUFFICES ASSUME IInv, DistanceSpelt, DistanceSpelt', [Next]_vars, Waiting, Waiting'
               PROVE  Distance' <= Distance /\ (Client => Distance' < Distance)
    OBVIOUS
  <2>1. Distance \in Nat /\ Distance' \in Nat
    BY DEF DistanceSpelt
  <2> QED BY <2>1, ClientDrawsNear, OthersDoNotThrowBack
<1> QED BY Invariance, DistanceIsSpelt, <1>1, <1>2, PTL DEF Spec, DrawsNear
=============================================================================
