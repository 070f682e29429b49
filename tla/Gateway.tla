-------------------------------- MODULE Gateway --------------------------------
(***************************************************************************)
(* The parts put together as a client sees them: Router.Build              *)
(* (internal/api/router.go) puts BearerAuthMiddleware in front of every    *)
(* route under /api/v2 but the token endpoints, a handler behind it calls  *)
(* headscale with HEADSCALE_API_KEY, and errors.go turns the outcome into  *)
(* a status.  Around it: strangers, who try everything; headscale's        *)
(* administrator, who may revoke the API key; and a client that holds the  *)
(* right credentials and renews its token when it is answered 401.         *)
(***************************************************************************)
EXTENDS Admission, Upstream, Integers

CONSTANTS
    Own,        \* the tokens issued to that client, one at a time
    MaxForgets  \* bound: how often the store may lose tokens

ASSUME ClientAssumption == Own \in Token /\ MaxForgets \in Nat

VARIABLES
    trusted,  \* does headscale accept the configured API key?
    passed,   \* history: has a handler behind the middleware run for anybody?
    client,   \* the client: whether it has a token, and its 401s in a row
    forgets   \* counts the losses of tokens

vars == <<cfg, state, store, proved, trusted, passed, client, forgets>>

\* "served": the last call has come back with something else than 401.
\* by: whether it sends its credentials in the header or in the form.
ClientState ==
    [pc : {"tokenless", "holding", "served"}, by : {"header", "form"}, refusals : 0 .. 2]

Init ==
    /\ AdmissionInit
    /\ trusted = TRUE
    /\ passed = FALSE
    /\ client \in [pc : {"tokenless"}, by : {"header", "form"}, refusals : {0}]
    /\ forgets = 0

\* The route table: what is answered without the middleware, and the routes
\* behind it, with a call to headscale or with a 501 (the stubs, and any path
\* under /api/v2 that is not in the table).
Open == {"healthz", "metrics"}
Api == {"headscale", "stub"}

LoadConfig ==
    /\ Load
    /\ UNCHANGED <<trusted, passed, client, forgets>>

\* Anybody asks for a token, with anything.
StrangerAsks(to, h, f, t) ==
    /\ t # Own
    /\ AskForToken(to, h, f, t)
    /\ UNCHANGED <<trusted, passed, client, forgets>>

\* Anybody calls a route, with anything in the header.
StrangerCalls(route, h) ==
    /\ state = "up"
    /\ passed' = (passed \/ (route \in Api /\ MiddlewareVerdict(h) = 200))
    /\ proved' = (proved \/ Proves(h, NoForm))
    /\ UNCHANGED <<cfg, state, store, trusted, client, forgets>>

\* The client credentials grant.
ClientHeader ==
    IF client.by = "header"
    THEN [scheme |-> "basic", user |-> cfg.id, password |-> cfg.secret] ELSE NoHeader
ClientForm ==
    IF client.by = "header" THEN [NoForm EXCEPT !.grant = "client_credentials"]
    ELSE [grant |-> "client_credentials", id |-> cfg.id, secret |-> cfg.secret, jwt |-> ""]

ClientRenews ==
    /\ client.pc = "tokenless"
    /\ AskForToken("oauth", ClientHeader, ClientForm, Own)
    /\ client' = IF OAuthVerdict(ClientHeader, ClientForm) = 200
                 THEN [client EXCEPT !.pc = "holding"] ELSE client
    /\ UNCHANGED <<trusted, passed, forgets>>

\* How headscale may answer a call made with the configured API key.
Outcome == IF trusted THEN Code \ {"Unauthenticated"} ELSE {"Unauthenticated"} \cup Ambiguous

\* What the handler of a headscale route, or the middleware before it, answers.
ApiStatus(h, code) == IF MiddlewareVerdict(h) = 200 THEN HTTPStatus(code) ELSE 401

ClientCalls ==
    /\ state = "up"
    /\ client.pc \in {"holding", "served"}
    /\ LET h == [scheme |-> "bearer", user |-> Own, password |-> ""] IN
       /\ \E code \in Outcome :
             client' = IF ApiStatus(h, code) = 401
                       THEN [client EXCEPT !.pc = "tokenless",
                                           !.refusals = IF @ = 0 THEN 1 ELSE 2]
                       ELSE [client EXCEPT !.pc = "served", !.refusals = 0]
       /\ passed' = (passed \/ MiddlewareVerdict(h) = 200)
    /\ UNCHANGED <<cfg, state, store, proved, trusted, forgets>>

\* Tokens lapse, or the process is restarted, or the Service sends the client
\* to another replica from now on.  The client's refusals before that tell it
\* nothing about its next token.
Forget(lost) ==
    /\ state = "up" /\ lost # {} /\ forgets < MaxForgets
    /\ store' = store \ lost
    /\ client' = IF Own \in lost THEN [client EXCEPT !.refusals = 0] ELSE client
    /\ forgets' = forgets + 1
    /\ UNCHANGED <<cfg, state, proved, trusted, passed>>

\* The API key is revoked, or expires.
Revoke ==
    /\ trusted
    /\ trusted' = FALSE
    /\ UNCHANGED <<cfg, state, store, proved, passed, client, forgets>>

\* There is nothing to do after a failed start.
Exited == state = "exited" /\ UNCHANGED vars

Stranger ==
    \E h \in Header :
        \/ \E to \in DOMAIN FormOf, t \in Token : \E f \in FormOf[to] : StrangerAsks(to, h, f, t)
        \/ \E route \in Open \cup Api : StrangerCalls(route, h)

Client == ClientRenews \/ ClientCalls

Next ==
    \/ LoadConfig
    \/ Stranger
    \/ Client
    \/ \E lost \in SUBSET store : Forget(lost)
    \/ Revoke
    \/ Exited

Spec == Init /\ [][Next]_vars

\* The client keeps calling, and renews when it must.
FairSpec == Spec /\ WF_vars(Client)
-------------------------------------------------------------------------------
(* Properties.                                                              *)

TypeOK ==
    /\ cfg \in Config
    /\ state \in {"starting", "up", "exited"}
    /\ store \subseteq Token
    /\ {proved, trusted, passed} \subseteq BOOLEAN
    /\ client \in ClientState
    /\ forgets \in 0 .. MaxForgets

\* No token is issued, and no handler under /api/v2 runs, before some request
\* has carried non-blank credentials equal to the configured ones or a JWT of
\* the configured client: no blank setting that start-up lets pass disables
\* authentication on any of the three ways in (config.go validate, "An empty
\* credential silently disables authentication").
AccessIsProved ==
    store # {} \/ passed => proved

\* A client that is answered 401 for a token, renews it, and is answered 401
\* again before any token was lost, knows that headscale refuses the API key:
\* nothing else makes a 401 of a fresh token (errors.go hands the 401 of
\* headscale on as if it were about the client's token).
TwoRefusalsMeanRevoked ==
    client.refusals = 2 => ~ trusted

\* A client that renews its token on a 401 gets through in the end, whatever
\* strangers do and however often its tokens were lost, unless the API key is
\* revoked.
RenewingClientServed ==
    state = "up" ~> (client.pc = "served" \/ ~ trusted)
================================================================================
