------------------------------ MODULE TokenStore ------------------------------
(***************************************************************************)
(* The in-memory OAuth token store of every replica of headtotails and the *)
(* goroutines that share it: the handlers of the two token endpoints       *)
(* (internal/api/auth.go OAuthTokenHandler, wif.go TokenExchangeHandler),  *)
(* BearerAuthMiddleware in front of every /api/v2 route, and purgeLoop.    *)
(*                                                                         *)
(* A section that runs under tokenStore.mu is one action.  What the code   *)
(* does outside the lock is a step of its own: the expiry is computed      *)
(* before the token is stored, the reply is written after it, purge reads  *)
(* the time before it takes the lock, and the middleware reads the time    *)
(* after it has released it.                                               *)
(***************************************************************************)
EXTENDS Integers

CONSTANTS
    Replica,       \* the pods behind the Service, each with its own memory
    Token,         \* the values generateToken can return
    Request,       \* the request goroutines that may run at the same time
    ApiKey,        \* HEADSCALE_API_KEY, accepted as a bearer token
    NoCredential,  \* a request without a bearer token or a Basic user name
    TTL,           \* oauthTokenTTL, in clock ticks
    MaxClock,      \* bound on the clock
    Absent         \* "no value": a key missing from a map, an unset local

ASSUME TimeAssumption == TTL \in Nat /\ MaxClock \in Nat
ASSUME CredentialAssumption ==
    /\ ApiKey \notin Token
    /\ NoCredential \notin Token
    /\ ApiKey # NoCredential
ASSUME AbsentAssumption ==
    /\ Absent \notin Int
    /\ Absent \notin Replica
    /\ Absent \notin Token \cup {ApiKey, NoCredential}

VARIABLES
    clock,   \* what time.Now() returns (monotonic), the same for all replicas
    tokens,  \* tokens[r][t]: the expiry stored for t in the map of r, or Absent
    sweep,   \* sweep[r]: the `now` purge() of r has read, Absent between purges
    req,     \* req[q]: the locals of request goroutine q
    minted,  \* history: when each token was generated, by any replica, or Absent
    grant    \* history: the reply that delivered t, if its replica still runs

vars == <<clock, tokens, sweep, req, minted, grant>>

Credential == Token \cup {ApiKey, NoCredential}
Time == 0 .. MaxClock
Expiry == 0 .. (MaxClock + TTL)

\* pc "idle": no request; "store", "reply": in a token endpoint; "auth",
\* "decide": in the middleware; "admitted", "unauthorized": judged.
Idle == [pc |-> "idle", at |-> Absent, cred |-> Absent, exp |-> Absent,
         vouched |-> FALSE]

ReqState ==
    [pc      : {"idle", "store", "reply", "auth", "decide", "admitted", "unauthorized"},
     at      : Replica \cup {Absent},
     cred    : Credential \cup {Absent},
     exp     : Expiry \cup {Absent},
     vouched : BOOLEAN]

EmptyMap == [t \in Token |-> Absent]

Init ==
    /\ clock = 0
    /\ tokens = [r \in Replica |-> EmptyMap]
    /\ sweep = [r \in Replica |-> Absent]
    /\ req = [q \in Request |-> Idle]
    /\ minted = EmptyMap
    /\ grant = [t \in Token |-> Absent]

Tick ==
    /\ clock < MaxClock
    /\ clock' = clock + 1
    /\ UNCHANGED <<tokens, sweep, req, minted, grant>>

-------------------------------------------------------------------------------
(* The token endpoints, once the caller's credential has been accepted.    *)

\* Mutant: the lifetime is added twice.
DoubleLifetime(now) == now + TTL + TTL

Deadline(now) == now + TTL

\* generateToken: a fresh random value, then expiry := time.Now().Add(TTL).
Mint(q, r, t) ==
    /\ req[q].pc = "idle"
    /\ minted[t] = Absent
    /\ minted' = [minted EXCEPT ![t] = clock]
    /\ req' = [req EXCEPT ![q] = [pc |-> "store", at |-> r, cred |-> t,
                                  exp |-> Deadline(clock), vouched |-> FALSE]]
    /\ UNCHANGED <<clock, tokens, sweep, grant>>

\* store.store(tok, entry), under the lock.
Store(q) ==
    /\ req[q].pc = "store"
    /\ tokens' = [tokens EXCEPT ![req[q].at][req[q].cred] = req[q].exp]
    /\ req' = [req EXCEPT ![q].pc = "reply"]
    /\ UNCHANGED <<clock, sweep, minted, grant>>

\* writeJSON(200, access_token): the client has the token from here on ...
Reply(q) ==
    /\ req[q].pc = "reply"
    /\ grant' = [grant EXCEPT ![req[q].cred] = [by |-> req[q].at, until |-> req[q].exp]]
    /\ req' = [req EXCEPT ![q] = Idle]
    /\ UNCHANGED <<clock, tokens, sweep, minted>>

\* ... unless the write fails (client gone, WriteTimeout over).
ReplyLost(q) ==
    /\ req[q].pc = "reply"
    /\ req' = [req EXCEPT ![q] = Idle]
    /\ UNCHANGED <<clock, tokens, sweep, minted, grant>>

-------------------------------------------------------------------------------
(* BearerAuthMiddleware.                                                    *)

\* A request with credential c reaches replica r.  It is vouched for when c
\* is a token that r itself has already delivered since it started.
Arrive(q, r, c) ==
    /\ req[q].pc = "idle"
    /\ req' = [req EXCEPT ![q] =
                  [pc |-> "auth", at |-> r, cred |-> c, exp |-> Absent,
                   vouched |-> c \in Token /\ grant[c] # Absent /\ grant[c].by = r]]
    /\ UNCHANGED <<clock, tokens, sweep, minted, grant>>

\* The two checks before the store is consulted.
CheckStatic(q) ==
    /\ req[q].pc = "auth"
    /\ \/ /\ req[q].cred = NoCredential
          /\ req' = [req EXCEPT ![q].pc = "unauthorized"]
       \/ /\ req[q].cred = ApiKey
          /\ req' = [req EXCEPT ![q].pc = "admitted"]
    /\ UNCHANGED <<clock, tokens, sweep, minted, grant>>

\* Mutant: only the presence of the token is checked, not its expiry.
HitAdmits(q) ==
    /\ req[q].pc = "auth"
    /\ req[q].cred \in Token
    /\ req' = [req EXCEPT ![q].pc =
                  IF tokens[req[q].at][req[q].cred] = Absent THEN "unauthorized"
                                                             ELSE "admitted"]
    /\ UNCHANGED <<clock, tokens, sweep, minted, grant>>

\* entry, ok := store.lookup(tok), under the read lock; !ok decides at once.
Lookup(q) ==
    /\ req[q].pc = "auth"
    /\ req[q].cred \in Token
    /\ LET entry == tokens[req[q].at][req[q].cred] IN
       \/ /\ entry = Absent
          /\ req' = [req EXCEPT ![q].pc = "unauthorized"]
       \/ /\ entry # Absent
          /\ req' = [req EXCEPT ![q].pc = "decide", ![q].exp = entry]
    /\ UNCHANGED <<clock, tokens, sweep, minted, grant>>

\* Mutant: the token is refused on the very tick of its expiry.
DecideInclusive(q) ==
    /\ req[q].pc = "decide"
    /\ req' = [req EXCEPT ![q].pc = IF clock >= req[q].exp THEN "unauthorized"
                                                           ELSE "admitted"]
    /\ UNCHANGED <<clock, tokens, sweep, minted, grant>>

\* time.Now().After(entry.expiry), read after the lock was released.
Decide(q) ==
    /\ req[q].pc = "decide"
    /\ req' = [req EXCEPT ![q].pc = IF clock > req[q].exp THEN "unauthorized"
                                                          ELSE "admitted"]
    /\ UNCHANGED <<clock, tokens, sweep, minted, grant>>

\* The 401 is written, or the route's handler has run and answered.
Respond(q) ==
    /\ req[q].pc \in {"admitted", "unauthorized"}
    /\ req' = [req EXCEPT ![q] = Idle]
    /\ UNCHANGED <<clock, tokens, sweep, minted, grant>>

-------------------------------------------------------------------------------
(* purgeLoop and the life of a replica.                                     *)

\* The ticker fires and purge() reads the time, before it has the lock.
PurgeRead(r) ==
    /\ sweep[r] = Absent
    /\ sweep' = [sweep EXCEPT ![r] = clock]
    /\ UNCHANGED <<clock, tokens, req, minted, grant>>

\* Mutant: a token is dropped on the very tick of its expiry.
SweptInclusive(f, now) ==
    [t \in Token |-> IF f[t] # Absent /\ now >= f[t] THEN Absent ELSE f[t]]

\* Mutant: the loop forgets to delete.
SweptNothing(f, now) == f

Swept(f, now) ==
    [t \in Token |-> IF f[t] # Absent /\ now > f[t] THEN Absent ELSE f[t]]

\* The loop over the map, under the lock.
PurgeSweep(r) ==
    /\ sweep[r] # Absent
    /\ tokens' = [tokens EXCEPT ![r] = Swept(@, sweep[r])]
    /\ sweep' = [sweep EXCEPT ![r] = Absent]
    /\ UNCHANGED <<clock, req, minted, grant>>

\* The process dies and is started again: newTokenStore() is empty, the
\* requests in flight are gone, and so is every promise r has made.
Restart(r) ==
    /\ tokens' = [tokens EXCEPT ![r] = EmptyMap]
    /\ sweep' = [sweep EXCEPT ![r] = Absent]
    /\ req' = [q \in Request |-> IF req[q].at = r THEN Idle ELSE req[q]]
    /\ grant' = [t \in Token |-> IF grant[t] # Absent /\ grant[t].by = r
                                 THEN Absent ELSE grant[t]]
    /\ UNCHANGED <<clock, minted>>

-------------------------------------------------------------------------------
TokenEndpoint(q) ==
    \/ \E r \in Replica, t \in Token : Mint(q, r, t)
    \/ Store(q)
    \/ Reply(q)
    \/ ReplyLost(q)

Middleware(q) ==
    \/ \E r \in Replica, c \in Credential : Arrive(q, r, c)
    \/ CheckStatic(q)
    \/ Lookup(q)
    \/ Decide(q)
    \/ Respond(q)

PurgeLoop(r) == PurgeRead(r) \/ PurgeSweep(r)

Next ==
    \/ Tick
    \/ \E q \in Request : TokenEndpoint(q) \/ Middleware(q)
    \/ \E r \in Replica : PurgeLoop(r) \/ Restart(r)

Spec == Init /\ [][Next]_vars

\* A goroutine that can run does run, and the ticker keeps firing.
HandlerStep(q) ==
    \/ Store(q) \/ Reply(q) \/ ReplyLost(q)
    \/ CheckStatic(q) \/ Lookup(q) \/ Decide(q) \/ Respond(q)

FairSpec ==
    /\ Spec
    /\ \A q \in Request : WF_vars(HandlerStep(q))
    /\ \A r \in Replica : WF_vars(PurgeLoop(r))
-------------------------------------------------------------------------------
(* Properties.                                                              *)

\* Every variable has its type.
TypesOK ==
    /\ clock \in Time
    /\ tokens \in [Replica -> [Token -> Expiry \cup {Absent}]]
    /\ sweep \in [Replica -> Time \cup {Absent}]
    /\ req \in [Request -> ReqState]
    /\ \A q \in Request :
          /\ req[q].pc \in {"store", "reply", "decide"} =>
                req[q].at \in Replica /\ req[q].cred \in Token /\ req[q].exp \in Expiry
          /\ req[q].pc = "auth" => req[q].at \in Replica /\ req[q].cred \in Credential
    /\ minted \in [Token -> Time \cup {Absent}]
    /\ grant \in [Token -> [by : Replica, until : Expiry] \cup {Absent}]

\* No expiry stored at any time lies further than TTL beyond that very time.
ExpiriesInReach ==
    \A r \in Replica, t \in Token :
        tokens[r][t] # Absent => tokens[r][t] <= clock + TTL

\* Every variable has its type, and at every instant no entry of a token map
\* has an expiry further away than oauthTokenTTL from that instant
\* (expiry := time.Now().Add(oauthTokenTTL), auth.go OAuthTokenHandler).
TypeOK == TypesOK /\ ExpiriesInReach

\* A token that was delivered to a client stays in the map of the replica
\* that issued it, with the expiry computed when it was issued, until it has
\* lapsed: neither purge with its early clock reading nor a reply that
\* overtakes store() can take it away (auth.go purge, OAuthTokenHandler).
DeliveredTokensKept ==
    \A t \in Token :
        grant[t] # Absent /\ clock <= grant[t].until
            => tokens[grant[t].by][t] = grant[t].until

\* A request that arrives with a token its own replica has delivered is
\* answered 401 only if that token has lapsed by then, whatever purges and
\* other requests run between the look-up and the clock reading
\* (BearerAuthMiddleware, "invalid or expired token").
NoSpuriousRejection ==
    \A q \in Request :
        req[q].pc = "unauthorized" /\ req[q].vouched
            => clock > grant[req[q].cred].until

\* A request is let through with a token only while that token is at most
\* TTL old, however late purge runs and however long the middleware pauses
\* between the look-up and the clock reading (oauthTokenTTL, auth.go).
AdmittedWithinTTL ==
    [][\A q \in Request :
          req[q].pc \in {"auth", "decide"} /\ req'[q].pc = "admitted" /\ req[q].cred \in Token
              => /\ minted[req[q].cred] # Absent
                 /\ clock <= minted[req[q].cred] + TTL]_vars

\* Lapsed tokens do not pile up: each is eventually deleted by purgeLoop.
LapsedTokensPurged ==
    \A r \in Replica, t \in Token :
        (tokens[r][t] # Absent /\ clock > tokens[r][t]) ~> (tokens[r][t] = Absent)

\* The refinement mapping: a token is fresh until it is stored, lapsed entries
\* do not count, and a request is pending from its arrival until it is judged.
Judging == {"auth", "decide"}
InMiddleware == Judging \cup {"admitted", "unauthorized"}

FreshTokens ==
    {t \in Token : minted[t] = Absent
                     \/ \E q \in Request : req[q].pc = "store" /\ req[q].cred = t}

LiveEntries ==
    [r \in Replica |->
        [t \in Token |-> IF tokens[r][t] # Absent /\ clock <= tokens[r][t]
                         THEN tokens[r][t] ELSE Absent]]

CallOf(x) ==
    IF x.pc \in InMiddleware
    THEN [verdict |-> IF x.pc \in Judging THEN "pending" ELSE x.pc,
          at |-> x.at, cred |-> x.cred]
    ELSE [verdict |-> "none", at |-> Absent, cred |-> Absent]
Calls == [q \in Request |-> CallOf(req[q])]

Live == INSTANCE LiveTokens WITH fresh <- FreshTokens, live <- LiveEntries, call <- Calls

\* The store, its lock, the purge goroutine and the two-step check together
\* behave as LiveTokens: every verdict is the right one at one instant
\* between the arrival of the request and its answer, and a token is granted
\* once, by one replica, for no longer than TTL.
ImplementsLiveTokens == Live!Spec
===============================================================================
