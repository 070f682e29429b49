# headtotails: a verification project

headtotails answers the REST API of Tailscale with the gRPC API of a headscale
server. It keeps little state of its own -- OAuth tokens and a cached key set --
and its handlers are short, but they run concurrently, talk to two other
systems that change on their own (headscale, an OIDC issuer), and may be cut off
between any two calls. The modules here model that: the state the process
keeps, the order of the steps of each handler, and what may happen in between.

## The system

| part | state | operations | hard behaviour |
|---|---|---|---|
| token store and bearer authentication (`internal/api/auth.go`) | map token -> expiry under an RWMutex, one per process | issue, store, reply; look-up, clock reading; purge every 5 min | purge and middleware read the clock outside the lock; reply against store; restarts and replicas |
| JWT validation (`internal/api/wif.go`) | key set and `fetchedAt`, under an RWMutex | look-up, discovery, fetch, replace, second look-up, verify | concurrent refreshes, slow answers, key rotation, failing issuer |
| configuration (`internal/config/config.go`) | settings, read once | load, validate | a blank secret must not disable a comparison downstream |
| auth-key routes (`internal/api/keys.go`, `internal/headscale/client.go`) | none; headscale's users and pre-auth keys | list, create, get, delete, each 2 to 4 gRPC calls | interleaving calls, partial failure, lost answers, retry, users that come and go |
| auth-key expiry and answers (`internal/translate/key.go`) | none | default and arithmetic in int64 nanoseconds; the fields `invalid` and `expires` | overflow; what a key that was shown as good can still do |
| policy routes (`internal/api/policy.go`) | headscale's policy | get, set | errors answered as an empty policy; lost updates |
| device and user routes (`devices.go`, `users.go`) | headscale's nodes and users | mostly one call each; authorize is two | check, then act |
| error mapping (`errors.go`) | none | gRPC code -> HTTP status | a failed call may have taken effect; upstream 401 looks like one's own |
| router and middleware chain (`internal/api/router.go`) | none | which routes are behind the middleware | a 401 may be the middleware's or headscale's |
| life cycle (`cmd/headtotails/main.go`) | the HTTP server | start, serve, drain within 30 s | requests cut off; timeouts that must fit each other; calls without a deadline |
| metrics, logging, JSON models, mock client | -- | -- | -- |

Calls between the parts: `main` loads the configuration and builds one router,
which owns one token store and, with WIF enabled, one `OIDCValidator`. The two
token endpoints are not authenticated by the middleware and write to the store;
every other `/api/v2` route is behind `BearerAuthMiddleware`, which reads it.
`TokenExchangeHandler` calls the validator, which calls the issuer over HTTP.
The API handlers call headscale and nothing else.

What makes each part correct: a token that has been delivered is honoured for
its whole lifetime, by its replica, and no longer; a withdrawn signing key dies
and a published one is found, within bounds the code's constants give; nobody
is admitted without configured credentials; an answer of the key routes is true,
no other tailnet's keys are touched, a key is revoked before it is removed, and
a repeated DELETE gets there unless headscale refuses it; the status of an answer tells a client whether its
request has taken effect; a client that renews its token on 401 is served, and
one that is refused twice in a row knows why; a key that an answer shows as
usable is usable; a client that edits the policy while nobody else does loses
nothing; and a signal ends the process without costing anybody an answer that
was still to be had.

## Modules

| module | models | of |
|---|---|---|
| `LiveTokens` | abstract: the set of tokens a replica honours, each granted once, by one replica, for at most TTL; a verdict is one step | what auth.go promises |
| `TokenStore` | the store, purge, both endpoints' issuing half, the middleware | auth.go, wif.go 385-399 |
| `TokenStore_proofs` | theorems about `TokenStore`, and that it implements `LiveTokens` | |
| `JWKSCache` | `OIDCValidator` and its issuer | wif.go 28-340 |
| `JWKSCache_proofs` | theorems about `JWKSCache` | |
| `Admission` | start-up check and verdict order; actions without a behaviour of their own | config.go, auth.go, wif.go 345-383 |
| `Upstream` | gRPC codes and the statuses they are answered with | errors.go |
| `Gateway` | the composition: router, `Admission`, a headscale route by way of `Upstream`, strangers, and a client that renews its token | router.go, errors.go |
| `Gateway_proofs` | theorems about `Gateway` | |
| `Headscale` | users, pre-auth keys, the administrator (external) | what client.go relies on |
| `KeysApi` | the auth-key handlers, refusals, failures, a retrying client; extends `Headscale`, `Upstream` | keys.go, client.go, errors.go |
| `KeysApi_proofs` | theorems about `KeysApi` | |
| `DevicesApi` | the device and user handlers, failures, a retrying client; extends `Upstream` | devices.go, users.go, client.go |
| `DevicesApi_proofs` | theorems about `DevicesApi` | |
| `PolicyApi` | the policy handlers under read-modify-write clients; extends `Upstream` | policy.go |
| `PolicyApi_proofs` | theorems about `PolicyApi` | |
| `KeyExpiry` | the life of a key as its answers show it, in integers of a given width | translate/key.go |
| `KeyExpiry_proofs` | theorems about `KeyExpiry` | |
| `Lifecycle` | the process: start, signals, drain, timeouts, handlers in flight | main.go, client.go, wif.go |
| `Lifecycle_proofs` | theorems about `Lifecycle` | |

`MC*` modules extend these with what TLC needs: symmetry, sets of inputs.

### TokenStore

`tokens[r]` is `tokenStore.tokens` of replica r, `sweep[r]` the local `now` of
its purge, `req[q]` the locals of a request goroutine with a program counter.
Each critical section of `tokenStore.mu` is one action (`Store`, `Lookup`,
`PurgeSweep`), and what the code does outside it is another: `Mint` (generate
and compute the expiry), `Reply`/`ReplyLost`, `Decide` (the clock reading after
the look-up), `PurgeRead` (the clock reading before the lock). `Restart` empties
a replica's memory and drops its requests. `generateToken` returns a value never
returned before: 32 random bytes. Two history variables serve the properties:
`minted` (when a token was generated) and `grant` (which reply delivered it).

Simplifications: one clock for all replicas (no entry is ever compared on a
replica other than the one that wrote it); the purge period is any time;
restarts keep the clock. The case where generateToken fails changes no state
and is left out, as are the 400 and 401 answers before it, which are
`Admission`'s.

### JWKSCache

`jwks` is the cache, `req[q]` a call of `Validate`. The two critical sections
under RLock are `Lookup` and `Reread`, the one under Lock is in `StoreJWKS`;
`Discovered`, `IssuerAnswers` and the reading of the body are steps of the
network, each of which `CallFails` may replace. `IssuerAnswers` takes the key
set the issuer serves at that moment, so an answer may be old when it is stored.
`Rotate` changes the issuer's set. `since` (history) tells when a key was last
published or withdrawn.

Timing is an assumption: local steps take less than a tick, so `Tick` waits for
them, and a call lasts at most `MaxFetch` ticks, the HTTP client's timeout
(10 s). A goroutine that is stalled for longer adds the stall to the bounds. A
JWT is a record of what the validation looks at; decoding is its `form`,
signatures are the form the signer gave them.

### Admission and Gateway

`Valid` is `Config.validate`, the three verdicts are the handlers' conditions in
their order, over texts that may be empty or blank. A request has one
Authorization header, bearer or Basic, and a form. `proved` (history) records
that some request carried what the operator configured. `Load` and
`AskForToken` are used by `Gateway`, which adds its variables to them.

`Gateway` is the route table: `Open` routes are answered without the
middleware, `Api` routes behind it, by a handler that calls headscale or by a
501. `StrangerAsks` and `StrangerCalls` are anybody with anything. The client
asks for a token (`ClientRenews`), calls a headscale route (`ClientCalls`), and
asks again when it was answered 401; `refusals` counts its 401s in a row.
`Revoke` is headscale refusing HEADSCALE_API_KEY from now on, and `Forget` any
loss of tokens: they lapse, the process restarts, or the client is sent to
another replica. How these come about is `TokenStore`'s subject; here the store
is a set. Start-up reads the configuration once (`LoadConfig`).

### Headscale and KeysApi

Every gRPC call of a handler is an action: `ResolveUser` (ListUsers and the
rest of `resolveTailnetUser`), `ListPreAuthKeys`, `CreatePreAuthKey`,
`ExpirePreAuthKey`, `DeletePreAuthKey`. `RPCFails` stands for any error of the
call being waited for, answered with the status `Upstream` gives its code: a
refusal without an effect, or an ambiguous failure with or without one. Of the
refusals, `NotFound` is the handlers' own actions' business, for headscale says
it only of what is not there. `Crash` is the end of the process. The administrator adds and removes users, creates keys, and keys lapse.
User ids and key ids are never used twice, as headscale's are database sequence
numbers, and names do not change. For a key that is gone headscale may answer an
expire or delete with success or an error. Registration of nodes is not
modelled: "valid" says that a node could register.

`tailnetName` is TAILNET_NAME, chosen at start-up and fixed from then on. It may
be empty, which `validate` lets through, and a headscale user may have no name
(`Nameless`): the two match, and for that user `ListPreAuthKeys` filters nothing
(`KeysOfName`). That every key has a user is assumed of headscale.

### Upstream and DevicesApi

`HTTPStatus` is `grpcStatusToHTTP`. The codes are split by what they say of the
call: a `Refusal` has changed nothing, an `Ambiguous` one leaves it open. That
headscale keeps to this is an assumption about headscale.

All device and user handlers have the same course: parse the id, decode the
body, call, translate; `AuthorizeDevice` calls twice, GetNode and then, if asked
to authorize, RegisterNode. Handlers that run the same way share an action
(`SetDevice` is RenameDevice, SetDeviceTags and SetDeviceRoutes). What a write
puts into a node is abstracted to `done`, the fact that the present attempt has
changed something. `form` tells how an id was written, since GetUser compares
texts where all others parse numbers. headscale may stop accepting
headtotails' API key (`trusted`).

### PolicyApi

A policy is a set of rules, `Unset` if headscale has none. A client's cycle is
GET, add a rule, POST. A POST whose call fails stays in `late`: headscale may
execute it at any later time, or never. `kept` (history) are the rules whose POST
was answered 200, `overlapped` (history) says whether some cycle has begun while
another one, or a late POST, was still on, and `unknown` (history) whether a
GetPolicy call has failed with the code Unknown. `TurnsKeepRules` speaks of runs
in which neither has happened.

### KeyExpiry

`Width` and `Nano` stand for 64 and 10^9. One key goes through its life: it is
created with some `expirySeconds` at some part of a second, shown by GET, used by
a node, expired, deleted, and time passes in nanoseconds. `shown` is what a
client knows from the last answer, forgotten when the key changes. Whether
headscale notes the use of a reusable key is left open.

### Lifecycle

`phase` is how far `main` has got, `req[q]` a request with its handler and its
client. One tick is 5 s, the common divisor of the timeouts: `ReadTimeout` and
`WriteTimeout` 15 s, the HTTP client's 10 s, `Shutdown`'s 30 s. What `main` or a
handler does on its own takes no time, so `Tick` waits for what is due
(`Urgent`, and `Notify`). `Fatal` is the test of the server goroutine that tells
ErrServerClosed, which `Shutdown` provokes, from a failure.

A handler makes up to 0, 2 or `HeadscaleCalls` calls, by its `Kind`, and a
request's body (`input`) may be read before, between or after them: SetPolicy
and the device routes read it first, CreateKey after ListUsers, the token
endpoints read forms first and nothing else, many handlers read nothing and
leave the body to net/http, which reads it before the answer is written. net/http
looks out for a client that leaves once the body has been read to its end; from
then on, and for a request without one from the start, the context of a call
ends when the client has gone (`CallOver`). A call to the issuer is cut by the HTTP client's timeout, a call to
headscale has no deadline and ends with headscale's answer or the client's
leaving. An answer written after `WriteTimeout` is lost, for the handler ignores
the error. `Signal` before `Notify` kills the process; a second signal is
not read.

Simplifications: at exactly 15 s an answer may or may not arrive; a connection
that was accepted but has sent no request when the drain begins is left out, as
`Shutdown` may close it; the header's reading time is not counted; that
net/http may itself end a request's context after `ReadTimeout` is covered by
`UpstreamAnswers`, which may answer with an error at any time.

## Runs

| run | configuration | states | what it shows |
|---|---|---|---|
| `token_store` | 2 replicas, 1 token, 2 requests, TTL 1, clock to 3 | 283k | types; delivered tokens are kept; no early refusal; none honoured beyond TTL; the store implements `LiveTokens`; lapsed tokens are purged |
| `jwks_cache` | 2 requests, a usable and an unusable key, TTL 2, timeout 1, clock to 4 | 2.0M | withdrawn keys die before TTL + timeout; published keys are found after one timeout; a key that is served leaves the cache by no failed or late refresh |
| `jwks_overtaken` | 2 requests, clock to 1 | – | **violation**: "not found" although the request has just fetched the key |
| `jwks_algorithms` | the same | – | **violation**: ES256 in the form of RFC 7518 is refused |
| `gateway` | texts "", " ", "a", "b", two tokens, tokens lost twice | 38k | access only after configured credentials; two 401s in a row mean a revoked API key; a client that renews is served |
| `auth_keys` | TAILNET_NAME -, alice or empty, 2 users, one of them nameless, 1 key, 2 requests, 2 faults, refusals answered 401 and 500 | 1.8M | answers; isolation under a non-empty name; revoke before remove; a repeated DELETE converges or is refused |
| `devices` | 1 node, 1 user, 2 requests, 2 faults | 276k | what 200, 4xx and 404 tell; a repeated DELETE ends |
| `policy_turns` | 2 clients, 3 rules, 2 faults, every ambiguous code | 39k | no acknowledged rule is lost while clients take turns, wait out failed POSTs, and no GetPolicy fails with Unknown |
| `policy_unknown` | the same, with the code Unknown alone | – | **violation**: an empty policy is read although headscale has one |
| `key_expiry` | seven-bit integers, 4 ns to a second, clock to 20 | 1.1M | representable lifetimes are exact; a key shown as usable is |
| `key_expiry_wrap` | the same | – | **violation**: a large expirySeconds gives an expired key |
| `lifecycle` | 2 requests, the code's timeouts, 2 calls to headscale | 553k | the drain costs no answer, whatever ends it; when a token exchange loses its reply; signals end the process; handlers whose client is seen to leave end |

Bounds. A clock that runs to TTL + 2 has room for a token to be issued late, to
be on its last tick and to lapse, with a purge that read the time at any of
those; a second token would add nothing, as no step looks at two entries but the
purge, which treats each alone. Two requests suffice for one to be overtaken by
the other; the properties speak of one token, key or request and one adversary.
In `jwks_cache` the clock covers a fetch, the cache's whole life and one more
fetch. In `gateway` the two proper texts are one that was configured and one
that was not; losing tokens twice lets a refusal of either kind follow a loss.
Two faults in `auth_keys` let both the expire and the delete step of
one DELETE fail, or one fail and the process crash; of the refusals one is
answered with a status of its own and ends the client's retries, the other is
answered 500, and the rest of the table differs from the first in the number
only. In `devices` one node and
one user are enough, as no handler looks at a second one. In `policy_turns`
three rules allow for one that was there, one acknowledged and one in flight.
In `key_expiry` seven bits hold lifetimes of up to 15 seconds, the default of
three seconds and every wrap-around among 128 values; the clock covers the
default's whole life from any part of a second. `lifecycle` has the code's own
timeouts and needs no bound but the number of requests, one that the drain waits
for and one that is over or arrives in between, and that of a handler's calls to
headscale: two let a body be read before, between and after them, where the code
has up to four. For the safety properties the
theorems below lift these bounds.
`Symmetry` is used only where no liveness property is checked.

Fairness. `TokenStore`: a handler that can step does (goroutines are scheduled),
and the purge ticker keeps firing; nothing is assumed of new requests, of time
or of restarts. `KeysApi`, `DevicesApi`: handlers go on, and a client whose
DELETE failed repeats it; the number of faults is finite, which is the assumption without
which no retry can converge. `Gateway`: the client keeps calling, or asking for
a token when it has none; nothing is assumed of strangers, and tokens are lost
finitely often, without which nobody is ever served. `Lifecycle`: time passes,
`main` goes on and `Shutdown` returns, and handlers step when they can (`Tick`,
`Notify`, `Drained`, `DrainTimeout`, `HandlerStep`); headscale may never answer, no client need ever
leave and no body need ever come, so that what is shown rests on the timeouts
and the request's context alone.

## Findings

* `jwks_overtaken`: `getKey` refreshes the cache and then reads it again. A
  slower refresh may have replaced it with an older key set, and the request is
  answered `kid not found in JWKS`. `PublishedKeysFound` bounds the harm: it can
  happen only within one timeout of the key's publication.
* `jwks_algorithms`: ES256 is verified as DER (`ecdsa.VerifyASN1`); JWS uses the
  raw form, so no standard ES256 token is accepted.
* `key_expiry_wrap`: `time.Duration(expirySeconds) * time.Second` is unchecked.
* `policy_unknown`: `GetPolicy` takes the code Unknown, which gRPC makes of any
  plain error, for a missing policy, and a client that edits what it was given
  and writes it back wipes the real one. If headscale does report a missing
  policy with Unknown, the comment in the code is what has to change, but the
  two cases cannot then be told apart at all.

Noticed while modelling, without a run: `GET /tailnet/{tailnet}/devices` ignores
`{tailnet}`, where docs/original-plan.md:187 has `ListNodes` "filter by
user/tailnet"; ids of devices are not zero-padded as the plan says; the
default form of `GET .../acl` is not one that `POST .../acl` takes; with
TLS_CERT set but not TLS_KEY the process serves plain HTTP without a word
(main.go:109); with an empty TAILNET_NAME, which `validate` accepts, and a
headscale user without a name, the key routes see and delete everybody's keys
(client.go:139); and CreateKey waits for `ListUsers` before it reads the body,
so that a client that leaves meanwhile is not noticed and a `ListUsers` that
hangs is never cancelled (keys.go:46).

## Proofs

`TokenStore_proofs` proves, for any sets of replicas, tokens and requests, any
TTL and any length of a run, from the assumptions `TimeAssumption`,
`CredentialAssumption` and `AbsentAssumption`:

* `TypeCorrect`: `Spec => []TypeOK`;
* `Invariance`: `Spec => []IInv`;
* `DeliveredTokensAreKept`, `NoSpuriousRejections`, `AdmittedTokensAreYoung`:
  three properties of the run `token_store`;
* `EntriesLapse`: what a purge leaves (below);
* `TokenStoreImplementsLiveTokens`: the refinement.

Of `TypeOK` the types (`TypesOK`) are inductive by themselves; that no expiry
lies further ahead than TTL (`ExpiriesInReach`) rests on `MintsLookBack`, below.
The others need `IInv`: that a purge's clock
reading is not in the future (`SweepsLookBack`; otherwise a sweep could take a
live token); that every stored expiry is the one computed at generation
(`StoredExpiries`); that a token being issued is known to nobody else
(`FreshIssues`; otherwise two requests could overwrite each other's expiry); that
it is in the map when the reply is written, unless it has lapsed
(`StoredBeforeReply`), and stays there (`GrantsKept`); and what the middleware
may conclude between look-up and clock reading (`JudgedRightly`). `NextIInv` has
one step per action and one sub-step per conjunct.

For the refinement, the initial states map to `LiveTokens`' and every step to a
step or a stutter, under the mapping that the run checks too: the tokens a
replica honours are those in its map that have not lapsed, a token can still be
granted until it is stored, and a request's verdict is the abstract one once it
is decided. Two parts are added to `IInv` (`RInv`). A look-up that found a token
and a clock reading after it make one abstract verdict only because nothing but
expiry takes a live entry away while the process lives, and a restart drops the
request with the map (`FoundEntriesKept`). And a token that is being stored was
not generated in the future (`MintsLookBack`), so that the expiry it is stored
with, computed before the lock was taken, is at most TTL ahead.

`PolicyApi_proofs` proves `PolicyTypeCorrect` and `RulesAreKept`, whatever codes
calls fail with: until a GetPolicy call has failed with Unknown, the one failing
code it takes for a missing policy, rules are kept; `policy_unknown` shows what
happens then. The property is not inductive: a rule may be lost through
what a client has read or through a late POST, so `NothingLost` says that these
have all acknowledged rules as well, and `InTurns` that no two of them are on at
a time.

`DevicesApi_proofs` proves `DevicesTypeCorrect`, `OnlyServerErrors` (no answer
but 500 is ambiguous) and `NotFoundAbsent` (a 404 is true when it is given). The
strengthening is that a request still being handled has changed nothing: no
handler makes a second call after one that writes (the auth-key DELETE does, and
for it this property would not hold). For the 404 it is enough that `NotFound`
alone becomes one (`NotFoundTable`) and that only AuthorizeDevice makes a second
call.

`JWKSCache_proofs` proves `CacheTypeCorrect`, `WithdrawnDie`,
`PublishedFound` and `ServedStay` for any cache lifetime, any timeout and any number of requests
that refresh the cache in any order. The invariant is about key sets, not about
verdicts: a set that may have been sent at time t or later `Agrees` with the
issuer on every key that has not been published or withdrawn since t. A body
being read was sent no earlier than its call's deadline less the timeout; what
`StoreJWKS` puts into the cache is therefore at most one timeout older than its
stamp (`CacheOK`), whoever stores last. `RereadOK` says why the second
look-up need not ask how old the cache is: no time passes between it and a
refresh. The timing assumption above is what that rests on. `ServedStay` follows
from the same invariant: the set that replaces the cache is at most one timeout
old, and only a refresh that has a whole set replaces it.

`KeysApi_proofs` proves `KeysTypeCorrect`, `AnswersTrue`, `ExpiredFirst` and
`OthersUntouched` for any numbers of users, keys, requests and faults, assuming
that headscale's users are finitely many (`UserAssumption`, for the count in
`resolveTailnetUser`); `OthersUntouched` is for a TAILNET_NAME that is neither the
default nor empty. Keys move in one direction only (`Steady`): an owner never
changes, a key that is not valid never becomes valid, one that is deleted stays so. `Good`
collects what a handler has learnt from its earlier calls: whose name the user
it resolved has, that the key it is about to remove is no longer valid, and,
with the default tailnet, that the only user there was owns the key, if it is
still there. `GoodStays` shows that everything in `Good` survives any `Steady`
step of others, so each action has to be looked at for its own request alone.
The two action properties follow from `Gently`, what a call may do to the keys.

`Gateway_proofs` proves `GatewayTypeCorrect`, `AccessProved` and
`RefusalsMeanRevoked` for any texts and tokens. For access: `Valid` leaves no
credential that is in force blank, so whatever the verdicts compare equal is
non-blank and was presented; and the store holds no token before somebody has
`proved`. For the refusals (`RefusalsCounted`): while the API key is good a
client has been refused at most once, for a token that was lost, and if it holds
a new one since then, that one is in the store.

`Lifecycle_proofs` proves `LifecycleTypeCorrect`, `NoAnswerLostToTheDrain` and
`LostExchanges` for any number of requests and of calls to headscale. No
request arrives during the drain, so one in flight is at least as old as
the drain, up to where ages stop being counted: when `DrainTimeout` ends the
process, whatever it cuts has outlived WriteTimeout. Of the other ways to end,
`Drained` cuts nothing and `ServerReturns` is not `Fatal` with the ErrServerClosed
of a drain. An exchange whose body came at once has spent no more time
than its calls may last.

`KeyExpiry_proofs` proves `LifetimesExact`, `ShownKeysWork` and
`OnlyOverflowExpires` for integers of any width and any length of a second and
of the default, from `WidthAssumption` alone, which says that the default's
Duration fits. `NoWrap` and `WrapFits` are what two's complement does to a value
that fits and to one that does not, `SecondsCutOff` that the cut to
whole seconds never promises too much. The invariant ties the three
parties together: headscale's key lapses when the request said, or was expired
since (`ExpiresAsAsked`), and what a client remembers is what it would be shown
now (`ShownIsCurrent`). `OnlyOverflowExpires` is the converse of the finding
`key_expiry_wrap`: nothing but the overflow makes a key that is born expired.

### The safety half of liveness

That something happens in the end is beyond the prover, as it needs fairness and
ENABLED. What can be proved for every value of the constants is the argument that
rests on them: a distance, which is finite, which no step of anybody makes
longer until the end is reached, and which each step of the one who is waiting
makes shorter. What is left to TLC is that a step can be taken and, by fairness,
is.

* `EntriesLapse` (for `LapsedTokensPurged`): an entry never changes, goes only
  when it has lapsed or with its replica, and a purge leaves no token that was
  more than TTL old when it read the time.
* `KeysApi_proofs!DeletesDrawNear` (for `DeletionConverges`): while the key of
  a repeated DELETE exists, and until headscale refuses one of its calls, no failure, crash or step of others makes it start
  over, but at the price of one of the finitely many faults. To rule out that the
  client stops too early `Good` also says when a request is answered 400.
* `DevicesApi_proofs!DeletesDrawNear` (for `DeletionsEnd`): only 401, or 200 or
  404 for a node that is gone, ends a repeated DELETE.
* `NobodyGoesInCircles` (for `RenewingClientServed`): what a waiting client is
  from being served, counting the losses of tokens still to come.
* `HandlersEnd` (for `AbandonedHandlersEnd`): the steps and answers left to a
  handler are bounded by the calls its code has and by its body, and one whose
  client has gone has something to do at once, whatever it was waiting for --
  except in a call made before the body is at its end, where the property says
  nothing either.
* `DrainGoesOn` (for `SignalEndsProcess`): only the end of the process ends a
  drain; it lets no request in, and its time goes on.

Only model-checked: that these ends are reached (`LapsedTokensPurged`,
`DeletionConverges`, `DeletionsEnd`, `RenewingClientServed`,
`SignalEndsProcess`, `AbandonedHandlersEnd`). All safety properties that a
passing run checks are theorems.

## Not modelled, and why

Of the code: metrics and their generated documentation, logging, the JSON
declarations, the copying of fields in the translations of nodes, users and
policies, the mock client and the integration helper under `integration/` (no
behaviour depends on them); which TLS files are used; the middleware that
recovers from panics (no handler panics in the model); base64, JSON and
big-number decoding, which are their outcome. `KeysApi` and `DevicesApi` let a
failed call take effect at once or never; only `PolicyApi` has it take effect later.

Of the hazards, these have no property:

* auth.go:113, a client that counts the token's lifetime from the arrival of the
  reply: the models' clients use a token until it is refused.
* keys.go:59, a create whose answer was lost is repeated and makes a second key:
  promised otherwise nowhere.
* keys.go:46, calls made while the body is unread outlive their client: in the
  model, and excepted by `AbandonedHandlersEnd`.
* client.go:139, the empty TAILNET_NAME: in the model, and excepted by
  `OtherTailnetsUntouched`.
* policy.go:56, a POST answered 500 that takes effect over another client's write:
  excepted by `TurnsKeepRules`, as the interface has no means against it.
* wif.go:158, a kid that is not in the key set costs two calls each time: no
  promise about their number is made anywhere.
* keys.go:173, with the default tailnet a second user stops a DELETE half-way:
  `DeletionConverges` is stated for a dedicated TAILNET_NAME, and fails without.
* devices.go:91, AuthorizeDevice registers for an owner who may have changed: what
  headscale does then cannot be told from this repository.
* policy.go:56, two overlapping read-modify-write cycles: the interface has no
  means against it, and `TurnsKeepRules` excludes it.
* policy.go:41, the default form of GET cannot be posted back: a matter of the
  texts.
* main.go:138, the signal before `signal.Notify`: in the model, but promised by
  nobody.
* metrics.go:58, one label set per path anybody tries: the metrics are not
  modelled.
