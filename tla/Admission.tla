------------------------------- MODULE Admission -------------------------------
(***************************************************************************)
(* Who gets a token and who gets past the middleware: the start-up check   *)
(* of the configuration (internal/config/config.go), the verdicts of the   *)
(* two token endpoints and of BearerAuthMiddleware (internal/api/auth.go,  *)
(* wif.go) and the order in which each looks for credentials.  Gateway     *)
(* puts them behind the router.  Time and the look-up in the token store   *)
(* are TokenStore's subject, the validation of a JWT is JWKSCache's; here  *)
(* the store is a set of tokens and a JWT is good or bad.                  *)
(***************************************************************************)
CONSTANTS
    Text,   \* strings a credential may be, "" and the blank " " among them
    Token   \* what generateToken returns, no text anybody could configure

ASSUME TextAssumption == {"", " "} \subseteq Text /\ Token \cap Text = {}

VARIABLES
    cfg,     \* the configuration read from the environment
    state,   \* "starting", "up", or "exited" when Load has returned an error
    store,   \* the tokens in the store
    proved   \* history: has any request presented what the operator configured?

\* Of the HMAC secret and the issuer URL only their blankness is looked at.
Config == [apiKey : Text, id : Text, secret : Text, hmacSet : BOOLEAN,
           wif : BOOLEAN, issuerSet : BOOLEAN, wifID : Text]

\* strings.TrimSpace
Trim(s) == IF s = " " THEN "" ELSE s
Blank(s) == Trim(s) = ""

\* A request has one Authorization header or none: a bearer token, or a Basic
\* user name and password; and the fields of its form, "" if missing: the route
\* does not look at the fields it has no use for.
Presented == Text \cup Token
NoHeader == [scheme |-> "none", user |-> "", password |-> ""]
Header ==
    {NoHeader} \cup [scheme : {"bearer"}, user : Presented, password : {""}]
               \cup [scheme : {"basic"}, user : Presented, password : Text]
Grant == {"client_credentials", "other"}
FormOf ==
    [oauth    |-> [grant : Grant, id : Text, secret : Text, jwt : {""}],
     exchange |-> [grant : Grant, id : Text, secret : {""}, jwt : {"", "good", "bad"}]]
NoForm == [grant |-> "other", id |-> "", secret |-> "", jwt |-> ""]

AdmissionInit ==
    /\ cfg \in Config
    /\ state = "starting"
    /\ store = {}
    /\ proved = FALSE

-------------------------------------------------------------------------------
(* config.Load.                                                             *)

\* Mutant: the WIF client id is not checked.
ValidWithoutWIF(c) ==
    ~ Blank(c.apiKey) /\ ~ Blank(c.id) /\ ~ Blank(c.secret) /\ c.hmacSet

Valid(c) ==
    /\ ~ Blank(c.apiKey) /\ ~ Blank(c.id) /\ ~ Blank(c.secret) /\ c.hmacSet
    /\ c.wif => c.issuerSet /\ ~ Blank(c.wifID)

Load ==
    /\ state = "starting"
    /\ state' = IF Valid(cfg) THEN "up" ELSE "exited"
    /\ UNCHANGED <<cfg, store, proved>>

-------------------------------------------------------------------------------
(* The verdicts.                                                            *)

\* r.BasicAuth() with a user name.
BasicUser(h) == IF h.scheme = "basic" THEN h.user ELSE ""

\* Mutant: the credentials in the form are not read.
BasicOnly(h, f) == [id |-> BasicUser(h), secret |-> h.password, ok |-> BasicUser(h) # ""]

\* parseOAuthCredentials: Basic Auth if it names a user, else the form.
OAuthCredentials(h, f) ==
    IF BasicUser(h) # "" THEN [id |-> h.user, secret |-> h.password, ok |-> TRUE]
    ELSE [id |-> f.id, secret |-> f.secret, ok |-> f.id # "" /\ f.secret # ""]

OAuthVerdict(h, f) ==
    LET c == OAuthCredentials(h, f) IN
    IF ~ c.ok \/ f.grant # "client_credentials" THEN 400
    ELSE IF c.id # cfg.id \/ c.secret # cfg.secret THEN 401 ELSE 200

\* The client id is the Basic user name, or else the form's.
ExchangeVerdict(h, f) ==
    LET id == IF BasicUser(h) # "" THEN h.user ELSE f.id IN
    IF ~ cfg.wif THEN 501
    ELSE IF f.grant # "client_credentials" \/ id = "" THEN 400
    ELSE IF id # cfg.wifID THEN 401
    ELSE IF f.jwt = "" THEN 400
    ELSE IF f.jwt = "bad" THEN 401 ELSE 200

\* extractBearerToken, or the Basic user name if there is no bearer token.
Credential(h) == IF h.scheme = "bearer" THEN Trim(h.user) ELSE BasicUser(h)

\* The API key of headscale, or a token from the store.
MiddlewareVerdict(h) ==
    IF Credential(h) = "" THEN 401
    ELSE IF Credential(h) = cfg.apiKey \/ Credential(h) \in store THEN 200 ELSE 401

-------------------------------------------------------------------------------
\* The request carries what the operator has configured -- and a blank text is
\* nothing an operator has configured.
Configured(text, setting) == text = setting /\ ~ Blank(setting)

Proves(h, f) ==
    \/ \E c \in {[id |-> h.user, secret |-> h.password], [id |-> f.id, secret |-> f.secret]} :
          Configured(c.id, cfg.id) /\ Configured(c.secret, cfg.secret)
    \/ /\ cfg.wif /\ f.jwt = "good"
       /\ Configured(h.user, cfg.wifID) \/ Configured(f.id, cfg.wifID)
    \/ Configured(h.user, cfg.apiKey)

\* Mutant: the token is derived from the client id.
FromId(t, h, f) == OAuthCredentials(h, f).id

\* generateToken: fresh, whoever asks for it.
Generated(t, h, f) == t

\* A request to a token endpoint; t is the token it will get, if any.
AskForToken(to, h, f, t) ==
    /\ state = "up"
    /\ LET v == IF to = "oauth" THEN OAuthVerdict(h, f) ELSE ExchangeVerdict(h, f)
       IN store' = IF v = 200 THEN store \cup {Generated(t, h, f)} ELSE store
    /\ proved' = (proved \/ Proves(h, f))
    /\ UNCHANGED <<cfg, state>>
===============================================================================
